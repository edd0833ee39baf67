---------------------------- MODULE PluginsProofs ----------------------------
(***************************************************************************)
(* Proofs about the plugins.                                               *)
(*                                                                         *)
(* PathTools: for paths of any length every loop along a path computes     *)
(* what it is for.  The loops are recursive functions on the indices of    *)
(* the path; what one of them computes is shown by induction along those   *)
(* indices, which IndexInduction states for a set of indices and Recursion *)
(* for a step function.                                                    *)
(*                                                                         *)
(* ControlNodes: what holds in the life of one node of a tree, of any size *)
(* and with any answers of its children.                                   *)
(*                                                                         *)
(* Checkers: for every range of poses, tolerances and allowances and any   *)
(* order of questions, resets and parameter changes, what a checker        *)
(* remembers of one goal decides no question about another.                *)
(***************************************************************************)
EXTENDS PathTools, ControlNodes, Checkers, WellFoundedInduction, TLAPS

-----------------------------------------------------------------------------
(* Induction, and recursion along the indices of a path, stated with sets  *)
(* and functions in place of predicates and operators.                     *)

LEMMA LeastNatural ==
  ASSUME NEW T, T \subseteq Nat, T # {}
  PROVE  \E k \in T : \A m \in T : k <= m
<1> DEFINE R == OpToRel(<, Nat)
<1>1. IsWellFoundedOn(R, Nat)
  BY NatLessThanWellFounded
<1>2. \A x, y \in Nat : x < y => <<x, y>> \in R
  BY DEF OpToRel
<1> HIDE DEF R
<1>3. PICK x \in T : \A y \in T : ~ (<<y, x>> \in R)
  BY <1>1, WFMin
<1>4. ASSUME NEW y \in T PROVE x <= y
  <2>1. x \in Nat /\ y \in Nat
    BY <1>3
  <2>2. ~ (y < x)
    BY <1>2, <1>3, <2>1
  <2> QED  BY <2>1, <2>2
<1> QED  BY <1>3, <1>4

LEMMA NaturalInduction ==
  ASSUME NEW S, 0 \in S, \A i \in Nat : i \in S => i + 1 \in S
  PROVE  \A i \in Nat : i \in S
<1> SUFFICES ASSUME NEW j \in Nat, j \notin S PROVE FALSE
  OBVIOUS
<1> DEFINE T == {i \in Nat : i \notin S}
<1>1. PICK k \in T : \A m \in T : k <= m
  <2>1. T \subseteq Nat /\ T # {}
    OBVIOUS
  <2> HIDE DEF T
  <2> QED  BY <2>1, LeastNatural
<1>2. k \in Nat /\ k # 0 /\ k \notin S
  OBVIOUS
<1>3. k - 1 \in Nat /\ ~ (k <= k - 1) /\ (k - 1) + 1 = k
  BY <1>2
<1>4. k - 1 \notin T
  <2> HIDE DEF T
  <2> QED  BY <1>1, <1>3
<1>5. k - 1 \in S
  BY <1>3, <1>4
<1> QED  BY <1>2, <1>3, <1>5

LEMMA LeastIndex ==
  ASSUME NEW lo \in Int, NEW hi \in Int, NEW T, T \subseteq lo .. hi, T # {}
  PROVE  \E k \in T : \A m \in T : k <= m
<1> DEFINE U == {x - lo : x \in T}
<1>1. U \subseteq Nat /\ U # {}
  OBVIOUS
<1>2. PICK u \in U : \A m \in U : u <= m
  <2> HIDE DEF U
  <2> QED  BY <1>1, LeastNatural
<1>3. PICK k \in T : u = k - lo
  BY <1>2
<1>4. ASSUME NEW m \in T PROVE k <= m
  <2>1. m \in Int /\ k \in Int /\ m - lo \in U
    OBVIOUS
  <2>2. u <= m - lo
    BY <1>2, <2>1
  <2> HIDE DEF U
  <2> QED  BY <1>3, <2>1, <2>2
<1> QED  BY <1>3, <1>4

LEMMA GreatestIndex ==
  ASSUME NEW lo \in Int, NEW hi \in Int, NEW T, T \subseteq lo .. hi, T # {}
  PROVE  \E k \in T : \A m \in T : m <= k
<1> DEFINE U == {hi - x : x \in T}
<1>1. U \subseteq Nat /\ U # {}
  OBVIOUS
<1>2. PICK u \in U : \A m \in U : u <= m
  <2> HIDE DEF U
  <2> QED  BY <1>1, LeastNatural
<1>3. PICK k \in T : u = hi - k
  BY <1>2
<1>4. ASSUME NEW m \in T PROVE m <= k
  <2>1. m \in Int /\ k \in Int /\ hi - m \in U
    OBVIOUS
  <2>2. u <= hi - m
    BY <1>2, <2>1
  <2> HIDE DEF U
  <2> QED  BY <1>3, <2>1, <2>2
<1> QED  BY <1>3, <1>4

LEMMA IndexInduction ==
  ASSUME NEW lo \in Int, NEW hi \in Int, NEW S, lo \in S,
         \A i \in lo + 1 .. hi : i - 1 \in S => i \in S
  PROVE  \A i \in lo .. hi : i \in S
<1> SUFFICES ASSUME NEW j \in lo .. hi, j \notin S PROVE FALSE
  OBVIOUS
<1> DEFINE T == {i \in lo .. hi : i \notin S}
<1>1. T \subseteq lo .. hi /\ T # {}
  OBVIOUS
<1>2. PICK k \in T : \A m \in T : k <= m
  <2> HIDE DEF T
  <2> QED  BY <1>1, LeastIndex
<1>3. k \in lo .. hi /\ k \notin S
  BY <1>2
<1>4. k # lo
  BY <1>3
<1>5. k \in lo + 1 .. hi /\ k - 1 \in lo .. hi
  BY <1>3, <1>4
<1>6. k - 1 \notin T
  <2> HIDE DEF T
  <2> QED  BY <1>2, <1>5
<1>7. k - 1 \in S
  BY <1>5, <1>6
<1> QED  BY <1>3, <1>5, <1>7

\* The functions that compute the value at an index from the one before, and
\* what a function defined by recursion with such a step satisfies.
Steps(lo, hi, V) == [(lo + 1 .. hi) \X V -> V]

Solves(f, lo, hi, V, a, step) ==
  /\ f \in [lo .. hi -> V]
  /\ f[lo] = a
  /\ \A i \in lo + 1 .. hi : f[i] = step[<<i, f[i - 1]>>]

\* A definition by recursion along lo .. hi has a solution.
LEMMA Recursion ==
  ASSUME NEW lo \in Int, NEW hi \in Int, lo <= hi, NEW V, NEW a \in V,
         NEW step \in Steps(lo, hi, V)
  PROVE  \E f : Solves(f, lo, hi, V, a, step)
<1> DEFINE Good(f, k) == Solves(f, lo, k, V, a, step)
           S == {k \in lo .. hi : \E f : Good(f, k)}
<1>0. step \in [(lo + 1 .. hi) \X V -> V]
  BY DEF Steps
<1>1. lo \in S
  <2> DEFINE f == [i \in lo .. lo |-> a]
  <2>1. Good(f, lo)
    BY DEF Solves
  <2> HIDE DEF f, Good
  <2> QED  BY <2>1
<1>2. ASSUME NEW k \in lo + 1 .. hi, k - 1 \in S PROVE k \in S
  <2>1. PICK f : Good(f, k - 1)
    <3> HIDE DEF Good
    <3> QED  BY <1>2
  <2>2. f \in [lo .. k - 1 -> V] /\ f[lo] = a /\ \A i \in lo + 1 .. k - 1 : f[i] = step[<<i, f[i - 1]>>]
    BY <2>1 DEF Solves
  <2>3. k \in Int /\ lo <= k - 1 /\ f[k - 1] \in V /\ step[<<k, f[k - 1]>>] \in V
    BY <1>0, <2>2
  <2> DEFINE g == [i \in lo .. k |-> IF i = k THEN step[<<k, f[k - 1]>>] ELSE f[i]]
  <2>4. g \in [lo .. k -> V]
    BY <2>2, <2>3
  <2>5. g[lo] = a
    BY <2>2, <2>3
  <2>6. ASSUME NEW i \in lo + 1 .. k PROVE g[i] = step[<<i, g[i - 1]>>]
    <3>1. i - 1 \in lo .. k /\ i - 1 # k /\ g[i - 1] = f[i - 1]
      BY <2>3
    <3>2. CASE i = k
      BY <3>1, <3>2
    <3>3. CASE i # k
      <4>1. i \in lo + 1 .. k - 1
        BY <3>3
      <4>2. g[i] = f[i] /\ f[i] = step[<<i, f[i - 1]>>]
        BY <2>2, <3>3, <4>1
      <4> QED  BY <3>1, <4>2
    <3> QED  BY <3>2, <3>3
  <2> HIDE DEF g
  <2>7. Good(g, k)
    BY <2>4, <2>5, <2>6 DEF Solves
  <2> HIDE DEF Good
  <2> QED  BY <2>7
<1> HIDE DEF S, Good
<1>3. hi \in S
  BY <1>1, <1>2, IndexInduction
<1> QED  BY <1>3 DEF S, Good

\* Where a loop stops.
IsFirst(e, S, otherwise) ==
  /\ S = {} => e = otherwise
  /\ S # {} => e \in S /\ \A j \in S : e <= j

LEMMA FirstOf ==
  ASSUME NEW S, S \subseteq Nat, NEW otherwise
  PROVE  IsFirst(first_of(S, otherwise), S, otherwise)
<1>1. CASE S = {}
  BY <1>1 DEF first_of, IsFirst
<1>2. CASE S # {}
  <2>1. \E k \in S : \A m \in S : k <= m
    BY <1>2, LeastNatural
  <2> QED  BY <1>2, <2>1 DEF first_of, IsFirst
<1> QED  BY <1>1, <1>2

-----------------------------------------------------------------------------
(* Distances along a path.                                                 *)

LEMMA Distance ==
  ASSUME NEW a \in Int, NEW b \in Int
  PROVE  euclidean_distance(a, b) \in Nat /\ euclidean_distance(a, b) = euclidean_distance(b, a)
  BY DEF euclidean_distance

\* The distances from a pose on solve their recursion.
LEMMA Travelled ==
  ASSUME NEW p \in Seq(Int), NEW b \in 1 .. Len(p)
  PROVE  /\ travelled(p, b) \in [b .. Len(p) -> Nat]
         /\ travelled(p, b)[b] = 0
         /\ \A i \in b + 1 .. Len(p) :
              travelled(p, b)[i] = travelled(p, b)[i - 1] + euclidean_distance(p[i - 1], p[i])
<1> DEFINE n == Len(p)
           step == [x \in (b + 1 .. n) \X Nat |-> x[2] + euclidean_distance(p[x[1] - 1], p[x[1]])]
<1>1. n \in Int /\ b \in Int /\ 1 <= b /\ b <= n /\ p \in [1 .. n -> Int]
  OBVIOUS
<1> HIDE DEF n
<1>2. \A i \in b + 1 .. n : i - 1 \in 1 .. n /\ i \in 1 .. n /\ i - 1 \in b .. n
  BY <1>1
<1>3. \A i \in b + 1 .. n : euclidean_distance(p[i - 1], p[i]) \in Nat
  BY <1>1, <1>2, Distance
<1>4. step \in Steps(b, n, Nat)
  <2>1. ASSUME NEW x \in (b + 1 .. n) \X Nat
        PROVE  x[2] + euclidean_distance(p[x[1] - 1], p[x[1]]) \in Nat
    <3>1. x[1] \in b + 1 .. n /\ x[2] \in Nat
      OBVIOUS
    <3>2. euclidean_distance(p[x[1] - 1], p[x[1]]) \in Nat
      BY <1>3, <3>1
    <3> QED  BY <3>1, <3>2
  <2> QED  BY <2>1 DEF Steps
<1>5. PICK f : Solves(f, b, n, Nat, 0, step)
  <2> HIDE DEF step
  <2> QED  BY <1>1, <1>4, Recursion
<1> DEFINE h == [i \in b .. n |-> IF i = b THEN 0 ELSE f[i - 1] + euclidean_distance(p[i - 1], p[i])]
<1>6. f = h
  <2>1. ASSUME NEW i \in b .. n PROVE f[i] = h[i]
    <3>1. CASE i = b
      BY <1>1, <1>5, <3>1 DEF Solves
    <3>2. CASE i # b
      <4>1. i \in b + 1 .. n /\ f[i - 1] \in Nat
        BY <1>1, <1>5, <3>2 DEF Solves
      <4>2. f[i] = step[<<i, f[i - 1]>>]
        <5> HIDE DEF step
        <5> QED  BY <1>5, <4>1 DEF Solves
      <4>3. step[<<i, f[i - 1]>>] = f[i - 1] + euclidean_distance(p[i - 1], p[i])
        BY <4>1
      <4> HIDE DEF step
      <4> QED  BY <3>2, <4>2, <4>3
    <3> QED  BY <3>1, <3>2
  <2>2. f = [i \in b .. n |-> f[i]]
    BY <1>5 DEF Solves
  <2> QED  BY <2>1, <2>2
<1>7. \E g : g = [i \in b .. n |-> IF i = b THEN 0 ELSE g[i - 1] + euclidean_distance(p[i - 1], p[i])]
  BY <1>6
<1> DEFINE d == travelled(p, b)
<1>8. d = [i \in b .. n |-> IF i = b THEN 0 ELSE d[i - 1] + euclidean_distance(p[i - 1], p[i])]
  BY <1>7 DEF travelled, n
<1> HIDE DEF d
<1>9. d[b] = 0 /\ \A i \in b + 1 .. n : d[i] = d[i - 1] + euclidean_distance(p[i - 1], p[i])
  BY <1>1, <1>2, <1>8
<1> DEFINE S == {i \in b .. n : d[i] \in Nat}
<1>10. \A i \in b .. n : i \in S
  <2>1. b \in S
    BY <1>1, <1>9
  <2>2. ASSUME NEW i \in b + 1 .. n, i - 1 \in S PROVE i \in S
    <3>1. d[i] = d[i - 1] + euclidean_distance(p[i - 1], p[i]) /\ d[i - 1] \in Nat /\ i \in b .. n
      BY <1>1, <1>9, <2>2
    <3> QED  BY <1>3, <3>1
  <2> HIDE DEF S
  <2> QED  BY <1>1, <2>1, <2>2, IndexInduction
<1>11. d \in [b .. n -> Nat]
  BY <1>8, <1>10
<1> QED  BY <1>9, <1>11 DEF n, d

\* What a walk adds up from a pose on is the difference of what it has added up
\* from the start.
LEMMA TravelledDifference ==
  ASSUME NEW p \in Seq(Int), NEW b \in 1 .. Len(p)
  PROVE  \A i \in b .. Len(p) : travelled(p, b)[i] = travelled(p, 1)[i] - travelled(p, 1)[b]
<1> DEFINE n == Len(p)
           d == travelled(p, b)
           t == travelled(p, 1)
           S == {i \in b .. n : d[i] = t[i] - t[b]}
<1>1. n \in Int /\ b \in 1 .. n /\ 1 \in 1 .. n
  OBVIOUS
<1>2. /\ d \in [b .. n -> Nat] /\ d[b] = 0
      /\ \A i \in b + 1 .. n : d[i] = d[i - 1] + euclidean_distance(p[i - 1], p[i])
  BY Travelled
<1>3. /\ t \in [1 .. n -> Nat]
      /\ \A i \in 2 .. n : t[i] = t[i - 1] + euclidean_distance(p[i - 1], p[i])
  BY <1>1, Travelled
<1>4. p \in [1 .. n -> Int]
  OBVIOUS
<1> HIDE DEF n, d, t
<1>5. b \in S
  BY <1>1, <1>2, <1>3
<1>6. ASSUME NEW i \in b + 1 .. n, i - 1 \in S PROVE i \in S
  <2>1. i \in 2 .. n /\ i \in b .. n /\ i \in 1 .. n /\ i - 1 \in 1 .. n /\ i - 1 \in b .. n /\ b \in 1 .. n
    BY <1>1
  <2> DEFINE e == euclidean_distance(p[i - 1], p[i])
  <2>2. e \in Nat
    BY <1>4, <2>1, Distance
  <2>3. d[i] = d[i - 1] + e /\ t[i] = t[i - 1] + e /\ d[i - 1] = t[i - 1] - t[b]
    BY <1>2, <1>3, <1>6, <2>1
  <2>4. d[i - 1] \in Nat /\ t[i - 1] \in Nat /\ t[b] \in Nat
    BY <1>2, <1>3, <2>1
  <2> HIDE DEF e
  <2>5. d[i] = t[i] - t[b]
    BY <2>2, <2>3, <2>4
  <2> QED  BY <2>1, <2>5
<1>7. \A i \in b .. n : i \in S
  <2> HIDE DEF S
  <2> QED  BY <1>1, <1>5, <1>6, IndexInduction
<1> QED  BY <1>7 DEF n, d, t

\* Distances along a path do not decrease.
LEMMA TravelledMonotone ==
  ASSUME NEW p \in Seq(Int), NEW i \in 1 .. Len(p), NEW j \in i .. Len(p)
  PROVE  travelled(p, 1)[i] \in Nat /\ travelled(p, 1)[j] \in Nat /\ travelled(p, 1)[i] <= travelled(p, 1)[j]
<1>1. 1 \in 1 .. Len(p) /\ j \in 1 .. Len(p) /\ i \in Int
  OBVIOUS
<1>2. travelled(p, 1) \in [1 .. Len(p) -> Nat] /\ travelled(p, i) \in [i .. Len(p) -> Nat]
  BY <1>1, Travelled
<1>3. travelled(p, i)[j] = travelled(p, 1)[j] - travelled(p, 1)[i]
  BY TravelledDifference
<1>4. travelled(p, i)[j] \in Nat /\ travelled(p, 1)[j] \in Nat /\ travelled(p, 1)[i] \in Nat
  BY <1>1, <1>2
<1> QED  BY <1>3, <1>4

\* first_after_integrated_distance: up to the pose it returns the path is not
\* longer than the threshold, from there on it is.
LEMMA FirstAfter ==
  ASSUME NEW p \in Seq(Int), NEW b \in 1 .. Len(p), NEW threshold \in Nat,
         NEW e, e = first_after_integrated_distance(p, b, Len(p) + 1, threshold)
  PROVE  /\ e \in b + 1 .. Len(p) + 1
         /\ \A i \in b .. e - 1 : travelled(p, 1)[i] - travelled(p, 1)[b] <= threshold
         /\ \A i \in e .. Len(p) : travelled(p, 1)[i] - travelled(p, 1)[b] > threshold
<1> DEFINE n == Len(p)
           t == travelled(p, 1)
           d == travelled(p, b)
           S == {it \in b + 1 .. (n + 1) - 1 : d[it] > threshold}
<1>1. n \in Nat /\ b \in 1 .. n
  OBVIOUS
<1>2. \A i \in b .. n : d[i] = t[i] - t[b]
  BY TravelledDifference
<1>3. \A i \in 1 .. n : t[i] \in Nat
  BY TravelledMonotone
<1>4. \A i \in 1 .. n : \A j \in i .. n : t[i] <= t[j]
  BY TravelledMonotone
<1>5. e = first_of(S, n + 1)
  BY DEF first_after_integrated_distance
<1> HIDE DEF n, t, d
<1>6. S \subseteq b .. n /\ b \notin S
  BY <1>1
<1>7. /\ S = {} => e = n + 1
      /\ S # {} => e \in S /\ \A j \in S : e <= j
  <2>1. S \subseteq Nat
    BY <1>1, <1>6
  <2> HIDE DEF S
  <2>2. IsFirst(e, S, n + 1)
    BY <1>5, <2>1, FirstOf
  <2> QED  BY <2>2 DEF IsFirst
<1>8. e \in b + 1 .. n + 1
  BY <1>1, <1>6, <1>7
<1>9. ASSUME NEW i \in b .. e - 1 PROVE t[i] - t[b] <= threshold
  <2>1. i \in b .. n /\ i \in 1 .. n /\ b \in 1 .. n
    BY <1>1, <1>8
  <2>2. CASE i = b
    BY <1>3, <2>1, <2>2
  <2>3. CASE i # b
    <3>1. i \notin S
      <4> HIDE DEF S
      <4> QED  BY <1>6, <1>7, <1>8, <2>1
    <3>2. ~ (d[i] > threshold)
      BY <1>1, <2>1, <2>3, <3>1
    <3>3. d[i] = t[i] - t[b] /\ t[i] \in Nat /\ t[b] \in Nat
      BY <1>2, <1>3, <2>1
    <3> QED  BY <3>2, <3>3
  <2> QED  BY <2>2, <2>3
<1>10. ASSUME NEW i \in e .. n PROVE t[i] - t[b] > threshold
  <2>1. e \in 1 .. n /\ i \in 1 .. n /\ b \in 1 .. n /\ e \in b .. n
    BY <1>1, <1>8
  <2>2. e \in S
    <3> HIDE DEF S
    <3> QED  BY <1>1, <1>7, <2>1
  <2>3. d[e] > threshold /\ d[e] = t[e] - t[b]
    BY <1>2, <2>1, <2>2
  <2>4. t[e] <= t[i] /\ t[e] \in Nat /\ t[i] \in Nat /\ t[b] \in Nat
    BY <1>3, <1>4, <2>1
  <2> QED  BY <2>3, <2>4
<1> QED  BY <1>8, <1>9, <1>10 DEF n, t

\* min_by: no pose of the range is nearer than the one it returns.
LEMMA MinBy ==
  ASSUME NEW p \in Seq(Int), NEW b \in 1 .. Len(p), NEW e \in b + 1 .. Len(p) + 1, NEW at \in Int
  PROVE  /\ min_by(p, b, e, at) \in b .. e - 1
         /\ \A i \in b .. e - 1 :
              euclidean_distance(p[min_by(p, b, e, at)], at) <= euclidean_distance(p[i], at)
<1> DEFINE n == Len(p)
           D(i) == euclidean_distance(p[i], at)
           hi == e - 1
           V == b .. hi
           step == [x \in (b + 1 .. hi) \X V |-> IF D(x[1]) <= D(x[2]) THEN x[1] ELSE x[2]]
<1>1. n \in Int /\ b \in Int /\ hi \in Int /\ 1 <= b /\ b <= hi /\ hi <= n /\ e # b /\ e - 1 = hi
  OBVIOUS
<1>2. \A i \in V : D(i) \in Nat
  <2>1. \A i \in V : p[i] \in Int
    BY <1>1
  <2> QED  BY <2>1, Distance
<1> HIDE DEF n, hi, D
<1>3. step \in Steps(b, hi, V)
  <2>1. ASSUME NEW x \in (b + 1 .. hi) \X V PROVE x[1] \in V /\ x[2] \in V
    BY <1>1
  <2> QED  BY <2>1 DEF Steps
<1>4. b \in V
  BY <1>1
<1>5. PICK f : Solves(f, b, hi, V, b, step)
  <2> HIDE DEF step, V
  <2> QED  BY <1>1, <1>3, <1>4, Recursion
<1> DEFINE h == [i \in b .. hi |-> IF i = b THEN b ELSE IF D(i) <= D(f[i - 1]) THEN i ELSE f[i - 1]]
<1>6. f = h
  <2>1. ASSUME NEW i \in b .. hi PROVE f[i] = h[i]
    <3>1. CASE i = b
      BY <1>1, <1>5, <3>1 DEF Solves
    <3>2. CASE i # b
      <4>1. i \in b + 1 .. hi /\ f[i - 1] \in V
        BY <1>1, <1>5, <3>2 DEF Solves
      <4>2. f[i] = step[<<i, f[i - 1]>>]
        <5> HIDE DEF step
        <5> QED  BY <1>5, <4>1 DEF Solves
      <4>3. step[<<i, f[i - 1]>>] = IF D(i) <= D(f[i - 1]) THEN i ELSE f[i - 1]
        BY <4>1
      <4> HIDE DEF step
      <4> QED  BY <3>2, <4>2, <4>3
    <3> QED  BY <3>1, <3>2
  <2>2. f = [i \in b .. hi |-> f[i]]
    BY <1>5 DEF Solves
  <2> QED  BY <2>1, <2>2
<1>7. \E g : g = [i \in b .. hi |-> IF i = b THEN b ELSE IF D(i) <= D(g[i - 1]) THEN i ELSE g[i - 1]]
  BY <1>6
<1>8. PICK g : /\ g = [i \in b .. hi |-> IF i = b THEN b ELSE IF D(i) <= D(g[i - 1]) THEN i ELSE g[i - 1]]
               /\ min_by(p, b, e, at) = g[hi]
  BY <1>1, <1>7 DEF min_by, D, hi
<1> DEFINE S == {i \in b .. hi : g[i] \in V /\ \A j \in b .. i : D(g[i]) <= D(j)}
<1>9. b \in S
  <2>1. g[b] = b
    BY <1>1, <1>8
  <2>2. \A j \in b .. b : j = b
    BY <1>1
  <2>3. D(b) <= D(b)
    BY <1>2, <1>4
  <2> QED  BY <1>1, <1>4, <2>1, <2>2, <2>3
<1>10. ASSUME NEW i \in b + 1 .. hi, i - 1 \in S PROVE i \in S
  <2>0. i \in b .. hi /\ i # b
    BY <1>1
  <2>1. g[i] = IF D(i) <= D(g[i - 1]) THEN i ELSE g[i - 1]
    BY <1>8, <2>0
  <2>2. i \in V /\ g[i - 1] \in V /\ \A j \in b .. i - 1 : D(g[i - 1]) <= D(j)
    BY <1>1, <1>10
  <2>3. \A j \in b .. i : j = i \/ j \in b .. i - 1
    BY <1>1
  <2>4. b .. i \subseteq V
    BY <1>1
  <2>5. D(i) \in Nat /\ D(g[i - 1]) \in Nat /\ \A j \in b .. i : D(j) \in Nat
    BY <1>2, <2>2, <2>4
  <2>6. g[i] \in V
    BY <2>1, <2>2
  <2>7. ASSUME NEW j \in b .. i PROVE D(g[i]) <= D(j)
    <3>1. D(g[i]) <= D(i) /\ D(g[i]) <= D(g[i - 1])
      BY <2>1, <2>5
    <3>2. D(g[i]) \in Nat
      BY <1>2, <2>6
    <3>3. CASE j = i
      BY <3>1, <3>3
    <3>4. CASE j \in b .. i - 1
      <4>1. D(g[i - 1]) <= D(j)
        BY <2>2, <3>4
      <4> QED  BY <2>5, <3>1, <3>2, <4>1
    <3> QED  BY <2>3, <3>3, <3>4
  <2> QED  BY <2>2, <2>6, <2>7
<1>11. \A i \in b .. hi : i \in S
  <2> HIDE DEF S
  <2> QED  BY <1>1, <1>9, <1>10, IndexInduction
<1>12. hi \in S
  BY <1>1, <1>11
<1> QED  BY <1>8, <1>12 DEF D, hi

\* Walking back from a pose adds up the same distances.
LEMMA ReversedWalk ==
  ASSUME NEW p \in Seq(Int), NEW at \in 1 .. Len(p), NEW r, r = Reverse(SubSeq(p, 1, at))
  PROVE  /\ r \in Seq(Int) /\ Len(r) = at
         /\ \A k \in 1 .. at : travelled(r, 1)[k] = travelled(p, 1)[at] - travelled(p, 1)[(at + 1) - k]
<1> DEFINE n == Len(p)
           t == travelled(p, 1)
           w == travelled(r, 1)
           S == {k \in 1 .. at : w[k] = t[at] - t[(at + 1) - k]}
           q == SubSeq(p, 1, at)
<1>1. n \in Nat /\ at \in 1 .. n /\ 1 \in 1 .. n /\ p \in [1 .. n -> Int]
  OBVIOUS
<1>2. q \in Seq(Int) /\ Len(q) = at /\ \A k \in 1 .. at : q[k] = p[k]
  OBVIOUS
<1> HIDE DEF q
<1>3. r = [k \in 1 .. at |-> q[(at - k) + 1]]
  BY <1>2 DEF Reverse, q
<1>4. \A k \in 1 .. at : r[k] = p[(at + 1) - k]
  BY <1>1, <1>2, <1>3
<1>5. r \in Seq(Int) /\ Len(r) = at
  <2>1. r \in [1 .. at -> Int]
    BY <1>1, <1>2, <1>3
  <2> QED  BY <1>1, <2>1
<1>6. /\ w \in [1 .. at -> Nat] /\ w[1] = 0
      /\ \A i \in 2 .. at : w[i] = w[i - 1] + euclidean_distance(r[i - 1], r[i])
  <2>1. 1 \in 1 .. Len(r)
    BY <1>1, <1>5
  <2>2. /\ w \in [1 .. Len(r) -> Nat] /\ w[1] = 0
        /\ \A i \in 2 .. Len(r) : w[i] = w[i - 1] + euclidean_distance(r[i - 1], r[i])
    BY <1>5, <2>1, Travelled
  <2> QED  BY <1>5, <2>2
<1>7. /\ t \in [1 .. n -> Nat]
      /\ \A i \in 2 .. n : t[i] = t[i - 1] + euclidean_distance(p[i - 1], p[i])
  BY <1>1, Travelled
<1> HIDE DEF n, t, w
<1>8. 1 \in S
  <2>1. (at + 1) - 1 = at /\ t[at] \in Nat /\ 1 \in 1 .. at
    BY <1>1, <1>7
  <2> QED  BY <1>6, <2>1
<1>9. ASSUME NEW k \in 2 .. at, k - 1 \in S PROVE k \in S
  <2> DEFINE m == (at + 1) - k
  <2>1. m \in Nat /\ m + 1 \in 2 .. n /\ m \in 1 .. n /\ m + 1 \in 1 .. n /\ m + 1 = (at + 1) - (k - 1)
        /\ k \in 1 .. at /\ k - 1 \in 1 .. at /\ (m + 1) - 1 = m
    BY <1>1
  <2> DEFINE e == euclidean_distance(p[m], p[m + 1])
  <2>2. r[k] = p[m] /\ r[k - 1] = p[m + 1]
    BY <1>4, <2>1
  <2>3. e \in Nat /\ euclidean_distance(r[k - 1], r[k]) = e
    BY <1>1, <2>1, <2>2, Distance
  <2>4. w[k] = w[k - 1] + e /\ t[m + 1] = t[m] + e
    BY <1>6, <1>7, <2>1, <2>3
  <2>5. w[k - 1] = t[at] - t[m + 1]
    BY <1>9, <2>1
  <2>6. t[at] \in Nat /\ t[m] \in Nat /\ t[m + 1] \in Nat
    BY <1>1, <1>7, <2>1
  <2> HIDE DEF e, m
  <2>7. w[k] = t[at] - t[m]
    BY <2>3, <2>4, <2>5, <2>6
  <2> QED  BY <2>1, <2>7 DEF m
<1>10. \A k \in 1 .. at : k \in S
  <2>1. 1 \in Int /\ at \in Int
    BY <1>1
  <2>2. \A k \in 1 + 1 .. at : k - 1 \in S => k \in S
    BY <1>9
  <2> HIDE DEF S
  <2> QED  BY <1>8, <2>1, <2>2, IndexInduction
<1> QED  BY <1>5, <1>10 DEF t, w

\* The part of the path behind the closest pose.
LEMMA Backward ==
  ASSUME NEW p \in Seq(Int), NEW at \in 1 .. Len(p), NEW backward \in Nat,
         NEW first, first = truncate_backward(p, at, backward)
  PROVE  /\ first \in 1 .. at
         /\ travelled(p, 1)[at] - travelled(p, 1)[first] <= backward
         /\ first > 1 => travelled(p, 1)[at] - travelled(p, 1)[first - 1] > backward
<1> DEFINE r == Reverse(SubSeq(p, 1, at))
           t == travelled(p, 1)
           w == travelled(r, 1)
           e == first_after_integrated_distance(r, 1, at + 1, backward)
<1>0. r = Reverse(SubSeq(p, 1, at))
  OBVIOUS
<1>2. first = at + (2 - e)
  BY DEF truncate_backward
<1> HIDE DEF r
<1>1. /\ r \in Seq(Int) /\ Len(r) = at
      /\ \A k \in 1 .. at : w[k] = t[at] - t[(at + 1) - k]
  BY <1>0, ReversedWalk
<1>3. 1 \in 1 .. Len(r) /\ at \in Nat
  BY <1>1
<1>4. /\ e \in 2 .. at + 1
      /\ \A i \in 1 .. e - 1 : w[i] - w[1] <= backward
      /\ \A i \in e .. at : w[i] - w[1] > backward
  <2>1. e = first_after_integrated_distance(r, 1, Len(r) + 1, backward)
    BY <1>1
  <2> HIDE DEF e
  <2>2. /\ e \in 1 + 1 .. Len(r) + 1
        /\ \A i \in 1 .. e - 1 : w[i] - w[1] <= backward
        /\ \A i \in e .. Len(r) : w[i] - w[1] > backward
    BY <1>1, <1>3, <2>1, FirstAfter
  <2> QED  BY <1>1, <2>2
<1>5. w[1] = 0 /\ w \in [1 .. at -> Nat]
  BY <1>1, <1>3, Travelled
<1> HIDE DEF e, w, t
<1>6. first \in 1 .. at
  BY <1>2, <1>3, <1>4
<1>7. t[at] - t[first] <= backward
  <2>1. e - 1 \in 1 .. at /\ e - 1 \in 1 .. e - 1 /\ (at + 1) - (e - 1) = first
    BY <1>2, <1>3, <1>4
  <2>2. w[e - 1] = t[at] - t[first] /\ w[e - 1] - w[1] <= backward /\ w[e - 1] \in Nat
    BY <1>1, <1>4, <1>5, <2>1
  <2> QED  BY <1>5, <2>2
<1>8. ASSUME first > 1 PROVE t[at] - t[first - 1] > backward
  <2>1. e \in 1 .. at /\ e \in e .. at /\ (at + 1) - e = first - 1
    BY <1>2, <1>3, <1>4, <1>8
  <2>2. w[e] = t[at] - t[first - 1] /\ w[e] - w[1] > backward /\ w[e] \in Nat
    BY <1>1, <1>4, <1>5, <2>1
  <2> QED  BY <1>5, <2>2
<1> QED  BY <1>6, <1>7, <1>8 DEF t

\* TruncatePathLocal: LocalCorrect of its result.
LEMMA LocalTool ==
  ASSUME poses \in Seq(Int), robot \in Int, NEW mode, NEW forward \in Nat, NEW backward \in Nat,
         NEW search \in Nat, local_begin(poses, search) \in 1 .. Len(poses),
         NEW c, c = [mode |-> mode, forward |-> forward, backward |-> backward, search |-> search,
                     from |-> local_begin(poses, search),
                     out |-> TruncatePathLocal(poses, mode, forward, backward, search)]
  PROVE  LocalCorrect(c) /\ c.out.at \in 1 .. Len(poses)
<1> DEFINE n == Len(poses)
           t == travelled(poses, 1)
           b == local_begin(poses, search)
           e == first_after_integrated_distance(poses, b, n + 1, search)
           at == min_by(poses, b, e, robot)
           end == first_after_integrated_distance(poses, at, n + 1, forward)
           first == IF mode = "remaining" THEN at ELSE truncate_backward(poses, at, backward)
           searched == {i \in b .. n : Integrated(b, i) <= search}
<1>1. n \in Nat /\ b \in 1 .. n
  OBVIOUS
<1>2. c.out = [at |-> at, first |-> first, last |-> end - 1]
  BY DEF TruncatePathLocal, truncate_closest
<1>3. \A i, j \in 1 .. n : Integrated(i, j) = t[j] - t[i]
  BY DEF Integrated
<1>4. \A i \in 1 .. n : t[i] \in Nat
  BY TravelledMonotone
<1> HIDE DEF n, b
<1>5. /\ e \in b + 1 .. n + 1
      /\ \A i \in b .. e - 1 : t[i] - t[b] <= search
      /\ \A i \in e .. n : t[i] - t[b] > search
  BY <1>1, FirstAfter DEF n
<1> HIDE DEF e
<1>6. /\ at \in b .. e - 1
      /\ \A i \in b .. e - 1 : euclidean_distance(poses[at], robot) <= euclidean_distance(poses[i], robot)
  BY <1>1, <1>5, MinBy DEF n
<1> HIDE DEF at
<1>7. at \in 1 .. n /\ at \in b .. n
  BY <1>1, <1>5, <1>6
<1>8. /\ end \in at + 1 .. n + 1
      /\ \A i \in at .. end - 1 : t[i] - t[at] <= forward
      /\ \A i \in end .. n : t[i] - t[at] > forward
  BY <1>7, FirstAfter DEF n
<1>9. /\ first \in 1 .. at
      /\ mode = "local" => /\ t[at] - t[first] <= backward
                           /\ first > 1 => t[at] - t[first - 1] > backward
  <2>1. CASE mode = "remaining"
    BY <1>1, <1>7, <2>1
  <2>2. CASE mode # "remaining"
    BY <1>7, <2>2, Backward DEF n
  <2> QED  BY <2>1, <2>2
<1> HIDE DEF end, first
<1>10. searched = b .. e - 1
  <2>1. ASSUME NEW i \in b .. n PROVE i \in b .. e - 1 <=> Integrated(b, i) <= search
    <3>1. i \in 1 .. n /\ Integrated(b, i) = t[i] - t[b] /\ t[i] \in Nat /\ t[b] \in Nat
      BY <1>1, <1>3, <1>4
    <3>2. CASE i \in b .. e - 1
      BY <1>5, <3>1, <3>2
    <3>3. CASE i \in e .. n
      <4>1. t[i] - t[b] > search /\ i \notin b .. e - 1
        BY <1>5, <3>3
      <4> QED  BY <3>1, <4>1
    <3> QED  BY <1>5, <3>2, <3>3
  <2>2. b .. e - 1 \subseteq b .. n
    BY <1>1, <1>5
  <2> QED  BY <2>1, <2>2
<1> HIDE DEF searched, t
<1>11. at \in searched
       /\ \A i \in searched : euclidean_distance(poses[at], robot) <= euclidean_distance(poses[i], robot)
  BY <1>6, <1>10
<1>12. first <= at /\ at <= end - 1 /\ end - 1 <= n
  BY <1>1, <1>7, <1>8, <1>9
<1>13. Integrated(at, end - 1) <= forward
  <2>1. end - 1 \in at .. end - 1 /\ end - 1 \in 1 .. n
    BY <1>1, <1>7, <1>8
  <2> QED  BY <1>3, <1>7, <1>8, <2>1
<1>14. end - 1 < n => Integrated(at, (end - 1) + 1) > forward
  <2> HAVE end - 1 < n
  <2>1. end \in end .. n /\ end \in 1 .. n /\ (end - 1) + 1 = end
    BY <1>1, <1>7, <1>8
  <2> QED  BY <1>3, <1>7, <1>8, <2>1
<1>15. mode = "local" => Integrated(first, at) <= backward
                         /\ (first > 1 => Integrated(first - 1, at) > backward)
  <2>1. first \in 1 .. n /\ (first > 1 => first - 1 \in 1 .. n)
    BY <1>1, <1>7, <1>9
  <2> QED  BY <1>3, <1>7, <1>9, <2>1
<1>16. c.mode = mode /\ c.forward = forward /\ c.backward = backward /\ c.search = search
       /\ c.from = b /\ c.out.at = at /\ c.out.first = first /\ c.out.last = end - 1
  BY <1>2 DEF b
<1> QED
  BY <1>7, <1>11, <1>12, <1>13, <1>14, <1>15, <1>16 DEF LocalCorrect, searched, n

\* find_closest_pose_idx: the first of the poses that are closest to the robot.
LEMMA FindClosest ==
  ASSUME NEW p \in Seq(Int), p # <<>>, robot \in Int, NEW k, k = find_closest_pose_idx(p)
  PROVE  /\ k \in 1 .. Len(p)
         /\ \A j \in 1 .. Len(p) : euclidean_distance(robot, p[k]) <= euclidean_distance(robot, p[j])
         /\ \A j \in 1 .. k - 1 : euclidean_distance(robot, p[k]) < euclidean_distance(robot, p[j])
<1> DEFINE n == Len(p)
           D(i) == euclidean_distance(robot, p[i])
           V == 1 .. n
           step == [x \in (1 + 1 .. n) \X V |-> IF D(x[1]) < D(x[2]) THEN x[1] ELSE x[2]]
<1>1. n \in Int /\ 1 \in Int /\ 1 <= n /\ 1 \in V /\ DOMAIN p = 1 .. n
  OBVIOUS
<1>2. \A i \in V : D(i) \in Nat
  <2>1. \A i \in V : p[i] \in Int
    BY <1>1
  <2> QED  BY <2>1, Distance
<1> HIDE DEF n, D
<1>3. step \in Steps(1, n, V)
  <2>1. ASSUME NEW x \in (1 + 1 .. n) \X V PROVE x[1] \in V /\ x[2] \in V
    BY <1>1
  <2> QED  BY <2>1 DEF Steps
<1>4. PICK f : Solves(f, 1, n, V, 1, step)
  <2> HIDE DEF step, V
  <2> QED  BY <1>1, <1>3, Recursion
<1> DEFINE h == [i \in 1 .. n |-> IF i = 1 THEN 1 ELSE IF D(i) < D(f[i - 1]) THEN i ELSE f[i - 1]]
<1>5. f = h
  <2>1. ASSUME NEW i \in 1 .. n PROVE f[i] = h[i]
    <3>1. CASE i = 1
      BY <1>1, <1>4, <3>1 DEF Solves
    <3>2. CASE i # 1
      <4>1. i \in 1 + 1 .. n /\ f[i - 1] \in V
        BY <1>1, <1>4, <3>2 DEF Solves
      <4>2. f[i] = step[<<i, f[i - 1]>>]
        <5> HIDE DEF step
        <5> QED  BY <1>4, <4>1 DEF Solves
      <4>3. step[<<i, f[i - 1]>>] = IF D(i) < D(f[i - 1]) THEN i ELSE f[i - 1]
        BY <4>1
      <4> HIDE DEF step
      <4> QED  BY <3>2, <4>2, <4>3
    <3> QED  BY <3>1, <3>2
  <2>2. f = [i \in 1 .. n |-> f[i]]
    BY <1>4 DEF Solves
  <2> QED  BY <2>1, <2>2
<1>6. \E g : g = [i \in DOMAIN p |-> IF i = 1 THEN 1 ELSE IF D(i) < D(g[i - 1]) THEN i ELSE g[i - 1]]
  BY <1>1, <1>5
<1>7. PICK g : /\ g = [i \in DOMAIN p |-> IF i = 1 THEN 1 ELSE IF D(i) < D(g[i - 1]) THEN i ELSE g[i - 1]]
               /\ k = g[n]
  BY <1>6 DEF find_closest_pose_idx, D, n
<1> DEFINE S == {i \in 1 .. n : /\ g[i] \in 1 .. i
                                /\ \A j \in 1 .. i : D(g[i]) <= D(j)
                                /\ \A j \in 1 .. g[i] - 1 : D(g[i]) < D(j)}
<1>8. 1 \in S
  <2>1. g[1] = 1
    BY <1>1, <1>7
  <2>2. \A j \in 1 .. 1 : j = 1
    OBVIOUS
  <2>3. D(1) <= D(1)
    BY <1>1, <1>2
  <2> QED  BY <1>1, <2>1, <2>2, <2>3
<1>9. ASSUME NEW i \in 1 + 1 .. n, i - 1 \in S PROVE i \in S
  <2>1. i \in 1 .. n /\ i # 1 /\ i \in DOMAIN p /\ i \in V
    BY <1>1
  <2>2. g[i] = IF D(i) < D(g[i - 1]) THEN i ELSE g[i - 1]
    BY <1>7, <2>1
  <2>3. /\ g[i - 1] \in 1 .. i - 1
        /\ \A j \in 1 .. i - 1 : D(g[i - 1]) <= D(j)
        /\ \A j \in 1 .. g[i - 1] - 1 : D(g[i - 1]) < D(j)
    BY <1>9
  <2>4. 1 .. i \subseteq V /\ g[i - 1] \in V /\ 1 .. i = (1 .. i - 1) \cup {i}
    BY <1>1, <2>3
  <2>5. D(i) \in Nat /\ D(g[i - 1]) \in Nat /\ \A j \in 1 .. i : D(j) \in Nat
    BY <1>2, <2>1, <2>4
  <2>6. CASE D(i) < D(g[i - 1])
    <3>1. g[i] = i
      BY <2>2, <2>6
    <3>2. \A j \in 1 .. i - 1 : D(i) < D(j)
      BY <2>3, <2>4, <2>5, <2>6
    <3>3. \A j \in 1 .. i : D(i) <= D(j)
      BY <2>4, <2>5, <3>2
    <3> QED  BY <2>1, <3>1, <3>2, <3>3
  <2>7. CASE ~ (D(i) < D(g[i - 1]))
    <3>1. g[i] = g[i - 1] /\ D(g[i - 1]) <= D(i)
      BY <2>2, <2>5, <2>7
    <3> QED  BY <2>1, <2>3, <2>4, <3>1
  <2> QED  BY <2>6, <2>7
<1>10. \A i \in 1 .. n : i \in S
  <2> HIDE DEF S
  <2> QED  BY <1>1, <1>8, <1>9, IndexInduction
<1>11. n \in S
  BY <1>1, <1>10
<1> QED  BY <1>1, <1>7, <1>11 DEF D, n

\* The feedback of the navigators: RemainingCorrect of their distance.
LEMMA RemainingTool ==
  ASSUME poses \in Seq(Int), poses # <<>>, robot \in Int, NEW c, c = [out |-> distance_remaining(poses)]
  PROVE  RemainingCorrect(c)
<1> DEFINE n == Len(poses)
           t == travelled(poses, 1)
           k == find_closest_pose_idx(poses)
           closest == {i \in DOMAIN poses : \A j \in DOMAIN poses :
                         euclidean_distance(poses[i], robot) <= euclidean_distance(poses[j], robot)}
           D(i) == euclidean_distance(robot, poses[i])
<1>1. n \in Nat /\ DOMAIN poses = 1 .. n /\ poses \in [1 .. n -> Int] /\ n \in 1 .. n
  OBVIOUS
<1>2. \A i \in 1 .. n : D(i) \in Nat /\ D(i) = euclidean_distance(poses[i], robot)
  BY <1>1, Distance
<1>3. /\ k \in 1 .. n
      /\ \A j \in 1 .. n : D(k) <= D(j)
      /\ \A j \in 1 .. k - 1 : D(k) < D(j)
  BY FindClosest
<1>4. c.out = calculate_path_length(poses, k)
  BY DEF distance_remaining
<1> HIDE DEF k
<1>5. c.out = t[n] - t[k]
  <2>1. t[n] \in Nat /\ travelled(poses, k)[n] = t[n] - t[k]
    BY <1>1, <1>3, TravelledMonotone, TravelledDifference
  <2>2. CASE k = n
    BY <1>1, <1>4, <2>1, <2>2 DEF calculate_path_length
  <2>3. CASE k # n
    <3>1. ~ (k >= n)
      <4>1. n \in Nat /\ k \in 1 .. n
        BY <1>1, <1>3
      <4> HIDE DEF n
      <4> QED  BY <2>3, <4>1
    <3>2. c.out = travelled(poses, k)[n]
      BY <1>4, <3>1 DEF calculate_path_length
    <3> QED  BY <2>1, <3>2
  <2> QED  BY <2>2, <2>3
<1>6. \A i \in 1 .. n : Integrated(i, n) = t[n] - t[i]
  BY DEF Integrated
<1>7. \A i \in 1 .. n : \A j \in i .. n : t[i] <= t[j] /\ t[i] \in Nat /\ t[j] \in Nat
  BY TravelledMonotone
<1> HIDE DEF n, t, D
<1>8. k \in closest
  BY <1>1, <1>2, <1>3
<1>9. ASSUME NEW i \in closest PROVE c.out >= Integrated(i, n)
  <2>1. i \in 1 .. n /\ D(i) <= D(k)
    BY <1>1, <1>2, <1>3, <1>9
  <2>2. i \notin 1 .. k - 1
    <3>1. ASSUME i \in 1 .. k - 1 PROVE FALSE
      <4>1. D(k) < D(i) /\ D(k) \in Nat /\ D(i) \in Nat
        BY <1>2, <1>3, <2>1, <3>1
      <4> QED  BY <2>1, <4>1
    <3> QED  BY <3>1
  <2>3. i \in k .. n
    BY <1>1, <1>3, <2>1, <2>2
  <2>4. t[k] <= t[i] /\ t[k] \in Nat /\ t[i] \in Nat /\ t[n] \in Nat
    BY <1>1, <1>3, <1>7, <2>3
  <2> QED  BY <1>5, <1>6, <2>1, <2>4
<1> HIDE DEF closest
<1>10. \E i \in closest : c.out = Integrated(i, n)
  BY <1>3, <1>5, <1>6, <1>8
<1> QED  BY <1>9, <1>10 DEF RemainingCorrect, closest, n

\* The times of a path have a value at each of its poses.
LEMMA Times ==
  ASSUME NEW p \in Seq(Int), p # <<>>, NEW times, times = generateTimedTrajectory_times(p)
  PROVE  times \in [1 .. Len(p) -> Nat] /\ Len(times) = Len(p)
<1> DEFINE n == Len(p)
           dt(i) == IF p[i - 1] = p[i] THEN 1 ELSE euclidean_distance(p[i - 1], p[i])
           step == [x \in (1 + 1 .. n) \X Nat |-> x[2] + dt(x[1])]
<1>1. n \in Int /\ n \in Nat /\ 1 \in Int /\ 1 \in Nat /\ 1 <= n /\ DOMAIN p = 1 .. n
  OBVIOUS
<1>2. \A i \in 1 + 1 .. n : dt(i) \in Nat
  <2>1. ASSUME NEW i \in 1 + 1 .. n PROVE dt(i) \in Nat
    <3>1. p[i - 1] \in Int /\ p[i] \in Int
      OBVIOUS
    <3>2. euclidean_distance(p[i - 1], p[i]) \in Nat
      BY <3>1, Distance
    <3> QED  BY <3>2
  <2> QED  BY <2>1
<1> HIDE DEF n, dt
<1>3. step \in Steps(1, n, Nat)
  <2>1. ASSUME NEW x \in (1 + 1 .. n) \X Nat PROVE x[2] + dt(x[1]) \in Nat
    <3>1. x[1] \in 1 + 1 .. n /\ x[2] \in Nat
      OBVIOUS
    <3>2. dt(x[1]) \in Nat
      BY <1>2, <3>1
    <3> QED  BY <3>1, <3>2
  <2> QED  BY <2>1 DEF Steps
<1>4. PICK f : Solves(f, 1, n, Nat, 1, step)
  <2> HIDE DEF step
  <2> QED  BY <1>1, <1>3, Recursion
<1> DEFINE h == [i \in DOMAIN p |-> IF i = 1 THEN 1 ELSE f[i - 1] + dt(i)]
<1>5. f = h
  <2>1. ASSUME NEW i \in 1 .. n PROVE f[i] = h[i]
    <3>1. CASE i = 1
      BY <1>1, <1>4, <3>1 DEF Solves
    <3>2. CASE i # 1
      <4>1. i \in 1 + 1 .. n /\ f[i - 1] \in Nat
        BY <1>1, <1>4, <3>2 DEF Solves
      <4>2. f[i] = step[<<i, f[i - 1]>>]
        <5> HIDE DEF step
        <5> QED  BY <1>4, <4>1 DEF Solves
      <4>3. step[<<i, f[i - 1]>>] = f[i - 1] + dt(i)
        BY <4>1
      <4> HIDE DEF step
      <4> QED  BY <1>1, <3>2, <4>2, <4>3
    <3> QED  BY <3>1, <3>2
  <2>2. f = [i \in 1 .. n |-> f[i]]
    BY <1>4 DEF Solves
  <2> QED  BY <1>1, <2>1, <2>2
<1>6. \E g : g = [i \in DOMAIN p |-> IF i = 1 THEN 1 ELSE g[i - 1] + dt(i)]
  BY <1>5
<1>7. times = [i \in DOMAIN p |-> IF i = 1 THEN 1 ELSE times[i - 1] + dt(i)]
  BY <1>6 DEF generateTimedTrajectory_times, dt
<1> DEFINE S == {i \in 1 .. n : times[i] \in Nat}
<1>8. 1 \in S
  BY <1>1, <1>7
<1>9. ASSUME NEW i \in 1 + 1 .. n, i - 1 \in S PROVE i \in S
  <2>1. i \in 1 .. n /\ i # 1 /\ i \in DOMAIN p
    BY <1>1
  <2>2. times[i] = times[i - 1] + dt(i) /\ times[i - 1] \in Nat
    BY <1>7, <1>9, <2>1
  <2> QED  BY <1>2, <2>1, <2>2
<1>10. \A i \in 1 .. n : i \in S
  <2> HIDE DEF S
  <2> QED  BY <1>1, <1>8, <1>9, IndexInduction
<1>11. times \in [1 .. n -> Nat]
  BY <1>1, <1>7, <1>10
<1> QED  BY <1>1, <1>11 DEF n

\* The walk along the timed path: TimedCorrect of the segment, and the index
\* stays in front of the last pose.
LEMMA TimedTool ==
  ASSUME poses \in Seq(Int), poses # <<>>, index = 1 \/ index \in 1 .. Len(poses) - 1, NEW tnow \in Nat,
         NEW c, c = [tnow |-> tnow, from |-> index, out |-> current_segment(poses, tnow)]
  PROVE  /\ TimedCorrect(c)
         /\ c.out.index = 1 \/ c.out.index \in 1 .. Len(poses) - 1
<1> DEFINE n == Len(poses)
           times == generateTimedTrajectory_times(poses)
           S == {k \in index .. Len(times) : k = Len(times) \/ tnow <= times[k + 1]}
           i == advance(times, index, tnow)
<1>1. n \in Nat /\ 1 <= n /\ DOMAIN poses = 1 .. n /\ index \in Nat /\ (index = 1 \/ index \in 1 .. n - 1)
  OBVIOUS
<1>2. times \in [1 .. n -> Nat] /\ Len(times) = n
  BY Times
<1>3. c.tnow = tnow /\ c.from = index
  OBVIOUS
<1>4. c.out = IF tnow <= times[1] THEN [before |-> TRUE, index |-> index, a |-> 1, b |-> 1]
              ELSE IF tnow >= times[n] THEN [before |-> FALSE, index |-> index, a |-> n, b |-> n]
              ELSE [before |-> FALSE, index |-> i, a |-> i, b |-> i + 1]
  BY DEF current_segment
<1>5. i = first_of(S, index)
  BY DEF advance
<1>6. TimedCorrect(c) <=>
         /\ {c.out.a, c.out.b} \subseteq 1 .. n
         /\ c.out.index >= index
         /\ ~ c.out.before => /\ tnow <= times[c.out.b] \/ c.out.b = n
                              /\ times[c.out.a] <= tnow \/ c.out.a = index
  BY <1>1, <1>3 DEF TimedCorrect
<1> HIDE DEF n, times, i
<1>7. CASE tnow <= times[1]
  <2>1. c.out = [before |-> TRUE, index |-> index, a |-> 1, b |-> 1]
    BY <1>4, <1>7
  <2>2. c.out.a \in 1 .. n /\ c.out.b \in 1 .. n /\ c.out.index = index /\ c.out.before
    BY <1>1, <2>1
  <2> QED  BY <1>1, <1>6, <2>2 DEF n
<1>8. CASE ~ (tnow <= times[1]) /\ tnow >= times[n]
  <2>1. c.out = [before |-> FALSE, index |-> index, a |-> n, b |-> n]
    BY <1>4, <1>8
  <2>2. c.out.a = n /\ c.out.b = n /\ c.out.index = index /\ n \in 1 .. n /\ times[n] <= tnow
    BY <1>1, <1>2, <1>8, <2>1
  <2> QED  BY <1>1, <1>6, <2>2 DEF n
<1>9. CASE ~ (tnow <= times[1]) /\ ~ (tnow >= times[n])
  <2>1. c.out = [before |-> FALSE, index |-> i, a |-> i, b |-> i + 1]
    BY <1>4, <1>9
  <2>2. n # 1 /\ n \in 1 .. n /\ 1 \in 1 .. n /\ index \in 1 .. n - 1 /\ n - 1 \in index .. n /\ (n - 1) + 1 = n
    BY <1>1, <1>2, <1>9
  <2>3. times[n] \in Nat /\ tnow <= times[n]
    BY <1>2, <1>9, <2>2
  <2>4. n - 1 \in S
    BY <1>2, <2>2, <2>3
  <2>5. S \subseteq Nat
    BY <1>1, <1>2
  <2>6. IsFirst(i, S, index)
    <3> HIDE DEF S
    <3> QED  BY <1>5, <2>5, FirstOf
  <2>7. i \in S /\ i <= n - 1 /\ \A j \in S : i <= j
    <3> HIDE DEF S
    <3> QED  BY <2>4, <2>6 DEF IsFirst
  <2>8. i \in index .. n - 1 /\ i \in 1 .. n /\ i + 1 \in 1 .. n
    BY <1>1, <1>2, <2>2, <2>7
  <2>9. tnow <= times[i + 1]
    BY <1>1, <1>2, <2>7, <2>8
  <2>10. times[i] <= tnow \/ i = index
    <3> SUFFICES ASSUME i # index PROVE times[i] <= tnow
      OBVIOUS
    <3>1. i - 1 \in index .. n /\ i - 1 # n /\ (i - 1) + 1 = i /\ ~ (i <= i - 1)
      BY <1>1, <2>8
    <3>2. i - 1 \notin S
      <4> HIDE DEF S
      <4> QED  BY <2>7, <3>1
    <3>3. ~ (tnow <= times[i]) /\ times[i] \in Nat
      BY <1>2, <2>8, <3>1, <3>2
    <3> QED  BY <3>3
  <2>11. c.out.a = i /\ c.out.b = i + 1 /\ c.out.index = i
    BY <2>1
  <2>12. c.out.index >= index /\ c.out.index \in 1 .. n - 1
    BY <1>1, <2>2, <2>8, <2>11
  <2>13. TimedCorrect(c)
    BY <1>6, <2>8, <2>9, <2>10, <2>11, <2>12
  <2> QED  BY <2>12, <2>13 DEF n
<1> QED  BY <1>7, <1>8, <1>9

\* The multiples k * s with k < m are the numbers that s divides less than m times.
LEMMA Multiples ==
  ASSUME NEW i \in Nat, NEW s \in Nat \ {0}, NEW m \in Nat
  PROVE  (\E k \in 0 .. m - 1 : i = k * s) <=> (i % s = 0 /\ i \div s < m)
<1> DEFINE q == i \div s
           r == i % s
<1>1. q \in Nat /\ r \in 0 .. s - 1 /\ i = s * q + r
  OBVIOUS
<1> HIDE DEF q, r
<1>2. ASSUME NEW k \in 0 .. m - 1, i = k * s PROVE r = 0 /\ q < m
  <2>1. s * (k - q) = r
    BY <1>1, <1>2
  <2>2. k - q >= 1 => s * (k - q) >= s
    BY <1>1
  <2>3. k - q <= -1 => s * (k - q) <= -s
    BY <1>1
  <2>4. k - q = 0
    BY <1>1, <2>1, <2>2, <2>3
  <2> QED  BY <1>1, <2>1, <2>4
<1>3. ASSUME r = 0, q < m PROVE \E k \in 0 .. m - 1 : i = k * s
  <2>1. q \in 0 .. m - 1 /\ i = q * s
    BY <1>1, <1>3
  <2> QED  BY <2>1
<1> QED  BY <1>2, <1>3 DEF q, r

LEMMA Succeeds ==
  ASSUME NEW x PROVE Success(x) # Failure /\ Success(x)[1] = x /\ Success(x) = <<x>>
  BY DEF Success, Failure

\* isPathValid of the planner and of the server: ValidCorrect of the answer.
LEMMA ValidTool ==
  ASSUME poses \in Seq(Int), NEW b, NEW answers \in BOOLEAN, NEW step \in Int, NEW n \in Int, NEW planner,
         NEW active \in BOOLEAN, active <=> planner = "checker",
         NEW at, at = MoveItGlobalPlanner_isPathValid(poses, active, step, n, b, answers),
         NEW c, c = [arg |-> [b |-> b, answers |-> answers, step |-> step, n |-> n, planner |-> planner],
                     out |-> [valid |-> PlannerServer_isPathValid(poses, planner, at), at |-> at]]
  PROVE  ValidCorrect(c)
<1> DEFINE s == at_least_one(step)
           m == at_least_one(n)
           valid == PlannerServer_isPathValid(poses, planner, at)
           sampled == {i \in 0 .. Len(poses) - 1 : i % s = 0 /\ i \div s < m}
           bad == {i \in sampled : answers /\ poses[i + 1] = b}
           invalid == {i \in 0 .. Len(poses) - 1 : /\ \E checks \in 0 .. m - 1 : i = checks * s
                                                   /\ ~ isPoseValid(poses[i + 1], b, TRUE)}
<1>1. s \in Nat \ {0} /\ m \in Nat
  BY DEF at_least_one
<1>2. valid <=> (poses # <<>> /\ planner # "unknown" /\ (planner = "checker" => at = Failure))
  BY DEF PlannerServer_isPathValid
<1>3. at = IF ~ active \/ poses = <<>> \/ ~ answers THEN Failure
           ELSE IF invalid = {} THEN Failure ELSE Success(first_of(invalid, 0))
  BY DEF MoveItGlobalPlanner_isPathValid, first_invalid
<1>4. ValidCorrect(c) <=>
        IF planner # "checker" THEN valid => poses # <<>>
        ELSE /\ valid <=> (bad = {} /\ poses # <<>>)
             /\ at # Failure => at[1] \in bad /\ \A i \in bad : at[1] <= i
  <2> HIDE DEF valid, s, m
  <2>1. c.arg.planner = planner /\ c.arg.b = b /\ c.arg.answers = answers /\ c.arg.step = step
        /\ c.arg.n = n /\ c.out.valid = valid /\ c.out.at = at
    BY DEF valid
  <2> QED  BY <2>1 DEF ValidCorrect, s, m
<1> HIDE DEF valid, s, m
<1>5. answers => invalid = bad
  <2>1. ASSUME NEW i \in 0 .. Len(poses) - 1
        PROVE  (\E checks \in 0 .. m - 1 : i = checks * s) <=> (i % s = 0 /\ i \div s < m)
    <3>1. i \in Nat
      OBVIOUS
    <3> QED  BY <1>1, <3>1, Multiples
  <2> QED  BY <2>1 DEF isPoseValid
<1>6. ~ answers => bad = {}
  OBVIOUS
<1>7. invalid \subseteq Nat
  <2>1. Len(poses) \in Nat
    OBVIOUS
  <2>2. 0 .. Len(poses) - 1 \subseteq Nat
    BY <2>1
  <2> QED  BY <2>2
<1> HIDE DEF bad, invalid
<1>8. IsFirst(first_of(invalid, 0), invalid, 0)
  BY <1>7, FirstOf
<1>9. CASE planner # "checker" \/ poses = <<>> \/ ~ answers
  BY <1>2, <1>3, <1>4, <1>6, <1>9
<1>10. CASE planner = "checker" /\ poses # <<>> /\ answers /\ invalid = {}
  BY <1>2, <1>3, <1>4, <1>5, <1>10
<1>11. CASE planner = "checker" /\ poses # <<>> /\ answers /\ invalid # {}
  <2> DEFINE x == first_of(invalid, 0)
  <2>2. x \in invalid /\ \A j \in invalid : x <= j
    BY <1>8, <1>11 DEF IsFirst
  <2>3. at = Success(x)
    BY <1>3, <1>11
  <2> HIDE DEF x
  <2>1. at # Failure /\ at[1] = x
    BY <2>3, Succeeds
  <2> QED  BY <1>2, <1>4, <1>5, <1>11, <2>1, <2>2
<1> QED  BY <1>9, <1>10, <1>11

\* The points that have a transform, in their order: none is made up, and none
\* moves to a later place.
LEMMA Transformed ==
  ASSUME NEW p \in Seq(Int), NEW u, NEW q, q = transformed(p, u)
  PROVE  /\ q \in Seq(Int)
         /\ \A i \in 1 .. Len(q) : q[i] # u /\ \E j \in 1 .. Len(p) : j >= i /\ p[j] = q[i]
<1> DEFINE n == Len(p)
           V == Seq(Int)
           step == [x \in (0 + 1 .. n) \X V |-> IF p[x[1]] = u THEN x[2] ELSE Append(x[2], p[x[1]])]
<1>1. n \in Nat /\ n \in Int /\ 0 \in Int /\ 0 <= n /\ p \in [1 .. n -> Int]
  OBVIOUS
<1>2. <<>> \in V
  OBVIOUS
<1> HIDE DEF n
<1>3. step \in Steps(0, n, V)
  <2>1. ASSUME NEW x \in (0 + 1 .. n) \X V
        PROVE  (IF p[x[1]] = u THEN x[2] ELSE Append(x[2], p[x[1]])) \in V
    <3>1. x[1] \in 1 .. n /\ x[2] \in V
      BY <1>1
    <3>2. p[x[1]] \in Int
      BY <1>1, <3>1
    <3> QED  BY <3>1, <3>2
  <2> QED  BY <2>1 DEF Steps
<1>4. PICK f : Solves(f, 0, n, V, <<>>, step)
  <2> HIDE DEF step, V
  <2> QED  BY <1>1, <1>2, <1>3, Recursion
<1> DEFINE h == [i \in 0 .. n |-> IF i = 0 THEN <<>> ELSE IF p[i] = u THEN f[i - 1] ELSE Append(f[i - 1], p[i])]
<1>5. f = h
  <2>1. ASSUME NEW i \in 0 .. n PROVE f[i] = h[i]
    <3>1. CASE i = 0
      BY <1>1, <1>4, <3>1 DEF Solves
    <3>2. CASE i # 0
      <4>1. i \in 0 + 1 .. n /\ f[i - 1] \in V
        BY <1>1, <1>4, <3>2 DEF Solves
      <4>2. f[i] = step[<<i, f[i - 1]>>]
        <5> HIDE DEF step
        <5> QED  BY <1>4, <4>1 DEF Solves
      <4>3. step[<<i, f[i - 1]>>] = IF p[i] = u THEN f[i - 1] ELSE Append(f[i - 1], p[i])
        BY <4>1
      <4> HIDE DEF step
      <4> QED  BY <3>2, <4>2, <4>3
    <3> QED  BY <3>1, <3>2
  <2>2. f = [i \in 0 .. n |-> f[i]]
    BY <1>4 DEF Solves
  <2> QED  BY <2>1, <2>2
<1>6. \E g : g = [i \in 0 .. n |-> IF i = 0 THEN <<>> ELSE IF p[i] = u THEN g[i - 1] ELSE Append(g[i - 1], p[i])]
  BY <1>5
<1>7. PICK g : /\ g = [i \in 0 .. n |-> IF i = 0 THEN <<>>
                                        ELSE IF p[i] = u THEN g[i - 1] ELSE Append(g[i - 1], p[i])]
               /\ q = g[n]
  BY <1>6 DEF transformed, n
<1> DEFINE Made(o, k) == /\ o \in Seq(Int) /\ Len(o) <= k
                         /\ \A i \in 1 .. Len(o) : o[i] # u /\ \E j \in 1 .. k : j >= i /\ p[j] = o[i]
           S == {k \in 0 .. n : Made(g[k], k)}
<1>8. 0 \in S
  <2>1. g[0] = <<>>
    BY <1>1, <1>7
  <2>2. Made(<<>>, 0)
    OBVIOUS
  <2>3. 0 \in 0 .. n
    BY <1>1
  <2> HIDE DEF Made
  <2> QED  BY <2>1, <2>2, <2>3
<1>9. ASSUME NEW k \in 0 + 1 .. n, k - 1 \in S PROVE k \in S
  <2>1. k \in 0 .. n /\ k # 0 /\ k \in 1 .. n /\ k \in Nat
    BY <1>1
  <2>2. g[k] = IF p[k] = u THEN g[k - 1] ELSE Append(g[k - 1], p[k])
    BY <1>7, <2>1
  <2> DEFINE o == g[k - 1]
  <2>3. Made(o, k - 1)
    BY <1>9
  <2> HIDE DEF o
  <2>4. Made(o, k)
    <3>1. Len(o) <= k /\ 1 .. k - 1 \subseteq 1 .. k
      BY <2>1, <2>3
    <3> QED  BY <2>3, <3>1
  <2>5. CASE p[k] = u
    BY <2>1, <2>2, <2>4, <2>5 DEF o
  <2>6. CASE p[k] # u
    <3> DEFINE a == Append(o, p[k])
    <3>1. p[k] \in Int /\ o \in Seq(Int) /\ Len(o) \in Nat /\ Len(o) <= k - 1
      BY <1>1, <2>1, <2>3
    <3>2. /\ a \in Seq(Int) /\ Len(a) = Len(o) + 1 /\ a[Len(o) + 1] = p[k]
          /\ \A i \in 1 .. Len(o) : a[i] = o[i]
      BY <3>1
    <3> HIDE DEF a
    <3>3. ASSUME NEW i \in 1 .. Len(a) PROVE a[i] # u /\ \E j \in 1 .. k : j >= i /\ p[j] = a[i]
      <4>1. CASE i = Len(o) + 1
        <5>1. k >= i /\ k \in 1 .. k
          BY <2>1, <3>1, <4>1
        <5> QED  BY <2>6, <3>2, <4>1, <5>1
      <4>2. CASE i # Len(o) + 1
        <5>1. i \in 1 .. Len(o)
          BY <3>1, <3>2, <4>2
        <5> QED  BY <2>4, <3>2, <5>1
      <4> QED  BY <4>1, <4>2
    <3>4. Made(a, k)
      BY <2>1, <3>1, <3>2, <3>3
    <3>5. g[k] = a
      BY <2>2, <2>6 DEF a, o
    <3> HIDE DEF Made
    <3> QED  BY <2>1, <3>4, <3>5
  <2> QED  BY <2>5, <2>6
<1>10. \A k \in 0 .. n : k \in S
  <2> HIDE DEF S
  <2> QED  BY <1>1, <1>8, <1>9, IndexInduction
<1>11. n \in S
  BY <1>1, <1>10
<1>12. Made(q, n)
  <2> HIDE DEF Made
  <2> QED  BY <1>7, <1>11
<1> QED  BY <1>12 DEF n

\* MoveGroupInterface::plan: PlanCorrect of the path.
LEMMA PlanTool ==
  ASSUME poses \in Seq(Int), NEW missing, NEW succeeds \in BOOLEAN, NEW yaw_mode,
         NEW c, c = [arg |-> [missing |-> missing, yaw_mode |-> yaw_mode],
                     out |-> MoveGroupInterface_plan(poses, missing, succeeds, yaw_mode)]
  PROVE  PlanCorrect(c)
<1> DEFINE p == IF succeeds THEN transformed(poses, missing) ELSE <<>>
           yaws == applyYaw(p, yaw_mode)
<1>1. c.out.poses = p /\ c.out.yaws = yaws /\ c.arg.missing = missing /\ c.arg.yaw_mode = yaw_mode
  BY DEF MoveGroupInterface_plan
<1>2. /\ p \in Seq(Int)
      /\ \A i \in 1 .. Len(p) : p[i] # missing /\ \E j \in 1 .. Len(poses) : j >= i /\ poses[j] = p[i]
  <2>1. CASE succeeds
    <3> DEFINE q == transformed(poses, missing)
    <3>1. /\ q \in Seq(Int)
          /\ \A i \in 1 .. Len(q) : q[i] # missing /\ \E j \in 1 .. Len(poses) : j >= i /\ poses[j] = q[i]
      BY Transformed
    <3>2. p = q
      BY <2>1
    <3> HIDE DEF p, q
    <3> QED  BY <3>1, <3>2
  <2>2. CASE ~ succeeds
    <3>1. p = <<>>
      BY <2>2
    <3> HIDE DEF p
    <3> QED  BY <3>1
  <2> QED  BY <2>1, <2>2
<1> HIDE DEF p
<1>3. DOMAIN p = 1 .. Len(p) /\ DOMAIN poses = 1 .. Len(poses) /\ Len(p) \in Nat
  BY <1>2
<1>4. DOMAIN yaws = DOMAIN p
  BY DEF applyYaw
<1>5. ASSUME yaw_mode = "Directional", NEW i \in 1 .. Len(p) - 1
      PROVE  /\ p[i] < p[i + 1] => yaws[i] = 0
             /\ p[i] > p[i + 1] => yaws[i] = 2
             /\ i + 1 = Len(p) => yaws[i + 1] = yaws[i]
  <2>1. i \in DOMAIN p /\ i + 1 \in DOMAIN p /\ i < Len(p) /\ p[i] \in Int /\ p[i + 1] \in Int
    BY <1>2, <1>3
  <2>2. yaws[i] = computeDirectionalYaw(p[i], p[i + 1])
    BY <1>5, <2>1 DEF applyYaw
  <2>3. ASSUME i + 1 = Len(p) PROVE yaws[i + 1] = computeDirectionalYaw(p[i], p[i + 1])
    <3>1. ~ (i + 1 < Len(p)) /\ Len(p) >= 2 /\ Len(p) - 1 = i
      BY <1>3, <2>1, <2>3
    <3> QED  BY <1>5, <2>1, <2>3, <3>1 DEF applyYaw
  <2> HIDE DEF yaws
  <2>4. p[i] < p[i + 1] => computeDirectionalYaw(p[i], p[i + 1]) = 0
    BY <2>1 DEF computeDirectionalYaw
  <2>5. p[i] > p[i + 1] => computeDirectionalYaw(p[i], p[i + 1]) = 2
    BY <2>1 DEF computeDirectionalYaw
  <2> QED  BY <2>2, <2>3, <2>4, <2>5
<1> HIDE DEF yaws
<1>6. ASSUME NEW i \in DOMAIN p PROVE p[i] # missing /\ \E j \in DOMAIN poses : j >= i /\ poses[j] = p[i]
  BY <1>2, <1>3
<1> QED  BY <1>1, <1>4, <1>5, <1>6 DEF PlanCorrect, NothingMadeUp, LooksAhead

\* TruncatePath: TruncateCorrect of its result.
LEMMA TruncateTool ==
  ASSUME poses \in Seq(Int), NEW d \in Int, NEW c, c = [arg |-> d, out |-> TruncatePath(poses, d)]
  PROVE  TruncateCorrect(c)
<1> DEFINE n == Len(poses)
           D(i) == euclidean_distance(poses[i], poses[n])
           stays == {i \in DOMAIN poses : i <= 2 \/ D(i) >= d}
           k == CHOOSE i \in stays : \A m \in stays : m <= i
<1>1. n \in Nat /\ DOMAIN poses = 1 .. n /\ poses \in [1 .. n -> Int]
  OBVIOUS
<1>2. c.arg = d /\ c.out = TruncatePath(poses, d)
  OBVIOUS
<1>3. CASE poses = <<>>
  <2>1. c.out = <<>> /\ Len(poses) = 0
    BY <1>2, <1>3 DEF TruncatePath
  <2>2. IsPrefix(<<>>, <<>>)
    BY DEF IsPrefix
  <2> QED  BY <1>3, <2>1, <2>2 DEF TruncateCorrect
<1>4. CASE poses # <<>>
  <2>1. TruncatePath(poses, d) = SubSeq(poses, 1, k)
    BY <1>4 DEF TruncatePath, Last
  <2>2. 1 \in 1 .. n /\ n \in 1 .. n
    BY <1>1, <1>4
  <2>3. \A i \in 1 .. n : D(i) \in Nat
    BY <1>1, <2>2, Distance
  <2> HIDE DEF n, D
  <2>4. stays \subseteq 1 .. n /\ stays # {} /\ 1 \in Int /\ n \in Int
    <3>1. 1 \in stays
      BY <1>1, <2>2
    <3>2. stays \subseteq 1 .. n
      BY <1>1
    <3> HIDE DEF stays
    <3> QED  BY <1>1, <3>1, <3>2
  <2>5. k \in stays /\ \A m \in stays : m <= k
    <3> HIDE DEF stays
    <3>1. \E i \in stays : \A m \in stays : m <= i
      BY <2>4, GreatestIndex
    <3> QED  BY <3>1
  <2> HIDE DEF k
  <2>6. k \in 1 .. n /\ (k <= 2 \/ D(k) >= d)
    BY <1>1, <2>5
  <2> DEFINE q == SubSeq(poses, 1, k)
  <2>7. q \in Seq(Int) /\ Len(q) = k /\ \A i \in 1 .. k : q[i] = poses[i]
    BY <1>1, <2>6 DEF n
  <2>8. SubSeq(q, 1, Len(q)) = q
    BY <2>7
  <2> HIDE DEF q
  <2>9. IsPrefix(q, poses)
    <3>1. Len(q) <= Len(poses)
      BY <1>1, <2>6, <2>7 DEF n
    <3>2. SubSeq(q, 1, Len(q)) = SubSeq(poses, 1, Len(q))
      BY <2>7, <2>8 DEF q
    <3> QED  BY <3>1, <3>2 DEF IsPrefix
  <2>10. n >= 2 => k >= 2
    <3> HAVE n >= 2
    <3>1. 2 \in stays
      BY <1>1
    <3> QED  BY <2>5, <2>6, <3>1
  <2>11. k > 2 => euclidean_distance(Last(q), Last(poses)) >= d
    <3>1. Last(q) = poses[k] /\ Last(poses) = poses[n]
      BY <2>6, <2>7 DEF Last, n
    <3> QED  BY <2>6, <3>1 DEF D
  <2>12. ASSUME NEW i \in k + 1 .. n PROVE euclidean_distance(poses[i], Last(poses)) < d
    <3>1. i \in 1 .. n /\ ~ (i <= k)
      BY <1>1, <2>6
    <3>2. i \notin stays
      <4> HIDE DEF stays
      <4> QED  BY <2>5, <3>1
    <3>3. ~ (D(i) >= d) /\ D(i) \in Nat
      BY <1>1, <2>3, <3>1, <3>2
    <3>4. Last(poses) = poses[n]
      BY DEF Last, n
    <3> QED  BY <3>3, <3>4 DEF D
  <2>13. c.out = q
    BY <1>2, <2>1 DEF q
  <2> QED  BY <1>2, <2>7, <2>9, <2>10, <2>11, <2>12, <2>13 DEF TruncateCorrect, n
<1> QED  BY <1>3, <1>4

LEMMA ModuloLength ==
  ASSUME NEW n \in Nat \ {0}, NEW i \in 0 .. n - 1
  PROVE  i % n = i /\ (i - n) % n = i
<1>1. i % n = i
  OBVIOUS
<1>2. (i - n) % n = i
  OBVIOUS
<1> QED  BY <1>1, <1>2

\* GetPoseFromPath: PoseCorrect of its result.
LEMMA PoseTool ==
  ASSUME poses \in Seq(Int), NEW d \in Int, NEW c, c = [arg |-> d, out |-> GetPoseFromPath(poses, d)]
  PROVE  PoseCorrect(c)
<1> DEFINE n == Len(poses)
           i == IF d < 0 THEN n + d ELSE d
<1>1. n \in Nat /\ (poses = <<>> <=> n = 0)
  OBVIOUS
<1>2. c.arg = d /\ c.out = IF poses = <<>> \/ i < 0 \/ i >= n THEN Failure ELSE Success(poses[i + 1])
  BY DEF GetPoseFromPath
<1>3. CASE poses = <<>> \/ i < 0 \/ i >= n
  <2>1. c.out = Failure
    BY <1>2, <1>3
  <2>2. d \notin -n .. n - 1
    <3> HIDE DEF n
    <3> QED  BY <1>1, <1>3
  <2> QED  BY <1>2, <2>1, <2>2 DEF PoseCorrect
<1>4. CASE ~ (poses = <<>> \/ i < 0 \/ i >= n)
  <2>1. c.out = <<poses[i + 1]>> /\ c.out # Failure
    <3> HIDE DEF i
    <3>1. c.out = Success(poses[i + 1])
      BY <1>2, <1>4
    <3> QED  BY <3>1, Succeeds
  <2>2. n \in Nat \ {0} /\ i \in 0 .. n - 1 /\ (d = i \/ d = i - n)
    <3> HIDE DEF n
    <3> QED  BY <1>1, <1>4
  <2> HIDE DEF n, i
  <2>3. d % n = i
    BY <2>2, ModuloLength
  <2> QED  BY <1>2, <2>1, <2>3 DEF PoseCorrect, n
<1> QED  BY <1>3, <1>4

\* GetNextFewGoals: GoalsCorrect of its result.
LEMMA GoalsTool ==
  ASSUME poses \in Seq(Int), NEW d \in Int, NEW c, c = [arg |-> d, out |-> GetNextFewGoals(poses, d)]
  PROVE  GoalsCorrect(c)
<1> DEFINE n == Len(poses)
           m == IF d < 0 THEN 0 ELSE IF d < n THEN d ELSE n
           q == SubSeq(poses, 1, m)
<1>1. n \in Nat /\ m \in 0 .. n
  OBVIOUS
<1>2. c.arg = d /\ c.out = IF poses = <<>> THEN Failure ELSE Success(q)
  BY DEF GetNextFewGoals
<1>3. d >= 0 => m = d \/ m = n
  OBVIOUS
<1> HIDE DEF m
<1>4. q \in Seq(Int) /\ Len(q) = m /\ \A i \in 1 .. m : q[i] = poses[i]
  BY <1>1
<1>5. SubSeq(q, 1, Len(q)) = q
  BY <1>4
<1>6. m = n => q = poses
  OBVIOUS
<1>7. q = SubSeq(poses, 1, m)
  OBVIOUS
<1> HIDE DEF q
<1>8. IsPrefix(q, poses)
  BY <1>1, <1>4, <1>5, <1>7 DEF IsPrefix
<1>9. CASE poses = <<>>
  BY <1>2, <1>9 DEF GoalsCorrect
<1>10. CASE poses # <<>>
  <2>1. c.out # Failure /\ c.out[1] = q
    BY <1>2, <1>10, Succeeds
  <2> QED  BY <1>2, <1>3, <1>4, <1>6, <1>8, <2>1 DEF GoalsCorrect
<1> QED  BY <1>9, <1>10

\* All the indices of a path.
LEMMA AllKept ==
  ASSUME NEW p \in Seq(Int), NEW q, q = [i \in DOMAIN p |-> i]
  PROVE  /\ q \in Seq(Nat) /\ Len(q) = Len(p) /\ \A i \in 1 .. Len(p) : q[i] = i
         /\ Increasing(q)
         /\ p # <<>> => Head(q) = 1 /\ Last(q) = Len(p)
<1> DEFINE n == Len(p)
<1>1. n \in Nat /\ DOMAIN p = 1 .. n /\ (p # <<>> => n >= 1)
  OBVIOUS
<1> HIDE DEF n
<1>2. q \in [1 .. n -> Nat] /\ \A i \in 1 .. n : q[i] = i
  BY <1>1
<1>3. q \in Seq(Nat) /\ Len(q) = n
  BY <1>1, <1>2
<1>4. Increasing(q)
  <2>1. ASSUME NEW i \in 1 .. Len(q) - 1 PROVE q[i] < q[i + 1]
    <3>1. i \in 1 .. n /\ i + 1 \in 1 .. n
      BY <1>1, <1>3
    <3> QED  BY <1>2, <3>1
  <2> QED  BY <2>1 DEF Increasing
<1>5. n >= 1 => Head(q) = 1 /\ Last(q) = n
  BY <1>1, <1>2, <1>3 DEF Last
<1> QED  BY <1>1, <1>2, <1>3, <1>4, <1>5 DEF n

\* Rounding to the nearest index leaves room for the indices that follow.
LEMMA RoundedBound ==
  ASSUME NEW keep \in Nat, keep >= 2, NEW top \in Nat, top >= keep - 1, NEW i \in 0 .. keep - 1
  PROVE  rounded(i, top, keep) \in Nat /\ rounded(i, top, keep) <= top - ((keep - 1) - i)
<1> DEFINE k == keep - 1
           it == i * top
           x == 2 * i * top + k
           y == 2 * k
           q == x \div y
           M == top - (k - i)
<1>1. k \in Nat \ {0} /\ i \in 0 .. k /\ top >= k /\ i \in Nat
  OBVIOUS
<1>2. rounded(i, top, keep) = q
  BY DEF rounded
<1> HIDE DEF k
<1>3. M \in Nat /\ y \in Nat \ {0}
  BY <1>1
<1>4. it \in Nat /\ x = 2 * it + k /\ x \in Nat
  <2>1. i * top \in Nat
    BY <1>1
  <2>2. 2 * i * top = 2 * (i * top)
    BY <1>1
  <2> QED  BY <1>1, <2>1, <2>2
<1>5. it <= k * M
  <2>1. (k - i) * k <= (k - i) * top
    BY <1>1
  <2>2. k * M = k * top - k * (k - i)
    BY <1>1
  <2>3. k * top - it = (k - i) * top
    BY <1>1
  <2>4. k * (k - i) = (k - i) * k
    BY <1>1
  <2>5. k * top \in Int /\ k * (k - i) \in Int /\ (k - i) * top \in Int
    BY <1>1
  <2> QED  BY <1>4, <2>1, <2>2, <2>3, <2>4, <2>5
<1> HIDE DEF it, x, M
<1>6. q \in Nat
  BY <1>3, <1>4
<1>7. y * q <= x
  <2>1. x = y * q + (x % y)
    BY <1>3, <1>4
  <2>2. x % y \in 0 .. y - 1
    BY <1>3, <1>4
  <2>3. y * q \in Int
    BY <1>3, <1>6
  <2> QED  BY <2>1, <2>2, <2>3
<1> HIDE DEF q
<1>8. q <= M
  <2> SUFFICES ASSUME q >= M + 1 PROVE FALSE
    BY <1>3, <1>6
  <2>1. y * q >= y * (M + 1)
    BY <1>3, <1>6
  <2>2. y * (M + 1) = 2 * (k * M) + 2 * k
    BY <1>1, <1>3
  <2>3. k * M \in Nat /\ y * q \in Nat
    BY <1>1, <1>3, <1>6
  <2> HIDE DEF y
  <2> QED  BY <1>1, <1>4, <1>5, <1>7, <2>1, <2>2, <2>3
<1> QED  BY <1>2, <1>6, <1>8 DEF M, k

\* The indices that a cap keeps grow strictly from the first to the last one.
LEMMA CapIndices ==
  ASSUME NEW keep \in Nat, keep >= 2, NEW top \in Nat, top >= keep, NEW g, g = cap_indices(top, keep)
  PROVE  /\ g[0] = 0 /\ g[keep - 1] = top
         /\ \A i \in 0 .. keep - 1 : g[i] \in Nat
         /\ \A i \in 1 .. keep - 1 : g[i - 1] < g[i]
<1> DEFINE k == keep - 1
           later(i, prev) == IF rounded(i, top, keep) <= prev THEN prev + 1 ELSE rounded(i, top, keep)
           next(i, prev) == IF i + 1 >= keep THEN top
                            ELSE IF later(i, prev) >= top THEN top - 1 ELSE later(i, prev)
           step == [x \in (0 + 1 .. k) \X Nat |-> next(x[1], x[2])]
<1>1. k \in Nat /\ k \in Int /\ 0 \in Int /\ 0 \in Nat /\ 0 <= k /\ k >= 1 /\ top >= k + 1
  OBVIOUS
<1>2. \A i \in 0 .. k : rounded(i, top, keep) \in Nat /\ rounded(i, top, keep) <= top - (k - i)
  BY RoundedBound
<1>3. \A i \in 0 .. k : i + 1 >= keep <=> i = k
  OBVIOUS
<1> HIDE DEF k
<1>4. ASSUME NEW i \in 0 + 1 .. k, NEW prev \in Nat PROVE next(i, prev) \in Nat
  <2>1. i \in 0 .. k
    BY <1>1
  <2>2. rounded(i, top, keep) \in Nat
    BY <1>2, <2>1
  <2>3. later(i, prev) \in Nat
    BY <2>2
  <2> HIDE DEF later
  <2> QED  BY <1>1, <2>3
<1>5. step \in Steps(0, k, Nat)
  <2>1. ASSUME NEW x \in (0 + 1 .. k) \X Nat PROVE next(x[1], x[2]) \in Nat
    <3> HIDE DEF next
    <3> QED  BY <1>4
  <2> HIDE DEF next
  <2> QED  BY <2>1 DEF Steps
<1>6. PICK f : Solves(f, 0, k, Nat, 0, step)
  <2> HIDE DEF step
  <2> QED  BY <1>1, <1>5, Recursion
<1> DEFINE h == [i \in 0 .. k |-> IF i = 0 THEN 0 ELSE next(i, f[i - 1])]
<1>7. f = h
  <2> HIDE DEF next
  <2>1. ASSUME NEW i \in 0 .. k PROVE f[i] = h[i]
    <3>1. CASE i = 0
      BY <1>1, <1>6, <3>1 DEF Solves
    <3>2. CASE i # 0
      <4>1. i \in 0 + 1 .. k /\ f[i - 1] \in Nat
        BY <1>1, <1>6, <3>2 DEF Solves
      <4>2. f[i] = step[<<i, f[i - 1]>>]
        <5> HIDE DEF step
        <5> QED  BY <1>6, <4>1 DEF Solves
      <4>3. step[<<i, f[i - 1]>>] = next(i, f[i - 1])
        BY <4>1
      <4> HIDE DEF step
      <4> QED  BY <3>2, <4>2, <4>3
    <3> QED  BY <3>1, <3>2
  <2>2. f = [i \in 0 .. k |-> f[i]]
    BY <1>6 DEF Solves
  <2> QED  BY <2>1, <2>2
<1>8. \E w : w = [i \in 0 .. k |-> IF i = 0 THEN 0 ELSE next(i, w[i - 1])]
  <2> HIDE DEF next
  <2> QED  BY <1>7
<1>9. g = [i \in 0 .. k |-> IF i = 0 THEN 0 ELSE next(i, g[i - 1])]
  BY <1>8 DEF cap_indices, k
<1>10. g[0] = 0 /\ \A i \in 0 + 1 .. k : g[i] = next(i, g[i - 1])
  <2> HIDE DEF next
  <2>1. \A i \in 0 + 1 .. k : i \in 0 .. k /\ i # 0
    BY <1>1
  <2> QED  BY <1>1, <1>9, <2>1
<1> DEFINE S == {i \in 0 .. k : g[i] \in Nat /\ g[i] <= top - (k - i) /\ (i # 0 => g[i - 1] < g[i])}
<1>11. 0 \in S
  BY <1>1, <1>10
<1>12. ASSUME NEW i \in 0 + 1 .. k, i - 1 \in S PROVE i \in S
  <2>1. i \in 0 .. k /\ i \in Nat /\ g[i] = next(i, g[i - 1])
    <3> HIDE DEF next
    <3> QED  BY <1>1, <1>10
  <2>2. g[i - 1] \in Nat /\ g[i - 1] <= top - (k - (i - 1))
    BY <1>12
  <2>3. rounded(i, top, keep) \in Nat /\ rounded(i, top, keep) <= top - (k - i) /\ (i + 1 >= keep <=> i = k)
    BY <1>2, <1>3, <2>1
  <2> DEFINE l == later(i, g[i - 1])
  <2>4. l \in Nat /\ l > g[i - 1] /\ l <= top - (k - i)
    BY <1>1, <2>1, <2>2, <2>3
  <2>5. g[i] = IF i + 1 >= keep THEN top ELSE IF l >= top THEN top - 1 ELSE l
    BY <2>1
  <2> HIDE DEF l, next, later
  <2>6. CASE i = k
    <3>1. g[i] = top
      BY <2>3, <2>5, <2>6
    <3> QED  BY <1>1, <2>1, <2>2, <2>6, <3>1
  <2>7. CASE i # k
    <3>1. ~ (l >= top)
      BY <1>1, <2>1, <2>4, <2>7
    <3>2. g[i] = l
      BY <2>3, <2>5, <2>7, <3>1
    <3> QED  BY <2>1, <2>4, <3>2
  <2> QED  BY <2>6, <2>7
<1>13. \A i \in 0 .. k : i \in S
  <2> HIDE DEF S
  <2> QED  BY <1>1, <1>11, <1>12, IndexInduction
<1>14. g[k] = top
  <2>1. k \in 0 + 1 .. k /\ k \in 0 .. k
    BY <1>1
  <2>2. g[k] = next(k, g[k - 1]) /\ k + 1 >= keep
    BY <1>3, <1>10, <2>1
  <2> QED  BY <2>2
<1> HIDE DEF next
<1>15. \A i \in 1 .. k : i \in 0 .. k /\ i # 0
  BY <1>1
<1> QED  BY <1>10, <1>13, <1>14, <1>15 DEF k

\* capPath: CapCorrect of its result.
LEMMA CapTool ==
  ASSUME poses \in Seq(Int), NEW d \in Int, NEW c, c = [arg |-> d, out |-> capPath(poses, d)]
  PROVE  CapCorrect(c)
<1> DEFINE n == Len(poses)
           g == cap_indices(n - 1, d)
           q == [j \in 1 .. d |-> g[j - 1] + 1]
<1>1. n \in Nat /\ (poses # <<>> <=> n # 0)
  OBVIOUS
<1>2. c.arg = d /\ c.out = capPath(poses, d)
  OBVIOUS
<1>3. CASE d <= 0 \/ n <= d
  <2> DEFINE all == [i \in DOMAIN poses |-> i]
  <2>1. c.out = all
    BY <1>2, <1>3 DEF capPath
  <2>2. /\ all \in Seq(Nat) /\ Len(all) = n /\ \A i \in 1 .. n : all[i] = i
        /\ Increasing(all)
        /\ poses # <<>> => Head(all) = 1 /\ Last(all) = n
    BY AllKept
  <2> HIDE DEF all, n
  <2>3. CASE d = 1 /\ poses # <<>>
    <3>1. n = 1
      BY <1>1, <1>3, <2>3
    <3>2. all = <<1>>
      BY <2>2, <3>1
    <3> QED  BY <1>2, <2>1, <2>3, <3>1, <3>2 DEF CapCorrect, n
  <2>4. CASE ~ (d = 1 /\ poses # <<>>)
    <3>1. Thinned(all)
      BY <2>2 DEF Thinned, n
    <3>2. (d > 0 => Len(all) <= d) /\ (0 < d /\ d <= n => Len(all) = d)
      BY <1>1, <1>3, <2>2
    <3> QED  BY <1>2, <2>1, <2>4, <3>1, <3>2 DEF CapCorrect, n
  <2> QED  BY <2>3, <2>4
<1>4. CASE ~ (d <= 0 \/ n <= d) /\ d = 1
  <2>1. c.out = <<n>>
    BY <1>2, <1>4 DEF capPath
  <2>2. poses # <<>>
    BY <1>1, <1>4
  <2> QED  BY <1>2, <1>4, <2>1, <2>2 DEF CapCorrect
<1>5. CASE ~ (d <= 0 \/ n <= d) /\ d # 1
  <2>1. c.out = q
    BY <1>2, <1>5 DEF capPath
  <2> HIDE DEF n
  <2>2. d \in Nat /\ d >= 2 /\ n - 1 \in Nat /\ n - 1 >= d /\ poses # <<>>
    BY <1>1, <1>5
  <2>3. /\ g[0] = 0 /\ g[d - 1] = n - 1
        /\ \A i \in 0 .. d - 1 : g[i] \in Nat
        /\ \A i \in 1 .. d - 1 : g[i - 1] < g[i]
    BY <2>2, CapIndices
  <2> HIDE DEF g
  <2>4. q \in [1 .. d -> Nat]
    <3>1. ASSUME NEW j \in 1 .. d PROVE g[j - 1] + 1 \in Nat
      <4>1. j - 1 \in 0 .. d - 1
        BY <2>2
      <4> QED  BY <2>3, <4>1
    <3> QED  BY <3>1
  <2>5. \A j \in 1 .. d : q[j] = g[j - 1] + 1
    OBVIOUS
  <2> HIDE DEF q
  <2>6. q \in Seq(Nat) /\ Len(q) = d
    BY <2>2, <2>4
  <2>7. Increasing(q)
    <3>1. ASSUME NEW j \in 1 .. Len(q) - 1 PROVE q[j] < q[j + 1]
      <4>1. j \in 1 .. d /\ j + 1 \in 1 .. d /\ j \in 1 .. d - 1 /\ (j + 1) - 1 = j /\ j - 1 \in 0 .. d - 1 /\ j \in 0 .. d - 1
        BY <2>2, <2>6
      <4>2. q[j] = g[j - 1] + 1 /\ q[j + 1] = g[j] + 1
        BY <2>5, <4>1
      <4>3. g[j - 1] < g[j] /\ g[j - 1] \in Nat /\ g[j] \in Nat
        BY <2>3, <4>1
      <4> QED  BY <4>2, <4>3
    <3> QED  BY <3>1 DEF Increasing
  <2>8. Head(q) = 1 /\ Last(q) = n
    <3>1. 1 \in 1 .. d /\ d \in 1 .. d /\ 1 - 1 = 0
      BY <2>2
    <3>2. q[1] = 1 /\ q[d] = n
      BY <1>1, <2>2, <2>3, <2>5, <3>1
    <3>3. Head(q) = q[1] /\ Last(q) = q[d]
      BY <2>2, <2>6 DEF Last
    <3> QED  BY <3>2, <3>3
  <2>9. Thinned(q)
    BY <2>7, <2>8 DEF Thinned, n
  <2> QED  BY <1>2, <1>5, <2>1, <2>2, <2>6, <2>9 DEF CapCorrect
<1> QED  BY <1>3, <1>4, <1>5

\* What the loop of resamplePath has kept when it has looked at i poses of a
\* path whose distances from the start are t, and what it has added up since.
Resampled(r, i, n, t, spacing) ==
  LET K == r.kept
      m == Len(K)
  IN /\ K \in Seq(Nat) /\ m >= 1 /\ K[1] = 1
     /\ \A j \in 1 .. m : K[j] \in 1 .. i
     /\ \A j \in 1 .. m - 1 :
          /\ K[j] < K[j + 1]
          /\ t[K[j + 1] - 1] - t[K[j]] < spacing
          /\ K[j + 1] < n => t[K[j + 1]] - t[K[j]] >= spacing
     /\ r.acc = t[i] - t[K[m]]
     /\ IF i = n THEN K[m] = n ELSE r.acc < spacing

LEMMA ResampledStep ==
  ASSUME NEW n \in Nat, NEW t \in [1 .. n -> Nat], NEW spacing \in Nat \ {0}, NEW i \in 2 .. n,
         NEW r, r.acc \in Nat, Resampled(r, i - 1, n, t, spacing),
         NEW acc \in Nat, acc = r.acc + (t[i] - t[i - 1]),
         NEW s, s = IF acc >= spacing \/ i = n THEN [kept |-> Append(r.kept, i), acc |-> 0]
                    ELSE [kept |-> r.kept, acc |-> acc]
  PROVE  Resampled(s, i, n, t, spacing)
<1> DEFINE K == r.kept
           m == Len(K)
           Pair(a, b) == /\ a < b
                         /\ t[b - 1] - t[a] < spacing
                         /\ b < n => t[b] - t[a] >= spacing
<1>1. /\ K \in Seq(Nat) /\ m >= 1 /\ K[1] = 1
      /\ \A j \in 1 .. m : K[j] \in 1 .. i - 1
      /\ \A j \in 1 .. m - 1 : Pair(K[j], K[j + 1])
      /\ r.acc = t[i - 1] - t[K[m]]
      /\ r.acc < spacing
  BY DEF Resampled
<1> HIDE DEF K
<1>2. m \in Nat /\ m \in 1 .. m /\ i \in Nat /\ i \in 1 .. n /\ i - 1 \in 1 .. n
  BY <1>1
<1> DEFINE k == K[m]
<1>3. k \in 1 .. i - 1 /\ k \in 1 .. n
  BY <1>1, <1>2
<1> HIDE DEF m, k
<1>4. t[i] \in Nat /\ t[i - 1] \in Nat /\ t[k] \in Nat
  BY <1>2, <1>3
<1>5. acc = t[i] - t[k]
  <2>1. r.acc = t[i - 1] - t[k]
    BY <1>1 DEF k, m
  <2> QED  BY <1>4, <2>1
<1>6. CASE acc >= spacing \/ i = n
  <2> DEFINE a == Append(K, i)
  <2>1. /\ a \in Seq(Nat) /\ Len(a) = m + 1 /\ a[m + 1] = i
        /\ \A j \in 1 .. m : a[j] = K[j]
    BY <1>1, <1>2 DEF m
  <2>2. s.kept = a /\ s.acc = 0
    BY <1>6 DEF K
  <2> HIDE DEF a, Pair
  <2>3. ASSUME NEW j \in 1 .. m + 1 PROVE a[j] \in 1 .. i
    <3>1. CASE j = m + 1
      BY <1>2, <2>1, <3>1
    <3>2. CASE j # m + 1
      <4>1. j \in 1 .. m
        BY <1>2, <3>2
      <4>2. a[j] = K[j] /\ K[j] \in 1 .. i - 1
        BY <1>1, <2>1, <4>1 DEF m
      <4> QED  BY <1>2, <4>2
    <3> QED  BY <3>1, <3>2
  <2>4. Pair(k, i)
    <3>1. r.acc = t[i - 1] - t[k] /\ r.acc < spacing
      BY <1>1 DEF k, m
    <3>2. k < i
      BY <1>2, <1>3
    <3>3. i < n => t[i] - t[k] >= spacing
      BY <1>2, <1>5, <1>6
    <3> QED  BY <3>1, <3>2, <3>3 DEF Pair
  <2>5. ASSUME NEW j \in 1 .. (m + 1) - 1 PROVE Pair(a[j], a[j + 1])
    <3>1. CASE j = m
      <4>1. a[j] = k /\ a[j + 1] = i
        BY <1>2, <2>1, <3>1 DEF k
      <4> QED  BY <2>4, <4>1
    <3>2. CASE j # m
      <4>1. j \in 1 .. m - 1 /\ j \in 1 .. m /\ j + 1 \in 1 .. m
        BY <1>2, <3>2
      <4>2. a[j] = K[j] /\ a[j + 1] = K[j + 1] /\ Pair(K[j], K[j + 1])
        BY <1>1, <2>1, <4>1 DEF m
      <4> QED  BY <4>2
    <3> QED  BY <3>1, <3>2
  <2>6. a[1] = 1 /\ Len(a) >= 1
    <3>1. 1 \in 1 .. m /\ K[1] = 1 /\ m + 1 >= 1
      BY <1>1, <1>2
    <3> QED  BY <2>1, <3>1
  <2>7. a[Len(a)] = i /\ s.acc = t[i] - t[a[Len(a)]]
    BY <1>4, <2>1, <2>2
  <2>8. IF i = n THEN a[Len(a)] = n ELSE s.acc < spacing
    BY <2>2, <2>7
  <2> QED  BY <2>1, <2>2, <2>3, <2>5, <2>6, <2>7, <2>8 DEF Resampled, Pair
<1>7. CASE ~ (acc >= spacing \/ i = n)
  <2>1. s.kept = K /\ s.acc = acc
    BY <1>7 DEF K
  <2>2. \A j \in 1 .. Len(K) : K[j] \in 1 .. i
    <3>1. 1 .. i - 1 \subseteq 1 .. i
      BY <1>2
    <3> QED  BY <1>1, <3>1 DEF m
  <2>3. acc = t[i] - t[K[Len(K)]] /\ acc < spacing /\ i # n
    BY <1>5, <1>7 DEF k, m
  <2> HIDE DEF Pair
  <2> QED  BY <1>1, <2>1, <2>2, <2>3 DEF Resampled, Pair, m
<1> QED  BY <1>6, <1>7

\* resamplePath: ResampleCorrect of its result.
LEMMA ResampleWalk ==
  ASSUME NEW p \in Seq(Int), Len(p) >= 3, NEW spacing \in Nat \ {0}, NEW K, K = resamplePath(p, spacing)
  PROVE  \E r : r.kept = K /\ Resampled(r, Len(p), Len(p), travelled(p, 1), spacing)
<1> DEFINE n == Len(p)
           t == travelled(p, 1)
           V == [kept : Seq(Nat), acc : Nat]
           e(i) == euclidean_distance(p[i - 1], p[i])
           next(i, r) == IF r.acc + e(i) >= spacing \/ i = n THEN [kept |-> Append(r.kept, i), acc |-> 0]
                         ELSE [kept |-> r.kept, acc |-> r.acc + e(i)]
           a == [kept |-> <<1>>, acc |-> 0]
           step == [x \in (1 + 1 .. n) \X V |-> next(x[1], x[2])]
<1>1. n \in Nat /\ n \in Int /\ 1 \in Int /\ 1 <= n /\ DOMAIN p = 1 .. n /\ n >= 3
  OBVIOUS
<1>2. \A i \in 1 + 1 .. n : e(i) \in Nat
  <2>1. \A i \in 1 + 1 .. n : p[i - 1] \in Int /\ p[i] \in Int
    OBVIOUS
  <2> QED  BY <2>1, Distance
<1>3. t \in [1 .. n -> Nat] /\ \A i \in 1 + 1 .. n : t[i] = t[i - 1] + e(i)
  <2>1. 1 \in 1 .. Len(p)
    BY <1>1
  <2> QED  BY <2>1, Travelled
<1>4. a \in V
  OBVIOUS
<1>5. K = (CHOOSE out : out = [i \in DOMAIN p |-> IF i = 1 THEN a ELSE next(i, out[i - 1])])[n].kept
  <2>1. ~ (spacing <= 0 \/ Len(p) < 3)
    BY <1>1
  <2> QED  BY <2>1 DEF resamplePath
<1> HIDE DEF n, t, e, a
<1>6. ASSUME NEW i \in 1 + 1 .. n, NEW r \in V PROVE next(i, r) \in V
  <2>1. e(i) \in Nat /\ r.kept \in Seq(Nat) /\ r.acc \in Nat /\ i \in Nat
    BY <1>1, <1>2
  <2>2. Append(r.kept, i) \in Seq(Nat) /\ r.acc + e(i) \in Nat
    BY <2>1
  <2> QED  BY <2>1, <2>2
<1>7. step \in Steps(1, n, V)
  <2> HIDE DEF next, V
  <2>1. ASSUME NEW x \in (1 + 1 .. n) \X V PROVE next(x[1], x[2]) \in V
    BY <1>6
  <2> QED  BY <2>1 DEF Steps
<1> HIDE DEF V
<1>8. PICK f : Solves(f, 1, n, V, a, step)
  <2> HIDE DEF step
  <2> QED  BY <1>1, <1>4, <1>7, Recursion
<1> HIDE DEF next
<1> DEFINE h == [i \in DOMAIN p |-> IF i = 1 THEN a ELSE next(i, f[i - 1])]
<1>9. f = h
  <2>1. ASSUME NEW i \in 1 .. n PROVE f[i] = h[i]
    <3>1. CASE i = 1
      BY <1>1, <1>8, <3>1 DEF Solves
    <3>2. CASE i # 1
      <4>1. i \in 1 + 1 .. n /\ f[i - 1] \in V
        BY <1>1, <1>8, <3>2 DEF Solves
      <4>2. f[i] = step[<<i, f[i - 1]>>]
        <5> HIDE DEF step
        <5> QED  BY <1>8, <4>1 DEF Solves
      <4>3. step[<<i, f[i - 1]>>] = next(i, f[i - 1])
        BY <4>1
      <4> HIDE DEF step
      <4> QED  BY <1>1, <3>2, <4>2, <4>3
    <3> QED  BY <3>1, <3>2
  <2>2. f = [i \in 1 .. n |-> f[i]]
    BY <1>8 DEF Solves
  <2> QED  BY <1>1, <2>1, <2>2
<1>10. \E g : g = [i \in DOMAIN p |-> IF i = 1 THEN a ELSE next(i, g[i - 1])]
  BY <1>9
<1>11. PICK g : g = [i \in DOMAIN p |-> IF i = 1 THEN a ELSE next(i, g[i - 1])] /\ K = g[n].kept
  BY <1>5, <1>10
<1>12. g[1] = a /\ \A i \in 1 + 1 .. n : g[i] = next(i, g[i - 1])
  <2>1. 1 \in DOMAIN p
    BY <1>1
  <2>2. g[1] = a
    BY <1>11, <2>1
  <2>3. ASSUME NEW i \in 1 + 1 .. n PROVE g[i] = next(i, g[i - 1])
    <3>1. i \in DOMAIN p /\ i # 1
      BY <1>1
    <3> QED  BY <1>11, <3>1
  <2> QED  BY <2>2, <2>3
<1> DEFINE S == {i \in 1 .. n : g[i] \in V /\ Resampled(g[i], i, n, t, spacing)}
<1>13. 1 \in S
  <2>1. a.kept = <<1>> /\ a.acc = 0 /\ 1 # n /\ t[1] \in Nat
    BY <1>1, <1>3 DEF a
  <2>2. Resampled(a, 1, n, t, spacing)
    BY <2>1 DEF Resampled
  <2> QED  BY <1>1, <1>4, <1>12, <2>2
<1>14. ASSUME NEW i \in 1 + 1 .. n, i - 1 \in S PROVE i \in S
  <2> DEFINE r == g[i - 1]
             acc == r.acc + e(i)
  <2>1. r \in V /\ Resampled(r, i - 1, n, t, spacing) /\ g[i] = next(i, r) /\ i \in 1 .. n /\ i \in 2 .. n
    BY <1>1, <1>12, <1>14
  <2>2. g[i] \in V
    BY <1>6, <2>1
  <2> HIDE DEF r
  <2>3. r.acc \in Nat
    BY <2>1 DEF V
  <2>4. e(i) \in Nat /\ t[i] = t[i - 1] + e(i) /\ t[i - 1] \in Nat /\ t[i] \in Nat
    <3>1. i - 1 \in 1 .. n
      BY <1>1
    <3> QED  BY <1>2, <1>3, <2>1, <3>1
  <2>5. acc \in Nat /\ acc = r.acc + (t[i] - t[i - 1])
    <3>1. t[i] - t[i - 1] = e(i)
      BY <2>4
    <3>2. e(i) \in Nat
      BY <2>4
    <3>3. acc \in Nat
      BY <2>3, <3>2
    <3>4. acc = r.acc + e(i)
      OBVIOUS
    <3> HIDE DEF acc
    <3> QED  BY <3>1, <3>3, <3>4
  <2>6. g[i] = IF acc >= spacing \/ i = n THEN [kept |-> Append(r.kept, i), acc |-> 0]
               ELSE [kept |-> r.kept, acc |-> acc]
    BY <2>1 DEF next
  <2> HIDE DEF acc
  <2>7. Resampled(g[i], i, n, t, spacing)
    BY <1>1, <1>3, <2>1, <2>3, <2>5, <2>6, ResampledStep
  <2> QED  BY <2>1, <2>2, <2>7
<1>15. \A i \in 1 .. n : i \in S
  <2> HIDE DEF S
  <2> QED  BY <1>1, <1>13, <1>14, IndexInduction
<1>16. Resampled(g[n], n, n, t, spacing)
  BY <1>1, <1>15
<1> QED  BY <1>11, <1>16 DEF n, t

\* resamplePath: ResampleCorrect of its result.
LEMMA ResampleTool ==
  ASSUME poses \in Seq(Int), NEW d \in Int, NEW c, c = [arg |-> d, out |-> resamplePath(poses, d)]
  PROVE  ResampleCorrect(c)
<1> DEFINE n == Len(poses)
           t == travelled(poses, 1)
           K == resamplePath(poses, d)
           m == Len(K)
<1>1. n \in Nat /\ c.arg = d /\ c.out = K
  OBVIOUS
<1>2. CASE d <= 0 \/ n < 3
  <2>1. K = [i \in DOMAIN poses |-> i]
    BY <1>2 DEF resamplePath
  <2> HIDE DEF K
  <2>2. /\ K \in Seq(Nat) /\ m = n /\ \A i \in 1 .. n : K[i] = i
        /\ Increasing(K)
        /\ poses # <<>> => Head(K) = 1 /\ Last(K) = n
    BY <2>1, AllKept
  <2>3. Thinned(K)
    BY <2>2 DEF Thinned
  <2>4. ASSUME NEW i \in 1 .. m - 1, n > 2 PROVE Integrated(K[i], K[i + 1]) >= d /\ ~ (d > 0)
    <3>1. d <= 0
      BY <1>1, <1>2, <2>4
    <3>2. i \in 1 .. n /\ i + 1 \in 1 .. n /\ i + 1 \in i .. n
      BY <1>1, <2>2
    <3>3. Integrated(K[i], K[i + 1]) = t[i + 1] - t[i]
      BY <2>2, <3>2 DEF Integrated
    <3>4. t[i] \in Nat /\ t[i + 1] \in Nat /\ t[i] <= t[i + 1]
      BY <3>2, TravelledMonotone
    <3> QED  BY <3>1, <3>3, <3>4
  <2> QED  BY <1>1, <2>3, <2>4 DEF ResampleCorrect
<1>3. CASE ~ (d <= 0 \/ n < 3)
  <2>1. d \in Nat \ {0} /\ n >= 3
    BY <1>1, <1>3
  <2> HIDE DEF K
  <2>2. PICK r : r.kept = K /\ Resampled(r, n, n, t, d)
    BY <2>1, ResampleWalk DEF K
  <2>3. /\ K \in Seq(Nat) /\ m >= 1 /\ K[1] = 1 /\ K[m] = n
        /\ \A j \in 1 .. m : K[j] \in 1 .. n
        /\ \A j \in 1 .. m - 1 : /\ K[j] < K[j + 1]
                                 /\ t[K[j + 1] - 1] - t[K[j]] < d
                                 /\ K[j + 1] < n => t[K[j + 1]] - t[K[j]] >= d
    BY <2>2 DEF Resampled
  <2>4. m \in Nat
    BY <2>3
  <2> HIDE DEF m, n
  <2>5. Thinned(K)
    <3>1. Increasing(K)
      BY <2>3 DEF Increasing, m
    <3>2. Head(K) = 1 /\ Last(K) = n
      BY <2>3 DEF Last, m
    <3> QED  BY <3>1, <3>2 DEF Thinned, n
  <2>6. ASSUME NEW i \in 1 .. m - 1
        PROVE  /\ Integrated(K[i], K[i + 1] - 1) < d
               /\ i + 1 < m => Integrated(K[i], K[i + 1]) >= d
    <3>1. /\ Integrated(K[i], K[i + 1] - 1) = t[K[i + 1] - 1] - t[K[i]]
          /\ Integrated(K[i], K[i + 1]) = t[K[i + 1]] - t[K[i]]
      BY DEF Integrated
    <3>2. ASSUME i + 1 < m PROVE K[i + 1] < n
      <4>1. i + 1 \in 1 .. m - 1 /\ (i + 1) + 1 \in 1 .. m /\ i + 1 \in 1 .. m
        BY <2>4, <3>2
      <4>2. K[i + 1] < K[(i + 1) + 1] /\ K[(i + 1) + 1] \in 1 .. n /\ K[i + 1] \in 1 .. n
        BY <2>3, <4>1
      <4> QED  BY <1>1, <4>2 DEF n
    <3> QED  BY <2>3, <3>1, <3>2
  <2> QED  BY <1>1, <2>5, <2>6 DEF ResampleCorrect, m
<1> QED  BY <1>2, <1>3

-----------------------------------------------------------------------------
(* The specification.                                                      *)

LEMMA PathsAreSequences ==
  ASSUME NEW p \in AllPaths
  PROVE  p \in Seq(Int) /\ Len(p) \in 0 .. MaxPoses /\ p \in Seq(Coords)
<1>1. PICK n \in 0 .. MaxPoses : p \in [1 .. n -> Coords]
  BY DEF AllPaths
<1>2. n \in Nat /\ Coords \subseteq Int
  BY PathToolsAssumption DEF Coords
<1>3. p \in Seq(Coords) /\ Len(p) = n
  BY <1>1, <1>2
<1>4. p \in [1 .. n -> Int]
  BY <1>1, <1>2
<1>5. p \in Seq(Int)
  BY <1>2, <1>4
<1> QED  BY <1>3, <1>5

LEMMA NothingIsCorrect == call = nothing_called => PathToolsCorrect
  BY DEF nothing_called, PathToolsCorrect

\* A new call replaces the result of the last one, and leaves alone what the
\* result is judged by.
LEMMA TruncateCall ==
  ASSUME poses \in Seq(Int), poses' = poses, NEW d \in Int,
         call' = <<"truncate", [arg |-> d, out |-> TruncatePath(poses, d)]>>
  PROVE  PathToolsCorrect'
<1> DEFINE c == [arg |-> d, out |-> TruncatePath(poses, d)]
<1>1. TruncateCorrect(c)
  BY TruncateTool
<1>2. call'[1] = "truncate" /\ call'[2] = c
  OBVIOUS
<1> HIDE DEF c
<1>3. TruncateCorrect(call[2])'
  BY <1>1, <1>2 DEF TruncateCorrect
<1> QED  BY <1>2, <1>3 DEF PathToolsCorrect

LEMMA ResampleCall ==
  ASSUME poses \in Seq(Int), poses' = poses, NEW d \in Int,
         call' = <<"resample", [arg |-> d, out |-> resamplePath(poses, d)]>>
  PROVE  PathToolsCorrect'
<1> DEFINE c == [arg |-> d, out |-> resamplePath(poses, d)]
<1>1. ResampleCorrect(c)
  BY ResampleTool
<1>2. call'[1] = "resample" /\ call'[2] = c
  OBVIOUS
<1> HIDE DEF c
<1>3. ResampleCorrect(call[2])'
  BY <1>1, <1>2 DEF ResampleCorrect, Thinned, Integrated
<1> QED  BY <1>2, <1>3 DEF PathToolsCorrect

LEMMA CapCall ==
  ASSUME poses \in Seq(Int), poses' = poses, NEW d \in Int,
         call' = <<"cap", [arg |-> d, out |-> capPath(poses, d)]>>
  PROVE  PathToolsCorrect'
<1> DEFINE c == [arg |-> d, out |-> capPath(poses, d)]
<1>1. CapCorrect(c)
  BY CapTool
<1>2. call'[1] = "cap" /\ call'[2] = c
  OBVIOUS
<1> HIDE DEF c
<1>3. CapCorrect(call[2])'
  BY <1>1, <1>2 DEF CapCorrect, Thinned
<1> QED  BY <1>2, <1>3 DEF PathToolsCorrect

LEMMA PoseCall ==
  ASSUME poses \in Seq(Int), poses' = poses, NEW d \in Int,
         call' = <<"pose", [arg |-> d, out |-> GetPoseFromPath(poses, d)]>>
  PROVE  PathToolsCorrect'
<1> DEFINE c == [arg |-> d, out |-> GetPoseFromPath(poses, d)]
<1>1. PoseCorrect(c)
  BY PoseTool
<1>2. call'[1] = "pose" /\ call'[2] = c
  OBVIOUS
<1> HIDE DEF c
<1>3. PoseCorrect(call[2])'
  BY <1>1, <1>2 DEF PoseCorrect
<1> QED  BY <1>2, <1>3 DEF PathToolsCorrect

LEMMA GoalsCall ==
  ASSUME poses \in Seq(Int), poses' = poses, NEW d \in Int,
         call' = <<"goals", [arg |-> d, out |-> GetNextFewGoals(poses, d)]>>
  PROVE  PathToolsCorrect'
<1> DEFINE c == [arg |-> d, out |-> GetNextFewGoals(poses, d)]
<1>1. GoalsCorrect(c)
  BY GoalsTool
<1>2. call'[1] = "goals" /\ call'[2] = c
  OBVIOUS
<1> HIDE DEF c
<1>3. GoalsCorrect(call[2])'
  BY <1>1, <1>2 DEF GoalsCorrect
<1> QED  BY <1>2, <1>3 DEF PathToolsCorrect

LEMMA ValidCall ==
  ASSUME poses \in Seq(Int), poses' = poses, NEW b, NEW answers \in BOOLEAN, NEW step \in Int, NEW n \in Int, NEW planner,
         NEW active \in BOOLEAN, active <=> planner = "checker",
         NEW at, at = MoveItGlobalPlanner_isPathValid(poses, active, step, n, b, answers),
         call' = <<"valid", [arg |-> [b |-> b, answers |-> answers, step |-> step, n |-> n, planner |-> planner],
           out |-> [valid |-> PlannerServer_isPathValid(poses, planner, at), at |-> at]]>>
  PROVE  PathToolsCorrect'
<1> DEFINE c == [arg |-> [b |-> b, answers |-> answers, step |-> step, n |-> n, planner |-> planner],
           out |-> [valid |-> PlannerServer_isPathValid(poses, planner, at), at |-> at]]
<1>0. c = [arg |-> [b |-> b, answers |-> answers, step |-> step, n |-> n, planner |-> planner],
           out |-> [valid |-> PlannerServer_isPathValid(poses, planner, at), at |-> at]]
  OBVIOUS
<1>1. ValidCorrect(c)
  <2> HIDE DEF c
  <2> QED  BY <1>0, ValidTool
<1>2. call'[1] = "valid" /\ call'[2] = c
  OBVIOUS
<1> HIDE DEF c
<1>3. ValidCorrect(call[2])'
  BY <1>1, <1>2 DEF ValidCorrect
<1> QED  BY <1>2, <1>3 DEF PathToolsCorrect

LEMMA PlanCall ==
  ASSUME poses \in Seq(Int), poses' = poses, NEW missing, NEW succeeds \in BOOLEAN, NEW yaw_mode,
         call' = <<"plan", [arg |-> [missing |-> missing, yaw_mode |-> yaw_mode],
           out |-> MoveGroupInterface_plan(poses, missing, succeeds, yaw_mode)]>>
  PROVE  PathToolsCorrect'
<1> DEFINE c == [arg |-> [missing |-> missing, yaw_mode |-> yaw_mode],
           out |-> MoveGroupInterface_plan(poses, missing, succeeds, yaw_mode)]
<1>1. PlanCorrect(c)
  BY PlanTool
<1>2. call'[1] = "plan" /\ call'[2] = c
  OBVIOUS
<1> HIDE DEF c
<1>3. PlanCorrect(call[2])'
  BY <1>1, <1>2 DEF PlanCorrect, NothingMadeUp
<1> QED  BY <1>2, <1>3 DEF PathToolsCorrect

LEMMA RemainingCall ==
  ASSUME poses \in Seq(Int), poses' = poses, poses # <<>>, robot \in Int, robot' = robot,
         call' = <<"remaining", [out |-> distance_remaining(poses)]>>
  PROVE  PathToolsCorrect'
<1> DEFINE c == [out |-> distance_remaining(poses)]
<1>1. RemainingCorrect(c)
  BY RemainingTool
<1>2. call'[1] = "remaining" /\ call'[2] = c
  OBVIOUS
<1> HIDE DEF c
<1>3. RemainingCorrect(call[2])'
  BY <1>1, <1>2 DEF RemainingCorrect, Integrated
<1> QED  BY <1>2, <1>3 DEF PathToolsCorrect

LEMMA TimedCall ==
  ASSUME poses \in Seq(Int), poses' = poses, poses # <<>>,
         index = 1 \/ index \in 1 .. Len(poses) - 1, NEW tnow \in Nat,
         index' = current_segment(poses, tnow).index,
         call' = <<"timed", [tnow |-> tnow, from |-> index, out |-> current_segment(poses, tnow)]>>
  PROVE  PathToolsCorrect' /\ (index' = 1 \/ index' \in 1 .. Len(poses) - 1)
<1> DEFINE c == [tnow |-> tnow, from |-> index, out |-> current_segment(poses, tnow)]
<1>1. TimedCorrect(c) /\ (c.out.index = 1 \/ c.out.index \in 1 .. Len(poses) - 1)
  BY TimedTool
<1>2. call'[1] = "timed" /\ call'[2] = c /\ index' = c.out.index
  OBVIOUS
<1> HIDE DEF c
<1>3. TimedCorrect(call[2])'
  BY <1>1, <1>2 DEF TimedCorrect
<1>4. PathToolsCorrect'
  BY <1>2, <1>3 DEF PathToolsCorrect
<1> QED  BY <1>1, <1>2, <1>4

LEMMA LocalCall ==
  ASSUME poses \in Seq(Int), poses' = poses, robot \in Int, robot' = robot, NEW mode,
         NEW forward \in Nat, NEW backward \in Nat, NEW search \in Nat,
         local_begin(poses, search) \in 1 .. Len(poses),
         call' = <<"local", [mode |-> mode, forward |-> forward, backward |-> backward, search |-> search,
                             from |-> local_begin(poses, search),
                             out |-> TruncatePathLocal(poses, mode, forward, backward, search)]>>
  PROVE  PathToolsCorrect' /\ TruncatePathLocal(poses, mode, forward, backward, search).at \in 1 .. Len(poses)
<1> DEFINE c == [mode |-> mode, forward |-> forward, backward |-> backward, search |-> search,
                 from |-> local_begin(poses, search),
                 out |-> TruncatePathLocal(poses, mode, forward, backward, search)]
<1>0. c = [mode |-> mode, forward |-> forward, backward |-> backward, search |-> search,
           from |-> local_begin(poses, search),
           out |-> TruncatePathLocal(poses, mode, forward, backward, search)]
  OBVIOUS
<1>1. LocalCorrect(c) /\ c.out.at \in 1 .. Len(poses)
  <2> HIDE DEF c
  <2> QED  BY <1>0, LocalTool
<1>2. call'[1] = "local" /\ call'[2] = c
      /\ c.out = TruncatePathLocal(poses, mode, forward, backward, search)
  OBVIOUS
<1> HIDE DEF c
<1>3. LocalCorrect(call[2])'
  BY <1>1, <1>2, SMTT(60) DEF LocalCorrect, Integrated
<1>4. PathToolsCorrect'
  BY <1>2, <1>3 DEF PathToolsCorrect
<1> QED  BY <1>1, <1>2, <1>4

\* The tools that are what they say.
LEMMA OtherCall ==
  ASSUME call'[1] \in {"none", "concatenate", "append", "current_pose", "route", "unlocated"}
  PROVE  PathToolsCorrect'
  BY DEF PathToolsCorrect

\* The search begins at a pose of the path it is about.
LEMMA LocalBegin ==
  ASSUME PathToolsInv, NEW search \in Nat
  PROVE  /\ local_begin(poses, search) \in 1 .. MaxPoses + 1
         /\ local_begin(poses, search) = 1 \/ local_begin(poses, search) \in 1 .. Len(poses)
<1>1. 1 \in 1 .. MaxPoses + 1
  BY PathToolsAssumption
<1>2. local.begin \in 1 .. MaxPoses + 1 /\ (local.begin = 1 \/ local.begin \in 1 .. Len(local.path))
  BY DEF PathToolsInv
<1> QED  BY <1>1, <1>2 DEF local_begin

LEMMA PathToolsInvInit == ToolInit => PathToolsInv
<1> SUFFICES ASSUME ToolInit PROVE PathToolsInv
  OBVIOUS
<1>1. <<>> \in AllPaths
  <2>1. <<>> \in [1 .. 0 -> Coords] /\ 0 \in 0 .. MaxPoses
    BY PathToolsAssumption
  <2> QED  BY <2>1 DEF AllPaths
<1>2. 0 \in Coords /\ 1 \in 1 .. MaxPoses + 1
  BY PathToolsAssumption DEF Coords
<1>3. PathToolsCorrect
  BY NothingIsCorrect DEF ToolInit
<1> QED  BY <1>1, <1>2, <1>3 DEF ToolInit, PathToolsInv

\* A call that keeps nothing.
LEMMA UsePreserves ==
  ASSUME PathToolsInv, NEW tool, NEW arg, NEW out, use(tool, arg, out),
         PathToolsCorrect'
  PROVE  PathToolsInv'
  BY DEF PathToolsInv, use

LEMMA PathToolsInvInductive == PathToolsInv /\ [ToolNext]_toolVars => PathToolsInv'
<1> SUFFICES ASSUME PathToolsInv, [ToolNext]_toolVars PROVE PathToolsInv'
  OBVIOUS
<1>1. poses \in AllPaths /\ robot \in Coords /\ poses \in Seq(Int) /\ robot \in Int /\ Len(poses) \in 0 .. MaxPoses
  <2>1. poses \in AllPaths /\ robot \in Coords
    BY DEF PathToolsInv
  <2> QED  BY <2>1, PathsAreSequences DEF Coords
<1>2. MaxPoses \in Nat /\ MaxCoord \in Nat /\ Infinite \in Nat /\ MaxCoord \div 2 \in Nat /\ MaxCoord * MaxPoses \in Nat
  BY PathToolsAssumption DEF Infinite
<1>3. CASE UNCHANGED toolVars
  <2>1. PathToolsCorrect'
    <3>1. poses' = poses /\ robot' = robot /\ call' = call /\ PathToolsCorrect
      BY <1>3 DEF toolVars, PathToolsInv
    <3>2. LocalCorrect(call[2]) => LocalCorrect(call[2])'
      BY <3>1 DEF LocalCorrect, Integrated
    <3>3. RemainingCorrect(call[2]) => RemainingCorrect(call[2])'
      BY <3>1 DEF RemainingCorrect, Integrated
    <3>4. TimedCorrect(call[2]) => TimedCorrect(call[2])'
      BY <3>1 DEF TimedCorrect
    <3>5. ValidCorrect(call[2]) => ValidCorrect(call[2])'
      BY <3>1 DEF ValidCorrect
    <3>6. PlanCorrect(call[2]) => PlanCorrect(call[2])'
      BY <3>1 DEF PlanCorrect, NothingMadeUp
    <3>7. ResampleCorrect(call[2]) => ResampleCorrect(call[2])'
      BY <3>1 DEF ResampleCorrect, Thinned, Integrated
    <3>8. CapCorrect(call[2]) => CapCorrect(call[2])'
      BY <3>1 DEF CapCorrect, Thinned
    <3>9. TruncateCorrect(call[2]) => TruncateCorrect(call[2])'
      BY <3>1 DEF TruncateCorrect
    <3>10. PoseCorrect(call[2]) => PoseCorrect(call[2])'
      BY <3>1 DEF PoseCorrect
    <3>11. GoalsCorrect(call[2]) => GoalsCorrect(call[2])'
      BY <3>1 DEF GoalsCorrect
    <3> QED  BY <3>1, <3>2, <3>3, <3>4, <3>5, <3>6, <3>7, <3>8, <3>9, <3>10, <3>11 DEF PathToolsCorrect
  <2> QED  BY <1>3, <2>1 DEF toolVars, PathToolsInv
<1>4. CASE done
  <2>1. call'[1] = "none"
    BY <1>4 DEF done, nothing_called
  <2>2. PathToolsCorrect'
    BY <2>1, OtherCall
  <2> QED  BY <1>4, <2>2 DEF done, PathToolsInv
<1>5. ASSUME NEW p \in AllPaths, call = nothing_called, new_path(p) PROVE PathToolsInv'
  <2>1. call'[1] = "none"
    BY <1>5 DEF new_path, nothing_called
  <2>2. PathToolsCorrect'
    BY <2>1, OtherCall
  <2> QED  BY <1>5, <2>2 DEF new_path, PathToolsInv
<1>6. ASSUME NEW r \in Coords, call = nothing_called, move(r) PROVE PathToolsInv'
  <2>1. call'[1] = "none"
    BY <1>6 DEF move, nothing_called
  <2>2. PathToolsCorrect'
    BY <2>1, OtherCall
  <2> QED  BY <1>6, <2>2 DEF move, PathToolsInv
<1>7. ASSUME NEW d \in Int, use("truncate", d, TruncatePath(poses, d)) PROVE PathToolsInv'
  <2>1. PathToolsCorrect'
    BY <1>1, <1>7, TruncateCall DEF use
  <2> QED  BY <1>7, <2>1, UsePreserves
<1>8. ASSUME NEW d \in Int, use("resample", d, resamplePath(poses, d)) PROVE PathToolsInv'
  <2>1. PathToolsCorrect'
    BY <1>1, <1>8, ResampleCall DEF use
  <2> QED  BY <1>8, <2>1, UsePreserves
<1>9. ASSUME NEW d \in Int, use("cap", d, capPath(poses, d)) PROVE PathToolsInv'
  <2>1. PathToolsCorrect'
    BY <1>1, <1>9, CapCall DEF use
  <2> QED  BY <1>9, <2>1, UsePreserves
<1>10. ASSUME NEW i \in Int, use("pose", i, GetPoseFromPath(poses, i)) PROVE PathToolsInv'
  <2>1. PathToolsCorrect'
    BY <1>1, <1>10, PoseCall DEF use
  <2> QED  BY <1>10, <2>1, UsePreserves
<1>11. ASSUME NEW i \in Int, use("goals", i, GetNextFewGoals(poses, i)) PROVE PathToolsInv'
  <2>1. PathToolsCorrect'
    BY <1>1, <1>11, GoalsCall DEF use
  <2> QED  BY <1>11, <2>1, UsePreserves
<1>12. ASSUME NEW tool \in {"concatenate", "append", "current_pose", "route"}, NEW arg, NEW out, use(tool, arg, out)
       PROVE  PathToolsInv'
  <2>1. call'[1] = tool
    BY <1>12 DEF use
  <2>2. PathToolsCorrect'
    BY <2>1, OtherCall
  <2> QED  BY <1>12, <2>2, UsePreserves
<1>13. ASSUME NEW b \in Coords, NEW answers \in BOOLEAN, NEW step \in 0 .. 2, NEW n \in {0, 2, MaxPoses},
              NEW planner \in {"unknown", "no_checker", "inactive", "checker"},
              use_valid(b, answers, step, n, planner)
       PROVE  PathToolsInv'
  <2>1. step \in Int /\ n \in Int
    BY <1>2
  <2>2. PICK active \in BOOLEAN : active <=> planner = "checker"
    OBVIOUS
  <2> DEFINE at == MoveItGlobalPlanner_isPathValid(poses, active, step, n, b, answers)
             arg == [b |-> b, answers |-> answers, step |-> step, n |-> n, planner |-> planner]
             out == [valid |-> PlannerServer_isPathValid(poses, planner, at), at |-> at]
  <2>3. use("valid", arg, out)
    BY <1>13, <2>2 DEF use_valid, MoveItGlobalPlanner_isPathValid
  <2>4. PathToolsCorrect'
    <3>1. poses' = poses /\ call' = <<"valid", [arg |-> arg, out |-> out]>>
      BY <2>3 DEF use
    <3> QED  BY <1>1, <2>1, <2>2, <3>1, ValidCall
  <2> HIDE DEF arg, out
  <2> QED  BY <2>3, <2>4, UsePreserves
<1>14. ASSUME NEW missing \in Coords, NEW succeeds \in BOOLEAN, NEW yaw_mode,
              use("plan", [missing |-> missing, yaw_mode |-> yaw_mode],
                  MoveGroupInterface_plan(poses, missing, succeeds, yaw_mode))
       PROVE  PathToolsInv'
  <2>1. PathToolsCorrect'
    BY <1>1, <1>14, PlanCall DEF use
  <2> QED  BY <1>14, <2>1, UsePreserves
<1>15. CASE use_remaining
  <2>1. PathToolsCorrect'
    BY <1>1, <1>15, RemainingCall DEF use_remaining
  <2> QED  BY <1>15, <2>1 DEF use_remaining, PathToolsInv
<1>16. ASSUME NEW tnow \in Nat, use_timed(tnow) PROVE PathToolsInv'
  <2>1. /\ poses # <<>> /\ UNCHANGED <<poses, robot, local>>
        /\ index' = current_segment(poses, tnow).index
        /\ call' = <<"timed", [tnow |-> tnow, from |-> index, out |-> current_segment(poses, tnow)]>>
    BY <1>16 DEF use_timed
  <2>2. index = 1 \/ index \in 1 .. Len(poses) - 1
    BY DEF PathToolsInv
  <2>3. PathToolsCorrect' /\ (index' = 1 \/ index' \in 1 .. Len(poses) - 1)
    BY <1>1, <2>1, <2>2, TimedCall
  <2> QED  BY <2>1, <2>3 DEF PathToolsInv
<1>17. ASSUME NEW mode, NEW f \in Nat, NEW b \in Nat, NEW d \in Nat, use_local(mode, f, b, d) PROVE PathToolsInv'
  <2> DEFINE out == TruncatePathLocal(poses, mode, f, b, d)
  <2>1. /\ poses # <<>> /\ UNCHANGED <<poses, robot, index>>
        /\ local' = [path |-> poses, begin |-> IF d < Infinite THEN out.at ELSE 1]
        /\ call' = <<"local", [mode |-> mode, forward |-> f, backward |-> b,
                               search |-> d, from |-> local_begin(poses, d), out |-> out]>>
    BY <1>17 DEF use_local
  <2>2. 1 \in 1 .. Len(poses)
    BY <1>1, <2>1
  <2>3. local_begin(poses, d) \in 1 .. Len(poses)
    BY <2>2, LocalBegin
  <2>4. PathToolsCorrect' /\ out.at \in 1 .. Len(poses)
    BY <1>1, <2>1, <2>3, LocalCall
  <2> HIDE DEF out
  <2>5. /\ local'.path = poses /\ local'.begin \in 1 .. Len(poses)
        /\ local' \in [path : AllPaths, begin : 1 .. MaxPoses + 1]
    <3>1. (IF d < Infinite THEN out.at ELSE 1) \in 1 .. Len(poses)
      BY <2>2, <2>4
    <3>2. (IF d < Infinite THEN out.at ELSE 1) \in 1 .. MaxPoses + 1
      BY <1>1, <1>2, <3>1
    <3> QED  BY <1>1, <2>1, <3>1, <3>2
  <2> QED  BY <2>1, <2>4, <2>5 DEF PathToolsInv
<1>18. ASSUME NEW d \in Nat, pose_unknown(d) PROVE PathToolsInv'
  <2>1. /\ UNCHANGED <<poses, robot, index>>
        /\ local' = [path |-> poses, begin |-> local_begin(poses, d)]
        /\ call' = <<"unlocated">>
    BY <1>18 DEF pose_unknown
  <2>2. /\ local_begin(poses, d) \in 1 .. MaxPoses + 1
        /\ local_begin(poses, d) = 1 \/ local_begin(poses, d) \in 1 .. Len(poses)
    BY LocalBegin
  <2>3. PathToolsCorrect'
    BY <2>1, OtherCall
  <2> HIDE DEF local_begin
  <2>4. /\ local' \in [path : AllPaths, begin : 1 .. MaxPoses + 1]
        /\ local'.begin = 1 \/ local'.begin \in 1 .. Len(local'.path)
    BY <1>1, <2>1, <2>2
  <2> QED  BY <2>1, <2>3, <2>4 DEF PathToolsInv
<1>19. ASSUME a_call PROVE PathToolsInv'
  <2>1. /\ 0 .. MaxCoord + 1 \subseteq Int /\ -(MaxPoses + 1) .. MaxPoses \subseteq Int
        /\ 0 .. 2 + MaxCoord * MaxPoses \subseteq Nat /\ Coords \subseteq Nat
        /\ {0, MaxCoord \div 2} \subseteq Nat /\ {0, MaxCoord} \subseteq Nat /\ {1, MaxCoord} \subseteq Nat
        /\ {1, MaxCoord, Infinite} \subseteq Nat /\ {1, Infinite} \subseteq Nat /\ 0 \in Nat
    BY <1>2 DEF Coords
  <2>2. CASE \E p \in AllPaths : new_path(p)
    BY <1>5, <1>19, <2>2 DEF a_call
  <2>3. CASE \E r \in Coords : move(r)
    BY <1>6, <1>19, <2>3 DEF a_call
  <2>4. CASE \E d \in 0 .. MaxCoord + 1 :
               \/ use("truncate", d, TruncatePath(poses, d))
               \/ use("resample", d, resamplePath(poses, d))
               \/ use("cap", d, capPath(poses, d))
    BY <1>7, <1>8, <1>9, <2>1, <2>4
  <2>5. CASE \E i \in -(MaxPoses + 1) .. MaxPoses :
               use("pose", i, GetPoseFromPath(poses, i)) \/ use("goals", i, GetNextFewGoals(poses, i))
    BY <1>10, <1>11, <2>1, <2>5
  <2>6. CASE \E q \in {<<>>, <<0>>} : use("concatenate", q, ConcatenatePaths(poses, q))
    BY <1>12, <2>6
  <2>7. CASE \E g \in Coords : use("append", g, AppendGoalPoseToGoals(poses, g))
    BY <1>12, <2>7
  <2>8. CASE \E known \in BOOLEAN : use("current_pose", known, GetCurrentPose(known))
    BY <1>12, <2>8
  <2>9. CASE use("route", 0, ExtractRouteNodesAsGoals(poses))
    BY <1>12, <2>9
  <2>10. CASE \E b \in Coords, answers \in BOOLEAN, step \in 0 .. 2, n \in {0, 2, MaxPoses},
                planner \in {"unknown", "no_checker", "inactive", "checker"} :
               use_valid(b, answers, step, n, planner)
    BY <1>13, <2>10
  <2>11. CASE \E missing \in Coords, succeeds \in BOOLEAN, yaw_mode \in {"Keep", "Fixed", "Directional"} :
                use("plan", [missing |-> missing, yaw_mode |-> yaw_mode],
                    MoveGroupInterface_plan(poses, missing, succeeds, yaw_mode))
    BY <1>14, <2>11
  <2>12. CASE \E tnow \in 0 .. 2 + MaxCoord * MaxPoses : use_timed(tnow)
    BY <1>16, <2>1, <2>12
  <2>13. CASE \E f \in {0, MaxCoord \div 2}, b \in {0, MaxCoord}, d \in {1, MaxCoord} : use_local("local", f, b, d)
    BY <1>17, <2>1, <2>13
  <2>14. CASE \E f \in Coords, d \in {1, MaxCoord, Infinite} : use_local("remaining", f, 0, d)
    BY <1>17, <2>1, <2>14
  <2>15. CASE \E d \in {1, Infinite} : pose_unknown(d)
    BY <1>18, <2>1, <2>15
  <2> QED  BY <1>15, <1>19, <2>2, <2>3, <2>4, <2>5, <2>6, <2>7, <2>8, <2>9, <2>10, <2>11, <2>12, <2>13, <2>14, <2>15
           DEF a_call
<1> QED  BY <1>3, <1>4, <1>19 DEF ToolNext

-----------------------------------------------------------------------------
\* TruncatePathLocal's remembered begin is a pose of the path it remembers, and the
\* controller's index has a pose behind it, whatever paths are written, wherever the
\* robot goes and however the clock is set; every result is what PathToolsCorrect says.
THEOREM PathToolsInvariance == ToolSpec => []PathToolsInv
<1>1. PathToolsInv /\ [ToolNext]_toolVars => PathToolsInv'
  BY PathToolsInvInductive
<1> QED  BY PathToolsInvInit, <1>1, PTL DEF ToolSpec

\* Every result of a tool on a path is what its name and its ports promise, for paths
\* of any length: the loops of geometry_utils.hpp, of the action plugins, of
\* MoveItGlobalPlanner::isPathValid and of ControllerServer::getCurrentCommand.
THEOREM ToolsCorrect == ToolSpec => []PathToolsCorrect
<1>1. PathToolsInv => PathToolsCorrect
  BY DEF PathToolsInv
<1> QED  BY <1>1, PathToolsInvariance, PTL

-----------------------------------------------------------------------------
(* The control nodes.                                                      *)

\* PipelineSequence: the children before the one whose turn it is, and before the one
\* that ended a tick with RUNNING, have passed.
PipelineInv(t, n) ==
  /\ t.last \in Nat /\ t.i \in Nat
  /\ \A k \in 1 .. t.last - 1 : k \in t.passed
  /\ PipelineInOrder(t)

LEMMA PipelineStep ==
  ASSUME NEW n \in Nat, NEW t, PipelineInv(t, n), NEW next \in PipelineSequence_steps(t, n)
  PROVE  PipelineInv(next, n)
<1> DEFINE after(last, i, passed) == [last |-> last, i |-> i, passed |-> passed]
<1>1. /\ t.last \in Nat /\ t.i \in Nat
      /\ \A k \in 1 .. t.last - 1 : k \in t.passed
      /\ \A k \in 1 .. t.i - 1 : k \in t.passed
  BY DEF PipelineInv, PipelineInOrder
<1>2. CASE next = after(PipelineSequence_members, 1, {})
  <2>1. next.last = 1 /\ next.i = 1
    BY <1>2 DEF PipelineSequence_members
  <2> QED  BY <2>1 DEF PipelineInv, PipelineInOrder
<1>3. CASE next = after(t.last, t.i + 1, t.passed \cup {t.i})
  <2>1. next.last = t.last /\ next.i = t.i + 1 /\ next.passed = t.passed \cup {t.i}
    BY <1>3
  <2>2. \A k \in 1 .. (t.i + 1) - 1 : k \in t.passed \cup {t.i}
    BY <1>1
  <2> QED  BY <1>1, <2>1, <2>2 DEF PipelineInv, PipelineInOrder
<1>4. CASE pipeline_stops(t.last, t.i) /\ next = after(t.i, 1, t.passed)
  <2>1. next.last = t.i /\ next.i = 1 /\ next.passed = t.passed
    BY <1>4
  <2> QED  BY <1>1, <2>1 DEF PipelineInv, PipelineInOrder
<1>5. CASE ~ pipeline_stops(t.last, t.i) /\ next = after(t.last, t.i + 1, t.passed)
  <2>1. next.last = t.last /\ next.i = t.i + 1 /\ next.passed = t.passed
    BY <1>5
  <2>2. t.i < t.last
    BY <1>1, <1>5 DEF pipeline_stops
  <2>3. \A k \in 1 .. (t.i + 1) - 1 : k \in t.passed
    BY <1>1, <2>2
  <2> QED  BY <1>1, <2>1, <2>3 DEF PipelineInv, PipelineInOrder
<1> QED  BY <1>2, <1>3, <1>4, <1>5 DEF PipelineSequence_steps

\* PipelineSequence: for any number of children, whatever they answer in however many
\* ticks and whenever the node is halted, a child is ticked only when each one before
\* it has succeeded or was skipped since the node was last reset, although earlier
\* children may be RUNNING again when it is.
THEOREM PipelineOrdered ==
  ASSUME NEW n \in Nat, NEW life, life[0] = [last |-> PipelineSequence_members, i |-> 1, passed |-> {}],
         \A j \in Nat : life[j + 1] \in PipelineSequence_steps(life[j], n)
  PROVE  \A j \in Nat : PipelineInOrder(life[j])
<1> DEFINE S == {j \in Nat : PipelineInv(life[j], n)}
<1>1. 0 \in S
  <2>1. life[0].last = 1 /\ life[0].i = 1
    BY DEF PipelineSequence_members
  <2> QED  BY <2>1 DEF PipelineInv, PipelineInOrder
<1>2. ASSUME NEW j \in Nat, j \in S PROVE j + 1 \in S
  BY <1>2, PipelineStep
<1>3. \A j \in Nat : j \in S
  <2> HIDE DEF S
  <2> QED  BY <1>1, <1>2, NaturalInduction
<1>4. ASSUME NEW j \in Nat PROVE PipelineInOrder(life[j])
  <2>1. PipelineInv(life[j], n)
    BY <1>3
  <2> QED  BY <2>1 DEF PipelineInv
<1> QED  BY <1>4

\* The first child is one failure ahead of the second child's successes while that
\* one runs; retry_count_ outlives a skipped recovery, so it only bounds them.
RecoveryNodeInv(m, retries) ==
  /\ m \in [idx : {1, 2}, retry : Nat, failed : Nat, recovered : Nat]
  /\ m.recovered <= m.retry /\ m.retry <= retries
  /\ m.idx = 1 => m.failed = m.recovered
  /\ m.idx = 2 => m.failed = m.recovered + 1 /\ m.retry < retries

LEMMA RecoveryNodeStep ==
  ASSUME NEW retries \in Nat, NEW m, RecoveryNodeInv(m, retries), NEW next \in RecoveryNode_steps(m, retries)
  PROVE  RecoveryNodeInv(next, retries)
<1>1. /\ m \in [idx : {1, 2}, retry : Nat, failed : Nat, recovered : Nat]
      /\ m.recovered <= m.retry /\ m.retry <= retries
      /\ m.idx = 1 => m.failed = m.recovered
      /\ m.idx = 2 => m.failed = m.recovered + 1 /\ m.retry < retries
  BY DEF RecoveryNodeInv
<1>2. CASE next = m
  BY <1>2
<1>3. CASE next = RecoveryNode_members
  BY <1>3 DEF RecoveryNode_members, RecoveryNodeInv
<1>4. CASE m.idx = 1 /\ recovery_left(m, retries) /\ next = recovery_begins(m)
  <2>1. next = [idx |-> 2, retry |-> m.retry, failed |-> m.failed + 1, recovered |-> m.recovered]
    BY <1>1, <1>4 DEF recovery_begins
  <2>2. m.retry < retries
    BY <1>4 DEF recovery_left
  <2> QED  BY <1>1, <1>4, <2>1, <2>2 DEF RecoveryNodeInv
<1>5. CASE m.idx = 2 /\ next = recovery_skipped(m)
  <2>1. next = [idx |-> 1, retry |-> m.retry, failed |-> 0, recovered |-> 0]
    BY <1>1, <1>5 DEF recovery_skipped
  <2> QED  BY <1>1, <2>1 DEF RecoveryNodeInv
<1>6. CASE m.idx = 2 /\ next = recovery_succeeds(m)
  <2>1. next = [idx |-> 1, retry |-> m.retry + 1, failed |-> m.failed, recovered |-> m.recovered + 1]
    BY <1>1, <1>6 DEF recovery_succeeds
  <2> QED  BY <1>1, <1>6, <2>1 DEF RecoveryNodeInv
<1> QED  BY <1>2, <1>3, <1>4, <1>5, <1>6 DEF RecoveryNode_steps

\* RecoveryNode: for every number of retries, whatever its children answer and whenever
\* it is halted, the first child fails at most number_of_retries times before the node
\* answers, and at most as many recoveries succeed.
THEOREM RecoveryNodeBounded ==
  ASSUME NEW retries \in Nat, NEW life, life[0] = RecoveryNode_members,
         \A i \in Nat : life[i + 1] \in RecoveryNode_steps(life[i], retries)
  PROVE  \A i \in Nat : RecoveryBounded(life[i], retries)
<1> DEFINE S == {i \in Nat : RecoveryNodeInv(life[i], retries)}
<1>1. 0 \in S
  BY DEF RecoveryNode_members, RecoveryNodeInv
<1>2. ASSUME NEW i \in Nat, i \in S PROVE i + 1 \in S
  BY <1>2, RecoveryNodeStep
<1>3. \A i \in Nat : i \in S
  <2> HIDE DEF S
  <2> QED  BY <1>1, <1>2, NaturalInduction
<1>4. ASSUME NEW i \in Nat PROVE RecoveryBounded(life[i], retries)
  <2>1. RecoveryNodeInv(life[i], retries)
    BY <1>3
  <2> QED  BY <2>1 DEF RecoveryNodeInv, RecoveryBounded
<1> QED  BY <1>4

\* How far behind the child whose turn it is, going round, another one is.
Behind(k, idx, n) == IF k < idx THEN idx - k ELSE idx - k + n

\* The children that are counted as failed or skipped are the ones right behind, so
\* they are different ones, and they were tried.
RoundRobinInv(t, n) ==
  /\ t.mem.idx \in 1 .. n /\ t.mem.failed \in Nat /\ t.skipped \in Nat
  /\ t.mem.tried \subseteq 1 .. n
  /\ \A k \in 1 .. n : Behind(k, t.mem.idx, n) <= t.mem.failed + t.skipped => k \in t.mem.tried

\* The next child is one further behind everybody, and right behind is the last.
LEMMA NextTurn ==
  ASSUME NEW n \in Nat \ {0}, NEW idx \in 1 .. n, NEW k \in 1 .. n
  PROVE  /\ (idx % n) + 1 \in 1 .. n
         /\ Behind(k, idx, n) \in 1 .. n
         /\ k # idx => Behind(k, (idx % n) + 1, n) = Behind(k, idx, n) + 1
<1>1. (idx % n) + 1 = IF idx = n THEN 1 ELSE idx + 1
  <2>1. CASE idx = n
    BY <2>1
  <2>2. CASE idx # n
    <3>1. idx \in 0 .. n - 1
      BY <2>2
    <3>2. idx % n = idx
      BY <3>1
    <3> QED  BY <2>2, <3>2
  <2> QED  BY <2>1, <2>2
<1> QED  BY <1>1 DEF Behind

LEMMA RoundRobinStep ==
  ASSUME NEW n \in Nat \ {0}, NEW t, RoundRobinInv(t, n), NEW next \in RoundRobin_steps(t, n)
  PROVE  RoundRobinInv(next, n)
<1> DEFINE m == t.mem
           after(mem, skipped) == [mem |-> mem, skipped |-> skipped]
           fresh == after(RoundRobin_members, 0)
           success == after(round_robin_success(round_robin_ended(m, n, "SUCCESS")), 0)
           failure == after(round_robin_ended(m, n, "FAILURE"), t.skipped)
           skip == after(round_robin_ended(m, n, "SKIPPED"), t.skipped + 1)
<1>1. /\ m.idx \in 1 .. n /\ m.failed \in Nat /\ t.skipped \in Nat /\ m.tried \subseteq 1 .. n
      /\ \A k \in 1 .. n : Behind(k, m.idx, n) <= m.failed + t.skipped => k \in m.tried
  BY DEF RoundRobinInv
<1>2. \A i, k \in 1 .. n : Behind(k, i, n) \in 1 .. n
  BY NextTurn
<1>3. /\ (m.idx % n) + 1 \in 1 .. n /\ 1 \in 1 .. n
      /\ \A k \in 1 .. n : k # m.idx => Behind(k, (m.idx % n) + 1, n) = Behind(k, m.idx, n) + 1
  <2>1. PICK i \in 1 .. n : i = m.idx
    BY <1>1
  <2> HIDE DEF m
  <2>2. (i % n) + 1 \in 1 .. n /\ 1 \in 1 .. n
    <3>1. 1 \in 1 .. n
      OBVIOUS
    <3> QED  BY <3>1, NextTurn
  <2>3. \A k \in 1 .. n : k # i => Behind(k, (i % n) + 1, n) = Behind(k, i, n) + 1
    BY NextTurn
  <2> QED  BY <2>1, <2>2, <2>3
\* One more is counted, or none: the one that was up is right behind now.
<1>4. ASSUME NEW k \in 1 .. n, NEW c \in Nat, c <= m.failed + t.skipped + 1,
             Behind(k, (m.idx % n) + 1, n) <= c
      PROVE  k \in m.tried \cup {m.idx}
  <2> HIDE DEF m
  <2>1. CASE k = m.idx
    BY <2>1
  <2>2. CASE k # m.idx
    <3>1. Behind(k, (m.idx % n) + 1, n) = Behind(k, m.idx, n) + 1 /\ Behind(k, m.idx, n) \in Nat
      <4>1. Behind(k, m.idx, n) \in 1 .. n
        BY <1>1, <1>2
      <4>2. Behind(k, (m.idx % n) + 1, n) = Behind(k, m.idx, n) + 1
        BY <1>3, <2>2
      <4> QED  BY <4>1, <4>2
    <3>2. Behind(k, m.idx, n) <= m.failed + t.skipped
      BY <1>1, <1>4, <3>1
    <3> QED  BY <1>1, <3>2
  <2> QED  BY <2>1, <2>2
<1>5. CASE next = fresh
  <2>1. next.mem.idx = 1 /\ next.mem.failed = 0 /\ next.mem.tried = {} /\ next.skipped = 0
    BY <1>5 DEF RoundRobin_members
  <2> QED  BY <1>2, <1>3, <2>1 DEF RoundRobinInv
<1>6. CASE next = after(m, 0)
  <2>1. next.mem = m /\ next.skipped = 0
    BY <1>6
  <2>2. ASSUME NEW k \in 1 .. n, Behind(k, m.idx, n) <= m.failed + 0 PROVE k \in m.tried
    <3>1. Behind(k, m.idx, n) \in 1 .. n
      BY <1>1, <1>2
    <3>2. Behind(k, m.idx, n) <= m.failed + t.skipped
      BY <1>1, <2>2, <3>1
    <3> QED  BY <1>1, <3>2
  <2> HIDE DEF m
  <2> QED  BY <1>1, <2>1, <2>2 DEF RoundRobinInv
<1>7. CASE next = success
  <2>1. next.mem.idx = (m.idx % n) + 1 /\ next.mem.failed = 0 /\ next.mem.tried = {} /\ next.skipped = 0
    BY <1>7 DEF round_robin_success, round_robin_ended
  <2> QED  BY <1>2, <1>3, <2>1 DEF RoundRobinInv
<1>8. CASE next = failure
  <2>1. /\ next.mem.idx = (m.idx % n) + 1 /\ next.mem.failed = m.failed + 1
        /\ next.mem.tried = m.tried \cup {m.idx} /\ next.skipped = t.skipped
    BY <1>8 DEF round_robin_ended
  <2> HIDE DEF m
  <2>2. \A k \in 1 .. n : Behind(k, (m.idx % n) + 1, n) <= m.failed + 1 + t.skipped => k \in m.tried \cup {m.idx}
    BY <1>1, <1>4
  <2> QED  BY <1>1, <1>3, <2>1, <2>2 DEF RoundRobinInv
<1>9. CASE next = skip
  <2>1. /\ next.mem.idx = (m.idx % n) + 1 /\ next.mem.failed = m.failed + 0
        /\ next.mem.tried = m.tried \cup {m.idx} /\ next.skipped = t.skipped + 1
    BY <1>9 DEF round_robin_ended
  <2> HIDE DEF m
  <2>2. \A k \in 1 .. n : Behind(k, (m.idx % n) + 1, n) <= m.failed + (t.skipped + 1) => k \in m.tried \cup {m.idx}
    BY <1>1, <1>4
  <2>3. next.mem.failed = m.failed
    BY <1>1, <2>1
  <2> QED  BY <1>1, <1>3, <2>1, <2>2, <2>3 DEF RoundRobinInv
<1> QED  BY <1>5, <1>6, <1>7, <1>8, <1>9 DEF RoundRobin_steps

\* RoundRobinNode: for any number of children, whatever they answer in however many
\* ticks and whenever the node is halted, it gives up only when every child has failed
\* or was skipped since its last success, although the count of the skipped ones is
\* forgotten with each tick.
THEOREM RoundRobinComplete ==
  ASSUME NEW n \in Nat \ {0}, NEW life, life[0] = [mem |-> RoundRobin_members, skipped |-> 0],
         \A i \in Nat : life[i + 1] \in RoundRobin_steps(life[i], n)
  PROVE  \A i \in Nat : RoundComplete(life[i], n)
<1> DEFINE S == {i \in Nat : RoundRobinInv(life[i], n)}
<1>1. 0 \in S
  <2>1. /\ life[0].mem.idx = 1 /\ life[0].mem.failed = 0 /\ life[0].mem.tried = {} /\ life[0].skipped = 0
        /\ 1 \in 1 .. n
    BY DEF RoundRobin_members
  <2>2. \A k \in 1 .. n : Behind(k, 1, n) \in 1 .. n
    BY <2>1, NextTurn
  <2> QED  BY <2>1, <2>2 DEF RoundRobinInv
<1>2. ASSUME NEW i \in Nat, i \in S PROVE i + 1 \in S
  BY <1>2, RoundRobinStep
<1>3. \A i \in Nat : i \in S
  <2> HIDE DEF S
  <2> QED  BY <1>1, <1>2, NaturalInduction
<1>4. ASSUME NEW i \in Nat, round_robin_gives_up(life[i].mem, life[i].skipped, n)
      PROVE  life[i].mem.tried = 1 .. n
  <2>1. RoundRobinInv(life[i], n)
    BY <1>3
  <2>2. /\ life[i].mem.idx \in 1 .. n /\ life[i].mem.failed \in Nat /\ life[i].skipped \in Nat
        /\ life[i].mem.tried \subseteq 1 .. n /\ life[i].mem.failed + life[i].skipped >= n
    BY <1>4, <2>1 DEF RoundRobinInv, round_robin_gives_up
  <2>3. ASSUME NEW k \in 1 .. n PROVE k \in life[i].mem.tried
    <3>1. Behind(k, life[i].mem.idx, n) \in 1 .. n
      BY <2>2, NextTurn
    <3>2. Behind(k, life[i].mem.idx, n) <= life[i].mem.failed + life[i].skipped
      BY <2>2, <3>1
    <3> QED  BY <2>1, <3>2 DEF RoundRobinInv
  <2> QED  BY <2>2, <2>3
<1> QED  BY <1>4 DEF RoundComplete

-----------------------------------------------------------------------------
USE CheckersAssumption

-----------------------------------------------------------------------------
(* The operators the checkers are made of.                                 *)

\* Distances are compared through their squares.
LEMMA SquareOrder ==
  ASSUME NEW a \in Nat, NEW b \in Nat, a * a <= b * b PROVE a <= b
<1>1. SUFFICES ASSUME b < a PROVE FALSE
  OBVIOUS
<1>2. b * b <= b * a /\ b * a < a * a
  BY <1>1
<1> QED  BY <1>2

LEMMA SumOrder ==
  ASSUME NEW a \in Nat, NEW b \in Nat, NEW c \in Nat, a * a + b * b <= c * c
  PROVE  a <= c /\ b <= c
<1>1. a * a \in Nat /\ b * b \in Nat /\ c * c \in Nat
  OBVIOUS
<1>2. a * a <= c * c /\ b * b <= c * c
  BY <1>1
<1> QED  BY <1>2, SquareOrder

\* The clock of the model moves on and keeps the order of two times.
LEMMA LaterMonotone ==
  ASSUME NEW s \in Nat, NEW t \in Nat, s <= t
  PROVE  Later(s) \in Nat /\ Later(t) \in Nat /\ Later(s) <= Later(t)
<1>1. CASE s = t
  BY <1>1 DEF Later
<1>2. CASE s < t
  BY <1>2 DEF Later
<1> QED  BY <1>1, <1>2

GoalType(k) ==
  [kind : GoalCheckers, latched : BOOLEAN, stateful : BOOLEAN, p : [GoalParameters(k) -> Tolerances]]

ProgressType(k) ==
  [kind : ProgressCheckers, baseline_pose_set : BOOLEAN, baseline : [x : 0 .. Span, yaw : 0 .. 3],
   age : Nat, time_allowance : Allowances, p : [ProgressParameters(k) -> Tolerances]]

LEMMA KindsApart == GoalCheckers \cap ProgressCheckers = {}
  BY DEF GoalCheckers, GoalConditions, ProgressCheckers

LEMMA TypeCases ==
  CheckersTypeOK <=>
    /\ \/ checker.kind \in GoalCheckers /\ checker \in GoalType(checker.kind)
       \/ checker.kind \in ProgressCheckers /\ checker \in ProgressType(checker.kind)
    /\ history \in [near : BOOLEAN, watched : Nat \cup {-1}]
  BY DEF CheckersTypeOK, GoalType, ProgressType

LEMMA CheckersInvInit == CheckersInit => CheckersInv
<1> SUFFICES ASSUME CheckersInit PROVE CheckersInv
  OBVIOUS
<1>1. history = [near |-> FALSE, watched |-> -1] /\ asked = nothing_asked
  BY DEF CheckersInit
<1>2. CASE \E k \in GoalCheckers : checker \in GoalChecker_initialize(k)
  <2>1. PICK k \in GoalCheckers : checker \in GoalChecker_initialize(k)
    BY <1>2
  <2>2. PICK kept \in BOOLEAN, p \in [GoalParameters(k) -> Tolerances] :
          checker = [kind |-> k, latched |-> FALSE, stateful |-> kept, p |-> p]
    <3>1. CASE k \in GoalConditions
      <4>1. PICK p \in [GoalParameters(k) -> Tolerances] :
              checker = [kind |-> k, latched |-> FALSE, stateful |-> FALSE, p |-> p]
        BY <2>1, <3>1 DEF GoalChecker_initialize
      <4>2. WITNESS FALSE \in BOOLEAN, p \in [GoalParameters(k) -> Tolerances]
      <4> QED  BY <4>1
    <3>2. CASE k \notin GoalConditions
      BY <2>1, <3>2 DEF GoalChecker_initialize
    <3> QED  BY <3>1, <3>2
  <2>3. checker.kind = k /\ ~ checker.latched /\ checker \in GoalType(k)
    BY <2>2 DEF GoalType
  <2> QED
    BY <1>1, <2>3, TypeCases, KindsApart
       DEF CheckersInv, CheckerRemembers, AnswersAreOfThisGoal, ReachedWasNear,
           StuckWasWatched, nothing_asked
<1>3. CASE \E k \in ProgressCheckers : checker \in ProgressChecker_initialize(k)
  <2>1. PICK k \in ProgressCheckers : checker \in ProgressChecker_initialize(k)
    BY <1>3
  <2>2. PICK a \in Allowances, p \in [ProgressParameters(k) -> Tolerances] :
          checker = [kind |-> k, baseline_pose_set |-> FALSE, baseline |-> [x |-> 0, yaw |-> 0],
                     age |-> 0, time_allowance |-> a, p |-> p]
    BY <2>1 DEF ProgressChecker_initialize
  <2>3. [x |-> 0, yaw |-> 0] \in [x : 0 .. Span, yaw : 0 .. 3]
    OBVIOUS
  <2>4. checker.kind = k /\ ~ checker.baseline_pose_set /\ checker \in ProgressType(k)
    BY <2>2, <2>3 DEF ProgressType
  <2> QED
    BY <1>1, <2>4, TypeCases, KindsApart
       DEF CheckersInv, CheckerRemembers, AnswersAreOfThisGoal, ReachedWasNear,
           StuckWasWatched, nothing_asked
<1> QED  BY <1>2, <1>3 DEF CheckersInit

-----------------------------------------------------------------------------
(* A question to a goal checker.                                           *)

\* The class decides which isGoalReached is called.
LEMMA GoalDispatch ==
  ASSUME NEW c, NEW q, NEW v, NEW known
  PROVE  /\ c.kind = "simple"
              => isGoalReached(c, q, v, known) = SimpleGoalChecker_isGoalReached(c, q)
         /\ c.kind = "stopped"
              => isGoalReached(c, q, v, known) = StoppedGoalChecker_isGoalReached(c, q, v)
         /\ c.kind = "position"
              => isGoalReached(c, q, v, known) = PositionGoalChecker_isGoalReached(c, q)
         /\ c.kind \in GoalConditions
              => isGoalReached(c, q, v, known) = [answer |-> known /\ xy_in_window(c, q), after |-> c]
  BY DEF isGoalReached, GoalReachedCondition_isGoalReached, arePosesNearby, GoalConditions

\* Standing still only adds to what the answer requires.
LEMMA StoppedAnswer ==
  ASSUME NEW c, NEW q, NEW v, NEW a \in BOOLEAN, NEW d,
         SimpleGoalChecker_isGoalReached(c, q) = [answer |-> a, after |-> d]
  PROVE  LET r == StoppedGoalChecker_isGoalReached(c, q, v)
         IN /\ r.after = d
            /\ r.answer => a /\ v.angular <= c.p["rot_stopped"] /\ v.linear <= c.p["trans_stopped"]
<1> DEFINE w == [answer |-> a, after |-> d]
           still == v.angular <= c.p["rot_stopped"] /\ v.linear <= c.p["trans_stopped"]
           b == w.answer /\ still
<1>1. StoppedGoalChecker_isGoalReached(c, q, v) = [w EXCEPT !.answer = b]
  BY DEF StoppedGoalChecker_isGoalReached
<1>2. b => a /\ still
  OBVIOUS
<1> HIDE DEF b, still
<1>3. [w EXCEPT !.answer = b].answer = b /\ [w EXCEPT !.answer = b].after = d
  OBVIOUS
<1> QED  BY <1>1, <1>2, <1>3 DEF still

\* The answer is about a pose in the window or a latch that is set, a latch is
\* only set in the window, and the parameters stay.
LEMMA GoalAnswer ==
  ASSUME NEW c, c.kind \in GoalCheckers, c \in GoalType(c.kind),
         NEW q \in PoseSet, NEW v \in Velocities, NEW known \in BOOLEAN
  PROVE  LET r == isGoalReached(c, q, v, known)
         IN /\ r.after \in GoalType(c.kind) /\ r.after.kind = c.kind /\ r.after.p = c.p
            /\ r.answer => c.latched \/ in_window(c, q)
            /\ r.after.latched => c.latched \/ in_window(c, q)
            /\ r.answer /\ c.kind \in {"simple", "stopped"}
                 => shortest_angular_distance(q.yaw, 0) <= c.p["yaw_tolerance"]
            /\ r.answer /\ c.kind = "stopped"
                 => v.angular <= c.p["rot_stopped"] /\ v.linear <= c.p["trans_stopped"]
<1> DEFINE r == isGoalReached(c, q, v, known)
           w == SimpleGoalChecker_isGoalReached(c, q)
<1>1. CASE c.kind \in {"simple", "stopped"}
  <2>1. in_window(c, q) <=> xyz_in_window(c, q)
    BY <1>1 DEF in_window
  <2>2. PICK a \in BOOLEAN, d \in GoalType(c.kind) :
          /\ w = [answer |-> a, after |-> d]
          /\ d.kind = c.kind /\ d.p = c.p
          /\ a => c.latched \/ xyz_in_window(c, q)
          /\ d.latched => c.latched \/ xyz_in_window(c, q)
          /\ a => shortest_angular_distance(q.yaw, 0) <= c.p["yaw_tolerance"]
    <3>1. CASE ~ c.latched /\ ~ xyz_in_window(c, q)
      BY <3>1 DEF SimpleGoalChecker_isGoalReached
    <3>2. CASE c.latched \/ xyz_in_window(c, q)
      <4> DEFINE d == [c EXCEPT !.latched = @ \/ c.stateful]
                 a == shortest_angular_distance(q.yaw, 0) <= c.p["yaw_tolerance"]
      <4>1. w = [answer |-> a, after |-> d] /\ a \in BOOLEAN
        BY <3>2 DEF SimpleGoalChecker_isGoalReached
      <4>2. d \in GoalType(c.kind) /\ d.kind = c.kind /\ d.p = c.p
        BY DEF GoalType
      <4> HIDE DEF d
      <4> QED  BY <3>2, <4>1, <4>2
    <3> QED  BY <3>1, <3>2
  <2>3. CASE c.kind = "simple"
    <3>1. r = [answer |-> a, after |-> d]
      BY <2>2, <2>3, GoalDispatch
    <3>2. r.after = d /\ (r.answer => a)
      BY <3>1
    <3> QED  BY <2>1, <2>2, <2>3, <3>2
  <2>4. CASE c.kind = "stopped"
    <3>1. /\ r.after = d
          /\ r.answer => a /\ v.angular <= c.p["rot_stopped"] /\ v.linear <= c.p["trans_stopped"]
      BY <2>2, <2>4, GoalDispatch, StoppedAnswer
    <3> QED  BY <2>1, <2>2, <3>1
  <2> QED  BY <1>1, <2>3, <2>4
<1>2. CASE c.kind = "position"
  <2>1. in_window(c, q) <=> xy_in_window(c, q)
    BY <1>2 DEF in_window
  <2> DEFINE reached == (c.stateful /\ c.latched) \/ xy_in_window(c, q)
  <2>2. r = [answer |-> reached, after |-> [c EXCEPT !.latched = @ \/ (c.stateful /\ reached)]]
    BY <1>2, GoalDispatch DEF PositionGoalChecker_isGoalReached
  <2>3. r.after \in GoalType(c.kind) /\ r.after.kind = c.kind /\ r.after.p = c.p
    BY <2>2 DEF GoalType, xy_in_window
  <2>4. /\ r.answer => c.latched \/ xy_in_window(c, q)
        /\ r.after.latched => c.latched \/ xy_in_window(c, q)
    BY <2>2 DEF GoalType
  <2> QED  BY <1>2, <2>1, <2>3, <2>4
<1>3. CASE c.kind \in GoalConditions
  <2>1. in_window(c, q) <=> xy_in_window(c, q)
    BY <1>3 DEF in_window, GoalConditions
  <2> DEFINE b == known /\ xy_in_window(c, q)
  <2>2. r = [answer |-> b, after |-> c]
    BY <1>3, GoalDispatch
  <2>3. r.after = c /\ (r.answer => xy_in_window(c, q))
    <3>1. b => xy_in_window(c, q)
      OBVIOUS
    <3> HIDE DEF b, r
    <3>2. r.answer = b /\ r.after = c
      BY <2>2
    <3> QED  BY <3>1, <3>2
  <2> QED  BY <1>3, <2>1, <2>3 DEF GoalConditions
<1> QED  BY <1>1, <1>2, <1>3 DEF GoalCheckers

\* A pose in the window is inside the tolerances that are reported.
LEMMA WindowTolerances ==
  ASSUME NEW c, c.kind \in GoalCheckers, c \in GoalType(c.kind), NEW q \in PoseSet, in_window(c, q)
  PROVE  /\ q.x <= getTolerances(c).x
         /\ getTolerances(c).z # invalid_field => q.z <= getTolerances(c).z
<1>1. c.p["tolerance"] \in Nat
  <2>1. "tolerance" \in GoalParameters(c.kind)
    BY DEF GoalParameters
  <2> QED  BY <2>1 DEF GoalType
<1>2. q.x \in Nat /\ q.z \in Nat
  BY DEF PoseSet
<1>3. CASE c.kind \in {"simple", "stopped"}
  <2>1. q.x <= c.p["tolerance"] /\ q.z <= c.p["tolerance"]
    BY <1>1, <1>2, <1>3, SumOrder DEF in_window, xyz_in_window
  <2>2. getTolerances(c).x = c.p["tolerance"] /\ getTolerances(c).z = c.p["tolerance"]
    BY <1>3 DEF getTolerances, SimpleGoalChecker_getTolerances, StoppedGoalChecker_getTolerances
  <2> QED  BY <2>1, <2>2
<1>4. CASE c.kind \notin {"simple", "stopped"}
  <2>1. q.x <= c.p["tolerance"]
    BY <1>1, <1>2, <1>4, SquareOrder DEF in_window, xy_in_window
  <2>2. getTolerances(c).x = c.p["tolerance"] /\ getTolerances(c).z = invalid_field
    BY <1>4 DEF getTolerances, PositionGoalChecker_getTolerances
  <2> QED  BY <2>1, <2>2
<1> QED  BY <1>3, <1>4

\* The tolerances of yaw and velocity are those the answer was made with.
LEMMA OtherTolerances ==
  ASSUME NEW c
  PROVE  /\ c.kind \in {"simple", "stopped"} => getTolerances(c).yaw = c.p["yaw_tolerance"]
         /\ getTolerances(c).linear # invalid_field =>
              c.kind = "stopped" /\ getTolerances(c).linear = c.p["trans_stopped"]
         /\ getTolerances(c).angular # invalid_field =>
              c.kind = "stopped" /\ getTolerances(c).angular = c.p["rot_stopped"]
<1>1. CASE c.kind = "simple"
  BY <1>1 DEF getTolerances, SimpleGoalChecker_getTolerances
<1>2. CASE c.kind = "stopped"
  BY <1>2 DEF getTolerances, SimpleGoalChecker_getTolerances, StoppedGoalChecker_getTolerances
<1>3. CASE c.kind \notin {"simple", "stopped"}
  BY <1>3 DEF getTolerances, PositionGoalChecker_getTolerances
<1> QED  BY <1>1, <1>2, <1>3

LEMMA AskGoalPreserves ==
  ASSUME CheckersInv, NEW q \in PoseSet, NEW v \in Velocities, NEW known \in BOOLEAN,
         ask_goal(q, v, known)
  PROVE  CheckersInv'
<1> DEFINE r == isGoalReached(checker, q, v, known)
<1>1. checker.kind \in GoalCheckers /\ checker \in GoalType(checker.kind)
  BY TypeCases, KindsApart DEF CheckersInv, ask_goal
<1>2. /\ checker' = r.after
      /\ asked' = [question |-> "goal", q |-> q, v |-> v, answer |-> r.answer]
      /\ history' = [history EXCEPT !.near = @ \/ in_window(checker, q)]
  BY DEF ask_goal
<1>3. /\ r.after \in GoalType(checker.kind) /\ r.after.kind = checker.kind
      /\ r.after.p = checker.p
      /\ r.answer => checker.latched \/ in_window(checker, q)
      /\ r.after.latched => checker.latched \/ in_window(checker, q)
      /\ r.answer /\ checker.kind \in {"simple", "stopped"}
           => shortest_angular_distance(q.yaw, 0) <= checker.p["yaw_tolerance"]
      /\ r.answer /\ checker.kind = "stopped"
           => v.angular <= checker.p["rot_stopped"] /\ v.linear <= checker.p["trans_stopped"]
  BY <1>1, GoalAnswer
<1>4. history \in [near : BOOLEAN, watched : Nat \cup {-1}] /\ (checker.latched => history.near)
  BY <1>1, TypeCases DEF CheckersInv, CheckerRemembers
<1>5. in_window(checker, q) \in BOOLEAN
  <2>1. CASE checker.kind \in {"simple", "stopped"}
    BY <2>1 DEF in_window, xyz_in_window
  <2>2. CASE checker.kind \notin {"simple", "stopped"}
    BY <2>2 DEF in_window, xy_in_window
  <2> QED  BY <2>1, <2>2
<1>6. /\ history' \in [near : BOOLEAN, watched : Nat \cup {-1}]
      /\ checker.latched \/ in_window(checker, q) => history'.near
  BY <1>2, <1>4, <1>5
<1>7. CheckersTypeOK'
  BY <1>1, <1>2, <1>3, <1>6 DEF CheckersTypeOK, GoalType
<1>8. CheckerRemembers'
  BY <1>1, <1>2, <1>3, <1>6, KindsApart DEF CheckerRemembers
<1>9. ReachedWasNear'
  <2> SUFFICES ASSUME r.answer
               PROVE  /\ history'.near
                      /\ in_window(r.after, q) =>
                           /\ q.x <= getTolerances(r.after).x
                           /\ getTolerances(r.after).z # invalid_field
                                => q.z <= getTolerances(r.after).z
                           /\ r.after.kind \in {"simple", "stopped"}
                                => shortest_angular_distance(q.yaw, 0) <= getTolerances(r.after).yaw
                           /\ getTolerances(r.after).linear # invalid_field
                                => v.linear <= getTolerances(r.after).linear
                           /\ getTolerances(r.after).angular # invalid_field
                                => v.angular <= getTolerances(r.after).angular
    BY <1>2 DEF ReachedWasNear
  <2>1. history'.near
    BY <1>3, <1>6
  <2>2. in_window(r.after, q) =>
          /\ q.x <= getTolerances(r.after).x
          /\ getTolerances(r.after).z # invalid_field => q.z <= getTolerances(r.after).z
    BY <1>1, <1>3, WindowTolerances
  <2>3. /\ r.after.kind \in {"simple", "stopped"}
             => shortest_angular_distance(q.yaw, 0) <= getTolerances(r.after).yaw
        /\ getTolerances(r.after).linear # invalid_field
             => v.linear <= getTolerances(r.after).linear
        /\ getTolerances(r.after).angular # invalid_field
             => v.angular <= getTolerances(r.after).angular
    BY <1>3, OtherTolerances
  <2> QED  BY <2>1, <2>2, <2>3
<1>10. StuckWasWatched'
  BY <1>2 DEF StuckWasWatched
<1> QED  BY <1>7, <1>8, <1>9, <1>10 DEF CheckersInv, AnswersAreOfThisGoal

-----------------------------------------------------------------------------
(* A question to a progress checker.                                       *)

\* The checker either takes the pose as its baseline or stays as it is, and says
\* "stuck" only of a baseline older than the allowance.
LEMMA ProgressAnswer ==
  ASSUME NEW c, c.kind \in ProgressCheckers, c \in ProgressType(c.kind), NEW q \in PoseSet
  PROVE  LET r == check_progress(c, toPose2D(q))
         IN /\ r.after \in ProgressType(c.kind) /\ r.after.kind = c.kind
            /\ r.after.time_allowance = c.time_allowance
            /\ r.after.age = 0 \/ (c.baseline_pose_set /\ r.after.age = c.age)
            /\ ~ r.answer => c.baseline_pose_set /\ c.age > c.time_allowance
<1> DEFINE pose == toPose2D(q)
           r == check_progress(c, pose)
<1>1. pose \in [x : 0 .. Span, yaw : 0 .. 3]
  BY DEF toPose2D, PoseSet
<1>2. CASE ~ c.baseline_pose_set \/ isRobotMovedEnough(c, pose)
  <2> DEFINE d == [c EXCEPT !.baseline = pose, !.age = 0, !.baseline_pose_set = TRUE]
  <2>1. r = [answer |-> TRUE, after |-> d]
    BY <1>2 DEF check_progress, resetBaselinePose
  <2> HIDE DEF pose
  <2>2. /\ d \in ProgressType(c.kind) /\ d.kind = c.kind
        /\ d.time_allowance = c.time_allowance /\ d.age = 0
    BY <1>1 DEF ProgressType
  <2> HIDE DEF d, r
  <2> QED  BY <2>1, <2>2 DEF pose, r
<1>3. CASE c.baseline_pose_set /\ ~ isRobotMovedEnough(c, pose)
  <2> DEFINE b == c.age <= c.time_allowance
  <2>1. r = [answer |-> b, after |-> c]
    BY <1>3 DEF check_progress
  <2>2. ~ b => c.age > c.time_allowance
    <3>1. c.age \in Nat /\ c.time_allowance \in Nat
      BY DEF ProgressType
    <3> QED  BY <3>1
  <2> HIDE DEF b, r
  <2>3. r.answer = b /\ r.after = c
    BY <2>1
  <2> QED  BY <1>3, <2>2, <2>3 DEF r
<1> QED  BY <1>2, <1>3

LEMMA AskProgressPreserves ==
  ASSUME CheckersInv, NEW q \in PoseSet, ask_progress(q)
  PROVE  CheckersInv'
<1> DEFINE r == check_progress(checker, toPose2D(q))
<1>1. checker.kind \in ProgressCheckers /\ checker \in ProgressType(checker.kind)
  BY TypeCases, KindsApart DEF CheckersInv, ask_progress
<1>2. /\ checker' = r.after
      /\ asked' = [question |-> "progress", answer |-> r.answer]
      /\ history' = [history EXCEPT !.watched = IF @ < 0 THEN 0 ELSE @]
  BY DEF ask_progress
<1>3. /\ r.after \in ProgressType(checker.kind) /\ r.after.kind = checker.kind
      /\ r.after.time_allowance = checker.time_allowance
      /\ r.after.age = 0 \/ (checker.baseline_pose_set /\ r.after.age = checker.age)
      /\ ~ r.answer => checker.baseline_pose_set /\ checker.age > checker.time_allowance
  BY <1>1, ProgressAnswer
<1>4. /\ history \in [near : BOOLEAN, watched : Nat \cup {-1}]
      /\ checker.baseline_pose_set => checker.age <= history.watched
      /\ checker.age \in Nat /\ checker.time_allowance \in Nat
  BY <1>1, TypeCases DEF CheckersInv, CheckerRemembers, ProgressType
<1>5. /\ history' \in [near : BOOLEAN, watched : Nat \cup {-1}]
      /\ history'.watched >= 0 /\ history'.watched >= history.watched
      /\ history'.watched \in Nat
  BY <1>2, <1>4
<1> HIDE DEF r
<1>6. CheckersTypeOK'
  BY <1>1, <1>2, <1>3, <1>5 DEF CheckersTypeOK, ProgressType
<1>7. CheckerRemembers'
  <2>1. checker'.kind \in ProgressCheckers /\ checker'.age <= history'.watched
    BY <1>1, <1>2, <1>3, <1>4, <1>5
  <2> QED  BY <2>1, KindsApart DEF CheckerRemembers
<1>8. ReachedWasNear'
  BY <1>2 DEF ReachedWasNear
<1>9. StuckWasWatched'
  <2>1. ~ r.answer => history'.watched > r.after.time_allowance
    BY <1>3, <1>4, <1>5
  <2> QED  BY <1>2, <2>1 DEF StuckWasWatched
<1> QED  BY <1>6, <1>7, <1>8, <1>9 DEF CheckersInv, AnswersAreOfThisGoal

-----------------------------------------------------------------------------
(* The other calls: they give no answer.                                   *)

LEMMA NoAnswer ==
  ASSUME asked' = nothing_asked, CheckersTypeOK', CheckerRemembers'
  PROVE  CheckersInv'
  BY DEF CheckersInv, AnswersAreOfThisGoal, ReachedWasNear, StuckWasWatched, nothing_asked

LEMMA ResetPreserves ==
  ASSUME CheckersInv, asked = nothing_asked, reset PROVE CheckersInv'
<1>1. asked' = nothing_asked /\ history' = [near |-> FALSE, watched |-> -1]
  BY DEF reset
<1>2. CASE checker.kind \in GoalCheckers
  <2>1. checker \in GoalType(checker.kind) /\ checker' = [checker EXCEPT !.latched = FALSE]
    BY <1>2, TypeCases, KindsApart DEF CheckersInv, reset
  <2>2. checker' \in GoalType(checker.kind) /\ checker'.kind = checker.kind /\ ~ checker'.latched
    BY <2>1 DEF GoalType
  <2>3. CheckersTypeOK'
    BY <1>1, <1>2, <2>2 DEF CheckersTypeOK, GoalType
  <2>4. CheckerRemembers'
    BY <1>2, <2>2, KindsApart DEF CheckerRemembers
  <2> QED  BY <1>1, <2>3, <2>4, NoAnswer
<1>3. CASE checker.kind \in ProgressCheckers
  <2>1. /\ checker \in ProgressType(checker.kind)
        /\ checker' = [checker EXCEPT !.baseline_pose_set = FALSE]
    BY <1>3, TypeCases, KindsApart DEF CheckersInv, reset
  <2>2. /\ checker' \in ProgressType(checker.kind) /\ checker'.kind = checker.kind
        /\ ~ checker'.baseline_pose_set
    BY <2>1 DEF ProgressType
  <2>3. CheckersTypeOK'
    BY <1>1, <1>3, <2>2 DEF CheckersTypeOK, ProgressType
  <2>4. CheckerRemembers'
    BY <1>3, <2>2, KindsApart DEF CheckerRemembers
  <2> QED  BY <1>1, <2>3, <2>4, NoAnswer
<1> QED  BY <1>2, <1>3, TypeCases DEF CheckersInv

\* A parameter that is set changes neither the latch nor the baseline.
LEMMA ParameterPreserves ==
  ASSUME CheckersInv, asked = nothing_asked,
         \/ \E value \in Tolerances, name \in {"tolerance", "yaw_tolerance", "rot_stopped",
                                               "trans_stopped", "radius", "angle"} :
              set_double(name, value)
         \/ \E value \in BOOLEAN : set_stateful(value)
         \/ \E value \in Allowances : set_allowance(value)
  PROVE  CheckersInv'
<1>1. asked' = nothing_asked /\ history' = history
  BY DEF set_double, set_stateful, set_allowance
<1>2. CASE checker.kind \in GoalCheckers
  <2>1. checker \in GoalType(checker.kind) /\ (checker.latched => history.near)
    BY <1>2, TypeCases, KindsApart DEF CheckersInv, CheckerRemembers
  <2> DEFINE Kept == /\ checker' \in GoalType(checker.kind) /\ checker'.kind = checker.kind
                     /\ checker'.latched = checker.latched
  <2>2. Kept
    <3>1. ASSUME NEW value \in Tolerances, NEW name, set_double(name, value) PROVE Kept
      <4>1. checker' = [checker EXCEPT !.p = [checker.p EXCEPT ![name] = value]]
        BY <2>1, <3>1 DEF set_double, GoalType
      <4>2. [checker.p EXCEPT ![name] = value] \in [GoalParameters(checker.kind) -> Tolerances]
        BY <2>1, <3>1 DEF set_double, GoalType
      <4> QED  BY <2>1, <4>1, <4>2 DEF GoalType
    <3>2. ASSUME NEW value \in BOOLEAN, set_stateful(value) PROVE Kept
      BY <2>1, <3>2 DEF set_stateful, GoalType
    <3>3. ~ \E value \in Allowances : set_allowance(value)
      BY <1>2, KindsApart DEF set_allowance
    <3> QED  BY <3>1, <3>2, <3>3
  <2>3. CheckersTypeOK'
    BY <1>1, <1>2, <2>2, TypeCases DEF CheckersInv, CheckersTypeOK, GoalType
  <2>4. CheckerRemembers'
    BY <1>1, <1>2, <2>1, <2>2, KindsApart DEF CheckerRemembers
  <2> QED  BY <1>1, <2>3, <2>4, NoAnswer
<1>3. CASE checker.kind \in ProgressCheckers
  <2>1. /\ checker \in ProgressType(checker.kind)
        /\ checker.baseline_pose_set => checker.age <= history.watched
    BY <1>3, TypeCases, KindsApart DEF CheckersInv, CheckerRemembers
  <2> DEFINE Kept == /\ checker' \in ProgressType(checker.kind) /\ checker'.kind = checker.kind
                     /\ checker'.baseline_pose_set = checker.baseline_pose_set /\ checker'.age = checker.age
  <2>2. Kept
    <3>1. ASSUME NEW value \in Tolerances, NEW name, set_double(name, value) PROVE Kept
      <4>1. checker' = [checker EXCEPT !.p = [checker.p EXCEPT ![name] = value]]
        BY <2>1, <3>1 DEF set_double, ProgressType
      <4>2. [checker.p EXCEPT ![name] = value] \in [ProgressParameters(checker.kind) -> Tolerances]
        BY <2>1, <3>1 DEF set_double, ProgressType
      <4> QED  BY <2>1, <4>1, <4>2 DEF ProgressType
    <3>2. ~ \E value \in BOOLEAN : set_stateful(value)
      BY <1>3, KindsApart DEF set_stateful
    <3>3. ASSUME NEW value \in Allowances, set_allowance(value) PROVE Kept
      BY <2>1, <3>3 DEF set_allowance, ProgressType
    <3> QED  BY <3>1, <3>2, <3>3
  <2>3. CheckersTypeOK'
    BY <1>1, <1>3, <2>2, TypeCases DEF CheckersInv, CheckersTypeOK, ProgressType
  <2>4. CheckerRemembers'
    BY <1>1, <1>3, <2>1, <2>2, KindsApart DEF CheckerRemembers
  <2> QED  BY <1>1, <2>3, <2>4, NoAnswer
<1> QED  BY <1>2, <1>3, TypeCases DEF CheckersInv

\* The baseline and the watch grow older together.
LEMMA TimePreserves ==
  ASSUME CheckersInv, asked = nothing_asked, pass_a_while PROVE CheckersInv'
<1> DEFINE age == IF checker.baseline_pose_set THEN Later(checker.age) ELSE checker.age
           watched == IF history.watched < 0 THEN history.watched ELSE Later(history.watched)
<1>1. /\ checker.kind \in ProgressCheckers /\ asked' = nothing_asked
      /\ checker' = [checker EXCEPT !.age = age]
      /\ history' = [history EXCEPT !.watched = watched]
  BY DEF pass_a_while
<1>2. /\ checker \in ProgressType(checker.kind)
      /\ history \in [near : BOOLEAN, watched : Nat \cup {-1}]
      /\ checker.baseline_pose_set => checker.age <= history.watched
  BY <1>1, TypeCases, KindsApart DEF CheckersInv, CheckerRemembers
<1>3. checker.age \in Nat /\ history.watched \in Nat \cup {-1}
  BY <1>2 DEF ProgressType
<1>4. /\ age \in Nat /\ watched \in Nat \cup {-1}
      /\ checker.baseline_pose_set => age <= watched
  <2>1. CASE history.watched < 0
    BY <1>2, <1>3, <2>1
  <2>2. CASE history.watched \in Nat
    BY <1>2, <1>3, <2>2, LaterMonotone
  <2> QED  BY <1>3, <2>1, <2>2
<1> HIDE DEF age, watched
<1>5. /\ checker' \in ProgressType(checker.kind) /\ checker'.kind = checker.kind
      /\ checker'.baseline_pose_set = checker.baseline_pose_set /\ checker'.age = age
  BY <1>1, <1>2, <1>4 DEF ProgressType
<1>6. history' \in [near : BOOLEAN, watched : Nat \cup {-1}] /\ history'.watched = watched
  BY <1>1, <1>2, <1>4
<1>7. CheckersTypeOK'
  BY <1>1, <1>5, <1>6 DEF CheckersTypeOK, ProgressType
<1>8. CheckerRemembers'
  BY <1>1, <1>4, <1>5, <1>6, KindsApart DEF CheckerRemembers
<1> QED  BY <1>1, <1>7, <1>8, NoAnswer

LEMMA CheckersInvInductive == CheckersInv /\ [CheckersNext]_checkerVars => CheckersInv'
<1> SUFFICES ASSUME CheckersInv, [CheckersNext]_checkerVars PROVE CheckersInv'
  OBVIOUS
<1>1. ASSUME NEW q \in PoseSet, NEW v \in Velocities, NEW known \in BOOLEAN, ask_goal(q, v, known)
      PROVE  CheckersInv'
  BY <1>1, AskGoalPreserves
<1>2. ASSUME NEW q \in PoseSet, ask_progress(q) PROVE CheckersInv'
  BY <1>2, AskProgressPreserves
<1>3. ASSUME asked = nothing_asked, reset PROVE CheckersInv'
  BY <1>3, ResetPreserves
<1>4. ASSUME asked = nothing_asked,
             \/ \E value \in Tolerances, name \in {"tolerance", "yaw_tolerance", "rot_stopped",
                                                   "trans_stopped", "radius", "angle"} :
                  set_double(name, value)
             \/ \E value \in BOOLEAN : set_stateful(value)
             \/ \E value \in Allowances : set_allowance(value)
      PROVE  CheckersInv'
  BY <1>4, ParameterPreserves
<1>5. ASSUME asked = nothing_asked, pass_a_while PROVE CheckersInv'
  BY <1>5, TimePreserves
<1>6. CASE heard
  <2>1. asked' = nothing_asked /\ checker' = checker /\ history' = history
    BY <1>6 DEF heard
  <2>2. CheckersTypeOK' /\ CheckerRemembers'
    BY <2>1 DEF CheckersInv, CheckersTypeOK, CheckerRemembers
  <2> QED  BY <2>1, <2>2, NoAnswer
<1>7. CASE UNCHANGED checkerVars
  BY <1>7 DEF checkerVars, CheckersInv, CheckersTypeOK, CheckerRemembers, AnswersAreOfThisGoal,
              ReachedWasNear, StuckWasWatched
<1> QED  BY <1>1, <1>2, <1>3, <1>4, <1>5, <1>6, <1>7 DEF CheckersNext, a_step

-----------------------------------------------------------------------------
\* The fields of a checker keep their types, a latch was set in the window of this
\* goal and a baseline is not older than the time since its first question, through
\* every sequence of questions, resets and parameter changes.
THEOREM CheckersInvariance == CheckersSpec => []CheckersInv
<1>1. CheckersInv /\ [CheckersNext]_checkerVars => CheckersInv'
  BY CheckersInvInductive
<1> QED  BY CheckersInvInit, <1>1, PTL DEF CheckersSpec

\* A goal checker says "reached" only of a goal whose window the vehicle was in since
\* the reset for it, inside the tolerances it reports; a progress checker says
\* "stuck" only after watching longer than its allowance since the reset.
THEOREM AnswersOfThisGoal == CheckersSpec => []AnswersAreOfThisGoal
<1>1. CheckersInv => AnswersAreOfThisGoal
  BY DEF CheckersInv
<1> QED  BY <1>1, CheckersInvariance, PTL
=============================================================================
