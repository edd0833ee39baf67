------------------------------- MODULE Plugins -------------------------------
(***************************************************************************)
(* The plugins side by side: the nodes of a behaviour tree (BtTrees), the  *)
(* algorithms on paths that some of them are made of (PathTools) and the   *)
(* checkers of the controller (Checkers).  They share no state, so an      *)
(* interleaving of their steps shows nothing that one of them alone does   *)
(* not show: one of them is the subject, and only it takes steps.          *)
(***************************************************************************)
EXTENDS BtTrees, PathTools, Checkers

VARIABLE subject

pluginVars == <<treeVars, toolVars, checkerVars, subject>>

\* The parts that are not the subject stay in some one initial state.
PluginsInit ==
  /\ subject \in {"tree", "tools", "checkers"}
  /\ TreeInit /\ ToolInit /\ CheckersInit
  /\ subject # "tree" => tree = CHOOSE t \in Trees : TRUE
  /\ subject # "checkers" => checker = CHOOSE c \in GoalChecker_initialize("simple") : TRUE

PluginsNext ==
  /\ UNCHANGED subject
  /\ \/ subject = "tree" /\ TreeNext /\ UNCHANGED <<toolVars, checkerVars>>
     \/ subject = "tools" /\ ToolNext /\ UNCHANGED <<treeVars, checkerVars>>
     \/ subject = "checkers" /\ CheckersNext /\ UNCHANGED <<treeVars, toolVars>>

PluginsSpec == PluginsInit /\ [][PluginsNext]_pluginVars /\ TreeFairness
=============================================================================
