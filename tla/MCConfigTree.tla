---------------------------- MODULE MCConfigTree ----------------------------
(* Instances of ConfigTree for TLC. *)
EXTENDS ConfigTree, TLC

CONSTANTS root, branch, x, y

\* A root with one branch, which has two leaves.
MCParent == branch :> root @@ x :> branch @@ y :> branch
=============================================================================
