-------------------------- MODULE MCProcessGroups --------------------------
(***************************************************************************)
(* Small instances of processes and their groups for TLC.                  *)
(***************************************************************************)
EXTENDS GroupHistory, TLC

Symmetric == Permutations(Clients) \cup Permutations(Procs) \cup Permutations(Groups)
=============================================================================
