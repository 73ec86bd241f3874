-------------------------- MODULE MCEconomicEvents --------------------------
(***************************************************************************)
(* Small instances of the ledger for TLC.                                  *)
(***************************************************************************)
EXTENDS LedgerRefinement, LedgerHistory, TLC

CONSTANTS p1, p2, st

\* The first process is based on a process specification, the second on none.
MCBasedOn == [p \in Processes |-> IF p = p1 THEN st ELSE Nil]

Symmetric == Permutations(Agents) \cup Permutations(Specs)
=============================================================================
