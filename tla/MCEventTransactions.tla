------------------------ MODULE MCEventTransactions ------------------------
(***************************************************************************)
(* Small instances of overlapping transactions for TLC.                    *)
(***************************************************************************)
EXTENDS TransactionProperties, TLC

Symmetric == Permutations(Clients) \cup Permutations(Agents) \cup Permutations(Resources)

=============================================================================
