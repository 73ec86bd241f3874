------------------------------- MODULE MCPages -------------------------------
(***************************************************************************)
(* Small instances of paging for TLC.                                      *)
(***************************************************************************)
EXTENDS Pages, TLC

\* Names of which two are the same, and not in the order of the ids.
MCName == [i \in Ids |-> IF i = 1 THEN 2 ELSE 1]
MCSizes == {1, 2, 4, Absent}
=============================================================================
