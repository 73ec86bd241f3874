--------------------------- MODULE LedgerRefinement ---------------------------
(***************************************************************************)
(* The ledger as a journal: what the columns of its rows stand for.        *)
(***************************************************************************)
EXTENDS LedgerProperties

Entry(e) ==
  [kind |-> e.action, provider |-> e.provider, receiver |-> e.receiver,
   from |-> e.from, to |-> e.to, quantity |-> e.quantity]

Account(row) ==
  [owned |-> row.accounting, onhand |-> row.onhand,
   owner |-> row.accountable, keeper |-> row.custodian]

J == INSTANCE Journal WITH
       entries <- [i \in EventIds |-> Entry(events[i])],
       accounts <- [r \in ResourceIds |-> Account(resources[r])]

\* Every event that create/2 records changes the quantities of the resources it
\* names, and of no others, as its action says, and hands what its action moves
\* to its receiver only; only holders part with what they hold; and packing books
\* nothing (all clauses of handle_insert).
KeepsJournal == J!Spec
=============================================================================
