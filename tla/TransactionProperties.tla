----------------------- MODULE TransactionProperties -----------------------
(***************************************************************************)
(* What overlapping transactions leave intact, and what they do not.       *)
(***************************************************************************)
EXTENDS EventTransactions, RunningSums

\* Rows have their types; what is committed was inserted, once; a transaction
\* holds locks only from its first update on.
TypeOK ==
  /\ rows \in [Resources -> Row]
  /\ \A i \in DOMAIN events : events[i].prev \in 0..Len(events)
  /\ Range(commits) \subseteq DOMAIN events
  /\ \A c \in Clients :
       /\ tx[c].event \in DOMAIN events \cup {Null}
       /\ Active(c) <=> tx[c].event # Null
       /\ Locks(c) # {} => tx[c].pc \in {"writeTo", "commit"}

\* What event e adds to the onhand quantity of r.
Effect(e, r) ==
  (IF e.from = r THEN Change(e) ELSE 0) + (IF e.to = r THEN e.quantity ELSE 0)

\* No update is lost: the onhand quantity of a resource is that of a replay of
\* the committed events, however their statements overlapped (the `inc' of
\* the updates, as against writing back a quantity that was read).
QuantitiesFollowCommits ==
  \A r \in Resources :
    rows[r].onhand = InitialOnhand
      + SumTo(Len(commits), [k \in DOMAIN commits |-> Effect(events[commits[k]], r)])

\* The commits of events through resource r.
Through(r) == {k \in DOMAIN commits : events[commits[k]].from = r}

\* Previous events are never dangling, circular or of another resource: the
\* previous event of a resource is the last one committed through it, and that
\* of an event is one committed earlier.
LinksGoBack ==
  /\ \A r \in Resources :
       \/ rows[r].prev = Null /\ Through(r) = {}
       \/ \E k \in Through(r) : rows[r].prev = commits[k] /\ \A j \in Through(r) : j <= k
  /\ \A k \in DOMAIN commits :
       LET e == events[commits[k]]
       IN e.prev = Null \/ \E j \in Through(e.from) : j < k /\ e.prev = commits[j]

\* Every request is answered, deadlocks between opposite transfers included.
RequestsEnd == \A c \in Clients : Active(c) ~> ~Active(c)

-----------------------------------------------------------------------------
(* Refuted: the checks read rows that others may change before the commit. *)

\* docs/vf-intro-gql-iface.md:295-296, of pickup events: "There is no other
\* `pickup` event that refers to the same resource `resourceInventoriedAs` in
\* the same process".
OnePickupPerProcess ==
  \A j, k \in DOMAIN commits :
    LET e == events[commits[j]]
        f == events[commits[k]]
    IN j # k /\ e.action = "pickup" /\ f.action = "pickup" /\ e.from = f.from
         => e.process # f.process
=============================================================================
