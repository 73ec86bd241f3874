-------------------------- MODULE LedgerProperties --------------------------
(***************************************************************************)
(* What the ledger of EconomicEvents promises: the stored state of every   *)
(* resource is the one its events account for.                             *)
(***************************************************************************)
EXTENDS EconomicEvents, RunningSums

\* Rows have the columns' types and refer to rows that exist
\* (economic_resource.ex, economic_event.ex and their migrations).
TypeOK ==
  /\ resources \in Seq(Resource)
  /\ events \in Seq(Event)
  /\ \A r \in ResourceIds : /\ resources[r].prev \in EventIds
                            /\ resources[r].containedIn \in ResourceIds \cup {Null}
  /\ \A i \in EventIds : /\ events[i].prev \in 0..(i - 1)
                         /\ events[i].from \in ResourceIds \cup {Null}
                         /\ events[i].to \in ResourceIds \cup {Null}

-----------------------------------------------------------------------------
(* Quantities *)

Into(e, r) == IF e.to = r THEN e.quantity ELSE 0
Through(e, r) == IF e.from = r THEN e.quantity ELSE 0

\* The documented effect of event e on the accounting quantity of r
\* (docs/vf-intro-gql-iface.md, "Quantities and ownerships").
AccountingEffect(e, r) ==
  CASE e.action \in {"raise", "produce"} -> Through(e, r)
    [] e.action \in {"lower", "consume", "transferAllRights", "transfer", "move"} ->
         Into(e, r) - Through(e, r)
    [] OTHER -> 0

OnhandEffect(e, r) ==
  CASE e.action \in {"raise", "produce", "modify"} -> Through(e, r)
    [] e.action \in {"lower", "consume", "accept", "transferCustody", "transfer", "move"} ->
         Into(e, r) - Through(e, r)
    [] OTHER -> 0

AccountingBalance(r) ==
  SumTo(Len(events), [i \in EventIds |-> AccountingEffect(events[i], r)])

OnhandBalance(r) ==
  SumTo(Len(events), [i \in EventIds |-> OnhandEffect(events[i], r)])

\* The two quantities of a resource, kept by relative UPDATEs over many
\* transactions (the `inc' of every handle_insert clause), are those a replay
\* of the event log gives.
QuantitiesFollowEvents ==
  \A r \in ResourceIds : /\ resources[r].accounting = AccountingBalance(r)
                         /\ resources[r].onhand = OnhandBalance(r)

Conforms(r, s, u) == resources[r].spec = s /\ resources[r].unit = u

\* What an event brings into or takes out of the books of specification s in
\* unit u; a transfer does neither.
Issued(e, s, u) ==
  IF e.from \in ResourceIds /\ Conforms(e.from, s, u)
  THEN CASE e.action \in {"raise", "produce"} -> e.quantity
         [] e.action \in {"lower", "consume"} -> -e.quantity
         [] OTHER -> 0
  ELSE 0

\* Transfers and moves neither make nor lose anything, and never mix
\* specifications or units: per specification and unit, the accounting
\* quantities add up to what was raised and produced less what was lowered and
\* consumed (the checks of the transfer clauses on to_resource_inventoried_as).
ConservedPerSpecification ==
  \A s \in Specs, u \in Units :
    SumTo(Len(resources), [r \in ResourceIds |->
             IF Conforms(r, s, u) THEN resources[r].accounting ELSE 0])
      = SumTo(Len(events), [i \in EventIds |-> Issued(events[i], s, u)])

\* The accept events whose resource no modify event has given back yet.
Outstanding(i) ==
  /\ events[i].action = "accept"
  /\ ~\E j \in EventIds : /\ events[j].action = "modify"
                          /\ events[j].from = events[i].from
                          /\ events[j].outputOf = events[i].inputOf

\* Whatever is not onhand is accepted into some process: over all resources,
\* accounting and onhand quantities differ by the outstanding accept events.
\* It fails when a modify gives back twice, or another amount than was taken.
NothingLostInProcess ==
  SumTo(Len(resources), [r \in ResourceIds |-> resources[r].accounting - resources[r].onhand])
    = SumTo(Len(events), [i \in EventIds |-> IF Outstanding(i) THEN events[i].quantity ELSE 0])

-----------------------------------------------------------------------------
(* Traceability *)

Mentions(i, r) == events[i].from = r \/ events[i].to = r

Creates(i, r) == Mentions(i, r) /\ \A j \in 1..(i - 1) : ~Mentions(j, r)

\* The events that went through r: the one that made it and those inventoried
\* as it.  A transfer into r does not count.
Trail(r) == {i \in EventIds : events[i].from = r \/ Creates(i, r)}

\* x is the latest event in S before n, Null if there is none.
IsLatest(x, S, n) ==
  \/ x = Null /\ \A j \in S : j >= n
  \/ x \in S /\ x < n /\ \A j \in S : j < n => j <= x

\* Following previous_event from a resource visits the whole trail of the
\* resource, newest first and down to the event that made it, and misses
\* nothing (the previous_event_id writes of every clause, read by
\* EconomicResource.Domain.trace and asserted for one story in
\* test/vf/economic_resource/track_and_trace.test.exs).
PreviousChain ==
  \A r \in ResourceIds :
    /\ \E i \in EventIds : Creates(i, r)
    /\ IsLatest(resources[r].prev, Trail(r), NextEvent)
    /\ \A i \in EventIds : events[i].from = r => IsLatest(events[i].prev, Trail(r), i)

-----------------------------------------------------------------------------
(* Pairs of events around a process *)

Opening(act) == IF act = "dropoff" THEN "pickup" ELSE "accept"

\* dropoff and modify events each answer one earlier pickup, accept, event of
\* the same provider on the same resource and process, and no two of one kind
\* share a resource and a process (docs, "Pickup and Dropoff Events", "Accept
\* and Modify Events").  modify gives back what accept took.
PairsAreOneToOne ==
  \A i \in EventIds :
    /\ events[i].action \in {"dropoff", "modify"} =>
         \E j \in 1..(i - 1) :
           /\ events[j].action = Opening(events[i].action)
           /\ events[j].from = events[i].from
           /\ events[j].inputOf = events[i].outputOf
           /\ events[j].provider = events[i].provider
           /\ events[j].unit = events[i].unit
           /\ events[i].action = "modify" => events[j].quantity = events[i].quantity
    /\ events[i].action \in {"pickup", "dropoff", "accept", "modify"} =>
         \A j \in EventIds \ {i} :
           ~ /\ events[j].action = events[i].action
             /\ events[j].from = events[i].from
             /\ events[j].inputOf = events[i].inputOf
             /\ events[j].outputOf = events[i].outputOf

\* r was raised or produced, and not made by a transfer.
Raised(r) == \E i \in EventIds : Creates(i, r) /\ events[i].from = r

\* The stage of a resource is that of the last process that modified it, also
\* when that process is based on nothing (handle_insert, "modify"); one that was
\* raised and never modified has none.  It says nothing of resources that a
\* transfer made, before they are modified: there documentation and code differ.
StageOfLastModify ==
  \A r \in ResourceIds :
    LET modifies == {i \in EventIds : events[i].action = "modify" /\ events[i].from = r}
    IN \/ modifies = {} /\ (Raised(r) => resources[r].stage = Nil)
       \/ \E i \in modifies : /\ \A j \in modifies : j <= i
                              /\ resources[r].stage = BasedOn[events[i].outputOf]

-----------------------------------------------------------------------------
(* Refuted                                                                  *)

NewestEvent == events'[Len(events')]

\* Refuted: docs/vf-intro-gql-iface.md:492-495 of transferCustody with both
\* resources: "if the resource `resourceInventoriedAs` was a container, the packed
\* resources' `containedIn` will be set to `toResourceInventoriedAs` and
\* `custodian` set to `receiver` of the event".
ContentsHandedOver ==
  [][Len(events') > Len(events) /\ NewestEvent.action = "transferCustody" =>
       \A c \in ResourceIds :
         resources[c].containedIn = NewestEvent.from =>
           /\ resources'[c].containedIn = NewestEvent.to
           /\ resources'[c].custodian = NewestEvent.receiver]_vars
=============================================================================
