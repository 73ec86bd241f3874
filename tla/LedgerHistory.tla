----------------------------- MODULE LedgerHistory -----------------------------
(***************************************************************************)
(* Where the resources of the ledger are, and who has them, by its history.*)
(* Packing and unpacking leave no event, so the log does not tell what was *)
(* in a container when it was moved or handed over.  A history variable    *)
(* does; it changes nothing about the ledger.                              *)
(***************************************************************************)
EXTENDS LedgerProperties

VARIABLE carried    \* per event: what the resource it goes through contained then

historyVars == <<resources, events, carried>>

Contents(k) == {c \in ResourceIds : k # Null /\ resources[c].containedIn = k}

HistoryInit == Init /\ carried = <<>>

HistoryNext ==
  /\ Next
  /\ carried' = IF events' = events THEN carried ELSE Append(carried, Contents(NewestEvent.from))

HistorySpec == HistoryInit /\ [][HistoryNext]_historyVars

-----------------------------------------------------------------------------
(* Properties                                                               *)

\* Event i makes resource r, or drops it off somewhere, alone or in a container.
Places(i, r) ==
  \/ Creates(i, r)
  \/ /\ events[i].action = "dropoff" /\ events[i].location # Nil
     /\ r = events[i].from \/ r \in carried[i]

\* A resource is where the event that made it put it, or where it was dropped
\* off last, alone or in the container it then was in, whatever was packed and
\* unpacked before and since (handle_insert, "dropoff").
LocationOfLastPlacement ==
  \A r \in ResourceIds :
    \E i \in EventIds : /\ Places(i, r)
                        /\ \A j \in EventIds : Places(j, r) => j <= i
                        /\ resources[r].location = events[i].location

AccountingMoves == {"transferAllRights", "transfer", "move"}
CustodyMoves == {"transferCustody", "transfer", "move"}

\* Event i makes resource r for its receiver; or it is one of acts, and hands r
\* over: r is what remains after a transfer into a resource there is, or was in
\* the container that a new resource takes the place of.
HandsOver(i, r, acts) ==
  \/ Creates(i, r)
  \/ /\ events[i].action \in acts
     /\ IF Creates(i, events[i].to) THEN r \in carried[i] ELSE r = events[i].from

\* Before event n, agent a was the last to whom r was handed over.
Has(a, r, n, acts) ==
  \E i \in 1..(n - 1) : /\ HandsOver(i, r, acts) /\ events[i].receiver = a
                        /\ \A j \in 1..(n - 1) : HandsOver(j, r, acts) => j <= i

\* The accountable agent and the custodian of a resource are those to whom a
\* replay of the log hands it over: with the remainder of a transfer, with its
\* container, and by nothing else; packing and unpacking do not change hands
\* (the updates of holders in the four transfer clauses).
HoldersFollowEvents ==
  \A r \in ResourceIds :
    /\ Has(resources[r].accountable, r, NextEvent, AccountingMoves)
    /\ Has(resources[r].custodian, r, NextEvent, CustodyMoves)

\* Whoever transfers a resource had been handed it: in the whole log, the provider
\* of a transfer is the receiver of the event that handed the resource over last,
\* separately for what is accounted for and what is in custody (the checks of
\* provider_id in the transfer clauses).
HandedOnByHolder ==
  \A n \in EventIds :
    /\ events[n].action \in AccountingMoves =>
         Has(events[n].provider, events[n].from, n, AccountingMoves)
    /\ events[n].action \in CustodyMoves =>
         Has(events[n].provider, events[n].from, n, CustodyMoves)
=============================================================================
