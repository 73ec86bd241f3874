-------------------------- MODULE EventTransactions --------------------------
(***************************************************************************)
(* Overlapping calls of EconomicEvent.Domain.create/2, statement by        *)
(* statement.                                                              *)
(*                                                                         *)
(* The program sends the statements of each Multi one after another, in a  *)
(* transaction at the database's default level, READ COMMITTED: a SELECT   *)
(* sees what is committed when it starts and what its own transaction      *)
(* wrote; an UPDATE takes the lock of the row, waiting for the transaction *)
(* that has it, and then changes the latest row; locks are held to the     *)
(* end.  Nothing in the program takes a lock to read.                      *)
(*                                                                         *)
(* The five actions here have the three shapes that all clauses of         *)
(* handle_insert have: check a row, then update it (pickup, accept); check *)
(* events, then read and update the row (dropoff, modify); check two rows, *)
(* then update both (transferCustody into an existing resource).           *)
(***************************************************************************)
EXTENDS Integers, Sequences, FiniteSets, Functions

CONSTANTS
  Clients,         \* requests that can be in progress at once
  Resources,       \* resources of one specification and unit, not packed
  Processes,
  Agents,
  Actions,         \* the action ids the clients use
  Quantities,      \* the quantities the clients send
  InitialOnhand,   \* the onhand quantity each resource was raised with
  None,            \* no process, or no resource
  MaxEvents        \* bound on the number of requests

ASSUME QuantitiesAssumption == Quantities \subseteq Nat \ {0} /\ InitialOnhand \in Nat
ASSUME NoneAssumption == None \notin Resources \cup Processes
ASSUME MaxEventsAssumption == MaxEvents \in Nat

VARIABLES
  rows,      \* vf_economic_resource as committed
  events,    \* the rows inserted into vf_economic_event, in the order of their ids
  commits,   \* the ids of the committed events, in the order of the commits
  tx         \* what each client's transaction is about to do, and has written

vars == <<rows, events, commits, tx>>

Null == 0    \* no event; as a resource's previous event, the one that made it

\* onhand, custodian and previous event of a resource
Row == [onhand: Int, custodian: Agents, prev: Nat]

Answers(act) == IF act = "dropoff" THEN "pickup" ELSE "accept"

Requests ==
  {e \in [action: Actions, provider: Agents, receiver: Agents, process: Processes \cup {None},
          from: Resources, to: Resources \cup {None}, quantity: Quantities, prev: {Null}] :
     IF e.action = "transferCustody"
     THEN e.process = None /\ e.to # None
     ELSE e.process # None /\ e.to = None /\ e.provider = e.receiver}

\* event: the row inserted; seen: the resource as its SELECTs read it; wrote:
\* the versions of rows its UPDATEs made.
Idle == [pc |-> "idle", event |-> Null, seen |-> <<>>, wrote |-> <<>>]

Active(c) == tx[c].pc # "idle"

Own(c) == events[tx[c].event]

At(c, pc, acts) == tx[c].pc = pc /\ Own(c).action \in acts

\* Events a statement of c sees.
Visible(c) == Range(commits) \cup {tx[c].event}

Goto(c, pc) == tx' = [tx EXCEPT ![c].pc = pc]

-----------------------------------------------------------------------------
(* Locks                                                                    *)

Locks(c) == DOMAIN tx[c].wrote

\* Mutated: an update runs outside of its transaction, and waits for it.
FreeOfAll(r, c) == \A d \in Clients : r \notin Locks(d)

Free(r, c) == \A d \in Clients \ {c} : r \notin Locks(d)

\* The row c is about to update, if any.
Wants(c) ==
  CASE tx[c].pc = "write" -> {Own(c).from}
    [] tx[c].pc = "writeTo" -> {Own(c).to}
    [] OTHER -> {}

WaitsFor(c, d) == c # d /\ Wants(c) \cap Locks(d) # {}

\* c is on a circle of transactions that wait for each other.
Deadlocked(c) ==
  \E S \in SUBSET Clients :
    /\ c \in S
    /\ \A x \in S : (\E y \in S : WaitsFor(x, y)) /\ (\E y \in S : WaitsFor(y, x))

\* The version of row r that an UPDATE of c starts from.
Latest(c, r) == IF r \in Locks(c) THEN tx[c].wrote[r] ELSE rows[r]

-----------------------------------------------------------------------------
(* The checks                                                               *)

RowChecks(e) ==
  /\ rows[e.from].custodian = e.provider
  /\ e.action \in {"pickup", "accept"} => e.quantity = rows[e.from].onhand

\* The events a dropoff or modify event may answer; repo.one() raises if there
\* are two.
Pairs(c, e) ==
  {i \in Visible(c) : /\ events[i].action = Answers(e.action)
                      /\ events[i].from = e.from /\ events[i].process = e.process}

PairChecks(c, e) ==
  \E i \in Visible(c) :
    /\ Pairs(c, e) = {i}
    /\ e.provider = events[i].provider
    /\ e.action = "modify" => e.quantity = events[i].quantity

\* not_single_ref? is false.
Single(c, e) ==
  ~\E i \in Visible(c) \ {tx[c].event} :
     /\ events[i].action = e.action
     /\ events[i].from = e.from /\ events[i].process = e.process

-----------------------------------------------------------------------------
(* The statements                                                           *)

Insert(c) ==
  /\ ~Active(c)
  /\ Len(events) < MaxEvents
  /\ \E e \in Requests : events' = Append(events, e)
  /\ tx' = [tx EXCEPT ![c] = [Idle EXCEPT !.pc = "checks", !.event = Len(events) + 1]]
  /\ UNCHANGED <<rows, commits>>

ReadRow(c) ==
  /\ At(c, "checks", {"pickup", "accept", "transferCustody"})
  /\ RowChecks(Own(c))
  /\ tx' = [tx EXCEPT ![c].seen = rows[Own(c).from],
                      ![c].pc = IF Own(c).action = "transferCustody" THEN "write" ELSE "unique"]
  /\ UNCHANGED <<rows, events, commits>>

ReadPair(c) ==
  /\ At(c, "checks", {"dropoff", "modify"})
  /\ PairChecks(c, Own(c))
  /\ Goto(c, "unique")
  /\ UNCHANGED <<rows, events, commits>>

CheckSingle(c) ==
  /\ tx[c].pc = "unique"
  /\ Single(c, Own(c))
  /\ Goto(c, IF Own(c).action \in {"dropoff", "modify"} THEN "readPrev" ELSE "write")
  /\ UNCHANGED <<rows, events, commits>>

\* dropoff and modify read the previous event just before they write.
ReadPrev(c) ==
  /\ tx[c].pc = "readPrev"
  /\ tx' = [tx EXCEPT ![c].seen = rows[Own(c).from], ![c].pc = "write"]
  /\ UNCHANGED <<rows, events, commits>>

\* A failed check rolls back.
Refuse(c) ==
  /\ \/ At(c, "checks", {"pickup", "accept", "transferCustody"}) /\ ~RowChecks(Own(c))
     \/ At(c, "checks", {"dropoff", "modify"}) /\ ~PairChecks(c, Own(c))
     \/ tx[c].pc = "unique" /\ ~Single(c, Own(c))
  /\ tx' = [tx EXCEPT ![c] = Idle]
  /\ UNCHANGED <<rows, events, commits>>

Change(e) ==
  CASE e.action \in {"accept", "transferCustody"} -> -e.quantity
    [] e.action = "modify" -> e.quantity
    [] OTHER -> 0

\* Mutated: the row is computed from the one that was read.
UpdatedSeen(c, e) ==
  [onhand |-> tx[c].seen.onhand + Change(e),
   custodian |-> IF e.action = "transferCustody" THEN e.receiver ELSE tx[c].seen.custodian,
   prev |-> tx[c].event]

\* Mutated: the custodian is set from the wrong column of the event.
UpdatedToCustodian(c, e) ==
  LET row == Latest(c, e.from)
  IN [onhand |-> row.onhand + Change(e),
      custodian |-> IF e.action = "transferCustody" THEN e.to ELSE row.custodian,
      prev |-> tx[c].event]

\* The row of the resource the event goes through, after its UPDATE.
Updated(c, e) ==
  LET row == Latest(c, e.from)
  IN [onhand |-> row.onhand + Change(e),
      custodian |-> IF e.action = "transferCustody" THEN e.receiver ELSE row.custodian,
      prev |-> tx[c].event]

\* Mutated: the previous event is read after the resource's own is set.
PreviousOwn(c) == tx[c].event

Previous(c) == tx[c].seen.prev

\* The UPDATE of the event, which no one else sees before the end, and that of
\* the resource it goes through.
Write(c) ==
  /\ tx[c].pc = "write"
  /\ Free(Own(c).from, c)
  /\ events' = [events EXCEPT ![tx[c].event].prev = Previous(c)]
  /\ tx' = [tx EXCEPT ![c].wrote = [r \in {Own(c).from} |-> Updated(c, Own(c))],
                      ![c].pc = IF Own(c).action = "transferCustody" THEN "writeTo" ELSE "commit"]
  /\ UNCHANGED <<rows, commits>>

WriteTo(c) ==
  LET r == Own(c).to
      row == [Latest(c, r) EXCEPT !.onhand = @ + Own(c).quantity]
  IN /\ tx[c].pc = "writeTo"
     /\ Free(r, c)
     /\ tx' = [tx EXCEPT ![c].wrote = [x \in Locks(c) \cup {r} |-> IF x = r THEN row ELSE @[x]],
                         ![c].pc = "commit"]
     /\ UNCHANGED <<rows, events, commits>>

Commit(c) ==
  /\ tx[c].pc = "commit"
  /\ rows' = [r \in Resources |-> Latest(c, r)]
  /\ commits' = Append(commits, tx[c].event)
  /\ tx' = [tx EXCEPT ![c] = Idle]
  /\ UNCHANGED events

\* The database breaks a deadlock by an error in one of the transactions.
BreakDeadlock(c) ==
  /\ Deadlocked(c)
  /\ tx' = [tx EXCEPT ![c] = Idle]
  /\ UNCHANGED <<rows, events, commits>>

\* The process or its connection dies; the database rolls back.
Lose(c) ==
  /\ Active(c)
  /\ tx' = [tx EXCEPT ![c] = Idle]
  /\ UNCHANGED <<rows, events, commits>>

-----------------------------------------------------------------------------
Init ==
  /\ rows \in [Resources -> [onhand: {InitialOnhand}, custodian: Agents, prev: {Null}]]
  /\ events = <<>>
  /\ commits = <<>>
  /\ tx = [c \in Clients |-> Idle]

Proceed(c) ==
  \/ ReadRow(c) \/ ReadPair(c) \/ CheckSingle(c) \/ ReadPrev(c) \/ Refuse(c)
  \/ BreakDeadlock(c) \/ Commit(c)

Next == \E c \in Clients : Insert(c) \/ Proceed(c) \/ Write(c) \/ WriteTo(c) \/ Lose(c)

Spec == Init /\ [][Next]_vars

\* A process sends its next statement when it has the answer to the last one,
\* and the database serves the transactions that wait for a row in turn.
FairSpec ==
  /\ Spec
  /\ \A c \in Clients : WF_vars(Proceed(c)) /\ SF_vars(Write(c)) /\ SF_vars(WriteTo(c))
=============================================================================
