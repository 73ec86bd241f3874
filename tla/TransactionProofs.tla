------------------------- MODULE TransactionProofs -------------------------
(***************************************************************************)
(* What overlapping transactions leave intact, for any clients, resources  *)
(* and requests: no update is lost, and previous events link backwards.    *)
(***************************************************************************)
EXTENDS TransactionProperties, RunningSumTheorems

-----------------------------------------------------------------------------
(* The invariant *)

EventRows ==
  [action: Actions, provider: Agents, receiver: Agents, process: Processes \cup {None},
   from: Resources, to: Resources \cup {None}, quantity: Nat, prev: Nat]

\* Before its first update, a transaction has no locks.
Reading == {"idle", "checks", "unique", "readPrev", "write"}

Versions == UNION {[S -> Row] : S \in SUBSET Resources}

Transactions ==
  [pc: Reading \cup {"writeTo", "commit"}, event: Nat, seen: Row \cup {<<>>}, wrote: Versions]

Types ==
  /\ rows \in [Resources -> Row]
  /\ events \in Seq(EventRows)
  /\ commits \in Seq(Nat) /\ \A k \in 1..Len(commits) : commits[k] \in 1..Len(events)
  /\ tx \in [Clients -> Transactions]

\* x is no event, or one committed through resource r.
Committed(x, r) ==
  x = Null \/ \E k \in 1..Len(commits) : x = commits[k] /\ events[x].from = r

LogOK ==
  \A i \in 1..Len(events) : /\ events[i].to # None <=> events[i].action = "transferCustody"
                            /\ Committed(events[i].prev, events[i].from)

HasRead(c) ==
  \/ tx[c].pc = "write"
  \/ tx[c].pc = "unique" /\ Own(c).action \notin {"dropoff", "modify"}

\* Transaction c is about an event of its own, read what was committed, and
\* has written versions that differ from the committed rows by its effect.
ClientOK(c) ==
  /\ Active(c) <=> tx[c].event # Null
  /\ Active(c) => /\ tx[c].event \in 1..Len(events)
                  /\ \A k \in 1..Len(commits) : commits[k] # tx[c].event
  /\ tx[c].pc \in Reading => Locks(c) = {}
  /\ HasRead(c) => tx[c].seen \in Row /\ Committed(tx[c].seen.prev, Own(c).from)
  /\ tx[c].pc = "writeTo" =>
       /\ Own(c).action = "transferCustody"
       /\ Locks(c) = {Own(c).from}
       /\ tx[c].wrote[Own(c).from].onhand = rows[Own(c).from].onhand + Change(Own(c))
       /\ tx[c].wrote[Own(c).from].prev = tx[c].event
  /\ tx[c].pc = "commit" =>
       /\ Locks(c) = {Own(c).from} \cup ({Own(c).to} \ {None})
       /\ \A r \in Locks(c) :
            /\ tx[c].wrote[r].onhand = rows[r].onhand + Effect(Own(c), r)
            /\ tx[c].wrote[r].prev = IF r = Own(c).from THEN tx[c].event ELSE rows[r].prev

\* Transactions have events of their own, and no lock in common.
Apart ==
  \A c, d \in Clients : c # d =>
    /\ Active(c) /\ Active(d) => tx[c].event # tx[d].event
    /\ Locks(c) \cap Locks(d) = {}

Isolated == Types /\ LogOK /\ (\A c \in Clients : ClientOK(c)) /\ Apart

-----------------------------------------------------------------------------
(* Rows and records *)

LEMMA OneMore ==
  ASSUME NEW S, NEW s \in Seq(S), NEW x \in S
  PROVE  /\ Append(s, x) \in Seq(S) /\ Len(Append(s, x)) = Len(s) + 1
         /\ Append(s, x)[Len(s) + 1] = x
         /\ \A i \in 1..Len(s) : Append(s, x)[i] = s[i]
OBVIOUS

LEMMA RequestRows ==
  ASSUME NEW e \in Requests
  PROVE  /\ e \in EventRows /\ e.prev = Null
         /\ e.to # None <=> e.action = "transferCustody"
<1>1. \A q \in Quantities : q \in Nat
  BY QuantitiesAssumption
<1> QED
  BY <1>1 DEF Requests, EventRows, Null

LEMMA IdleIs ==
  /\ Idle \in Transactions /\ Idle.pc = "idle" /\ Idle.event = Null /\ Idle.wrote = <<>>
  /\ DOMAIN <<>> = {}
<1>1. DOMAIN <<>> = {}
  OBVIOUS
<1>2. <<>> \in [{} -> Row]
  OBVIOUS
<1>3. <<>> \in Versions
  BY <1>2 DEF Versions
<1> QED
  BY <1>1, <1>3 DEF Idle, Transactions, Reading, Null

LEMMA WroteTypes ==
  ASSUME NEW t \in Transactions
  PROVE  /\ DOMAIN t.wrote \subseteq Resources
         /\ \A r \in DOMAIN t.wrote : t.wrote[r] \in Row
<1>1. t.wrote \in Versions
  BY DEF Transactions
<1>2. PICK S \in SUBSET Resources : t.wrote \in [S -> Row]
  BY <1>1 DEF Versions
<1> QED
  BY <1>2

LEMMA Going ==
  ASSUME NEW t \in Transactions, NEW pc \in Reading \cup {"writeTo", "commit"}
  PROVE  /\ [t EXCEPT !.pc = pc] \in Transactions
         /\ [t EXCEPT !.pc = pc].pc = pc
         /\ [t EXCEPT !.pc = pc].event = t.event
         /\ [t EXCEPT !.pc = pc].seen = t.seen
         /\ [t EXCEPT !.pc = pc].wrote = t.wrote
BY DEF Transactions

Saw(t, row, pc) == [t EXCEPT !.seen = row, !.pc = pc]

LEMMA Seeing ==
  ASSUME NEW t \in Transactions, NEW pc \in Reading, NEW row \in Row,
         NEW s, s = Saw(t, row, pc)
  PROVE  s \in Transactions /\ s.pc = pc /\ s.event = t.event /\ s.seen = row /\ s.wrote = t.wrote
BY DEF Transactions, Saw

Wrote(t, w, pc) == [t EXCEPT !.wrote = w, !.pc = pc]

LEMMA Writing ==
  ASSUME NEW t \in Transactions, NEW pc \in {"writeTo", "commit"},
         NEW S \in SUBSET Resources, NEW w \in [S -> Row],
         NEW s, s = Wrote(t, w, pc)
  PROVE  s \in Transactions /\ s.pc = pc /\ s.event = t.event /\ s.seen = t.seen /\ s.wrote = w
<1>1. w \in Versions
  BY DEF Versions
<1> QED
  BY <1>1 DEF Transactions, Wrote

LEMMA OwnTypes ==
  ASSUME Types, NEW c \in Clients, ClientOK(c), Active(c)
  PROVE  /\ tx[c] \in Transactions /\ tx[c].event \in 1..Len(events) /\ Own(c) \in EventRows
         /\ Own(c).from \in Resources /\ Own(c).to \in Resources \cup {None}
         /\ Own(c).quantity \in Nat
<1>1. tx[c] \in Transactions /\ tx[c].event \in 1..Len(events)
  BY DEF Types, ClientOK
<1>2. Own(c) \in EventRows
  BY <1>1 DEF Types, Own
<1> QED
  BY <1>1, <1>2 DEF EventRows

LEMMA EffectTypes ==
  ASSUME NEW e \in EventRows, NEW r
  PROVE  Change(e) \in Int /\ Effect(e, r) \in Int
<1>1. e.quantity \in Nat /\ -e.quantity \in Int
  BY DEF EventRows
<1>2. Change(e) \in Int
  BY <1>1 DEF Change
<1> QED
  BY <1>1, <1>2 DEF Effect

-----------------------------------------------------------------------------
(* What a step of one client leaves to the others *)

SameButPrev(e, f) ==
  /\ e.action = f.action /\ e.provider = f.provider /\ e.receiver = f.receiver
  /\ e.process = f.process /\ e.from = f.from /\ e.to = f.to /\ e.quantity = f.quantity

\* Client c works on its own event and on rows that it has locked.
OnlyOwn(c) ==
  /\ \A d \in Clients \ {c} : tx'[d] = tx[d]
  /\ Len(events') \in Nat /\ Len(events) <= Len(events')
  /\ \A i \in 1..Len(events) : /\ SameButPrev(events'[i], events[i])
                               /\ i # tx[c].event => events'[i] = events[i]
  /\ \A r \in Resources \ Locks(c) : rows'[r] = rows[r]
  /\ Len(commits') \in Nat /\ Len(commits) <= Len(commits')
  /\ \A k \in 1..Len(commits) : commits'[k] = commits[k]
  /\ \A k \in 1..Len(commits') : k <= Len(commits) \/ commits'[k] = tx[c].event

LEMMA CommittedKept ==
  ASSUME Types, NEW c, OnlyOwn(c), NEW x, NEW r, Committed(x, r)
  PROVE  Committed(x, r)'
<1>1. CASE x = Null
  BY <1>1 DEF Committed
<1>2. CASE x # Null
  <2>1. PICK k \in 1..Len(commits) : x = commits[k] /\ events[x].from = r
    BY <1>2 DEF Committed
  <2>2. x \in 1..Len(events)
    BY <2>1 DEF Types
  <2>3. events'[x].from = r
    BY <2>1, <2>2 DEF OnlyOwn, SameButPrev
  <2>4. k \in 1..Len(commits') /\ commits'[k] = x
    BY <2>1 DEF OnlyOwn, Types
  <2> QED
    BY <2>3, <2>4 DEF Committed
<1> QED
  BY <1>1, <1>2

LEMMA OthersOK ==
  ASSUME Isolated, NEW c \in Clients, OnlyOwn(c), NEW d \in Clients \ {c}
  PROVE  ClientOK(d)'
<1>1. tx'[d] = tx[d] /\ ClientOK(d)
  BY DEF OnlyOwn, Isolated
<1>2. (Active(d)' <=> Active(d)) /\ Locks(d)' = Locks(d)
  BY <1>1 DEF Active, Locks
<1>3. CASE ~Active(d)
  BY <1>1, <1>2, <1>3 DEF ClientOK, Active, HasRead
<1>4. CASE Active(d)
  <2>1. tx[d].event \in 1..Len(events) /\ Own(d) \in EventRows
    BY <1>1, <1>4, OwnTypes DEF Isolated
  <2>2. tx[d].event # tx[c].event
    <3>1. CASE Active(c)
      BY <1>4, <3>1 DEF Isolated, Apart
    <3>2. CASE ~Active(c)
      BY <2>1, <3>2 DEF Isolated, ClientOK, Null
    <3> QED
      BY <3>1, <3>2
  <2>3. Own(d)' = Own(d)
    BY <1>1, <2>1, <2>2 DEF OnlyOwn, Own
  <2>4. tx'[d].event \in 1..Len(events')
    BY <1>1, <2>1 DEF OnlyOwn, Isolated, Types
  <2>5. \A k \in 1..Len(commits') : commits'[k] # tx'[d].event
    <3> SUFFICES ASSUME NEW k \in 1..Len(commits') PROVE commits'[k] # tx[d].event
      BY <1>1
    <3>1. CASE k <= Len(commits)
      <4>1. k \in 1..Len(commits)
        BY <3>1 DEF Isolated, Types
      <4> QED
        BY <1>1, <1>4, <4>1 DEF OnlyOwn, ClientOK
    <3>2. CASE commits'[k] = tx[c].event
      BY <2>2, <3>2
    <3> QED
      BY <3>1, <3>2 DEF OnlyOwn
  <2>6. \A r \in Locks(d) : rows'[r] = rows[r]
    <3>1. Locks(d) \subseteq Resources
      BY WroteTypes DEF Isolated, Types, Locks
    <3>2. Locks(d) \cap Locks(c) = {}
      BY DEF Isolated, Apart
    <3> QED
      BY <3>1, <3>2 DEF OnlyOwn
  <2>7. HasRead(d)' => /\ tx'[d].seen \in Row
                       /\ Committed(tx[d].seen.prev, Own(d).from)'
    <3>1. ASSUME NEW x, x = tx[d].seen.prev, NEW r, r = Own(d).from, Committed(x, r)
          PROVE  Committed(x, r)'
      BY <3>1, CommittedKept DEF Isolated
    <3>2. HasRead(d)' => HasRead(d)
      BY <1>1, <2>3 DEF HasRead
    <3>3. HasRead(d) => tx[d].seen \in Row /\ Committed(tx[d].seen.prev, Own(d).from)
      BY <1>1 DEF ClientOK
    <3>4. tx'[d].seen.prev = tx[d].seen.prev /\ Own(d)'.from = Own(d).from
      BY <1>1, <2>3
    <3> QED
      BY <1>1, <3>1, <3>2, <3>3, <3>4 DEF Committed
  <2>8. (tx[d].pc = "writeTo" => rows'[Own(d).from] = rows[Own(d).from])
    BY <1>1, <2>6 DEF ClientOK
  <2> QED
    BY <1>1, <1>2, <1>4, <2>1, <2>3, <2>4, <2>5, <2>6, <2>7, <2>8 DEF ClientOK
<1> QED
  BY <1>3, <1>4

\* A step of one client keeps the invariant if its own transaction does.
LEMMA StepOK ==
  ASSUME Isolated, NEW c \in Clients, OnlyOwn(c),
         Types', LogOK', ClientOK(c)',
         Active(c)' => \A d \in Clients \ {c} : Active(d) => tx'[c].event # tx[d].event,
         \A d \in Clients \ {c} : Locks(c)' \cap Locks(d) = {}
  PROVE  Isolated'
<1>1. \A d \in Clients \ {c} : /\ ClientOK(d)' /\ tx'[d] = tx[d]
                              /\ (Active(d)' <=> Active(d)) /\ Locks(d)' = Locks(d)
  BY OthersOK DEF OnlyOwn, Active, Locks
<1>2. Apart'
  <2>1. ASSUME NEW d \in Clients \ {c}, NEW e \in Clients \ {c}, d # e
        PROVE  /\ Active(d)' /\ Active(e)' => tx'[d].event # tx'[e].event
               /\ Locks(d)' \cap Locks(e)' = {}
    BY <1>1, <2>1 DEF Isolated, Apart
  <2>2. ASSUME NEW d \in Clients \ {c}
        PROVE  /\ Active(d)' /\ Active(c)' => tx'[d].event # tx'[c].event
               /\ Locks(d)' \cap Locks(c)' = {}
    BY <1>1
  <2> QED
    BY <2>1, <2>2 DEF Apart
<1>3. \A d \in Clients : ClientOK(d)'
  BY <1>1
<1> QED
  BY <1>2, <1>3 DEF Isolated

LEMMA LogStays ==
  ASSUME Isolated, NEW c \in Clients, NEW s \in Transactions, tx' = [tx EXCEPT ![c] = s],
         UNCHANGED <<rows, events, commits>>
  PROVE  /\ OnlyOwn(c) /\ Types' /\ LogOK' /\ tx'[c] = s
         /\ \A x, r : Committed(x, r)' <=> Committed(x, r)
<1>1. Types' /\ tx'[c] = s
  BY DEF Isolated, Types
<1>2. \A x, r : Committed(x, r)' <=> Committed(x, r)
  BY DEF Committed
<1>3. LogOK'
  BY <1>2 DEF Isolated, LogOK
<1>4. OnlyOwn(c)
  BY DEF OnlyOwn, Isolated, Types, SameButPrev
<1> QED
  BY <1>1, <1>2, <1>3, <1>4

\* A transaction that ends without a commit leaves nothing.
LEMMA EndsOK ==
  ASSUME Isolated, NEW c \in Clients, tx' = [tx EXCEPT ![c] = Idle],
         UNCHANGED <<rows, events, commits>>
  PROVE  Isolated'
<1>1. /\ OnlyOwn(c) /\ Types' /\ LogOK'
      /\ tx'[c].pc = "idle" /\ tx'[c].event = Null /\ DOMAIN tx'[c].wrote = {}
  BY IdleIs, LogStays
<1>2. ~(Active(c)') /\ Locks(c)' = {}
  BY <1>1 DEF Active, Locks
<1>3. ClientOK(c)'
  BY <1>1, <1>2 DEF ClientOK, HasRead
<1> QED
  BY <1>1, <1>2, <1>3, StepOK

\* A transaction that reads goes on reading.
LEMMA ReadsOK ==
  ASSUME Isolated, NEW c \in Clients, Active(c), tx[c].pc \in Reading,
         NEW s \in Transactions, tx' = [tx EXCEPT ![c] = s], UNCHANGED <<rows, events, commits>>,
         s.pc \in Reading \ {"idle"}, s.event = tx[c].event, s.wrote = tx[c].wrote,
         (s.pc = "write" \/ (s.pc = "unique" /\ Own(c).action \notin {"dropoff", "modify"}))
           => s.seen \in Row /\ Committed(s.seen.prev, Own(c).from)
  PROVE  Isolated'
<1>1. /\ OnlyOwn(c) /\ Types' /\ LogOK' /\ tx'[c] = s
      /\ \A x, r : Committed(x, r)' <=> Committed(x, r)
  BY LogStays
<1>2. ClientOK(c)
  BY DEF Isolated
<1>3. Own(c)' = Own(c) /\ Active(c)' /\ Locks(c)' = Locks(c) /\ Locks(c) = {}
  BY <1>1, <1>2 DEF Own, Active, Locks, ClientOK
<1>4. HasRead(c)' => s.seen \in Row /\ Committed(s.seen.prev, Own(c).from)
  BY <1>1, <1>3 DEF HasRead
<1>5. HasRead(c)' => Committed(tx[c].seen.prev, Own(c).from)'
  <2>1. ASSUME NEW x, x = s.seen.prev, NEW r, r = Own(c).from, Committed(x, r)
        PROVE  Committed(x, r)'
    BY <1>1, <2>1
  <2>2. tx'[c].seen.prev = s.seen.prev /\ Own(c)'.from = Own(c).from
    BY <1>1, <1>3
  <2> QED
    BY <1>4, <2>1, <2>2 DEF Committed
<1>6. s.pc \notin {"idle", "writeTo", "commit"}
  BY DEF Reading
<1>7. ClientOK(c)'
  BY <1>1, <1>2, <1>3, <1>4, <1>5, <1>6 DEF ClientOK
<1>8. \A d \in Clients \ {c} : Active(d) => tx'[c].event # tx[d].event
  BY <1>1 DEF Isolated, Apart
<1> QED
  BY <1>1, <1>3, <1>7, <1>8, StepOK

\* The previous event of a row is committed.
RowsLinked == \A r \in Resources : Committed(rows[r].prev, r)

LEMMA ReadRowOK ==
  ASSUME Isolated, RowsLinked, NEW c \in Clients, ReadRow(c)
  PROVE  Isolated'
<1>1. tx[c].pc = "checks" /\ Own(c).action \in {"pickup", "accept", "transferCustody"}
  BY DEF ReadRow, At
<1>2. Active(c) /\ tx[c].pc \in Reading /\ tx[c] \in Transactions /\ ClientOK(c)
  BY <1>1 DEF Active, Reading, Isolated, Types
<1>3. Own(c).from \in Resources /\ rows[Own(c).from] \in Row
  BY <1>2, OwnTypes DEF Isolated, Types
<1>4. PICK pc \in {"unique", "write"} :
        tx' = [tx EXCEPT ![c] = [tx[c] EXCEPT !.seen = rows[Own(c).from], !.pc = pc]]
  BY DEF ReadRow
<1>5. PICK row \in Row : row = rows[Own(c).from]
  BY <1>3
<1>6. PICK s : s = Saw(tx[c], row, pc)
  OBVIOUS
<1>7. pc \in Reading \ {"idle"}
  BY DEF Reading
<1>8. /\ s \in Transactions /\ s.pc = pc /\ s.event = tx[c].event
      /\ s.seen = row /\ s.wrote = tx[c].wrote
  BY <1>2, <1>6, <1>7, Seeing
<1>9. Committed(s.seen.prev, Own(c).from)
  BY <1>3, <1>5, <1>8 DEF RowsLinked, Committed
<1>10. tx' = [tx EXCEPT ![c] = s] /\ UNCHANGED <<rows, events, commits>>
  BY <1>4, <1>5, <1>6 DEF ReadRow, Saw
<1> QED
  BY <1>2, <1>7, <1>8, <1>9, <1>10, ReadsOK

LEMMA ReadPrevOK ==
  ASSUME Isolated, RowsLinked, NEW c \in Clients, ReadPrev(c)
  PROVE  Isolated'
<1>1. Active(c) /\ tx[c].pc \in Reading /\ tx[c] \in Transactions /\ ClientOK(c)
  BY DEF ReadPrev, Active, Reading, Isolated, Types
<1>2. Own(c).from \in Resources /\ rows[Own(c).from] \in Row
  BY <1>1, OwnTypes DEF Isolated, Types
<1>3. PICK row \in Row : row = rows[Own(c).from]
  BY <1>2
<1>4. PICK s : s = Saw(tx[c], row, "write")
  OBVIOUS
<1>5. "write" \in Reading \ {"idle"}
  BY DEF Reading
<1>6. /\ s \in Transactions /\ s.pc = "write" /\ s.event = tx[c].event
      /\ s.seen = row /\ s.wrote = tx[c].wrote
  BY <1>1, <1>4, <1>5, Seeing
<1>7. Committed(s.seen.prev, Own(c).from)
  BY <1>2, <1>3, <1>6 DEF RowsLinked, Committed
<1>8. tx' = [tx EXCEPT ![c] = s] /\ UNCHANGED <<rows, events, commits>>
  BY <1>3, <1>4 DEF ReadPrev, Saw
<1> QED
  BY <1>1, <1>5, <1>6, <1>7, <1>8, ReadsOK

LEMMA ChecksOK ==
  ASSUME Isolated, NEW c \in Clients, ReadPair(c) \/ CheckSingle(c)
  PROVE  Isolated'
<1>1. Active(c) /\ tx[c].pc \in Reading /\ tx[c] \in Transactions /\ ClientOK(c)
  BY DEF ReadPair, CheckSingle, At, Active, Reading, Isolated, Types
<1>2. UNCHANGED <<rows, events, commits>>
  BY DEF ReadPair, CheckSingle
<1>3. PICK pc \in {"unique", "readPrev", "write"} :
        /\ tx' = [tx EXCEPT ![c] = [tx[c] EXCEPT !.pc = pc]]
        /\ pc = "unique" => Own(c).action \in {"dropoff", "modify"}
        /\ pc = "write" => HasRead(c)
  <2>1. CASE ReadPair(c)
    BY <2>1 DEF ReadPair, Goto, At
  <2>2. CASE CheckSingle(c)
    BY <2>2 DEF CheckSingle, Goto, HasRead
  <2> QED
    BY <2>1, <2>2
<1>4. PICK s : s = [tx[c] EXCEPT !.pc = pc]
  OBVIOUS
<1>5. pc \in Reading \ {"idle"}
  BY DEF Reading
<1>6. /\ s \in Transactions /\ s.pc = pc /\ s.event = tx[c].event
      /\ s.seen = tx[c].seen /\ s.wrote = tx[c].wrote
  BY <1>1, <1>4, <1>5, Going
<1>7. (s.pc = "write" \/ (s.pc = "unique" /\ Own(c).action \notin {"dropoff", "modify"}))
        => s.seen \in Row /\ Committed(s.seen.prev, Own(c).from)
  BY <1>1, <1>3, <1>6 DEF ClientOK
<1> QED
  BY <1>1, <1>2, <1>3, <1>4, <1>5, <1>6, <1>7, ReadsOK

-----------------------------------------------------------------------------
(* The steps that write *)

LEMMA SameEffect ==
  ASSUME NEW e, NEW f, SameButPrev(e, f), NEW r
  PROVE  Change(e) = Change(f) /\ Effect(e, r) = Effect(f, r)
BY DEF SameButPrev, Change, Effect

Started(n) == [Idle EXCEPT !.pc = "checks", !.event = n]

LEMMA StartedIs ==
  ASSUME NEW n \in Nat, NEW s, s = Started(n)
  PROVE  s \in Transactions /\ s.pc = "checks" /\ s.event = n /\ DOMAIN s.wrote = {}
<1>1. s = [pc |-> "checks", event |-> n, seen |-> <<>>, wrote |-> <<>>]
  BY DEF Started, Idle
<1>2. <<>> \in Versions
  <2>1. <<>> \in [{} -> Row]
    OBVIOUS
  <2> QED
    BY <2>1 DEF Versions
<1> QED
  BY <1>1, <1>2, IdleIs DEF Transactions, Reading

LEMMA InsertOK ==
  ASSUME Isolated, NEW c \in Clients, Insert(c)
  PROVE  Isolated'
<1>1. PICK n \in Nat : n = Len(events) + 1
  BY DEF Isolated, Types
<1>2. PICK e \in Requests : events' = Append(events, e)
  BY DEF Insert
<1>3. PICK s : s = Started(n)
  OBVIOUS
<1>4. tx' = [tx EXCEPT ![c] = s] /\ UNCHANGED <<rows, commits>> /\ ~Active(c)
  BY <1>1, <1>3 DEF Insert, Started
<1>5. s \in Transactions /\ s.pc = "checks" /\ s.event = n /\ DOMAIN s.wrote = {}
  BY <1>3, StartedIs
<1>6. /\ e \in EventRows /\ e.prev = Null
      /\ e.to # None <=> e.action = "transferCustody"
  BY RequestRows
<1>7. /\ events' \in Seq(EventRows) /\ Len(events') = n /\ events'[n] = e
      /\ \A i \in 1..Len(events) : events'[i] = events[i]
  BY <1>1, <1>2, <1>6, OneMore DEF Isolated, Types
<1>8. Types' /\ tx'[c] = s
  BY <1>1, <1>4, <1>5, <1>7 DEF Isolated, Types
<1>9. tx[c].event = Null
  BY <1>4 DEF Isolated, ClientOK
<1>10. OnlyOwn(c)
  BY <1>1, <1>4, <1>7 DEF OnlyOwn, Isolated, Types, SameButPrev
<1>11. LogOK'
  <2>1. ASSUME NEW i \in 1..Len(events)
        PROVE  /\ events'[i].to # None <=> events'[i].action = "transferCustody"
               /\ Committed(events[i].prev, events[i].from)'
    <3>1. ASSUME NEW x, x = events[i].prev, NEW r, r = events[i].from, Committed(x, r)
          PROVE  Committed(x, r)'
      BY <1>10, <3>1, CommittedKept DEF Isolated
    <3>2. events'[i] = events[i] /\ Committed(events[i].prev, events[i].from)
      BY <1>7 DEF Isolated, LogOK
    <3>3. Committed(events[i].prev, events[i].from)'
      BY <3>1, <3>2 DEF Committed
    <3>4. events[i].to # None <=> events[i].action = "transferCustody"
      BY DEF Isolated, LogOK
    <3> QED
      BY <3>2, <3>3, <3>4
  <2>2. ASSUME NEW i, i = n
        PROVE  /\ events'[i].to # None <=> events'[i].action = "transferCustody"
               /\ Committed(events[i].prev, events[i].from)'
    BY <1>6, <1>7, <2>2 DEF Committed
  <2> QED
    BY <1>1, <1>7, <2>1, <2>2 DEF LogOK
<1>12. ClientOK(c)'
  <2>1. \A k \in 1..Len(commits) : commits[k] # n
    BY <1>1 DEF Isolated, Types
  <2>2. Active(c)' /\ Locks(c)' = {} /\ ~(HasRead(c)')
    BY <1>5, <1>8 DEF Active, Locks, HasRead
  <2>3. n # Null /\ n \in 1..Len(events')
    BY <1>1, <1>7 DEF Null
  <2> QED
    BY <1>4, <1>5, <1>8, <2>1, <2>2, <2>3 DEF ClientOK
<1>13. \A d \in Clients : Active(d) => tx[d].event # n
  BY <1>1 DEF Isolated, ClientOK, Types
<1> QED
  BY <1>5, <1>8, <1>10, <1>11, <1>12, <1>13, StepOK DEF Locks

\* What a transaction wrote first.
LEMMA UpdatedIs ==
  ASSUME Isolated, NEW c \in Clients, Active(c), Locks(c) = {}
  PROVE  /\ Updated(c, Own(c)) \in Row
         /\ Updated(c, Own(c)).onhand = rows[Own(c).from].onhand + Change(Own(c))
         /\ Updated(c, Own(c)).prev = tx[c].event
<1>1. PICK e : e = Own(c)
  OBVIOUS
<1>2. e \in EventRows /\ e.from \in Resources /\ e.receiver \in Agents /\ tx[c].event \in Nat
  BY <1>1, OwnTypes DEF Isolated, EventRows, Types
<1>3. PICK row \in Row : row = rows[e.from]
  BY <1>2 DEF Isolated, Types
<1>4. Latest(c, e.from) = row
  BY <1>3 DEF Latest
<1>5. row.onhand \in Int /\ row.custodian \in Agents
  BY DEF Row
<1>6. row.onhand + Change(e) \in Int
  <2>1. Change(e) \in Int
    BY <1>2, EffectTypes
  <2> QED
    BY <1>5, <2>1
<1>7. PICK a \in Agents : a = IF e.action = "transferCustody" THEN e.receiver ELSE row.custodian
  BY <1>2, <1>5
<1>8. Updated(c, e) = [onhand |-> row.onhand + Change(e), custodian |-> a, prev |-> tx[c].event]
  BY <1>4, <1>7 DEF Updated
<1>9. Updated(c, e) \in Row
  BY <1>2, <1>6, <1>8 DEF Row
<1> QED
  BY <1>1, <1>3, <1>8, <1>9

\* The event gets its previous event.
LEMMA WriteEvents ==
  ASSUME Isolated, NEW c \in Clients, Write(c), NEW n, n = tx[c].event
  PROVE  /\ Len(events') = Len(events) /\ events' \in Seq(EventRows)
         /\ \A i \in 1..Len(events) : i # n => events'[i] = events[i]
         /\ SameButPrev(events'[n], events[n])
         /\ Committed(events'[n].prev, events[n].from)
<1>1. Active(c) /\ HasRead(c) /\ ClientOK(c)
  BY DEF Write, Active, HasRead, Isolated
<1>2. n \in 1..Len(events) /\ Own(c) = events[n]
  BY <1>1 DEF ClientOK, Own
<1>3. PICK p : p = tx[c].seen.prev
  OBVIOUS
<1>4. p \in Nat /\ Committed(p, events[n].from)
  BY <1>1, <1>2, <1>3 DEF ClientOK, Row
<1>5. PICK old \in EventRows : old = events[n]
  BY <1>2 DEF Isolated, Types
<1>6. PICK new : new = [old EXCEPT !.prev = p]
  OBVIOUS
<1>7. new \in EventRows /\ new.prev = p /\ SameButPrev(new, old)
  BY <1>4, <1>6 DEF EventRows, SameButPrev
<1>8. events' = [events EXCEPT ![n] = new]
  BY <1>3, <1>5, <1>6 DEF Write, Previous
<1>9. events \in Seq(EventRows)
  BY DEF Isolated, Types
<1>10. /\ events' \in Seq(EventRows) /\ Len(events') = Len(events) /\ events'[n] = new
       /\ \A i \in 1..Len(events) : i # n => events'[i] = events[i]
  BY <1>2, <1>7, <1>8, <1>9
<1> QED
  BY <1>4, <1>5, <1>7, <1>10

LEMMA WriteOK ==
  ASSUME Isolated, NEW c \in Clients, Write(c)
  PROVE  Isolated'
<1>1. Active(c) /\ HasRead(c) /\ ClientOK(c) /\ Locks(c) = {} /\ tx[c] \in Transactions
  BY DEF Write, Active, HasRead, Isolated, ClientOK, Reading, Types
<1>2. PICK n \in 1..Len(events) : n = tx[c].event
  BY <1>1 DEF ClientOK
<1>3. PICK e \in EventRows : e = Own(c) /\ e = events[n]
  BY <1>1, <1>2, OwnTypes DEF Isolated, Own
<1>4. PICK pc \in {"writeTo", "commit"} :
        pc = IF e.action = "transferCustody" THEN "writeTo" ELSE "commit"
  OBVIOUS
<1>5. PICK row \in Row : row = Updated(c, e)
  BY <1>1, <1>3, UpdatedIs
<1>6. row.onhand = rows[e.from].onhand + Change(e) /\ row.prev = n
  BY <1>1, <1>2, <1>3, <1>5, UpdatedIs
<1>7. e.from \in Resources /\ e.to \in Resources \cup {None}
      /\ (e.to # None <=> e.action = "transferCustody")
  BY <1>3 DEF EventRows, Isolated, LogOK
<1>8. PICK w \in [{e.from} -> Row] : w[e.from] = row /\ w = [r \in {e.from} |-> row]
  OBVIOUS
<1>9. PICK s : s = Wrote(tx[c], w, pc)
  OBVIOUS
<1>10. /\ s \in Transactions /\ s.pc = pc /\ s.event = n /\ s.wrote = w
  BY <1>1, <1>2, <1>7, <1>9, Writing
<1>11. tx' = [tx EXCEPT ![c] = s] /\ UNCHANGED <<rows, commits>>
  BY <1>3, <1>4, <1>5, <1>8, <1>9 DEF Write, Wrote
<1>12. /\ Len(events') = Len(events) /\ events' \in Seq(EventRows)
       /\ \A i \in 1..Len(events) : i # n => events'[i] = events[i]
       /\ SameButPrev(events'[n], e)
       /\ Committed(events'[n].prev, e.from)
  BY <1>2, <1>3, WriteEvents
<1>13. Types' /\ tx'[c] = s
  BY <1>10, <1>11, <1>12 DEF Isolated, Types
<1>14. OnlyOwn(c)
  BY <1>2, <1>3, <1>11, <1>12 DEF OnlyOwn, Isolated, Types, SameButPrev
<1>15. LogOK'
  <2>1. ASSUME NEW i \in 1..Len(events)
        PROVE  /\ events'[i].to # None <=> events'[i].action = "transferCustody"
               /\ Committed(events[i].prev, events[i].from)'
    <3>1. ASSUME NEW x, NEW r, Committed(x, r)
          PROVE  Committed(x, r)'
      BY <1>14, <3>1, CommittedKept DEF Isolated
    <3>2. PICK x : x = events'[i].prev
      OBVIOUS
    <3>3. PICK r : r = events'[i].from
      OBVIOUS
    <3>4. Committed(x, r) /\ (events'[i].to # None <=> events'[i].action = "transferCustody")
      <4>1. CASE i = n
        BY <1>7, <1>12, <3>2, <3>3, <4>1 DEF SameButPrev
      <4>2. CASE i # n
        BY <1>12, <3>2, <3>3, <4>2 DEF Isolated, LogOK
      <4> QED
        BY <4>1, <4>2
    <3>5. Committed(x, r)'
      BY <3>1, <3>4
    <3> QED
      BY <3>2, <3>3, <3>4, <3>5 DEF Committed
  <2> QED
    BY <1>12, <2>1 DEF LogOK
<1>16. /\ Active(c)' /\ Locks(c)' = {e.from} /\ tx'[c].event = n /\ tx'[c].wrote = w
       /\ tx'[c].pc = pc
  BY <1>8, <1>10, <1>13 DEF Active, Locks
<1>17. ClientOK(c)'
  <2>1. PICK f : f = events'[n]
    OBVIOUS
  <2>2. Own(c)' = f /\ SameButPrev(f, e)
    BY <1>12, <1>16, <2>1 DEF Own
  <2>3. f.from = e.from /\ f.to = e.to /\ f.action = e.action
        /\ Change(f) = Change(e) /\ \A r : Effect(f, r) = Effect(e, r)
    BY <2>2, SameEffect DEF SameButPrev
  <2>4. /\ n # Null /\ n \in 1..Len(events')
        /\ \A k \in 1..Len(commits') : commits'[k] # n
    BY <1>1, <1>2, <1>11, <1>12 DEF ClientOK
  <2>5. pc = "writeTo" =>
          /\ f.action = "transferCustody" /\ w[f.from].onhand = rows'[f.from].onhand + Change(f)
          /\ w[f.from].prev = n
    BY <1>4, <1>6, <1>8, <1>11, <2>3
  <2>6. pc = "commit" =>
          /\ {e.from} = {f.from} \cup ({f.to} \ {None})
          /\ w[e.from].onhand = rows'[e.from].onhand + Effect(f, e.from)
          /\ w[e.from].prev = n
    <3>1. SUFFICES ASSUME pc = "commit" PROVE e.to = None /\ Effect(e, e.from) = Change(e)
      BY <1>6, <1>8, <1>11, <2>3
    <3>2. e.to = None /\ e.from # None
      BY <1>4, <1>7, <3>1, NoneAssumption
    <3>3. Change(e) \in Int
      BY EffectTypes
    <3> QED
      BY <3>2, <3>3 DEF Effect
  <2>7. pc \notin Reading /\ ~(HasRead(c)')
    BY <1>4, <1>16 DEF Reading, HasRead
  <2> QED
    BY <1>16, <2>2, <2>3, <2>4, <2>5, <2>6, <2>7 DEF ClientOK
<1>18. \A d \in Clients \ {c} : Active(d) => n # tx[d].event
  BY <1>1, <1>2 DEF Isolated, Apart
<1>19. \A d \in Clients \ {c} : Locks(c)' \cap Locks(d) = {}
  BY <1>3, <1>16 DEF Write, Free
<1> QED
  BY <1>13, <1>14, <1>15, <1>16, <1>17, <1>18, <1>19, StepOK

LEMMA WriteToOK ==
  ASSUME Isolated, NEW c \in Clients, WriteTo(c)
  PROVE  Isolated'
<1>1. Active(c) /\ ClientOK(c) /\ tx[c].pc = "writeTo" /\ tx[c] \in Transactions
  BY DEF WriteTo, Active, Isolated, Types
<1>2. PICK e \in EventRows : e = Own(c)
  BY <1>1, OwnTypes DEF Isolated
<1>3. PICK n \in 1..Len(events) : n = tx[c].event
  BY <1>1 DEF ClientOK
<1>4. e = events[n]
  BY <1>2, <1>3 DEF Own
<1>5. PICK from \in Resources : from = e.from
  BY DEF EventRows
<1>6. PICK to \in Resources : to = e.to
  BY <1>1, <1>2, <1>3, <1>4 DEF ClientOK, Isolated, LogOK, EventRows
<1>7. PICK q \in Nat : q = e.quantity
  BY DEF EventRows
<1>8. PICK old : old = tx[c].wrote
  OBVIOUS
<1>9. DOMAIN old = {from} /\ old[from] \in Row
      /\ old[from].onhand = rows[from].onhand + Change(e) /\ old[from].prev = n
  BY <1>1, <1>2, <1>3, <1>5, <1>8, WroteTypes DEF ClientOK, Locks
<1>10. rows[from] \in Row /\ rows[to] \in Row
  BY DEF Isolated, Types
<1>11. PICK base \in Row : base = Latest(c, to) /\ base = IF to = from THEN old[from] ELSE rows[to]
  BY <1>8, <1>9, <1>10 DEF Latest, Locks
<1>12. PICK row : row = [base EXCEPT !.onhand = @ + q]
  OBVIOUS
<1>13. row \in Row /\ row.onhand = base.onhand + q /\ row.prev = base.prev
  <2>1. base.onhand + q \in Int
    BY DEF Row
  <2> QED
    BY <1>12, <2>1 DEF Row
<1>14. PICK w : w = [r \in {from, to} |-> IF r = to THEN row ELSE old[r]]
  OBVIOUS
<1>15. w \in [{from, to} -> Row]
  BY <1>9, <1>13, <1>14
<1>16. PICK s : s = Wrote(tx[c], w, "commit")
  OBVIOUS
<1>17. s \in Transactions /\ s.pc = "commit" /\ s.event = n /\ s.wrote = w
  <2>1. {from, to} \in SUBSET Resources
    OBVIOUS
  <2>2. PICK pc \in {"writeTo", "commit"} : pc = "commit"
    OBVIOUS
  <2>3. s = Wrote(tx[c], w, pc) /\ tx[c] \in Transactions
    BY <1>1, <1>16, <2>2
  <2>4. s \in Transactions /\ s.pc = pc /\ s.event = tx[c].event /\ s.wrote = w
    <3>1. PICK S \in SUBSET Resources : S = {from, to}
      BY <2>1
    <3>2. PICK v \in [S -> Row] : v = w
      BY <1>15, <3>1
    <3>3. s = Wrote(tx[c], v, pc) /\ tx[c] \in Transactions
      BY <2>3, <3>2
    <3>4. PICK t \in Transactions : t = tx[c]
      BY <2>3
    <3>5. s = Wrote(t, v, pc)
      BY <3>3, <3>4
    <3>6. s \in Transactions /\ s.pc = pc /\ s.event = t.event /\ s.wrote = v
      BY <3>5, Writing
    <3> QED
      BY <3>2, <3>4, <3>6
  <2> QED
    BY <1>3, <2>2, <2>4
<1>18. tx' = [tx EXCEPT ![c] = s] /\ UNCHANGED <<rows, events, commits>>
  <2>1. Locks(c) = {from}
    BY <1>8, <1>9 DEF Locks
  <2>2. [x \in Locks(c) \cup {to} |-> IF x = to THEN row ELSE tx[c].wrote[x]] = w
    BY <1>8, <1>14, <2>1
  <2>3. UNCHANGED <<rows, events, commits>>
        /\ tx' = [tx EXCEPT ![c].wrote = [x \in Locks(c) \cup {to} |->
                                             IF x = to THEN row ELSE @[x]],
                            ![c].pc = "commit"]
    BY <1>2, <1>6, <1>7, <1>11, <1>12 DEF WriteTo
  <2>4. tx' = [tx EXCEPT ![c] = [tx[c] EXCEPT !.wrote = [x \in Locks(c) \cup {to} |->
                                                   IF x = to THEN row ELSE tx[c].wrote[x]],
                                              !.pc = "commit"]]
    BY <2>3
  <2> QED
    BY <1>16, <2>2, <2>3, <2>4 DEF Wrote
<1>19. /\ OnlyOwn(c) /\ Types' /\ LogOK' /\ tx'[c] = s
  BY <1>17, <1>18, LogStays
<1>20. /\ Active(c)' /\ Locks(c)' = {from, to} /\ Own(c)' = e
  BY <1>4, <1>15, <1>17, <1>18, <1>19 DEF Active, Locks, Own
<1>21. from # None /\ to # None
  BY NoneAssumption
<1>22. ASSUME NEW r \in {from, to}
       PROVE  /\ w[r].onhand = rows[r].onhand + Effect(e, r)
              /\ w[r].prev = IF r = from THEN n ELSE rows[r].prev
  <2>1. Effect(e, r) = (IF from = r THEN Change(e) ELSE 0) + (IF to = r THEN q ELSE 0)
    BY <1>5, <1>6, <1>7 DEF Effect
  <2>2. Change(e) \in Int /\ rows[from].onhand \in Int /\ rows[to].onhand \in Int
    BY <1>10, EffectTypes DEF Row
  <2>3. CASE r = to /\ to = from
    BY <1>9, <1>11, <1>13, <1>14, <2>1, <2>2, <2>3
  <2>4. CASE r = to /\ to # from
    BY <1>11, <1>13, <1>14, <2>1, <2>2, <2>4
  <2>5. CASE r # to
    BY <1>9, <1>14, <2>1, <2>2, <2>5
  <2> QED
    BY <2>3, <2>4, <2>5
<1>23. ClientOK(c)'
  <2>1. ~(HasRead(c)') /\ tx'[c].pc \notin Reading
    BY <1>17, <1>19 DEF HasRead, Reading
  <2>2. {from, to} = {e.from} \cup ({e.to} \ {None})
    BY <1>5, <1>6, <1>21
  <2>3. /\ n # Null /\ n \in 1..Len(events') /\ \A k \in 1..Len(commits') : commits'[k] # n
    BY <1>1, <1>3, <1>18 DEF ClientOK
  <2> QED
    BY <1>5, <1>17, <1>18, <1>19, <1>20, <1>22, <2>1, <2>2, <2>3 DEF ClientOK
<1>24. \A d \in Clients \ {c} : Active(d) => n # tx[d].event
  BY <1>1, <1>3 DEF Isolated, Apart
<1>25. \A d \in Clients \ {c} : Locks(c)' \cap Locks(d) = {}
  <2>1. \A d \in Clients \ {c} : {from} \cap Locks(d) = {}
    BY <1>8, <1>9 DEF Isolated, Apart, Locks
  <2>2. \A d \in Clients \ {c} : to \notin Locks(d)
    BY <1>2, <1>6 DEF WriteTo, Free
  <2> QED
    BY <1>20, <2>1, <2>2
<1> QED
  BY <1>17, <1>19, <1>20, <1>23, <1>24, <1>25, StepOK

\* A commit changes the rows by the effect of its event.
LEMMA CommitRows ==
  ASSUME Isolated, NEW c \in Clients, Commit(c), NEW r \in Resources
  PROVE  /\ rows'[r] \in Row
         /\ rows'[r].onhand = rows[r].onhand + Effect(Own(c), r)
         /\ rows'[r].prev = IF r = Own(c).from THEN tx[c].event ELSE rows[r].prev
         /\ r \notin Locks(c) => rows'[r] = rows[r]
<1>1. Active(c) /\ ClientOK(c) /\ tx[c].pc = "commit" /\ tx[c] \in Transactions
  BY DEF Commit, Active, Isolated, Types
<1>2. PICK e \in EventRows : e = Own(c)
  BY <1>1, OwnTypes DEF Isolated
<1>3. rows'[r] = Latest(c, r)
  BY DEF Commit
<1>4. CASE r \in Locks(c)
  <2>1. rows'[r] = tx[c].wrote[r]
    BY <1>3, <1>4 DEF Latest
  <2> QED
    BY <1>1, <1>4, <2>1, WroteTypes DEF ClientOK, Locks
<1>5. CASE r \notin Locks(c)
  <2>1. rows'[r] = rows[r] /\ rows[r] \in Row
    BY <1>3, <1>5 DEF Latest, Isolated, Types
  <2>2. r # e.from /\ r # e.to
    BY <1>1, <1>2, <1>5, NoneAssumption DEF ClientOK
  <2>3. Effect(e, r) = 0 /\ rows[r].onhand \in Int
    BY <2>1, <2>2 DEF Effect, Row
  <2> QED
    BY <1>2, <2>1, <2>2, <2>3
<1> QED
  BY <1>4, <1>5

LEMMA CommitOK ==
  ASSUME Isolated, NEW c \in Clients, Commit(c)
  PROVE  Isolated'
<1>1. Active(c) /\ ClientOK(c) /\ tx[c].event \in 1..Len(events)
  BY DEF Commit, Active, Isolated, ClientOK
<1>2. PICK m \in Nat : m = Len(commits)
  BY DEF Isolated, Types
<1>3. /\ commits' \in Seq(Nat) /\ Len(commits') = m + 1 /\ commits'[m + 1] = tx[c].event
      /\ \A k \in 1..m : commits'[k] = commits[k]
  <2>1. commits \in Seq(Nat) /\ tx[c].event \in Nat /\ commits' = Append(commits, tx[c].event)
    BY <1>1 DEF Isolated, Types, Commit
  <2> QED
    BY <1>2, <2>1, OneMore
<1>4. rows' \in [Resources -> Row]
  <2>1. rows' = [r \in Resources |-> Latest(c, r)] /\ \A r \in Resources : rows'[r] \in Row
    BY CommitRows DEF Commit
  <2> QED
    BY <2>1
<1>5. /\ tx' = [tx EXCEPT ![c] = Idle] /\ UNCHANGED events
  BY DEF Commit
<1>6. \A k \in 1..(m + 1) : commits'[k] \in 1..Len(events')
  <2>1. \A k \in 1..m : commits[k] \in 1..Len(events)
    BY <1>2 DEF Isolated, Types
  <2>2. \A k \in 1..(m + 1) : k \in 1..m \/ k = m + 1
    OBVIOUS
  <2> QED
    BY <1>1, <1>3, <1>5, <2>1, <2>2
<1>7. Types' /\ tx'[c] = Idle
  BY <1>3, <1>4, <1>5, <1>6, IdleIs DEF Isolated, Types
<1>8. OnlyOwn(c)
  <2>1. \A r \in Resources \ Locks(c) : rows'[r] = rows[r]
    BY CommitRows
  <2>2. \A d \in Clients \ {c} : tx'[d] = tx[d]
    BY <1>5 DEF Isolated, Types
  <2>3. /\ Len(commits') \in Nat /\ Len(commits) <= Len(commits')
        /\ \A k \in 1..Len(commits) : commits'[k] = commits[k]
        /\ \A k \in 1..Len(commits') : k <= Len(commits) \/ commits'[k] = tx[c].event
    BY <1>2, <1>3
  <2>4. Len(events) \in Nat
    BY DEF Isolated, Types
  <2> QED
    BY <1>5, <2>1, <2>2, <2>3, <2>4 DEF OnlyOwn, SameButPrev
<1>9. LogOK'
  <2>1. ASSUME NEW i \in 1..Len(events)
        PROVE  Committed(events[i].prev, events[i].from)'
    <3>1. ASSUME NEW x, NEW r, Committed(x, r)
          PROVE  Committed(x, r)'
      BY <1>8, <3>1, CommittedKept DEF Isolated
    <3>2. PICK x : x = events[i].prev
      OBVIOUS
    <3>3. PICK r : r = events[i].from
      OBVIOUS
    <3>4. Committed(x, r)'
      BY <3>1, <3>2, <3>3 DEF Isolated, LogOK
    <3> QED
      BY <1>5, <3>2, <3>3, <3>4 DEF Committed
  <2> QED
    BY <1>5, <2>1 DEF Isolated, LogOK
<1>10. ~(Active(c)') /\ Locks(c)' = {} /\ tx'[c].event = Null /\ tx'[c].pc = "idle"
  BY <1>7, IdleIs DEF Active, Locks
<1>11. ClientOK(c)'
  BY <1>10 DEF ClientOK, HasRead
<1> QED
  BY <1>7, <1>8, <1>9, <1>10, <1>11, StepOK

-----------------------------------------------------------------------------
(* Types and isolation *)

\* The commits and events in the terms of the properties.
LEMMA Ids ==
  ASSUME Types
  PROVE  /\ DOMAIN commits = 1..Len(commits) /\ DOMAIN events = 1..Len(events)
         /\ Len(commits) \in Nat /\ Len(events) \in Nat
         /\ \A r : \A k : k \in Through(r) <=> k \in 1..Len(commits) /\ events[commits[k]].from = r
BY DEF Types, Through

LEMMA LinkedRows ==
  ASSUME Types, LinksGoBack
  PROVE  RowsLinked
BY Ids DEF RowsLinked, LinksGoBack, Committed

LEMMA InitOK ==
  ASSUME Init
  PROVE  Isolated /\ LinksGoBack /\ QuantitiesFollowCommits
<1>1. /\ events = <<>> /\ commits = <<>> /\ Len(events) = 0 /\ Len(commits) = 0
      /\ events \in Seq(EventRows) /\ commits \in Seq(Nat)
  BY DEF Init
<1>2. rows \in [Resources -> Row] /\ \A r \in Resources : rows[r].prev = Null /\ rows[r].onhand = InitialOnhand
  <2>1. rows \in [Resources -> [onhand: {InitialOnhand}, custodian: Agents, prev: {Null}]]
    BY DEF Init
  <2>2. \A r \in Resources : rows[r] \in [onhand: {InitialOnhand}, custodian: Agents, prev: {Null}]
    BY <2>1
  <2>3. \A r \in Resources : rows[r] \in Row /\ rows[r].prev = Null /\ rows[r].onhand = InitialOnhand
    BY <2>2, QuantitiesAssumption DEF Row, Null
  <2> QED
    BY <2>1, <2>3
<1>3. tx \in [Clients -> Transactions] /\ \A c \in Clients : tx[c] = Idle
  BY IdleIs DEF Init
<1>4. Types
  BY <1>1, <1>2, <1>3 DEF Types
<1>5. \A c \in Clients : ~Active(c) /\ Locks(c) = {} /\ tx[c].event = Null /\ tx[c].pc = "idle"
  BY <1>3, IdleIs DEF Active, Locks
<1>6. \A c \in Clients : ClientOK(c)
  BY <1>5 DEF ClientOK, HasRead
<1>7. Isolated
  BY <1>1, <1>4, <1>5, <1>6 DEF Isolated, LogOK, Apart
<1>8. LinksGoBack
  BY <1>1, <1>2, <1>4, Ids DEF LinksGoBack
<1>9. QuantitiesFollowCommits
  BY <1>1, <1>2, SumToStep, QuantitiesAssumption DEF QuantitiesFollowCommits
<1> QED
  BY <1>7, <1>8, <1>9

LEMMA NextOK ==
  ASSUME Isolated, LinksGoBack, Next
  PROVE  Isolated'
<1>1. PICK c \in Clients : Insert(c) \/ Proceed(c) \/ Write(c) \/ WriteTo(c) \/ Lose(c)
  BY DEF Next
<1>2. RowsLinked
  BY LinkedRows DEF Isolated
<1>3. CASE Insert(c)
  BY <1>3, InsertOK
<1>4. CASE ReadRow(c) \/ ReadPrev(c)
  BY <1>2, <1>4, ReadRowOK, ReadPrevOK
<1>5. CASE ReadPair(c) \/ CheckSingle(c)
  BY <1>5, ChecksOK
<1>6. CASE Refuse(c) \/ BreakDeadlock(c) \/ Lose(c)
  BY <1>6, EndsOK DEF Refuse, BreakDeadlock, Lose
<1>7. CASE Write(c) \/ WriteTo(c)
  BY <1>7, WriteOK, WriteToOK
<1>8. CASE Commit(c)
  BY <1>8, CommitOK
<1> QED
  BY <1>1, <1>3, <1>4, <1>5, <1>6, <1>7, <1>8 DEF Proceed

\* Either a step commits, or rows, commits and what the committed events say
\* stay as they are.
Commits == \E c \in Clients : Commit(c)

CommitsNothing ==
  /\ UNCHANGED <<rows, commits>>
  /\ \A k \in 1..Len(commits) : events'[commits[k]] = events[commits[k]]

LEMMA OnlyCommits ==
  ASSUME Isolated, Next
  PROVE  Commits \/ CommitsNothing
<1>1. PICK c \in Clients : Insert(c) \/ Proceed(c) \/ Write(c) \/ WriteTo(c) \/ Lose(c)
  BY DEF Next
<1>2. \A k \in 1..Len(commits) : commits[k] \in 1..Len(events)
  BY DEF Isolated, Types
<1>3. CASE Insert(c)
  <2>1. PICK e \in Requests : events' = Append(events, e)
    BY <1>3 DEF Insert
  <2>2. e \in EventRows /\ events \in Seq(EventRows)
    BY RequestRows DEF Isolated, Types
  <2>3. \A i \in 1..Len(events) : events'[i] = events[i]
    BY <2>1, <2>2, OneMore
  <2> QED
    BY <1>2, <1>3, <2>3 DEF Insert, CommitsNothing
<1>4. CASE Write(c)
  <2>1. Active(c) /\ ClientOK(c)
    BY <1>4 DEF Write, Active, Isolated
  <2>2. PICK n : n = tx[c].event
    OBVIOUS
  <2>3. \A i \in 1..Len(events) : i # n => events'[i] = events[i]
    BY <1>4, <2>2, WriteEvents
  <2>4. \A k \in 1..Len(commits) : commits[k] # n
    BY <2>1, <2>2 DEF ClientOK
  <2> QED
    BY <1>2, <1>4, <2>3, <2>4 DEF Write, CommitsNothing
<1>5. CASE Commit(c)
  BY <1>5 DEF Commits
<1>6. CASE UNCHANGED <<rows, events, commits>>
  BY <1>6 DEF CommitsNothing
<1> QED
  BY <1>1, <1>3, <1>4, <1>5, <1>6 DEF Proceed, ReadRow, ReadPair, CheckSingle, ReadPrev,
     Refuse, BreakDeadlock, WriteTo, Lose, Goto

-----------------------------------------------------------------------------
(* Links *)

LEMMA NoCommitLinks ==
  ASSUME Isolated, Types', LinksGoBack, CommitsNothing
  PROVE  LinksGoBack'
<1>1. \A r : \A k : k \in Through(r)' <=> k \in Through(r)
  BY Ids DEF Isolated, CommitsNothing, Types, Through
<1>2. DOMAIN commits' = DOMAIN commits /\ rows' = rows /\ commits' = commits
  BY DEF CommitsNothing
<1>3. \A k \in DOMAIN commits : events'[commits[k]] = events[commits[k]]
  BY Ids DEF Isolated, CommitsNothing
<1> QED
  BY <1>1, <1>2, <1>3 DEF LinksGoBack

LEMMA CommitLinks ==
  ASSUME Isolated, Types', LinksGoBack, NEW c \in Clients, Commit(c)
  PROVE  LinksGoBack'
<1>1. PICK m \in Nat : m = Len(commits)
  BY Ids DEF Isolated
<1>2. PICK n \in 1..Len(events) : n = tx[c].event
  BY DEF Commit, Isolated, ClientOK, Active
<1>3. PICK e : e = events[n]
  OBVIOUS
<1>4. Own(c) = e
  BY <1>2, <1>3 DEF Own
<1>5. /\ Len(commits') = m + 1 /\ commits'[m + 1] = n
      /\ \A k \in 1..m : commits'[k] = commits[k]
  <2>1. commits \in Seq(Nat) /\ n \in Nat /\ commits' = Append(commits, n)
    BY <1>2 DEF Isolated, Types, Commit
  <2> QED
    BY <1>1, <2>1, OneMore
<1>6. events' = events
  BY DEF Commit
<1>7. /\ DOMAIN commits' = 1..(m + 1) /\ DOMAIN commits = 1..m
      /\ \A k \in 1..(m + 1) : k \in 1..m \/ k = m + 1
  BY <1>1, <1>5, Ids DEF Isolated, Types
<1>8. \A r : \A k : k \in Through(r)' <=> (k \in Through(r) \/ (k = m + 1 /\ e.from = r))
  BY <1>3, <1>5, <1>6, <1>7 DEF Through
<1>9. \A r : \A k \in Through(r) : k \in 1..m
  BY <1>7 DEF Through
<1>10. ASSUME NEW r \in Resources
       PROVE  \/ rows'[r].prev = Null /\ Through(r)' = {}
              \/ \E k \in Through(r)' : /\ rows'[r].prev = commits'[k]
                                        /\ \A j \in Through(r)' : j <= k
  <2>1. rows'[r].prev = IF r = e.from THEN n ELSE rows[r].prev
    BY <1>2, <1>4, CommitRows
  <2>2. CASE r = e.from
    BY <1>5, <1>8, <1>9, <2>1, <2>2
  <2>3. CASE r # e.from
    <3>1. \A k : k \in Through(r)' <=> k \in Through(r)
      BY <1>8, <2>3
    <3>2. \/ rows[r].prev = Null /\ Through(r) = {}
          \/ \E k \in Through(r) : rows[r].prev = commits[k] /\ \A j \in Through(r) : j <= k
      BY DEF LinksGoBack
    <3> QED
      BY <1>5, <1>9, <2>1, <2>3, <3>1, <3>2
  <2> QED
    BY <2>2, <2>3
<1>11. ASSUME NEW k \in 1..(m + 1), NEW f, f = events[commits'[k]]
       PROVE  f.prev = Null \/ \E j \in Through(f.from)' : j < k /\ f.prev = commits'[j]
  <2>1. CASE k \in 1..m
    <3>1. f = events[commits[k]]
      BY <1>5, <1>11, <2>1
    <3>2. f.prev = Null \/ \E j \in Through(f.from) : j < k /\ f.prev = commits[j]
      BY <1>7, <2>1, <3>1 DEF LinksGoBack
    <3> QED
      BY <1>5, <1>8, <1>9, <3>2
  <2>2. CASE k = m + 1
    <3>1. f = e
      BY <1>3, <1>5, <1>11, <2>2
    <3>2. Committed(e.prev, e.from)
      BY <1>3 DEF Isolated, LogOK
    <3>3. CASE e.prev # Null
      <4>1. PICK j \in 1..m : e.prev = commits[j] /\ events[commits[j]].from = e.from
        BY <1>1, <3>2, <3>3 DEF Committed
      <4>2. j \in Through(e.from)' /\ j < k /\ e.prev = commits'[j]
        BY <1>5, <1>6, <1>7, <2>2, <4>1 DEF Through
      <4> QED
        BY <3>1, <4>2
    <3> QED
      BY <3>1, <3>3
  <2> QED
    BY <1>7, <2>1, <2>2
<1> QED
  BY <1>6, <1>7, <1>10, <1>11 DEF LinksGoBack

\* Isolation holds of all that the clients interleave.
LEMMA AlwaysIsolated == Spec => [](Isolated /\ LinksGoBack)
<1>1. Isolated /\ LinksGoBack /\ [Next]_vars => (Isolated /\ LinksGoBack)'
  <2>1. ASSUME Isolated, LinksGoBack, Next
        PROVE  Isolated' /\ LinksGoBack'
    <3>1. Isolated' /\ Types'
      BY <2>1, NextOK DEF Isolated
    <3> QED
      BY <2>1, <3>1, OnlyCommits, NoCommitLinks, CommitLinks DEF Commits
  <2>2. ASSUME Isolated, LinksGoBack, UNCHANGED vars
        PROVE  Isolated' /\ LinksGoBack'
    <3>1. rows' = rows /\ events' = events /\ commits' = commits /\ tx' = tx
      BY <2>2 DEF vars
    <3>2. Types' /\ LogOK' /\ Apart'
      BY <2>2, <3>1 DEF Isolated, Types, LogOK, Apart, Committed, Active, Locks
    <3>3. \A c \in Clients : ClientOK(c)'
      BY <2>2, <3>1 DEF Isolated, ClientOK, HasRead, Own, Active, Locks, Committed
    <3>4. CommitsNothing
      BY <3>1 DEF CommitsNothing
    <3> QED
      BY <2>2, <3>2, <3>3, <3>4, NoCommitLinks DEF Isolated
  <2> QED
    BY <2>1, <2>2
<1> QED
  BY <1>1, InitOK, PTL DEF Spec

\* However the statements of transactions interleave, the previous event of a
\* resource is the last one committed through it, and that of an event is one
\* committed earlier through the same resource.
THEOREM LinksAlwaysGoBack == Spec => []LinksGoBack
BY AlwaysIsolated, PTL

\* Rows keep their types, what is committed was inserted, and only
\* transactions that write hold locks.
THEOREM TransactionTypes == Spec => []TypeOK
<1>1. Isolated => TypeOK
  <2> SUFFICES ASSUME Isolated PROVE TypeOK
    OBVIOUS
  <2>1. DOMAIN events = 1..Len(events) /\ DOMAIN commits = 1..Len(commits) /\ Len(events) \in Nat
    BY Ids DEF Isolated
  <2>2. Range(commits) \subseteq DOMAIN events
    BY <2>1 DEF Isolated, Types, Range
  <2>3. \A i \in DOMAIN events : events[i].prev \in 0..Len(events)
    BY <2>1 DEF Isolated, Types, LogOK, Committed, Null
  <2>4. ASSUME NEW c \in Clients
        PROVE  /\ tx[c].event \in DOMAIN events \cup {Null}
               /\ Active(c) <=> tx[c].event # Null
               /\ Locks(c) # {} => tx[c].pc \in {"writeTo", "commit"}
    <3>1. ClientOK(c) /\ tx[c] \in Transactions
      BY DEF Isolated, Types
    <3> QED
      BY <2>1, <3>1 DEF ClientOK, Transactions
  <2> QED
    BY <2>2, <2>3, <2>4 DEF TypeOK, Isolated, Types
<1> QED
  BY <1>1, AlwaysIsolated, PTL

-----------------------------------------------------------------------------
(* Quantities *)

\* What the commits so far add to resource r.
Replayed(r) == SumTo(Len(commits), [k \in DOMAIN commits |-> Effect(events[commits[k]], r)])

LEMMA ReplayedIs ==
  /\ QuantitiesFollowCommits
       <=> \A r \in Resources : rows[r].onhand = InitialOnhand + Replayed(r)
  /\ QuantitiesFollowCommits'
       <=> \A r \in Resources : rows'[r].onhand = InitialOnhand + Replayed(r)'
BY DEF QuantitiesFollowCommits, Replayed

LEMMA ReplayedGrows ==
  ASSUME Isolated, Types', NEW c \in Clients, Commit(c), NEW r
  PROVE  Replayed(r)' = Replayed(r) + Effect(Own(c), r) /\ Replayed(r) \in Int
<1>1. PICK m \in Nat : m = Len(commits)
  BY Ids DEF Isolated
<1>2. PICK n \in 1..Len(events) : n = tx[c].event /\ Own(c) = events[n]
  BY DEF Commit, Isolated, ClientOK, Active, Own
<1>3. /\ Len(commits') = m + 1 /\ commits'[m + 1] = n
      /\ \A k \in 1..m : commits'[k] = commits[k]
  <2>1. commits \in Seq(Nat) /\ n \in Nat /\ commits' = Append(commits, n)
    BY <1>2 DEF Isolated, Types, Commit
  <2> QED
    BY <1>1, <2>1, OneMore
<1>4. DOMAIN commits' = 1..(m + 1) /\ DOMAIN commits = 1..m /\ events' = events
  BY <1>1, <1>3, Ids DEF Isolated, Types, Commit
<1>5. ASSUME NEW f, f = [k \in 1..m |-> Effect(events[commits[k]], r)],
             NEW g, g = [k \in 1..(m + 1) |-> Effect(events[commits'[k]], r)]
      PROVE  SumTo(m + 1, g) = SumTo(m, f) + Effect(Own(c), r) /\ SumTo(m, f) \in Int
  <2>1. \A k \in 1..m : f[k] = g[k]
    BY <1>3, <1>5
  <2>2. g[m + 1] = Effect(Own(c), r)
    BY <1>2, <1>3, <1>5
  <2>3. \A k \in 1..m : f[k] \in Int
    <3>1. \A k \in 1..m : events[commits[k]] \in EventRows
      BY <1>1 DEF Isolated, Types
    <3> QED
      BY <1>5, <3>1, EffectTypes
  <2> QED
    BY <2>1, <2>2, <2>3, SumToStep, SumToSame, SumToType
<1> QED
  BY <1>1, <1>3, <1>4, <1>5 DEF Replayed

\* No update is lost: however the statements of transactions interleave, the
\* onhand quantity of a resource is the one that a replay of the committed
\* events gives.
THEOREM NoUpdateIsLost == Spec => []QuantitiesFollowCommits
<1>1. Isolated /\ Isolated' /\ QuantitiesFollowCommits /\ [Next]_vars => QuantitiesFollowCommits'
  <2>1. ASSUME Isolated, Isolated', QuantitiesFollowCommits, NEW c \in Clients, Commit(c)
        PROVE  QuantitiesFollowCommits'
    <3>1. ASSUME NEW r \in Resources
          PROVE  rows'[r].onhand = InitialOnhand + Replayed(r)'
      <4>1. rows'[r].onhand = rows[r].onhand + Effect(Own(c), r)
        BY <2>1, CommitRows
      <4>2. Replayed(r)' = Replayed(r) + Effect(Own(c), r) /\ Replayed(r) \in Int
        BY <2>1, ReplayedGrows DEF Isolated
      <4>3. rows[r].onhand = InitialOnhand + Replayed(r)
        BY <2>1, ReplayedIs
      <4>4. Effect(Own(c), r) \in Int
        BY <2>1, OwnTypes, EffectTypes DEF Isolated, Commit, Active
      <4> QED
        BY <4>1, <4>2, <4>3, <4>4, QuantitiesAssumption
    <3> QED
      BY <3>1, ReplayedIs
  <2>2. ASSUME Isolated, QuantitiesFollowCommits, CommitsNothing
        PROVE  QuantitiesFollowCommits'
    <3>1. \A k \in DOMAIN commits : events'[commits[k]] = events[commits[k]]
      BY <2>2, Ids DEF Isolated, CommitsNothing
    <3>2. \A r : Replayed(r)' = Replayed(r)
      BY <2>2, <3>1 DEF Replayed, CommitsNothing
    <3> QED
      BY <2>2, <3>2, ReplayedIs DEF CommitsNothing
  <2>3. UNCHANGED vars => CommitsNothing
    BY DEF vars, CommitsNothing
  <2> QED
    BY <2>1, <2>2, <2>3, OnlyCommits DEF Commits
<1> QED
  BY <1>1, InitOK, AlwaysIsolated, PTL DEF Spec
=============================================================================
