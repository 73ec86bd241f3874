------------------------------ MODULE FileProofs -------------------------------
(***************************************************************************)
(* Images and their owners, for any requests that overlap: references      *)
(* hold, contents in use are kept, owners have the images last named, and  *)
(* persons are verified by verifications.                                  *)
(***************************************************************************)
EXTENDS FileProperties, TLAPS

-----------------------------------------------------------------------------
(* The invariant                                                            *)

Rows == [owner: Persons, hash: Hashes, request: Nat]

Statements ==
  {"idle", "write", "readJoins", "drop", "attach", "insertFile", "join", "readUnused",
   "collect", "delete", "fill", "commit"}

TxType ==
  [pc: Statements, id: Nat, req: Requests \cup {NoRequest}, before: SUBSET Nat,
   seen: SUBSET (Rows \cup Hashes), todo: Seq(Hashes), locked: BOOLEAN,
   inserted: SUBSET Hashes, removed: SUBSET Hashes, filled: SUBSET Hashes,
   added: SUBSET Rows, dropped: SUBSET Rows]

\* Requests that attach images.
Attaches(t) == t.req.op \in {"create", "update", "verify"}

\* Before it attaches anything.
Early == {"write", "readJoins", "drop"}

\* What a transaction has written goes with the statement it is at.
Sound(t) ==
  /\ t.pc = "idle" => t = Idle
  /\ t.pc # "idle" => t.req \in Requests
  /\ t.req.op = "delete" => t.pc = "delete" \/ (t.pc = "commit" /\ t.locked)
  /\ t.req.op = "upload" => t.pc \in {"fill", "commit"}
  /\ Attaches(t) => t.pc \notin {"delete", "fill"}
  /\ t.req.op = "create" => t.pc \notin Early
  /\ t.removed # {} => t.pc = "commit"
  /\ t.filled # {} => t.req.op = "upload" /\ t.pc = "commit"
  /\ t.added # {} => Attaches(t) /\ t.pc \notin Early
  /\ t.inserted # {} => Attaches(t) /\ t.pc \notin Early
  /\ t.req.op = "verify" /\ t.req.touches /\ t.pc # "write" => t.locked
  /\ t.pc = "delete" => ~t.locked
  /\ t.pc \in {"insertFile", "join", "fill"} => t.todo # <<>>
  /\ Attaches(t) /\ t.pc \in {"readUnused", "collect", "commit"} => t.todo = <<>>
  /\ Attaches(t) => HashesOf(t.added) \cup ToSet(t.todo) = ToSet(Images(t.req))
  /\ \A j \in t.added : j.owner = t.req.owner /\ j.request = t.id
  /\ \A j \in t.dropped : j.owner = t.req.owner
  /\ t.pc = "drop" => t.seen \subseteq Rows /\ \A j \in t.seen : j.owner = t.req.owner
  /\ t.pc = "collect" => t.seen \subseteq Hashes

HistoryIds == {e.id : e \in ToSet(history)}

\* Rows of its owner that it has not found come from requests that overlap it.
Clears(t) ==
  Attaches(t) /\ t.pc \notin {"write", "readJoins"} =>
    \A j \in joins :
      /\ j.owner = t.req.owner
      /\ t.pc = "drop" => j \notin t.seen
      /\ t.pc # "drop" => j \notin t.dropped
      => j.request \notin t.before \cup {0}

\* A transaction and what is committed.
Fits(t) ==
  t.pc # "idle" =>
    /\ t.id \in 1..requests /\ t.id \notin HistoryIds /\ t.before \subseteq HistoryIds
    /\ \A j \in t.added : j.hash \in t.inserted \/ files[j.hash] # "none"
    /\ t.added # {} => t.req.op = "create" \/ Exists(t.req.owner)
    /\ t.req.op = "create" => persons[t.req.owner] = "free"
    /\ t.req.op = "delete" /\ t.locked => \A j \in joins : j.owner = t.req.owner => j \in t.dropped
    /\ \A h \in t.removed : \A j \in (joins \ t.dropped) \cup t.added : j.hash # h
    /\ \A h \in t.inserted : files[h] = "none"
    /\ \A h \in t.filled : files[h] # "none"
    /\ t.req.op = "verify" =>
         /\ t.req.owner \in tokens
         /\ ~t.req.touches => persons[t.req.owner] \in {"verified", "deleted"}
    /\ Clears(t)

\* Two transactions: what the locks are for.
Apart(t, u) ==
  t.pc # "idle" /\ u.pc # "idle" =>
    /\ t.id # u.id
    /\ t.req.op = "create" => u.req.owner # t.req.owner
    /\ \A j \in t.added : j.hash \notin u.removed
    /\ t.added # {} /\ u.req.owner = t.req.owner => ~(u.req.op = "delete" /\ u.locked)
    /\ t.inserted \cap u.inserted = {}
    /\ t.filled \cap u.removed = {}

Committed ==
  /\ persons \in [Persons -> {"free", "unverified", "verified", "deleted"}]
  /\ files \in [Hashes -> {"none", "empty", "full"}]
  /\ joins \subseteq Rows
  /\ \A j \in joins : Exists(j.owner) /\ files[j.hash] # "none" /\ j.request \in HistoryIds \cup {0}
  /\ requests \in 0..MaxRequests
  /\ history \in Seq([id: Nat, req: Requests, before: SUBSET Nat])
  /\ HistoryIds \subseteq 1..requests
  /\ tokens \subseteq Persons

Verified ==
  /\ \A i \in DOMAIN history :
       history[i].req.op = "verify" =>
         persons[history[i].req.owner] \in {"verified", "deleted"} /\ history[i].req.owner \in tokens
  /\ \A o \in Persons : persons[o] = "verified" =>
       \E i \in DOMAIN history : history[i].req.owner = o /\ history[i].req.op = "verify"

\* Owner o has the images of the i-th commit, and of requests that overlap it.
HasImagesOf(o, i) ==
  /\ HashesOf({j \in joins : j.owner = o /\ j.request = history[i].id}) = ToSet(Images(history[i].req))
  /\ \A j \in joins : j.owner = o /\ j.request # history[i].id => j.request \notin history[i].before \cup {0}

IsLast(o, i) ==
  /\ i \in DOMAIN history /\ history[i].req.owner = o
  /\ \A k \in DOMAIN history : history[k].req.owner = o => k <= i

Imaged ==
  \A o \in Persons :
    Exists(o) /\ (\E i \in DOMAIN history : history[i].req.owner = o) =>
      \E i \in DOMAIN history : IsLast(o, i) /\ HasImagesOf(o, i)

Transactions ==
  /\ tx \in [Clients -> TxType]
  /\ \A c \in Clients : Sound(tx[c]) /\ Fits(tx[c])
  /\ \A c, d \in Clients : c # d => Apart(tx[c], tx[d])

Inv == Committed /\ Transactions

-----------------------------------------------------------------------------
(* What a statement must leave                                              *)

LEMMA IdleType ==
  Idle \in TxType /\ Sound(Idle) /\ Fits(Idle) /\ \A t : Apart(t, Idle) /\ Apart(Idle, t)
<1>1. Idle \in TxType
  BY DEF Idle, TxType, Statements, NoRequest
<1>2. Sound(Idle)
  BY DEF Sound, Idle, NoRequest, Attaches
<1> QED
  BY <1>1, <1>2 DEF Idle, Fits, Apart

LEMMA SoundNext ==
  ASSUME NEW c, NEW t, t = tx'[c], Sound(t)
  PROVE  Sound(tx[c])'
BY DEF Sound, Attaches, Early

LEMMA FitsNext ==
  ASSUME NEW c, NEW t, t = tx'[c], Fits(t)'
  PROVE  Fits(tx[c])'
BY DEF Fits, Clears, Attaches, Exists

LEMMA ApartNext ==
  ASSUME NEW c, NEW d, NEW t, NEW u, t = tx'[c], u = tx'[d], Apart(t, u)
  PROVE  Apart(tx[c], tx[d])'
BY DEF Apart

\* The rest of the invariant, when transaction c has come to t.
LEMMA StepOK ==
  ASSUME Transactions, NEW c \in Clients, NEW t \in TxType, tx' = [tx EXCEPT ![c] = t],
         Sound(t), Fits(t)',
         \A d \in Clients \ {c} : Fits(tx[d]) => \A u : u = tx[d] => Fits(u)',
         \A d \in Clients \ {c} : Apart(t, tx[d]) /\ Apart(tx[d], t)
  PROVE  Transactions'
<1>1. tx' \in [Clients -> TxType]
  BY DEF Transactions
<1>2. tx'[c] = t /\ \A d \in Clients \ {c} : tx'[d] = tx[d]
  BY DEF Transactions
<1>3. ASSUME NEW d \in Clients PROVE (Sound(tx[d]) /\ Fits(tx[d]))'
  <2>1. CASE d = c
    BY <1>2, <2>1, SoundNext, FitsNext
  <2>2. CASE d # c
    <3>1. PICK u : u = tx[d]
      OBVIOUS
    <3>2. Sound(u) /\ Fits(u)' /\ u = tx'[d]
      BY <1>2, <2>2, <3>1 DEF Transactions
    <3> QED
      BY <3>2, SoundNext, FitsNext
  <2> QED
    BY <2>1, <2>2
<1>4. ASSUME NEW d \in Clients, NEW e \in Clients, d # e PROVE Apart(tx[d], tx[e])'
  <2>1. PICK u, v : u = tx'[d] /\ v = tx'[e]
    OBVIOUS
  <2>2. Apart(u, v)
    BY <1>2, <1>4, <2>1 DEF Transactions
  <2> QED
    BY <2>1, <2>2, ApartNext
<1> QED
  BY <1>1, <1>3, <1>4 DEF Transactions

\* A statement that changes nothing that is committed.
LEMMA LocalOK ==
  ASSUME Inv, NEW c \in Clients, NEW t \in TxType, tx' = [tx EXCEPT ![c] = t],
         UNCHANGED Shared, Sound(t), Fits(t),
         \A d \in Clients \ {c} : Apart(t, tx[d]) /\ Apart(tx[d], t)
  PROVE  Inv'
<1>1. UNCHANGED <<persons, files, joins, requests, history, tokens>>
  BY DEF Shared
<1>2. ASSUME NEW u PROVE Fits(u)' <=> Fits(u)
  BY <1>1 DEF Fits, Clears, HistoryIds, Exists
<1>3. Transactions'
  BY <1>2, StepOK DEF Inv
<1>4. Committed'
  BY <1>1 DEF Inv, Committed, HistoryIds, Exists
<1> QED
  BY <1>3, <1>4 DEF Inv

LEMMA EndsOK ==
  ASSUME Inv, NEW c \in Clients, tx' = [tx EXCEPT ![c] = Idle], UNCHANGED Shared
  PROVE  Inv'
BY IdleType, LocalOK

-----------------------------------------------------------------------------
(* The statements                                                           *)

\* Client c's own transaction, and that of another client.
LEMMA OwnFacts ==
  ASSUME Inv, NEW c \in Clients
  PROVE  /\ tx[c] \in TxType /\ Sound(tx[c]) /\ Fits(tx[c])
         /\ \A d \in Clients \ {c} : /\ tx[d] \in TxType /\ Sound(tx[d]) /\ Fits(tx[d])
                                     /\ Apart(tx[c], tx[d]) /\ Apart(tx[d], tx[c])
BY DEF Inv, Transactions

\* t has written what s has.
SameWrites(s, t) ==
  /\ t.id = s.id /\ t.req = s.req /\ t.before = s.before
  /\ t.inserted = s.inserted /\ t.removed = s.removed /\ t.filled = s.filled /\ t.added = s.added

LEMMA ApartKept ==
  ASSUME NEW s, NEW t, NEW u, s.pc # "idle", SameWrites(s, t),
         s.req.op = "delete" => t.locked = s.locked, Apart(s, u), Apart(u, s)
  PROVE  Apart(t, u) /\ Apart(u, t)
BY DEF Apart, SameWrites

LEMMA FitsKept ==
  ASSUME NEW s, NEW t, s.pc # "idle", SameWrites(s, t), s.req.op # "delete",
         Fits(s), Clears(t), s.removed = {}
  PROVE  Fits(t)
BY DEF Fits, SameWrites

LEMMA WriteOK ==
  ASSUME Inv, NEW c \in Clients, Write(c)
  PROVE  Inv'
<1> DEFINE s == tx[c]
<1>1. PICK t : t = [s EXCEPT !.locked = TRUE, !.pc = "readJoins"]
  OBVIOUS
<1>2. s \in TxType /\ Sound(s) /\ Fits(s) /\ s.pc = "write"
  BY OwnFacts DEF Write
<1>3. tx' = [tx EXCEPT ![c] = t] /\ UNCHANGED Shared
  BY <1>1 DEF Write, Inv, Transactions
<1>4. /\ t \in TxType /\ t.pc = "readJoins" /\ t.locked /\ SameWrites(s, t)
      /\ t.todo = s.todo /\ t.dropped = s.dropped
  BY <1>1, <1>2 DEF TxType, Statements, SameWrites
<1>5. s.req.op # "delete" /\ s.removed = {}
  BY <1>2 DEF Sound
<1>6. Sound(t)
  BY <1>2, <1>4 DEF Sound, SameWrites, Attaches, Early
<1>7. Fits(t)
  BY <1>2, <1>4, <1>5, FitsKept DEF Clears
<1>8. \A d \in Clients \ {c} : Apart(t, tx[d]) /\ Apart(tx[d], t)
  BY <1>2, <1>4, <1>5, OwnFacts, ApartKept
<1> QED
  BY <1>3, <1>4, <1>6, <1>7, <1>8, LocalOK

LEMMA ReadJoinsOK ==
  ASSUME Inv, NEW c \in Clients, ReadJoins(c)
  PROVE  Inv'
<1> DEFINE s == tx[c]
<1>1. PICK rows : rows = OldJoins(c)
  OBVIOUS
<1>2. PICK t : t = [s EXCEPT !.seen = rows, !.pc = "drop"]
  OBVIOUS
<1>3. s \in TxType /\ Sound(s) /\ Fits(s) /\ s.pc = "readJoins"
  BY OwnFacts DEF ReadJoins
<1>4. rows \subseteq Rows /\ \A j : j \in rows <=> j \in joins /\ j.owner = s.req.owner
  BY <1>1 DEF OldJoins, Owner, Inv, Committed
<1>5. tx' = [tx EXCEPT ![c] = t] /\ UNCHANGED Shared
  BY <1>1, <1>2 DEF ReadJoins, Inv, Transactions
<1>6. /\ t \in TxType /\ t.pc = "drop" /\ t.locked = s.locked /\ SameWrites(s, t)
      /\ t.todo = s.todo /\ t.dropped = s.dropped /\ t.seen = rows
  BY <1>2, <1>3, <1>4 DEF TxType, Statements, SameWrites
<1>7. s.req.op # "delete" /\ s.removed = {}
  BY <1>3 DEF Sound
<1>8. Sound(t)
  BY <1>3, <1>4, <1>6 DEF Sound, SameWrites, Attaches, Early
<1>9. Fits(t)
  BY <1>3, <1>4, <1>6, <1>7, FitsKept DEF Clears, SameWrites
<1>10. \A d \in Clients \ {c} : Apart(t, tx[d]) /\ Apart(tx[d], t)
  BY <1>3, <1>6, <1>7, OwnFacts, ApartKept
<1> QED
  BY <1>5, <1>6, <1>8, <1>9, <1>10, LocalOK

LEMMA DropOK ==
  ASSUME Inv, NEW c \in Clients, Drop(c)
  PROVE  Inv'
<1> DEFINE s == tx[c]
<1>1. PICK rows : rows = s.seen \cap joins
  OBVIOUS
<1>2. PICK t : t = [s EXCEPT !.dropped = rows, !.seen = {}, !.pc = "attach"]
  OBVIOUS
<1>3. s \in TxType /\ Sound(s) /\ Fits(s) /\ s.pc = "drop"
  BY OwnFacts DEF Drop
<1>4. rows \subseteq Rows /\ \A j \in rows : j.owner = s.req.owner
  BY <1>1, <1>3 DEF Sound
<1>5. tx' = [tx EXCEPT ![c] = t] /\ UNCHANGED Shared
  BY <1>1, <1>2 DEF Drop, After, Inv, Transactions
<1>6. /\ t \in TxType /\ t.pc = "attach" /\ t.locked = s.locked /\ SameWrites(s, t)
      /\ t.todo = s.todo /\ t.dropped = rows
  BY <1>2, <1>3, <1>4 DEF TxType, Statements, SameWrites
<1>7. s.req.op # "delete" /\ s.removed = {}
  BY <1>3 DEF Sound
<1>8. Sound(t)
  BY <1>3, <1>4, <1>6 DEF Sound, SameWrites, Attaches, Early
<1>9. Clears(t)
  BY <1>1, <1>3, <1>6 DEF Fits, Clears, SameWrites, Attaches
<1>10. Fits(t)
  BY <1>3, <1>6, <1>7, <1>9, FitsKept
<1>11. \A d \in Clients \ {c} : Apart(t, tx[d]) /\ Apart(tx[d], t)
  BY <1>3, <1>6, <1>7, OwnFacts, ApartKept
<1> QED
  BY <1>5, <1>6, <1>8, <1>10, <1>11, LocalOK

\* A transaction that attaches images goes on to another statement.
LEMMA GoesOn ==
  ASSUME Inv, NEW c \in Clients, NEW pc, UNCHANGED Shared,
         \/ pc # "collect" /\ tx' = [tx EXCEPT ![c].pc = pc]
         \/ \E found \in SUBSET Hashes : tx' = [tx EXCEPT ![c].seen = found, ![c].pc = pc],
         Attaches(tx[c]), tx[c].pc \in {"attach", "readUnused"},
         pc \in {"insertFile", "join", "readUnused", "collect"},
         pc \in {"insertFile", "join"} => tx[c].todo # <<>>,
         pc \in {"readUnused", "collect"} => tx[c].todo = <<>>
  PROVE  Inv'
<1> DEFINE s == tx[c]
<1>1. s \in TxType /\ Sound(s) /\ Fits(s)
  BY OwnFacts
<1>2. PICK t : /\ (pc # "collect" /\ t = [s EXCEPT !.pc = pc]) \/ \E found \in SUBSET Hashes : t = [s EXCEPT !.seen = found, !.pc = pc]
               /\ tx' = [tx EXCEPT ![c] = t]
  <2>1. CASE pc # "collect" /\ tx' = [tx EXCEPT ![c].pc = pc]
    BY <2>1
  <2>2. CASE \E found \in SUBSET Hashes : tx' = [tx EXCEPT ![c].seen = found, ![c].pc = pc]
    <3>1. PICK found \in SUBSET Hashes : tx' = [tx EXCEPT ![c].seen = found, ![c].pc = pc]
      BY <2>2
    <3>2. tx' = [tx EXCEPT ![c] = [s EXCEPT !.seen = found, !.pc = pc]]
      BY <3>1 DEF Inv, Transactions
    <3> QED
      BY <3>2
  <2> QED
    BY <2>1, <2>2
<1>3. /\ t \in TxType /\ t.pc = pc /\ t.locked = s.locked /\ SameWrites(s, t)
      /\ t.todo = s.todo /\ t.dropped = s.dropped /\ (pc = "collect" => t.seen \subseteq Hashes)
  <2>1. pc \in Statements
    BY DEF Statements
  <2> QED
    <3>1. CASE pc # "collect" /\ t = [s EXCEPT !.pc = pc]
      BY <1>1, <2>1, <3>1 DEF TxType, SameWrites
    <3>2. ASSUME NEW found \in SUBSET Hashes, t = [s EXCEPT !.seen = found, !.pc = pc]
          PROVE  /\ t \in TxType /\ t.pc = pc /\ t.locked = s.locked /\ SameWrites(s, t)
                 /\ t.todo = s.todo /\ t.dropped = s.dropped /\ (pc = "collect" => t.seen \subseteq Hashes)
      BY <1>1, <2>1, <3>2 DEF TxType, SameWrites
    <3> QED
      BY <1>2, <3>1, <3>2
<1>4. s.req.op # "delete" /\ s.removed = {}
  BY <1>1 DEF Sound, Attaches
<1>5. Sound(t)
  BY <1>1, <1>3 DEF Sound, SameWrites, Attaches, Early
<1>6. Clears(t)
  BY <1>1, <1>3 DEF Fits, Clears, SameWrites, Attaches
<1>7. Fits(t)
  BY <1>1, <1>3, <1>4, <1>6, FitsKept
<1>8. \A d \in Clients \ {c} : Apart(t, tx[d]) /\ Apart(tx[d], t)
  BY <1>1, <1>3, <1>4, OwnFacts, ApartKept
<1> QED
  BY <1>2, <1>3, <1>5, <1>7, <1>8, LocalOK

\* Who is at a statement of an update has images to attach.
LEMMA AtAttach ==
  ASSUME Inv, NEW c \in Clients,
         tx[c].pc \in {"write", "readJoins", "drop", "attach", "insertFile", "join", "readUnused", "collect"}
  PROVE  Attaches(tx[c]) /\ tx[c].req \in Requests
<1>1. Sound(tx[c])
  BY OwnFacts
<1>2. tx[c].req \in Requests /\ tx[c].req.op \notin {"delete", "upload"}
  BY <1>1 DEF Sound
<1> QED
  BY <1>2 DEF Attaches, Requests

LEMMA QuietOK ==
  ASSUME Inv, NEW c \in Clients, LookForFile(c) \/ AllAttached(c) \/ ReadUnused(c)
  PROVE  Inv'
<1>1. CASE LookForFile(c)
  BY <1>1, AtAttach, GoesOn DEF LookForFile, Goto
<1>2. CASE AllAttached(c)
  BY <1>2, AtAttach, GoesOn DEF AllAttached, Goto, After
<1>3. CASE ReadUnused(c)
  <2>1. tx[c].pc = "readUnused" /\ Attaches(tx[c]) /\ tx[c].todo = <<>>
    BY <1>3, AtAttach, OwnFacts DEF ReadUnused, Sound
  <2>2. PICK found \in SUBSET Hashes :
          found = {h \in Hashes : VisibleFile(c, h) /\ h \notin HashesOf(VisibleJoins(c))}
    OBVIOUS
  <2>3. tx' = [tx EXCEPT ![c].seen = found, ![c].pc = "collect"] /\ UNCHANGED Shared
    BY <1>3, <2>2 DEF ReadUnused
  <2> QED
    BY <2>1, <2>3, GoesOn
<1> QED
  BY <1>1, <1>2, <1>3

\* The images of a list that are still to be attached.
LEMMA HeadAndTail ==
  ASSUME NEW S, NEW s \in Seq(S), s # <<>>
  PROVE  Head(s) \in S /\ Tail(s) \in Seq(S) /\ ToSet(s) = {Head(s)} \cup ToSet(Tail(s))
<1>1. /\ Head(s) \in S /\ Tail(s) \in Seq(S) /\ Len(s) \in Nat /\ Len(s) >= 1
      /\ Len(Tail(s)) = Len(s) - 1 /\ Head(s) = s[1]
      /\ \A i \in 1..Len(s) - 1 : Tail(s)[i] = s[i + 1]
  OBVIOUS
<1>2. ToSet(s) = {s[i] : i \in 1..Len(s)} /\ ToSet(Tail(s)) = {Tail(s)[i] : i \in 1..Len(s) - 1}
  <2>1. DOMAIN s = 1..Len(s) /\ DOMAIN Tail(s) = 1..Len(s) - 1
    BY <1>1
  <2> QED
    BY <2>1, Zenon DEF ToSet
<1>3. \A i \in 1..Len(s) : i = 1 \/ (i - 1 \in 1..Len(s) - 1 /\ s[i] = Tail(s)[i - 1])
  BY <1>1
<1>4. ASSUME NEW x PROVE x \in ToSet(s) <=> x = s[1] \/ x \in ToSet(Tail(s))
  <2>1. ASSUME x \in ToSet(s) PROVE x = s[1] \/ x \in ToSet(Tail(s))
    <3>1. PICK i \in 1..Len(s) : x = s[i]
      BY <1>2, <2>1
    <3>2. CASE i = 1
      BY <3>1, <3>2
    <3>3. CASE i # 1
      <4>1. i - 1 \in 1..Len(s) - 1 /\ x = Tail(s)[i - 1]
        BY <1>3, <3>1, <3>3
      <4> QED
        BY <1>2, <4>1, Zenon
    <3> QED
      BY <3>2, <3>3
  <2>2. ASSUME x \in ToSet(Tail(s)) PROVE x \in ToSet(s)
    <3>1. PICK i \in 1..Len(s) - 1 : x = Tail(s)[i]
      BY <1>2, <2>2
    <3>2. i + 1 \in 1..Len(s) /\ x = s[i + 1]
      BY <1>1, <3>1
    <3> QED
      BY <1>2, <3>2
  <2>3. s[1] \in ToSet(s)
    BY <1>1, <1>2
  <2> QED
    BY <2>1, <2>2, <2>3
<1> QED
  BY <1>1, <1>4

\* An image to attach is a file's, and not of a file that another removes.
LEMMA InsertFileOK ==
  ASSUME Inv, NEW c \in Clients, InsertFile(c)
  PROVE  Inv'
<1> DEFINE s == tx[c]
<1>1. s \in TxType /\ Sound(s) /\ Fits(s) /\ s.pc = "insertFile" /\ Attaches(s)
  BY OwnFacts, AtAttach DEF InsertFile
<1>2. s.todo \in Seq(Hashes) /\ s.todo # <<>> /\ s.removed = {} /\ s.filled = {} /\ s.req.op # "delete"
  BY <1>1 DEF Sound, TxType, Attaches
<1>3. PICK h \in Hashes : h = Head(s.todo)
  BY <1>2, HeadAndTail
<1>4. PICK more \in SUBSET Hashes : more = s.inserted \cup {h}
  BY <1>1 DEF TxType
<1>5. PICK t : t = [s EXCEPT !.inserted = more, !.pc = "join"]
  OBVIOUS
<1>6. tx' = [tx EXCEPT ![c] = t] /\ UNCHANGED Shared
  BY <1>3, <1>4, <1>5 DEF InsertFile, Inv, Transactions
<1>7. /\ t \in TxType /\ t.pc = "join" /\ t.locked = s.locked /\ t.todo = s.todo /\ t.dropped = s.dropped
      /\ t.id = s.id /\ t.req = s.req /\ t.before = s.before /\ t.added = s.added
      /\ t.inserted = more /\ t.removed = s.removed /\ t.filled = s.filled
  BY <1>1, <1>5 DEF TxType, Statements
<1>8. files[h] = "none"
  BY <1>2, <1>3 DEF InsertFile, VisibleFile
<1>9. \A d \in Clients \ {c} : h \notin tx[d].inserted
  BY <1>1, <1>3 DEF InsertFile, Served, WaitsFor, Holds
<1>10. Sound(t)
  BY <1>1, <1>7 DEF Sound, Attaches, Early
<1>11. Clears(t)
  BY <1>1, <1>7 DEF Fits, Clears, Attaches
<1>12. Fits(t)
  BY <1>1, <1>2, <1>4, <1>7, <1>8, <1>11 DEF Fits
<1>13. \A d \in Clients \ {c} : Apart(t, tx[d]) /\ Apart(tx[d], t)
  BY <1>1, <1>4, <1>7, <1>9, OwnFacts DEF Apart
<1> QED
  BY <1>6, <1>7, <1>10, <1>12, <1>13, LocalOK

LEMMA HashesOfMore ==
  ASSUME NEW rows, NEW j
  PROVE  HashesOf(rows \cup {j}) = HashesOf(rows) \cup {j.hash}
BY DEF HashesOf

LEMMA InsertJoinOK ==
  ASSUME Inv, NEW c \in Clients, InsertJoin(c)
  PROVE  Inv'
<1> DEFINE s == tx[c]
<1>1. s \in TxType /\ Sound(s) /\ Fits(s) /\ s.pc = "join" /\ Attaches(s) /\ s.req \in Requests
  BY OwnFacts, AtAttach DEF InsertJoin
<1>2. s.todo \in Seq(Hashes) /\ s.todo # <<>> /\ s.removed = {} /\ s.filled = {} /\ s.req.op # "delete"
  BY <1>1 DEF Sound, TxType, Attaches
<1>3. /\ Head(s.todo) \in Hashes /\ Tail(s.todo) \in Seq(Hashes)
      /\ ToSet(s.todo) = {Head(s.todo)} \cup ToSet(Tail(s.todo))
  BY <1>2, HeadAndTail
<1>4. PICK h \in Hashes, rest \in Seq(Hashes) : h = Head(s.todo) /\ rest = Tail(s.todo)
  BY <1>3
<1>5. s.req.owner \in Persons /\ s.id \in Nat
  BY <1>1 DEF Requests, Attaches, TxType
<1>6. PICK j \in Rows : j = Join(s.req.owner, h, s.id)
  BY <1>5 DEF Join, Rows
<1>7. j.owner = s.req.owner /\ j.hash = h /\ j.request = s.id
  BY <1>6 DEF Join
<1>8. PICK more \in SUBSET Rows : more = s.added \cup {j}
  BY <1>1 DEF TxType
<1>9. PICK t : t = [s EXCEPT !.added = more, !.todo = rest, !.pc = "attach"]
  OBVIOUS
<1>10. tx' = [tx EXCEPT ![c] = t] /\ UNCHANGED Shared
  BY <1>4, <1>6, <1>8, <1>9 DEF InsertJoin, Owner, Inv, Transactions
<1>11. /\ t \in TxType /\ t.pc = "attach" /\ t.locked = s.locked /\ t.todo = rest /\ t.dropped = s.dropped
       /\ t.id = s.id /\ t.req = s.req /\ t.before = s.before /\ t.added = more
       /\ t.inserted = s.inserted /\ t.removed = s.removed /\ t.filled = s.filled
  BY <1>1, <1>9 DEF TxType, Statements
<1>12. /\ h \in s.inserted \/ files[h] # "none"
       /\ s.req.op = "create" \/ Exists(s.req.owner)
  BY <1>4 DEF InsertJoin, References, VisibleFile, Owner
<1>13. ASSUME NEW d \in Clients \ {c}
       PROVE  /\ h \notin tx[d].removed
              /\ ~(tx[d].locked /\ tx[d].req.owner = s.req.owner /\ tx[d].req.op = "delete")
  BY <1>1, <1>4 DEF InsertJoin, Served, WaitsFor, Holds, Deletes, Writes, Owner
<1>14. HashesOf(t.added) \cup ToSet(t.todo) = ToSet(Images(t.req))
  <2>1. HashesOf(s.added) \cup ToSet(s.todo) = ToSet(Images(s.req))
    BY <1>1 DEF Sound
  <2>2. HashesOf(more) = HashesOf(s.added) \cup {h}
    BY <1>7, <1>8, HashesOfMore
  <2> QED
    BY <2>1, <2>2, <1>3, <1>4, <1>11
<1>15. Sound(t)
  BY <1>1, <1>7, <1>8, <1>11, <1>14 DEF Sound, Attaches, Early
<1>16. Clears(t)
  BY <1>1, <1>11 DEF Fits, Clears, Attaches
<1>17. Fits(t)
  BY <1>1, <1>2, <1>7, <1>8, <1>11, <1>12, <1>16 DEF Fits
<1>18. \A d \in Clients \ {c} : Apart(t, tx[d]) /\ Apart(tx[d], t)
  BY <1>1, <1>2, <1>7, <1>8, <1>11, <1>13, OwnFacts DEF Apart
<1> QED
  BY <1>10, <1>11, <1>15, <1>17, <1>18, LocalOK

LEMMA CollectOK ==
  ASSUME Inv, NEW c \in Clients, Collect(c)
  PROVE  Inv'
<1> DEFINE s == tx[c]
<1>1. s \in TxType /\ Sound(s) /\ Fits(s) /\ s.pc = "collect" /\ Attaches(s)
  BY OwnFacts, AtAttach DEF Collect
<1>2. s.todo = <<>> /\ s.filled = {} /\ s.req.op # "delete"
  BY <1>1 DEF Sound, Attaches
<1>3. PICK unused : unused = Unused(c)
  OBVIOUS
<1>4. /\ unused \subseteq s.seen /\ \A h \in unused : VisibleFile(c, h)
      /\ unused \cap HashesOf(VisibleJoins(c)) = {}
  BY <1>3 DEF Unused, Collect
<1>5. unused \subseteq Hashes
  BY <1>1, <1>4 DEF Sound
<1>6. PICK t : t = [s EXCEPT !.removed = unused, !.seen = {}, !.pc = "commit"]
  OBVIOUS
<1>7. tx' = [tx EXCEPT ![c] = t] /\ UNCHANGED Shared
  BY <1>3, <1>6 DEF Collect, After, Inv, Transactions
<1>8. /\ t \in TxType /\ t.pc = "commit" /\ t.locked = s.locked /\ t.todo = s.todo /\ t.dropped = s.dropped
      /\ t.id = s.id /\ t.req = s.req /\ t.before = s.before /\ t.added = s.added
      /\ t.inserted = s.inserted /\ t.removed = unused /\ t.filled = s.filled
  BY <1>1, <1>5, <1>6 DEF TxType, Statements
<1>9. ASSUME NEW d \in Clients \ {c}
      PROVE  unused \cap (tx[d].removed \cup tx[d].filled \cup HashesOf(tx[d].added)) = {}
  BY <1>1, <1>4 DEF Collect, Served, WaitsFor, Holds
<1>10. \A h \in unused : \A j \in (joins \ s.dropped) \cup s.added : j.hash # h
  BY <1>4 DEF HashesOf, VisibleJoins
<1>11. Sound(t)
  BY <1>1, <1>2, <1>8 DEF Sound, Attaches, Early
<1>12. Clears(t)
  BY <1>1, <1>8 DEF Fits, Clears, Attaches
<1>13. Fits(t)
  BY <1>1, <1>2, <1>8, <1>10, <1>12 DEF Fits
<1>14. \A d \in Clients \ {c} : Apart(t, tx[d]) /\ Apart(tx[d], t)
  BY <1>1, <1>2, <1>8, <1>9, OwnFacts DEF Apart, HashesOf
<1> QED
  BY <1>7, <1>8, <1>11, <1>13, <1>14, LocalOK

LEMMA DeleteOwnerOK ==
  ASSUME Inv, NEW c \in Clients, DeleteOwner(c)
  PROVE  Inv'
<1> DEFINE s == tx[c]
<1>1. s \in TxType /\ Sound(s) /\ Fits(s) /\ s.pc = "delete"
  BY OwnFacts DEF DeleteOwner
<1>2. s.req.op = "delete" /\ s.added = {} /\ s.removed = {} /\ s.filled = {} /\ s.inserted = {}
  BY <1>1 DEF Sound, Attaches, Requests
<1>3. PICK rows : rows = OldJoins(c)
  OBVIOUS
<1>4. rows \subseteq Rows /\ \A j : j \in rows <=> j \in joins /\ j.owner = s.req.owner
  BY <1>3 DEF OldJoins, Owner, Inv, Committed
<1>5. PICK t : t = [s EXCEPT !.locked = TRUE, !.dropped = rows, !.pc = "commit"]
  OBVIOUS
<1>6. tx' = [tx EXCEPT ![c] = t] /\ UNCHANGED Shared
  BY <1>3, <1>5 DEF DeleteOwner, Inv, Transactions
<1>7. /\ t \in TxType /\ t.pc = "commit" /\ t.locked /\ t.todo = s.todo /\ t.dropped = rows
      /\ t.id = s.id /\ t.req = s.req /\ t.before = s.before /\ t.added = s.added
      /\ t.inserted = s.inserted /\ t.removed = s.removed /\ t.filled = s.filled
  BY <1>1, <1>4, <1>5 DEF TxType, Statements
<1>8. ASSUME NEW d \in Clients \ {c}
      PROVE  tx[d].req.owner = s.req.owner => tx[d].added = {}
  <2>1. \A j \in tx[d].added : j.owner # s.req.owner
    BY <1>1 DEF DeleteOwner, Served, WaitsFor, Holds, Refers, Owner
  <2>2. \A j \in tx[d].added : j.owner = tx[d].req.owner
    BY OwnFacts DEF Sound
  <2> QED
    BY <2>1, <2>2
<1>9. Sound(t)
  BY <1>1, <1>2, <1>4, <1>7 DEF Sound, Attaches, Early
<1>10. Clears(t)
  BY <1>2, <1>7 DEF Clears, Attaches
<1>11. Fits(t)
  BY <1>1, <1>2, <1>4, <1>7, <1>10 DEF Fits
<1>12. \A d \in Clients \ {c} : Apart(t, tx[d]) /\ Apart(tx[d], t)
  BY <1>1, <1>2, <1>7, <1>8, OwnFacts DEF Apart
<1> QED
  BY <1>6, <1>7, <1>9, <1>11, <1>12, LocalOK

LEMMA FillOK ==
  ASSUME Inv, NEW c \in Clients, Fill(c)
  PROVE  Inv'
<1> DEFINE s == tx[c]
<1>1. s \in TxType /\ Sound(s) /\ Fits(s) /\ s.pc = "fill"
  BY OwnFacts DEF Fill
<1>2. s.req.op = "upload" /\ s.added = {} /\ s.removed = {} /\ s.inserted = {}
  BY <1>1 DEF Sound, Attaches, Requests
<1>3. PICK h \in Hashes : h = Head(s.todo)
  BY <1>1, HeadAndTail DEF Sound, TxType
<1>4. PICK t : t = [s EXCEPT !.filled = {h}, !.pc = "commit"]
  OBVIOUS
<1>5. tx' = [tx EXCEPT ![c] = t] /\ UNCHANGED Shared
  BY <1>3, <1>4 DEF Fill, Inv, Transactions
<1>6. /\ t \in TxType /\ t.pc = "commit" /\ t.locked = s.locked /\ t.todo = s.todo /\ t.dropped = s.dropped
      /\ t.id = s.id /\ t.req = s.req /\ t.before = s.before /\ t.added = s.added
      /\ t.inserted = s.inserted /\ t.removed = s.removed /\ t.filled = {h}
  BY <1>1, <1>3, <1>4 DEF TxType, Statements
<1>7. files[h] # "none" /\ \A d \in Clients \ {c} : h \notin tx[d].removed
  BY <1>1, <1>3 DEF Fill, Served, WaitsFor, Holds
<1>8. Sound(t)
  BY <1>1, <1>2, <1>6 DEF Sound, Attaches, Early
<1>9. Clears(t)
  BY <1>2, <1>6 DEF Clears, Attaches
<1>10. Fits(t)
  BY <1>1, <1>2, <1>6, <1>7, <1>9 DEF Fits
<1>11. \A d \in Clients \ {c} : Apart(t, tx[d]) /\ Apart(tx[d], t)
  BY <1>1, <1>2, <1>6, <1>7, OwnFacts DEF Apart
<1> QED
  BY <1>5, <1>6, <1>8, <1>10, <1>11, LocalOK

-----------------------------------------------------------------------------
(* The beginnings                                                           *)

\* What a request asks for is there.
Asks(req, pc, todo) ==
  /\ req.op = "create" => pc = "attach" /\ persons[req.owner] = "free" /\ \A d \in Clients : Owner(d) # req.owner
  /\ req.op # "create" => req.owner = NoOne \/ Exists(req.owner)
  /\ req.op \in {"update", "verify"} => pc \in {"write", "readJoins"}
  /\ req.op = "delete" => pc = "delete"
  /\ req.op = "upload" => pc = "fill" /\ todo # <<>>
  /\ req.op \in {"create", "update", "verify"} => ToSet(todo) = ToSet(Images(req))
  /\ req.op = "verify" =>
       /\ req.owner \in tokens
       /\ IF req.touches THEN pc = "write" ELSE persons[req.owner] = "verified"

LEMMA BeginOK ==
  ASSUME Inv, NEW c \in Clients, NEW req \in Requests, NEW pc \in Statements \ {"idle"}, NEW todo \in Seq(Hashes),
         Begin(c, req, pc, todo), Asks(req, pc, todo),
         UNCHANGED <<persons, files, joins, history, tokens>>
  PROVE  Inv'
<1>1. requests \in Nat /\ requests + 1 \in Nat /\ requests' = requests + 1 /\ requests' \in 0..MaxRequests
  BY BoundsAssumption DEF Begin, Inv, Committed
<1>2. PICK n \in Nat : n = requests + 1
  BY <1>1
<1>3. HistoryIds' = HistoryIds /\ HistoryIds \subseteq 1..requests /\ HistoryIds = {e.id : e \in ToSet(history)}
  BY DEF HistoryIds, Inv, Committed
<1>4. PICK before \in SUBSET Nat : before = HistoryIds
  <2>1. 1..requests \subseteq Nat
    BY <1>1
  <2> QED
    BY <1>3, <2>1
<1>5. PICK t : t = [Idle EXCEPT !.pc = pc, !.req = req, !.id = n, !.todo = todo, !.before = before]
  OBVIOUS
<1>6. tx' = [tx EXCEPT ![c] = t]
  BY <1>1, <1>2, <1>3, <1>4, <1>5 DEF Begin
<1>7. /\ t \in TxType /\ t.pc = pc /\ t.req = req /\ t.id = n /\ t.todo = todo /\ t.before = before
      /\ ~t.locked /\ t.inserted = {} /\ t.removed = {} /\ t.filled = {} /\ t.added = {} /\ t.dropped = {}
      /\ t.seen = {}
  BY <1>5 DEF Idle, TxType
<1>8. req.op \in {"create", "update", "verify", "delete", "upload"} /\ (req.owner \in Persons \/ req.owner = NoOne)
  BY DEF Requests
<1>9. HashesOf(t.added) = {}
  BY <1>7 DEF HashesOf
<1>10. Sound(t)
  BY <1>7, <1>8, <1>9 DEF Sound, Attaches, Early, Asks, Statements
<1>11. ASSUME req.op = "create", NEW j \in joins PROVE j.owner # req.owner
  BY <1>11 DEF Asks, Inv, Committed, Exists
<1>12. Clears(t)'
  BY <1>7, <1>8, <1>11 DEF Clears, Attaches, Asks
<1>13. n \in 1..requests' /\ n \notin HistoryIds
  BY <1>1, <1>2, <1>3
<1>14. Fits(t)'
  BY <1>3, <1>4, <1>7, <1>12, <1>13 DEF Fits, Asks
<1>15. ASSUME NEW u, Fits(u) PROVE Fits(u)'
  <2>1. 1..requests \subseteq 1..requests'
    BY <1>1
  <2>2. Clears(u)' <=> Clears(u)
    BY DEF Clears
  <2>3. \A o : Exists(o)' <=> Exists(o)
    BY DEF Exists
  <2> QED
    BY <1>3, <1>15, <2>1, <2>2, <2>3 DEF Fits
<1>16. ASSUME NEW d \in Clients \ {c} PROVE Apart(t, tx[d]) /\ Apart(tx[d], t)
  <2>1. PICK u : u = tx[d]
    OBVIOUS
  <2>2. u \in TxType /\ Sound(u) /\ Fits(u)
    BY <2>1, OwnFacts
  <2>3. u.pc # "idle" => u.id # n
    BY <1>1, <1>2, <2>2 DEF Fits
  <2>4. req.op = "create" => u.req.owner # req.owner
    BY <2>1 DEF Asks, Owner
  <2>5. u.pc # "idle" /\ u.req.op = "create" => u.req.owner # req.owner
    <3>1. u.pc # "idle" /\ u.req.op = "create" => u.req.owner \in Persons /\ persons[u.req.owner] = "free"
      BY <2>2 DEF Fits, Sound, Requests
    <3> QED
      BY <3>1, <2>4, NoOneAssumption DEF Asks, Exists
  <2> QED
    BY <1>7, <2>1, <2>3, <2>4, <2>5 DEF Apart
<1>17. Transactions'
  BY <1>6, <1>7, <1>10, <1>14, <1>15, <1>16, StepOK DEF Inv
<1>18. Committed'
  <2>1. 1..requests \subseteq 1..requests'
    BY <1>1
  <2> QED
    BY <1>1, <1>3, <2>1 DEF Inv, Committed, Exists
<1> QED
  BY <1>17, <1>18 DEF Inv

LEMMA StartsOK ==
  ASSUME Inv, NEW c \in Clients,
         Create(c) \/ Update(c) \/ Delete(c) \/ Verify(c) \/ UploadContent(c)
  PROVE  Inv'
<1> USE DEF Statements
<1>1. CASE Create(c)
  <2>1. PICK o \in Persons, images \in Lists :
          /\ persons[o] = "free" /\ \A d \in Clients : Owner(d) # o
          /\ Begin(c, [op |-> "create", owner |-> o, images |-> images, touches |-> TRUE], "attach", images)
    BY <1>1 DEF Create
  <2>2. PICK req \in Requests : req = [op |-> "create", owner |-> o, images |-> images, touches |-> TRUE]
    BY DEF Requests
  <2>3. Images(req) = images /\ images \in Seq(Hashes)
    BY <2>2, ListsAssumption DEF Images
  <2>4. Asks(req, "attach", images)
    BY <2>1, <2>2, <2>3 DEF Asks
  <2> QED
    BY <1>1, <2>1, <2>2, <2>3, <2>4, BeginOK DEF Create
<1>2. CASE Update(c)
  <2>1. PICK o \in Persons, images \in Lists \cup {NotNamed}, touches \in BOOLEAN :
          LET req == [op |-> "update", owner |-> o, images |-> images, touches |-> touches]
          IN Exists(o) /\ Begin(c, req, IF touches THEN "write" ELSE "readJoins", Images(req))
    BY <1>2 DEF Update
  <2>2. PICK req \in Requests : req = [op |-> "update", owner |-> o, images |-> images, touches |-> touches]
    BY DEF Requests
  <2>3. PICK todo \in Seq(Hashes) : todo = Images(req)
    BY <2>2, ListsAssumption DEF Images
  <2>4. PICK pc \in {"write", "readJoins"} : pc = IF touches THEN "write" ELSE "readJoins"
    OBVIOUS
  <2>5. Asks(req, pc, todo)
    BY <2>1, <2>2, <2>3 DEF Asks
  <2> QED
    BY <1>2, <2>1, <2>2, <2>3, <2>4, <2>5, BeginOK DEF Update
<1>3. CASE Delete(c)
  <2>1. PICK o \in Persons :
          /\ Exists(o)
          /\ Begin(c, [op |-> "delete", owner |-> o, images |-> NotNamed, touches |-> TRUE], "delete", <<>>)
    BY <1>3 DEF Delete
  <2>2. PICK req \in Requests : req = [op |-> "delete", owner |-> o, images |-> NotNamed, touches |-> TRUE]
    BY DEF Requests
  <2>3. Asks(req, "delete", <<>>)
    BY <2>1, <2>2 DEF Asks
  <2>4. <<>> \in Seq(Hashes)
    OBVIOUS
  <2> QED
    BY <1>3, <2>1, <2>2, <2>3, <2>4, BeginOK DEF Delete
<1>4. CASE Verify(c)
  <2>1. PICK o \in Persons :
          LET req == [op |-> "verify", owner |-> o, images |-> NotNamed,
                      touches |-> persons[o] = "unverified"]
          IN /\ TokenValid(o) /\ Exists(o)
             /\ Begin(c, req, IF req.touches THEN "write" ELSE "readJoins", Images(req))
    BY <1>4 DEF Verify
  <2>2. PICK touches \in BOOLEAN : touches <=> persons[o] = "unverified"
    OBVIOUS
  <2>3. PICK req \in Requests : req = [op |-> "verify", owner |-> o, images |-> NotNamed, touches |-> touches]
    BY DEF Requests
  <2>4. PICK todo \in Seq(Hashes) : todo = Images(req)
    <3>1. <<>> \in Seq(Hashes) /\ Images(req) = <<>>
      BY <2>3 DEF Images
    <3> QED
      BY <3>1
  <2>5. PICK pc \in {"write", "readJoins"} : pc = IF touches THEN "write" ELSE "readJoins"
    OBVIOUS
  <2>6. req = [op |-> "verify", owner |-> o, images |-> NotNamed, touches |-> persons[o] = "unverified"]
    <3>1. touches = (persons[o] = "unverified")
      BY <2>2
    <3> QED
      BY <2>3, <3>1
  <2>7. Begin(c, req, pc, todo)
    BY <2>1, <2>3, <2>4, <2>5, <2>6
  <2>8. Asks(req, pc, todo)
    BY <2>1, <2>2, <2>3, <2>4, <2>5 DEF Asks, TokenValid, Exists
  <2> QED
    BY <1>4, <2>7, <2>8, BeginOK DEF Verify
<1>5. CASE UploadContent(c)
  <2>1. PICK h \in Hashes : Begin(c, [NoRequest EXCEPT !.op = "upload", !.images = <<h>>], "fill", <<h>>)
    BY <1>5 DEF UploadContent
  <2>2. PICK req \in Requests : req = [NoRequest EXCEPT !.op = "upload", !.images = <<h>>]
    BY DEF Requests, NoRequest
  <2>3. Asks(req, "fill", <<h>>)
    BY <2>2 DEF Asks, NoRequest
  <2>4. <<h>> \in Seq(Hashes)
    OBVIOUS
  <2> QED
    BY <1>5, <2>1, <2>2, <2>3, <2>4, BeginOK DEF UploadContent
<1> QED
  BY <1>1, <1>2, <1>3, <1>4, <1>5

LEMMA SendTokenOK ==
  ASSUME Inv, SendToken
  PROVE  Inv'
<1>1. PICK o \in Persons : tokens' = tokens \cup {o}
  BY DEF SendToken
<1>2. UNCHANGED <<persons, files, joins, requests, history, tx>>
  BY DEF SendToken
<1>3. HistoryIds' = HistoryIds /\ (\A p : Exists(p)' <=> Exists(p)) /\ \A t : Clears(t)' <=> Clears(t)
  BY <1>2 DEF HistoryIds, Exists, Clears
<1>4. ASSUME NEW t, Fits(t) PROVE Fits(t)'
  BY <1>1, <1>2, <1>3, <1>4 DEF Fits
<1>5. Transactions'
  <2>1. ASSUME NEW c \in Clients PROVE (Sound(tx[c]) /\ Fits(tx[c]))'
    <3>1. PICK t : t = tx[c]
      OBVIOUS
    <3>2. Sound(t) /\ Fits(t)' /\ t = tx'[c]
      BY <1>2, <1>4, <3>1, OwnFacts
    <3> QED
      BY <3>2, SoundNext, FitsNext
  <2>2. ASSUME NEW c \in Clients, NEW d \in Clients, c # d PROVE Apart(tx[c], tx[d])'
    <3>1. PICK t, u : t = tx[c] /\ u = tx[d]
      OBVIOUS
    <3>2. Apart(t, u) /\ t = tx'[c] /\ u = tx'[d]
      BY <1>2, <2>2, <3>1, OwnFacts
    <3> QED
      BY <3>2, ApartNext
  <2>3. tx' \in [Clients -> TxType]
    BY <1>2 DEF Inv, Transactions
  <2> QED
    BY <2>1, <2>2, <2>3 DEF Transactions
<1>6. Committed'
  BY <1>1, <1>2, <1>3 DEF Inv, Committed
<1> QED
  BY <1>5, <1>6 DEF Inv

-----------------------------------------------------------------------------
(* The commit                                                               *)

\* What the commit of transaction c does to a person and to a file.
LEMMA PersonAfterIs ==
  ASSUME Inv, NEW c \in Clients, tx[c].pc = "commit", NEW o \in Persons
  PROVE  /\ PersonAfter(c, o) \in {"free", "unverified", "verified", "deleted"}
         /\ o # tx[c].req.owner => PersonAfter(c, o) = persons[o]
         /\ o = tx[c].req.owner =>
              /\ tx[c].req.op = "create" => PersonAfter(c, o) = "unverified" /\ persons[o] = "free"
              /\ tx[c].req.op = "delete" => PersonAfter(c, o) = "deleted"
              /\ tx[c].req.op \notin {"create", "delete"} =>
                   PersonAfter(c, o) = persons[o] \/ (PersonAfter(c, o) = "verified" /\ tx[c].req.op = "verify")
              /\ tx[c].req.op = "verify" /\ tx[c].locked => PersonAfter(c, o) = "verified"
<1>1. tx[c] \in TxType /\ Fits(tx[c]) /\ persons[o] \in {"free", "unverified", "verified", "deleted"}
  BY OwnFacts DEF Inv, Committed
<1>2. CASE o # tx[c].req.owner
  BY <1>1, <1>2 DEF PersonAfter, Owner
<1>3. CASE o = tx[c].req.owner /\ tx[c].req.op = "create"
  BY <1>1, <1>3 DEF PersonAfter, Owner, Fits
<1>4. CASE o = tx[c].req.owner /\ tx[c].req.op = "delete"
  BY <1>1, <1>4 DEF PersonAfter, Owner
<1>5. CASE o = tx[c].req.owner /\ tx[c].req.op = "verify" /\ tx[c].locked
  BY <1>1, <1>5 DEF PersonAfter, Owner
<1>6. CASE o = tx[c].req.owner /\ tx[c].req.op \notin {"create", "delete"} /\ ~(tx[c].req.op = "verify" /\ tx[c].locked)
  BY <1>1, <1>6 DEF PersonAfter, Owner
<1> QED
  BY <1>2, <1>3, <1>4, <1>5, <1>6

LEMMA FileAfterIs ==
  ASSUME Inv, NEW c \in Clients, NEW h \in Hashes
  PROVE  /\ FileAfter(c, h) \in {"none", "empty", "full"}
         /\ h \notin tx[c].removed /\ (h \in tx[c].inserted \/ files[h] # "none") => FileAfter(c, h) # "none"
         /\ files[h] = "none" /\ h \notin tx[c].inserted /\ h \notin tx[c].filled => FileAfter(c, h) = "none"
         /\ files[h] = "full" /\ h \notin tx[c].inserted /\ h \notin tx[c].removed => FileAfter(c, h) = "full"
<1>1. files[h] \in {"none", "empty", "full"}
  BY DEF Inv, Committed
<1>2. CASE h \notin tx[c].inserted /\ h \notin tx[c].removed /\ h \notin tx[c].filled
  BY <1>1, <1>2 DEF FileAfter
<1>3. CASE h \in tx[c].inserted \/ h \in tx[c].removed \/ h \in tx[c].filled
  <2>1. \/ h \in tx[c].inserted /\ FileAfter(c, h) = "empty"
        \/ h \in tx[c].removed /\ FileAfter(c, h) = "none"
        \/ h \in tx[c].filled /\ FileAfter(c, h) = "full"
    BY <1>3 DEF FileAfter
  <2> QED
    BY <2>1
<1> QED
  BY <1>2, <1>3

\* The parts of a commit, with the transaction s that commits.
LEMMA CommitIs ==
  ASSUME Inv, NEW c \in Clients, Commit(c), NEW s, s = tx[c]
  PROVE  /\ s \in TxType /\ Sound(s) /\ Fits(s) /\ s.pc = "commit" /\ s.req \in Requests
         /\ s.id \in 1..requests /\ s.id \in Nat /\ s.id # 0 /\ s.before \subseteq HistoryIds
         /\ Attaches(s) \/ (s.added = {} /\ s.req.op \in {"upload", "delete"})
         /\ s.req.op = "delete" => s.locked
         /\ joins' = (joins \ s.dropped) \cup s.added
         /\ history' = IF Attaches(s) THEN Append(history, [id |-> s.id, req |-> s.req, before |-> s.before])
                       ELSE history
         /\ requests' = requests /\ tokens' = tokens
         /\ tx' = [tx EXCEPT ![c] = Idle]
<1>1. s \in TxType /\ Sound(s) /\ Fits(s) /\ s.pc = "commit"
  BY OwnFacts DEF Commit
<1>2. s.req \in Requests /\ s.req.op \in {"create", "update", "verify", "delete", "upload"}
  BY <1>1 DEF Sound, Requests
<1>3. requests \in Nat
  BY BoundsAssumption DEF Inv, Committed
<1>4. s.id \in 1..requests /\ s.before \subseteq HistoryIds
  BY <1>1 DEF Fits
<1>5. s.id \in Nat /\ s.id # 0
  BY <1>3, <1>4
<1>6. Attaches(s) \/ (s.added = {} /\ s.req.op \in {"upload", "delete"})
  BY <1>1, <1>2 DEF Sound, Attaches
<1>7. s.req.op = "delete" => s.locked
  BY <1>1 DEF Sound
<1>8. joins' = (joins \ s.dropped) \cup s.added
  BY DEF Commit, VisibleJoins
<1>9. history' = IF Attaches(s) THEN Append(history, [id |-> s.id, req |-> s.req, before |-> s.before])
                 ELSE history
  BY <1>2 DEF Commit, Attaches
<1> QED
  BY <1>1, <1>2, <1>4, <1>5, <1>6, <1>7, <1>8, <1>9 DEF Commit

LEMMA PersonsNext ==
  ASSUME Inv, NEW c \in Clients, Commit(c), NEW s, s = tx[c]
  PROVE  /\ persons' \in [Persons -> {"free", "unverified", "verified", "deleted"}]
         /\ \A o \in Persons : o # s.req.owner => persons'[o] = persons[o]
         /\ \A o \in Persons : o = s.req.owner =>
              /\ s.req.op = "create" => persons'[o] = "unverified" /\ persons[o] = "free"
              /\ s.req.op = "delete" => persons'[o] = "deleted"
              /\ s.req.op \notin {"create", "delete"} =>
                   persons'[o] = persons[o] \/ (persons'[o] = "verified" /\ s.req.op = "verify")
              /\ s.req.op = "verify" /\ s.locked => persons'[o] = "verified"
<1>1. tx[c].pc = "commit" /\ persons' = [o \in Persons |-> PersonAfter(c, o)]
  BY DEF Commit
<1>2. \A o \in Persons : persons'[o] = PersonAfter(c, o)
  BY <1>1
<1> QED
  BY <1>1, <1>2, PersonAfterIs

LEMMA FilesNext ==
  ASSUME Inv, NEW c \in Clients, Commit(c), NEW s, s = tx[c]
  PROVE  /\ files' \in [Hashes -> {"none", "empty", "full"}]
         /\ \A h \in Hashes :
              /\ h \notin s.removed /\ (h \in s.inserted \/ files[h] # "none") => files'[h] # "none"
              /\ files[h] = "none" /\ h \notin s.inserted /\ h \notin s.filled => files'[h] = "none"
              /\ files[h] = "full" /\ h \notin s.inserted /\ h \notin s.removed => files'[h] = "full"
<1>1. files' = [h \in Hashes |-> FileAfter(c, h)]
  BY DEF Commit
<1>2. \A h \in Hashes : files'[h] = FileAfter(c, h)
  BY <1>1
<1> QED
  BY <1>1, <1>2, FileAfterIs

\* The ids of the history: those of before, and that of an update.
LEMMA HistoryNext ==
  ASSUME Inv, NEW c \in Clients, Commit(c), NEW s, s = tx[c]
  PROVE  /\ history' \in Seq([id: Nat, req: Requests, before: SUBSET Nat])
         /\ HistoryIds' = IF Attaches(s) THEN HistoryIds \cup {s.id} ELSE HistoryIds
<1>1. history \in Seq([id: Nat, req: Requests, before: SUBSET Nat])
  BY DEF Inv, Committed
<1>2. CASE ~Attaches(s)
  BY <1>1, <1>2, CommitIs DEF HistoryIds
<1>3. CASE Attaches(s)
  <2>1. PICK e \in [id: Nat, req: Requests, before: SUBSET Nat] :
          e = [id |-> s.id, req |-> s.req, before |-> s.before]
    <3>1. s \in TxType /\ s.id \in Nat /\ s.req \in Requests
      BY CommitIs
    <3>2. s.before \in SUBSET Nat
      BY <3>1 DEF TxType
    <3> QED
      BY <3>1, <3>2
  <2>2. history' = Append(history, e) /\ e.id = s.id
    BY <1>3, <2>1, CommitIs
  <2>3. /\ Len(history) \in Nat /\ DOMAIN history = 1..Len(history)
        /\ DOMAIN history' = 1..(Len(history) + 1)
        /\ \A i \in 1..Len(history) : history'[i] = history[i]
        /\ history'[Len(history) + 1] = e
        /\ history' \in Seq([id: Nat, req: Requests, before: SUBSET Nat])
    BY <1>1, <2>2
  <2>4. ASSUME NEW x PROVE x \in HistoryIds' <=> x \in HistoryIds \/ x = s.id
    <3>1. \A y : y \in HistoryIds <=> \E i \in 1..Len(history) : y = history[i].id
      BY <2>3, Zenon DEF HistoryIds, ToSet
    <3>2. \A y : y \in HistoryIds' <=> \E i \in 1..(Len(history) + 1) : y = history'[i].id
      BY <2>3, Zenon DEF HistoryIds, ToSet
    <3>3. ASSUME x \in HistoryIds' PROVE x \in HistoryIds \/ x = s.id
      <4>1. PICK i \in 1..(Len(history) + 1) : x = history'[i].id
        BY <3>2, <3>3
      <4>2. i = Len(history) + 1 \/ i \in 1..Len(history)
        BY <2>3
      <4> QED
        BY <2>2, <2>3, <3>1, <4>1, <4>2
    <3>4. ASSUME x \in HistoryIds PROVE x \in HistoryIds'
      <4>1. PICK i \in 1..Len(history) : x = history[i].id
        BY <3>1, <3>4
      <4>2. i \in 1..(Len(history) + 1) /\ x = history'[i].id
        BY <2>3, <4>1
      <4> QED
        BY <3>2, <4>2
    <3>5. s.id \in HistoryIds'
      <4>1. Len(history) + 1 \in 1..(Len(history) + 1) /\ s.id = history'[Len(history) + 1].id
        BY <2>2, <2>3
      <4> QED
        BY <3>2, <4>1
    <3> QED
      BY <3>3, <3>4, <3>5
  <2>5. HistoryIds' = HistoryIds \cup {s.id}
    BY <2>4
  <2> QED
    BY <1>3, <2>3, <2>5
<1> QED
  BY <1>2, <1>3

LEMMA CommitCommitted ==
  ASSUME Inv, NEW c \in Clients, Commit(c)
  PROVE  Committed'
<1>1. PICK s : s = tx[c]
  OBVIOUS
<1>2. /\ s \in TxType /\ Sound(s) /\ Fits(s) /\ s.pc = "commit"
      /\ s.id \in 1..requests /\ s.id # 0
      /\ Attaches(s) \/ (s.added = {} /\ s.req.op \in {"upload", "delete"})
      /\ s.req.op = "delete" => s.locked
      /\ joins' = (joins \ s.dropped) \cup s.added
      /\ requests' = requests /\ tokens' = tokens
  BY <1>1, CommitIs
<1>3. Committed
  BY DEF Inv
<1>4. joins' \subseteq Rows
  BY <1>2, <1>3 DEF Committed, TxType
<1>5. ASSUME NEW j \in joins' PROVE Exists(j.owner)'
  <2>1. j.owner \in Persons
    BY <1>4, <1>5 DEF Rows
  <2>2. Exists(j.owner) \/ (j.owner = s.req.owner /\ s.req.op = "create")
    BY <1>2, <1>3, <1>5 DEF Committed, Sound, Fits
  <2>3. ~(j.owner = s.req.owner /\ s.req.op = "delete")
    BY <1>2, <1>5 DEF Fits, Attaches
  <2>4. persons'[j.owner] \in {"unverified", "verified"}
    BY <1>1, <2>1, <2>2, <2>3, PersonsNext DEF Exists
  <2> QED
    BY <2>4 DEF Exists
<1>6. ASSUME NEW j \in joins' PROVE files'[j.hash] # "none"
  <2>1. j.hash \in Hashes
    BY <1>4, <1>6 DEF Rows
  <2>2. j.hash \notin s.removed
    BY <1>2, <1>6 DEF Fits
  <2>3. j.hash \in s.inserted \/ files[j.hash] # "none"
    BY <1>2, <1>3, <1>6 DEF Committed, Fits
  <2> QED
    BY <1>1, <2>1, <2>2, <2>3, FilesNext
<1>7. ASSUME NEW j \in joins' PROVE j.request \in HistoryIds' \cup {0}
  BY <1>1, <1>2, <1>3, <1>7, HistoryNext DEF Committed, Sound
<1>8. HistoryIds' \subseteq 1..requests'
  BY <1>1, <1>2, <1>3, HistoryNext DEF Committed
<1> QED
  BY <1>1, <1>2, <1>3, <1>4, <1>5, <1>6, <1>7, <1>8, PersonsNext, FilesNext, HistoryNext DEF Committed

\* Another transaction u still fits what is committed then.
LEMMA CommitFits ==
  ASSUME Inv, NEW c \in Clients, NEW d \in Clients, c # d, Commit(c), NEW u, u = tx[d], u.pc # "idle"
  PROVE  Fits(u)'
<1>1. PICK s : s = tx[c]
  OBVIOUS
<1>2. /\ s \in TxType /\ Sound(s) /\ Fits(s) /\ s.pc = "commit" /\ s.id # 0
      /\ Attaches(s) \/ (s.added = {} /\ s.req.op \in {"upload", "delete"})
      /\ s.req.op = "delete" => s.locked
      /\ joins' = (joins \ s.dropped) \cup s.added
      /\ requests' = requests /\ tokens' = tokens
  BY <1>1, CommitIs
<1>3. u \in TxType /\ Sound(u) /\ Fits(u) /\ Apart(s, u) /\ Apart(u, s)
  BY <1>1, OwnFacts
<1>4. u.req \in Requests /\ (u.req.op # "upload" => u.req.owner \in Persons)
  BY <1>3 DEF Sound, Requests
<1>5. u.id \notin HistoryIds' /\ u.before \subseteq HistoryIds'
  BY <1>1, <1>2, <1>3, HistoryNext DEF Fits, Apart
<1>6. ASSUME NEW j \in u.added PROVE j.hash \in u.inserted \/ files'[j.hash] # "none"
  <2>1. j.hash \in Hashes /\ j.hash \notin s.removed
    BY <1>2, <1>3, <1>6 DEF TxType, Rows, Apart
  <2>2. j.hash \in u.inserted \/ files[j.hash] # "none"
    BY <1>3, <1>6 DEF Fits
  <2> QED
    BY <1>1, <2>1, <2>2, FilesNext
<1>7. ASSUME u.added # {} PROVE u.req.op = "create" \/ Exists(u.req.owner)'
  <2>1. u.req.op = "create" \/ Exists(u.req.owner)
    BY <1>3, <1>7 DEF Fits
  <2>2. Attaches(u) /\ u.req.owner \in Persons
    BY <1>3, <1>4, <1>7 DEF Sound, Attaches
  <2>3. ~(s.req.owner = u.req.owner /\ s.req.op = "delete")
    BY <1>2, <1>3, <1>7 DEF Apart
  <2>4. u.req.op = "create" \/ persons'[u.req.owner] \in {"unverified", "verified"}
    BY <1>1, <2>1, <2>2, <2>3, PersonsNext DEF Exists
  <2> QED
    BY <2>4 DEF Exists
<1>8. u.req.op = "create" => persons'[u.req.owner] = "free"
  BY <1>1, <1>2, <1>3, <1>4, PersonsNext DEF Fits, Apart
<1>9. ASSUME u.req.op = "delete", u.locked, NEW j \in joins', j.owner = u.req.owner
      PROVE  j \in u.dropped
  BY <1>2, <1>3, <1>9 DEF Fits, Apart, Sound
<1>10. ASSUME NEW h \in u.removed, NEW j \in (joins' \ u.dropped) \cup u.added PROVE j.hash # h
  BY <1>2, <1>3, <1>10 DEF Fits, Apart
<1>11. ASSUME NEW h \in u.inserted PROVE files'[h] = "none"
  <2>1. h \in Hashes /\ files[h] = "none" /\ h \notin s.inserted /\ h \notin s.filled
    BY <1>2, <1>3, <1>11 DEF TxType, Fits, Apart
  <2> QED
    BY <1>1, <2>1, FilesNext
<1>12. ASSUME NEW h \in u.filled PROVE files'[h] # "none"
  <2>1. h \in Hashes /\ files[h] # "none" /\ h \notin s.removed
    BY <1>2, <1>3, <1>12 DEF TxType, Fits, Apart
  <2> QED
    BY <1>1, <2>1, FilesNext
<1>13. ASSUME u.req.op = "verify", ~u.req.touches PROVE persons'[u.req.owner] \in {"verified", "deleted"}
  <2>1. persons[u.req.owner] \in {"verified", "deleted"} /\ u.req.owner \in Persons
    BY <1>3, <1>4, <1>13 DEF Fits
  <2> QED
    BY <1>1, <2>1, PersonsNext
<1>14. Clears(u)'
  <2>1. ASSUME NEW j \in s.added PROVE j.request \notin u.before \cup {0}
    BY <1>2, <1>3, <2>1 DEF Sound, Fits
  <2>2. Clears(u)
    BY <1>3 DEF Fits
  <2> QED
    BY <1>2, <2>1, <2>2 DEF Clears
<1> QED
  BY <1>2, <1>3, <1>5, <1>6, <1>7, <1>8, <1>9, <1>10, <1>11, <1>12, <1>13, <1>14 DEF Fits

LEMMA CommitOK ==
  ASSUME Inv, NEW c \in Clients, Commit(c)
  PROVE  Inv'
<1>1. tx' = [tx EXCEPT ![c] = Idle] /\ Idle \in TxType /\ Sound(Idle)
  BY IdleType DEF Commit
<1>2. Fits(Idle)'
  BY DEF Fits, Idle
<1>3. \A d \in Clients \ {c} : Fits(tx[d]) => \A u : u = tx[d] => Fits(u)'
  <2>1. ASSUME NEW d \in Clients \ {c}, NEW u, u = tx[d] PROVE Fits(u)'
    <3>1. CASE u.pc = "idle"
      BY <3>1 DEF Fits
    <3>2. CASE u.pc # "idle"
      BY <2>1, <3>2, CommitFits
    <3> QED
      BY <3>1, <3>2
  <2> QED
    BY <2>1
<1>4. \A d \in Clients \ {c} : Apart(Idle, tx[d]) /\ Apart(tx[d], Idle)
  BY IdleType
<1>5. Transactions'
  BY <1>1, <1>2, <1>3, <1>4, StepOK DEF Inv
<1> QED
  BY <1>5, CommitCommitted DEF Inv

-----------------------------------------------------------------------------
(* Type correctness, and the contents that are kept                         *)

LEMMA InitOK == Init => Inv
<1> SUFFICES ASSUME Init PROVE Inv
  OBVIOUS
<1>1. /\ persons \in [Persons -> {"free", "unverified"}]
      /\ files \in [Hashes -> {"none", "empty", "full"}]
      /\ \A j \in joins : Exists(j.owner) /\ files[j.hash] # "none"
      /\ requests = 0 /\ history = <<>> /\ tokens = {}
      /\ tx = [c \in Clients |-> Idle]
  BY DEF Init
<1>2. ASSUME NEW j \in joins PROVE j \in Rows /\ j.request = 0
  <2>1. PICK o \in Persons, h \in Hashes : j = [owner |-> o, hash |-> h, request |-> 0]
    BY DEF Init, Join
  <2> QED
    BY <2>1 DEF Rows
<1>3. HistoryIds = {}
  BY <1>1 DEF HistoryIds, ToSet
<1>4. history \in Seq([id: Nat, req: Requests, before: SUBSET Nat])
  BY <1>1
<1>5. requests \in 0..MaxRequests
  BY <1>1, BoundsAssumption
<1>6. Committed
  BY <1>1, <1>2, <1>3, <1>4, <1>5 DEF Committed
<1>7. Transactions
  BY <1>1, IdleType DEF Transactions
<1> QED
  BY <1>6, <1>7 DEF Inv

LEMMA NextOK == Inv /\ [Next]_vars => Inv'
<1> SUFFICES ASSUME Inv, [Next]_vars PROVE Inv'
  OBVIOUS
<1>1. CASE UNCHANGED vars
  <2>1. UNCHANGED <<persons, files, joins, requests, history, tokens, tx>>
    BY <1>1 DEF vars
  <2>2. Committed'
    BY <2>1 DEF Inv, Committed, HistoryIds, Exists
  <2>3. Transactions'
    BY <2>1 DEF Inv, Transactions, Sound, Fits, Apart, Clears, HistoryIds, Exists, Attaches, Early
  <2> QED
    BY <2>2, <2>3 DEF Inv
<1>2. CASE Next
  <2>1. CASE SendToken
    BY <2>1, SendTokenOK
  <2>2. ASSUME NEW c \in Clients,
               Create(c) \/ Update(c) \/ Delete(c) \/ Verify(c) \/ UploadContent(c)
        PROVE  Inv'
    BY <2>2, StartsOK
  <2>3. ASSUME NEW c \in Clients, Proceed(c) \/ Lose(c) PROVE Inv'
    <3>1. CASE Fail(c) \/ BreakDeadlock(c) \/ Lose(c)
      BY <3>1, EndsOK DEF Fail, BreakDeadlock, Lose
    <3>2. CASE Write(c) \/ ReadJoins(c) \/ Drop(c)
      BY <3>2, WriteOK, ReadJoinsOK, DropOK
    <3>3. CASE LookForFile(c) \/ AllAttached(c) \/ ReadUnused(c)
      BY <3>3, QuietOK
    <3>4. CASE InsertFile(c) \/ InsertJoin(c) \/ Collect(c)
      BY <3>4, InsertFileOK, InsertJoinOK, CollectOK
    <3>5. CASE DeleteOwner(c) \/ Fill(c) \/ Commit(c)
      BY <3>5, DeleteOwnerOK, FillOK, CommitOK
    <3> QED
      BY <2>3, <3>1, <3>2, <3>3, <3>4, <3>5 DEF Proceed
  <2> QED
    BY <1>2, <2>1, <2>2, <2>3 DEF Next
<1> QED
  BY <1>1, <1>2

LEMMA Inductive == Spec => []Inv
BY InitOK, NextOK, PTL DEF Spec

\* Rows and transactions have their types, and no join row outlives its owner
\* or its file (the foreign keys of zf_file_join, with the waits that go with them).
THEOREM TypeCorrect == Spec => []TypeOK
<1>1. Inv => TypeOK
  <2> SUFFICES ASSUME Inv PROVE TypeOK
    OBVIOUS
  <2>1. Committed /\ requests \in Nat
    BY BoundsAssumption DEF Inv, Committed
  <2>2. ASSUME NEW j \in joins PROVE j \in [owner: Persons, hash: Hashes, request: 0..requests]
    <3>1. j \in Rows /\ j.request \in HistoryIds \cup {0} /\ HistoryIds \subseteq 1..requests
      BY <2>1 DEF Committed
    <3>2. j.request \in 1..requests \/ j.request = 0
      BY <3>1
    <3>3. j.request \in 0..requests
      BY <2>1, <3>2
    <3> QED
      BY <3>1, <3>3 DEF Rows
  <2>3. \A c \in Clients : tx[c].pc # "idle" => tx[c].req \in Requests
    BY OwnFacts DEF Sound
  <2> QED
    BY <2>1, <2>2, <2>3 DEF Committed, TypeOK
<1> QED
  BY <1>1, Inductive, PTL

\* Only a commit changes what is committed.
LEMMA OnlyCommits ==
  ASSUME [Next]_vars
  PROVE  UNCHANGED <<persons, files, joins, history>> \/ \E c \in Clients : Commit(c)
<1>1. CASE UNCHANGED vars
  BY <1>1 DEF vars
<1>2. CASE SendToken
  BY <1>2 DEF SendToken
<1>3. ASSUME NEW c \in Clients, Create(c) \/ Update(c) \/ Delete(c) \/ Verify(c) \/ UploadContent(c)
      PROVE  UNCHANGED <<persons, files, joins, history>>
  BY <1>3 DEF Create, Update, Delete, Verify, UploadContent
<1>4. ASSUME NEW c \in Clients, Proceed(c) \/ Lose(c), ~Commit(c)
      PROVE  UNCHANGED <<persons, files, joins, history>>
  BY <1>4 DEF Proceed, Lose, Write, ReadJoins, Drop, LookForFile, AllAttached, InsertFile, InsertJoin,
              ReadUnused, Collect, DeleteOwner, Fill, Fail, BreakDeadlock, Shared
<1> QED
  BY <1>1, <1>2, <1>3, <1>4 DEF Next

\* The content of a file that an owner has before and after a step is not lost
\* in it, whatever other requests collect (file/domain.ex:102-115).
THEOREM ContentIsKept == Spec => ContentKept
<1>1. ASSUME Inv, [Next]_vars, NEW h \in Hashes,
             files[h] = "full", h \in HashesOf(joins), h \in HashesOf(joins')
      PROVE  files'[h] = "full"
  <2>1. CASE UNCHANGED <<persons, files, joins, history>>
    BY <1>1, <2>1
  <2>2. ASSUME NEW c \in Clients, Commit(c) PROVE files'[h] = "full"
    <3>1. PICK s : s = tx[c]
      OBVIOUS
    <3>2. Fits(s) /\ s.pc = "commit" /\ joins' = (joins \ s.dropped) \cup s.added
      BY <1>1, <2>2, <3>1, CommitIs
    <3>3. h \notin s.inserted
      BY <1>1, <3>2 DEF Fits
    <3>4. h \notin s.removed
      BY <1>1, <3>2 DEF Fits, HashesOf
    <3> QED
      BY <1>1, <2>2, <3>1, <3>3, <3>4, FilesNext
  <2> QED
    BY <1>1, <2>1, <2>2, OnlyCommits
<1>2. Inv /\ [Next]_vars =>
        [\A h \in Hashes : files[h] = "full" /\ h \in HashesOf(joins) /\ h \in HashesOf(joins')
                             => files'[h] = "full"]_vars
  BY <1>1
<1> QED
  BY <1>2, Inductive, PTL DEF Spec, ContentKept

-----------------------------------------------------------------------------
(* Verifications                                                            *)

\* A commit adds its own entry at the end of the history, or none.
LEMMA HistoryEntries ==
  ASSUME Inv, NEW c \in Clients, Commit(c), NEW s, s = tx[c]
  PROVE  /\ Len(history) \in Nat /\ DOMAIN history = 1..Len(history)
         /\ \A i \in DOMAIN history : i \in DOMAIN history' /\ history'[i] = history[i]
         /\ ~Attaches(s) => DOMAIN history' = DOMAIN history
         /\ Attaches(s) =>
              /\ DOMAIN history' = 1..(Len(history) + 1)
              /\ history'[Len(history) + 1] = [id |-> s.id, req |-> s.req, before |-> s.before]
<1>1. history \in Seq([id: Nat, req: Requests, before: SUBSET Nat])
  BY DEF Inv, Committed
<1>2. Len(history) \in Nat /\ DOMAIN history = 1..Len(history)
  BY <1>1
<1>3. CASE ~Attaches(s)
  <2>1. history' = history
    BY <1>3, CommitIs
  <2> QED
    BY <1>2, <1>3, <2>1
<1>4. CASE Attaches(s)
  <2>1. PICK e : e = [id |-> s.id, req |-> s.req, before |-> s.before]
    OBVIOUS
  <2>2. history' = Append(history, e)
    BY <1>4, <2>1, CommitIs
  <2>3. /\ DOMAIN history' = 1..(Len(history) + 1) /\ history'[Len(history) + 1] = e
        /\ \A i \in 1..Len(history) : i \in 1..(Len(history) + 1) /\ history'[i] = history[i]
    BY <1>1, <1>2, <2>2
  <2> QED
    BY <1>2, <1>4, <2>1, <2>3
<1> QED
  BY <1>3, <1>4

LEMMA VerifiedNext == Inv /\ Verified /\ [Next]_vars => Verified'
<1> SUFFICES ASSUME Inv, Verified, [Next]_vars PROVE Verified'
  OBVIOUS
<1>1. tokens \subseteq tokens'
  <2>1. CASE SendToken
    BY <2>1 DEF SendToken
  <2>2. CASE UNCHANGED tokens
    BY <2>2
  <2>3. ASSUME NEW c \in Clients PROVE Create(c) \/ Update(c) \/ Delete(c) \/ Verify(c) \/ UploadContent(c)
                                         \/ Proceed(c) \/ Lose(c) => UNCHANGED tokens
    BY DEF Create, Update, Delete, Verify, UploadContent, Proceed, Lose, Write, ReadJoins, Drop, LookForFile,
           AllAttached, InsertFile, InsertJoin, ReadUnused, Collect, DeleteOwner, Fill, Fail, BreakDeadlock,
           Commit, Shared
  <2> QED
    BY <2>1, <2>2, <2>3 DEF Next, vars
<1>2. CASE UNCHANGED <<persons, files, joins, history>>
  BY <1>1, <1>2 DEF Verified
<1>3. ASSUME NEW c \in Clients, Commit(c) PROVE Verified'
  <2>1. PICK s : s = tx[c]
    OBVIOUS
  <2>2. /\ Sound(s) /\ Fits(s) /\ s.pc = "commit" /\ s.req \in Requests
        /\ Attaches(s) \/ s.req.op \in {"upload", "delete"}
    BY <1>3, <2>1, CommitIs
  <2>3. PICK n \in Nat : n = Len(history)
    BY <1>3, <2>1, HistoryEntries
  <2>4. /\ DOMAIN history = 1..n
        /\ \A i \in DOMAIN history : i \in DOMAIN history' /\ history'[i] = history[i] /\ history[i].req \in Requests
        /\ ~Attaches(s) => DOMAIN history' = 1..n
        /\ Attaches(s) =>
             /\ DOMAIN history' = 1..(n + 1)
             /\ history'[n + 1] = [id |-> s.id, req |-> s.req, before |-> s.before]
    <3>1. history \in Seq([id: Nat, req: Requests, before: SUBSET Nat])
      BY DEF Inv, Committed
    <3>2. \A i \in DOMAIN history : history[i].req \in Requests
      <4>1. PICK Entries : Entries = [id: Nat, req: Requests, before: SUBSET Nat]
        OBVIOUS
      <4>2. \A e \in Entries : e.req \in Requests
        BY <4>1
      <4>3. history \in Seq(Entries)
        BY <3>1, <4>1
      <4>4. \A i \in DOMAIN history : history[i] \in Entries
        BY <4>3
      <4> QED
        BY <4>2, <4>4
    <3> QED
      BY <1>3, <2>1, <2>3, <3>2, HistoryEntries
  <2>5. /\ \A o \in Persons : o # s.req.owner => persons'[o] = persons[o]
        /\ \A o \in Persons : o = s.req.owner =>
              /\ s.req.op = "create" => persons'[o] = "unverified" /\ persons[o] = "free"
              /\ s.req.op = "delete" => persons'[o] = "deleted"
              /\ s.req.op \notin {"create", "delete"} =>
                   persons'[o] = persons[o] \/ (persons'[o] = "verified" /\ s.req.op = "verify")
              /\ s.req.op = "verify" /\ s.locked => persons'[o] = "verified"
    BY <1>3, <2>1, PersonsNext
  <2>6. \A req \in Requests : req.op = "verify" => req.owner \in Persons
    BY DEF Requests
  <2>7. ASSUME NEW i \in DOMAIN history', history'[i].req.op = "verify"
        PROVE  /\ persons'[history'[i].req.owner] \in {"verified", "deleted"}
               /\ history'[i].req.owner \in tokens'
    <3>1. CASE i \in DOMAIN history
      <4>1. PICK o : o = history[i].req.owner
        OBVIOUS
      <4>2. o \in Persons /\ persons[o] \in {"verified", "deleted"} /\ o \in tokens
        BY <2>4, <2>6, <2>7, <3>1, <4>1 DEF Verified
      <4>3. persons'[o] \in {"verified", "deleted"}
        BY <2>5, <4>2
      <4> QED
        BY <1>1, <2>4, <3>1, <4>1, <4>2, <4>3
    <3>2. CASE i \notin DOMAIN history
      <4>1. Attaches(s) /\ history'[i] = [id |-> s.id, req |-> s.req, before |-> s.before]
        BY <2>3, <2>4, <3>2
      <4>2. history'[i].req = s.req /\ s.req.op = "verify" /\ s.req.owner \in Persons
        BY <2>2, <2>6, <2>7, <4>1
      <4>3. s.req.owner \in tokens /\ (s.locked \/ persons[s.req.owner] \in {"verified", "deleted"})
        BY <2>2, <4>2 DEF Sound, Fits
      <4>4. persons'[s.req.owner] \in {"verified", "deleted"}
        BY <2>5, <4>2, <4>3
      <4> QED
        BY <1>1, <4>2, <4>3, <4>4
    <3> QED
      BY <3>1, <3>2
  <2>8. ASSUME NEW o \in Persons, persons'[o] = "verified"
        PROVE  \E i \in DOMAIN history' : history'[i].req.owner = o /\ history'[i].req.op = "verify"
    <3>1. CASE persons[o] = "verified"
      <4>1. PICK i \in DOMAIN history : history[i].req.owner = o /\ history[i].req.op = "verify"
        BY <3>1 DEF Verified
      <4> QED
        BY <2>4, <4>1
    <3>2. CASE persons[o] # "verified"
      <4>1. o = s.req.owner /\ s.req.op = "verify"
        BY <2>5, <2>8, <3>2
      <4>2. n + 1 \in DOMAIN history' /\ history'[n + 1].req = s.req
        BY <2>3, <2>4, <4>1 DEF Attaches
      <4> QED
        BY <4>1, <4>2
    <3> QED
      BY <3>1, <3>2
  <2> QED
    BY <2>7, <2>8 DEF Verified
<1> QED
  BY <1>2, <1>3, OnlyCommits

\* A person is verified exactly when a verification with a token sent to her
\* was committed (verify_email_verification, vf/person/domain.ex:88-97).
THEOREM VerifiedOnlyByVerification == Spec => []VerifiedByVerification
<1>1. Init => Verified
  <2> SUFFICES ASSUME Init PROVE Verified
    OBVIOUS
  <2>1. history = <<>> /\ persons \in [Persons -> {"free", "unverified"}]
    BY DEF Init
  <2> QED
    BY <2>1 DEF Verified
<1>2. Spec => []Verified
  BY <1>1, VerifiedNext, Inductive, PTL DEF Spec
<1>3. Verified => VerifiedByVerification
  <2> SUFFICES ASSUME Verified, NEW o \in Persons, Exists(o)
               PROVE  persons[o] = "verified"
                        <=> \E i \in DOMAIN history :
                              history[i].req.owner = o /\ history[i].req.op = "verify" /\ o \in tokens
    BY DEF VerifiedByVerification
  <2> QED
    BY DEF Verified, Exists
<1> QED
  BY <1>2, <1>3, PTL

-----------------------------------------------------------------------------
(* Images                                                                   *)

LEMMA ImagedNext == Inv /\ Imaged /\ [Next]_vars => Imaged'
<1> SUFFICES ASSUME Inv, Imaged, [Next]_vars PROVE Imaged'
  OBVIOUS
<1>1. CASE UNCHANGED <<persons, files, joins, history>>
  BY <1>1 DEF Imaged, IsLast, HasImagesOf, HashesOf, Exists
<1>2. ASSUME NEW c \in Clients, Commit(c), NEW o \in Persons, Exists(o)',
             \E i \in DOMAIN history' : history'[i].req.owner = o
      PROVE  \E i \in DOMAIN history' : IsLast(o, i)' /\ HasImagesOf(o, i)'
  <2>1. PICK s : s = tx[c]
    OBVIOUS
  <2>2. /\ s \in TxType /\ Sound(s) /\ Fits(s) /\ s.pc = "commit" /\ s.id \notin HistoryIds /\ s.id # 0
        /\ Attaches(s) \/ s.req.op \in {"upload", "delete"}
        /\ joins' = (joins \ s.dropped) \cup s.added
    BY <1>2, <2>1, CommitIs DEF Fits
  <2>3. PICK n \in Nat : n = Len(history)
    BY <1>2, <2>1, HistoryEntries
  <2>4. PICK H : H = history'
    OBVIOUS
  <2>5. /\ DOMAIN history = 1..n
        /\ \A i \in DOMAIN history : i \in DOMAIN H /\ H[i] = history[i]
        /\ ~Attaches(s) => DOMAIN H = 1..n
        /\ Attaches(s) => DOMAIN H = 1..(n + 1) /\ H[n + 1] = [id |-> s.id, req |-> s.req, before |-> s.before]
    BY <1>2, <2>1, <2>3, <2>4, HistoryEntries
  <2>6. CASE s.req.owner = o /\ Attaches(s)
    <3>1. n + 1 \in DOMAIN H /\ H[n + 1].id = s.id /\ H[n + 1].req = s.req /\ H[n + 1].before = s.before
      BY <2>3, <2>5, <2>6
    <3>2. \A k \in DOMAIN H : k <= n + 1
      BY <2>3, <2>5, <2>6
    <3>3. IsLast(o, n + 1)'
      BY <2>4, <2>6, <3>1, <3>2 DEF IsLast
    <3>4. ASSUME NEW j PROVE j \in joins' /\ j.owner = o /\ j.request = s.id <=> j \in s.added
      BY <2>2, <2>6 DEF Sound, Inv, Committed
    <3>5. HashesOf(s.added) = ToSet(Images(s.req))
      <4>1. s.todo = <<>> /\ HashesOf(s.added) \cup ToSet(s.todo) = ToSet(Images(s.req))
        BY <2>2, <2>6 DEF Sound
      <4>2. ToSet(<<>>) = {}
        BY DEF ToSet
      <4> QED
        BY <4>1, <4>2
    <3>6. {j \in joins' : j.owner = o /\ j.request = s.id} = s.added
      BY <3>4
    <3>7. ASSUME NEW j \in joins', j.owner = o, j.request # s.id PROVE j.request \notin s.before \cup {0}
      <4>1. j \in joins /\ j \notin s.dropped
        BY <2>2, <3>7 DEF Sound
      <4> QED
        BY <2>2, <2>6, <3>7, <4>1 DEF Fits, Clears
    <3>8. HasImagesOf(o, n + 1)'
      BY <2>4, <3>1, <3>5, <3>6, <3>7 DEF HasImagesOf
    <3> QED
      BY <2>4, <3>1, <3>3, <3>8
  <2>7. CASE s.req.owner # o
    <3>1. persons'[o] = persons[o]
      BY <1>2, <2>1, <2>7, PersonsNext
    <3>2. Exists(o)
      BY <1>2, <3>1 DEF Exists
    <3>3. ASSUME NEW k \in DOMAIN H, H[k].req.owner = o PROVE k \in DOMAIN history
      BY <2>3, <2>5, <2>7, <3>3
    <3>4. PICK i \in DOMAIN history : IsLast(o, i) /\ HasImagesOf(o, i)
      <4>1. \E k \in DOMAIN history : history[k].req.owner = o
        BY <1>2, <2>4, <2>5, <3>3
      <4> QED
        BY <3>2, <4>1 DEF Imaged
    <3>5. IsLast(o, i)'
      BY <2>4, <2>5, <3>3, <3>4 DEF IsLast
    <3>6. \A j : j \in joins' /\ j.owner = o <=> j \in joins /\ j.owner = o
      BY <2>2, <2>7 DEF Sound
    <3>7. {j \in joins' : j.owner = o /\ j.request = H[i].id} = {j \in joins : j.owner = o /\ j.request = history[i].id}
      BY <2>5, <3>4, <3>6
    <3>8. HasImagesOf(o, i)'
      BY <2>4, <2>5, <3>4, <3>6, <3>7 DEF HasImagesOf
    <3> QED
      BY <2>4, <2>5, <3>4, <3>5, <3>8
  <2>8. s.req.owner = o => Attaches(s)
    <3>1. ~(s.req.owner = o /\ s.req.op = "delete")
      BY <1>2, <2>1, PersonsNext DEF Exists
    <3>2. ~(s.req.owner = o /\ s.req.op = "upload")
      BY <2>2, NoOneAssumption DEF Sound, Requests
    <3> QED
      BY <2>2, <3>1, <3>2
  <2> QED
    BY <2>6, <2>7, <2>8
<1>3. ASSUME NEW c \in Clients, Commit(c) PROVE Imaged'
  BY <1>2, <1>3 DEF Imaged
<1> QED
  BY <1>1, <1>3, OnlyCommits

\* An owner has the images that the last committed update named, and others
\* only from requests that overlapped it (file/domain.ex:62-115).
THEOREM ImagesAreLast == Spec => []ImagesOfLastUpdate
<1>1. Init => Imaged
  <2>1. Init => history = <<>>
    BY DEF Init
  <2> QED
    BY <2>1 DEF Imaged
<1>2. Spec => []Imaged
  BY <1>1, ImagedNext, Inductive, PTL DEF Spec
<1>3. Inv /\ Imaged => ImagesOfLastUpdate
  <2> SUFFICES ASSUME Inv, Imaged, NEW o \in Persons, Exists(o),
                      \E i \in DOMAIN history : history[i].req.owner = o
               PROVE  /\ HashesOf({j \in {j \in joins : j.owner = o} : j.request = LastWrite(o).id})
                           = ToSet(Images(LastWrite(o).req))
                      /\ \A j \in {j \in joins : j.owner = o} :
                           j.request # LastWrite(o).id => j.request \notin LastWrite(o).before \cup {0}
    BY DEF ImagesOfLastUpdate
  <2>1. PICK i \in DOMAIN history : IsLast(o, i) /\ HasImagesOf(o, i)
    BY DEF Imaged
  <2>2. history \in Seq([id: Nat, req: Requests, before: SUBSET Nat])
    BY DEF Inv, Committed
  <2> DEFINE commits == {k \in DOMAIN history : history[k].req.owner = o}
  <2>3. i \in commits /\ \A k \in commits : k <= i
    BY <2>1 DEF IsLast
  <2>4. \A m \in commits : (\A k \in commits : k <= m) => m = i
    <3>1. DOMAIN history \subseteq Nat
      BY <2>2
    <3> QED
      BY <2>3, <3>1
  <2>5. (CHOOSE m \in commits : \A k \in commits : k <= m) = i
    BY <2>3, <2>4
  <2>6. LastWrite(o) = history[i]
    BY <2>5 DEF LastWrite
  <2>7. {j \in {j \in joins : j.owner = o} : j.request = history[i].id}
          = {j \in joins : j.owner = o /\ j.request = history[i].id}
    OBVIOUS
  <2> QED
    BY <2>1, <2>6, <2>7 DEF HasImagesOf
<1> QED
  BY <1>2, <1>3, Inductive, PTL
=============================================================================
