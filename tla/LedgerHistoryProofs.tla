------------------------ MODULE LedgerHistoryProofs -------------------------
(***************************************************************************)
(* What a ledger's rows say of its history, for every ledger: the chain of *)
(* previous events is complete, events around a process are paired, stages *)
(* and locations are those of the last event that set them, the holders    *)
(* those to whom the log hands a resource over, and the ledger keeps a     *)
(* journal.  Then what it adds up to: the quantities of a resource are a   *)
(* replay of the log, those of a specification are what was raised and     *)
(* produced, and what is not onhand is in some process.                    *)
(***************************************************************************)
EXTENDS LedgerProofs, LedgerHistory, RunningSumTheorems

-----------------------------------------------------------------------------
(* The chain of previous events *)

\* Mentions and creations of earlier events stay what they were.
LEMMA OldMentions ==
  ASSUME TypeOK, NEW e, Posts(e), NEW r, NEW n, n = NextEvent
  PROVE  /\ \A i \in EventIds : /\ Mentions(i, r)' <=> Mentions(i, r)
                                /\ Creates(i, r)' <=> Creates(i, r)
         /\ Mentions(n, r)' <=> (e.from = r \/ e.to = r)
         /\ Creates(n, r)' <=> /\ e.from = r \/ e.to = r
                               /\ \A i \in EventIds : ~Mentions(i, r)
<1>1. \A i \in EventIds : Mentions(i, r)' <=> Mentions(i, r)
  BY OldEvents DEF Mentions
<1>2. \A i \in EventIds : \A j \in 1..(i - 1) : j \in EventIds
  BY Rows DEF EventIds
<1>3. \A i \in EventIds : Creates(i, r)' <=> Creates(i, r)
  BY <1>1, <1>2 DEF Creates
<1>4. Mentions(n, r)' <=> (e.from = r \/ e.to = r)
  BY OldEvents DEF Mentions
<1>5. 1..(n - 1) = EventIds
  BY Rows DEF NextEvent, EventIds
<1>6. Creates(n, r)' <=> /\ e.from = r \/ e.to = r
                         /\ \A i \in EventIds : ~Mentions(i, r)
  BY <1>1, <1>4, <1>5 DEF Creates
<1> QED
  BY <1>1, <1>3, <1>4, <1>6

\* A posted event joins the trail of the resource it goes through and of the
\* one it makes, and no other.
LEMMA TrailGrows ==
  ASSUME TypeOK, PreviousChain, NEW e, Posts(e), NEW n, n = NextEvent
  PROVE  /\ \A r \in ResourceIds :
              /\ Trail(r)' = IF e.from = r THEN Trail(r) \cup {n} ELSE Trail(r)
              /\ \E i \in EventIds : Creates(i, r)'
         /\ \A r : r = NextResource /\ Len(resources') = NextResource =>
              Trail(r)' = {n} /\ Creates(n, r)'
<1>1. ASSUME NEW r \in ResourceIds
      PROVE  Trail(r)' = IF e.from = r THEN Trail(r) \cup {n} ELSE Trail(r)
  <2>1. ~(Creates(n, r)')
    BY OldMentions DEF PreviousChain, Creates
  <2>2. \A i \in EventIds : (i \in Trail(r)') <=> i \in Trail(r)
    BY OldEvents, OldMentions DEF Trail
  <2>3. (n \in Trail(r)') <=> e.from = r
    BY <2>1, OldEvents DEF Trail
  <2>4. Trail(r) \subseteq EventIds /\ Trail(r)' \subseteq EventIds \cup {n}
    BY OldEvents DEF Trail
  <2> QED
    BY <2>2, <2>3, <2>4, OldEvents
<1>2. ASSUME NEW r, r = NextResource, Len(resources') = NextResource
      PROVE  Trail(r)' = {n} /\ Creates(n, r)'
  <2>1. \A i \in EventIds : ~Mentions(i, r)
    BY <1>2, Rows DEF TypeOK, Mentions, ResourceIds, NextResource, Null
  <2>2. e.from = r \/ e.to = r
    BY <1>2 DEF Posts, Chained
  <2>3. Creates(n, r)'
    BY <2>1, <2>2, OldMentions
  <2>4. \A i \in EventIds : ~(Creates(i, r)') /\ events'[i].from # r
    BY <2>1, OldMentions, OldEvents DEF Creates, Mentions
  <2>5. Trail(r)' = {n}
    BY <2>3, <2>4, OldEvents DEF Trail
  <2> QED
    BY <2>3, <2>5
<1>3. \A r \in ResourceIds : \E i \in EventIds : Creates(i, r)'
  BY OldMentions DEF PreviousChain
<1> QED
  BY <1>1, <1>2, <1>3

\* Being the latest before n survives what is not earlier than n.
LEMMA LatestBefore ==
  ASSUME NEW S, NEW n \in Nat, S \subseteq Nat, NEW x \in Nat, NEW m \in Nat,
         n < m \/ n = m, IsLatest(x, S, n)
  PROVE  IsLatest(x, S \cup {m}, n)
BY DEF IsLatest

\* What is the latest before n is so before n + 1, unless n joins.
LEMMA LatestAfter ==
  ASSUME NEW S, NEW n \in Nat, S \subseteq Nat, \A j \in S : j < n, NEW x \in Nat
  PROVE  /\ IsLatest(n, S \cup {n}, n + 1)
         /\ IsLatest(x, S, n) => IsLatest(x, S, n + 1)
BY DEF IsLatest, Null

\* A resource that was there gets the event at the head of its chain, if the
\* event goes through it, and keeps its chain otherwise.
LEMMA OldChain ==
  ASSUME TypeOK, PreviousChain, NEW e, Posts(e), NEW n \in Nat, n = NextEvent,
         NEW r \in ResourceIds, NEW T, T = Trail(r)'
  PROVE  /\ IsLatest(resources'[r].prev, T, n + 1)
         /\ \A i \in EventIds' : events'[i].from = r => IsLatest(events'[i].prev, T, i)
<1>1. /\ Trail(r) \subseteq EventIds /\ EventIds \subseteq Nat
      /\ \A i \in EventIds : i < n
  BY Rows DEF Trail, EventIds, NextEvent
<1>2. T = IF e.from = r THEN Trail(r) \cup {n} ELSE Trail(r)
  BY TrailGrows
<1>3. IsLatest(resources[r].prev, Trail(r), n)
  BY DEF PreviousChain
<1>4. resources'[r].prev = IF r = e.from THEN n ELSE resources[r].prev
  BY DEF Posts, Chained
<1>5. resources[r].prev \in Nat
  BY Rows DEF TypeOK
<1>6. Trail(r) \subseteq Nat /\ \A j \in Trail(r) : j < n
  BY <1>1
<1>7. IsLatest(resources'[r].prev, T, n + 1)
  <2>1. /\ IsLatest(n, Trail(r) \cup {n}, n + 1)
        /\ IsLatest(resources[r].prev, Trail(r), n + 1)
    BY <1>3, <1>5, <1>6, LatestAfter
  <2>2. CASE e.from = r
    BY <2>1, <2>2, <1>2, <1>4
  <2>3. CASE e.from # r
    BY <2>1, <2>3, <1>2, <1>4
  <2> QED
    BY <2>2, <2>3
<1>8. ASSUME NEW i \in EventIds, events'[i].from = r
      PROVE  IsLatest(events'[i].prev, T, i)
  <2>1. IsLatest(events[i].prev, Trail(r), i) /\ events'[i].prev = events[i].prev
    BY <1>8, OldEvents DEF PreviousChain
  <2>2. events[i].prev \in Nat
    BY Rows DEF TypeOK, EventIds
  <2>3. Trail(r) \subseteq Nat /\ i \in Nat /\ i < n
    BY <1>1
  <2>4. IsLatest(events[i].prev, Trail(r) \cup {n}, i)
    BY <2>1, <2>2, <2>3, LatestBefore
  <2> QED
    BY <1>2, <2>1, <2>4
<1>9. ASSUME e.from = r
      PROVE  IsLatest(e.prev, T, n)
  <2>1. e.prev = resources[r].prev
    BY <1>9 DEF Posts, Appends, Before
  <2> QED
    BY <1>2, <1>3, <1>5, <1>9, <1>6, <2>1, LatestBefore
<1> QED
  BY <1>7, <1>8, <1>9, OldEvents

\* A new resource has the event that made it for a chain.
LEMMA NewChain ==
  ASSUME TypeOK, PreviousChain, NEW e, Posts(e), NEW n \in Nat, n = NextEvent,
         NEW r, r = NextResource, Len(resources') = NextResource, NEW T, T = Trail(r)'
  PROVE  /\ IsLatest(resources'[r].prev, T, n + 1)
         /\ \A i \in EventIds' : events'[i].from = r => IsLatest(events'[i].prev, T, i)
<1>1. T = {n}
  BY TrailGrows
<1>2. resources'[r].prev = n
  BY DEF Posts, Chained
<1>3. IsLatest(resources'[r].prev, T, n + 1)
  BY <1>1, <1>2 DEF IsLatest
<1>4. \A i \in EventIds : events'[i].from # r
  BY Rows, OldEvents DEF TypeOK, ResourceIds, NextResource, Null
<1>5. e.from = r => e.prev = Null
  BY Rows DEF Posts, Appends, Before, ResourceIds, NextResource
<1>6. e.from = r => IsLatest(e.prev, T, n)
  BY <1>1, <1>5 DEF IsLatest
<1> QED
  BY <1>3, <1>4, <1>6, OldEvents

LEMMA PostsKeepsChain ==
  ASSUME TypeOK, PreviousChain, NEW e, Posts(e)
  PROVE  PreviousChain'
<1>1. PICK n \in Nat : n = NextEvent
  BY Rows DEF NextEvent
<1>2. NextEvent' = n + 1
  BY <1>1, OldEvents
<1>3. ASSUME NEW r \in ResourceIds', NEW T, T = Trail(r)'
      PROVE  /\ \E i \in EventIds' : Creates(i, r)'
             /\ IsLatest(resources'[r].prev, T, n + 1)
             /\ \A i \in EventIds' : events'[i].from = r => IsLatest(events'[i].prev, T, i)
  <2>1. r \in ResourceIds \/ (r = NextResource /\ Len(resources') = NextResource)
    BY Rows DEF Posts, Placed, ResourceIds, NextResource
  <2>2. \E i \in EventIds' : Creates(i, r)'
    BY <1>1, <2>1, TrailGrows, OldEvents
  <2> QED
    BY <1>1, <1>3, <2>1, <2>2, OldChain, NewChain
<1> QED
  BY <1>2, <1>3 DEF PreviousChain, IsLatest

LEMMA PacksKeepsChain ==
  ASSUME TypeOK, PreviousChain, Packs
  PROVE  PreviousChain'
<1>1. /\ events' = events /\ ResourceIds' = ResourceIds
      /\ \A r \in ResourceIds : resources'[r].prev = resources[r].prev
  BY DEF Packs, ResourceIds
<1>2. \A r : Trail(r)' = Trail(r) /\ \A i : Creates(i, r)' <=> Creates(i, r)
  BY <1>1 DEF Trail, Creates, Mentions, EventIds
<1> QED
  BY <1>1, <1>2 DEF PreviousChain, EventIds, NextEvent, IsLatest

\* Following the previous events from any resource visits its whole trail,
\* newest first, whatever the requests (handle_insert, previous_event_id).
THEOREM ChainComplete == Spec => []PreviousChain
<1>1. Init => PreviousChain
  BY DEF Init, PreviousChain, ResourceIds
<1>2. TypeOK /\ PreviousChain /\ [Next]_vars => PreviousChain'
  <2>1. ASSUME TypeOK, PreviousChain, Next
        PROVE  PreviousChain'
    BY <2>1, NextPosts, PostsKeepsChain, PacksKeepsChain
  <2>2. ASSUME PreviousChain, UNCHANGED vars
        PROVE  PreviousChain'
    BY <2>2 DEF vars, PreviousChain, ResourceIds, EventIds, NextEvent, Trail, Creates,
       Mentions, IsLatest
  <2> QED
    BY <2>1, <2>2
<1> QED
  BY <1>1, <1>2, TypeCorrect, PTL DEF Spec

-----------------------------------------------------------------------------
(* Pairs of events around a process *)

\* Event i answers an earlier event j.
Answers(i, j) ==
  /\ events[j].action = Opening(events[i].action)
  /\ events[j].from = events[i].from
  /\ events[j].inputOf = events[i].outputOf
  /\ events[j].provider = events[i].provider
  /\ events[j].unit = events[i].unit
  /\ events[i].action = "modify" => events[j].quantity = events[i].quantity

\* Events i and j do the same to one resource in one process.
Doubles(i, j) ==
  /\ events[j].action = events[i].action
  /\ events[j].from = events[i].from
  /\ events[j].inputOf = events[i].inputOf
  /\ events[j].outputOf = events[i].outputOf

LEMMA PairsAre ==
  PairsAreOneToOne <=>
    \A i \in EventIds :
      /\ events[i].action \in {"dropoff", "modify"} => \E j \in 1..(i - 1) : Answers(i, j)
      /\ events[i].action \in {"pickup", "dropoff", "accept", "modify"} =>
           \A j \in EventIds \ {i} : ~Doubles(i, j)
BY DEF PairsAreOneToOne, Answers, Doubles

\* The pairing of a log that grew by f.
LEMMA PostsKeepPairs ==
  ASSUME TypeOK, PairsAreOneToOne, NEW f, Posts(f), Books(f)
  PROVE  PairsAreOneToOne'
<1> DEFINE Acts == {"pickup", "dropoff", "accept", "modify"}
<1>1. PICK n \in Nat : n = NextEvent
  BY Rows DEF NextEvent
<1>2. /\ EventIds = 1..(n - 1) /\ EventIds' = EventIds \cup {n} /\ n \notin EventIds
      /\ \A i \in EventIds : events'[i] = events[i]
      /\ events'[n] = f
  BY <1>1, OldEvents, Rows DEF EventIds, NextEvent
<1>3. \A i \in EventIds : i \in Nat /\ \A j \in 1..(i - 1) : j \in EventIds
  BY <1>2
<1>4. ASSUME NEW i \in EventIds, events[i].action \in {"dropoff", "modify"}
      PROVE  \E j \in 1..(i - 1) : Answers(i, j)'
  <2>1. PICK j \in 1..(i - 1) : Answers(i, j)
    BY <1>4, PairsAre
  <2>2. Answers(i, j)'
    BY <1>2, <1>3, <2>1 DEF Answers
  <2> QED
    BY <2>2
<1>5. ASSUME f.action \in {"dropoff", "modify"}
      PROVE  \E j \in 1..(n - 1) : Answers(n, j)'
  <2>1. PICK j \in EventIds :
          /\ InputEvents(Opening(f.action), f, f.outputOf) = {j}
          /\ f.provider = events[j].provider
          /\ f.unit = events[j].unit
          /\ f.action = "modify" => f.quantity = events[j].quantity
    BY <1>5 DEF Books, Checked, AnswerChecks
  <2>2. /\ events[j].action = Opening(f.action)
        /\ events[j].from = f.from /\ events[j].inputOf = f.outputOf
    BY <2>1 DEF InputEvents
  <2>3. Answers(n, j)'
    BY <1>2, <2>1, <2>2 DEF Answers
  <2> QED
    BY <1>2, <2>3
<1>6. ASSUME f.action \in Acts, NEW j \in EventIds
      PROVE  ~ /\ events[j].action = f.action
               /\ events[j].from = f.from
               /\ events[j].inputOf = f.inputOf
               /\ events[j].outputOf = f.outputOf
  <2>1. CASE f.action \in {"pickup", "accept"}
    BY <2>1 DEF Books, Checked, OpeningChecks, InputEvents
  <2>2. CASE f.action \in {"dropoff", "modify"}
    BY <2>2 DEF Books, Checked, AnswerChecks, OutputEvents
  <2> QED
    BY <1>6, <2>1, <2>2
<1>7. ASSUME NEW i \in EventIds', NEW j \in EventIds' \ {i}, events'[i].action \in Acts
      PROVE  ~(Doubles(i, j)')
  <2>1. CASE i = n
    BY <1>2, <1>6, <1>7, <2>1 DEF Doubles
  <2>2. CASE i # n /\ j = n
    <3>1. events'[j].action = events'[i].action => f.action \in Acts
      BY <1>2, <1>7, <2>2
    <3> QED
      BY <1>2, <1>6, <2>2, <3>1 DEF Doubles
  <2>3. CASE i # n /\ j # n
    <3>1. i \in EventIds /\ j \in EventIds \ {i} /\ events[i].action \in Acts
      BY <1>2, <1>7, <2>3
    <3>2. ~Doubles(i, j)
      BY <3>1, PairsAre
    <3> QED
      BY <1>2, <3>1, <3>2 DEF Doubles
  <2> QED
    BY <2>1, <2>2, <2>3
<1>8. ASSUME NEW i \in EventIds', events'[i].action \in {"dropoff", "modify"}
      PROVE  \E j \in 1..(i - 1) : Answers(i, j)'
  BY <1>2, <1>4, <1>5, <1>8
<1> QED
  BY <1>7, <1>8 DEF PairsAreOneToOne, Answers, Doubles

\* Whatever the requests, a dropoff or a modify event answers one earlier
\* pickup or accept event, and none is doubled (the queries of the clauses for
\* events of the same resource and process).
THEOREM EventsArePaired == Spec => []PairsAreOneToOne
<1>1. Init => PairsAreOneToOne
  BY DEF Init, PairsAreOneToOne, EventIds
<1>2. TypeOK /\ PairsAreOneToOne /\ [Next]_vars => PairsAreOneToOne'
  <2>1. ASSUME TypeOK, PairsAreOneToOne, NEW f, Posts(f), Books(f)
        PROVE  PairsAreOneToOne'
    BY <2>1, PostsKeepPairs
  <2>2. ASSUME PairsAreOneToOne, UNCHANGED events
        PROVE  PairsAreOneToOne'
    BY <2>2 DEF PairsAreOneToOne, EventIds
  <2> QED
    BY <2>1, <2>2, Steps DEF Packs, vars
<1> QED
  BY <1>1, <1>2, TypeCorrect, PTL DEF Spec

-----------------------------------------------------------------------------
(* Stages and locations *)

Modifies(r) == {i \in EventIds : events[i].action = "modify" /\ events[i].from = r}

LEMMA StagesAre ==
  StageOfLastModify <=>
    \A r \in ResourceIds :
      \/ Modifies(r) = {} /\ (Raised(r) => resources[r].stage = Nil)
      \/ \E i \in Modifies(r) : /\ \A j \in Modifies(r) : j <= i
                                /\ resources[r].stage = BasedOn[events[i].outputOf]
BY DEF StageOfLastModify, Modifies

\* Rows that exist after a posting.
LEMMA RowsAfterPosting ==
  ASSUME TypeOK, NEW f, Posts(f), Books(f)
  PROVE  /\ NextResource \notin ResourceIds \cup {Null} /\ Null \notin ResourceIds
         /\ ResourceIds' = IF NextResource \in {f.from, f.to} THEN ResourceIds \cup {NextResource}
                           ELSE ResourceIds
         /\ \A i \in EventIds : events[i].from # NextResource /\ events[i].to # NextResource
<1>1. PICK m \in Nat : m = Len(resources)
  BY Rows
<1>2. ResourceIds = 1..m /\ NextResource = m + 1
  BY <1>1 DEF ResourceIds, NextResource
<1>3. NextResource \notin ResourceIds \cup {Null} /\ Null \notin ResourceIds
  BY <1>2 DEF Null
<1>4. Len(resources') = IF NextResource \in {f.from, f.to} THEN m + 1 ELSE m
  BY <1>1, <1>2 DEF Books, NewRow
<1>5. ResourceIds' = IF NextResource \in {f.from, f.to} THEN ResourceIds \cup {NextResource}
                     ELSE ResourceIds
  <2>1. CASE NextResource \in {f.from, f.to}
    <3>1. ResourceIds' = 1..(m + 1)
      BY <1>4, <2>1 DEF ResourceIds
    <3>2. 1..(m + 1) = 1..m \cup {m + 1}
      OBVIOUS
    <3> QED
      BY <1>2, <2>1, <3>1, <3>2
  <2>2. CASE NextResource \notin {f.from, f.to}
    <3>1. ResourceIds' = 1..m
      BY <1>4, <2>2 DEF ResourceIds
    <3> QED
      BY <1>2, <2>2, <3>1
  <2> QED
    BY <2>1, <2>2
<1>6. \A i \in EventIds : events[i].from # NextResource /\ events[i].to # NextResource
  BY <1>3 DEF TypeOK
<1> QED
  BY <1>3, <1>5, <1>6

LEMMA PostsKeepStages ==
  ASSUME TypeOK, PreviousChain, StageOfLastModify, NEW f, Posts(f), Books(f)
  PROVE  StageOfLastModify'
<1>1. PICK n \in Nat : n = NextEvent
  BY Rows DEF NextEvent
<1>2. /\ EventIds = 1..(n - 1) /\ EventIds' = EventIds \cup {n} /\ n \notin EventIds
      /\ \A i \in EventIds : events'[i] = events[i]
      /\ events'[n] = f
  BY <1>1, OldEvents, Rows DEF EventIds, NextEvent
<1>3. \A r : Modifies(r)' = IF f.action = "modify" /\ f.from = r THEN Modifies(r) \cup {n}
                            ELSE Modifies(r)
  BY <1>2 DEF Modifies
<1>4. ASSUME NEW r \in ResourceIds
      PROVE  \/ Modifies(r)' = {} /\ (Raised(r)' => resources'[r].stage = Nil)
             \/ \E i \in Modifies(r)' : /\ \A j \in Modifies(r)' : j <= i
                                        /\ resources'[r].stage = BasedOn[events'[i].outputOf]
  <2>1. CASE f.action = "modify" /\ f.from = r
    <3>1. resources'[r].stage = BasedOn[f.outputOf]
      BY <2>1 DEF Books, OldRows
    <3>2. n \in Modifies(r)' /\ \A j \in Modifies(r)' : j <= n
      BY <1>2, <1>3, <2>1 DEF Modifies
    <3> QED
      BY <1>2, <3>1, <3>2
  <2>2. CASE ~(f.action = "modify" /\ f.from = r)
    <3>1. resources'[r].stage = resources[r].stage
      BY <2>2 DEF Books, OldRows
    <3>2. Modifies(r)' = Modifies(r) /\ \A i \in Modifies(r) : events'[i] = events[i]
      BY <1>2, <1>3, <2>2 DEF Modifies
    <3>3. \/ Modifies(r) = {} /\ (Raised(r) => resources[r].stage = Nil)
          \/ \E i \in Modifies(r) : /\ \A j \in Modifies(r) : j <= i
                                    /\ resources[r].stage = BasedOn[events[i].outputOf]
      BY StagesAre
    <3>4. Raised(r)' <=> Raised(r)
      <4>1. ~(Creates(n, r)')
        BY <1>1, OldMentions DEF PreviousChain, Creates
      <4> QED
        BY <1>1, <1>2, <4>1, OldMentions DEF Raised
    <3> QED
      BY <3>1, <3>2, <3>3, <3>4
  <2> QED
    BY <2>1, <2>2
<1>5. ASSUME NEW r, r = NextResource, NextResource \in {f.from, f.to}
      PROVE  Modifies(r)' = {} /\ resources'[r].stage = Nil
  <2>1. resources'[r].stage = Nil
    BY <1>5 DEF Books, NewRow
  <2>2. Modifies(r) = {}
    BY <1>5, RowsAfterPosting DEF Modifies
  <2>3. f.action # "modify"
    BY <1>5, RowsAfterPosting DEF Books, Checked, ShapeChecks, Raises, TransferActions
  <2> QED
    BY <1>3, <2>1, <2>2, <2>3
<1> QED
  BY <1>4, <1>5, RowsAfterPosting DEF StageOfLastModify, Modifies

LEMMA PackingKeepsStages ==
  ASSUME StageOfLastModify, Packs, NEW c, NEW k, Packing(c, k)
  PROVE  StageOfLastModify'
<1>1. /\ events' = events /\ EventIds' = EventIds /\ ResourceIds' = ResourceIds
      /\ \A r \in ResourceIds : resources'[r].stage = resources[r].stage
  BY DEF Packs, Packing, EventIds, ResourceIds
<1>2. \A r : Raised(r)' <=> Raised(r)
  BY <1>1 DEF Raised, Creates, Mentions
<1> QED
  BY <1>1, <1>2 DEF StageOfLastModify

\* The stage of a resource is that of the last process that modified it, and a
\* raised one has none before, in every reachable ledger.
THEOREM StagesFollowModifies == Spec => []StageOfLastModify
<1>1. Init => StageOfLastModify
  BY DEF Init, StageOfLastModify, ResourceIds
<1>2. TypeOK /\ PreviousChain /\ StageOfLastModify /\ [Next]_vars => StageOfLastModify'
  <2>1. ASSUME TypeOK, PreviousChain, StageOfLastModify, Next
        PROVE  StageOfLastModify'
    BY <2>1, Steps, PostsKeepStages, PackingKeepsStages
  <2>2. ASSUME StageOfLastModify, UNCHANGED vars
        PROVE  StageOfLastModify'
    BY <2>2 DEF vars, StageOfLastModify, ResourceIds, EventIds, Raised, Creates, Mentions
  <2> QED
    BY <2>1, <2>2
<1> QED
  BY <1>1, <1>2, TypeCorrect, ChainComplete, PTL DEF Spec

-----------------------------------------------------------------------------
(* The history variable *)

\* The history variable changes nothing about the ledger.
LEMMA HistoryIsLedger == HistorySpec => Spec
<1>1. HistoryInit => Init
  BY DEF HistoryInit
<1>2. [HistoryNext]_historyVars => [Next]_vars
  BY DEF HistoryNext, historyVars, vars
<1> QED
  BY <1>1, <1>2, PTL DEF HistorySpec, Spec

CarriedOK == carried \in Seq(SUBSET Nat) /\ Len(carried) = Len(events)

\* What is carried along with event f.
Carries(f) == carried' = Append(carried, Contents(f.from))

\* A step of the ledger books an event and what it carries along, or packs or
\* unpacks a resource.
LEMMA HistorySteps ==
  ASSUME TypeOK, HistoryNext
  PROVE  \/ \E f : Posts(f) /\ Books(f) /\ Carries(f)
         \/ /\ Packs /\ carried' = carried
            /\ \E c \in ResourceIds, k \in ResourceIds \cup {Null} : Packing(c, k)
<1>1. ASSUME NEW f, Posts(f)
      PROVE  Carries(f)
  <2>1. NewestEvent = f
    BY <1>1, OldEvents DEF NewestEvent
  <2>2. events' # events
    BY <1>1, OldEvents, Rows DEF NextEvent
  <2> QED
    BY <2>1, <2>2 DEF HistoryNext, Carries
<1>2. Packs => carried' = carried
  BY DEF Packs, HistoryNext
<1> QED
  BY <1>1, <1>2, Steps DEF HistoryNext

\* What earlier events carried along stays what it was.
LEMMA OldCarried ==
  ASSUME TypeOK, CarriedOK, NEW f, Posts(f), Carries(f), NEW n, n = NextEvent
  PROVE  /\ CarriedOK'
         /\ \A i \in EventIds : carried'[i] = carried[i]
         /\ carried'[n] = Contents(f.from)
<1>1. Contents(f.from) \in SUBSET Nat
  BY DEF Contents, ResourceIds
<1>2. /\ carried' \in Seq(SUBSET Nat) /\ Len(carried') = Len(carried) + 1
      /\ \A i \in 1..Len(carried) : carried'[i] = carried[i]
      /\ carried'[Len(carried) + 1] = Contents(f.from)
  BY <1>1, AppendIsSequence DEF CarriedOK, Carries
<1> QED
  BY <1>2, OldEvents DEF CarriedOK, EventIds, NextEvent

\* The lengths agree in every reachable ledger.
LEMMA CarriedIsTyped == HistorySpec => []CarriedOK
<1>1. HistoryInit => CarriedOK
  BY DEF HistoryInit, Init, CarriedOK
<1>2. TypeOK /\ CarriedOK /\ [HistoryNext]_historyVars => CarriedOK'
  <2>1. ASSUME TypeOK, CarriedOK, HistoryNext
        PROVE  CarriedOK'
    <3>1. ASSUME NEW f, Posts(f), Carries(f)
          PROVE  CarriedOK'
      BY <2>1, <3>1, OldCarried
    <3>2. Packs /\ carried' = carried => CarriedOK'
      BY <2>1 DEF Packs, CarriedOK
    <3> QED
      BY <2>1, <3>1, <3>2, HistorySteps
  <2>2. CarriedOK /\ UNCHANGED historyVars => CarriedOK'
    BY DEF CarriedOK, historyVars
  <2> QED
    BY <2>1, <2>2
<1> QED
  BY <1>1, <1>2, HistoryIsLedger, TypeCorrect, PTL DEF HistorySpec

\* An event makes the resource that was not there, and no other.
LEMMA NewestCreates ==
  ASSUME TypeOK, PreviousChain, NEW f, Posts(f), Books(f), NEW n, n = NextEvent,
         NEW r \in ResourceIds \cup {NextResource}
  PROVE  Creates(n, r)' <=> r = NextResource /\ r \in {f.from, f.to}
<1>1. CASE r \in ResourceIds
  <2>1. ~(Creates(n, r)')
    BY <1>1, OldMentions DEF PreviousChain, Creates
  <2> QED
    BY <1>1, <2>1, RowsAfterPosting
<1>2. CASE r = NextResource
  <2>1. \A i \in EventIds : ~Mentions(i, r)
    BY <1>2, RowsAfterPosting DEF Mentions
  <2> QED
    BY <1>2, <2>1, OldMentions
<1> QED
  BY <1>1, <1>2

-----------------------------------------------------------------------------
(* Locations *)

LEMMA PostsKeepLocations ==
  ASSUME TypeOK, PreviousChain, CarriedOK, LocationOfLastPlacement,
         NEW f, Posts(f), Books(f), Carries(f)
  PROVE  LocationOfLastPlacement'
<1>1. PICK n \in Nat : n = NextEvent
  BY Rows DEF NextEvent
<1>2. /\ EventIds = 1..(n - 1) /\ EventIds' = EventIds \cup {n} /\ n \notin EventIds
      /\ \A i \in EventIds : events'[i] = events[i]
      /\ events'[n] = f
  BY <1>1, OldEvents, Rows DEF EventIds, NextEvent
<1>3. \A r : \A i \in EventIds : Places(i, r)' <=> Places(i, r)
  BY <1>1, <1>2, OldMentions, OldCarried DEF Places
<1>4. ASSUME NEW r \in ResourceIds
      PROVE  \E i \in EventIds' : /\ Places(i, r)'
                                  /\ \A j \in EventIds' : Places(j, r)' => j <= i
                                  /\ resources'[r].location = events'[i].location
  <2>1. ~(Creates(n, r)')
    BY <1>1, OldMentions DEF PreviousChain, Creates
  <2>2. f.action = "dropoff" => f.from # Null
    BY RowsAfterPosting DEF Books, Checked, ShapeChecks
  <2>3. r \in carried'[n] <=> f.from # Null /\ resources[r].containedIn = f.from
    BY <1>1, OldCarried DEF Contents
  <2>4. Places(n, r)' <=> f.action = "dropoff" /\ Relocates(f, r)
    BY <1>2, <2>1, <2>2, <2>3 DEF Places, Relocates
  <2>5. resources'[r].location = IF f.action = "dropoff" /\ Relocates(f, r)
                                 THEN f.location ELSE resources[r].location
    BY DEF Books, OldRows
  <2>6. CASE f.action = "dropoff" /\ Relocates(f, r)
    <3>1. Places(n, r)' /\ resources'[r].location = events'[n].location
      BY <1>2, <2>4, <2>5, <2>6
    <3>2. \A j \in EventIds' : j <= n
      BY <1>2
    <3> QED
      BY <1>2, <3>1, <3>2
  <2>7. CASE ~(f.action = "dropoff" /\ Relocates(f, r))
    <3>1. PICK i \in EventIds : /\ Places(i, r)
                                /\ \A j \in EventIds : Places(j, r) => j <= i
                                /\ resources[r].location = events[i].location
      BY DEF LocationOfLastPlacement
    <3>2. \A j \in EventIds' : Places(j, r)' => j <= i
      BY <1>2, <1>3, <2>4, <2>7, <3>1
    <3>3. Places(i, r)' /\ i \in EventIds' /\ resources'[r].location = events'[i].location
      BY <1>2, <1>3, <2>5, <2>7, <3>1
    <3> QED
      BY <3>2, <3>3
  <2> QED
    BY <2>6, <2>7
<1>5. ASSUME NEW r, r = NextResource, NextResource \in {f.from, f.to}
      PROVE  \E i \in EventIds' : /\ Places(i, r)'
                                  /\ \A j \in EventIds' : Places(j, r)' => j <= i
                                  /\ resources'[r].location = events'[i].location
  <2>1. resources'[r].location = f.location
    BY <1>5 DEF Books, NewRow
  <2>2. Creates(n, r)'
    BY <1>1, <1>5, NewestCreates
  <2>3. \A j \in EventIds' : j <= n
    BY <1>2
  <2> QED
    BY <1>2, <2>1, <2>2, <2>3 DEF Places
<1>6. \A r \in ResourceIds' : r \in ResourceIds \/ (r = NextResource /\ NextResource \in {f.from, f.to})
  BY RowsAfterPosting
<1> QED
  BY <1>4, <1>5, <1>6 DEF LocationOfLastPlacement

LEMMA PackingKeepsLocations ==
  ASSUME LocationOfLastPlacement, Packs, carried' = carried, NEW c, NEW k, Packing(c, k)
  PROVE  LocationOfLastPlacement'
<1>1. /\ events' = events /\ EventIds' = EventIds /\ ResourceIds' = ResourceIds
      /\ \A r \in ResourceIds : resources'[r].location = resources[r].location
  BY DEF Packs, Packing, EventIds, ResourceIds
<1>2. \A i, r : Places(i, r)' <=> Places(i, r)
  BY <1>1 DEF Places, Creates, Mentions
<1> QED
  BY <1>1, <1>2 DEF LocationOfLastPlacement

\* A resource is where it was made or dropped off last, alone or in the container
\* it was in at that time, in every reachable ledger.
THEOREM LocationsFollowPlacements == HistorySpec => []LocationOfLastPlacement
<1>1. HistoryInit => LocationOfLastPlacement
  BY DEF HistoryInit, Init, LocationOfLastPlacement, ResourceIds
<1>2. TypeOK /\ PreviousChain /\ CarriedOK /\ LocationOfLastPlacement
        /\ [HistoryNext]_historyVars => LocationOfLastPlacement'
  <2>1. ASSUME TypeOK, PreviousChain, CarriedOK, LocationOfLastPlacement, HistoryNext
        PROVE  LocationOfLastPlacement'
    BY <2>1, HistorySteps, PostsKeepLocations, PackingKeepsLocations
  <2>2. ASSUME LocationOfLastPlacement, UNCHANGED historyVars
        PROVE  LocationOfLastPlacement'
    BY <2>2 DEF historyVars, LocationOfLastPlacement, ResourceIds, EventIds, Places,
       Creates, Mentions
  <2> QED
    BY <2>1, <2>2
<1> QED
  BY <1>1, <1>2, HistoryIsLedger, TypeCorrect, ChainComplete, CarriedIsTyped, PTL
     DEF HistorySpec

-----------------------------------------------------------------------------
(* Holders *)

Moves == {AccountingMoves, CustodyMoves}

\* Whom resource r was handed over to by earlier events stays what it was, and
\* the new event hands it over if it is one of acts and takes it along.
LEMMA HandingGrows ==
  ASSUME TypeOK, PreviousChain, CarriedOK, NEW f, Posts(f), Books(f), Carries(f),
         NEW n, n = NextEvent, NEW acts \in Moves
  PROVE  /\ \A r : \A i \in EventIds : HandsOver(i, r, acts)' <=> HandsOver(i, r, acts)
         /\ \A r \in ResourceIds : HandsOver(n, r, acts)' <=> f.action \in acts /\ Hands(f, r)
<1>1. /\ \A i \in EventIds : events'[i] = events[i]
      /\ events'[n] = f
  BY OldEvents
<1>2. ASSUME NEW r, NEW i \in EventIds
      PROVE  HandsOver(i, r, acts)' <=> HandsOver(i, r, acts)
  <2>1. /\ Creates(i, r)' <=> Creates(i, r)
        /\ carried'[i] = carried[i]
    BY OldMentions, OldCarried
  <2>2. PICK k : k = events[i].to
    OBVIOUS
  <2>3. Creates(i, k)' <=> Creates(i, k)
    BY OldMentions
  <2> QED
    BY <1>1, <2>1, <2>2, <2>3 DEF HandsOver
<1>3. ASSUME NEW r \in ResourceIds
      PROVE  HandsOver(n, r, acts)' <=> f.action \in acts /\ Hands(f, r)
  <2>1. ~(Creates(n, r)')
    BY OldMentions DEF PreviousChain, Creates
  <2>2. CASE f.action \in acts
    <3>1. f.action \in TransferActions
      BY <2>2 DEF Moves, AccountingMoves, CustodyMoves, TransferActions
    <3>2. f.from \in ResourceIds /\ f.to \in ResourceIds \cup {NextResource}
      BY <3>1 DEF Books, Checked, TransferChecks
    <3>3. PICK k : k = f.to
      OBVIOUS
    <3>4. Creates(n, k)' <=> k = NextResource
      BY <3>2, <3>3, NewestCreates
    <3>5. r \in carried'[n] <=> resources[r].containedIn = f.from
      BY <3>2, OldCarried, RowsAfterPosting DEF Contents
    <3> QED
      BY <1>1, <2>1, <2>2, <3>1, <3>3, <3>4, <3>5 DEF HandsOver, Hands
  <2>3. CASE f.action \notin acts
    BY <1>1, <2>1, <2>3 DEF HandsOver
  <2> QED
    BY <2>2, <2>3
<1> QED
  BY <1>2, <1>3

\* The holder of a resource after event n: its receiver if it hands the resource
\* over, and who was the holder otherwise.
LEMMA HoldingGrows ==
  ASSUME TypeOK, PreviousChain, CarriedOK, NEW f, Posts(f), Books(f), Carries(f),
         NEW n \in Nat, n = NextEvent, NEW acts \in Moves, NEW r \in ResourceIds, NEW a, NEW b,
         Has(a, r, n, acts), b = IF f.action \in acts /\ Hands(f, r) THEN f.receiver ELSE a
  PROVE  Has(b, r, n + 1, acts)'
<1>1. /\ EventIds = 1..(n - 1) /\ 1..((n + 1) - 1) = EventIds \cup {n} /\ n \notin EventIds
      /\ \A i \in EventIds : events'[i] = events[i]
      /\ events'[n] = f
  BY OldEvents, Rows DEF EventIds, NextEvent
<1>2. /\ \A i \in EventIds : HandsOver(i, r, acts)' <=> HandsOver(i, r, acts)
      /\ HandsOver(n, r, acts)' <=> f.action \in acts /\ Hands(f, r)
  BY HandingGrows
<1>3. CASE f.action \in acts /\ Hands(f, r)
  <2>1. \A j \in EventIds \cup {n} : j <= n
    BY <1>1
  <2> QED
    BY <1>1, <1>2, <1>3, <2>1 DEF Has
<1>4. CASE ~(f.action \in acts /\ Hands(f, r))
  <2>1. PICK i \in EventIds : /\ HandsOver(i, r, acts) /\ events[i].receiver = a
                              /\ \A j \in EventIds : HandsOver(j, r, acts) => j <= i
    BY <1>1 DEF Has
  <2> QED
    BY <1>1, <1>2, <1>4, <2>1 DEF Has
<1> QED
  BY <1>3, <1>4

\* Whom a resource that is made is handed over to.
LEMMA HoldingStarts ==
  ASSUME TypeOK, PreviousChain, NEW f, Posts(f), Books(f),
         NEW n \in Nat, n = NextEvent, NEW acts, NEW r, r = NextResource,
         r \in {f.from, f.to}, NEW b, b = f.receiver
  PROVE  Has(b, r, n + 1, acts)'
<1>1. 1..((n + 1) - 1) = EventIds \cup {n} /\ events'[n] = f
  BY OldEvents, Rows DEF EventIds, NextEvent
<1>2. Creates(n, r)'
  BY NewestCreates
<1>3. HandsOver(n, r, acts)'
  BY <1>2 DEF HandsOver
<1>4. n \in Nat /\ \A j \in 1..((n + 1) - 1) : j <= n
  OBVIOUS
<1> QED
  BY <1>1, <1>3, <1>4 DEF Has

\* Before an earlier event, everyone has what they had.
LEMMA OldHolding ==
  ASSUME TypeOK, PreviousChain, CarriedOK, NEW f, Posts(f), Books(f), Carries(f),
         NEW acts \in Moves, NEW m \in EventIds \cup {NextEvent}, NEW r, NEW a, Has(a, r, m, acts)
  PROVE  Has(a, r, m, acts)'
<1>1. 1..(m - 1) \subseteq EventIds
  BY Rows DEF EventIds, NextEvent
<1>2. \A i \in EventIds : events'[i] = events[i]
  BY OldEvents
<1>3. \A i \in EventIds : HandsOver(i, r, acts)' <=> HandsOver(i, r, acts)
  BY HandingGrows
<1> QED
  BY <1>1, <1>2, <1>3 DEF Has

LEMMA PostsKeepHolders ==
  ASSUME TypeOK, PreviousChain, CarriedOK, HoldersFollowEvents,
         NEW f, Posts(f), Books(f), Carries(f)
  PROVE  HoldersFollowEvents'
<1>1. PICK n \in Nat : n = NextEvent
  BY Rows DEF NextEvent
<1>2. NextEvent' = n + 1
  BY <1>1, OldEvents
<1>3. AccountingMoves \in Moves /\ CustodyMoves \in Moves
  BY DEF Moves
<1>4. ASSUME NEW r \in ResourceIds, NEW a, NEW c,
             a = resources'[r].accountable, c = resources'[r].custodian
      PROVE  Has(a, r, n + 1, AccountingMoves)' /\ Has(c, r, n + 1, CustodyMoves)'
  <2>1. /\ Has(resources[r].accountable, r, n, AccountingMoves)
        /\ Has(resources[r].custodian, r, n, CustodyMoves)
    BY <1>1 DEF HoldersFollowEvents
  <2>2. /\ Hands(f, r) => f.action \in TransferActions
        /\ f.action \in TransferActions => /\ MovesAccounting(f) <=> f.action \in AccountingMoves
                                           /\ MovesOnhand(f) <=> f.action \in CustodyMoves
    BY DEF Hands, TransferActions, MovesAccounting, MovesOnhand, AccountingMoves, CustodyMoves
  <2>3. a = IF f.action \in AccountingMoves /\ Hands(f, r) THEN f.receiver
            ELSE resources[r].accountable
    BY <1>4, <2>2 DEF Books, OldRows
  <2>4. c = IF f.action \in CustodyMoves /\ Hands(f, r) THEN f.receiver
            ELSE resources[r].custodian
    BY <1>4, <2>2 DEF Books, OldRows
  <2>5. Has(a, r, n + 1, AccountingMoves)'
    BY <1>1, <1>3, <2>1, <2>3, HoldingGrows
  <2>6. Has(c, r, n + 1, CustodyMoves)'
    BY <1>1, <1>3, <2>1, <2>4, HoldingGrows
  <2> QED
    BY <2>5, <2>6
<1>5. ASSUME NEW r, r = NextResource, NextResource \in {f.from, f.to}, NEW a, NEW c,
             a = resources'[r].accountable, c = resources'[r].custodian
      PROVE  Has(a, r, n + 1, AccountingMoves)' /\ Has(c, r, n + 1, CustodyMoves)'
  <2>1. a = f.receiver /\ c = f.receiver
    BY <1>5 DEF Books, NewRow
  <2> QED
    BY <1>1, <1>5, <2>1, HoldingStarts
<1>6. \A r \in ResourceIds' : r \in ResourceIds \/ (r = NextResource /\ NextResource \in {f.from, f.to})
  BY RowsAfterPosting
<1>7. ASSUME NEW r \in ResourceIds', NEW a, NEW c,
             a = resources'[r].accountable, c = resources'[r].custodian
      PROVE  Has(a, r, n + 1, AccountingMoves)' /\ Has(c, r, n + 1, CustodyMoves)'
  BY <1>4, <1>5, <1>6, <1>7
<1> QED
  BY <1>2, <1>7 DEF HoldersFollowEvents, Has

LEMMA PostsKeepHandingOn ==
  ASSUME TypeOK, PreviousChain, CarriedOK, HoldersFollowEvents, HandedOnByHolder,
         NEW f, Posts(f), Books(f), Carries(f)
  PROVE  HandedOnByHolder'
<1>1. PICK n \in Nat : n = NextEvent
  BY Rows DEF NextEvent
<1>2. /\ EventIds' = EventIds \cup {n}
      /\ \A i \in EventIds : events'[i] = events[i]
      /\ events'[n] = f
  BY <1>1, OldEvents
<1>3. AccountingMoves \in Moves /\ CustodyMoves \in Moves
  BY DEF Moves
<1>4. ASSUME NEW m \in EventIds, NEW e, e = events[m]
      PROVE  /\ e.action \in AccountingMoves => Has(e.provider, e.from, m, AccountingMoves)'
             /\ e.action \in CustodyMoves => Has(e.provider, e.from, m, CustodyMoves)'
  BY <1>3, <1>4, OldHolding DEF HandedOnByHolder
<1>5. /\ f.action \in AccountingMoves => Has(f.provider, f.from, n, AccountingMoves)'
      /\ f.action \in CustodyMoves => Has(f.provider, f.from, n, CustodyMoves)'
  <2>1. /\ f.action \in AccountingMoves =>
             f.from \in ResourceIds /\ resources[f.from].accountable = f.provider
        /\ f.action \in CustodyMoves =>
             f.from \in ResourceIds /\ resources[f.from].custodian = f.provider
    BY DEF Books, Checked, TransferChecks, TransferActions, AccountingMoves, CustodyMoves,
       MovesAccounting, MovesOnhand, Accountable, Custodian
  <2>2. /\ f.action \in AccountingMoves => Has(f.provider, f.from, n, AccountingMoves)
        /\ f.action \in CustodyMoves => Has(f.provider, f.from, n, CustodyMoves)
    BY <1>1, <2>1 DEF HoldersFollowEvents
  <2> QED
    BY <1>1, <1>3, <2>2, OldHolding
<1> QED
  BY <1>2, <1>4, <1>5 DEF HandedOnByHolder, Has

HolderInv == CarriedOK /\ HoldersFollowEvents /\ HandedOnByHolder

LEMMA PackingKeepsHolders ==
  ASSUME HolderInv, Packs, carried' = carried, NEW c, NEW k, Packing(c, k)
  PROVE  HolderInv'
<1>1. /\ events' = events /\ EventIds' = EventIds /\ ResourceIds' = ResourceIds
      /\ NextEvent' = NextEvent
      /\ \A r \in ResourceIds : /\ resources'[r].accountable = resources[r].accountable
                                /\ resources'[r].custodian = resources[r].custodian
  BY DEF Packs, Packing, EventIds, ResourceIds, NextEvent
<1>2. \A i, r, acts : HandsOver(i, r, acts)' <=> HandsOver(i, r, acts)
  BY <1>1 DEF HandsOver, Creates, Mentions
<1>3. CarriedOK'
  BY <1>1 DEF HolderInv, CarriedOK
<1>4. HoldersFollowEvents'
  BY <1>1, <1>2 DEF HolderInv, HoldersFollowEvents, Has
<1>5. HandedOnByHolder'
  BY <1>1, <1>2 DEF HolderInv, HandedOnByHolder, Has
<1> QED
  BY <1>3, <1>4, <1>5 DEF HolderInv

LEMMA HolderInvHolds == HistorySpec => []HolderInv
<1>1. HistoryInit => HolderInv
  BY DEF HistoryInit, Init, HolderInv, CarriedOK, HoldersFollowEvents, HandedOnByHolder,
     ResourceIds, EventIds
<1>2. TypeOK /\ PreviousChain /\ HolderInv /\ [HistoryNext]_historyVars => HolderInv'
  <2>1. ASSUME TypeOK, PreviousChain, HolderInv, NEW f, Posts(f), Books(f), Carries(f)
        PROVE  HolderInv'
    BY <2>1, OldCarried, PostsKeepHolders, PostsKeepHandingOn DEF HolderInv
  <2>2. ASSUME HolderInv, UNCHANGED historyVars
        PROVE  HolderInv'
    BY <2>2 DEF HolderInv, historyVars, CarriedOK, HoldersFollowEvents, HandedOnByHolder, Has,
       HandsOver, ResourceIds, EventIds, NextEvent, Creates, Mentions
  <2> QED
    BY <2>1, <2>2, HistorySteps, PackingKeepsHolders
<1> QED
  BY <1>1, <1>2, HistoryIsLedger, TypeCorrect, ChainComplete, PTL DEF HistorySpec

\* Whatever the requests, and however resources were packed and unpacked in
\* between, the two holders of a resource are those to whom the log hands it over
\* last: no update of a container, of its contents or of what remains of a
\* transfer reaches a row it should not, or misses one it should.
THEOREM HoldersAreHandedTo == HistorySpec => []HoldersFollowEvents
BY HolderInvHolds, PTL DEF HolderInv

\* Nobody but the agent to whom a resource was handed over last ever transfers
\* it, in every reachable ledger.
THEOREM HoldersHandOn == HistorySpec => []HandedOnByHolder
BY HolderInvHolds, PTL DEF HolderInv

-----------------------------------------------------------------------------
(* The refinement of Journal *)

\* The journal's signs are the documented effects.
LEMMA JournalEffects ==
  ASSUME NEW f \in Event, ShapeChecks(f), NEW a, a # Null
  PROVE  /\ J!OwnedChange(Entry(f), a) = AccountingEffect(f, a)
         /\ J!OnhandChange(Entry(f), a) = OnhandEffect(f, a)
<1>1. f.quantity \in Nat
  BY DEF Event
<1>2. /\ J!Gets(Entry(f), a) = Into(f, a) /\ J!Gives(Entry(f), a) = Through(f, a)
      /\ Entry(f).kind = f.action /\ Into(f, a) \in Nat /\ Through(f, a) \in Nat
  BY <1>1 DEF J!Gets, J!Gives, Into, Through, Entry
<1>3. f.action \in Lowers \cup {"accept"} => Into(f, a) = 0
  BY DEF ShapeChecks, Into, TransferActions, Lowers
<1>4. J!OwnedChange(Entry(f), a) = AccountingEffect(f, a)
  BY <1>2, <1>3 DEF J!OwnedChange, AccountingEffect, J!Issues, J!Withdraws, J!MovesOwned, Lowers
<1>5. J!OnhandChange(Entry(f), a) = OnhandEffect(f, a)
  BY <1>2, <1>3 DEF J!OnhandChange, OnhandEffect, J!Issues, J!Withdraws, J!MovesOnhand, Lowers
<1> QED
  BY <1>4, <1>5

\* The journal of a log that grew by f.
LEMMA EntriesGrow ==
  ASSUME NEW n \in Nat, NEW s, NEW t, NEW f,
         \A i \in 1..n : t[i] = s[i], t[n + 1] = f,
         NEW en, en = [i \in 1..n |-> Entry(s[i])],
         NEW en2, en2 = [i \in 1..(n + 1) |-> Entry(t[i])]
  PROVE  en2 = Append(en, Entry(f)) /\ Len(en) = n /\ Len(en2) = n + 1
<1> DEFINE S == {Entry(s[i]) : i \in 1..n} \cup {Entry(f)}
<1>1. en \in [1..n -> S]
  OBVIOUS
<1>2. en \in Seq(S) /\ Len(en) = n
  BY <1>1, FunctionIsSequence
<1>3. Entry(f) \in S
  OBVIOUS
<1>4. \A i \in 1..(n + 1) : i \in 1..n \/ i = n + 1
  OBVIOUS
<1>5. \A i \in 1..(n + 1) : en2[i] = IF i \in 1..n THEN en[i] ELSE Entry(f)
  BY <1>4
<1>6. en2 \in [1..(n + 1) -> S]
  BY <1>1, <1>3, <1>5
<1> HIDE DEF S
<1>7. en2 \in Seq(S) /\ Len(en2) = n + 1
  BY <1>6, FunctionIsSequence
<1>8. /\ Append(en, Entry(f)) \in Seq(S) /\ Len(Append(en, Entry(f))) = n + 1
      /\ \A i \in 1..n : Append(en, Entry(f))[i] = en[i]
      /\ Append(en, Entry(f))[n + 1] = Entry(f)
  BY <1>2, <1>3, AppendIsSequence
<1>9. \A i \in 1..(n + 1) : Append(en, Entry(f))[i] = en2[i]
  BY <1>4, <1>5, <1>8
<1> QED
  BY <1>2, <1>7, <1>8, <1>9

LEMMA BooksPost ==
  ASSUME TypeOK, NEW f, Posts(f), Books(f)
  PROVE  J!Next
<1> DEFINE x == Entry(f)
<1>1. PICK n \in Nat : n = Len(events)
  BY Rows
<1>2. PICK m \in Nat : m = Len(resources)
  BY Rows
<1>3. /\ f \in Event /\ ShapeChecks(f) /\ LowerChecks(f) /\ TransferChecks(f) /\ OpeningChecks(f)
  BY DEF Posts, Appends, Books, Checked
<1>4. Len(events') = n + 1 /\ events'[n + 1] = f /\ \A i \in 1..n : events'[i] = events[i]
  BY <1>1, AppendIsSequence DEF TypeOK, Posts, Appends
<1>5. /\ [i \in EventIds |-> Entry(events[i])]' = Append([i \in EventIds |-> Entry(events[i])], x)
      /\ Len([i \in EventIds |-> Entry(events[i])]) = n
      /\ Len([i \in EventIds |-> Entry(events[i])]') = n + 1
  BY <1>1, <1>4, EntriesGrow DEF EventIds
<1>6. \A r \in ResourceIds : /\ r # Null /\ r # m + 1
                             /\ AccountingEffect(f, r) = J!OwnedChange(x, r)
                             /\ OnhandEffect(f, r) = J!OnhandChange(x, r)
  BY <1>2, <1>3, JournalEffects DEF ResourceIds, Null
<1>7. /\ AccountingEffect(f, m + 1) = J!OwnedChange(x, m + 1)
      /\ OnhandEffect(f, m + 1) = J!OnhandChange(x, m + 1)
  BY <1>3, JournalEffects DEF Null
<1>8. f.from \in ResourceIds => J!Entitled(x)
  BY <1>3 DEF J!Entitled, J!Withdraws, J!MovesOwned, J!MovesOnhand, Entry, Account, LowerChecks,
     OpeningChecks, TransferChecks, TransferActions, Lowers, MovesAccounting, MovesOnhand,
     Accountable, Custodian
<1>9. ResourceIds \subseteq ResourceIds'
  BY Rows DEF Posts, Placed, ResourceIds, NextResource
<1>10. J!Booked(x)
  <2> SUFFICES ASSUME NEW r \in ResourceIds
               PROVE  /\ resources'[r].accounting = resources[r].accounting + J!OwnedChange(x, r)
                      /\ resources'[r].onhand = resources[r].onhand + J!OnhandChange(x, r)
                      /\ \/ resources'[r].accountable = resources[r].accountable
                         \/ /\ resources'[r].accountable = x.receiver
                            /\ x.kind \in J!MovesOwned
                      /\ \/ resources'[r].custodian = resources[r].custodian
                         \/ /\ resources'[r].custodian = x.receiver
                            /\ x.kind \in J!MovesOnhand
    BY <1>9 DEF J!Booked, Account
  <2>1. /\ resources'[r].accounting = resources[r].accounting + J!OwnedChange(x, r)
        /\ resources'[r].onhand = resources[r].onhand + J!OnhandChange(x, r)
    BY <1>6 DEF Posts, Counted
  <2>2. \/ resources'[r].accountable = resources[r].accountable
        \/ resources'[r].accountable = x.receiver /\ x.kind \in J!MovesOwned
    BY DEF Books, OldRows, Hands, MovesAccounting, TransferActions, J!MovesOwned, Entry
  <2>3. \/ resources'[r].custodian = resources[r].custodian
        \/ resources'[r].custodian = x.receiver /\ x.kind \in J!MovesOnhand
    BY DEF Books, OldRows, Hands, MovesOnhand, TransferActions, J!MovesOnhand, Entry
  <2> QED
    BY <2>1, <2>2, <2>3
<1>11. /\ Len([r \in ResourceIds |-> Account(resources[r])]) = m
       /\ Len([r \in ResourceIds |-> Account(resources[r])]') = Len(resources')
  <2>1. ASSUME NEW k \in Nat, NEW rows,
               NEW acc, acc = [r \in 1..k |-> Account(rows[r])]
        PROVE  Len(acc) = k
    <3>1. acc \in [1..k -> {Account(rows[r]) : r \in 1..k}]
      BY <2>1
    <3> QED
      BY <3>1, FunctionIsSequence
  <2>2. Len(resources') \in Nat
    BY <1>2 DEF Posts, Placed, NextResource
  <2> QED
    BY <1>2, <2>1, <2>2 DEF ResourceIds
<1>12. Len(resources') = IF m + 1 \in {f.from, f.to} THEN m + 1 ELSE m
  BY <1>2 DEF Books, NewRow, NextResource
<1>13. ASSUME Len(resources') = m + 1
       PROVE  /\ m + 1 \in {x.from, x.to}
              /\ Account(resources'[m + 1]) =
                   [owned |-> J!OwnedChange(x, m + 1), onhand |-> J!OnhandChange(x, m + 1),
                    owner |-> x.receiver, keeper |-> x.receiver]
  <2>1. m + 1 # m
    BY <1>2
  <2>2. m + 1 \in {f.from, f.to} /\ NextResource = m + 1
    BY <1>2, <1>12, <1>13, <2>1 DEF NextResource
  <2>3. /\ resources'[m + 1].accounting = J!OwnedChange(x, m + 1)
        /\ resources'[m + 1].onhand = J!OnhandChange(x, m + 1)
    BY <1>7, <1>13, <2>2 DEF Posts, Counted
  <2>4. /\ resources'[m + 1].accountable = f.receiver
        /\ resources'[m + 1].custodian = f.receiver
    BY <2>2 DEF Books, NewRow
  <2> QED
    BY <2>2, <2>3, <2>4 DEF Account, Entry
<1>14. \/ Len([r \in ResourceIds |-> Account(resources[r])]')
            = Len([r \in ResourceIds |-> Account(resources[r])])
       \/ /\ Len([r \in ResourceIds |-> Account(resources[r])]')
               = Len([r \in ResourceIds |-> Account(resources[r])]) + 1
          /\ J!Opened(x, Len([r \in ResourceIds |-> Account(resources[r])]'))
  <2>1. Len(resources') = m + 1 => m + 1 \in ResourceIds'
    BY <1>2 DEF ResourceIds
  <2> QED
    BY <1>11, <1>12, <1>13, <2>1 DEF J!Opened
<1>15. [i \in EventIds |-> Entry(events[i])]'[n + 1] = x
  BY <1>4 DEF EventIds
<1>16. J!Post(x)
  BY <1>5, <1>8, <1>10, <1>14 DEF J!Post, Entry
<1> QED
  BY <1>5, <1>15, <1>16 DEF J!Next

\* Packing posts no entry and leaves the accounts as they are.
LEMMA PacksStutter ==
  ASSUME TypeOK, Packs, NEW c, NEW k, Packing(c, k)
  PROVE  UNCHANGED J!vars
<1>1. events' = events /\ EventIds' = EventIds /\ ResourceIds' = ResourceIds
  BY DEF Packs, EventIds, ResourceIds
<1>2. \A r \in ResourceIds : Account(resources'[r]) = Account(resources[r])
  BY DEF Packs, Packing, Account
<1> QED
  BY <1>1, <1>2 DEF J!vars

\* The ledger implements the abstract journal, whatever the requests: every
\* clause of handle_insert posts one entry, whose only effects on quantities
\* and holders are the documented ones, and which whoever holds the resource
\* must have made.
THEOREM LedgerKeepsJournal == Spec => KeepsJournal
<1>1. Init => J!Init
  BY DEF Init, J!Init, EventIds, ResourceIds
<1>2. TypeOK /\ [Next]_vars => [J!Next]_(J!vars)
  <2>1. CASE Next
    BY <2>1, Steps, BooksPost, PacksStutter
  <2>2. CASE UNCHANGED vars
    BY <2>2 DEF vars, J!vars, EventIds, ResourceIds
  <2> QED
    BY <2>1, <2>2
<1> QED
  BY <1>1, <1>2, TypeCorrect, PTL DEF Spec, KeepsJournal, J!Spec

-----------------------------------------------------------------------------
(* Replay *)

LEMMA EffectTypes ==
  ASSUME NEW e \in Event, NEW r
  PROVE  AccountingEffect(e, r) \in Int /\ OnhandEffect(e, r) \in Int
<1>1. e.quantity \in Nat
  BY DEF Event
<1>2. Into(e, r) \in Int /\ Through(e, r) \in Int
  BY <1>1 DEF Into, Through
<1>3. Into(e, r) - Through(e, r) \in Int
  BY <1>2
<1> QED
  BY <1>2, <1>3 DEF AccountingEffect, OnhandEffect

\* The balances of a resource grow by the effects of the event posted.
LEMMA BalancesGrow ==
  ASSUME TypeOK, NEW e, Posts(e), NEW r
  PROVE  /\ AccountingBalance(r)' = AccountingBalance(r) + AccountingEffect(e, r)
         /\ OnhandBalance(r)' = OnhandBalance(r) + OnhandEffect(e, r)
<1>1. PICK n \in Nat : n = Len(events)
  BY Rows
<1>2. /\ Len(events') = n + 1 /\ events'[n + 1] = e
      /\ \A i \in 1..n : events'[i] = events[i]
  BY <1>1, AppendIsSequence DEF TypeOK, Posts, Appends
<1>3. n + 1 \in 1..(n + 1) /\ \A i \in 1..n : i \in 1..(n + 1)
  OBVIOUS
<1>4. ASSUME NEW f, f = [i \in 1..n |-> AccountingEffect(events[i], r)],
             NEW g, g = [i \in 1..(n + 1) |-> AccountingEffect(events'[i], r)]
      PROVE  SumTo(n + 1, g) = SumTo(n, f) + AccountingEffect(e, r)
  <2>1. \A i \in 1..n : f[i] = g[i]
    BY <1>2, <1>3, <1>4
  <2>2. g[n + 1] = AccountingEffect(e, r)
    BY <1>2, <1>3, <1>4
  <2> QED
    BY <2>1, <2>2, SumToStep, SumToSame
<1>5. ASSUME NEW f, f = [i \in 1..n |-> OnhandEffect(events[i], r)],
             NEW g, g = [i \in 1..(n + 1) |-> OnhandEffect(events'[i], r)]
      PROVE  SumTo(n + 1, g) = SumTo(n, f) + OnhandEffect(e, r)
  <2>1. \A i \in 1..n : f[i] = g[i]
    BY <1>2, <1>3, <1>5
  <2>2. g[n + 1] = OnhandEffect(e, r)
    BY <1>2, <1>3, <1>5
  <2> QED
    BY <2>1, <2>2, SumToStep, SumToSame
<1>6. AccountingBalance(r)' = AccountingBalance(r) + AccountingEffect(e, r)
  BY <1>1, <1>2, <1>4 DEF AccountingBalance, EventIds
<1>7. OnhandBalance(r)' = OnhandBalance(r) + OnhandEffect(e, r)
  BY <1>1, <1>2, <1>5 DEF OnhandBalance, EventIds
<1> QED
  BY <1>6, <1>7

\* A resource that does not exist has no balance.
LEMMA NoBalance ==
  ASSUME TypeOK, NEW r, r = NextResource
  PROVE  AccountingBalance(r) = 0 /\ OnhandBalance(r) = 0
<1>1. \A i \in EventIds : events[i].from # r /\ events[i].to # r
  BY Rows DEF TypeOK, ResourceIds, NextResource, Null
<1>2. \A i \in EventIds : Into(events[i], r) = 0 /\ Through(events[i], r) = 0
  BY <1>1 DEF Into, Through
<1>3. \A i \in EventIds : AccountingEffect(events[i], r) = 0 /\ OnhandEffect(events[i], r) = 0
  BY <1>2 DEF AccountingEffect, OnhandEffect
<1>4. Len(events) \in Nat
  BY Rows
<1>5. AccountingBalance(r) = 0
  <2>1. \A f : f = [i \in EventIds |-> AccountingEffect(events[i], r)] => SumTo(Len(events), f) = 0
    BY <1>3, <1>4, SumToZero DEF EventIds
  <2> QED
    BY <2>1 DEF AccountingBalance
<1>6. OnhandBalance(r) = 0
  <2>1. \A f : f = [i \in EventIds |-> OnhandEffect(events[i], r)] => SumTo(Len(events), f) = 0
    BY <1>3, <1>4, SumToZero DEF EventIds
  <2> QED
    BY <2>1 DEF OnhandBalance
<1> QED
  BY <1>5, <1>6

LEMMA PostsKeepsBalances ==
  ASSUME TypeOK, QuantitiesFollowEvents, NEW e, Posts(e)
  PROVE  QuantitiesFollowEvents'
<1>1. ASSUME NEW r \in ResourceIds
      PROVE  /\ resources'[r].accounting = AccountingBalance(r)'
             /\ resources'[r].onhand = OnhandBalance(r)'
  BY BalancesGrow DEF QuantitiesFollowEvents, Posts, Counted
<1>2. ASSUME NEW r, r = NextResource, Len(resources') = NextResource
      PROVE  /\ resources'[r].accounting = AccountingBalance(r)'
             /\ resources'[r].onhand = OnhandBalance(r)'
  <2>1. /\ resources'[r].accounting = AccountingEffect(e, r)
        /\ resources'[r].onhand = OnhandEffect(e, r)
    BY <1>2 DEF Posts, Counted
  <2>2. /\ AccountingBalance(r)' = 0 + AccountingEffect(e, r)
        /\ OnhandBalance(r)' = 0 + OnhandEffect(e, r)
    BY <1>2, BalancesGrow, NoBalance
  <2>3. AccountingEffect(e, r) \in Int /\ OnhandEffect(e, r) \in Int
    BY EffectTypes DEF Posts, Appends
  <2> QED
    BY <2>1, <2>2, <2>3
<1>3. \A r \in ResourceIds' : \/ r \in ResourceIds
                              \/ r = NextResource /\ Len(resources') = NextResource
  BY Rows DEF Posts, Placed, ResourceIds, NextResource
<1> QED
  BY <1>1, <1>2, <1>3 DEF QuantitiesFollowEvents

LEMMA PacksKeepsBalances ==
  ASSUME TypeOK, QuantitiesFollowEvents, Packs
  PROVE  QuantitiesFollowEvents'
<1>1. /\ events' = events /\ ResourceIds' = ResourceIds
      /\ \A r \in ResourceIds : /\ resources'[r].accounting = resources[r].accounting
                                /\ resources'[r].onhand = resources[r].onhand
  BY DEF Packs, ResourceIds
<1>2. \A r : AccountingBalance(r)' = AccountingBalance(r) /\ OnhandBalance(r)' = OnhandBalance(r)
  BY <1>1 DEF AccountingBalance, OnhandBalance, EventIds
<1> QED
  BY <1>1, <1>2 DEF QuantitiesFollowEvents

\* The stored quantities are those a replay of the events gives, whatever the
\* requests: no clause of handle_insert counts otherwise than documented.
THEOREM QuantitiesReplay == Spec => []QuantitiesFollowEvents
<1>1. Init => QuantitiesFollowEvents
  BY DEF Init, QuantitiesFollowEvents, ResourceIds
<1>2. TypeOK /\ QuantitiesFollowEvents /\ [Next]_vars => QuantitiesFollowEvents'
  <2>1. ASSUME TypeOK, QuantitiesFollowEvents, Next
        PROVE  QuantitiesFollowEvents'
    BY <2>1, NextPosts, PostsKeepsBalances, PacksKeepsBalances
  <2>2. ASSUME QuantitiesFollowEvents, UNCHANGED vars
        PROVE  QuantitiesFollowEvents'
    BY <2>2 DEF vars, QuantitiesFollowEvents, ResourceIds, AccountingBalance,
       OnhandBalance, EventIds
  <2> QED
    BY <2>1, <2>2
<1> QED
  BY <1>1, <1>2, TypeCorrect, PTL DEF Spec

-----------------------------------------------------------------------------
(* Conservation per specification *)

\* Posting changes neither the specification nor the unit of a resource.
LEMMA ConformsKept ==
  ASSUME NEW f, Books(f), NEW r \in ResourceIds, NEW s, NEW u
  PROVE  Conforms(r, s, u)' <=> Conforms(r, s, u)
BY DEF Conforms, Books, OldRows

\* What the rows add up to: the effects of the event posted are added.
LEMMA RowsAfter ==
  ASSUME TypeOK, NEW f, Posts(f), NEW n, n = Len(resources), NEW m, m = Len(resources')
  PROVE  /\ n \in Nat /\ m \in {n, n + 1} /\ ResourceIds = 1..n /\ ResourceIds' = 1..m
         /\ f.from \in 0..m /\ f.to \in 0..m
         /\ \A r \in 1..m : \/ r \in ResourceIds /\ r <= n
                            \/ r = NextResource /\ r = n + 1 /\ m = n + 1
BY Rows DEF Posts, Placed, ResourceIds, NextResource

\* What an event does to the books is what it issues: the two sides of a
\* transfer cancel out, because they conform to the same.
LEMMA EffectsIssue ==
  ASSUME TypeOK, NEW f, Posts(f), Books(f), NEW s, NEW u, NEW m, m = Len(resources'),
         NEW e, e = [r \in 1..m |-> IF Conforms(r, s, u)' THEN AccountingEffect(f, r) ELSE 0]
  PROVE  SumTo(m, e) = Issued(f, s, u)'
<1>1. PICK n \in Nat : n = Len(resources)
  BY Rows
<1>2. /\ m \in Nat /\ ResourceIds = 1..n /\ ResourceIds' = 1..m /\ NextResource = n + 1
      /\ f.from \in 0..m /\ f.to \in 0..m
  BY <1>1, RowsAfter DEF NextResource
<1>3. PICK q \in Int : q = f.quantity /\ -q \in Int
  BY DEF Posts, Appends, Event
<1>4. ShapeChecks(f) /\ TransferChecks(f)
  BY DEF Books, Checked
<1>5. CASE f.action \in Raises \cup Lowers
  <2>1. f.to = Null
    BY <1>4, <1>5, Families DEF ShapeChecks
  <2>2. ASSUME NEW r \in 1..m
        PROVE  AccountingEffect(f, r) = IF r # f.from THEN 0
                                        ELSE IF f.action \in Raises THEN q ELSE -q
    <3>1. r # Null
      BY DEF Null
    <3> QED
      BY <1>3, <1>5, <2>1, <3>1 DEF AccountingEffect, Into, Through, Raises, Lowers
  <2>3. CASE f.from = Null
    <3>1. \A r \in 1..m : e[r] = 0
      BY <2>2, <2>3 DEF Null
    <3>2. Issued(f, s, u)' = 0
      BY <1>2, <2>3 DEF Issued, Null
    <3> QED
      BY <1>2, <3>1, <3>2, SumToZero
  <2>4. CASE f.from # Null
    <3>1. f.from \in 1..m
      BY <1>2, <2>4 DEF Null
    <3>2. \A r \in 1..m : r # f.from => e[r] = 0
      BY <2>2
    <3>3. e[f.from] = Issued(f, s, u)'
      BY <1>2, <1>3, <1>5, <2>2, <3>1 DEF Issued, Raises, Lowers
    <3>4. e[f.from] \in Int
      BY <1>3, <2>2, <3>1
    <3> QED
      BY <1>2, <3>1, <3>2, <3>3, <3>4, SumToAlone
  <2> QED
    BY <2>3, <2>4
<1>6. CASE f.action \in {"transferAllRights", "transfer", "move"}
  <2>1. Issued(f, s, u)' = 0
    BY <1>6 DEF Issued
  <2>2. f.action \in TransferActions
    BY <1>6 DEF TransferActions
  <2>3. f.from \in ResourceIds /\ f.from \in 1..m /\ f.to \in 1..m
    BY <1>2, <1>4, <2>2 DEF TransferChecks
  <2>4. \A r : AccountingEffect(f, r) = Into(f, r) - Through(f, r)
    BY <1>6 DEF AccountingEffect
  <2>5. Conforms(f.from, s, u)' <=> Conforms(f.to, s, u)'
    <3>1. Conforms(f.from, s, u)' <=> Conforms(f.from, s, u)
      BY <2>3, ConformsKept
    <3>2. CASE f.to \in ResourceIds
      <4>1. Conforms(f.to, s, u)' <=> Conforms(f.to, s, u)
        BY <3>2, ConformsKept
      <4>2. Conforms(f.to, s, u) <=> Conforms(f.from, s, u)
        BY <1>4, <2>2, <3>2 DEF TransferChecks, Conforms
      <4> QED
        BY <3>1, <4>1, <4>2
    <3>3. CASE f.to = NextResource
      <4>1. /\ resources'[f.to].unit = f.unit /\ f.unit = resources[f.from].unit
            /\ resources'[f.to].spec = resources[f.from].spec
        BY <1>4, <2>2, <3>3 DEF TransferChecks, Books, NewRow
      <4>2. Conforms(f.to, s, u)' <=> Conforms(f.from, s, u)
        BY <4>1 DEF Conforms
      <4> QED
        BY <3>1, <4>2
    <3> QED
      BY <1>4, <2>2, <3>2, <3>3 DEF TransferChecks
  <2>6. CASE f.from = f.to \/ ~(Conforms(f.from, s, u)')
    <3>1. \A r \in 1..m : e[r] = 0
      BY <1>3, <2>4, <2>5, <2>6 DEF Into, Through
    <3> QED
      BY <1>2, <2>1, <3>1, SumToZero
  <2>7. CASE f.from # f.to /\ Conforms(f.from, s, u)'
    <3>1. e[f.from] = -q /\ e[f.to] = q
      BY <1>3, <2>3, <2>4, <2>5, <2>7 DEF Into, Through
    <3>2. \A r \in (1..m) \ {f.from, f.to} : e[r] = 0
      BY <2>4 DEF Into, Through
    <3>3. e[f.from] \in Int /\ e[f.to] = -e[f.from]
      BY <1>3, <3>1
    <3> QED
      BY <1>2, <2>1, <2>3, <2>7, <3>2, <3>3, SumToPair
  <2> QED
    BY <2>6, <2>7
<1>7. CASE f.action \notin Raises \cup Lowers \cup {"transferAllRights", "transfer", "move"}
  <2>1. \A r : AccountingEffect(f, r) = 0
    BY <1>7 DEF AccountingEffect, Raises, Lowers
  <2>2. Issued(f, s, u)' = 0
    BY <1>7 DEF Issued, Raises, Lowers
  <2>3. \A r \in 1..m : e[r] = 0
    BY <2>1
  <2> QED
    BY <1>2, <2>2, <2>3, SumToZero
<1> QED
  BY <1>5, <1>6, <1>7

\* The two sides of the equation, for one specification and unit.
Stocked(s, u) ==
  SumTo(Len(resources), [r \in ResourceIds |->
           IF Conforms(r, s, u) THEN resources[r].accounting ELSE 0])

IssuedSoFar(s, u) ==
  SumTo(Len(events), [i \in EventIds |-> Issued(events[i], s, u)])

LEMMA StockedGrows ==
  ASSUME TypeOK, NEW f, Posts(f), Books(f), NEW s, NEW u
  PROVE  Stocked(s, u)' = Stocked(s, u) + Issued(f, s, u)'
<1>1. PICK n \in Nat : n = Len(resources)
  BY Rows
<1>2. PICK m \in {n, n + 1} : m = Len(resources')
  BY <1>1, RowsAfter
<1>3. /\ ResourceIds = 1..n /\ ResourceIds' = 1..m
      /\ \A r \in 1..m : \/ r \in ResourceIds /\ r <= n
                         \/ r = NextResource /\ r = n + 1 /\ m = n + 1
  BY <1>1, <1>2, RowsAfter
<1>4. ASSUME NEW old, old = [r \in 1..n |-> IF Conforms(r, s, u) THEN resources[r].accounting ELSE 0],
             NEW new, new = [r \in 1..m |-> IF Conforms(r, s, u)' THEN resources'[r].accounting ELSE 0],
             NEW e, e = [r \in 1..m |-> IF Conforms(r, s, u)' THEN AccountingEffect(f, r) ELSE 0]
      PROVE  SumTo(m, new) = SumTo(n, old) + Issued(f, s, u)'
  <2>1. \A r \in 1..n : old[r] \in Int
    BY <1>3, <1>4, Rows
  <2>2. ASSUME NEW r \in 1..m
        PROVE  e[r] \in Int /\ new[r] = IF r <= n THEN old[r] + e[r] ELSE e[r]
    <3>1. AccountingEffect(f, r) \in Int
      BY EffectTypes DEF Posts, Appends
    <3>2. CASE r \in ResourceIds /\ r <= n
      <4>1. resources'[r].accounting = resources[r].accounting + AccountingEffect(f, r)
        BY <3>2 DEF Posts, Counted
      <4>2. Conforms(r, s, u)' <=> Conforms(r, s, u)
        BY <3>2, ConformsKept
      <4> QED
        BY <1>3, <1>4, <3>1, <3>2, <4>1, <4>2
    <3>3. CASE r = NextResource /\ r = n + 1 /\ m = n + 1
      <4>1. resources'[r].accounting = AccountingEffect(f, r)
        BY <1>2, <3>3 DEF Posts, Counted
      <4> QED
        BY <1>4, <3>1, <3>3, <4>1
    <3> QED
      BY <1>3, <3>2, <3>3
  <2>3. SumTo(m, new) = SumTo(n, old) + SumTo(m, e)
    <3>1. \A r \in 1..m : e[r] \in Int
      BY <2>2
    <3>2. \A r \in 1..n : new[r] = old[r] + e[r]
      BY <2>2
    <3>3. m = n + 1 => new[m] = e[m]
      BY <2>2
    <3> QED
      BY <2>1, <3>1, <3>2, <3>3, SumToExtended
  <2>4. SumTo(m, e) = Issued(f, s, u)'
    BY <1>2, <1>4, EffectsIssue
  <2> QED
    BY <2>3, <2>4
<1> QED
  BY <1>1, <1>2, <1>3, <1>4 DEF Stocked

LEMMA IssuedGrows ==
  ASSUME TypeOK, NEW f, Posts(f), Books(f), NEW s, NEW u
  PROVE  IssuedSoFar(s, u)' = IssuedSoFar(s, u) + Issued(f, s, u)'
<1>1. PICK n \in Nat : n = Len(events)
  BY Rows
<1>2. /\ Len(events') = n + 1 /\ events'[n + 1] = f
      /\ \A i \in 1..n : events'[i] = events[i]
      /\ EventIds = 1..n /\ EventIds' = 1..(n + 1)
  BY <1>1, AppendIsSequence DEF TypeOK, Posts, Appends, EventIds
<1>3. ASSUME NEW i \in 1..n
      PROVE  Issued(events[i], s, u)' = Issued(events[i], s, u)
  <2>1. events[i].from \in ResourceIds \cup {Null}
    BY <1>2 DEF TypeOK
  <2>2. ResourceIds \subseteq ResourceIds' /\ Null \notin ResourceIds'
    BY RowsAfterPosting, Rows DEF NextResource, Null
  <2>3. CASE events[i].from \in ResourceIds
    <3>1. Conforms(events[i].from, s, u)' <=> Conforms(events[i].from, s, u)
      BY <1>2, <2>3 DEF Conforms, Books, OldRows
    <3> QED
      BY <1>2, <2>2, <2>3, <3>1 DEF Issued
  <2>4. CASE events[i].from = Null
    BY <1>2, <2>2, <2>4, RowsAfterPosting DEF Issued
  <2> QED
    BY <2>1, <2>3, <2>4
<1>4. ASSUME NEW g, g = [i \in 1..n |-> Issued(events[i], s, u)],
             NEW h, h = [i \in 1..(n + 1) |-> Issued(events[i], s, u)']
      PROVE  SumTo(n + 1, h) = SumTo(n, g) + Issued(f, s, u)'
  <2>1. \A i \in 1..n : g[i] = h[i]
    BY <1>3, <1>4
  <2>2. h[n + 1] = Issued(f, s, u)'
    BY <1>2, <1>4 DEF Issued
  <2> QED
    BY <2>1, <2>2, SumToStep, SumToSame
<1> QED
  BY <1>1, <1>2, <1>4 DEF IssuedSoFar

LEMMA ConservedIs ==
  /\ ConservedPerSpecification
       <=> \A s \in Specs, u \in Units : Stocked(s, u) = IssuedSoFar(s, u)
  /\ ConservedPerSpecification'
       <=> \A s \in Specs, u \in Units : Stocked(s, u)' = IssuedSoFar(s, u)'
BY DEF ConservedPerSpecification, Stocked, IssuedSoFar

LEMMA PackingKeepsBooks ==
  ASSUME Packs, NEW c, NEW k, Packing(c, k), NEW s, NEW u
  PROVE  Stocked(s, u)' = Stocked(s, u) /\ IssuedSoFar(s, u)' = IssuedSoFar(s, u)
<1>1. /\ events' = events /\ EventIds' = EventIds /\ ResourceIds' = ResourceIds
      /\ Len(resources') = Len(resources)
      /\ \A r \in ResourceIds : resources'[r].accounting = resources[r].accounting
  BY DEF Packs, EventIds, ResourceIds
<1>2. \A r \in ResourceIds : Conforms(r, s, u)' <=> Conforms(r, s, u)
  BY DEF Conforms, Packing
<1>3. \A i : Issued(events[i], s, u)' = Issued(events[i], s, u)
  BY <1>1, <1>2 DEF Issued
<1> QED
  BY <1>1, <1>2, <1>3 DEF Stocked, IssuedSoFar

\* Transfers and moves make and lose nothing: per specification and unit, the
\* accounting quantities add up to what was raised and produced less what was
\* lowered and consumed, in every reachable ledger.
THEOREM BooksBalance == Spec => []ConservedPerSpecification
<1>1. Init => ConservedPerSpecification
  BY SumToStep DEF Init, ConservedPerSpecification
<1>2. TypeOK /\ ConservedPerSpecification /\ [Next]_vars => ConservedPerSpecification'
  <2>1. ASSUME TypeOK, ConservedPerSpecification, NEW f, Posts(f), Books(f)
        PROVE  ConservedPerSpecification'
    BY <2>1, ConservedIs, StockedGrows, IssuedGrows
  <2>2. ASSUME ConservedPerSpecification, Packs, NEW c, NEW k, Packing(c, k)
        PROVE  ConservedPerSpecification'
    BY <2>2, ConservedIs, PackingKeepsBooks
  <2>3. ASSUME ConservedPerSpecification, UNCHANGED vars
        PROVE  ConservedPerSpecification'
    BY <2>3 DEF vars, ConservedPerSpecification, ResourceIds, EventIds, Conforms, Issued
  <2> QED
    BY <2>1, <2>2, <2>3, Steps
<1> QED
  BY <1>1, <1>2, TypeCorrect, PTL DEF Spec

-----------------------------------------------------------------------------
(* What is in process *)

\* What an event puts into a process, or takes out of one.
IntoProcess(f) ==
  CASE f.action = "accept" -> f.quantity
    [] f.action = "modify" -> -f.quantity
    [] OTHER -> 0

\* The two sides of the equation.
NotOnhand ==
  SumTo(Len(resources), [r \in ResourceIds |-> resources[r].accounting - resources[r].onhand])

InProcess ==
  SumTo(Len(events), [i \in EventIds |-> IF Outstanding(i) THEN events[i].quantity ELSE 0])

\* An event that moves accounting quantities alone, or onhand quantities
\* alone, takes on one side what it puts on the other.
LEMMA EffectsIntoProcess ==
  ASSUME TypeOK, NEW f, Posts(f), Books(f), NEW m, m = Len(resources'),
         NEW e, e = [r \in 1..m |-> AccountingEffect(f, r) - OnhandEffect(f, r)]
  PROVE  SumTo(m, e) = IntoProcess(f)
<1>1. PICK n \in Nat : n = Len(resources)
  BY Rows
<1>2. /\ m \in Nat /\ ResourceIds = 1..n /\ ResourceIds' = 1..m /\ NextResource = n + 1
      /\ f.from \in 0..m /\ f.to \in 0..m
  BY <1>1, RowsAfter DEF NextResource
<1>3. PICK q \in Int : q = f.quantity /\ -q \in Int
  BY DEF Posts, Appends, Event
<1>4. ShapeChecks(f) /\ TransferChecks(f)
  BY DEF Books, Checked
<1>5. CASE f.action \in {"accept", "modify"}
  <2>1. f.to = Null /\ f.from \in 1..m
    <3>1. f.from \in ResourceIds
      BY <1>4, <1>5 DEF ShapeChecks
    <3> QED
      BY <1>2, <1>4, <1>5, <3>1, Families DEF ShapeChecks, Null
  <2>2. ASSUME NEW r \in 1..m
        PROVE  e[r] = IF r = f.from THEN IntoProcess(f) ELSE 0
    <3>1. AccountingEffect(f, r) = 0
      BY <1>5 DEF AccountingEffect
    <3>2. Into(f, r) = 0 /\ Through(f, r) = IF r = f.from THEN q ELSE 0
      BY <1>3, <2>1 DEF Into, Through, Null
    <3>3. CASE f.action = "accept"
      BY <1>3, <3>1, <3>2, <3>3 DEF OnhandEffect, IntoProcess
    <3>4. CASE f.action = "modify"
      BY <1>3, <3>1, <3>2, <3>4 DEF OnhandEffect, IntoProcess
    <3> QED
      BY <1>5, <3>3, <3>4
  <2>3. IntoProcess(f) \in Int
    BY <1>3 DEF IntoProcess
  <2> QED
    BY <1>2, <2>1, <2>2, <2>3, SumToAlone
<1>6. CASE f.action \in {"transferAllRights", "transferCustody"}
  <2>1. IntoProcess(f) = 0
    BY <1>6 DEF IntoProcess
  <2>2. f.action \in TransferActions
    BY <1>6 DEF TransferActions
  <2>3. f.from \in 1..m /\ f.to \in 1..m
    BY <1>2, <1>4, <2>2 DEF TransferChecks
  <2>4. PICK p \in {q, -q} :
          \A r \in 1..m : e[r] = (IF r = f.to THEN p ELSE 0) - (IF r = f.from THEN p ELSE 0)
    <3>1. CASE f.action = "transferAllRights"
      <4>1. \A r : AccountingEffect(f, r) = Into(f, r) - Through(f, r) /\ OnhandEffect(f, r) = 0
        BY <3>1 DEF AccountingEffect, OnhandEffect
      <4>2. \A r : /\ Into(f, r) = IF r = f.to THEN q ELSE 0
                   /\ Through(f, r) = IF r = f.from THEN q ELSE 0
        BY <1>3 DEF Into, Through
      <4> QED
        BY <1>3, <4>1, <4>2
    <3>2. CASE f.action = "transferCustody"
      <4>1. \A r : OnhandEffect(f, r) = Into(f, r) - Through(f, r) /\ AccountingEffect(f, r) = 0
        BY <3>2 DEF AccountingEffect, OnhandEffect
      <4>2. \A r : /\ Into(f, r) = IF r = f.to THEN q ELSE 0
                   /\ Through(f, r) = IF r = f.from THEN q ELSE 0
        BY <1>3 DEF Into, Through
      <4>3. \A r \in 1..m : e[r] = (IF r = f.to THEN -q ELSE 0) - (IF r = f.from THEN -q ELSE 0)
        BY <1>3, <4>1, <4>2
      <4> QED
        BY <4>3
    <3> QED
      BY <1>6, <3>1, <3>2
  <2>5. p \in Int /\ -p \in Int
    BY <1>3, <2>4
  <2>6. CASE f.from = f.to
    <3>1. \A r \in 1..m : e[r] = 0
      BY <2>4, <2>5, <2>6
    <3> QED
      BY <1>2, <2>1, <3>1, SumToZero
  <2>7. CASE f.from # f.to
    <3>1. e[f.from] = -p /\ e[f.to] = p
      BY <2>3, <2>4, <2>5, <2>7
    <3>2. \A r \in (1..m) \ {f.from, f.to} : e[r] = 0
      BY <2>4, <2>5
    <3>3. e[f.from] \in Int /\ e[f.to] = -e[f.from]
      BY <2>5, <3>1
    <3> QED
      BY <1>2, <2>1, <2>3, <2>7, <3>2, <3>3, SumToPair
  <2> QED
    BY <2>6, <2>7
<1>7. CASE f.action \notin {"accept", "modify", "transferAllRights", "transferCustody"}
  <2>1. \A r : AccountingEffect(f, r) = OnhandEffect(f, r)
    BY <1>7 DEF AccountingEffect, OnhandEffect
  <2>2. \A r \in 1..m : e[r] = 0
    BY <2>1, EffectTypes DEF Posts, Appends
  <2>3. IntoProcess(f) = 0
    BY <1>7 DEF IntoProcess
  <2> QED
    BY <1>2, <2>2, <2>3, SumToZero
<1> QED
  BY <1>5, <1>6, <1>7

LEMMA NotOnhandGrows ==
  ASSUME TypeOK, NEW f, Posts(f), Books(f)
  PROVE  NotOnhand' = NotOnhand + IntoProcess(f)
<1>1. PICK n \in Nat : n = Len(resources)
  BY Rows
<1>2. PICK m \in {n, n + 1} : m = Len(resources')
  BY <1>1, RowsAfter
<1>3. /\ ResourceIds = 1..n /\ ResourceIds' = 1..m
      /\ \A r \in 1..m : \/ r \in ResourceIds /\ r <= n
                         \/ r = NextResource /\ r = n + 1 /\ m = n + 1
  BY <1>1, <1>2, RowsAfter
<1>4. ASSUME NEW old, old = [r \in 1..n |-> resources[r].accounting - resources[r].onhand],
             NEW new, new = [r \in 1..m |-> resources'[r].accounting - resources'[r].onhand],
             NEW e, e = [r \in 1..m |-> AccountingEffect(f, r) - OnhandEffect(f, r)]
      PROVE  SumTo(m, new) = SumTo(n, old) + IntoProcess(f)
  <2>1. \A r \in 1..n : old[r] \in Int
    BY <1>3, <1>4, Rows
  <2>2. ASSUME NEW r \in 1..m
        PROVE  e[r] \in Int /\ (r <= n => new[r] = old[r] + e[r]) /\ (r = n + 1 => new[r] = e[r])
    <3>1. AccountingEffect(f, r) \in Int /\ OnhandEffect(f, r) \in Int
      BY EffectTypes DEF Posts, Appends
    <3>2. CASE r \in ResourceIds /\ r <= n
      <4>1. /\ resources'[r].accounting = resources[r].accounting + AccountingEffect(f, r)
            /\ resources'[r].onhand = resources[r].onhand + OnhandEffect(f, r)
        BY <3>2 DEF Posts, Counted
      <4>2. resources[r].accounting \in Int /\ resources[r].onhand \in Int
        BY <3>2, Rows
      <4> QED
        BY <1>4, <3>1, <3>2, <4>1, <4>2
    <3>3. CASE r = NextResource /\ r = n + 1 /\ m = n + 1
      <4>1. /\ resources'[r].accounting = AccountingEffect(f, r)
            /\ resources'[r].onhand = OnhandEffect(f, r)
        BY <1>2, <3>3 DEF Posts, Counted
      <4> QED
        BY <1>4, <3>1, <3>3, <4>1
    <3> QED
      BY <1>3, <3>2, <3>3
  <2>3. SumTo(m, new) = SumTo(n, old) + SumTo(m, e)
    <3>1. \A r \in 1..m : e[r] \in Int
      BY <2>2
    <3>2. \A r \in 1..n : new[r] = old[r] + e[r]
      BY <2>2
    <3>3. m = n + 1 => new[m] = e[m]
      BY <2>2
    <3> QED
      BY <2>1, <3>1, <3>2, <3>3, SumToExtended
  <2>4. SumTo(m, e) = IntoProcess(f)
    BY <1>2, <1>4, EffectsIntoProcess
  <2> QED
    BY <2>3, <2>4
<1> QED
  BY <1>1, <1>2, <1>3, <1>4 DEF NotOnhand

\* An accept event begins outstanding, a modify event ends the one it answers
\* being so, and nothing else changes which are.
LEMMA OutstandingAfter ==
  ASSUME TypeOK, PairsAreOneToOne, NEW f, Posts(f), Books(f), NEW n, n = NextEvent
  PROVE  /\ Outstanding(n)' <=> f.action = "accept"
         /\ f.action # "modify" => \A j \in EventIds : Outstanding(j)' <=> Outstanding(j)
         /\ f.action = "modify" =>
              \E i \in EventIds :
                /\ Outstanding(i) /\ ~(Outstanding(i)') /\ events[i].quantity = f.quantity
                /\ \A j \in EventIds \ {i} : Outstanding(j)' <=> Outstanding(j)
<1>1. n \in Nat
  BY Rows DEF NextEvent
<1>2. /\ EventIds = 1..(n - 1) /\ EventIds' = EventIds \cup {n} /\ n \notin EventIds
      /\ \A i \in EventIds : events'[i] = events[i]
      /\ events'[n] = f
  BY OldEvents, Rows DEF EventIds, NextEvent
<1>3. OpeningChecks(f) /\ AnswerChecks(f)
  BY DEF Books, Checked
<1>4. \A j \in EventIds :
        Outstanding(j)' <=> /\ Outstanding(j)
                            /\ ~ /\ f.action = "modify"
                                 /\ f.from = events[j].from /\ f.outputOf = events[j].inputOf
  <2> SUFFICES ASSUME NEW j \in EventIds
               PROVE  Outstanding(j)' <=> /\ Outstanding(j)
                                          /\ ~ /\ f.action = "modify"
                                               /\ f.from = events[j].from
                                               /\ f.outputOf = events[j].inputOf
    OBVIOUS
  <2> DEFINE GivesBack(k) == /\ events[k].action = "modify"
                             /\ events[k].from = events[j].from
                             /\ events[k].outputOf = events[j].inputOf
  <2>1. \A k \in EventIds : GivesBack(k)' <=> GivesBack(k)
    BY <1>2
  <2>2. GivesBack(n)' <=> /\ f.action = "modify"
                          /\ f.from = events[j].from /\ f.outputOf = events[j].inputOf
    BY <1>2
  <2>3. Outstanding(j) <=> events[j].action = "accept" /\ ~\E k \in EventIds : GivesBack(k)
    BY DEF Outstanding
  <2>4. Outstanding(j)' <=> events[j].action = "accept" /\ ~\E k \in EventIds' : GivesBack(k)'
    BY <1>2 DEF Outstanding
  <2> HIDE DEF GivesBack
  <2> QED
    BY <1>2, <2>1, <2>2, <2>3, <2>4
<1>5. Outstanding(n)' <=> f.action = "accept"
  <2>1. SUFFICES ASSUME f.action = "accept",
                        NEW j \in EventIds, events[j].action = "modify",
                        events[j].from = f.from, events[j].outputOf = f.inputOf
                 PROVE  FALSE
    BY <1>2 DEF Outstanding
  <2>2. PICK i \in 1..(j - 1) : /\ events[i].action = "accept"
                                /\ events[i].from = f.from /\ events[i].inputOf = f.inputOf
    BY <2>1 DEF PairsAreOneToOne, Opening
  <2>3. i \in EventIds
    BY <1>1, <1>2
  <2> QED
    BY <1>3, <2>1, <2>2, <2>3 DEF OpeningChecks, InputEvents
<1>6. ASSUME f.action = "modify"
      PROVE  \E i \in EventIds :
               /\ Outstanding(i) /\ ~(Outstanding(i)') /\ events[i].quantity = f.quantity
               /\ \A j \in EventIds \ {i} : Outstanding(j)' <=> Outstanding(j)
  <2>1. PICK i \in EventIds : /\ InputEvents("accept", f, f.outputOf) = {i}
                              /\ f.quantity = events[i].quantity
    BY <1>3, <1>6 DEF AnswerChecks, Opening
  <2>2. /\ events[i].action = "accept" /\ events[i].from = f.from
        /\ events[i].inputOf = f.outputOf
    BY <2>1 DEF InputEvents
  <2>3. OutputEvents("modify", f, f.outputOf) = {}
    BY <1>3, <1>6 DEF AnswerChecks
  <2>4. Outstanding(i)
    BY <2>2, <2>3 DEF Outstanding, OutputEvents
  <2>5. ~(Outstanding(i)')
    BY <1>4, <1>6, <2>2
  <2>6. \A j \in EventIds \ {i} : Outstanding(j)' <=> Outstanding(j)
    BY <1>4, <2>1 DEF Outstanding, InputEvents
  <2> QED
    BY <2>1, <2>4, <2>5, <2>6
<1> QED
  BY <1>1, <1>4, <1>5, <1>6

LEMMA InProcessGrows ==
  ASSUME TypeOK, PairsAreOneToOne, NEW f, Posts(f), Books(f)
  PROVE  InProcess' = InProcess + IntoProcess(f)
<1>1. PICK n \in Nat : n = Len(events)
  BY Rows
<1>2. /\ Len(events') = n + 1 /\ events'[n + 1] = f /\ NextEvent = n + 1
      /\ \A i \in 1..n : events'[i] = events[i] /\ events[i].quantity \in Int
      /\ EventIds = 1..n /\ EventIds' = 1..(n + 1)
  <2>1. \A i \in 1..n : events[i] \in Event
    BY <1>1 DEF TypeOK
  <2> QED
    BY <1>1, <2>1, AppendIsSequence DEF TypeOK, Posts, Appends, EventIds, NextEvent, Event
<1>3. f.quantity \in Int
  BY DEF Posts, Appends, Event
<1>4. ASSUME NEW g, g = [i \in 1..n |-> IF Outstanding(i) THEN events[i].quantity ELSE 0],
             NEW h, h = [i \in 1..(n + 1) |-> IF Outstanding(i)' THEN events'[i].quantity ELSE 0]
      PROVE  SumTo(n + 1, h) = SumTo(n, g) + IntoProcess(f)
  <2>1. SumTo(n + 1, h) = SumTo(n, h) + h[n + 1]
    BY SumToStep
  <2>2. h[n + 1] = IF f.action = "accept" THEN f.quantity ELSE 0
    BY <1>2, <1>4, OutstandingAfter
  <2>3. \A i \in 1..n : g[i] \in Int
    BY <1>2, <1>4
  <2>4. SumTo(n, g) \in Int
    BY <2>3, SumToType
  <2>5. CASE f.action # "modify"
    <3>1. \A i \in 1..n : g[i] = h[i]
      BY <1>2, <1>4, <2>5, OutstandingAfter
    <3>2. SumTo(n, h) = SumTo(n, g)
      BY <3>1, SumToSame
    <3> QED
      BY <1>3, <2>1, <2>2, <2>4, <2>5, <3>2 DEF IntoProcess
  <2>6. CASE f.action = "modify"
    <3>1. PICK k \in 1..n :
            /\ Outstanding(k) /\ ~(Outstanding(k)') /\ events[k].quantity = f.quantity
            /\ \A j \in (1..n) \ {k} : Outstanding(j)' <=> Outstanding(j)
      BY <1>2, <2>6, OutstandingAfter
    <3>2. \A i \in 1..n : h[i] = IF i = k THEN 0 ELSE g[i]
      BY <1>2, <1>4, <3>1
    <3>3. g[k] = f.quantity
      BY <1>4, <3>1
    <3>4. ASSUME NEW e, e = [i \in 1..n |-> IF i = k THEN -f.quantity ELSE 0]
          PROVE  SumTo(n, h) = SumTo(n, g) - f.quantity
      <4>1. e[k] = -f.quantity /\ e[k] \in Int /\ \A i \in 1..n : i # k => e[i] = 0
        BY <1>3, <3>4
      <4>2. SumTo(n, e) = -f.quantity
        BY <4>1, SumToAlone
      <4>3. \A i \in 1..n : g[i] \in Int /\ e[i] \in Int /\ h[i] = g[i] + e[i]
        BY <1>3, <2>3, <3>2, <3>3, <3>4
      <4>4. SumTo(n, h) = SumTo(n, g) + SumTo(n, e)
        BY <4>3, SumToGrows
      <4> QED
        BY <1>3, <2>4, <4>2, <4>4
    <3>5. IntoProcess(f) = -f.quantity /\ h[n + 1] = 0
      BY <2>2, <2>6 DEF IntoProcess
    <3>6. SumTo(n, h) = SumTo(n, g) - f.quantity
      BY <3>4
    <3> QED
      BY <1>3, <2>1, <2>4, <3>5, <3>6
  <2> QED
    BY <2>5, <2>6
<1> QED
  BY <1>1, <1>2, <1>4 DEF InProcess

LEMMA PackingKeepsProcesses ==
  ASSUME Packs
  PROVE  NotOnhand' = NotOnhand /\ InProcess' = InProcess
<1>1. /\ events' = events /\ EventIds' = EventIds /\ ResourceIds' = ResourceIds
      /\ Len(resources') = Len(resources)
      /\ \A r \in ResourceIds : /\ resources'[r].accounting = resources[r].accounting
                                /\ resources'[r].onhand = resources[r].onhand
  BY DEF Packs, EventIds, ResourceIds
<1>2. \A i : Outstanding(i)' <=> Outstanding(i)
  BY <1>1 DEF Outstanding
<1> QED
  BY <1>1, <1>2 DEF NotOnhand, InProcess

\* Whatever is not onhand is in some process, in every reachable ledger: a
\* modify event gives back what its accept event took, once (it needs that
\* the events are paired).
THEOREM ProcessesHoldTheRest == Spec => []NothingLostInProcess
<1>1. Init => NothingLostInProcess
  BY SumToStep DEF Init, NothingLostInProcess
<1>2. TypeOK /\ PairsAreOneToOne /\ NothingLostInProcess /\ [Next]_vars => NothingLostInProcess'
  <2>1. ASSUME TypeOK, PairsAreOneToOne, NothingLostInProcess, NEW f, Posts(f), Books(f)
        PROVE  NothingLostInProcess'
    <3>1. NotOnhand' = InProcess'
      BY <2>1, NotOnhandGrows, InProcessGrows DEF NothingLostInProcess, NotOnhand, InProcess
    <3> QED
      BY <3>1 DEF NothingLostInProcess, NotOnhand, InProcess
  <2>2. ASSUME NothingLostInProcess, Packs
        PROVE  NothingLostInProcess'
    <3>1. NotOnhand' = InProcess'
      BY <2>2, PackingKeepsProcesses DEF NothingLostInProcess, NotOnhand, InProcess
    <3> QED
      BY <3>1 DEF NothingLostInProcess, NotOnhand, InProcess
  <2>3. ASSUME NothingLostInProcess, UNCHANGED vars
        PROVE  NothingLostInProcess'
    BY <2>3 DEF vars, NothingLostInProcess, ResourceIds, EventIds, Outstanding
  <2> QED
    BY <2>1, <2>2, <2>3, Steps
<1> QED
  BY <1>1, <1>2, TypeCorrect, EventsArePaired, PTL DEF Spec
=============================================================================
