------------------------- MODULE ProcessGroupProofs -------------------------
(***************************************************************************)
(* Proofs about processes and groups: rows refer to groups that exist, and *)
(* only requests that overlap put both kinds into a group.                 *)
(***************************************************************************)
EXTENDS GroupHistory, TLAPS

\* Whatever requests overlap, rows and requests keep their types and every row
\* is grouped in a group that exists (the foreign keys, against deletions of the
\* group between the question and the write).
THEOREM TypeCorrect == Spec => []TypeOK
<1>1. Init => TypeOK
  BY NoIdsAssumption DEF Init, TypeOK, Idle, Ids
<1>2. TypeOK /\ [Next]_vars => TypeOK'
  <2> SUFFICES ASSUME TypeOK, [Next]_vars
               PROVE  TypeOK'
    OBVIOUS
  <2>1. CASE UNCHANGED vars
    BY <2>1 DEF vars, TypeOK, Exists
  <2>2. ASSUME NEW c \in Clients, Create(c) PROVE TypeOK'
    BY <2>2 DEF Create, Fresh, TypeOK, Exists
  <2>3. ASSUME NEW c \in Clients, Read(c) PROVE TypeOK'
    BY <2>3 DEF Read, TypeOK, Exists
  <2>4. ASSUME NEW c \in Clients, Ask(c) PROVE TypeOK'
    BY <2>4 DEF Ask, TypeOK, Exists
  <2>5. ASSUME NEW c \in Clients, Refuse(c) \/ Fail(c) PROVE TypeOK'
    <3>1. parent' = parent /\ tx' = [tx EXCEPT ![c] = Idle]
      BY <2>5 DEF Refuse, Fail
    <3>2. Idle \in [pc : {"idle", "ask", "write"}, id : Ids \cup {None},
                    new : BOOLEAN, into : Groups \cup {None}]
      BY DEF Idle
    <3>3. \A d \in Clients : tx'[d].pc # "idle" => tx'[d].id \in Ids
      BY <3>1 DEF TypeOK, Idle
    <3> QED
      BY <3>1, <3>2, <3>3 DEF TypeOK, Exists
  <2>6. ASSUME NEW c \in Clients, Write(c) PROVE TypeOK'
    <3>1. tx[c].id \in Ids /\ tx[c].into \in Groups \cup {None}
      BY <2>6 DEF Write, TypeOK
    <3>2. parent' \in [Ids -> Groups \cup {None, Unmade, Deleted}]
      BY <2>6, <3>1 DEF Write, TypeOK
    <3>3. ASSUME NEW x \in Ids, Exists(x) PROVE Exists(x)'
      BY <2>6, <3>1, <3>3 DEF Write, TypeOK, Exists
    <3>4. ASSUME NEW x \in Ids, parent'[x] \in Groups PROVE Exists(parent[x])'
      <4>1. Exists(parent'[x])
        BY <2>6, <3>1, <3>4 DEF Write, Writable, TypeOK
      <4> QED
        BY <4>1, <3>3, <3>4 DEF Ids, Exists
    <3> QED
      BY <2>6, <3>2, <3>4 DEF Write, Idle, TypeOK
  <2>7. ASSUME NEW c \in Clients, Delete(c) PROVE TypeOK'
    <3>1. PICK x \in Ids : Deletable(x) /\ parent' = [parent EXCEPT ![x] = Deleted]
      BY <2>7 DEF Delete
    <3>2. ASSUME NEW y \in Ids, parent'[y] \in Groups PROVE Exists(parent[y])'
      <4>1. y # x /\ parent'[y] = parent[y]
        BY <3>1, <3>2, NoIdsAssumption DEF TypeOK
      <4>2. parent[y] # x
        BY <3>1 DEF Deletable, In
      <4> QED
        BY <3>1, <3>2, <4>1, <4>2 DEF TypeOK, Exists, Ids
    <3> QED
      BY <2>7, <3>1, <3>2 DEF Delete, TypeOK
  <2> QED
    BY <2>1, <2>2, <2>3, <2>4, <2>5, <2>6, <2>7 DEF Next
<1> QED
  BY <1>1, <1>2, PTL DEF Spec

-----------------------------------------------------------------------------
(* Kinds *)

\* The history variables change nothing about the groups.
LEMMA HistoryIsGroups == HistorySpec => Spec
<1>1. HistoryInit => Init
  BY DEF HistoryInit
<1>2. [HistoryNext]_historyVars => [Next]_vars
  BY DEF HistoryNext, historyVars, vars
<1> QED
  BY <1>1, <1>2, PTL DEF HistorySpec, Spec

\* What a request was told, that its group holds nothing of the other kind, is
\* still so but for the rows written since.
AnswersAge ==
  \A c \in Clients : AboutToWrite(c) /\ tx[c].into \in Groups =>
    In(tx[c].into, Others(tx[c].id)) \subseteq unseen[c]

KindInv == AnswersAge /\ MixedByOverlap

\* A request that is about to write was so before, or has just asked, or puts
\* its row into no group.
LEMMA WritesAfterAsking ==
  ASSUME TypeOK, Next, NEW c \in Clients, AboutToWrite(c)', tx'[c].into \in Groups
  PROVE  /\ tx'[c].id = tx[c].id /\ tx'[c].into = tx[c].into
         /\ \/ AboutToWrite(c)
            \/ parent' = parent /\ In(tx[c].into, Others(tx[c].id)) = {}
<1>1. PICK d \in Clients :
        Create(d) \/ Read(d) \/ Ask(d) \/ Refuse(d) \/ Write(d) \/ Fail(d) \/ Delete(d)
  BY DEF Next
<1>2. CASE d # c
  <2>1. tx'[c] = tx[c]
    BY <1>1, <1>2 DEF Create, Read, Ask, Refuse, Write, Fail, Delete, TypeOK
  <2> QED
    BY <2>1 DEF AboutToWrite
<1>3. CASE d = c /\ Ask(d)
  BY <1>3 DEF Ask, TypeOK
<1>4. CASE d = c /\ Delete(d)
  BY <1>4 DEF Delete, AboutToWrite
<1>5. CASE d = c /\ (Create(d) \/ Read(d))
  BY <1>5, NoIdsAssumption DEF Create, Read, AboutToWrite, TypeOK
<1>6. CASE d = c /\ (Refuse(d) \/ Write(d) \/ Fail(d))
  BY <1>6 DEF Refuse, Write, Fail, Idle, AboutToWrite, TypeOK
<1> QED
  BY <1>1, <1>2, <1>3, <1>4, <1>5, <1>6

LEMMA AnswersKeepAging ==
  ASSUME TypeOK, AnswersAge, HistoryNext
  PROVE  AnswersAge'
<1> SUFFICES ASSUME NEW c \in Clients, AboutToWrite(c)', tx'[c].into \in Groups,
                    NEW y \in Others(tx'[c].id), y \in Ids, parent'[y] = tx'[c].into
             PROVE  y \in unseen'[c]
  BY DEF AnswersAge, In, Others, Ids
<1>1. /\ tx'[c].id = tx[c].id /\ tx'[c].into = tx[c].into
      /\ \/ AboutToWrite(c)
         \/ parent' = parent /\ In(tx[c].into, Others(tx[c].id)) = {}
  BY WritesAfterAsking DEF HistoryNext
<1>2. AboutToWrite(c)
  BY <1>1 DEF In
<1>3. unseen'[c] = unseen[c] \cup Changed
  BY <1>2 DEF HistoryNext
<1>4. CASE parent'[y] = parent[y]
  BY <1>1, <1>2, <1>3, <1>4 DEF AnswersAge, In
<1>5. CASE parent'[y] # parent[y]
  BY <1>3, <1>5 DEF Changed
<1> QED
  BY <1>4, <1>5

\* The rows that a step changes: the one that a request writes, which is one of
\* Writers, or one that is deleted.
LEMMA ChangesAre ==
  ASSUME TypeOK, Next
  PROVE  \/ Changed = {}
         \/ \E x \in Ids : /\ Changed = {x}
                           /\ parent'[x] \notin Groups
         \/ \E c \in Writers : /\ Changed = {tx[c].id} /\ tx[c].id \in Ids
                               /\ parent'[tx[c].id] = tx[c].into
<1>1. PICK c \in Clients :
        Create(c) \/ Read(c) \/ Ask(c) \/ Refuse(c) \/ Write(c) \/ Fail(c) \/ Delete(c)
  BY DEF Next
<1>2. CASE Create(c) \/ Read(c) \/ Ask(c) \/ Refuse(c) \/ Fail(c)
  BY <1>2 DEF Create, Read, Ask, Refuse, Fail, Changed
<1>3. CASE Delete(c)
  <2>1. PICK x \in Ids : parent' = [parent EXCEPT ![x] = Deleted]
    BY <1>3 DEF Delete
  <2>2. Changed \subseteq {x} /\ parent'[x] \notin Groups
    BY <2>1, NoIdsAssumption DEF TypeOK, Changed
  <2> QED
    BY <2>2
<1>4. CASE Write(c)
  <2>1. tx[c].id \in Ids /\ parent' = [parent EXCEPT ![tx[c].id] = tx[c].into]
    BY <1>4 DEF Write, TypeOK
  <2>2. c \in Writers
    BY <1>4 DEF Write, Writers, AboutToWrite, Idle, TypeOK
  <2>3. Changed \subseteq {tx[c].id} /\ parent'[tx[c].id] = tx[c].into
    BY <2>1 DEF TypeOK, Changed
  <2> QED
    BY <2>1, <2>2, <2>3
<1> QED
  BY <1>1, <1>2, <1>3, <1>4

\* A process and a group that come together are an overlapping pair.
LEMMA MixesByOverlap ==
  ASSUME TypeOK, AnswersAge, MixedByOverlap, HistoryNext
  PROVE  MixedByOverlap'
<1> SUFFICES ASSUME NEW g \in Groups, NEW p \in Procs, NEW h \in Groups,
                    parent'[p] = g, parent'[h] = g
             PROVE  {p, h} \in overlapped'
  BY DEF MixedByOverlap, In
<1>1. p \in Ids /\ h \in Ids /\ p # h
  BY IdsAssumption DEF Ids
<1>2. CASE p \notin Changed /\ h \notin Changed
  <2>1. parent[p] = g /\ parent[h] = g
    BY <1>1, <1>2 DEF Changed
  <2>2. {p, h} \in overlapped
    BY <2>1 DEF MixedByOverlap, In
  <2> QED
    BY <1>2, <2>2 DEF HistoryNext
<1>3. ASSUME NEW x \in {p, h}, NEW y \in {p, h}, x # y, x \in Changed
      PROVE  {p, h} \in overlapped'
  <2>1. parent'[x] = g /\ parent'[y] = g
    BY <1>3
  <2>2. PICK c \in Writers : Changed = {tx[c].id} /\ parent'[tx[c].id] = tx[c].into
    BY <1>3, <2>1, ChangesAre DEF HistoryNext
  <2>3. x = tx[c].id /\ tx[c].into = g /\ c \in Clients /\ AboutToWrite(c)
    BY <1>3, <2>1, <2>2 DEF Writers
  <2>4. parent[y] = g
    BY <1>1, <1>3, <2>1, <2>2, <2>3 DEF Changed
  <2>5. y \in Others(x)
    BY <1>1, <1>3, IdsAssumption DEF Others
  <2>6. y \in unseen[c]
    BY <2>3, <2>4, <2>5 DEF AnswersAge, In
  <2>7. {x, y} \in overlapped'
    BY <1>3, <2>2, <2>6 DEF HistoryNext
  <2> QED
    BY <1>3, <2>7
<1> QED
  BY <1>1, <1>2, <1>3

\* However many requests there are and however they overlap, a group holds a
\* process and a group only if the requests that put them there overlapped: the
\* check of create/1 and update/2 without an index lets through this and no
\* other way to mix kinds.
THEOREM KindsMixByOverlap == HistorySpec => []MixedByOverlap
<1>1. HistoryInit => KindInv
  BY NoIdsAssumption
     DEF HistoryInit, Init, Idle, KindInv, AnswersAge, AboutToWrite, MixedByOverlap, In, Ids
<1>2. TypeOK /\ KindInv /\ [HistoryNext]_historyVars => KindInv'
  <2>1. CASE HistoryNext
    BY <2>1, AnswersKeepAging, MixesByOverlap DEF KindInv
  <2>2. CASE UNCHANGED historyVars
    BY <2>2 DEF historyVars, KindInv, AnswersAge, AboutToWrite, MixedByOverlap, In
  <2> QED
    BY <2>1, <2>2
<1>3. KindInv => MixedByOverlap
  BY DEF KindInv
<1> QED
  BY <1>1, <1>2, <1>3, HistoryIsGroups, TypeCorrect, PTL DEF HistorySpec
=============================================================================
