----------------------------- MODULE GroupHistory -----------------------------
(***************************************************************************)
(* Which requests that put rows into groups overlapped.  Two history       *)
(* variables tell it; they change nothing about the groups.                *)
(***************************************************************************)
EXTENDS ProcessGroups

VARIABLES
  unseen,     \* per client that is about to write: the rows written since it asked
  overlapped  \* pairs of rows: one was put where it is between question and write of the other

historyVars == <<parent, tx, unseen, overlapped>>

Changed == {x \in Ids : parent'[x] # parent[x]}

AboutToWrite(c) == tx[c].pc = "write"

\* The client that writes, if one does.
Writers == {c \in Clients : AboutToWrite(c) /\ ~AboutToWrite(c)'}

HistoryInit ==
  /\ Init
  /\ unseen = [c \in Clients |-> {}]
  /\ overlapped = {}

\* A row that is written leaves the pairs that it was in, and forms new ones.
HistoryNext ==
  /\ Next
  /\ unseen' = [c \in Clients |-> IF AboutToWrite(c) /\ AboutToWrite(c)'
                                  THEN unseen[c] \cup Changed ELSE {}]
  /\ overlapped' = {pair \in overlapped : pair \cap Changed = {}}
                     \cup {{x, y} : x \in Changed, y \in UNION {unseen[c] : c \in Writers}}

HistorySpec == HistoryInit /\ [][HistoryNext]_historyVars

-----------------------------------------------------------------------------
(* Properties *)

\* A group comes to hold a process and a group only if the requests that put
\* them there overlapped: the later one had been told that there is nothing of
\* the other kind before the earlier one wrote.  Else the question that create/1
\* and update/2 of both domains ask keeps kinds apart, whatever is moved and
\* deleted in between.
MixedByOverlap ==
  \A g \in Groups : \A p \in In(g, Procs), h \in In(g, Groups) : {p, h} \in overlapped

-----------------------------------------------------------------------------
(* Refuted *)

\* Refuted: vf/process_group.ex:23-33 ("A Process might belong to a
\* ProcessGroup.  If that's the case, no other ProcessGroup can belong to that
\* particular ProcessGroup."), which groups/2 relies on: it answers the processes
\* of a group if there are any, and else its groups.
Exclusive == \A g \in Groups : In(g, Procs) = {} \/ In(g, Groups) = {}
=============================================================================
