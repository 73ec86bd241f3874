---------------------------- MODULE ProcessGroups ----------------------------
(***************************************************************************)
(* Processes, the groups that hold them, and groups that hold groups       *)
(* (Process.Domain and ProcessGroup.Domain): create, update of             *)
(* grouped_in, delete, by clients whose requests overlap.                  *)
(*                                                                         *)
(* A request is a transaction of up to three statements: read the row (of  *)
(* an update), ask whether the group holds things of the other kind, write *)
(* the row.  The write is the last statement, so it is one step with the   *)
(* commit.  The database checks foreign keys in it.                        *)
(***************************************************************************)
EXTENDS Naturals

CONSTANTS
  Clients,     \* requests that can be in progress at once
  Procs,       \* ids of processes
  Groups,      \* ids of groups
  Unmade,      \* for a row that is not inserted yet,
  Deleted,     \*   one that is deleted,
  None         \*   and one that is in no group; no id at all

ASSUME IdsAssumption == Procs \cap Groups = {}
ASSUME NoIdsAssumption ==
  /\ {Unmade, Deleted, None} \cap (Procs \cup Groups) = {}
  /\ Unmade # Deleted /\ Unmade # None /\ Deleted # None

VARIABLES
  parent,  \* grouped_in_id of every row of vf_process and zf_process_group
  tx       \* the statement each client is at, and its request

vars == <<parent, tx>>

Ids == Procs \cup Groups

Exists(x) == parent[x] \in Groups \cup {None}

\* The group was inserted before: else no client could send its id.
Sendable(g) == g \in Groups => parent[g] # Unmade

\* The rows of table T that are grouped in g.
In(g, T) == {x \in T : parent[x] = g}

\* Requests write row `id', made by this request if it is `new', with
\* grouped_in `into'.
Idle == [pc |-> "idle", id |-> None, new |-> FALSE, into |-> None]

-----------------------------------------------------------------------------
(* create/1 *)

\* An id is new (a ULID), so no other request has it.
Fresh(x) == parent[x] = Unmade /\ \A c \in Clients : tx[c].id # x

\* Without a group there is nothing to ask.
Create(c) ==
  /\ tx[c].pc = "idle"
  /\ \E x \in Ids, g \in Groups \cup {None} :
       /\ Fresh(x) /\ Sendable(g)
       /\ tx' = [tx EXCEPT ![c] = [pc |-> IF g = None THEN "write" ELSE "ask",
                                   id |-> x, new |-> TRUE, into |-> g]]
  /\ UNCHANGED parent

-----------------------------------------------------------------------------
(* update/2, with a group.  (With none the query for the group raises.) *)

\* The changeset of a group does not take the group itself (value_ne); one that
\* changes nothing is not asked about, nor written.
Read(c) ==
  /\ tx[c].pc = "idle"
  /\ \E x \in Ids, g \in Groups :
       /\ Exists(x) /\ Sendable(g) /\ g # x /\ parent[x] # g
       /\ tx' = [tx EXCEPT ![c] = [pc |-> "ask", id |-> x, new |-> FALSE, into |-> g]]
  /\ UNCHANGED parent

-----------------------------------------------------------------------------
(* Both *)

\* Mutated: looks for the kind of the row itself.
OwnKind(x) == IF x \in Procs THEN Procs ELSE Groups

\* The table that must have no row in the group of x.
Others(x) == IF x \in Procs THEN Groups ELSE Procs

Ask(c) ==
  /\ tx[c].pc = "ask"
  /\ In(tx[c].into, Others(tx[c].id)) = {}
  /\ tx' = [tx EXCEPT ![c].pc = "write"]
  /\ UNCHANGED parent

Refuse(c) ==
  /\ tx[c].pc = "ask"
  /\ In(tx[c].into, Others(tx[c].id)) # {}
  /\ tx' = [tx EXCEPT ![c] = Idle]
  /\ UNCHANGED parent

\* Mutated: the key is checked only when a row is inserted.
InsertIsWritable(q) == IF q.new THEN q.into \in Groups => Exists(q.into) ELSE Exists(q.id)

\* The row to be updated and the group still exist.
Writable(q) ==
  /\ ~q.new => Exists(q.id)
  /\ q.into \in Groups => Exists(q.into)

Write(c) ==
  /\ tx[c].pc = "write"
  /\ Writable(tx[c])
  /\ parent' = [parent EXCEPT ![tx[c].id] = tx[c].into]
  /\ tx' = [tx EXCEPT ![c] = Idle]

\* The write raises, or the process or its connection is lost before.
Fail(c) ==
  /\ tx[c].pc # "idle"
  /\ tx' = [tx EXCEPT ![c] = Idle]
  /\ UNCHANGED parent

-----------------------------------------------------------------------------
(* delete/1 *)

\* A group that a row refers to stays (the foreign keys restrict).
Deletable(x) == Exists(x) /\ In(x, Ids) = {}

Delete(c) ==
  /\ tx[c].pc = "idle"
  /\ \E x \in Ids : Deletable(x) /\ parent' = [parent EXCEPT ![x] = Deleted]
  /\ UNCHANGED tx

-----------------------------------------------------------------------------
Init ==
  /\ parent = [x \in Ids |-> Unmade]
  /\ tx = [c \in Clients |-> Idle]

Next ==
  \E c \in Clients :
    Create(c) \/ Read(c) \/ Ask(c) \/ Refuse(c) \/ Write(c) \/ Fail(c) \/ Delete(c)

Spec == Init /\ [][Next]_vars

-----------------------------------------------------------------------------
(* Properties *)

\* Rows and requests have their types, and a row is grouped in a group that
\* exists, whatever was deleted meanwhile.
TypeOK ==
  /\ parent \in [Ids -> Groups \cup {None, Unmade, Deleted}]
  /\ \A x \in Ids : parent[x] \in Groups => Exists(parent[x])
  /\ tx \in [Clients -> [pc : {"idle", "ask", "write"}, id : Ids \cup {None},
                         new : BOOLEAN, into : Groups \cup {None}]]
  /\ \A c \in Clients : tx[c].pc # "idle" => tx[c].id \in Ids
=============================================================================
