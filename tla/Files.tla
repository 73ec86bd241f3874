--------------------------------- MODULE Files ---------------------------------
(***************************************************************************)
(* Images and their owners: File.Domain under the requests that call it,   *)
(* statement by statement, with what they do to persons.                   *)
(*                                                                         *)
(* A file is a row keyed by the hash of its content; the content comes     *)
(* later, by an upload.  Join rows tie files to owners (persons,           *)
(* organizations, resources, ...).  Creating or updating an owner ends by  *)
(* deleting the files without a join row, whoever's they were.             *)
(*                                                                         *)
(* Each request is a transaction at READ COMMITTED, as in                  *)
(* EventTransactions: a statement sees what is committed when it starts    *)
(* and what its own transaction wrote, and waits for transactions that     *)
(* hold a row it writes or refers to.                                      *)
(***************************************************************************)
EXTENDS Integers, Sequences, FiniteSets, SequencesExt

CONSTANTS
  Clients,       \* requests that can be in progress at once
  Persons,       \* ids of owners; they are never used again
  NoOne,         \* the owner of what is not about an owner
  Hashes,        \* contents of files
  Operations,    \* the requests that clients make
  Lists,         \* the lists of images that clients send
  MaxRequests    \* bound on the number of requests

ASSUME NoOneAssumption == NoOne \notin Persons
ASSUME BoundsAssumption == MaxRequests \in Nat

VARIABLES
  persons,   \* "free", "unverified", "verified" or "deleted", as committed
  files,     \* zf_file as committed: "none", "empty" (no content yet) or "full"
  joins,     \* zf_file_join as committed
  requests,  \* the number of requests so far
  history,   \* committed creations and updates, in the order of the commits
  tokens,    \* persons that verification tokens were made for
  tx         \* what each client's transaction is about to do, and has written

vars == <<persons, files, joins, requests, history, tokens, tx>>

NotNamed == <<"not named">>   \* an update whose params have no images

ASSUME ListsAssumption == Lists \subseteq Seq(Hashes) /\ <<>> \in Lists /\ NotNamed \notin Lists

NoRequest == [op |-> "none", owner |-> NoOne, images |-> <<>>, touches |-> FALSE]

\* touches: whether it changes a column of the owner.
Requests ==
  [op: {"create", "update", "verify", "delete"}, owner: Persons, images: Lists \cup {NotNamed}, touches: BOOLEAN]
    \cup [op: {"upload"}, owner: {NoOne}, images: {<<h>> : h \in Hashes}, touches: {FALSE}]

\* A join row; `request' tells rows of equal content apart.
Join(o, h, n) == [owner |-> o, hash |-> h, request |-> n]

\* before: the committed requests when this one began; seen: the rows that a
\* statement found and will delete; todo: images to attach.  The rest is
\* written: owner row locked, files inserted, deleted or filled, joins.
Idle == [pc |-> "idle", id |-> 0, req |-> NoRequest, before |-> {}, seen |-> {}, todo |-> <<>>,
         locked |-> FALSE, inserted |-> {}, removed |-> {}, filled |-> {},
         added |-> {}, dropped |-> {}]

Exists(o) == persons[o] \in {"unverified", "verified"}

Images(req) == IF req.images = NotNamed THEN <<>> ELSE req.images

Owner(c) == tx[c].req.owner
Goto(c, pc) == tx' = [tx EXCEPT ![c].pc = pc]

VisibleFile(c, h) == h \in tx[c].inserted \/ (files[h] # "none" /\ h \notin tx[c].removed)
VisibleJoins(c) == (joins \ tx[c].dropped) \cup tx[c].added

HashesOf(rows) == {j.hash : j \in rows}

-----------------------------------------------------------------------------
(* Locks: the transactions whose end the next statement of c waits for.     *)

\* Whether transaction d holds the row of owner o against an update, a
\* deletion, or a reference to it.
Writes(d, o) == tx[d].locked /\ Owner(d) = o
Deletes(d, o) == Writes(d, o) /\ tx[d].req.op = "delete"
Refers(d, o) == Writes(d, o) \/ \E j \in tx[d].added \cup tx[d].dropped : j.owner = o

Holds(c, d) ==
  LET t == tx[c]
      u == tx[d]
  IN CASE t.pc = "write" -> Writes(d, Owner(c))
       [] t.pc = "delete" -> Refers(d, Owner(c))
       [] t.pc = "drop" -> t.seen \cap u.dropped # {}
       [] t.pc = "insertFile" -> Head(t.todo) \in u.inserted \cup u.removed
       [] t.pc = "join" -> Head(t.todo) \in u.removed \/ Deletes(d, Owner(c))
       [] t.pc = "collect" -> t.seen \cap (u.removed \cup u.filled \cup HashesOf(u.added)) # {}
       [] t.pc = "fill" -> Head(t.todo) \in u.removed \cup u.filled
       [] OTHER -> FALSE

WaitsFor(c, d) == c # d /\ Holds(c, d)

Served(c) == \A d \in Clients : ~WaitsFor(c, d)

Deadlocked(c) ==
  \E S \in SUBSET Clients :
    /\ c \in S
    /\ \A x \in S : (\E y \in S : WaitsFor(x, y)) /\ (\E y \in S : WaitsFor(y, x))

-----------------------------------------------------------------------------
(* Requests                                                                 *)

Begin(c, req, pc, todo) ==
  /\ tx[c].pc = "idle"
  /\ requests < MaxRequests /\ req.op \in Operations
  /\ requests' = requests + 1
  /\ tx' = [tx EXCEPT ![c] = [Idle EXCEPT !.pc = pc, !.req = req, !.id = requests', !.todo = todo,
                                          !.before = {e.id : e \in ToSet(history)}]]

\* Multi.insert of an owner, whom no one else sees yet, with its images.
Create(c) ==
  /\ \E o \in Persons, images \in Lists :
       /\ persons[o] = "free"
       /\ \A d \in Clients : Owner(d) # o
       /\ Begin(c, [op |-> "create", owner |-> o, images |-> images, touches |-> TRUE], "attach", images)
  /\ UNCHANGED <<persons, files, joins, history, tokens>>

\* An update sends an UPDATE only if it changes a column (images is virtual);
\* the guards on o are those of `one', which finds the row.
Update(c) ==
  /\ \E o \in Persons, images \in Lists \cup {NotNamed}, touches \in BOOLEAN :
       LET req == [op |-> "update", owner |-> o, images |-> images, touches |-> touches]
       IN /\ Exists(o)
          /\ Begin(c, req, IF touches THEN "write" ELSE "readJoins", Images(req))
  /\ UNCHANGED <<persons, files, joins, history, tokens>>

Delete(c) ==
  /\ \E o \in Persons :
       /\ Exists(o)
       /\ Begin(c, [op |-> "delete", owner |-> o, images |-> NotNamed, touches |-> TRUE], "delete", <<>>)
  /\ UNCHANGED <<persons, files, joins, history, tokens>>

\* request_email_verification: a token is a MAC of the person and the time.
SendToken ==
  /\ "verify" \in Operations
  /\ \E o \in Persons : Exists(o) /\ tokens' = tokens \cup {o}
  /\ UNCHANGED <<persons, files, joins, requests, history, tx>>

\* token_validate.  The comparison of the time in the token with the time that
\* the expiry ends from NOW on (88) refuses no token, so there is no clock here.
TokenValid(o) == o \in tokens

\* verify_email_verification: after the token, an update that names no images.
Verify(c) ==
  /\ \E o \in Persons :
       LET req == [op |-> "verify", owner |-> o, images |-> NotNamed,
                   touches |-> persons[o] = "unverified"]
       IN /\ TokenValid(o)
          /\ Exists(o)
          /\ Begin(c, req, IF req.touches THEN "write" ELSE "readJoins", Images(req))
  /\ UNCHANGED <<persons, files, joins, history, tokens>>

\* POST of the content of a file that exists; the transaction is open while
\* the body arrives.  A body of another size or hash ends in a rollback.
UploadContent(c) ==
  /\ \E h \in Hashes : files[h] # "none" /\ Begin(c, [NoRequest EXCEPT !.op = "upload", !.images = <<h>>], "fill", <<h>>)
  /\ UNCHANGED <<persons, files, joins, history, tokens>>

-----------------------------------------------------------------------------
(* Statements.  One that fails raises or returns an error: a rollback.       *)

Shared == <<persons, files, joins, requests, history, tokens>>

\* The UPDATE of the owner; a row deleted meanwhile is a StaleEntryError.
Write(c) ==
  /\ tx[c].pc = "write" /\ Served(c) /\ Exists(Owner(c))
  /\ tx' = [tx EXCEPT ![c].locked = TRUE, ![c].pc = "readJoins"]
  /\ UNCHANGED Shared

\* Mutated: multi_update keeps the old join rows.
ReadNoJoins(c) == {}

OldJoins(c) == {j \in joins : j.owner = Owner(c)}

\* delete_old_files is one DELETE; it finds its rows, then waits for them, and
\* skips those that were deleted by then.
ReadJoins(c) ==
  /\ tx[c].pc = "readJoins"
  /\ tx' = [tx EXCEPT ![c].seen = OldJoins(c), ![c].pc = "drop"]
  /\ UNCHANGED Shared

\* Mutated: unused files are deleted before the new images are attached.
CollectFirst(pc) ==
  CASE pc = "drop" -> "readUnused" [] pc = "collect" -> "attach" [] pc = "attach" -> "commit"

\* The order of the parts of multi_update and multi_insert.
After(pc) ==
  CASE pc = "drop" -> "attach" [] pc = "attach" -> "readUnused" [] pc = "collect" -> "commit"

Drop(c) ==
  /\ tx[c].pc = "drop" /\ Served(c)
  /\ tx' = [tx EXCEPT ![c].dropped = tx[c].seen \cap joins, ![c].seen = {}, ![c].pc = After("drop")]
  /\ UNCHANGED Shared

\* exists? of create_file_if_not_exists, for the next image.
LookForFile(c) ==
  /\ tx[c].pc = "attach" /\ tx[c].todo # <<>>
  /\ Goto(c, IF VisibleFile(c, Head(tx[c].todo)) THEN "join" ELSE "insertFile")
  /\ UNCHANGED Shared

AllAttached(c) ==
  /\ tx[c].pc = "attach" /\ tx[c].todo = <<>>
  /\ Goto(c, After("attach"))
  /\ UNCHANGED Shared

\* Fails on a row that another transaction committed after exists? looked.
InsertFile(c) ==
  LET h == Head(tx[c].todo)
  IN /\ tx[c].pc = "insertFile" /\ Served(c) /\ ~VisibleFile(c, h)
     /\ tx' = [tx EXCEPT ![c].inserted = @ \cup {h}, ![c].pc = "join"]
     /\ UNCHANGED Shared

\* Mutated: zf_file_join has no foreign keys.
ReferencesUnchecked(c) == TRUE

References(c) ==
  /\ VisibleFile(c, Head(tx[c].todo))
  /\ tx[c].req.op = "create" \/ Exists(Owner(c))

\* Fails if the file or the owner is gone (the foreign keys).
InsertJoin(c) ==
  /\ tx[c].pc = "join" /\ Served(c) /\ References(c)
  /\ tx' = [tx EXCEPT ![c].added = @ \cup {Join(Owner(c), Head(tx[c].todo), tx[c].id)},
                      ![c].todo = Tail(@), ![c].pc = "attach"]
  /\ UNCHANGED Shared

\* delete_unused_files, one DELETE.
ReadUnused(c) ==
  /\ tx[c].pc = "readUnused"
  /\ tx' = [tx EXCEPT ![c].seen = {h \in Hashes : VisibleFile(c, h) /\ h \notin HashesOf(VisibleJoins(c))},
                      ![c].pc = "collect"]
  /\ UNCHANGED Shared

\* What is still there of the rows it found; a reference made since fails it.
Unused(c) == {h \in tx[c].seen : VisibleFile(c, h)}

Collect(c) ==
  /\ tx[c].pc = "collect" /\ Served(c) /\ Unused(c) \cap HashesOf(VisibleJoins(c)) = {}
  /\ tx' = [tx EXCEPT ![c].removed = Unused(c), ![c].seen = {}, ![c].pc = After("collect")]
  /\ UNCHANGED Shared

\* The join rows go with their owner (on_delete: :delete_all); no collection.
DeleteOwner(c) ==
  /\ tx[c].pc = "delete" /\ Served(c) /\ Exists(Owner(c))
  /\ tx' = [tx EXCEPT ![c].locked = TRUE, ![c].dropped = OldJoins(c), ![c].pc = "commit"]
  /\ UNCHANGED Shared

Fill(c) ==
  /\ tx[c].pc = "fill" /\ Served(c) /\ files[Head(tx[c].todo)] # "none"
  /\ tx' = [tx EXCEPT ![c].filled = {Head(tx[c].todo)}, ![c].pc = "commit"]
  /\ UNCHANGED Shared

Fails(c) ==
  \/ tx[c].pc \in {"write", "delete"} /\ ~Exists(Owner(c))
  \/ tx[c].pc = "insertFile" /\ VisibleFile(c, Head(tx[c].todo))
  \/ tx[c].pc = "join" /\ ~References(c)
  \/ tx[c].pc = "collect" /\ Unused(c) \cap HashesOf(VisibleJoins(c)) # {}
  \/ tx[c].pc = "fill" /\ files[Head(tx[c].todo)] = "none"

\* A statement fails; or the database breaks a deadlock; or the process or its
\* connection dies.
Fail(c) == Fails(c) /\ Served(c) /\ tx' = [tx EXCEPT ![c] = Idle] /\ UNCHANGED Shared
BreakDeadlock(c) == Deadlocked(c) /\ tx' = [tx EXCEPT ![c] = Idle] /\ UNCHANGED Shared
Lose(c) == tx[c].pc # "idle" /\ tx' = [tx EXCEPT ![c] = Idle] /\ UNCHANGED Shared

\* Mutated: an update writes all columns of the row that `one' read.
PersonAfterAllColumns(c, o) ==
  IF Owner(c) # o
  THEN persons[o]
  ELSE CASE tx[c].req.op = "delete" -> "deleted"
         [] tx[c].req.op = "verify" /\ tx[c].locked -> "verified"
         [] OTHER -> "unverified"

PersonAfter(c, o) ==
  IF Owner(c) # o
  THEN persons[o]
  ELSE CASE tx[c].req.op = "create" -> "unverified"
         [] tx[c].req.op = "delete" -> "deleted"
         [] tx[c].req.op = "verify" /\ tx[c].locked -> "verified"
         [] OTHER -> persons[o]

FileAfter(c, h) ==
  CASE h \in tx[c].inserted -> "empty"
    [] h \in tx[c].removed -> "none"
    [] h \in tx[c].filled -> "full"
    [] OTHER -> files[h]

Commit(c) ==
  /\ tx[c].pc = "commit"
  /\ persons' = [o \in Persons |-> PersonAfter(c, o)]
  /\ files' = [h \in Hashes |-> FileAfter(c, h)]
  /\ joins' = VisibleJoins(c)
  /\ history' = IF tx[c].req.op \in {"upload", "delete"} THEN history
                ELSE Append(history, [id |-> tx[c].id, req |-> tx[c].req, before |-> tx[c].before])
  /\ tx' = [tx EXCEPT ![c] = Idle]
  /\ UNCHANGED <<requests, tokens>>

-----------------------------------------------------------------------------
\* Any rows that requests before could have left: owners with some images,
\* files with or without content, also files that are no longer used.
Init ==
  /\ persons \in [Persons -> {"free", "unverified"}]
  /\ files \in [Hashes -> {"none", "empty", "full"}]
  /\ joins \in SUBSET {Join(o, h, 0) : o \in Persons, h \in Hashes}
  /\ \A j \in joins : Exists(j.owner) /\ files[j.hash] # "none"
  /\ requests = 0 /\ history = <<>> /\ tokens = {}
  /\ tx = [c \in Clients |-> Idle]

Proceed(c) ==
  \/ Write(c) \/ ReadJoins(c) \/ Drop(c) \/ LookForFile(c) \/ AllAttached(c)
  \/ InsertFile(c) \/ InsertJoin(c) \/ ReadUnused(c) \/ Collect(c)
  \/ DeleteOwner(c) \/ Fill(c) \/ Fail(c) \/ BreakDeadlock(c) \/ Commit(c)

Next ==
  \/ \E c \in Clients :
       Create(c) \/ Update(c) \/ Delete(c) \/ Verify(c) \/ UploadContent(c) \/ Proceed(c) \/ Lose(c)
  \/ SendToken

Spec == Init /\ [][Next]_vars
=============================================================================
