# Zenflows in TLA+

This directory holds a TLA+ development of [Zenflows](../src/README.md), a
ValueFlows server written in Elixir on PostgreSQL: specifications of its parts,
instances that TLC checks, and theorems that TLAPS checks.  Source files are
named below relative to the repository (`src/zenflows/...`); `PROJECT.json`
maps each definition to the lines it models.

## 1. The system

Clients send GraphQL requests; each mutation calls one function of a *domain*
module, which runs one database transaction (`Repo.multi`, isolation level READ
COMMITTED, PostgreSQL's default, which no code changes) and answers with the row
or an error.  Requests run concurrently, one BEAM process each.  Almost all
state is in the database; the only long-lived stateful processes of the program
are the pools and one HTTP connection process per remote service.

| Component | State | Operations | Interacts with |
|---|---|---|---|
| **Economic events** `vf/economic_event/domain.ex` | `vf_economic_event`, an append-only log | `create` (18 actions), `update` of note, agreement, trigger; `previous`, `trace_dpp` | writes economic resources in the same transaction; reads processes |
| **Economic resources** `vf/economic_resource/domain.ex` | `vf_economic_resource`: accounting and onhand quantity, accountable agent, custodian, container, location, stage, previous event | created and changed by events only; `update` (note, images, `contained_in`), `delete`, `trace`, `trace_dpp` | events, files |
| **Processes, process groups** `vf/process*` | rows, a tree of groups | CRUD; a group holds groups or processes, not both | |
| **Files** `file/`, `web/file.ex` | `zf_file` rows (hash, size, binary), join rows per owner | insert with an owner, update, upload, collection of unreferenced files | owners, HTTP |
| **HTTP client** `httpc.ex` | one GenServer per service: connection, requests in flight | `request` with up to five attempts | Restroom, DID |
| **Restroom, DID** `restroom.ex`, `did.ex` | remote | sign, HMAC, passphrases; read or make a DID | HTTP client, persons |
| **Email, persons** `email/domain.ex`, `vf/person/domain.ex` | `email_verified` | `request` a token, `verify` a token | Restroom, SMTP |
| **Proposals** `vf/proposal`, `vf/intent`, `vf/satisfaction`, ... | rows | CRUD, a status that is computed | events (satisfactions) |
| **Software passports** `sw_pass/domain.ex` | - | import of a list of packages as events | events, resources |
| **Pagination** `db/page.ex`, `gql/connection.ex` | - | a page of a list, from a cursor; resources may be sorted by name or time | every list query |
| **Ids** `db/id.ex`, **decimals, validation** `db/validate.ex` | - | ULIDs, checks of fields | every row |
| **Instance variables, authentication, GraphQL, release** | rows written once, none, none, none | | |
| **Plain records** (units, plans, recipes, agreements, ...) | one row each | CRUD with foreign keys | |

### What is hard

* *Sequences of requests.*  The quantities, holders and containment of a
  resource are the sum of many events; each of the thirteen `handle_insert`
  clauses checks another subset of conditions and writes another subset of
  columns.
* *Checks in one statement, writes in another.*  A transaction reads a row
  without locking it, checks it, inserts the event and then runs relative
  updates.  At READ COMMITTED other transactions may commit in between.
  Uniqueness of a pickup, a dropoff, an accept or a modify per resource and
  process has no index behind it; the exclusive-or of a process group has none
  either.
* *Collection across owners.*  Every creation and update of any owner deletes the
  files that no join row refers to, while other requests attach and detach them.
* *Partial failure and retries.*  Remote services answer late or never, the
  connection to them breaks, the process that holds it crashes; `httpc.ex`
  retries; callers give up while their calls are still in a mailbox.
* *Lists that change while they are read.*  Ids are made before their rows are
  committed, so rows appear before and behind a client's cursor.
* *Boundaries.*  The same resource as source and target, quantities compared as
  decimal structures, quantities below zero, clocks inside tokens, ids that are
  ordered only from one millisecond to the next.

### What makes each component correct

* Events and resources: the stored state of a resource is what a replay of the
  log gives (quantities, stage, location); transfers conserve quantities per
  specification and unit; accept and modify, pickup and dropoff pair one to
  one; the chain of previous events misses nothing; the holders of a resource
  are those to whom the log handed it, alone or in a container, and only they
  hand it on.
* Process groups: what a row is grouped in exists; a group holds processes or
  groups, not both, unless requests overlapped.
* Files: the content of a file in use is never lost; an owner has the images
  that the last update named.
* HTTP client: each caller gets the answer to the request it made; no request
  is sent twice; every call ends.
* Persons: a person is verified exactly by a verification of hers.
* Pagination: following `endCursor` visits in order and once every row that was
  committed before the client passed it, and ends.

## 2. Modules

| Module | Models |
|---|---|
| `EconomicEvents` | the ledger: every action a client can send, as one committed transaction |
| `RunningSums` | sums over 1..n, as a recursive function |
| `LedgerProperties` | type invariant, safety invariants and action properties of the ledger |
| `LedgerHistory` | what containers held when they were moved; where resources are and who has them, by the history |
| `Journal` | the abstract ledger: accounts that change only by the entries of a journal |
| `LedgerRefinement` | what the columns of events and resources stand for in a `Journal` |
| `EventTransactions` | overlapping calls of `create/2`, statement by statement at READ COMMITTED |
| `TransactionProperties` | what overlapping leaves intact, and one thing it does not |
| `ProcessGroups` | processes, groups and groups of groups, with overlapping requests; its type invariant |
| `GroupHistory` | which of these requests overlapped, and what follows for groups that hold both kinds |
| `Files` | images of persons, uploads, verification, collection of files, statement by statement |
| `FileProperties` | what overlapping requests may do to images and contents |
| `HTTPC` | callers, the connection process, the connection, the peer; its properties |
| `Pages` | parsing, querying and answering a page, under a client that follows cursors; its properties |
| `MCEconomicEvents`, `MCEventTransactions`, `MCProcessGroups`, `MCFiles`, `MCPages`, `MC*.cfg` | instances for TLC |
| `LedgerProofs` | what a step of the ledger does, clause by clause, and type correctness (TLAPS) |
| `LedgerHistoryProofs` | the ledger's other properties and its refinement of `Journal` (TLAPS) |
| `RunningSumTheorems` | the recursion of `SumTo` and what follows from it (TLAPS) |
| `TransactionProofs` | overlapping transactions: no update is lost, links go back (TLAPS) |
| `ProcessGroupProofs` | references of groups, and how they come to hold both kinds (TLAPS) |
| `FileProofs` | overlapping requests: references, contents, images, verifications (TLAPS) |
| `HTTPCProofs` | no request is sent twice, every response goes to whoever asked for it (TLAPS) |
| `PageProofs` | walks through lists ordered by id (TLAPS) |

`EconomicEvents` and `EventTransactions` are two views of one component.  The
first has every clause, each as one step, and shows what the clauses do to each
other when requests come one after another; the second has the statements of
three shapes of clause, and shows what is left of that when they overlap.

### EconomicEvents

`resources` and `events` are the two tables, sequences of rows; ids are
positions.  (ULIDs order rows by insertion up to the millisecond; nothing in
the clauses compares ids, so positions only give them names.)  A row has the
columns that some clause reads or that some property is about; names, notes,
images, dates and efforts are left out.

An action is one call of `EconomicEvent.Domain.create/2` that commits:
`changeset/1` (what the `...Inputs` sets say: the fields cast per action, the
required ones, `exist_xor`, provider and receiver equal or not), the insertion
of the row, the clause of `handle_insert/3` and the final setting of
`previous_event_id`.  A check that fails rolls everything back, so it is a guard
of the action and the refused request is no step.

| Action | Clause of `handle_insert/3` |
|---|---|
| `RaiseNew`, `RaiseInto` | raise, produce: a new resource, or more of an old one |
| `Lower` | lower, consume |
| `RecordOnly` | work, deliverService, use and cite of a specification |
| `UseResource`, `CiteResource` | use, cite of a resource |
| `Pickup`, `Dropoff`, `Accept`, `Modify` | the same |
| `TransferCustody`, `TransferAllRights`, `Transfer`, `Move` | the same; each is its checks and one of `IntoExisting`, `IntoNew`, which the four clauses repeat with the columns of the action |
| `PackResource` | no clause: `EconomicResource.Domain.update/2` with `contained_in_id` |

Things of the code that the module keeps and a reader may not expect:

* `combine` and `separate` are in the enumeration of actions and in the
  changeset's documentation, but no clause of `handle_insert/3` takes them: the
  request fails and rolls back.  Resources are packed only by the domain function
  `EconomicResource.Domain.update/2`, which checks nothing and which
  GraphQL does not give a `containedIn` to: the tests and future code call it.
  `PackResource` does what it does: any resource goes into any other, of any
  holders, into itself, or out again, between any two events, and leaves no event.
* The query for the two resources of a transfer returns one row when they are
  the same; `HasTarget` is false then, while the update goes by the id.
* Nothing compares the quantity of lower, consume or an uncontained transfer
  with what there is: quantities may become negative.
* dropoff and modify compare the provider with that of the pickup or accept
  event, not with the present custodian.
* The previous event of a transfer's target is not changed.

### LedgerProperties

Each property relates the rows of `resources` to the whole log `events`, or
rows to each other: `QuantitiesFollowEvents`, `ConservedPerSpecification`,
`NothingLostInProcess`, `PreviousChain`, `PairsAreOneToOne`,
`StageOfLastModify`.  `TypeOK` includes referential integrity.
`StageOfLastModify` says nothing about the stage of a resource that a transfer made
until it is modified, for there code and documentation differ (section 3).
`ContentsHandedOver` is refuted.

### LedgerHistory

Packing leaves no event, so the log alone does not say what a container held when
it was dropped off or handed over.  The history variable `carried` records it
per event.  `LocationOfLastPlacement` and `HoldersFollowEvents` replay the log with it:
the location, the accountable agent and the custodian of every resource are those of
the last event that placed it, or handed it over, alone or in a container.  What counts
as handing over (`HandsOver`) is what the clauses do: a transfer into a new resource
hands over what the container holds and not the container, a transfer into an
existing one hands over what remains of its source, and of a container that is transferred
into itself the contents stay with whom they were.  `HandedOnByHolder` looks at the
whole log: the provider of every transfer had been handed the resource by the event that
did so last.

### Journal and LedgerRefinement

`Journal` is what a bookkeeper would ask of any ledger, without a clause of the
program: a journal that only grows; accounts with a quantity that is owned and
one that is at hand, an owner and a keeper; an entry changes the two accounts it
names by its kind (`OwnedChange`, `OnhandChange`) and no other; quantities leave
an account only by an entry of whoever holds them (`Entitled`); owners and
keepers change only to the receiver of an entry that moves what they hold; a new
account is opened by the entry that names it and is the receiver's (`Opened`).

`LedgerRefinement` maps an event to an entry and a resource to an account
(accounting, onhand, accountable, custodian), and `KeepsJournal` says that the
ledger implements `Journal`: each of the thirteen clauses posts one entry, and
packing posts none.  It is checked in both ledger runs.  Contents of a
container change holders with it, which is why the holders of *any* account may
become the receiver's.

### EventTransactions

A client's transaction is the record `tx[c]`: the statement it is about to send
(`pc`), the event it inserted, the row its SELECTs read (`seen`) and the row
versions its UPDATEs made (`wrote`), which are its locks.  `rows` is
what is committed.  `Insert`, `ReadRow` or `ReadPair`, `CheckSingle`, `ReadPrev`,
`Write`, `WriteTo`, `Commit` follow the order of the statements in the clauses;
`Refuse` is the rollback by a failed check, `Lose` the death of the request's
process or connection.  What PostgreSQL does is modelled from its use
(external in `PROJECT.json`): a SELECT sees what is committed when it starts
and its own writes (`Visible`); an UPDATE waits for the row's lock (`Free`) and
starts from the latest version (`Latest`); a circle of waiting transactions is
broken by an error in one of them (`BreakDeadlock`).  The key-share locks that
inserting an event takes on the rows it refers to do not conflict with
these updates and are left out.

Five actions stand for all: `pickup` and `accept` check a row and then update
it, `dropoff` and `modify` check events and then read and update the row,
`transferCustody` into an existing resource checks two rows and updates both,
the source first.  A resource has the columns that make these differ: onhand
quantity, custodian, previous event.  The resources exist from the beginning and
are not packed, for a raise or a transfer into a new resource has no row to
compete for.

### ProcessGroups

`parent` is `grouped_in_id` of all processes and groups, with `Unmade` and
`Deleted` for ids without a row; `tx` is the request each client is at.  A
request reads the row (`Read`, of an update) or makes an id (`Create`), asks
whether the group has rows of the other kind (`Ask`, `Refuse`), and writes
(`Write`; `Fail` if the row or the group was deleted meanwhile, or the request
was lost).  The write is the last statement, so it is one step with the commit.
An update with no group is no action: its query compares a column with nil and
raises, so a row once grouped can be moved but never taken out.

`GroupHistory` adds two history variables.  `unseen[c]` is what was written between
the question and the write of client `c`, and `overlapped` the pairs of rows that
were put where they are by such requests.  `MixedByOverlap` says that a process and a
group in one group are such a pair: moves, deletions and creations, in any
number and of any clients, mix kinds in no other way.

### Files

`files` is `zf_file` (a row without content is "empty"), `joins` is
`zf_file_join`, `persons` what the owners are; `tx` is what each request is
about to do and has written, which is at the same time what it has locked.  The
statements and their order are those of `Person.Domain` and `File.Domain`:

| Actions | Code |
|---|---|
| `Create`, `Update`, `Delete`, `Verify`, `UploadContent` | a request begins; `Update` covers params with images, without, and with or without a column that changes (images are virtual, so that without one no UPDATE is sent and the owner is not locked) |
| `Write` | the UPDATE of the owner |
| `ReadJoins`, `Drop` | `delete_old_files`: one DELETE, which finds rows and then waits for them |
| `LookForFile`, `InsertFile`, `InsertJoin`, `AllAttached` | the reduction of `multi_insert`, `create`, `create_file_if_not_exists` |
| `ReadUnused`, `Collect` | `delete_unused_files`, one DELETE |
| `DeleteOwner`, `Fill`, `Commit` | the deletion with its cascade, the UPDATE of an upload, the end |
| `Fail`, `BreakDeadlock`, `Lose` | a foreign or unique key is violated or a row is gone; a circle of waiting transactions; a lost connection |
| `SendToken` | `request_email_verification` |

Waiting follows PostgreSQL's locks (`Holds`): rows written, keys inserted, and
the key-share locks by which a join row protects the file and the owner it
refers to.  A DELETE skips rows that were deleted while it waited.  The join row
has the number of the request that made it, so that rows with equal content can
be told apart; `history` is for the properties.  A token is the person it was
made for: the comparison of its time never refuses one (see below).

### HTTPC

The GenServer (`server`: its socket, whether Mint believes it open,
`state.requests`), its `mailbox`, the callers of `request/6` with the number
of their tries, the requests at the `peer`.  `Call` is `GenServer.call`, with its
exit if there is no process; `TimeOut` its limit, after which the call stays in
the mailbox and is handled all the same.  `ConnectFails`, `RequestFails` and
`Request` are the three ends of `handle_call`; `ReceiveResponse`, `ReceiveClosed`,
`Crash` and `Unknown` those of `handle_info`.  The peer answers in any order,
answers with an error of one request, or closes, of which the server knows only
when it handles the message.  `Crash` is `process_response({:error, ...})`, where
`update_in` gets the error in place of a function and raises; `Restart` is the
supervisor (its limit of restarts is not modelled).  A response comes in parts
that the server gathers under the request's reference, and is one message here.

### Pages

`parse`, `all` (`Limit`, `Beyond`, `Precedes`), `has_next`, `edges` and
`end_cursor` are the functions; a page is the set of its rows, whose order is that
of `Precedes`.  `walk` is a client that asks for the page after (or before) the
last row it got while it is told that there is one (`Fetch`), and perhaps again
later (`Poll`).  `BeforeCursor` is the cursor of the page that a walk backwards sends
as `before`: `endCursor`, the last row that came, or `startCursor`, as the schema has it.
Ids are inserted in any order: they have a time in milliseconds and random bits, and
are made before the row is committed.  A page size of zero,
which `parse` accepts, answers that there is a next page and gives no cursor to
it, so the client of the model asks for at least one row.

## 3. Runs

| Run | Instance | Shows |
|---|---|---|
| `ledger_transfers` | raise, lower, work, use, cite, the four transfers, one resource that is packed and unpacked; 2 agents, 2 specifications, 4 events, 3 resources | `TypeOK`, `QuantitiesFollowEvents`, `ConservedPerSpecification`, `PreviousChain`, `HoldersFollowEvents`, `HandedOnByHolder`, `KeepsJournal` |
| `ledger_processes` | raise, pickup, dropoff, accept, modify, transferCustody, one resource that is packed and unpacked; 2 processes, 5 events, 2 resources | `NothingLostInProcess`, `PairsAreOneToOne`, `StageOfLastModify`, `LocationOfLastPlacement`, `KeepsJournal` |
| `transactions` | 2 clients, 3 requests, 2 resources, the five actions; fairness | `TypeOK`, `QuantitiesFollowCommits`, `LinksGoBack`, `RequestsEnd` |
| `groups` | 2 clients, 1 process, 3 groups | `TypeOK`, `MixedByOverlap` |
| `files` | 2 overlapping requests (create, update, verify, delete, upload), 2 persons, 2 files, lists of up to 2 images | `TypeOK`, `ImagesOfLastUpdate`, `VerifiedByVerification`, `ContentKept` |
| `httpc` | 2 callers, 2 requests each, 2 tries, 3 connections; fairness | `TypeOK`, `OwnResponse`, `SentOnce`, `CallsEnd` |
| `pages` | 5 ids, sizes below, at and above the maximum, both directions, from `endCursor` to `endCursor`; fairness | `TypeOK`, `NothingSkipped`, `PagesInOrder`, `NextPageTold`, `WalkEnds` |
| `doc_pickups` | 2 clients, pickups of one resource in one process | refutes `OnePickupPerProcess` |
| `doc_contents` | raise, transferCustody, one resource that is packed | refutes `ContentsHandedOver` |
| `doc_groups` | 2 clients, 1 process, 2 groups | refutes `Exclusive` |
| `doc_sorted` | as `pages`, forwards, with every `order_by` | refutes `EverythingListed` |
| `doc_backward` | as `pages`, backwards, from `startCursor` to `startCursor` | refutes `NothingRepeated` |

*Bounds of the ledger.*  `MaxEvents` and `MaxResources` are guards of the actions that
append, `Packable` says which resources are packed and unpacked: one, into any of the
others, itself included, at any time.  Logs of four events are enough for a
resource to be raised, split, split again and joined, or raised, raised, packed
and transferred twice; logs of five for raise, accept, custody handed over,
modify and a second modify or accept, which is the shortest way to break the
pairing.  Two agents suffice because a clause names at most two, two processes
because a pairing can go wrong only between the process of the event and
another.  Agents and specifications are symmetric: none is named in a definition.
`produce`, `consume` and `deliverService` are in neither instance: they are the clauses
of `raise`, `lower` and `work`, with other required fields.

*Bounds of the transactions.*  `MaxEvents` bounds the requests, refused and lost
ones included.  Two clients are enough for every conflict of two statements
(a lost update, a check that is stale, a deadlock of two rows), and a third
request follows on what the two left: a dropoff after two pickups, an
event whose previous event is one of two that overlapped.  There is one agent: no
property of the run speaks of agents, and a check of the custodian only
refuses a request, which `Lose` does as well at the same place; so what several agents
do is, agents taken for one, also a behaviour of the instance.

*Bounds of the groups.*  None but the sets of ids: an id is used once.  With three
groups and a process, two groups can each be filled by either kind, emptied by a
move or a deletion and filled by the other kind, while another request, a deletion
included, is between its question and its write.

*Bounds of files.*  `MaxRequests` counts requests, refused and lost ones
included.  Every state that finished requests leave is an initial state (owners
with any images, files with and without content, unused files), so two requests
that overlap are all that a conflict needs: both orders of every two statements,
the collection of one against each step of the other, the deadlock of two
lists of images in opposite order, a verification against each of the others.  `TokensUsed`
(`MCFiles`) cuts off states in which both requests have begun, a token is out, and neither is a
verification: only `Verify` reads tokens, so they are there without the token as well.

*Bounds of the HTTP client.*  Two callers give the server two pending requests,
two requests of each a stale call beside a new one of the same process, two tries
a retry.  Three sockets are two that broke with requests pending and one more;
after that connecting fails for good, which the retries must survive.

*Bounds of pages.*  Five ids are two full pages of two and a row; the maximum is
three, so that a size of four is cut.  Any subset is there at the beginning.

*Fairness.*  In `httpc`: callers wake and call, time limits fire, the GenServer handles
its mailbox and the supervisor restarts it, each by weak fairness: the run time
does all that.  Nothing is assumed of the peer and the network; `CallsEnd` holds
because of the time limit and the bound on tries.  In `pages`: a client that
began goes on.  In `transactions`: `FairSpec` has weak fairness
of the next statement of each transaction, for a BEAM process goes on when it
has its answer, and strong fairness of the updates, for a row's lock
passes to the transactions that wait for it in turn.  It assumes nothing of new
requests and of losses.  `RequestsEnd` fails without `BreakDeadlock`: two
opposite transfers wait for each other.

*Deadlock* in the sense of TLC is not checked: at the bounds nothing can be
appended, and the server has no obligation to receive a request.

*Mutants.*  For each property a definition of the model is changed as a slip in
the clause would change it (a missing column in an update, a query without one of
its conditions, a quantity computed from the row that was read, the wrong table
asked); TLC finds the property violated.  The mutated
forms stand before the definitions they replace, marked "Mutated".

### Where code and documentation differ

Five runs show a disagreement:

* `doc_pickups`: two overlapping requests can pick up a resource twice in one
  process, after which no dropoff succeeds there; dropoff, accept and modify can
  be doubled likewise.
* `doc_contents`: a container transferred *into itself* by transferCustody changes
  hands and its contents do not (`docs/vf-intro-gql-iface.md:492-495`): the check sees
  no target, the update does.
* `doc_groups`: two overlapping requests can put a process and a group into one
  group (`vf/process_group.ex:23-33`); what `groups/2` lists then hides the groups.
* `doc_sorted`: a list of resources that is sorted by name, or newest first,
  cannot be paged.  `Page.all` appends its order by id and compares ids with the
  cursor whatever the list is sorted by; newest first, the second page is empty.
* `doc_backward`: backward pages are answered last row first, so `startCursor`,
  which the schema says to use with `before` (`gql/type.ex:65-69`), is the largest id
  of the page, and the page before it has rows again that came already.  `pages`
  and the theorems about pages are about clients that send `endCursor` instead.

Met while modelling, and without a run:

* Two overlapping requests can accept the whole of a resource twice, into two
  processes, and leave less than nothing onhand (`economic_event/domain.ex:563`
  says accepts "need to fully accept the resource").
* Two overlapping updates of one owner that change only images leave the
  images of both: images are a virtual field, so no UPDATE locks the owner.
* An update that does not name images removes them all; so does the verification
  of an e-mail address, which is such an update.
* An image that the changeset refuses raises a `CaseClauseError` in `Repo.multi`.
* E-mail tokens never expire: `email/domain.ex:88` compares the time in the token
  with a time in the future ("Returns the expiry time in seconds of a token").
* `HTTPC.request/6` answers `{:ok, _}` or `{:error, _}` by its `@spec`; when a
  connection closes with requests pending, or the server crashes, its callers exit
  instead, and the entries of the requests stay in the server's state for ever.
* A resource made by a transferCustody does not have the stage of its source, which
  `docs/vf-intro-gql-iface.md:461-463` has among "all the other fields copied".
* A transferCustody of a part into an existing resource hands over the custody
  of the remainder too, which the documentation does not say (465-495);
  `HoldersFollowEvents` counts it as the code does.
* The action table says that `modify` has no onhand effect (`action.ex:134`), and
  the clause increments what accept decremented; the documentation asks a full
  accept only of containers (`docs/vf-intro-gql-iface.md:353-354`), and the code
  asks it of every resource.
* Groups can be put into each other, for only a group's being its own parent is
  refused.
* Pickup, accept and the transfers of containers compare decimal *structures* with
  `!=`, which differ for 10 and 10.0.
* Deleting a resource always fails, for its events refer to it;
  after a transferAllRights of a container its contents' custodian is, as the code
  means it, still the old one.

## 4. Proofs

A theorem holds for every value of the constants that satisfies the `ASSUME`s of
its module; TLC evaluates these in every run.  Of the ledger: quantities sent
are positive naturals (`measure.ex`), `BasedOn` is a function, and `Nil` is no
row of any table.  Of groups: clients, processes and groups have disjoint ids,
which are none of the three marks.  Of files: lists name contents, the empty list
is one, and a request without images is none (`NotNamed`).  Of pages: ids are
naturals, a walk goes forwards or backwards, and the table starts out finite.

Every safety property that a run checks is stated by a theorem, with one
qualification that the code demands: those of `Pages` are for lists ordered by id
and clients that go on from `endCursor`.

### The ledger

*What a step does* (`LedgerProofs`, `Steps`).  Thirteen clauses write many
columns, but a reader of the log needs to know only a few things of each.
`Posts(e)` is about quantities and links: (`Appends`) one event is appended, whose
previous event is that of the resource it goes through; (`Placed`) rows keep
their types and refer to rows; (`Chained`) the resource it goes through, and the
one it creates, and no other, now have it for previous event; (`Counted`) the
quantities of *every* resource change by the documented effect of that event, and
those of a new resource are that effect.  `Books(f)` is about the rest: (`OldRows`)
which holders, stages, locations and containers the event may change and to what,
(`NewRow`) what a new row starts with, (`Checked`) what the program asked before it
wrote.  The lemma is that every step of `Next` from a typed state is such a posting
with its books, or packs a resource.  There is a lemma per action for each half
(`RaisePosts`, `IntoExistingPosts`, ..., `RaiseBooks`, `IntoExistingBooks`, ...); the
hard cases are the transfers, where the source and the target may be one row and a
container's contents move along.  All that follows uses `Steps` and no clause.

*`TypeCorrect`*: `TypeOK` is inductive by the posting lemma.

*`ChainComplete`* (`PreviousChain`): inductive together with `TypeOK`.  For a
resource that was there, the new event joins its trail exactly if the event goes
through it (`TrailGrows`), and is then both the latest event of the trail and the
successor of the former head; a transfer into a resource mentions it without
joining the trail, for the resource had been mentioned when it was made, which is
the first conjunct of `PreviousChain` and the reason why it is there.

*`QuantitiesReplay`* (`QuantitiesFollowEvents`): by `Counted`, each quantity
changes by the effect of the event that is appended, and the balance, a sum over
the log, by the same.  The second half needs the recursion of `SumTo`, that is,
that its recursive function exists and adds one term per step
(`RunningSumTheorems`).  It is proved by induction over sets instead of predicates
(`SetInduction`: a set of naturals that has 0 and with n also n + 1 has them all,
from the well-foundedness of `<`), which needs no theorem with an operator for a
parameter.  A resource that the event makes has a balance of just that effect,
for no earlier event can refer to it.

*`EventsArePaired`* (`PairsAreOneToOne`): dropoff and modify look for the event
they answer and for another answer in one go, so one more event leaves old pairs
alone and is itself paired or refused.  Accept and pickup look for an event of
their own kind in the process; that is what keeps a pair from getting a second
first half.

*`StagesFollowModifies`, `LocationsFollowPlacements`*: a column that an event
sets has the value of that event, which is now the last of its kind; one that it
leaves alone keeps value and last event.  A new row has neither, or the location
of the event that made it.  For the location the event's contents count as well,
which `carried` keeps: what an old event places does not change when something is
packed later.

*`BooksBalance`* (`ConservedPerSpecification`): both sides, the sum over the
resources of a specification and unit and the sum of what was issued, grow by the
same amount.  For a transfer that amount is nothing, because source and target are
of one specification and unit, which the program compares and `Checked` keeps.
*`ProcessesHoldTheRest`* (`NothingLostInProcess`): the same with what is missing
onhand and what processes have accepted; that a modify gives back an accept that
was not yet given back needs `PairsAreOneToOne`.

*`HoldersAreHandedTo`* (`HoldersFollowEvents`), *`HoldersHandOn`*
(`HandedOnByHolder`): proved together.  What an event of the log hands over is fixed by
the log and `carried` (packing changes neither), and an event that is appended hands over
just the rows whose accountable agent, or custodian, `Books` lets it change; both
are then its receiver.  So each row has had its holder from the last event that handed
it over.  The clauses compare the provider with the row's holder (`Checked`), which is
therefore the receiver of that event: `HandedOnByHolder` needs `HoldersFollowEvents` of the
state before.  Nothing is assumed of what is packed where.

*`LedgerKeepsJournal`* (`Spec => KeepsJournal`): initial states map to initial
states, a step with `Posts` and `Books` maps to `Journal`'s `Post` of the mapped
entry (`BooksPost`), and packing maps to a stutter (`PacksStutter`).  `Entitled`, that
only a holder parts with something, is where `Checked` is used.

### Overlapping transactions of events

`TransactionProofs`, for any clients, resources, agents and requests.  The
invariant `Isolated` is what row locks are for: each transaction is about an event
of its own, and its event is not committed (`ClientOK`); no two hold a lock on
the same row (`Apart`); the versions that a transaction has written differ from the
*committed* rows by the effect of its event, whatever it had read before.  So a
commit changes the rows by the effect of one event, and nobody else's written
versions: `NoUpdateIsLost` (`QuantitiesFollowCommits`).  A row's previous event is
committed and goes through it (`Committed`), and so is what any transaction has
read of it, which gives `LinksAlwaysGoBack`.  The proof uses that the UPDATE starts
from the latest version (`Latest`); with the row that was read (the mutant), the
versions differ from the committed ones by more.

### Groups

`TypeCorrect` is inductive: a write needs its group to exist, a deletion needs the
group to be empty, and the two are single steps.

`KindsMixByOverlap` (`MixedByOverlap`), for any number of clients.  What is needed
besides is that the answer a client got when it asked is stale only by rows
that are `unseen`: of the other kind there is in its group what was written since, and
nothing else.  So when it writes, each such row and its own become a pair of
`overlapped`.  A pair leaves only when one of its rows is written again, and that row is
then in another group, or forms its pairs anew.

### Files and persons

`FileProofs`, for any clients, persons, contents and lists of images.  The
invariant `Inv` has three layers.  `Sound(t)` ties what a transaction has written to the
statement it is at: nothing is attached before the old join rows are dropped,
what is attached and what is still to be attached are together what the request
named.  `Fits(t)` ties it to what is committed: files that it attached are there or
its own, what it removed is used by no join row, a creation's person is still free,
a deletion has found all join rows.  `Apart(t, u)` ties it to another
transaction: no file that one attaches or fills is removed by the other, no owner
that one refers to is deleted by the other, nobody inserts the same file.  `Fits` and
`Apart` are what the locks of `Holds` are for; a commit keeps `Fits` of the others
because of `Apart` (`CommitFits`), a statement establishes `Apart` because it waited
(`Served`).

*`TypeCorrect`* (`TypeOK`) and *`ContentIsKept`* (`ContentKept`) follow from `Inv`: a
file that is in use after a commit is not among those that it removed.
*`ImagesAreLast`* (`ImagesOfLastUpdate`) adds `Imaged`.  It rests on one part of
`Fits`, `Clears`: a join row of the owner that an update has not found comes
from a request that overlaps it.  *`VerifiedOnlyByVerification`* adds `Verified`, both
directions; a verification that sends no UPDATE does so because the person had been
verified already, and no request takes that back.

### The HTTP client

For any callers, tries, requests and connections.  `RequestsSentOnce`
(`SentOnce`): the inductive invariant says (`Distinct`) that every request in the
mailbox or handed to a connection was `Made`, that is, has a number below its
caller's, or its caller's while it is waiting or has ended, and is in one of the
two places once.  A caller that sleeps is thus about to send a request that is
nowhere, which is what a retry needs: it follows a failed *connection* only, when
the call has left the mailbox and was not sent.  `ResponsesAreOwn` (`OwnResponse`) adds
`Whole`: the server's entries are the requests that their references were made for
(`Recorded`), and of each reference one answer at most is at the peer or in the
mailbox, with an entry as long as its socket is the present one (`Awaited`).  That
is why the end of a response always finds its entry, which the code takes for
granted (`pop_in`, `httpc.ex:164`).  `TypeCorrect` adds `Counted`: tries and numbers stay
in bounds, and an open socket is the newest.  None of these needs fairness.

### Pages

For any set of natural ids, any sizes, and rows that come and go anywhere.  All
theorems of `PageProofs` have the hypotheses `Orders \subseteq {"none"}`, a list
without `order_by`, as every list but that of economic resources is, and
`BeforeCursor = "endCursor"`.  Neither can be dropped, as `doc_sorted` and
`doc_backward` show.  A page is the first n rows behind the cursor:
`Front` of a finite set, of which the lemmas say that it is closed downwards
(a row before one of the first n is one of them), has at most n elements, and has
exactly n if anything is left out; the last needs that a nonempty finite set has a
first row, from the well-foundedness of cardinalities.  The invariant is `Types`,
`NothingSkipped` and `Passed`: the cursor is behind everything that was seen.
`WalksGoOneWay` and `NextPagesTold` are action properties that follow from it: what a
query answers is beyond the cursor, hence beyond what was seen, and the row too
many is there exactly if the page does not exhaust what is beyond.

### Only model-checked

Liveness (`RequestsEnd`, `CallsEnd`, `WalkEnds`) stays with TLC: fairness of single
actions needs ENABLED, which the prover does not handle.  The five `doc_` runs are
refutations.

## 5. Plan

Done: the ledger, overlapping transactions, groups, files and persons, the HTTP
client and paging, each modelled, checked and with every safety property of its
runs as a theorem, among them the refinement of `Journal`.  Next:

1. Files: a step of `Files` against an abstract specification in which requests
   are atomic, for a single client; the bound on what two clients may leave.
2. Transactions: each commit as a step of the ledger's quantities (a refinement
   from `EventTransactions` to a register per resource).
3. `Trace`: the depth-first walk over events, resources and processes against
   reachability (TLC only: recursive).

## 6. Not modelled

`PROJECT.json` lists every component with its status.  `update/2` of events writes notes,
agreements and triggers, which no clause reads.  Left out for good: field
formats and lengths, GraphQL types and resolvers, the signature check of requests
(a remote call without state), migrations and configuration, and the plain
records, whose operations are single statements that the database checks.
The action table is constant data that only clients read.  Efforts (durations), notes, dates and images of events and resources are
payload that no check reads.
