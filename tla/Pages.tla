--------------------------------- MODULE Pages ---------------------------------
(***************************************************************************)
(* Relay paging: parse/1, Page.all/2 and from_list/2, under a client that  *)
(* follows the cursors of a list while other requests insert into it and   *)
(* delete from it.                                                         *)
(*                                                                         *)
(* An id is a time in milliseconds and random bits, made before the row is *)
(* committed; so rows come with ids in any order, and the model lets them. *)
(***************************************************************************)
EXTENDS Integers, FiniteSets

CONSTANTS
  Ids,       \* ids of rows; none is given twice
  Name,      \* the names of the rows, as numbers in their order
  Dirs,      \* "forw", "back": where clients go
  BeforeCursor,   \* the cursor of a page that they send as `before'
  Orders,    \* the values of `order_by' that clients send
  Sizes,     \* the values of `first' and `last' that clients send
  DefSize,   \* def_page_size
  MaxSize    \* max_page_size

Absent == -1   \* nil

\* A page of no rows has no cursors, so no one can go on from it.
ASSUME SizesAssumption ==
  /\ Sizes \subseteq (Nat \ {0}) \cup {Absent}
  /\ MaxSize \in Nat \ {0} /\ DefSize \in 1..MaxSize
ASSUME DirsAssumption ==
  Dirs \subseteq {"forw", "back"} /\ BeforeCursor \in {"startCursor", "endCursor"}
ASSUME IdsAssumption == Ids \subseteq Nat /\ Name \in [Ids -> Nat]

VARIABLES
  rows,   \* ids of the committed rows
  used,   \* ids given so far
  walk    \* the client

vars == <<rows, used, walk>>

\* The pages so far: cursor, ids seen, edges of the last page, whether it said
\* that there is a next one.  due: the rows that the client can expect.
NoWalk == [pc |-> "none", dir |-> "forw", size |-> Absent, order |-> "none",
           cursor |-> Absent, seen |-> {}, edges |-> {}, next |-> FALSE, due |-> {}]

-----------------------------------------------------------------------------
\* Mutated: pages are as large as the client wants.
AnySize(num) == num

normalize(num) == IF num > MaxSize THEN MaxSize ELSE num

\* parse/1 of parameters that changeset/1 accepts.
parse(params) ==
  LET size == IF params.first # Absent THEN params.first ELSE params.last
  IN [dir |-> IF params.before # Absent \/ params.last # Absent THEN "back" ELSE "forw",
      cur |-> IF params.after # Absent THEN params.after ELSE params.before,
      num |-> IF size = Absent THEN DefSize ELSE normalize(size),
      order |-> params.order]

\* Mutated: the cursor's row is on the next page again.
FromCursor(i, dir, cur) ==
  cur = Absent \/ (IF dir = "forw" THEN i >= cur ELSE i <= cur)

\* The WHERE clause of Page.all.
Beyond(i, dir, cur) ==
  cur = Absent \/ (IF dir = "forw" THEN i > cur ELSE i < cur)

\* ORDER BY: apply_order_by's, if any, then Page.all's.
Precedes(order, dir, i, j) ==
  LET byId == IF dir = "forw" THEN i < j ELSE i > j
  IN CASE order = "none" -> byId
       [] order = "created_at asc" -> i < j
       [] order = "created_at desc" -> i > j
       [] order = "name asc" -> Name[i] < Name[j] \/ (Name[i] = Name[j] /\ byId)
       [] order = "name desc" -> Name[i] > Name[j] \/ (Name[i] = Name[j] /\ byId)

\* The rows before row i in the answer to a query for page.
Before(i, S, page) == {j \in S : Precedes(page.order, page.dir, j, i)}

\* The first n rows that the query finds.
Limit(n, page) ==
  LET found == {i \in rows : Beyond(i, page.dir, page.cur)}
  IN {i \in found : Cardinality(Before(i, found, page)) < n}

\* Mutated: one row less is fetched.
AllWithoutNext(page) == Limit(page.num, page)

\* Page.all: one more row than asked for.
all(page) == Limit(page.num + 1, page)

\* Mutated: a full page is taken for one that is followed by another.
HasNextIfFull(records, page) == Cardinality(records) >= page.num

has_next(records, page) == Cardinality(records) - 1 = page.num

\* from_list: without the row too many.
edges(records, page) ==
  IF has_next(records, page)
  THEN {i \in records : Cardinality(Before(i, records, page)) < page.num} ELSE records

start_cursor(nodes, page) ==
  CHOOSE i \in nodes : \A j \in nodes \ {i} : Precedes(page.order, page.dir, i, j)

end_cursor(nodes, page) ==
  CHOOSE i \in nodes : \A j \in nodes \ {i} : Precedes(page.order, page.dir, j, i)

-----------------------------------------------------------------------------
\* What the client sends: first and after, or last and before.
Params(w) ==
  IF w.dir = "forw"
  THEN [first |-> w.size, after |-> w.cursor, last |-> Absent, before |-> Absent, order |-> w.order]
  ELSE [first |-> Absent, after |-> Absent, last |-> w.size, before |-> w.cursor, order |-> w.order]

\* The row that the client goes on from.
Cursor(nodes, page) ==
  IF page.dir = "back" /\ BeforeCursor = "startCursor"
  THEN start_cursor(nodes, page) ELSE end_cursor(nodes, page)

Start ==
  /\ walk.pc = "none"
  /\ \E dir \in Dirs, size \in Sizes, order \in Orders :
       /\ dir = "back" => size # Absent
       /\ walk' = [NoWalk EXCEPT !.pc = "going", !.dir = dir, !.size = size, !.order = order, !.due = rows]
  /\ UNCHANGED <<rows, used>>

\* A query of the client, which goes on while there is more.
Fetch ==
  /\ walk.pc = "going"
  /\ LET page == parse(Params(walk))
         records == all(page)
         nodes == edges(records, page)
     IN walk' = [walk EXCEPT !.edges = nodes, !.seen = @ \cup nodes,
                             !.next = has_next(records, page),
                             !.cursor = IF nodes = {} THEN @ ELSE Cursor(nodes, page),
                             !.pc = IF has_next(records, page) THEN "going" ELSE "done"]
  /\ UNCHANGED <<rows, used>>

\* The client looks later whether rows were added behind the last one.
Poll ==
  /\ walk.pc = "done"
  /\ walk' = [walk EXCEPT !.pc = "going", !.due = @ \cup {i \in rows : Beyond(i, walk.dir, walk.cursor)}]
  /\ UNCHANGED <<rows, used>>

\* Commits of other requests.
Insert ==
  /\ \E i \in Ids \ used :
       /\ rows' = rows \cup {i} /\ used' = used \cup {i}
       /\ walk' = IF walk.pc = "going" /\ Beyond(i, walk.dir, walk.cursor)
                  THEN [walk EXCEPT !.due = @ \cup {i}] ELSE walk

Delete ==
  /\ \E i \in rows : rows' = rows \ {i} /\ walk' = [walk EXCEPT !.due = @ \ {i}]
  /\ UNCHANGED used

Init == rows \in SUBSET Ids /\ IsFiniteSet(rows) /\ used = rows /\ walk = NoWalk

Next == Start \/ Fetch \/ Poll \/ Insert \/ Delete

Spec == Init /\ [][Next]_vars

\* A client that began to follow a list goes on.
FairSpec == Spec /\ WF_vars(Fetch)

-----------------------------------------------------------------------------
(* Properties                                                               *)

\* Rows and cursors are ids that were given, and no page is larger than
\* max_page_size.
TypeOK ==
  /\ rows \subseteq used /\ used \subseteq Ids
  /\ walk.pc \in {"none", "going", "done"} /\ walk.cursor \in used \cup {Absent}
  /\ walk.due \subseteq rows /\ walk.seen \subseteq used
  /\ walk.edges \subseteq used /\ Cardinality(walk.edges) <= MaxSize

Fetches == walk.pc = "going" /\ rows' = rows /\ walk' # walk

\* Rows come in order and none comes twice, over all pages and whatever is
\* inserted and deleted between them (Page.all, db/page.ex:76-94), to a client
\* that goes on from endCursor, also backwards: from startCursor, which the
\* schema tells it to, see NothingRepeated.
PagesInOrder ==
  [][Fetches =>
       \A i \in walk'.edges, j \in walk.seen : i # j /\ Precedes("none", walk.dir, j, i)]_vars

\* Every row that was committed before the walk had passed its id is seen, and
\* by the end of the walk every row that was to come: one page never hides a
\* row of another, also when it begins behind a row that was deleted meanwhile
\* (Page.all and from_list, db/page.ex:76-94, gql/connection.ex:52-91).
NothingSkipped ==
  \A i \in walk.due :
    walk.pc = "done" \/ ~Beyond(i, walk.dir, walk.cursor) => i \in walk.seen

\* gql/type.ex:87 of hasNextPage: "True if there are more results after
\* `endCursor`": when a page is answered there are, and only then.
NextPageTold ==
  [][Fetches =>
       (walk'.next <=> \E i \in rows : Beyond(i, walk.dir, walk'.cursor))]_vars

\* A walk ends: cursors always lead on (db/page.ex:82-87).
WalkEnds == walk.pc = "going" ~> walk.pc = "done"

-----------------------------------------------------------------------------
(* Refuted                                                                  *)

\* Refuted, for walks backwards: gql/type.ex:65-69 of startCursor: "Cursor pointing
\* to the first of the results returned, to be used with `before` query parameter".
\* Who does so goes on behind what it has seen.
NothingRepeated == [][Fetches => walk'.edges \cap walk.seen = {}]_vars

\* Refuted, for lists that are sorted by something else: gql/type.ex:73-75 of
\* endCursor: "Cursor pointing to the last of the results returned, to be used
\* with `after` query parameter".  Who does so until the end has seen all.
EverythingListed ==
  walk.pc = "done" => walk.due \subseteq walk.seen
=============================================================================
