------------------------------ MODULE PageProofs -------------------------------
(***************************************************************************)
(* Paging in the order of the ids, for any ids and sizes: pages come in    *)
(* order, say whether others follow, and skip nothing.                     *)
(***************************************************************************)
EXTENDS Pages, FiniteSetTheorems, WellFoundedInduction, TLAPS

Directions == {"forw", "back"}

\* i comes before j on the way.
Lt(dir, i, j) == IF dir = "forw" THEN i < j ELSE i > j

-----------------------------------------------------------------------------
(* The first rows of a finite set                                           *)

LEMMA LeastValue ==
  ASSUME NEW S, S # {}, NEW f \in [S -> Nat]
  PROVE  \E i \in S : \A j \in S : f[i] <= f[j]
<1> DEFINE R == OpToRel(<, Nat)
           T == {f[i] : i \in S}
<1>1. IsWellFoundedOn(R, Nat)
  BY NatLessThanWellFounded
<1>2. \A x, y \in Nat : x < y => <<x, y>> \in R
  BY DEF OpToRel
<1>3. T \subseteq Nat /\ T # {}
  OBVIOUS
<1> HIDE DEF R, T
<1>4. PICK x \in T : \A y \in T : <<y, x>> \notin R
  BY <1>1, <1>3, WFMin
<1>5. x \in Nat /\ \A y \in T : y \in Nat /\ ~(y < x)
  BY <1>2, <1>3, <1>4
<1>6. \A y \in T : x <= y
  BY <1>5
<1> QED
  BY <1>4, <1>6 DEF T

LEMMA LtIsOrder ==
  ASSUME NEW dir, NEW i \in Nat, NEW j \in Nat, NEW k \in Nat
  PROVE  /\ ~Lt(dir, i, i)
         /\ Lt(dir, i, j) => ~Lt(dir, j, i)
         /\ Lt(dir, i, j) /\ Lt(dir, j, k) => Lt(dir, i, k)
         /\ i # j => Lt(dir, i, j) \/ Lt(dir, j, i)
BY DEF Lt

\* The rows of S that come before i.
Ahead(S, dir, i) == {j \in S : Lt(dir, j, i)}

LEMMA AheadIsFinite ==
  ASSUME NEW S, IsFiniteSet(S), NEW dir, NEW i
  PROVE  IsFiniteSet(Ahead(S, dir, i)) /\ Cardinality(Ahead(S, dir, i)) \in Nat
BY FS_Subset, FS_CardinalityType DEF Ahead

LEMMA AheadGrows ==
  ASSUME NEW S, S \subseteq Nat, IsFiniteSet(S), NEW dir, NEW i \in S, NEW j \in S, Lt(dir, j, i)
  PROVE  Cardinality(Ahead(S, dir, j)) < Cardinality(Ahead(S, dir, i))
<1>1. Ahead(S, dir, j) \subseteq Ahead(S, dir, i)
  BY LtIsOrder DEF Ahead
<1>2. j \in Ahead(S, dir, i) /\ j \notin Ahead(S, dir, j)
  BY LtIsOrder DEF Ahead
<1>3. IsFiniteSet(Ahead(S, dir, i)) /\ Cardinality(Ahead(S, dir, i)) \in Nat
      /\ Cardinality(Ahead(S, dir, j)) \in Nat
  BY AheadIsFinite
<1>4. Cardinality(Ahead(S, dir, j)) <= Cardinality(Ahead(S, dir, i))
      /\ Cardinality(Ahead(S, dir, j)) # Cardinality(Ahead(S, dir, i))
  BY <1>1, <1>2, <1>3, FS_Subset
<1> QED
  BY <1>3, <1>4

\* The row with the fewest rows before it comes first.
LEMMA FirstExists ==
  ASSUME NEW S, S \subseteq Nat, IsFiniteSet(S), S # {}, NEW dir
  PROVE  \E i \in S : \A j \in S \ {i} : Lt(dir, i, j)
<1> DEFINE f == [i \in S |-> Cardinality(Ahead(S, dir, i))]
<1>1. f \in [S -> Nat]
  BY AheadIsFinite
<1>2. PICK i \in S : \A j \in S : f[i] <= f[j]
  BY <1>1, LeastValue
<1>3. ASSUME NEW j \in S, Lt(dir, j, i) PROVE FALSE
  <2>1. Cardinality(Ahead(S, dir, j)) < Cardinality(Ahead(S, dir, i))
    BY <1>3, AheadGrows
  <2>2. f[i] <= f[j] /\ f[i] \in Nat /\ f[j] \in Nat
    BY <1>1, <1>2
  <2> QED
    BY <2>1, <2>2
<1> QED
  BY <1>3, LtIsOrder

LEMMA LastExists ==
  ASSUME NEW S, S \subseteq Nat, IsFiniteSet(S), S # {}, NEW dir
  PROVE  \E i \in S : \A j \in S \ {i} : Lt(dir, j, i)
<1> DEFINE back == IF dir = "forw" THEN "back" ELSE "forw"
<1>1. PICK i \in S : \A j \in S \ {i} : Lt(back, i, j)
  BY FirstExists
<1> QED
  BY <1>1 DEF Lt

\* The first n rows of S.
Front(S, dir, n) == {i \in S : Cardinality(Ahead(S, dir, i)) < n}

LEMMA FrontIsClosed ==
  ASSUME NEW S, S \subseteq Nat, IsFiniteSet(S), NEW dir, NEW n \in Nat,
         NEW i \in Front(S, dir, n), NEW j \in S, Lt(dir, j, i)
  PROVE  j \in Front(S, dir, n)
<1>1. i \in S /\ Cardinality(Ahead(S, dir, i)) < n
  BY DEF Front
<1>2. Cardinality(Ahead(S, dir, j)) < Cardinality(Ahead(S, dir, i))
  BY <1>1, AheadGrows
<1>3. Cardinality(Ahead(S, dir, i)) \in Nat /\ Cardinality(Ahead(S, dir, j)) \in Nat
  BY AheadIsFinite
<1> QED
  BY <1>1, <1>2, <1>3 DEF Front

LEMMA FrontIsFinite ==
  ASSUME NEW S, IsFiniteSet(S), NEW dir, NEW n
  PROVE  /\ Front(S, dir, n) \subseteq S
         /\ IsFiniteSet(Front(S, dir, n)) /\ Cardinality(Front(S, dir, n)) \in Nat
BY FS_Subset, FS_CardinalityType DEF Front

\* They are n at most, and n exactly if there are others.
LEMMA FrontSize ==
  ASSUME NEW S, S \subseteq Nat, IsFiniteSet(S), NEW dir, NEW n \in Nat
  PROVE  /\ Cardinality(Front(S, dir, n)) <= n
         /\ Front(S, dir, n) # S => Cardinality(Front(S, dir, n)) = n
<1> DEFINE L == Front(S, dir, n)
<1>1. L \subseteq S /\ L \subseteq Nat /\ IsFiniteSet(L) /\ Cardinality(L) \in Nat
  BY FrontIsFinite
<1>2. Cardinality(L) <= n
  <2>1. CASE L = {}
    BY <2>1, FS_EmptySet
  <2>2. CASE L # {}
    <3>1. PICK i \in L : \A j \in L \ {i} : Lt(dir, j, i)
      BY <1>1, <2>2, LastExists
    <3>2. L \subseteq Ahead(S, dir, i) \cup {i}
      BY <1>1, <3>1 DEF Ahead
    <3>3. IsFiniteSet(Ahead(S, dir, i)) /\ Cardinality(Ahead(S, dir, i)) \in Nat
      BY AheadIsFinite
    <3>4. i \notin Ahead(S, dir, i)
      BY <1>1, LtIsOrder DEF Ahead
    <3>5. /\ IsFiniteSet(Ahead(S, dir, i) \cup {i})
          /\ Cardinality(Ahead(S, dir, i) \cup {i}) = Cardinality(Ahead(S, dir, i)) + 1
      BY <3>3, <3>4, FS_AddElement
    <3>6. Cardinality(L) <= Cardinality(Ahead(S, dir, i) \cup {i})
      BY <3>2, <3>5, FS_Subset
    <3>7. Cardinality(Ahead(S, dir, i)) < n
      BY <3>1 DEF Front
    <3> QED
      BY <1>1, <3>3, <3>5, <3>6, <3>7
  <2> QED
    BY <2>1, <2>2
<1>3. ASSUME L # S PROVE Cardinality(L) >= n
  <2>1. /\ S \ L # {} /\ S \ L \subseteq Nat /\ IsFiniteSet(S \ L)
    BY <1>1, <1>3, FS_Subset
  <2>2. PICK i \in S \ L : \A j \in (S \ L) \ {i} : Lt(dir, i, j)
    BY <2>1, FirstExists
  <2>3. Ahead(S, dir, i) \subseteq L
    BY <2>2, LtIsOrder DEF Ahead
  <2>4. Cardinality(Ahead(S, dir, i)) <= Cardinality(L)
    BY <1>1, <2>3, FS_Subset
  <2>5. ~(Cardinality(Ahead(S, dir, i)) < n) /\ Cardinality(Ahead(S, dir, i)) \in Nat
    BY <2>2, AheadIsFinite DEF Front
  <2> QED
    BY <1>1, <2>4, <2>5
<1> QED
  BY <1>1, <1>2, <1>3

\* The first of S are among the first of the first.
LEMMA FrontOfFront ==
  ASSUME NEW S, S \subseteq Nat, IsFiniteSet(S), NEW dir, NEW n \in Nat
  PROVE  Front(Front(S, dir, n + 1), dir, n) = Front(S, dir, n)
<1> DEFINE L == Front(S, dir, n + 1)
<1>1. \A i \in L : Ahead(L, dir, i) = Ahead(S, dir, i)
  <2> SUFFICES ASSUME NEW i \in L PROVE Ahead(L, dir, i) = Ahead(S, dir, i)
    OBVIOUS
  <2>1. L \subseteq S /\ n + 1 \in Nat
    BY FrontIsFinite
  <2>2. \A j \in S : Lt(dir, j, i) => j \in L
    BY <2>1, FrontIsClosed
  <2> HIDE DEF L
  <2> QED
    BY <2>1, <2>2 DEF Ahead
<1>2. \A i \in S : Cardinality(Ahead(S, dir, i)) < n => i \in L
  BY AheadIsFinite DEF Front
<1>3. \A i : i \in Front(L, dir, n) <=> i \in L /\ Cardinality(Ahead(S, dir, i)) < n
  BY <1>1 DEF Front
<1>4. L \subseteq S
  BY FrontIsFinite
<1>5. \A i : i \in Front(S, dir, n) <=> i \in S /\ Cardinality(Ahead(S, dir, i)) < n
  BY DEF Front
<1> QED
  BY <1>2, <1>3, <1>4, <1>5

LEMMA FrontHasFirst ==
  ASSUME NEW S, S \subseteq Nat, IsFiniteSet(S), S # {}, NEW dir, NEW n \in Nat, n >= 1
  PROVE  Front(S, dir, n) # {}
<1>1. PICK i \in S : \A j \in S \ {i} : Lt(dir, i, j)
  BY FirstExists
<1>2. Ahead(S, dir, i) = {}
  BY <1>1, LtIsOrder DEF Ahead
<1>3. Cardinality(Ahead(S, dir, i)) = 0
  BY <1>2, FS_EmptySet
<1> QED
  BY <1>3 DEF Front

-----------------------------------------------------------------------------
(* A page                                                                   *)

PageType == [dir: Directions, cur: Nat \cup {Absent}, num: Nat \ {0}, order: {"none"}]

\* The rows behind the cursor.
Found(page) == {i \in rows : Beyond(i, page.dir, page.cur)}

LEMMA BeforeIsAhead ==
  ASSUME NEW page \in PageType, NEW S, NEW i
  PROVE  Before(i, S, page) = Ahead(S, page.dir, i)
BY DEF PageType, Before, Ahead, Precedes, Lt

LEMMA BeyondCursor ==
  ASSUME NEW i \in Nat, NEW dir, NEW cur \in Nat \cup {Absent}
  PROVE  Beyond(i, dir, cur) <=> cur = Absent \/ Lt(dir, cur, i)
BY DEF Beyond, Lt

\* What is beyond a row beyond the cursor is beyond the cursor.
LEMMA BeyondLater ==
  ASSUME NEW dir, NEW cur \in Nat \cup {Absent}, NEW k \in Nat, NEW i \in Nat,
         Beyond(k, dir, cur), Beyond(i, dir, k)
  PROVE  Beyond(i, dir, cur)
<1>1. k # Absent
  BY DEF Absent
<1> QED
  BY <1>1, BeyondCursor, LtIsOrder

\* What is on a page, and when another follows.
LEMMA PageFacts ==
  ASSUME NEW page \in PageType, rows \subseteq Nat, IsFiniteSet(rows),
         NEW records, records = all(page), NEW nodes, nodes = edges(records, page)
  PROVE  /\ nodes \subseteq Found(page) /\ IsFiniteSet(nodes) /\ Cardinality(nodes) <= page.num
         /\ has_next(records, page) <=> nodes # Found(page)
         /\ \A i \in Found(page) \ nodes, j \in nodes : Lt(page.dir, j, i)
         /\ nodes = {} => Found(page) = {}
<1> DEFINE F == Found(page)
           n == page.num
<1>1. F \subseteq Nat /\ IsFiniteSet(F)
  BY FS_Subset DEF Found
<1>2. n \in Nat /\ n >= 1 /\ n + 1 \in Nat
  BY DEF PageType
<1>3. records = Front(F, page.dir, n + 1)
  BY BeforeIsAhead DEF all, Limit, Front, Found
<1>4. has_next(records, page) <=> Cardinality(records) = n + 1
  <2>1. Cardinality(records) \in Nat
    BY <1>1, <1>3, FrontIsFinite
  <2> QED
    BY <2>1, <1>2 DEF has_next
<1>5. {i \in records : Cardinality(Before(i, records, page)) < n} = Front(F, page.dir, n)
  <2>1. {i \in records : Cardinality(Before(i, records, page)) < n} = Front(records, page.dir, n)
    BY BeforeIsAhead DEF Front
  <2> QED
    BY <2>1, <1>1, <1>2, <1>3, FrontOfFront
<1>6. nodes = IF has_next(records, page) THEN Front(F, page.dir, n) ELSE records
  BY <1>5 DEF edges
<1> HIDE DEF F
<1>7. CASE has_next(records, page)
  <2>1. nodes = Front(F, page.dir, n)
    BY <1>6, <1>7
  <2>2. nodes \subseteq F /\ IsFiniteSet(nodes) /\ Cardinality(nodes) <= n
    <3>1. Front(F, page.dir, n) \subseteq F /\ IsFiniteSet(Front(F, page.dir, n))
      BY <1>1, FrontIsFinite
    <3>2. Cardinality(Front(F, page.dir, n)) <= n
      BY <1>1, <1>2, FrontSize
    <3> QED
      BY <2>1, <3>1, <3>2
  <2>3. nodes # F
    <3>1. Cardinality(records) <= Cardinality(F) /\ Cardinality(F) \in Nat
      BY <1>1, <1>3, FrontIsFinite, FS_Subset, FS_CardinalityType
    <3> QED
      BY <3>1, <2>2, <1>2, <1>4, <1>7
  <2>4. \A i \in F \ nodes, j \in nodes : Lt(page.dir, j, i)
    <3> SUFFICES ASSUME NEW i \in F \ nodes, NEW j \in nodes PROVE Lt(page.dir, j, i)
      OBVIOUS
    <3>1. i \in Nat /\ j \in Nat /\ i # j
      BY <1>1, <2>2
    <3>2. ~Lt(page.dir, i, j)
      BY <1>1, <1>2, <2>1, FrontIsClosed
    <3> QED
      BY <3>1, <3>2, LtIsOrder
  <2>5. nodes # {}
    <3>1. F # {}
      BY <2>2, <2>3
    <3> QED
      BY <3>1, <2>1, <1>1, <1>2, FrontHasFirst
  <2> QED
    BY <2>2, <2>3, <2>4, <2>5, <1>7 DEF F
<1>8. CASE ~has_next(records, page)
  <2>1. nodes = records /\ records \subseteq F /\ IsFiniteSet(records)
    BY <1>1, <1>3, <1>6, <1>8, FrontIsFinite
  <2>2. /\ Cardinality(records) <= n + 1 /\ Cardinality(records) \in Nat
        /\ records # F => Cardinality(records) = n + 1
    BY <1>1, <1>2, <1>3, FrontSize, FrontIsFinite
  <2>3. records = F /\ Cardinality(records) <= n
    BY <1>2, <1>4, <1>8, <2>2
  <2> QED
    BY <2>1, <2>3, <1>8 DEF F
<1> QED
  BY <1>7, <1>8

LEMMA EndCursor ==
  ASSUME NEW page \in PageType, NEW nodes, nodes \subseteq Nat, IsFiniteSet(nodes), nodes # {}
  PROVE  /\ end_cursor(nodes, page) \in nodes
         /\ \A j \in nodes \ {end_cursor(nodes, page)} : Lt(page.dir, j, end_cursor(nodes, page))
<1>1. \A i, j : Precedes(page.order, page.dir, j, i) <=> Lt(page.dir, j, i)
  BY DEF PageType, Precedes, Lt
<1>2. \E i \in nodes : \A j \in nodes \ {i} : Precedes(page.order, page.dir, j, i)
  BY <1>1, LastExists
<1> QED
  BY <1>1, <1>2 DEF end_cursor

-----------------------------------------------------------------------------
(* The invariant                                                            *)

WalkType ==
  [pc: {"none", "going", "done"}, dir: Directions, size: (Nat \ {0}) \cup {Absent}, order: {"none"},
   cursor: Nat \cup {Absent}, seen: SUBSET Nat, edges: SUBSET Nat, next: BOOLEAN, due: SUBSET Nat]

Types ==
  /\ rows \subseteq used /\ used \subseteq Ids /\ IsFiniteSet(rows)
  /\ walk \in WalkType
  /\ walk.dir = "back" => walk.size # Absent
  /\ walk.cursor \in used \cup {Absent} /\ walk.seen \subseteq used /\ walk.edges \subseteq used
  /\ walk.due \subseteq rows /\ Cardinality(walk.edges) <= MaxSize

\* The cursor is behind everything that was seen.
Passed == \A i \in walk.seen : ~Beyond(i, walk.dir, walk.cursor)

Inv == Types /\ Passed /\ NothingSkipped

\* The page that a client asks for goes its way from its cursor.
LEMMA Parsed ==
  ASSUME Types
  PROVE  /\ parse(Params(walk)) \in PageType
         /\ parse(Params(walk)).dir = walk.dir /\ parse(Params(walk)).cur = walk.cursor
         /\ parse(Params(walk)).num <= MaxSize
<1>1. /\ walk.dir \in Directions /\ walk.cursor \in Nat \cup {Absent} /\ walk.order = "none"
      /\ walk.size \in (Nat \ {0}) \cup {Absent}
      /\ walk.dir = "back" => walk.size # Absent
  BY DEF Types, WalkType
<1>2. \A k \in Nat \ {0} : normalize(k) \in Nat \ {0} /\ normalize(k) <= MaxSize
  BY SizesAssumption DEF normalize
<1>3. DefSize \in Nat \ {0} /\ DefSize <= MaxSize
  BY SizesAssumption
<1>4. PICK num \in Nat \ {0} : num <= MaxSize /\ num = IF walk.size = Absent THEN DefSize ELSE normalize(walk.size)
  <2>1. CASE walk.size = Absent
    BY <1>3, <2>1
  <2>2. CASE walk.size \in Nat \ {0}
    <3>1. walk.size # Absent
      BY <2>2 DEF Absent
    <3> QED
      BY <1>2, <2>2, <3>1
  <2> QED
    BY <1>1, <2>1, <2>2
<1>5. parse(Params(walk)) = [dir |-> walk.dir, cur |-> walk.cursor, num |-> num, order |-> "none"]
  <2>1. CASE walk.dir = "forw"
    BY <1>1, <1>4, <2>1 DEF parse, Params
  <2>2. CASE walk.dir = "back"
    BY <1>1, <1>4, <2>2 DEF parse, Params
  <2> QED
    BY <1>1, <2>1, <2>2 DEF Directions
<1> QED
  BY <1>1, <1>4, <1>5 DEF PageType

LEMMA IdsAreNaturals ==
  ASSUME Types
  PROVE  rows \subseteq Nat /\ used \subseteq Nat
BY IdsAssumption DEF Types

\* What a query of the client does.
LEMMA FetchFacts ==
  ASSUME Types, Fetch, BeforeCursor = "endCursor"
  PROVE  /\ UNCHANGED <<rows, used>> /\ walk.pc = "going"
         /\ \E nodes \in SUBSET rows, cursor \in used \cup {Absent}, next \in BOOLEAN :
              /\ \A i \in nodes : Beyond(i, walk.dir, walk.cursor)
              /\ Cardinality(nodes) <= MaxSize
              /\ \A i \in nodes : ~Beyond(i, walk.dir, cursor)
              /\ cursor = walk.cursor \/ cursor \in nodes
              /\ nodes = {} => cursor = walk.cursor
              /\ next <=> \E i \in rows : Beyond(i, walk.dir, cursor)
              /\ \A i \in rows : Beyond(i, walk.dir, walk.cursor) =>
                   i \in nodes \/ (next /\ Beyond(i, walk.dir, cursor))
              /\ walk' = [walk EXCEPT !.edges = nodes, !.seen = @ \cup nodes, !.next = next,
                           !.cursor = cursor, !.pc = IF next THEN "going" ELSE "done"]
<1> DEFINE page == parse(Params(walk))
           records == all(page)
           nodes == edges(records, page)
           next == has_next(records, page)
           cursor == IF nodes = {} THEN walk.cursor ELSE end_cursor(nodes, page)
<1>1. /\ page \in PageType /\ page.dir = walk.dir /\ page.cur = walk.cursor
      /\ page.num <= MaxSize /\ page.num \in Nat
  BY Parsed DEF PageType
<1>2. rows \subseteq Nat /\ used \subseteq Nat /\ IsFiniteSet(rows) /\ rows \subseteq used
      /\ walk.cursor \in used \cup {Absent}
  BY IdsAreNaturals DEF Types
<1>3. /\ UNCHANGED <<rows, used>> /\ walk.pc = "going"
      /\ walk' = [walk EXCEPT !.edges = nodes, !.seen = @ \cup nodes, !.next = next,
                   !.cursor = cursor, !.pc = IF next THEN "going" ELSE "done"]
  BY DEF Fetch, Cursor
<1> HIDE DEF page
<1>4. /\ nodes \subseteq Found(page) /\ IsFiniteSet(nodes) /\ Cardinality(nodes) <= page.num
      /\ next <=> nodes # Found(page)
      /\ \A i \in Found(page) \ nodes, j \in nodes : Lt(page.dir, j, i)
      /\ nodes = {} => Found(page) = {}
  BY <1>1, <1>2, PageFacts
<1>5. \A i : i \in Found(page) <=> i \in rows /\ (walk.cursor = Absent \/ Lt(walk.dir, walk.cursor, i))
  BY <1>1, <1>2, BeyondCursor DEF Found
<1> HIDE DEF records, nodes, next
<1>6. nodes \subseteq rows /\ Cardinality(nodes) <= MaxSize /\ nodes \subseteq Nat
  <2>1. Cardinality(nodes) \in Nat /\ MaxSize \in Nat
    BY <1>4, FS_CardinalityType, SizesAssumption
  <2> QED
    <3>1. nodes \subseteq rows
      BY <1>4, <1>5
    <3>2. Cardinality(nodes) <= MaxSize
      BY <2>1, <1>1, <1>4
    <3> QED
      BY <3>1, <3>2, <1>2
<1>7. nodes # {} => cursor \in nodes /\ \A j \in nodes \ {cursor} : Lt(walk.dir, j, cursor)
  BY <1>1, <1>4, <1>6, EndCursor
<1>8. nodes = {} => cursor = walk.cursor
  OBVIOUS
<1> HIDE DEF cursor
<1>9. cursor \in used \cup {Absent} /\ cursor \in Nat \cup {Absent}
  BY <1>2, <1>6, <1>7, <1>8
<1>10. \A i \in rows : Beyond(i, walk.dir, cursor) <=> cursor = Absent \/ Lt(walk.dir, cursor, i)
  BY <1>2, <1>9, BeyondCursor
<1>11. \A i \in nodes : ~Beyond(i, walk.dir, cursor)
  <2> SUFFICES ASSUME NEW i \in nodes PROVE ~Beyond(i, walk.dir, cursor)
    OBVIOUS
  <2>1. cursor \in nodes /\ (i = cursor \/ Lt(walk.dir, i, cursor))
    BY <1>7
  <2>2. cursor # Absent /\ cursor \in Nat /\ i \in Nat
    BY <2>1, <1>6 DEF Absent
  <2> QED
    BY <2>1, <2>2, <1>6, <1>10, LtIsOrder
<1>12. next <=> \E i \in rows : Beyond(i, walk.dir, cursor)
  <2>1. ASSUME next PROVE \E i \in rows : Beyond(i, walk.dir, cursor)
    <3>1. PICK i \in Found(page) : i \notin nodes
      BY <1>4, <2>1
    <3>2. nodes # {}
      BY <3>1, <1>4
    <3> QED
      BY <3>1, <3>2, <1>1, <1>4, <1>5, <1>7, <1>10
  <2>2. ASSUME NEW i \in rows, Beyond(i, walk.dir, cursor), ~next PROVE FALSE
    <3>1. nodes = Found(page)
      BY <1>4, <2>2
    <3>2. CASE nodes = {}
      BY <3>1, <3>2, <1>5, <1>8, <1>10, <2>2
    <3>3. CASE nodes # {}
      <4>1. cursor \in nodes
        BY <3>3, <1>7
      <4>2. cursor \in Nat /\ i \in Nat
        BY <4>1, <1>2, <1>6
      <4>3. Beyond(cursor, walk.dir, walk.cursor)
        BY <4>1, <1>1, <3>1 DEF Found
      <4>4. Beyond(i, walk.dir, walk.cursor)
        BY <4>2, <4>3, <1>2, <2>2, BeyondLater
      <4>5. i \in nodes
        BY <4>4, <3>1, <1>1 DEF Found
      <4> QED
        BY <4>5, <2>2, <1>11
    <3> QED
      BY <3>2, <3>3
  <2> QED
    BY <2>1, <2>2
<1>13. /\ \A i \in nodes : Beyond(i, walk.dir, walk.cursor)
       /\ \A i \in rows : Beyond(i, walk.dir, walk.cursor) =>
            i \in nodes \/ (next /\ Beyond(i, walk.dir, cursor))
  <2>1. \A i \in rows : i \in Found(page) <=> Beyond(i, walk.dir, walk.cursor)
    BY <1>1 DEF Found
  <2>2. ASSUME NEW i \in rows, Beyond(i, walk.dir, walk.cursor), i \notin nodes
        PROVE  next /\ Beyond(i, walk.dir, cursor)
    <3>1. i \in Found(page) \ nodes /\ next /\ nodes # {}
      BY <1>4, <2>1, <2>2
    <3>2. cursor \in nodes
      BY <3>1, <1>7
    <3>3. Lt(walk.dir, cursor, i)
      BY <3>1, <3>2, <1>1, <1>4
    <3> QED
      BY <3>1, <3>3, <1>10
  <2> QED
    BY <2>1, <2>2, <1>4, <1>6
<1>14. next \in BOOLEAN
  BY DEF next, has_next
<1> QED
  BY <1>3, <1>6, <1>7, <1>8, <1>9, <1>11, <1>12, <1>13, <1>14

LEMMA FetchInv ==
  ASSUME Inv, Fetch, BeforeCursor = "endCursor"
  PROVE  Inv'
<1>1. Types /\ Passed /\ NothingSkipped /\ rows \subseteq Nat /\ used \subseteq Nat /\ rows \subseteq used
  BY IdsAreNaturals DEF Inv, Types
<1>2. PICK nodes \in SUBSET rows, cursor \in used \cup {Absent}, next \in BOOLEAN :
        /\ \A i \in nodes : Beyond(i, walk.dir, walk.cursor)
        /\ Cardinality(nodes) <= MaxSize
        /\ \A i \in nodes : ~Beyond(i, walk.dir, cursor)
        /\ cursor = walk.cursor \/ cursor \in nodes
        /\ nodes = {} => cursor = walk.cursor
        /\ next <=> \E i \in rows : Beyond(i, walk.dir, cursor)
        /\ \A i \in rows : Beyond(i, walk.dir, walk.cursor) =>
             i \in nodes \/ (next /\ Beyond(i, walk.dir, cursor))
        /\ walk' = [walk EXCEPT !.edges = nodes, !.seen = @ \cup nodes, !.next = next,
                     !.cursor = cursor, !.pc = IF next THEN "going" ELSE "done"]
  BY <1>1, FetchFacts
<1>3. UNCHANGED <<rows, used>>
  BY <1>1, FetchFacts
<1>4. PICK pc \in {"going", "done"} : pc = IF next THEN "going" ELSE "done"
  BY <1>2
<1>5. /\ walk' \in WalkType /\ walk'.dir = walk.dir /\ walk'.size = walk.size /\ walk'.due = walk.due
      /\ walk'.pc = pc /\ walk'.cursor = cursor /\ walk'.seen = walk.seen \cup nodes /\ walk'.edges = nodes
  <2>1. walk \in WalkType /\ nodes \in SUBSET Nat /\ cursor \in Nat \cup {Absent}
    BY <1>1 DEF Types
  <2>2. walk' = [walk EXCEPT !.edges = nodes, !.seen = @ \cup nodes, !.next = next, !.cursor = cursor, !.pc = pc]
    BY <1>2, <1>4
  <2> QED
    <3>1. PICK w \in WalkType : w = walk
      BY <2>1
    <3>2. PICK v : v = walk'
      OBVIOUS
    <3>3. v = [w EXCEPT !.edges = nodes, !.seen = @ \cup nodes, !.next = next, !.cursor = cursor, !.pc = pc]
      BY <2>2, <3>1, <3>2
    <3>4. /\ v \in WalkType /\ v.dir = w.dir /\ v.size = w.size /\ v.due = w.due
          /\ v.pc = pc /\ v.cursor = cursor /\ v.seen = w.seen \cup nodes /\ v.edges = nodes
      BY <2>1, <3>3 DEF WalkType
    <3> QED
      BY <3>1, <3>2, <3>4
<1>6. Types'
  BY <1>1, <1>2, <1>3, <1>5 DEF Types
<1>7. Passed'
  <2> SUFFICES ASSUME NEW i \in walk.seen \cup nodes PROVE ~Beyond(i, walk.dir, cursor)
    BY <1>5 DEF Passed
  <2>1. CASE i \in nodes
    BY <1>2, <2>1
  <2>2. CASE i \in walk.seen
    <3>1. ~Beyond(i, walk.dir, walk.cursor) /\ i \in Nat
      BY <1>1, <2>2 DEF Passed, Types
    <3>2. CASE cursor \in nodes
      <4>1. cursor \in Nat /\ Beyond(cursor, walk.dir, walk.cursor) /\ walk.cursor \in Nat \cup {Absent}
        BY <1>1, <1>2, <3>2 DEF Types
      <4> QED
        BY <3>1, <4>1, BeyondLater
    <3> QED
      BY <1>2, <3>1, <3>2
  <2> QED
    BY <2>1, <2>2
<1>8. NothingSkipped'
  <2> SUFFICES ASSUME NEW i \in walk.due, pc = "done" \/ ~Beyond(i, walk.dir, cursor)
               PROVE  i \in walk.seen \cup nodes
    BY <1>5 DEF NothingSkipped
  <2>1. i \in rows
    BY <1>1 DEF Types
  <2>2. CASE Beyond(i, walk.dir, walk.cursor)
    BY <1>2, <1>4, <2>1, <2>2
  <2>3. CASE ~Beyond(i, walk.dir, walk.cursor)
    BY <1>1, <2>3 DEF NothingSkipped
  <2> QED
    BY <2>2, <2>3
<1> QED
  BY <1>6, <1>7, <1>8 DEF Inv

LEMMA StartInv ==
  ASSUME Inv, Start, Orders \subseteq {"none"}
  PROVE  Inv'
<1>1. Types
  BY DEF Inv
<1>2. PICK dir \in Directions, size \in (Nat \ {0}) \cup {Absent} :
        /\ dir = "back" => size # Absent
        /\ walk' = [NoWalk EXCEPT !.pc = "going", !.dir = dir, !.size = size, !.order = "none", !.due = rows]
  BY SizesAssumption, DirsAssumption DEF Start, Directions
<1>3. UNCHANGED <<rows, used>> /\ rows \subseteq Nat
  BY <1>1, IdsAreNaturals DEF Start
<1>4. walk' = [pc |-> "going", dir |-> dir, size |-> size, order |-> "none", cursor |-> Absent, seen |-> {},
               edges |-> {}, next |-> FALSE, due |-> rows]
  BY <1>2 DEF NoWalk
<1>5. walk' \in WalkType
  BY <1>3, <1>4 DEF WalkType
<1>6. Cardinality(walk'.edges) <= MaxSize
  BY <1>4, FS_EmptySet, SizesAssumption
<1>7. Types'
  <2>1. /\ walk'.dir = dir /\ walk'.size = size /\ walk'.cursor = Absent
        /\ walk'.seen = {} /\ walk'.edges = {} /\ walk'.due = rows
    BY <1>4
  <2> HIDE <1>4
  <2> QED
    BY <2>1, <1>1, <1>2, <1>3, <1>5, <1>6 DEF Types
<1>8. Passed' /\ NothingSkipped'
  BY <1>4 DEF Passed, NothingSkipped, Beyond
<1> QED
  BY <1>7, <1>8 DEF Inv

LEMMA PollInv ==
  ASSUME Inv, Poll
  PROVE  Inv'
<1>1. Types /\ Passed /\ NothingSkipped /\ rows \subseteq Nat
  BY IdsAreNaturals DEF Inv
<1>2. PICK due \in SUBSET rows : due = walk.due \cup {i \in rows : Beyond(i, walk.dir, walk.cursor)}
  BY <1>1 DEF Types
<1>3. walk.pc = "done" /\ walk' = [walk EXCEPT !.pc = "going", !.due = due] /\ UNCHANGED <<rows, used>>
  BY <1>2 DEF Poll
<1>4. /\ walk' \in WalkType /\ walk'.dir = walk.dir /\ walk'.size = walk.size /\ walk'.due = due
      /\ walk'.pc = "going" /\ walk'.cursor = walk.cursor /\ walk'.seen = walk.seen /\ walk'.edges = walk.edges
  BY <1>1, <1>3 DEF Types, WalkType
<1>5. Types'
  BY <1>1, <1>3, <1>4 DEF Types
<1>6. Passed'
  BY <1>1, <1>4 DEF Passed
<1>7. NothingSkipped'
  BY <1>1, <1>2, <1>3, <1>4 DEF NothingSkipped
<1> QED
  BY <1>5, <1>6, <1>7 DEF Inv

\* What others commit changes what is due, and nothing that was seen.
LEMMA OthersInv ==
  ASSUME Inv, NEW due \in SUBSET rows', walk' = walk \/ walk' = [walk EXCEPT !.due = due],
         walk.due \subseteq rows' \/ walk' = [walk EXCEPT !.due = due],
         rows' \subseteq used', used' \subseteq Ids, IsFiniteSet(rows'), used \subseteq used',
         \A i \in due : i \in walk.due \/ (walk.pc = "going" /\ Beyond(i, walk.dir, walk.cursor))
  PROVE  Inv'
<1>1. Types /\ Passed /\ NothingSkipped /\ rows' \subseteq Nat
  BY IdsAssumption DEF Inv
<1>2. /\ walk' \in WalkType /\ walk'.dir = walk.dir /\ walk'.size = walk.size
      /\ (walk'.due = walk.due /\ walk.due \subseteq rows') \/ walk'.due = due
      /\ walk'.pc = walk.pc /\ walk'.cursor = walk.cursor /\ walk'.seen = walk.seen /\ walk'.edges = walk.edges
  <2>1. walk \in WalkType /\ due \in SUBSET Nat
    BY <1>1 DEF Types
  <2> QED
    BY <2>1 DEF WalkType
<1>3. Types'
  BY <1>1, <1>2 DEF Types
<1>4. Passed'
  BY <1>1, <1>2 DEF Passed
<1>5. NothingSkipped'
  BY <1>1, <1>2 DEF NothingSkipped
<1> QED
  BY <1>3, <1>4, <1>5 DEF Inv

LEMMA InsertInv ==
  ASSUME Inv, Insert
  PROVE  Inv'
<1>1. Types
  BY DEF Inv
<1>2. PICK i \in Ids \ used :
        /\ rows' = rows \cup {i} /\ used' = used \cup {i}
        /\ walk' = IF walk.pc = "going" /\ Beyond(i, walk.dir, walk.cursor)
                    THEN [walk EXCEPT !.due = @ \cup {i}] ELSE walk
  BY DEF Insert
<1>3. IsFiniteSet(rows')
  BY <1>1, <1>2, FS_AddElement DEF Types
<1>4. rows' \subseteq used' /\ used' \subseteq Ids /\ used \subseteq used' /\ walk.due \subseteq rows'
  BY <1>1, <1>2 DEF Types
<1>5. CASE walk.pc = "going" /\ Beyond(i, walk.dir, walk.cursor)
  <2>1. PICK due \in SUBSET rows' : due = walk.due \cup {i}
    BY <1>2, <1>4
  <2>2. walk' = [walk EXCEPT !.due = due]
    BY <1>2, <1>5, <2>1
  <2> QED
    BY <1>3, <1>4, <1>5, <2>1, <2>2, OthersInv
<1>6. CASE ~(walk.pc = "going" /\ Beyond(i, walk.dir, walk.cursor))
  <2>1. PICK due \in SUBSET rows' : due = walk.due
    BY <1>4
  <2> QED
    BY <1>2, <1>3, <1>4, <1>6, <2>1, OthersInv
<1> QED
  BY <1>5, <1>6

LEMMA DeleteInv ==
  ASSUME Inv, Delete
  PROVE  Inv'
<1>1. Types
  BY DEF Inv
<1>2. PICK i \in rows : rows' = rows \ {i} /\ walk' = [walk EXCEPT !.due = @ \ {i}] /\ used' = used
  BY DEF Delete
<1>3. IsFiniteSet(rows')
  BY <1>1, <1>2, FS_RemoveElement DEF Types
<1>4. rows' \subseteq used' /\ used' \subseteq Ids /\ used \subseteq used'
  BY <1>1, <1>2 DEF Types
<1>5. PICK due \in SUBSET rows' : due = walk.due \ {i}
  BY <1>1, <1>2 DEF Types
<1>6. walk' = [walk EXCEPT !.due = due]
  BY <1>2, <1>5
<1> QED
  BY <1>3, <1>4, <1>5, <1>6, OthersInv

LEMMA InitInv ==
  Init => Inv
<1> SUFFICES ASSUME Init PROVE Inv
  OBVIOUS
<1>1. walk \in WalkType
  BY DEF Init, NoWalk, WalkType, Directions
<1>2. Cardinality(walk.edges) <= MaxSize
  BY FS_EmptySet, SizesAssumption DEF Init, NoWalk
<1>3. Types
  BY <1>1, <1>2 DEF Init, NoWalk, Types
<1> QED
  BY <1>3 DEF Init, NoWalk, Inv, Passed, NothingSkipped

LEMMA NextInv ==
  Orders \subseteq {"none"} /\ BeforeCursor = "endCursor" /\ Inv /\ [Next]_vars => Inv'
<1>1. Inv /\ UNCHANGED vars => Inv'
  BY DEF vars, Inv, Types, Passed, NothingSkipped
<1> QED
  BY <1>1, StartInv, FetchInv, PollInv, InsertInv, DeleteInv DEF Next

-----------------------------------------------------------------------------
(* What a client sees                                                       *)

\* Only a query of the client is an answer to it.
LEMMA OnlyFetch ==
  ASSUME Types, [Next]_vars, Fetches
  PROVE  Fetch
<1>1. ~Insert /\ ~Delete /\ ~Start /\ ~Poll
  BY DEF Types, Fetches, Insert, Delete, Start, Poll
<1>2. ~UNCHANGED vars
  BY DEF Fetches, vars
<1> QED
  BY <1>1, <1>2 DEF Next

\* Rows and cursors are ids that were given, and no page is larger than
\* max_page_size (gql/connection.ex, normalize and from_list; db/page.ex).
THEOREM TypeCorrect ==
  ASSUME Orders \subseteq {"none"}, BeforeCursor = "endCursor"
  PROVE  Spec => []TypeOK
<1>1. Inv => TypeOK
  BY DEF Inv, Types, WalkType, TypeOK
<1> QED
  BY <1>1, InitInv, NextInv, PTL DEF Spec

\* A list in the order of the ids is walked through without missing a row that
\* was there before the walk passed it, for any ids, page sizes, insertions and
\* deletions (Page.all and from_list, db/page.ex:76-94, gql/connection.ex:52-91).
THEOREM WalksSkipNothing ==
  ASSUME Orders \subseteq {"none"}, BeforeCursor = "endCursor"
  PROVE  Spec => []NothingSkipped
<1>1. Inv => NothingSkipped
  BY DEF Inv
<1> QED
  BY <1>1, InitInv, NextInv, PTL DEF Spec

\* Pages come in order, and no row comes twice, although the client sends back
\* nothing but the last cursor (Page.all, db/page.ex:76-94).
THEOREM WalksGoOneWay ==
  ASSUME Orders \subseteq {"none"}, BeforeCursor = "endCursor"
  PROVE  Spec => PagesInOrder
<1>1. Inv /\ [Next]_vars =>
        [Fetches => \A i \in walk'.edges, j \in walk.seen : i # j /\ Precedes("none", walk.dir, j, i)]_vars
  <2> SUFFICES ASSUME Inv, [Next]_vars, Fetches, NEW i \in walk'.edges, NEW j \in walk.seen
               PROVE  i # j /\ Precedes("none", walk.dir, j, i)
    OBVIOUS
  <2>1. Types /\ Fetch /\ rows \subseteq Nat
    BY OnlyFetch, IdsAreNaturals DEF Inv
  <2>2. PICK nodes \in SUBSET rows, cursor \in used \cup {Absent}, next \in BOOLEAN :
          /\ \A k \in nodes : Beyond(k, walk.dir, walk.cursor)
          /\ walk' = [walk EXCEPT !.edges = nodes, !.seen = @ \cup nodes, !.next = next,
                       !.cursor = cursor, !.pc = IF next THEN "going" ELSE "done"]
    BY <2>1, FetchFacts
  <2>3. walk'.edges = nodes
    BY <2>1, <2>2 DEF Types, WalkType
  <2>4. /\ i \in Nat /\ j \in Nat /\ walk.cursor \in Nat \cup {Absent}
        /\ Beyond(i, walk.dir, walk.cursor) /\ ~Beyond(j, walk.dir, walk.cursor)
    BY <2>1, <2>2, <2>3, IdsAreNaturals DEF Inv, Passed, Types
  <2>5. i # j /\ Lt(walk.dir, j, i)
    <3>1. walk.cursor # Absent /\ ~Lt(walk.dir, walk.cursor, j)
      BY <2>4, BeyondCursor
    <3>2. walk.cursor \in Nat /\ Lt(walk.dir, walk.cursor, i)
      BY <2>4, <3>1, BeyondCursor
    <3> QED
      BY <2>4, <3>1, <3>2 DEF Lt
  <2> QED
    BY <2>5 DEF Lt, Precedes
<1> QED
  BY <1>1, InitInv, NextInv, PTL DEF Spec, PagesInOrder

\* A page says that there is a next one exactly if there is (the row too many
\* that Page.all fetches, and has_next? of gql/connection.ex).
THEOREM NextPagesTold ==
  ASSUME Orders \subseteq {"none"}, BeforeCursor = "endCursor"
  PROVE  Spec => NextPageTold
<1>1. Inv /\ [Next]_vars =>
        [Fetches => (walk'.next <=> \E i \in rows : Beyond(i, walk.dir, walk'.cursor))]_vars
  <2> SUFFICES ASSUME Inv, [Next]_vars, Fetches
               PROVE  walk'.next <=> \E i \in rows : Beyond(i, walk.dir, walk'.cursor)
    OBVIOUS
  <2>1. Types /\ Fetch
    BY OnlyFetch DEF Inv
  <2>2. PICK nodes \in SUBSET rows, cursor \in used \cup {Absent}, next \in BOOLEAN :
          /\ next <=> \E i \in rows : Beyond(i, walk.dir, cursor)
          /\ walk' = [walk EXCEPT !.edges = nodes, !.seen = @ \cup nodes, !.next = next,
                       !.cursor = cursor, !.pc = IF next THEN "going" ELSE "done"]
    BY <2>1, FetchFacts
  <2>3. walk'.next = next /\ walk'.cursor = cursor
    BY <2>1, <2>2 DEF Types, WalkType
  <2> QED
    BY <2>2, <2>3
<1> QED
  BY <1>1, InitInv, NextInv, PTL DEF Spec, NextPageTold
================================================================================
