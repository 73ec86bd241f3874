---------------------------- MODULE LedgerProofs ----------------------------
(***************************************************************************)
(* What a step of the ledger does, for all agents, quantities and bounds.  *)
(* Its first part is about what quantities and chains use (the posting     *)
(* lemma) and proves type correctness; its second, about the other columns *)
(* and what the program checked before.  Together they are all that the    *)
(* theorems about the ledger use of the clauses.                           *)
(***************************************************************************)
EXTENDS LedgerRefinement, TLAPS

-----------------------------------------------------------------------------
(* Sequences *)

\* A function on 1..n is a sequence of length n.
LEMMA FunctionIsSequence ==
  ASSUME NEW S, NEW n \in Nat, NEW f \in [1..n -> S]
  PROVE  f \in Seq(S) /\ Len(f) = n
OBVIOUS

\* What Append adds to a sequence, and what it leaves alone.
LEMMA AppendIsSequence ==
  ASSUME NEW S, NEW s \in Seq(S), NEW x \in S
  PROVE  /\ Append(s, x) \in Seq(S)
         /\ Len(Append(s, x)) = Len(s) + 1
         /\ \A i \in 1..Len(s) : Append(s, x)[i] = s[i]
         /\ Append(s, x)[Len(s) + 1] = x
OBVIOUS

-----------------------------------------------------------------------------
(* Rows *)

\* What a request may carry: no previous event, and references to rows that
\* exist.
Request ==
  {e \in Event : /\ e.from \in ResourceIds \cup {Null}
                 /\ e.to \in ResourceIds \cup {Null}
                 /\ e.prev = Null}

LEMMA SentIsRequest ==
  ASSUME resources \in Seq(Resource),
         NEW acts, acts \subseteq ActionId,
         NEW froms, froms \subseteq ResourceIds \cup {Null},
         NEW tos, tos \subseteq ResourceIds \cup {Null},
         NEW specs, specs \subseteq Specs \cup {Nil},
         NEW inputs, inputs \subseteq Processes \cup {Nil},
         NEW outputs, outputs \subseteq Processes \cup {Nil},
         NEW locs, locs \subseteq Locations \cup {Nil},
         NEW e \in Sent(acts, froms, tos, specs, inputs, outputs, locs)
  PROVE  /\ e \in Request
         /\ e.action \in acts /\ e.from \in froms /\ e.to \in tos
         /\ e.spec \in specs /\ e.unit \in Units
<1>1. /\ e = [action |-> e.action, provider |-> e.provider, receiver |-> e.receiver,
              inputOf |-> e.inputOf, outputOf |-> e.outputOf, from |-> e.from, to |-> e.to,
              spec |-> e.spec, quantity |-> e.quantity, unit |-> e.unit,
              location |-> e.location, prev |-> e.prev]
      /\ e.action \in acts /\ e.provider \in Agents /\ e.receiver \in Agents
      /\ e.inputOf \in inputs /\ e.outputOf \in outputs
      /\ e.from \in froms /\ e.to \in tos /\ e.spec \in specs
      /\ e.quantity \in Quantities /\ e.unit \in Units
      /\ e.location \in locs /\ e.prev = Null
  BY DEF Sent
<1>2. e.from \in Nat /\ e.to \in Nat /\ e.prev \in Nat
  BY <1>1 DEF Null, ResourceIds
<1>3. e.quantity \in Nat
  BY <1>1, QuantitiesAssumption
<1>4. e \in Event
  BY <1>1, <1>2, <1>3 DEF Event
<1> QED
  BY <1>1, <1>4 DEF Request

\* What the changesets let through are requests of the actions they are for.
LEMMA InputsAreRequests ==
  ASSUME resources \in Seq(Resource)
  PROVE  /\ \A e \in RaiseInputs : /\ e \in Request /\ e.action \in {"raise", "produce"}
                                   /\ e.to = Null /\ e.unit \in Units
         /\ \A e \in LowerInputs : /\ e \in Request /\ e.action \in {"lower", "consume"}
                                   /\ e.to = Null /\ e.from # Null
         /\ \A e \in WorkInputs \cup DeliverServiceInputs :
              e \in Request /\ e.action \in {"work", "deliverService"} /\ e.to = Null
         /\ \A e \in UseInputs : e \in Request /\ e.action = "use" /\ e.to = Null
         /\ \A e \in CiteInputs : e \in Request /\ e.action = "cite" /\ e.to = Null
         /\ \A e \in PickupInputs :
              e \in Request /\ e.action = "pickup" /\ e.to = Null /\ e.from # Null
         /\ \A e \in DropoffInputs :
              e \in Request /\ e.action = "dropoff" /\ e.to = Null /\ e.from # Null
         /\ \A e \in AcceptInputs :
              e \in Request /\ e.action = "accept" /\ e.to = Null /\ e.from # Null
         /\ \A e \in ModifyInputs :
              e \in Request /\ e.action = "modify" /\ e.to = Null /\ e.from # Null
<1> USE DEF ResourceIds, Null, ActionId
<1>1. \A e \in RaiseInputs : /\ e \in Request /\ e.action \in {"raise", "produce"}
                             /\ e.to = Null /\ e.unit \in Units
  BY SentIsRequest DEF RaiseInputs
<1>2. \A e \in LowerInputs : /\ e \in Request /\ e.action \in {"lower", "consume"}
                             /\ e.to = Null /\ e.from # Null
  BY SentIsRequest DEF LowerInputs
<1>3. \A e \in WorkInputs : e \in Request /\ e.action = "work" /\ e.to = Null
  <2> TAKE e \in WorkInputs
  <2>1. PICK f \in Sent({"work"}, {Null}, {Null}, Specs, Processes, {Nil}, {Nil}) :
          e = [f EXCEPT !.quantity = 0, !.unit = Nil]
    BY DEF WorkInputs
  <2>2. f \in Request /\ f.action = "work" /\ f.to = Null
    BY SentIsRequest
  <2> QED
    BY <2>1, <2>2 DEF Request, Event
<1>4. \A e \in DeliverServiceInputs :
        e \in Request /\ e.action = "deliverService" /\ e.to = Null
  BY SentIsRequest DEF DeliverServiceInputs
<1>5. \A e \in UseInputs : e \in Request /\ e.action = "use" /\ e.to = Null
  <2> DEFINE full == {e \in Sent({"use"}, ResourceIds \cup {Null}, {Null}, Specs \cup {Nil},
                                 Processes, {Nil}, {Nil}) : SpecXorResource(e)}
  <2> TAKE e \in UseInputs
  <2>1. PICK f \in full : e = f \/ e = [f EXCEPT !.quantity = 0, !.unit = Nil]
    BY DEF UseInputs
  <2>2. f \in Request /\ f.action = "use" /\ f.to = Null
    BY SentIsRequest
  <2> QED
    BY <2>1, <2>2 DEF Request, Event
<1>6. \A e \in CiteInputs : e \in Request /\ e.action = "cite" /\ e.to = Null
  BY SentIsRequest DEF CiteInputs
<1>7. /\ \A e \in PickupInputs :
           e \in Request /\ e.action = "pickup" /\ e.to = Null /\ e.from # Null
      /\ \A e \in DropoffInputs :
           e \in Request /\ e.action = "dropoff" /\ e.to = Null /\ e.from # Null
  BY SentIsRequest DEF PickupInputs, DropoffInputs
<1>8. /\ \A e \in AcceptInputs :
           e \in Request /\ e.action = "accept" /\ e.to = Null /\ e.from # Null
      /\ \A e \in ModifyInputs :
           e \in Request /\ e.action = "modify" /\ e.to = Null /\ e.from # Null
  BY SentIsRequest DEF AcceptInputs, ModifyInputs
<1> QED
  BY <1>1, <1>2, <1>3, <1>4, <1>5, <1>6, <1>7, <1>8, Zenon

\* The same for the transfers.
LEMMA TransferInputsAreRequests ==
  ASSUME resources \in Seq(Resource)
  PROVE  /\ \A act \in {"transferCustody", "transfer", "move"} : \A e \in TransferInputs(act) :
              e \in Request /\ e.action = act /\ e.from # Null /\ e.unit \in Units
         /\ \A e \in TransferAllRightsInputs :
              /\ e \in Request /\ e.action = "transferAllRights"
              /\ e.from # Null /\ e.unit \in Units
         /\ MoveInputs \subseteq TransferInputs("move")
<1> USE DEF ResourceIds, Null, ActionId
<1>1. \A act \in {"transferCustody", "transfer", "move"} : \A e \in TransferInputs(act) :
        e \in Request /\ e.action = act /\ e.from # Null /\ e.unit \in Units
  BY SentIsRequest DEF TransferInputs
<1>2. \A e \in TransferAllRightsInputs :
        e \in Request /\ e.action = "transferAllRights" /\ e.from # Null /\ e.unit \in Units
  BY SentIsRequest DEF TransferAllRightsInputs
<1>3. MoveInputs \subseteq TransferInputs("move")
  BY DEF MoveInputs
<1> QED
  BY <1>1, <1>2, <1>3

-----------------------------------------------------------------------------
(* Steps.  Every event posts one row: it appends the row to the log, links  *)
(* it in the chain of the resource it goes through, and adds its effects to *)
(* the quantities.  What else an action does depends on the action.         *)

\* The previous event of the resource e goes through.
Before(e) == IF e.from \in ResourceIds THEN resources[e.from].prev ELSE Null

Appends(e) == e \in Event /\ events' = Append(events, e) /\ e.prev = Before(e)

Placed(e) ==
  /\ resources' \in Seq(Resource)
  /\ Len(resources') \in {Len(resources), NextResource}
  /\ e.from \in 0..Len(resources') /\ e.to \in 0..Len(resources')
  /\ \A r \in 1..Len(resources') : resources'[r].containedIn \in 0..Len(resources')

Chained(e) ==
  /\ \A r \in ResourceIds :
       resources'[r].prev = IF r = e.from THEN NextEvent ELSE resources[r].prev
  /\ Len(resources') = NextResource =>
       resources'[NextResource].prev = NextEvent /\ NextResource \in {e.from, e.to}

Counted(e) ==
  /\ \A r \in ResourceIds :
       /\ resources'[r].accounting = resources[r].accounting + AccountingEffect(e, r)
       /\ resources'[r].onhand = resources[r].onhand + OnhandEffect(e, r)
  /\ Len(resources') = NextResource =>
       /\ resources'[NextResource].accounting = AccountingEffect(e, NextResource)
       /\ resources'[NextResource].onhand = OnhandEffect(e, NextResource)

Posts(e) == Appends(e) /\ Placed(e) /\ Chained(e) /\ Counted(e)

\* Packing posts nothing.
Packs ==
  /\ UNCHANGED events
  /\ resources' \in Seq(Resource)
  /\ Len(resources') = Len(resources)
  /\ \A r \in ResourceIds :
       /\ resources'[r].containedIn \in 0..Len(resources)
       /\ resources'[r].prev = resources[r].prev
       /\ resources'[r].accounting = resources[r].accounting
       /\ resources'[r].onhand = resources[r].onhand

LEMMA Rows ==
  ASSUME TypeOK
  PROVE  /\ Len(resources) \in Nat /\ Len(events) \in Nat
         /\ \A r \in ResourceIds :
              /\ resources[r] \in Resource
              /\ resources[r].accounting \in Int /\ resources[r].onhand \in Int
              /\ resources[r].prev \in Nat /\ resources[r].containedIn \in Nat
<1>1. /\ Len(resources) \in Nat /\ Len(events) \in Nat
      /\ \A r \in ResourceIds : resources[r] \in Resource
  BY DEF TypeOK, ResourceIds
<1> QED
  BY <1>1 DEF Resource

LEMMA TouchedRow ==
  ASSUME TypeOK, NEW r \in ResourceIds, NEW a \in Int, NEW o \in Int
  PROVE  LET row == Touched(r, a, o)
         IN /\ row \in Resource
            /\ row.prev = NextEvent
            /\ row.accounting = resources[r].accounting + a
            /\ row.onhand = resources[r].onhand + o
            /\ row.containedIn = resources[r].containedIn
<1> DEFINE old == resources[r]
           row == Touched(r, a, o)
<1>1. old \in Resource
  BY Rows
<1>2. NextEvent \in Nat
  BY Rows DEF NextEvent
<1>3. row = [old EXCEPT !.accounting = @ + a, !.onhand = @ + o, !.prev = NextEvent]
  BY DEF Touched
<1> HIDE DEF old, row
<1>4. /\ row \in Resource
      /\ row.prev = NextEvent
      /\ row.accounting = old.accounting + a
      /\ row.onhand = old.onhand + o
      /\ row.containedIn = old.containedIn
  <2>1. old.accounting + a \in Int /\ old.onhand + o \in Int
    BY <1>1 DEF Resource
  <2>2. row \in Resource
    BY <1>1, <1>2, <1>3, <2>1 DEF Resource
  <2>3. row.accounting = old.accounting + a /\ row.onhand = old.onhand + o
    BY <1>1, <1>3 DEF Resource
  <2>4. row.prev = NextEvent /\ row.containedIn = old.containedIn
    BY <1>1, <1>3 DEF Resource
  <2> QED
    BY <2>2, <2>3, <2>4
<1> QED
  BY <1>4 DEF old, row

LEMMA RecordPosts ==
  ASSUME TypeOK, NEW e \in Event, Record(e, Before(e)), Placed(e), Chained(e), Counted(e)
  PROVE  \E f : Posts(f)
<1> DEFINE f == [e EXCEPT !.prev = Before(e)]
<1>1. Before(e) \in Nat
  BY Rows DEF Before, Null
<1>2. /\ f \in Event /\ f.prev = Before(e) /\ f.from = e.from /\ f.to = e.to
      /\ f.action = e.action /\ f.quantity = e.quantity
  BY <1>1 DEF Event
<1>3. events' = Append(events, f)
  BY DEF Record
<1> HIDE DEF f
<1>4. Before(f) = Before(e)
  BY <1>2 DEF Before
<1>5. \A r : /\ AccountingEffect(f, r) = AccountingEffect(e, r)
             /\ OnhandEffect(f, r) = OnhandEffect(e, r)
  BY <1>2 DEF AccountingEffect, OnhandEffect, Into, Through
<1>6. Appends(f)
  BY <1>2, <1>3, <1>4 DEF Appends
<1>7. Placed(f) /\ Chained(f)
  BY <1>2 DEF Placed, Chained
<1>8. Counted(f)
  BY <1>5 DEF Counted
<1> QED
  BY <1>6, <1>7, <1>8 DEF Posts

\* An event has no effect on a resource it does not mention.
LEMMA NoEffect ==
  ASSUME NEW e, NEW r, e.from # r, e.to # r
  PROVE  AccountingEffect(e, r) = 0 /\ OnhandEffect(e, r) = 0
<1>1. Into(e, r) = 0 /\ Through(e, r) = 0
  BY DEF Into, Through
<1> QED
  BY <1>1 DEF AccountingEffect, OnhandEffect

\* An event that touches the row of the resource it goes through and no other
\* row posts.
LEMMA OneRowPosts ==
  ASSUME TypeOK,
         NEW e \in Request, e.from # Null, e.to = Null,
         NEW row \in Resource, row.prev = NextEvent,
         row.containedIn = resources[e.from].containedIn,
         row.accounting = resources[e.from].accounting + AccountingEffect(e, e.from),
         row.onhand = resources[e.from].onhand + OnhandEffect(e, e.from),
         Record(e, resources[e.from].prev),
         resources' = [resources EXCEPT ![e.from] = row]
  PROVE  \E f : Posts(f)
<1>1. e.from \in ResourceIds /\ e \in Event
  BY DEF Request
<1>2. /\ resources' \in Seq(Resource) /\ Len(resources') = Len(resources)
      /\ \A r \in ResourceIds : resources'[r] = IF r = e.from THEN row ELSE resources[r]
  BY <1>1 DEF TypeOK, ResourceIds
<1>3. Len(resources') # NextResource
  <2>1. Len(resources) # Len(resources) + 1
    BY Rows
  <2> QED
    BY <1>2, <2>1 DEF NextResource
<1>4. Placed(e)
  BY <1>1, <1>2 DEF Placed, TypeOK, ResourceIds, Null
<1>5. Chained(e)
  BY <1>2, <1>3 DEF Chained
<1>6. \A r \in ResourceIds : r # e.from => AccountingEffect(e, r) = 0 /\ OnhandEffect(e, r) = 0
  BY NoEffect DEF Null, ResourceIds
<1>7. Counted(e)
  <2>1. \A r \in ResourceIds :
          /\ resources'[r].accounting = resources[r].accounting + AccountingEffect(e, r)
          /\ resources'[r].onhand = resources[r].onhand + OnhandEffect(e, r)
    BY <1>2, <1>6, Rows
  <2> QED
    BY <1>3, <2>1 DEF Counted
<1> QED
  BY <1>1, <1>4, <1>5, <1>7, RecordPosts DEF Before

\* An event that touches no row posts when it mentions none.
LEMMA RecordOnlyPosts ==
  ASSUME TypeOK, NEW e \in Request, e.to = Null, RecordOnly(e)
  PROVE  \E f : Posts(f)
<1>1. e \in Event /\ e.from = Null /\ e.to = Null /\ UNCHANGED resources
  BY DEF Request, RecordOnly
<1>2. Len(resources') # NextResource
  <2>1. Len(resources) # Len(resources) + 1
    BY Rows
  <2> QED
    BY <1>1, <2>1 DEF NextResource
<1>3. Placed(e)
  BY <1>1, Rows DEF Placed, TypeOK, ResourceIds, Null
<1>4. Chained(e)
  BY <1>1, <1>2 DEF Chained, ResourceIds, Null
<1>5. \A r \in ResourceIds : AccountingEffect(e, r) = 0 /\ OnhandEffect(e, r) = 0
  BY <1>1, NoEffect DEF Null, ResourceIds
<1>6. Counted(e)
  BY <1>1, <1>2, <1>5, Rows DEF Counted
<1>7. Record(e, Before(e))
  BY <1>1 DEF RecordOnly, Before, ResourceIds, Null
<1> QED
  BY <1>1, <1>3, <1>4, <1>6, <1>7, RecordPosts

-----------------------------------------------------------------------------
(* Every action posts, or packs.                                            *)

\* A change of both quantities by a and o of the resource e goes through.
LEMMA TouchPosts ==
  ASSUME TypeOK, NEW e \in Request, e.from # Null, e.to = Null,
         NEW a \in Int, NEW o \in Int,
         a = AccountingEffect(e, e.from), o = OnhandEffect(e, e.from),
         Record(e, resources[e.from].prev),
         resources' = [resources EXCEPT ![e.from] = Touched(e.from, a, o)]
  PROVE  \E f : Posts(f)
<1> DEFINE row == Touched(e.from, a, o)
<1>1. e.from \in ResourceIds
  BY DEF Request
<1>2. /\ row \in Resource
      /\ row.prev = NextEvent
      /\ row.accounting = resources[e.from].accounting + a
      /\ row.onhand = resources[e.from].onhand + o
      /\ row.containedIn = resources[e.from].containedIn
  BY <1>1, TouchedRow
<1>3. resources' = [resources EXCEPT ![e.from] = row]
  OBVIOUS
<1> HIDE DEF row
<1> QED
  BY <1>2, <1>3, OneRowPosts

\* The effects of an event on the resource it goes through.
LEMMA ThroughEffects ==
  ASSUME NEW e \in Request, e.from # Null, e.to = Null
  PROVE  /\ e.quantity \in Int /\ -e.quantity \in Int /\ 0 \in Int
         /\ e.action \in {"raise", "produce"} =>
              /\ AccountingEffect(e, e.from) = e.quantity
              /\ OnhandEffect(e, e.from) = e.quantity
         /\ e.action \in {"lower", "consume"} =>
              /\ AccountingEffect(e, e.from) = -e.quantity
              /\ OnhandEffect(e, e.from) = -e.quantity
         /\ e.action \in {"use", "cite", "pickup", "dropoff"} =>
              AccountingEffect(e, e.from) = 0 /\ OnhandEffect(e, e.from) = 0
         /\ e.action = "accept" =>
              AccountingEffect(e, e.from) = 0 /\ OnhandEffect(e, e.from) = -e.quantity
         /\ e.action = "modify" =>
              AccountingEffect(e, e.from) = 0 /\ OnhandEffect(e, e.from) = e.quantity
<1>1. e.quantity \in Nat
  BY DEF Request, Event
<1>2. Into(e, e.from) = 0 /\ Through(e, e.from) = e.quantity
  BY DEF Into, Through
<1>3. 0 - e.quantity = -e.quantity
  BY <1>1
<1> QED
  BY <1>1, <1>2, <1>3 DEF AccountingEffect, OnhandEffect

LEMMA RaisePosts ==
  ASSUME TypeOK, NEW e \in RaiseInputs, RaiseInto(e)
  PROVE  \E f : Posts(f)
<1>1. /\ e \in Request /\ e.action \in {"raise", "produce"}
      /\ e.to = Null /\ e.from # Null
  BY InputsAreRequests DEF TypeOK, RaiseInto
<1> QED
  BY <1>1, TouchPosts, ThroughEffects DEF RaiseInto

LEMMA LowerPosts ==
  ASSUME TypeOK, NEW e \in LowerInputs, Lower(e)
  PROVE  \E f : Posts(f)
<1>1. e \in Request /\ e.action \in {"lower", "consume"} /\ e.to = Null /\ e.from # Null
  BY InputsAreRequests DEF TypeOK
<1> QED
  BY <1>1, TouchPosts, ThroughEffects DEF Lower

LEMMA UseAndCitePost ==
  ASSUME TypeOK, NEW e,
         \/ e \in UseInputs /\ UseResource(e)
         \/ e \in CiteInputs /\ CiteResource(e)
  PROVE  \E f : Posts(f)
<1>1. e \in Request /\ e.action \in {"use", "cite"} /\ e.to = Null /\ e.from # Null
  BY InputsAreRequests DEF TypeOK, UseResource, CiteResource
<1> QED
  BY <1>1, TouchPosts, ThroughEffects DEF UseResource, CiteResource

LEMMA PickupPosts ==
  ASSUME TypeOK, NEW e \in PickupInputs, Pickup(e)
  PROVE  \E f : Posts(f)
<1>1. e \in Request /\ e.action = "pickup" /\ e.to = Null /\ e.from # Null
  BY InputsAreRequests DEF TypeOK
<1> QED
  BY <1>1, TouchPosts, ThroughEffects DEF Pickup

LEMMA AcceptPosts ==
  ASSUME TypeOK, NEW e \in AcceptInputs, Accept(e)
  PROVE  \E f : Posts(f)
<1>1. e \in Request /\ e.action = "accept" /\ e.to = Null /\ e.from # Null
  BY InputsAreRequests DEF TypeOK
<1> QED
  BY <1>1, TouchPosts, ThroughEffects DEF Accept

LEMMA ModifyPosts ==
  ASSUME TypeOK, NEW e \in ModifyInputs, Modify(e)
  PROVE  \E f : Posts(f)
<1> DEFINE touched == Touched(e.from, 0, e.quantity)
           row == Staged(touched, e.outputOf)
<1>1. e \in Request /\ e.action = "modify" /\ e.to = Null /\ e.from # Null
  BY InputsAreRequests DEF TypeOK
<1>2. e.from \in ResourceIds /\ e.outputOf \in Processes
  BY <1>1 DEF Request, ModifyInputs, Sent
<1>3. /\ touched \in Resource
      /\ touched.prev = NextEvent
      /\ touched.accounting = resources[e.from].accounting + 0
      /\ touched.onhand = resources[e.from].onhand + e.quantity
      /\ touched.containedIn = resources[e.from].containedIn
  BY <1>1, <1>2, TouchedRow, ThroughEffects
<1>4. /\ Record(e, resources[e.from].prev)
      /\ resources' = [resources EXCEPT ![e.from] = row]
  BY DEF Modify
<1> HIDE DEF touched
<1>5. /\ row \in Resource
      /\ row.prev = touched.prev /\ row.containedIn = touched.containedIn
      /\ row.accounting = touched.accounting /\ row.onhand = touched.onhand
  BY <1>2, <1>3, BasedOnAssumption DEF Staged, Resource
<1> HIDE DEF row
<1> QED
  BY <1>1, <1>3, <1>4, <1>5, OneRowPosts, ThroughEffects

LEMMA CreatedRow ==
  ASSUME TypeOK, NEW e \in Event, e.unit \in Units, NEW spec \in Specs, NEW a \in Int, NEW o \in Int
  PROVE  LET row == Created(e, spec, a, o)
         IN /\ row \in Resource
            /\ row.prev = NextEvent
            /\ row.accounting = a
            /\ row.onhand = o
            /\ row.containedIn = Null
<1>1. NextEvent \in Nat
  BY Rows DEF NextEvent
<1> QED
  BY <1>1 DEF Created, Resource, Event, Null

LEMMA RaiseNewPosts ==
  ASSUME TypeOK, NEW e \in RaiseInputs, RaiseNew(e)
  PROVE  \E f : Posts(f)
<1> DEFINE g == [e EXCEPT !.from = NextResource]
           row == Created(e, e.spec, e.quantity, e.quantity)
<1>1. /\ e \in Request /\ e.action \in {"raise", "produce"} /\ e.to = Null /\ e.unit \in Units
      /\ e.spec \in Specs /\ e.quantity \in Nat /\ e.prev = Null
  BY InputsAreRequests DEF TypeOK, Request, Event, RaiseNew
<1>2. NextResource \in Nat /\ NextResource \notin ResourceIds /\ NextResource # Null
  BY Rows DEF NextResource, ResourceIds, Null
<1>3. /\ g \in Event /\ g.from = NextResource /\ g.to = Null /\ g.prev = Null
      /\ g.action = e.action /\ g.quantity = e.quantity
  BY <1>1, <1>2 DEF Request, Event
<1>4. row \in Resource /\ row.prev = NextEvent /\ row.containedIn = Null
      /\ row.accounting = e.quantity /\ row.onhand = e.quantity
  BY <1>1, CreatedRow DEF Request
<1>5. Record(g, Null) /\ resources' = Append(resources, row)
  BY DEF RaiseNew
<1> HIDE DEF g, row
<1>6. /\ resources' \in Seq(Resource) /\ Len(resources') = NextResource
      /\ \A r \in ResourceIds : resources'[r] = resources[r]
      /\ resources'[NextResource] = row
  BY <1>4, <1>5, AppendIsSequence DEF TypeOK, NextResource, ResourceIds
<1>7. Before(g) = Null
  BY <1>2, <1>3 DEF Before
<1>8. Placed(g)
  <2>1. \A r \in 1..NextResource : r \in ResourceIds \/ r = NextResource
    BY Rows DEF NextResource, ResourceIds
  <2>2. \A r \in ResourceIds : resources[r].containedIn \in 0..NextResource
    BY Rows DEF TypeOK, ResourceIds, NextResource, Null
  <2> QED
    BY <1>2, <1>3, <1>4, <1>6, <2>1, <2>2 DEF Placed, Null
<1>9. Chained(g)
  BY <1>2, <1>3, <1>4, <1>6 DEF Chained
<1>10. /\ \A r \in ResourceIds : AccountingEffect(g, r) = 0 /\ OnhandEffect(g, r) = 0
       /\ AccountingEffect(g, NextResource) = e.quantity
       /\ OnhandEffect(g, NextResource) = e.quantity
  <2>1. \A r \in ResourceIds : r # NextResource /\ r # Null
    BY <1>2 DEF ResourceIds, Null
  <2>2. Through(g, NextResource) = e.quantity
    BY <1>3 DEF Through
  <2> QED
    BY <1>1, <1>3, <2>1, <2>2, NoEffect DEF AccountingEffect, OnhandEffect
<1>11. Counted(g)
  BY <1>4, <1>6, <1>10, Rows DEF Counted
<1> QED
  BY <1>3, <1>5, <1>7, <1>8, <1>9, <1>11, RecordPosts

\* An event that rewrites the rows there are posts when it changes what it
\* should.
LEMMA SameRowsPost ==
  ASSUME TypeOK, NEW e \in Request, Record(e, Before(e)),
         NEW row, resources' = [r \in ResourceIds |-> row[r]],
         \A r \in ResourceIds :
           /\ row[r] \in Resource
           /\ row[r].prev = IF r = e.from THEN NextEvent ELSE resources[r].prev
           /\ row[r].containedIn = resources[r].containedIn
           /\ row[r].accounting = resources[r].accounting + AccountingEffect(e, r)
           /\ row[r].onhand = resources[r].onhand + OnhandEffect(e, r)
  PROVE  \E f : Posts(f)
<1>1. e \in Event
  BY DEF Request
<1>2. /\ resources' \in Seq(Resource) /\ Len(resources') = Len(resources)
      /\ \A r \in ResourceIds : resources'[r] = row[r]
  BY Rows, FunctionIsSequence DEF ResourceIds
<1>3. Len(resources') # NextResource
  <2>1. Len(resources) # Len(resources) + 1
    BY Rows
  <2> QED
    BY <1>2, <2>1 DEF NextResource
<1>4. Placed(e)
  <2>1. e.from \in 0..Len(resources) /\ e.to \in 0..Len(resources)
    BY Rows DEF Request, ResourceIds, Null
  <2>2. \A r \in ResourceIds : resources[r].containedIn \in 0..Len(resources)
    BY Rows DEF TypeOK, ResourceIds, Null
  <2> QED
    BY <1>2, <2>1, <2>2 DEF Placed, ResourceIds
<1>5. Chained(e)
  BY <1>2, <1>3 DEF Chained
<1>6. Counted(e)
  BY <1>2, <1>3 DEF Counted
<1> QED
  BY <1>1, <1>4, <1>5, <1>6, RecordPosts

LEMMA DropoffPosts ==
  ASSUME TypeOK, NEW e \in DropoffInputs, Dropoff(e)
  PROVE  \E f : Posts(f)
<1> DEFINE touched(r) == IF r = e.from THEN Touched(r, 0, 0) ELSE resources[r]
           row == [r \in ResourceIds |->
                     IF Relocates(e, r) THEN [touched(r) EXCEPT !.location = e.location]
                     ELSE touched(r)]
<1>1. e \in Request /\ e.action = "dropoff" /\ e.to = Null /\ e.from # Null
  BY InputsAreRequests DEF TypeOK
<1>2. e.from \in ResourceIds /\ e.location \in Locations \cup {Nil}
  BY <1>1 DEF Request, Event
<1>3. \A r \in ResourceIds :
        /\ touched(r) \in Resource
        /\ touched(r).prev = IF r = e.from THEN NextEvent ELSE resources[r].prev
        /\ touched(r).containedIn = resources[r].containedIn
        /\ touched(r).accounting = resources[r].accounting
        /\ touched(r).onhand = resources[r].onhand
  BY TouchedRow, Rows
<1>4. Record(e, resources[e.from].prev) /\ resources' = row
  BY DEF Dropoff
<1> HIDE DEF touched
<1>5. \A r \in ResourceIds :
        /\ row[r] \in Resource
        /\ row[r].prev = touched(r).prev /\ row[r].containedIn = touched(r).containedIn
        /\ row[r].accounting = touched(r).accounting /\ row[r].onhand = touched(r).onhand
  BY <1>2, <1>3 DEF Resource
<1>6. \A r \in ResourceIds : AccountingEffect(e, r) = 0 /\ OnhandEffect(e, r) = 0
  BY <1>1, NoEffect, ThroughEffects DEF Null, ResourceIds
<1>7. resources' = [r \in ResourceIds |-> row[r]]
  BY <1>4
<1> HIDE DEF row
<1>8. \A r \in ResourceIds :
        /\ row[r] \in Resource
        /\ row[r].prev = IF r = e.from THEN NextEvent ELSE resources[r].prev
        /\ row[r].containedIn = resources[r].containedIn
        /\ row[r].accounting = resources[r].accounting + AccountingEffect(e, r)
        /\ row[r].onhand = resources[r].onhand + OnhandEffect(e, r)
  BY <1>3, <1>5, <1>6, Rows
<1>9. Record(e, Before(e))
  BY <1>2, <1>4 DEF Before
<1> QED
  BY <1>1, <1>7, <1>8, <1>9, SameRowsPost

TransferActions == {"transferCustody", "transferAllRights", "transfer", "move"}

\* What a transfer adds to one resource and takes from the other.
LEMMA TransferEffects ==
  ASSUME NEW e \in Event, e.action \in TransferActions, NEW r
  PROVE  /\ AccountingMoved(e) \in Nat /\ OnhandMoved(e) \in Nat
         /\ AccountingEffect(e, r) = (IF r = e.to THEN AccountingMoved(e) ELSE 0)
                                       - (IF r = e.from THEN AccountingMoved(e) ELSE 0)
         /\ OnhandEffect(e, r) = (IF r = e.to THEN OnhandMoved(e) ELSE 0)
                                   - (IF r = e.from THEN OnhandMoved(e) ELSE 0)
<1>1. e.quantity \in Nat
  BY DEF Event
<1>2. AccountingMoved(e) \in Nat /\ OnhandMoved(e) \in Nat
  BY <1>1 DEF AccountingMoved, OnhandMoved
<1>3. /\ AccountingEffect(e, r) = IF e.action = "transferCustody" THEN 0
                                  ELSE Into(e, r) - Through(e, r)
      /\ OnhandEffect(e, r) = IF e.action = "transferAllRights" THEN 0
                              ELSE Into(e, r) - Through(e, r)
  BY DEF TransferActions, AccountingEffect, OnhandEffect
<1> QED
  BY <1>1, <1>2, <1>3 DEF Into, Through, AccountingMoved, OnhandMoved,
     MovesAccounting, MovesOnhand

LEMMA IntoExistingPosts ==
  ASSUME TypeOK, NEW e \in Request, e.action \in TransferActions, e.from # Null,
         IntoExisting(e)
  PROVE  \E f : Posts(f)
<1> DEFINE a == AccountingMoved(e)
           o == OnhandMoved(e)
           source(r) == IF r = e.from
                        THEN [Touched(r, -a, -o) EXCEPT
                                !.accountable = IF MovesAccounting(e) THEN e.receiver ELSE @,
                                !.custodian = IF MovesOnhand(e) THEN e.receiver ELSE @]
                        ELSE resources[r]
           row == [r \in ResourceIds |->
                     IF r = e.to
                     THEN [source(r) EXCEPT !.accounting = @ + a, !.onhand = @ + o]
                     ELSE source(r)]
<1>1. e.from \in ResourceIds /\ e \in Event /\ e.receiver \in Agents
  BY DEF Request, Event
<1>2. /\ a \in Nat /\ o \in Nat /\ -a \in Int /\ -o \in Int
      /\ \A r \in ResourceIds :
           /\ AccountingEffect(e, r) = (IF r = e.to THEN a ELSE 0) - (IF r = e.from THEN a ELSE 0)
           /\ OnhandEffect(e, r) = (IF r = e.to THEN o ELSE 0) - (IF r = e.from THEN o ELSE 0)
  BY <1>1, TransferEffects
<1>3. Record(e, resources[e.from].prev) /\ resources' = row
  BY DEF IntoExisting
<1> HIDE DEF a, o
<1>4. LET t == Touched(e.from, -a, -o)
      IN /\ t \in Resource /\ t.prev = NextEvent
         /\ t.containedIn = resources[e.from].containedIn
         /\ t.accounting = resources[e.from].accounting + (-a)
         /\ t.onhand = resources[e.from].onhand + (-o)
  BY <1>1, <1>2, TouchedRow
<1>5. \A r \in ResourceIds :
        /\ source(r) \in Resource
        /\ source(r).prev = IF r = e.from THEN NextEvent ELSE resources[r].prev
        /\ source(r).containedIn = resources[r].containedIn
        /\ source(r).accounting = resources[r].accounting - (IF r = e.from THEN a ELSE 0)
        /\ source(r).onhand = resources[r].onhand - (IF r = e.from THEN o ELSE 0)
  <2>1. /\ source(e.from) \in Resource /\ source(e.from).prev = NextEvent
        /\ source(e.from).containedIn = resources[e.from].containedIn
        /\ source(e.from).accounting = resources[e.from].accounting - a
        /\ source(e.from).onhand = resources[e.from].onhand - o
    <3> DEFINE t == Touched(e.from, -a, -o)
               s == source(e.from)
    <3>1. s = [t EXCEPT !.accountable = IF MovesAccounting(e) THEN e.receiver ELSE @,
                        !.custodian = IF MovesOnhand(e) THEN e.receiver ELSE @]
      OBVIOUS
    <3>2. /\ t \in Resource /\ t.prev = NextEvent
          /\ t.containedIn = resources[e.from].containedIn
          /\ t.accounting = resources[e.from].accounting + (-a)
          /\ t.onhand = resources[e.from].onhand + (-o)
      BY <1>4
    <3> HIDE DEF t, s
    <3>3. /\ s \in Resource /\ s.prev = t.prev /\ s.containedIn = t.containedIn
          /\ s.accounting = t.accounting /\ s.onhand = t.onhand
      BY <1>1, <3>1, <3>2 DEF Resource
    <3>4. /\ s \in Resource /\ s.prev = NextEvent
          /\ s.containedIn = resources[e.from].containedIn
          /\ s.accounting = resources[e.from].accounting - a
          /\ s.onhand = resources[e.from].onhand - o
      BY <1>1, <1>2, <3>2, <3>3, Rows
    <3> QED
      BY <3>4 DEF s
  <2>2. \A r \in ResourceIds : r # e.from => source(r) = resources[r]
    OBVIOUS
  <2> HIDE DEF source
  <2> SUFFICES ASSUME NEW r \in ResourceIds
               PROVE  /\ source(r) \in Resource
                      /\ source(r).prev = IF r = e.from THEN NextEvent ELSE resources[r].prev
                      /\ source(r).containedIn = resources[r].containedIn
                      /\ source(r).accounting
                           = resources[r].accounting - (IF r = e.from THEN a ELSE 0)
                      /\ source(r).onhand = resources[r].onhand - (IF r = e.from THEN o ELSE 0)
    OBVIOUS
  <2>3. CASE r = e.from
    BY <2>1, <2>3
  <2>4. CASE r # e.from
    BY <2>2, <2>4, Rows
  <2> QED
    BY <2>3, <2>4
<1> HIDE DEF source
<1>6. \A r \in ResourceIds :
        /\ row[r] \in Resource
        /\ row[r].prev = source(r).prev /\ row[r].containedIn = source(r).containedIn
        /\ row[r].accounting = source(r).accounting + (IF r = e.to THEN a ELSE 0)
        /\ row[r].onhand = source(r).onhand + (IF r = e.to THEN o ELSE 0)
  <2> SUFFICES ASSUME NEW r \in ResourceIds
               PROVE  /\ row[r] \in Resource
                      /\ row[r].prev = source(r).prev
                      /\ row[r].containedIn = source(r).containedIn
                      /\ row[r].accounting = source(r).accounting + (IF r = e.to THEN a ELSE 0)
                      /\ row[r].onhand = source(r).onhand + (IF r = e.to THEN o ELSE 0)
    OBVIOUS
  <2> DEFINE s == source(r)
  <2>1. s \in Resource /\ s.accounting \in Int /\ s.onhand \in Int
    BY <1>5 DEF Resource
  <2>2. CASE r = e.to
    <3>1. row[r] = [s EXCEPT !.accounting = @ + a, !.onhand = @ + o]
      BY <2>2
    <3> HIDE DEF row, s
    <3>2. s.accounting + a \in Int /\ s.onhand + o \in Int
      BY <1>2, <2>1
    <3>3. /\ row[r] \in Resource /\ row[r].prev = s.prev
          /\ row[r].containedIn = s.containedIn
      BY <2>1, <3>1, <3>2 DEF Resource
    <3>4. row[r].accounting = s.accounting + a /\ row[r].onhand = s.onhand + o
      BY <2>1, <3>1 DEF Resource
    <3> QED
      BY <2>2, <3>3, <3>4 DEF s
  <2>3. CASE r # e.to
    <3>1. row[r] = s
      BY <2>3
    <3> HIDE DEF row
    <3> QED
      BY <2>1, <2>3, <3>1
  <2> QED
    BY <2>2, <2>3
<1>7. resources' = [r \in ResourceIds |-> row[r]]
  BY <1>3
<1> HIDE DEF row
<1>8. \A r \in ResourceIds :
        /\ row[r] \in Resource
        /\ row[r].prev = IF r = e.from THEN NextEvent ELSE resources[r].prev
        /\ row[r].containedIn = resources[r].containedIn
        /\ row[r].accounting = resources[r].accounting + AccountingEffect(e, r)
        /\ row[r].onhand = resources[r].onhand + OnhandEffect(e, r)
  <2> SUFFICES ASSUME NEW r \in ResourceIds
               PROVE  /\ row[r].accounting = resources[r].accounting + AccountingEffect(e, r)
                      /\ row[r].onhand = resources[r].onhand + OnhandEffect(e, r)
    BY <1>5, <1>6
  <2>1. resources[r].accounting \in Int /\ resources[r].onhand \in Int
    BY Rows
  <2>2. CASE r = e.from
    BY <1>2, <1>5, <1>6, <2>1, <2>2
  <2>3. CASE r # e.from
    BY <1>2, <1>5, <1>6, <2>1, <2>3
  <2> QED
    BY <2>2, <2>3
<1>9. Record(e, Before(e))
  BY <1>1, <1>3 DEF Before
<1> QED
  BY <1>7, <1>8, <1>9, SameRowsPost

LEMMA IntoNewPosts ==
  ASSUME TypeOK, NEW e \in Request, e.action \in TransferActions, e.from # Null,
         e.unit \in Units, IntoNew(e)
  PROVE  \E f : Posts(f)
<1> DEFINE a == AccountingMoved(e)
           o == OnhandMoved(e)
           g == [e EXCEPT !.to = NextResource]
           source(r) == IF r = e.from THEN Touched(r, -a, -o) ELSE resources[r]
           row == [r \in ResourceIds |->
                     IF resources[r].containedIn = e.from THEN Repacked(e, source(r))
                     ELSE source(r)]
           new == Created(e, resources[e.from].spec, a, o)
<1>1. e.from \in ResourceIds /\ e \in Event /\ e.receiver \in Agents /\ e.prev = Null
  BY DEF Request, Event
<1>2. NextResource \in Nat /\ NextResource \notin ResourceIds /\ NextResource # Null
  BY Rows DEF NextResource, ResourceIds, Null
<1>3. /\ g \in Event /\ g.from = e.from /\ g.to = NextResource
      /\ g.action = e.action /\ g.quantity = e.quantity
  BY <1>1, <1>2 DEF Event
<1>4. Record(g, resources[e.from].prev) /\ resources' = Append(row, new)
  BY DEF IntoNew
<1> HIDE DEF g
<1>5. /\ a \in Nat /\ o \in Nat /\ -a \in Int /\ -o \in Int
      /\ AccountingMoved(g) = a /\ OnhandMoved(g) = o
  BY <1>1, <1>3, TransferEffects DEF AccountingMoved, OnhandMoved, MovesAccounting, MovesOnhand
<1> HIDE DEF a, o
<1>6. /\ AccountingEffect(g, NextResource) = a /\ OnhandEffect(g, NextResource) = o
      /\ \A r \in ResourceIds :
           /\ AccountingEffect(g, r) = 0 - (IF r = e.from THEN a ELSE 0)
           /\ OnhandEffect(g, r) = 0 - (IF r = e.from THEN o ELSE 0)
  <2>1. g.action \in TransferActions
    BY <1>3
  <2>2. \A r : /\ AccountingEffect(g, r) = (IF r = g.to THEN a ELSE 0) - (IF r = g.from THEN a ELSE 0)
               /\ OnhandEffect(g, r) = (IF r = g.to THEN o ELSE 0) - (IF r = g.from THEN o ELSE 0)
    BY <1>3, <1>5, <2>1, TransferEffects
  <2> QED
    BY <1>1, <1>2, <1>3, <1>5, <2>2
<1>7. /\ new \in Resource /\ new.prev = NextEvent /\ new.containedIn = Null
      /\ new.accounting = a /\ new.onhand = o
  <2>1. resources[e.from].spec \in Specs
    BY <1>1, Rows DEF Resource
  <2> QED
    BY <1>1, <1>5, <2>1, CreatedRow
<1>8. \A r \in ResourceIds :
        /\ source(r) \in Resource
        /\ source(r).prev = IF r = e.from THEN NextEvent ELSE resources[r].prev
        /\ source(r).containedIn = resources[r].containedIn
        /\ source(r).accounting = resources[r].accounting + AccountingEffect(g, r)
        /\ source(r).onhand = resources[r].onhand + OnhandEffect(g, r)
  <2> SUFFICES ASSUME NEW r \in ResourceIds
               PROVE  /\ source(r) \in Resource
                      /\ source(r).prev = IF r = e.from THEN NextEvent ELSE resources[r].prev
                      /\ source(r).containedIn = resources[r].containedIn
                      /\ source(r).accounting = resources[r].accounting + AccountingEffect(g, r)
                      /\ source(r).onhand = resources[r].onhand + OnhandEffect(g, r)
    OBVIOUS
  <2>1. resources[r].accounting \in Int /\ resources[r].onhand \in Int
    BY Rows
  <2>2. CASE r = e.from
    <3>1. /\ source(r) \in Resource /\ source(r).prev = NextEvent
          /\ source(r).containedIn = resources[r].containedIn
          /\ source(r).accounting = resources[r].accounting + (-a)
          /\ source(r).onhand = resources[r].onhand + (-o)
      BY <1>5, <2>2, TouchedRow
    <3> HIDE DEF source
    <3> QED
      BY <1>5, <1>6, <2>1, <2>2, <3>1
  <2>3. CASE r # e.from
    <3>1. source(r) = resources[r]
      BY <2>3
    <3> HIDE DEF source
    <3> QED
      BY <1>6, <2>1, <2>3, <3>1, Rows
  <2> QED
    BY <2>2, <2>3
<1> HIDE DEF source, new
<1>9. \A r \in ResourceIds :
        /\ row[r] \in Resource
        /\ row[r].prev = source(r).prev
        /\ row[r].containedIn \in {source(r).containedIn, NextResource}
        /\ row[r].accounting = source(r).accounting
        /\ row[r].onhand = source(r).onhand
  <2> SUFFICES ASSUME NEW r \in ResourceIds
               PROVE  /\ row[r] \in Resource
                      /\ row[r].prev = source(r).prev
                      /\ row[r].containedIn \in {source(r).containedIn, NextResource}
                      /\ row[r].accounting = source(r).accounting
                      /\ row[r].onhand = source(r).onhand
    OBVIOUS
  <2>1. row[r] \in {source(r), Repacked(e, source(r))}
    OBVIOUS
  <2> HIDE DEF row
  <2> QED
    BY <1>1, <1>2, <1>8, <2>1 DEF Repacked, Resource
<1>10. row \in [1..Len(resources) -> Resource]
  BY <1>9 DEF ResourceIds
<1>11. row = [r \in ResourceIds |-> row[r]]
  OBVIOUS
<1> HIDE DEF row
<1>12. /\ resources' \in Seq(Resource) /\ Len(resources') = NextResource
       /\ \A r \in ResourceIds : resources'[r] = row[r]
       /\ resources'[NextResource] = new
  <2>1. row \in Seq(Resource) /\ Len(row) = Len(resources)
    BY <1>10, Rows, FunctionIsSequence
  <2> QED
    BY <1>4, <1>7, <2>1, AppendIsSequence DEF NextResource, ResourceIds
<1>13. Placed(g)
  <2>1. \A r \in 1..NextResource : r \in ResourceIds \/ r = NextResource
    BY Rows DEF NextResource, ResourceIds
  <2>2. \A r \in ResourceIds : resources[r].containedIn \in 0..NextResource /\ r \in 0..NextResource
    BY Rows DEF TypeOK, ResourceIds, NextResource, Null
  <2>3. \A r \in ResourceIds : row[r].containedIn \in 0..NextResource
    BY <1>2, <1>8, <1>9, <2>2
  <2> QED
    BY <1>1, <1>2, <1>3, <1>7, <1>12, <2>1, <2>2, <2>3 DEF Placed, Null
<1>14. Chained(g)
  BY <1>3, <1>7, <1>8, <1>9, <1>12 DEF Chained
<1>15. Counted(g)
  BY <1>6, <1>7, <1>8, <1>9, <1>12 DEF Counted
<1>16. Record(g, Before(g))
  BY <1>1, <1>3, <1>4 DEF Before
<1> QED
  BY <1>3, <1>13, <1>14, <1>15, <1>16, RecordPosts

LEMMA PackPacks ==
  ASSUME TypeOK, NEW c \in ResourceIds, NEW k \in ResourceIds \cup {Null}, PackResource(c, k)
  PROVE  Packs
<1> DEFINE row == [resources[c] EXCEPT !.containedIn = k]
<1>1. resources' = [resources EXCEPT ![c] = row] /\ UNCHANGED events
  BY DEF PackResource
<1>2. k \in 0..Len(resources) /\ k \in Nat
  BY Rows DEF ResourceIds, Null
<1>3. /\ row \in Resource /\ row.containedIn = k /\ row.prev = resources[c].prev
      /\ row.accounting = resources[c].accounting /\ row.onhand = resources[c].onhand
  <2> DEFINE old == resources[c]
  <2>1. old \in Resource
    BY Rows
  <2> HIDE DEF old
  <2>2. row = [old EXCEPT !.containedIn = k]
    BY DEF old
  <2> HIDE DEF row
  <2>3. /\ row \in Resource /\ row.containedIn = k /\ row.prev = old.prev
        /\ row.accounting = old.accounting /\ row.onhand = old.onhand
    BY <1>2, <2>1, <2>2 DEF Resource
  <2> QED
    BY <2>3 DEF old
<1> HIDE DEF row
<1>4. /\ resources' \in Seq(Resource) /\ Len(resources') = Len(resources)
      /\ \A r \in ResourceIds : resources'[r] = IF r = c THEN row ELSE resources[r]
  BY <1>1, <1>3 DEF TypeOK, ResourceIds
<1>5. \A r \in ResourceIds : resources[r].containedIn \in 0..Len(resources)
  BY Rows DEF TypeOK, ResourceIds, Null
<1> QED
  BY <1>1, <1>2, <1>3, <1>4, <1>5 DEF Packs

LEMMA TransfersPost ==
  ASSUME TypeOK, NEW e,
         \/ e \in TransferInputs("transferCustody") /\ TransferCustody(e)
         \/ e \in TransferAllRightsInputs /\ TransferAllRights(e)
         \/ e \in TransferInputs("transfer") /\ Transfer(e)
         \/ e \in MoveInputs /\ Move(e)
  PROVE  \E f : Posts(f)
<1>1. e \in Request /\ e.action \in TransferActions /\ e.from # Null /\ e.unit \in Units
  BY TransferInputsAreRequests DEF TypeOK, TransferActions
<1>2. IntoExisting(e) \/ IntoNew(e)
  BY DEF TransferCustody, TransferAllRights, Transfer, Move
<1> QED
  BY <1>1, <1>2, IntoExistingPosts, IntoNewPosts

\* A step of the ledger posts one event, or packs or unpacks one resource.
LEMMA NextPosts ==
  ASSUME TypeOK, Next
  PROVE  Packs \/ \E f : Posts(f)
<1>0. resources \in Seq(Resource)
  BY DEF TypeOK
<1>1. CASE \E e \in RaiseInputs : RaiseNew(e) \/ RaiseInto(e)
  BY <1>1, RaiseNewPosts, RaisePosts
<1>2. CASE \E e \in LowerInputs : Lower(e)
  BY <1>2, LowerPosts
<1>3. CASE \E e \in WorkInputs \cup DeliverServiceInputs : RecordOnly(e)
  BY <1>0, <1>3, InputsAreRequests, RecordOnlyPosts
<1>4. CASE \E e \in UseInputs : RecordOnly(e) \/ UseResource(e)
  BY <1>0, <1>4, InputsAreRequests, RecordOnlyPosts, UseAndCitePost
<1>5. CASE \E e \in CiteInputs : RecordOnly(e) \/ CiteResource(e)
  BY <1>0, <1>5, InputsAreRequests, RecordOnlyPosts, UseAndCitePost
<1>6. CASE \E e \in PickupInputs : Pickup(e)
  BY <1>6, PickupPosts
<1>7. CASE \E e \in DropoffInputs : Dropoff(e)
  BY <1>7, DropoffPosts
<1>8. CASE \E e \in AcceptInputs : Accept(e)
  BY <1>8, AcceptPosts
<1>9. CASE \E e \in ModifyInputs : Modify(e)
  BY <1>9, ModifyPosts
<1>10. CASE \/ \E e \in TransferInputs("transferCustody") : TransferCustody(e)
            \/ \E e \in TransferAllRightsInputs : TransferAllRights(e)
            \/ \E e \in TransferInputs("transfer") : Transfer(e)
            \/ \E e \in MoveInputs : Move(e)
  BY <1>10, TransfersPost
<1>11. CASE \E c \in ResourceIds, k \in ResourceIds \cup {Null} : PackResource(c, k)
  BY <1>11, PackPacks
<1> QED
  BY <1>1, <1>2, <1>3, <1>4, <1>5, <1>6, <1>7, <1>8, <1>9, <1>10, <1>11 DEF Next, CreateEvent

-----------------------------------------------------------------------------
(* Types *)

\* A posted event and the rows it leaves are well typed.
LEMMA PostsKeepsTypes ==
  ASSUME TypeOK, NEW e, Posts(e)
  PROVE  TypeOK'
<1>1. /\ events' \in Seq(Event) /\ Len(events') = NextEvent
      /\ \A i \in EventIds : events'[i] = events[i]
      /\ events'[NextEvent] = e
  BY AppendIsSequence DEF TypeOK, Posts, Appends, NextEvent, EventIds
<1>2. /\ resources' \in Seq(Resource) /\ Len(resources') \in {Len(resources), NextResource}
      /\ \A r \in 1..Len(resources') :
           r \in ResourceIds \/ (Len(resources') = NextResource /\ r = NextResource)
  BY Rows DEF Posts, Placed, NextResource, ResourceIds
<1>3. \A r \in 1..Len(resources') : resources'[r].prev \in 1..NextEvent
  <2>1. \A r \in ResourceIds : resources'[r].prev \in 1..NextEvent
    BY Rows DEF TypeOK, Posts, Chained, EventIds, NextEvent
  <2>2. Len(resources') = NextResource => resources'[NextResource].prev \in 1..NextEvent
    BY Rows DEF Posts, Chained, NextEvent
  <2> QED
    BY <1>2, <2>1, <2>2
<1>4. \A i \in 1..NextEvent : i \in EventIds \/ i = NextEvent
  BY Rows DEF NextEvent, EventIds
<1>5. e.prev \in 0..Len(events)
  BY Rows DEF Posts, Appends, Before, TypeOK, EventIds, Null
<1>6. \A i \in 1..NextEvent : /\ events'[i].prev \in 0..(i - 1)
                              /\ events'[i].from \in 0..Len(resources')
                              /\ events'[i].to \in 0..Len(resources')
  <2>1. \A i \in EventIds : /\ events[i].prev \in 0..(i - 1)
                            /\ events[i].from \in 0..Len(resources')
                            /\ events[i].to \in 0..Len(resources')
    BY <1>2, Rows DEF TypeOK, ResourceIds, NextResource, Null
  <2>2. e.from \in 0..Len(resources') /\ e.to \in 0..Len(resources')
    BY DEF Posts, Placed
  <2>3. NextEvent - 1 = Len(events)
    BY Rows DEF NextEvent
  <2> QED
    BY <1>1, <1>4, <1>5, <2>1, <2>2, <2>3
<1>7. \A r \in 1..Len(resources') : resources'[r].containedIn \in 0..Len(resources')
  BY DEF Posts, Placed
<1> QED
  BY <1>1, <1>2, <1>3, <1>6, <1>7 DEF TypeOK, ResourceIds, EventIds, Null

LEMMA PacksKeepsTypes ==
  ASSUME TypeOK, Packs
  PROVE  TypeOK'
BY DEF TypeOK, Packs, ResourceIds, EventIds, Null

\* Every row keeps the types of its columns and refers to rows that exist,
\* whatever the requests (handle_insert and the foreign keys).
THEOREM TypeCorrect == Spec => []TypeOK
<1>1. Init => TypeOK
  BY DEF Init, TypeOK, ResourceIds, EventIds
<1>2. TypeOK /\ [Next]_vars => TypeOK'
  <2>1. CASE Next
    BY <2>1, NextPosts, PostsKeepsTypes, PacksKeepsTypes
  <2>2. CASE UNCHANGED vars
    BY <2>2 DEF vars, TypeOK, ResourceIds, EventIds
  <2> QED
    BY <2>1, <2>2
<1> QED
  BY <1>1, <1>2, PTL DEF Spec

-----------------------------------------------------------------------------
(* The other columns, and the checks *)

Raises == {"raise", "produce"}
Lowers == {"lower", "consume"}

-----------------------------------------------------------------------------
(* Columns *)

\* f makes a resource out of another one, whose contents it takes along.
Repacks(f) == f.action \in TransferActions /\ f.to = NextResource

\* f hands resource r over to its receiver.
Hands(f, r) ==
  /\ f.action \in TransferActions
  /\ IF f.to = NextResource THEN resources[r].containedIn = f.from ELSE r = f.from

\* The rows there are.
OldRows(f) ==
  \A r \in ResourceIds :
    /\ resources'[r].spec = resources[r].spec
    /\ resources'[r].unit = resources[r].unit
    /\ resources'[r].stage =
         IF f.action = "modify" /\ r = f.from THEN BasedOn[f.outputOf] ELSE resources[r].stage
    /\ resources'[r].location =
         IF f.action = "dropoff" /\ Relocates(f, r) THEN f.location ELSE resources[r].location
    /\ resources'[r].containedIn =
         IF Repacks(f) /\ resources[r].containedIn = f.from THEN NextResource
         ELSE resources[r].containedIn
    /\ resources'[r].accountable =
         IF Hands(f, r) /\ MovesAccounting(f) THEN f.receiver ELSE resources[r].accountable
    /\ resources'[r].custodian =
         IF Hands(f, r) /\ MovesOnhand(f) THEN f.receiver ELSE resources[r].custodian

\* The row that f makes, if it makes one.
NewRow(f) ==
  /\ Len(resources') = IF NextResource \in {f.from, f.to} THEN NextResource ELSE Len(resources)
  /\ NextResource \in {f.from, f.to} =>
       /\ resources'[NextResource].unit = f.unit
       /\ resources'[NextResource].accountable = f.receiver
       /\ resources'[NextResource].custodian = f.receiver
       /\ resources'[NextResource].containedIn = Null
       /\ resources'[NextResource].location = f.location
       /\ resources'[NextResource].stage = Nil
  /\ NextResource = f.to => resources'[NextResource].spec = resources[f.from].spec

-----------------------------------------------------------------------------
(* Checks *)

\* Which events create, and which refer to two resources.
ShapeChecks(f) ==
  /\ f.from \in ResourceIds \cup {Null, NextResource}
  /\ f.from = NextResource => f.action \in Raises
  /\ f.to # Null => f.action \in TransferActions
  /\ f.action \in Lowers \cup {"pickup", "dropoff", "accept", "modify"} => f.from \in ResourceIds

RaiseChecks(f) == f.action \in Raises /\ f.from \in ResourceIds => Loose(f.from)

LowerChecks(f) ==
  f.action \in Lowers => Accountable(f.provider, f.from) /\ Custodian(f.provider, f.from)

\* pickup and accept
OpeningChecks(f) ==
  /\ f.action \in {"pickup", "accept"} => InputEvents(f.action, f, f.inputOf) = {}
  /\ f.action = "accept" =>
       /\ Custodian(f.provider, f.from)
       /\ f.quantity = resources[f.from].onhand
       /\ f.quantity > 0

\* dropoff and modify
AnswerChecks(f) ==
  f.action \in {"dropoff", "modify"} =>
    /\ OutputEvents(f.action, f, f.outputOf) = {}
    /\ \E i \in EventIds :
         /\ InputEvents(Opening(f.action), f, f.outputOf) = {i}
         /\ f.provider = events[i].provider
         /\ f.unit = events[i].unit
         /\ f.action = "modify" => f.quantity = events[i].quantity

TransferChecks(f) ==
  f.action \in TransferActions =>
    /\ f.from \in ResourceIds /\ f.to \in ResourceIds \cup {NextResource}
    /\ f.quantity > 0
    /\ MovesAccounting(f) => Accountable(f.provider, f.from)
    /\ MovesOnhand(f) => Custodian(f.provider, f.from)
    /\ f.action = "move" => SameAgent(f)
    /\ ~Contained(f.from)
    /\ f.unit = resources[f.from].unit
    /\ Container(f.from) =>
         /\ MovesAccounting(f) => f.quantity = resources[f.from].accounting
         /\ MovesOnhand(f) => f.quantity = resources[f.from].onhand
    /\ f.to \in ResourceIds /\ f.to # f.from =>
         /\ ~Container(f.from)
         /\ Loose(f.to)
         /\ resources[f.to].unit = resources[f.from].unit
         /\ resources[f.to].spec = resources[f.from].spec

Checked(f) ==
  /\ ShapeChecks(f) /\ RaiseChecks(f) /\ LowerChecks(f)
  /\ OpeningChecks(f) /\ AnswerChecks(f) /\ TransferChecks(f)

\* A step that books event f.
Books(f) == events' = Append(events, f) /\ OldRows(f) /\ NewRow(f) /\ Checked(f)

-----------------------------------------------------------------------------
(* Recording *)

\* f is e but for the previous event.
SameRequest(f, e) ==
  /\ f.action = e.action /\ f.provider = e.provider /\ f.receiver = e.receiver
  /\ f.inputOf = e.inputOf /\ f.outputOf = e.outputOf
  /\ f.from = e.from /\ f.to = e.to /\ f.quantity = e.quantity /\ f.unit = e.unit
  /\ f.location = e.location

LEMMA SameRequestBooks ==
  ASSUME NEW e, NEW f, SameRequest(f, e), OldRows(e), NewRow(e), Checked(e)
  PROVE  OldRows(f) /\ NewRow(f) /\ Checked(f)
<1> USE DEF SameRequest
<1>1. /\ Repacks(f) <=> Repacks(e)
      /\ MovesAccounting(f) <=> MovesAccounting(e)
      /\ MovesOnhand(f) <=> MovesOnhand(e)
      /\ SameAgent(f) <=> SameAgent(e)
      /\ \A r : (Hands(f, r) <=> Hands(e, r)) /\ (Relocates(f, r) <=> Relocates(e, r))
      /\ \A act, p : /\ InputEvents(act, f, p) = InputEvents(act, e, p)
                     /\ OutputEvents(act, f, p) = OutputEvents(act, e, p)
  BY DEF Repacks, Hands, Relocates, MovesAccounting, MovesOnhand, SameAgent,
     InputEvents, OutputEvents
<1>2. OldRows(f)
  BY <1>1 DEF OldRows
<1>3. NewRow(f)
  BY DEF NewRow
<1>4. ShapeChecks(f) /\ RaiseChecks(f) /\ LowerChecks(f)
  BY DEF Checked, ShapeChecks, RaiseChecks, LowerChecks
<1>5. OpeningChecks(f) /\ AnswerChecks(f)
  BY <1>1 DEF Checked, OpeningChecks, AnswerChecks
<1>6. TransferChecks(f)
  BY <1>1 DEF Checked, TransferChecks
<1> QED
  BY <1>2, <1>3, <1>4, <1>5, <1>6 DEF Checked

LEMMA RecordBooks ==
  ASSUME NEW e \in Event, NEW x, Record(e, x), OldRows(e), NewRow(e), Checked(e)
  PROVE  \E f : Books(f)
<1> DEFINE f == [e EXCEPT !.prev = x]
<1>1. SameRequest(f, e)
  BY DEF SameRequest, Event
<1>2. events' = Append(events, f)
  BY DEF Record
<1> HIDE DEF f
<1> QED
  BY <1>1, <1>2, SameRequestBooks DEF Books

-----------------------------------------------------------------------------
(* Events that write one row *)

SameColumns(new, old) ==
  /\ new.spec = old.spec /\ new.unit = old.unit
  /\ new.accountable = old.accountable /\ new.custodian = old.custodian
  /\ new.containedIn = old.containedIn /\ new.location = old.location
  /\ new.stage = old.stage

LEMMA TouchedColumns ==
  ASSUME TypeOK, NEW r \in ResourceIds, NEW a \in Int, NEW o \in Int
  PROVE  Touched(r, a, o) \in Resource /\ SameColumns(Touched(r, a, o), resources[r])
<1> DEFINE old == resources[r]
           row == Touched(r, a, o)
<1>1. old \in Resource
  BY Rows
<1>2. row \in Resource
  BY TouchedRow
<1>3. row = [old EXCEPT !.accounting = @ + a, !.onhand = @ + o, !.prev = NextEvent]
  BY DEF Touched
<1> HIDE DEF old, row
<1>4. SameColumns(row, old)
  BY <1>1, <1>3 DEF SameColumns, Resource
<1> QED
  BY <1>2, <1>4 DEF old, row

\* An event that leaves the columns of all rows alone.
LEMMA NoColumnsBook ==
  ASSUME TypeOK, NEW e \in Request,
         e.action \notin TransferActions \cup {"modify", "dropoff"},
         Len(resources') = Len(resources),
         \A r \in ResourceIds : SameColumns(resources'[r], resources[r])
  PROVE  OldRows(e) /\ NewRow(e)
<1>1. NextResource \notin ResourceIds \cup {Null}
  BY Rows DEF NextResource, ResourceIds, Null
<1>2. NewRow(e)
  BY <1>1 DEF NewRow, Request
<1>3. OldRows(e)
  BY DEF OldRows, SameColumns, Hands, Repacks
<1> QED
  BY <1>2, <1>3

LEMMA TouchBooks ==
  ASSUME TypeOK, NEW e \in Request, e.from # Null,
         e.action \notin TransferActions \cup {"modify", "dropoff"},
         NEW a \in Int, NEW o \in Int,
         Record(e, resources[e.from].prev),
         resources' = [resources EXCEPT ![e.from] = Touched(e.from, a, o)],
         Checked(e)
  PROVE  \E f : Books(f)
<1> DEFINE row == Touched(e.from, a, o)
<1>1. e.from \in ResourceIds /\ e \in Event
  BY DEF Request
<1>2. row \in Resource /\ SameColumns(row, resources[e.from])
  BY <1>1, TouchedColumns
<1>3. resources' = [resources EXCEPT ![e.from] = row]
  OBVIOUS
<1> HIDE DEF row
<1>4. /\ Len(resources') = Len(resources)
      /\ \A r \in ResourceIds : resources'[r] = IF r = e.from THEN row ELSE resources[r]
  BY <1>1, <1>2, <1>3 DEF TypeOK, ResourceIds
<1>5. \A r \in ResourceIds : SameColumns(resources'[r], resources[r])
  BY <1>2, <1>4 DEF SameColumns
<1>6. OldRows(e) /\ NewRow(e)
  BY <1>4, <1>5, NoColumnsBook
<1> QED
  BY <1>1, <1>6, RecordBooks

\* No action is in two of the families.
LEMMA Families ==
  /\ Raises \cap TransferActions = {} /\ Lowers \cap TransferActions = {}
  /\ Raises \cap Lowers = {}
  /\ \A act \in {"use", "cite", "work", "deliverService", "pickup", "dropoff", "accept", "modify"} :
       act \notin Raises \cup Lowers \cup TransferActions
  /\ \A act \in Raises \cup Lowers \cup TransferActions :
       act \notin {"use", "cite", "work", "deliverService", "pickup", "dropoff", "accept", "modify"}
BY DEF Raises, Lowers, TransferActions

\* Quantities sent are positive.
LEMMA SentQuantities ==
  /\ \A e \in AcceptInputs : e.quantity > 0
  /\ \A act : \A e \in TransferInputs(act) : e.quantity > 0
  /\ \A e \in TransferAllRightsInputs : e.quantity > 0
<1>1. ASSUME NEW acts, NEW froms, NEW tos, NEW specs, NEW inputs, NEW outputs, NEW locs,
             NEW e \in Sent(acts, froms, tos, specs, inputs, outputs, locs)
      PROVE  e.quantity > 0
  <2>1. e.quantity \in Quantities
    BY DEF Sent
  <2>2. \A q \in Quantities : q > 0
    BY QuantitiesAssumption
  <2> QED
    BY <2>1, <2>2
<1> QED
  BY <1>1 DEF AcceptInputs, TransferInputs, TransferAllRightsInputs

LEMMA RaiseBooks ==
  ASSUME TypeOK, NEW e \in RaiseInputs, RaiseInto(e)
  PROVE  \E f : Books(f)
<1>1. /\ e \in Request /\ e.action \in Raises
      /\ e.to = Null /\ e.from # Null /\ e.quantity \in Int
  BY InputsAreRequests DEF TypeOK, RaiseInto, Raises, Request, Event
<1>2. e.from \in ResourceIds
  BY <1>1 DEF Request
<1>3. Checked(e)
  BY <1>1, <1>2, Families, Rows DEF RaiseInto, Checked, ShapeChecks, RaiseChecks, LowerChecks,
     OpeningChecks, AnswerChecks, TransferChecks, ResourceIds, NextResource
<1> QED
  BY <1>1, <1>3, TouchBooks, Families DEF RaiseInto

LEMMA LowerBooks ==
  ASSUME TypeOK, NEW e \in LowerInputs, Lower(e)
  PROVE  \E f : Books(f)
<1>1. /\ e \in Request /\ e.action \in Lowers
      /\ e.to = Null /\ e.from # Null /\ -e.quantity \in Int
  BY InputsAreRequests DEF TypeOK, Lowers, Request, Event
<1>2. e.from \in ResourceIds
  BY <1>1 DEF Request
<1>3. Checked(e)
  BY <1>1, <1>2, Families, Rows DEF Lower, Checked, ShapeChecks, RaiseChecks, LowerChecks,
     OpeningChecks, AnswerChecks, TransferChecks, ResourceIds, NextResource
<1> QED
  BY <1>1, <1>3, TouchBooks, Families DEF Lower

LEMMA UseAndCiteBook ==
  ASSUME TypeOK, NEW e,
         \/ e \in UseInputs /\ UseResource(e)
         \/ e \in CiteInputs /\ CiteResource(e)
  PROVE  \E f : Books(f)
<1>1. e \in Request /\ e.action \in {"use", "cite"} /\ e.to = Null /\ e.from # Null
  BY InputsAreRequests DEF TypeOK, UseResource, CiteResource
<1>2. e.from \in ResourceIds
  BY <1>1 DEF Request
<1>3. Checked(e)
  BY <1>1, <1>2, Families, Rows DEF Checked, ShapeChecks, RaiseChecks, LowerChecks,
     OpeningChecks, AnswerChecks, TransferChecks, ResourceIds, NextResource
<1> QED
  BY <1>1, <1>3, TouchBooks, Families DEF UseResource, CiteResource

LEMMA OpeningsBook ==
  ASSUME TypeOK, NEW e,
         \/ e \in PickupInputs /\ Pickup(e)
         \/ e \in AcceptInputs /\ Accept(e)
  PROVE  \E f : Books(f)
<1>1. /\ e \in Request /\ e.action \in {"pickup", "accept"} /\ e.to = Null /\ e.from # Null
      /\ -e.quantity \in Int /\ 0 \in Int
  BY InputsAreRequests DEF TypeOK, Request, Event
<1>2. e.from \in ResourceIds
  BY <1>1 DEF Request
<1>3. OpeningChecks(e)
  BY <1>1, SentQuantities, InputsAreRequests DEF TypeOK, Pickup, Accept, OpeningChecks
<1>4. Checked(e)
  BY <1>1, <1>2, <1>3, Families, Rows DEF Checked, ShapeChecks, RaiseChecks, LowerChecks,
     AnswerChecks, TransferChecks, ResourceIds, NextResource
<1> QED
  BY <1>1, <1>4, TouchBooks, Families DEF Pickup, Accept

LEMMA RecordOnlyBooks ==
  ASSUME TypeOK, NEW e \in Request, e.to = Null,
         e.action \in {"use", "cite", "work", "deliverService"}, RecordOnly(e)
  PROVE  \E f : Books(f)
<1>1. e \in Event /\ e.from = Null /\ UNCHANGED resources
  BY DEF Request, RecordOnly
<1>2. OldRows(e) /\ NewRow(e)
  BY <1>1, NoColumnsBook, Families DEF SameColumns
<1>3. Checked(e)
  BY <1>1, Families, Rows DEF Checked, ShapeChecks, RaiseChecks, LowerChecks,
     OpeningChecks, AnswerChecks, TransferChecks, ResourceIds, NextResource, Null
<1> QED
  BY <1>1, <1>2, <1>3, RecordBooks DEF RecordOnly

LEMMA ModifyBooks ==
  ASSUME TypeOK, NEW e \in ModifyInputs, Modify(e)
  PROVE  \E f : Books(f)
<1> DEFINE touched == Touched(e.from, 0, e.quantity)
           row == Staged(touched, e.outputOf)
<1>1. e \in Request /\ e \in Event /\ e.action = "modify" /\ e.to = Null /\ e.from # Null
  BY InputsAreRequests DEF TypeOK, Request
<1>2. e.from \in ResourceIds /\ e.outputOf \in Processes /\ e.quantity \in Int
  BY <1>1 DEF Request, Event, ModifyInputs, Sent
<1>3. touched \in Resource /\ SameColumns(touched, resources[e.from])
  BY <1>2, TouchedColumns
<1>4. /\ Record(e, resources[e.from].prev)
      /\ resources' = [resources EXCEPT ![e.from] = row]
  BY DEF Modify
<1> HIDE DEF touched
<1>5. /\ row \in Resource /\ row.stage = BasedOn[e.outputOf]
      /\ row.spec = touched.spec /\ row.unit = touched.unit
      /\ row.accountable = touched.accountable /\ row.custodian = touched.custodian
      /\ row.containedIn = touched.containedIn /\ row.location = touched.location
  BY <1>2, <1>3, BasedOnAssumption DEF Staged, Resource
<1> HIDE DEF row
<1>6. /\ Len(resources') = Len(resources)
      /\ \A r \in ResourceIds : resources'[r] = IF r = e.from THEN row ELSE resources[r]
  BY <1>2, <1>4, <1>5 DEF TypeOK, ResourceIds
<1>7. NextResource \notin ResourceIds \cup {Null}
  BY Rows DEF NextResource, ResourceIds, Null
<1>8. NewRow(e)
  BY <1>1, <1>2, <1>6, <1>7 DEF NewRow
<1>9. OldRows(e)
  BY <1>1, <1>3, <1>5, <1>6, Families DEF OldRows, SameColumns, Hands, Repacks
<1>10. AnswerChecks(e)
  BY <1>1 DEF Modify, AnswerChecks, Opening
<1>11. Checked(e)
  BY <1>1, <1>2, <1>7, <1>10, Families DEF Checked, ShapeChecks, RaiseChecks, LowerChecks,
     OpeningChecks, TransferChecks
<1> QED
  BY <1>1, <1>4, <1>8, <1>9, <1>11, RecordBooks

LEMMA DropoffBooks ==
  ASSUME TypeOK, NEW e \in DropoffInputs, Dropoff(e)
  PROVE  \E f : Books(f)
<1> DEFINE touched(r) == IF r = e.from THEN Touched(r, 0, 0) ELSE resources[r]
           row == [r \in ResourceIds |->
                     IF Relocates(e, r) THEN [touched(r) EXCEPT !.location = e.location]
                     ELSE touched(r)]
<1>1. e \in Request /\ e \in Event /\ e.action = "dropoff" /\ e.to = Null /\ e.from # Null
  BY InputsAreRequests DEF TypeOK, Request
<1>2. e.from \in ResourceIds /\ e.location \in Locations \cup {Nil}
  BY <1>1 DEF Request, Event
<1>3. \A r \in ResourceIds : touched(r) \in Resource /\ SameColumns(touched(r), resources[r])
  BY TouchedColumns, Rows DEF SameColumns
<1>4. Record(e, resources[e.from].prev) /\ resources' = row
  BY DEF Dropoff
<1> HIDE DEF touched
<1>5. \A r \in ResourceIds :
        /\ row[r].location = IF Relocates(e, r) THEN e.location ELSE touched(r).location
        /\ row[r].spec = touched(r).spec /\ row[r].unit = touched(r).unit
        /\ row[r].accountable = touched(r).accountable /\ row[r].custodian = touched(r).custodian
        /\ row[r].containedIn = touched(r).containedIn /\ row[r].stage = touched(r).stage
  BY <1>2, <1>3 DEF Resource
<1>6. Len(resources') = Len(resources)
  <2>1. row \in [1..Len(resources) -> Resource]
    BY <1>2, <1>3 DEF Resource, ResourceIds
  <2> HIDE DEF row
  <2> QED
    BY <1>4, <2>1, Rows, FunctionIsSequence
<1>7. NextResource \notin ResourceIds \cup {Null}
  BY Rows DEF NextResource, ResourceIds, Null
<1> HIDE DEF row
<1>8. NewRow(e)
  BY <1>1, <1>2, <1>6, <1>7 DEF NewRow
<1>9. OldRows(e)
  BY <1>1, <1>3, <1>4, <1>5, Families DEF OldRows, SameColumns, Hands, Repacks
<1>10. AnswerChecks(e)
  BY <1>1 DEF Dropoff, AnswerChecks, Opening
<1>11. Checked(e)
  BY <1>1, <1>2, <1>7, <1>10, Families DEF Checked, ShapeChecks, RaiseChecks, LowerChecks,
     OpeningChecks, TransferChecks
<1> QED
  BY <1>1, <1>4, <1>8, <1>9, <1>11, RecordBooks

-----------------------------------------------------------------------------
(* Events that make a row *)

LEMMA CreatedColumns ==
  ASSUME TypeOK, NEW e \in Event, e.unit \in Units, NEW spec \in Specs, NEW a \in Int, NEW o \in Int
  PROVE  LET row == Created(e, spec, a, o)
         IN /\ row \in Resource
            /\ row.spec = spec /\ row.unit = e.unit
            /\ row.accountable = e.receiver /\ row.custodian = e.receiver
            /\ row.containedIn = Null /\ row.location = e.location /\ row.stage = Nil
<1>1. Created(e, spec, a, o) \in Resource
  BY CreatedRow
<1> QED
  BY <1>1 DEF Created

LEMMA RaiseNewBooks ==
  ASSUME TypeOK, NEW e \in RaiseInputs, RaiseNew(e)
  PROVE  \E f : Books(f)
<1> DEFINE g == [e EXCEPT !.from = NextResource]
           row == Created(e, e.spec, e.quantity, e.quantity)
<1>1. /\ e \in Event /\ e.action \in Raises /\ e.to = Null /\ e.unit \in Units
      /\ e.spec \in Specs /\ e.quantity \in Int
  BY InputsAreRequests DEF TypeOK, Request, Event, RaiseNew, Raises
<1>2. NextResource \in Nat /\ NextResource \notin ResourceIds /\ NextResource # Null
  BY Rows DEF NextResource, ResourceIds, Null
<1>3. /\ g \in Event /\ g.from = NextResource /\ g.to = Null
      /\ g.action = e.action /\ g.unit = e.unit /\ g.receiver = e.receiver
      /\ g.location = e.location
  BY <1>1, <1>2 DEF Event
<1>4. /\ row \in Resource /\ row.unit = e.unit
      /\ row.accountable = e.receiver /\ row.custodian = e.receiver
      /\ row.containedIn = Null /\ row.location = e.location /\ row.stage = Nil
  BY <1>1, CreatedColumns
<1>5. Record(g, Null) /\ resources' = Append(resources, row)
  BY DEF RaiseNew
<1> HIDE DEF g, row
<1>6. /\ Len(resources') = NextResource
      /\ \A r \in ResourceIds : resources'[r] = resources[r]
      /\ resources'[NextResource] = row
  BY <1>4, <1>5, AppendIsSequence DEF TypeOK, NextResource, ResourceIds
<1>7. NewRow(g)
  BY <1>2, <1>3, <1>4, <1>6 DEF NewRow
<1>8. OldRows(g)
  BY <1>1, <1>3, <1>6, Families DEF OldRows, Hands, Repacks
<1>9. Checked(g)
  BY <1>1, <1>2, <1>3, Families DEF Checked, ShapeChecks, RaiseChecks, LowerChecks,
     OpeningChecks, AnswerChecks, TransferChecks
<1> QED
  BY <1>3, <1>5, <1>7, <1>8, <1>9, RecordBooks

\* What a transfer checks of holders, source and target.
TransferAllowed(e) ==
  /\ e \in Request /\ e \in Event
  /\ e.action \in TransferActions /\ e.from \in ResourceIds /\ e.unit \in Units
  /\ e.quantity > 0
  /\ MovesAccounting(e) => Accountable(e.provider, e.from)
  /\ MovesOnhand(e) => Custodian(e.provider, e.from)
  /\ e.action = "move" => SameAgent(e)
  /\ SourceChecks(e) /\ TargetChecks(e)

LEMMA TransfersAllowed ==
  ASSUME TypeOK, NEW e,
         \/ e \in TransferInputs("transferCustody") /\ TransferCustody(e)
         \/ e \in TransferAllRightsInputs /\ TransferAllRights(e)
         \/ e \in TransferInputs("transfer") /\ Transfer(e)
         \/ e \in MoveInputs /\ Move(e)
  PROVE  TransferAllowed(e) /\ (IntoExisting(e) \/ IntoNew(e))
<1>1. e \in Request /\ e.action \in TransferActions /\ e.from # Null /\ e.unit \in Units
  BY TransferInputsAreRequests DEF TypeOK, TransferActions
<1>2. e.quantity > 0
  BY SentQuantities, TransferInputsAreRequests DEF TypeOK
<1>3. e \in Event /\ e.from \in ResourceIds
  BY <1>1 DEF Request
<1>4. /\ SourceChecks(e) /\ TargetChecks(e)
      /\ IntoExisting(e) \/ IntoNew(e)
  BY DEF TransferCustody, TransferAllRights, Transfer, Move
<1>5. /\ MovesAccounting(e) => Accountable(e.provider, e.from)
      /\ MovesOnhand(e) => Custodian(e.provider, e.from)
  BY TransferInputsAreRequests DEF TypeOK, TransferCustody, TransferAllRights, Transfer, Move,
     MovesAccounting, MovesOnhand
<1>6. e.action = "move" => SameAgent(e)
  BY TransferInputsAreRequests DEF TypeOK, MoveInputs
<1> QED
  BY <1>1, <1>2, <1>3, <1>4, <1>5, <1>6 DEF TransferAllowed

\* The row that the quantities leave, before they enter another.
Source(e, r, a, o) ==
  [Touched(r, a, o) EXCEPT !.accountable = IF MovesAccounting(e) THEN e.receiver ELSE @,
                           !.custodian = IF MovesOnhand(e) THEN e.receiver ELSE @]

LEMMA SourceColumns ==
  ASSUME TypeOK, NEW e \in Event, NEW r \in ResourceIds, NEW a \in Int, NEW o \in Int
  PROVE  LET row == Source(e, r, a, o)
             old == resources[r]
         IN /\ row \in Resource
            /\ row.spec = old.spec /\ row.unit = old.unit
            /\ row.accountable = IF MovesAccounting(e) THEN e.receiver ELSE old.accountable
            /\ row.custodian = IF MovesOnhand(e) THEN e.receiver ELSE old.custodian
            /\ row.containedIn = old.containedIn /\ row.location = old.location
            /\ row.stage = old.stage
<1> DEFINE t == Touched(r, a, o)
           row == Source(e, r, a, o)
<1>1. t \in Resource /\ SameColumns(t, resources[r])
  BY TouchedColumns
<1>2. e.receiver \in Agents
  BY DEF Event
<1>3. row = [t EXCEPT !.accountable = IF MovesAccounting(e) THEN e.receiver ELSE @,
                      !.custodian = IF MovesOnhand(e) THEN e.receiver ELSE @]
  BY DEF Source
<1> HIDE DEF t, row
<1>4. /\ row \in Resource
      /\ row.spec = t.spec /\ row.unit = t.unit
      /\ row.accountable = IF MovesAccounting(e) THEN e.receiver ELSE t.accountable
      /\ row.custodian = IF MovesOnhand(e) THEN e.receiver ELSE t.custodian
      /\ row.containedIn = t.containedIn /\ row.location = t.location
      /\ row.stage = t.stage
  BY <1>1, <1>2, <1>3 DEF Resource
<1> QED
  BY <1>1, <1>4 DEF SameColumns, t, row

LEMMA IntoExistingBooks ==
  ASSUME TypeOK, NEW e, TransferAllowed(e), IntoExisting(e)
  PROVE  \E f : Books(f)
<1> DEFINE a == AccountingMoved(e)
           o == OnhandMoved(e)
           source(r) == IF r = e.from
                        THEN [Touched(r, -a, -o) EXCEPT
                                !.accountable = IF MovesAccounting(e) THEN e.receiver ELSE @,
                                !.custodian = IF MovesOnhand(e) THEN e.receiver ELSE @]
                        ELSE resources[r]
           row == [r \in ResourceIds |->
                     IF r = e.to
                     THEN [source(r) EXCEPT !.accounting = @ + a, !.onhand = @ + o]
                     ELSE source(r)]
<1>1. /\ e \in Event /\ e.action \in TransferActions
      /\ e.from \in ResourceIds /\ e.to \in ResourceIds
      /\ MovesAccounting(e) \in BOOLEAN /\ MovesOnhand(e) \in BOOLEAN
  BY DEF TransferAllowed, Request, IntoExisting, MovesAccounting, MovesOnhand
<1>2. a \in Nat /\ o \in Nat /\ -a \in Int /\ -o \in Int
  BY <1>1, TransferEffects
<1>3. Record(e, resources[e.from].prev) /\ resources' = row
  BY DEF IntoExisting
<1> HIDE DEF a, o
<1> DEFINE moved == source(e.from)
<1>31. moved = Source(e, e.from, -a, -o)
  BY DEF Source
<1>32. /\ moved \in Resource
       /\ moved.spec = resources[e.from].spec /\ moved.unit = resources[e.from].unit
       /\ moved.accountable =
            IF MovesAccounting(e) THEN e.receiver ELSE resources[e.from].accountable
       /\ moved.custodian = IF MovesOnhand(e) THEN e.receiver ELSE resources[e.from].custodian
       /\ moved.containedIn = resources[e.from].containedIn
       /\ moved.location = resources[e.from].location /\ moved.stage = resources[e.from].stage
  <2> HIDE DEF source, moved
  <2> QED
    BY <1>1, <1>2, <1>31, SourceColumns
<1>4. \A r \in ResourceIds :
        /\ source(r) \in Resource
        /\ source(r).spec = resources[r].spec /\ source(r).unit = resources[r].unit
        /\ source(r).accountable =
             IF r = e.from /\ MovesAccounting(e) THEN e.receiver ELSE resources[r].accountable
        /\ source(r).custodian =
             IF r = e.from /\ MovesOnhand(e) THEN e.receiver ELSE resources[r].custodian
        /\ source(r).containedIn = resources[r].containedIn
        /\ source(r).location = resources[r].location /\ source(r).stage = resources[r].stage
  <2> SUFFICES ASSUME NEW r \in ResourceIds
               PROVE  /\ source(r) \in Resource
                      /\ source(r).spec = resources[r].spec
                      /\ source(r).unit = resources[r].unit
                      /\ source(r).accountable =
                           IF r = e.from /\ MovesAccounting(e) THEN e.receiver
                           ELSE resources[r].accountable
                      /\ source(r).custodian =
                           IF r = e.from /\ MovesOnhand(e) THEN e.receiver
                           ELSE resources[r].custodian
                      /\ source(r).containedIn = resources[r].containedIn
                      /\ source(r).location = resources[r].location
                      /\ source(r).stage = resources[r].stage
    OBVIOUS
  <2>1. CASE r = e.from
    <3>1. source(r) = moved
      BY <2>1
    <3> HIDE DEF source, moved
    <3> QED
      BY <1>32, <2>1, <3>1
  <2>2. CASE r # e.from
    BY <2>2, Rows
  <2> QED
    BY <2>1, <2>2
<1> HIDE DEF source
<1>5. \A r \in ResourceIds : row[r] \in Resource /\ SameColumns(row[r], source(r))
  <2> SUFFICES ASSUME NEW r \in ResourceIds
               PROVE  row[r] \in Resource /\ SameColumns(row[r], source(r))
    OBVIOUS
  <2> DEFINE s == source(r)
             new == row[r]
  <2>1. s \in Resource /\ s.accounting + a \in Int /\ s.onhand + o \in Int
    BY <1>2, <1>4 DEF Resource
  <2>2. new = s \/ new = [s EXCEPT !.accounting = @ + a, !.onhand = @ + o]
    OBVIOUS
  <2> HIDE DEF s, new
  <2>3. new \in Resource /\ SameColumns(new, s)
    BY <2>1, <2>2 DEF Resource, SameColumns
  <2> QED
    BY <2>3 DEF s, new
<1>6. Len(resources') = Len(resources)
  <2>1. row \in [1..Len(resources) -> Resource]
    BY <1>5 DEF ResourceIds
  <2> HIDE DEF row
  <2> QED
    BY <1>3, <2>1, Rows, FunctionIsSequence
<1>7. NextResource \notin ResourceIds \cup {Null}
  BY Rows DEF NextResource, ResourceIds, Null
<1> HIDE DEF row
<1>8. NewRow(e)
  BY <1>1, <1>6, <1>7 DEF NewRow
<1>9. OldRows(e)
  BY <1>1, <1>3, <1>4, <1>5, <1>7, Families DEF OldRows, SameColumns, Hands, Repacks
<1>10. TransferChecks(e)
  <2>1. Null \notin ResourceIds
    BY DEF Null, ResourceIds
  <2> QED
    BY <1>1, <1>7, <2>1 DEF TransferAllowed, TransferChecks, SourceChecks, TargetChecks, HasTarget
<1>11. Checked(e)
  BY <1>1, <1>7, <1>10, Families DEF Checked, ShapeChecks, RaiseChecks, LowerChecks,
     OpeningChecks, AnswerChecks
<1> QED
  BY <1>1, <1>3, <1>8, <1>9, <1>11, RecordBooks

LEMMA IntoNewBooks ==
  ASSUME TypeOK, NEW e, TransferAllowed(e), IntoNew(e)
  PROVE  \E f : Books(f)
<1> DEFINE a == AccountingMoved(e)
           o == OnhandMoved(e)
           g == [e EXCEPT !.to = NextResource]
           source(r) == IF r = e.from THEN Touched(r, -a, -o) ELSE resources[r]
           row == [r \in ResourceIds |->
                     IF resources[r].containedIn = e.from THEN Repacked(e, source(r))
                     ELSE source(r)]
           new == Created(e, resources[e.from].spec, a, o)
<1>1. /\ e \in Event /\ e.action \in TransferActions /\ e.receiver \in Agents
      /\ e.from \in ResourceIds /\ e.to = Null /\ e.unit \in Units
  BY DEF TransferAllowed, IntoNew, Event
<1>2. NextResource \in Nat /\ NextResource \notin ResourceIds /\ NextResource # Null
  BY Rows DEF NextResource, ResourceIds, Null
<1>3. /\ g \in Event /\ g.to = NextResource
      /\ g.from = e.from /\ g.action = e.action /\ g.quantity = e.quantity
      /\ g.unit = e.unit /\ g.provider = e.provider /\ g.receiver = e.receiver
      /\ g.location = e.location
  BY <1>1, <1>2 DEF Event
<1>4. Record(g, resources[e.from].prev) /\ resources' = Append(row, new)
  BY DEF IntoNew
<1>5. a \in Nat /\ o \in Nat /\ -a \in Int /\ -o \in Int
  BY <1>1, TransferEffects
<1> HIDE DEF g, a, o
<1>6. \A r \in ResourceIds : source(r) \in Resource /\ SameColumns(source(r), resources[r])
  BY <1>5, TouchedColumns, Rows DEF SameColumns
<1>7. resources[e.from].spec \in Specs
  BY <1>1, Rows DEF Resource
<1>8. /\ new \in Resource
      /\ new.spec = resources[e.from].spec /\ new.unit = e.unit
      /\ new.accountable = e.receiver /\ new.custodian = e.receiver
      /\ new.containedIn = Null /\ new.location = e.location /\ new.stage = Nil
  BY <1>1, <1>5, <1>7, CreatedColumns
<1> HIDE DEF source, new
<1>9. \A r \in ResourceIds :
        /\ row[r] \in Resource
        /\ row[r].spec = source(r).spec /\ row[r].unit = source(r).unit
        /\ row[r].location = source(r).location /\ row[r].stage = source(r).stage
        /\ row[r].containedIn =
             IF resources[r].containedIn = e.from THEN NextResource ELSE source(r).containedIn
        /\ row[r].accountable =
             IF resources[r].containedIn = e.from /\ MovesAccounting(e) THEN e.receiver
             ELSE source(r).accountable
        /\ row[r].custodian =
             IF resources[r].containedIn = e.from /\ MovesOnhand(e) THEN e.receiver
             ELSE source(r).custodian
  <2> SUFFICES ASSUME NEW r \in ResourceIds
               PROVE  /\ row[r] \in Resource
                      /\ row[r].spec = source(r).spec /\ row[r].unit = source(r).unit
                      /\ row[r].location = source(r).location /\ row[r].stage = source(r).stage
                      /\ row[r].containedIn =
                           IF resources[r].containedIn = e.from THEN NextResource
                           ELSE source(r).containedIn
                      /\ row[r].accountable =
                           IF resources[r].containedIn = e.from /\ MovesAccounting(e)
                           THEN e.receiver ELSE source(r).accountable
                      /\ row[r].custodian =
                           IF resources[r].containedIn = e.from /\ MovesOnhand(e)
                           THEN e.receiver ELSE source(r).custodian
    OBVIOUS
  <2>1. row[r] = IF resources[r].containedIn = e.from THEN Repacked(e, source(r)) ELSE source(r)
    OBVIOUS
  <2> HIDE DEF row
  <2>2. source(r) \in Resource
    BY <1>6
  <2>3. CASE resources[r].containedIn = e.from
    BY <1>1, <1>2, <2>1, <2>2, <2>3 DEF Repacked, Resource
  <2>4. CASE resources[r].containedIn # e.from
    BY <2>1, <2>2, <2>4
  <2> QED
    BY <2>3, <2>4
<1>10. /\ Len(resources') = NextResource
       /\ \A r \in ResourceIds : resources'[r] = row[r]
       /\ resources'[NextResource] = new
  <2>1. row \in [1..Len(resources) -> Resource]
    BY <1>9 DEF ResourceIds
  <2> HIDE DEF row
  <2>2. row \in Seq(Resource) /\ Len(row) = Len(resources)
    BY <2>1, Rows, FunctionIsSequence
  <2> QED
    BY <1>4, <1>8, <2>2, AppendIsSequence DEF NextResource, ResourceIds
<1> HIDE DEF row
<1>11. /\ Repacks(g) /\ (MovesAccounting(g) <=> MovesAccounting(e))
       /\ (MovesOnhand(g) <=> MovesOnhand(e))
       /\ \A r : Hands(g, r) <=> resources[r].containedIn = e.from
  BY <1>1, <1>3 DEF Repacks, Hands, MovesAccounting, MovesOnhand
<1>12. NewRow(g)
  BY <1>2, <1>3, <1>8, <1>10 DEF NewRow
<1>13. OldRows(g)
  <2>1. g.action # "modify" /\ g.action # "dropoff"
    BY <1>1, <1>3, Families
  <2> QED
    BY <1>3, <1>6, <1>9, <1>10, <1>11, <2>1 DEF OldRows, SameColumns
<1>14. TransferChecks(g)
  BY <1>1, <1>2, <1>3, <1>11
     DEF TransferAllowed, TransferChecks, SourceChecks, SameAgent
<1>15. Checked(g)
  BY <1>1, <1>2, <1>3, <1>14, Families DEF Checked, ShapeChecks, RaiseChecks, LowerChecks,
     OpeningChecks, AnswerChecks
<1> QED
  BY <1>3, <1>4, <1>12, <1>13, <1>15, RecordBooks

-----------------------------------------------------------------------------
(* Packing *)

\* Resource c is put into k, or taken out.
Packing(c, k) ==
  /\ PackResource(c, k)
  /\ Len(resources') = Len(resources)
  /\ \A r \in ResourceIds :
       /\ resources'[r].containedIn = IF r = c THEN k ELSE resources[r].containedIn
       /\ resources'[r].spec = resources[r].spec
       /\ resources'[r].unit = resources[r].unit
       /\ resources'[r].stage = resources[r].stage
       /\ resources'[r].location = resources[r].location
       /\ resources'[r].accountable = resources[r].accountable
       /\ resources'[r].custodian = resources[r].custodian

LEMMA PackResourcePacking ==
  ASSUME TypeOK, NEW c \in ResourceIds, NEW k \in ResourceIds \cup {Null}, PackResource(c, k)
  PROVE  Packing(c, k)
<1> DEFINE old == resources[c]
           row == [old EXCEPT !.containedIn = k]
<1>1. resources' = [resources EXCEPT ![c] = row] /\ UNCHANGED events
  BY DEF PackResource
<1>2. old \in Resource /\ k \in Nat
  BY Rows DEF ResourceIds, Null
<1> HIDE DEF old
<1>3. /\ row \in Resource /\ row.containedIn = k
      /\ row.spec = old.spec /\ row.unit = old.unit /\ row.stage = old.stage
      /\ row.location = old.location
      /\ row.accountable = old.accountable /\ row.custodian = old.custodian
  BY <1>2 DEF Resource
<1> HIDE DEF row
<1>4. /\ Len(resources') = Len(resources)
      /\ \A r \in ResourceIds : resources'[r] = IF r = c THEN row ELSE resources[r]
  BY <1>1, <1>3 DEF TypeOK, ResourceIds
<1> QED
  BY <1>3, <1>4 DEF Packing, old

-----------------------------------------------------------------------------
(* Every step *)

LEMMA NextBooks ==
  ASSUME TypeOK, Next
  PROVE  \/ \E f : Books(f)
         \/ \E c \in ResourceIds, k \in ResourceIds \cup {Null} : Packing(c, k)
<1>0. resources \in Seq(Resource)
  BY DEF TypeOK
<1>1. CASE \E e \in RaiseInputs : RaiseNew(e) \/ RaiseInto(e)
  BY <1>1, RaiseNewBooks, RaiseBooks
<1>2. CASE \E e \in LowerInputs : Lower(e)
  BY <1>2, LowerBooks
<1>3. CASE \E e \in WorkInputs \cup DeliverServiceInputs : RecordOnly(e)
  BY <1>0, <1>3, InputsAreRequests, RecordOnlyBooks
<1>4. CASE \E e \in UseInputs : RecordOnly(e) \/ UseResource(e)
  BY <1>0, <1>4, InputsAreRequests, RecordOnlyBooks, UseAndCiteBook
<1>5. CASE \E e \in CiteInputs : RecordOnly(e) \/ CiteResource(e)
  BY <1>0, <1>5, InputsAreRequests, RecordOnlyBooks, UseAndCiteBook
<1>6. CASE (\E e \in PickupInputs : Pickup(e)) \/ (\E e \in AcceptInputs : Accept(e))
  BY <1>6, OpeningsBook
<1>7. CASE \E e \in DropoffInputs : Dropoff(e)
  BY <1>7, DropoffBooks
<1>8. CASE \E e \in ModifyInputs : Modify(e)
  BY <1>8, ModifyBooks
<1>9. CASE \/ \E e \in TransferInputs("transferCustody") : TransferCustody(e)
           \/ \E e \in TransferAllRightsInputs : TransferAllRights(e)
           \/ \E e \in TransferInputs("transfer") : Transfer(e)
           \/ \E e \in MoveInputs : Move(e)
  BY <1>9, TransfersAllowed, IntoExistingBooks, IntoNewBooks
<1>10. CASE \E c \in ResourceIds, k \in ResourceIds \cup {Null} : PackResource(c, k)
  BY <1>10, PackResourcePacking
<1> QED
  BY <1>1, <1>2, <1>3, <1>4, <1>5, <1>6, <1>7, <1>8, <1>9, <1>10 DEF Next, CreateEvent

\* Posting leaves the events there are as they were.
LEMMA OldEvents ==
  ASSUME TypeOK, NEW e, Posts(e)
  PROVE  /\ Len(events') = NextEvent /\ EventIds' = EventIds \cup {NextEvent}
         /\ NextEvent \notin EventIds /\ NextEvent' = NextEvent + 1
         /\ \A i \in EventIds : events'[i] = events[i]
         /\ events'[NextEvent] = e
<1>1. /\ Len(events') = NextEvent
      /\ \A i \in EventIds : events'[i] = events[i]
      /\ events'[NextEvent] = e
  BY AppendIsSequence DEF TypeOK, Posts, Appends, NextEvent, EventIds
<1>2. EventIds' = EventIds \cup {NextEvent} /\ NextEvent \notin EventIds
  BY <1>1, Rows DEF EventIds, NextEvent
<1> QED
  BY <1>1, <1>2 DEF NextEvent

\* A step of the ledger books an event that it posts, or packs a resource.
LEMMA Steps ==
  ASSUME TypeOK, Next
  PROVE  \/ \E f : Posts(f) /\ Books(f)
         \/ Packs /\ \E c \in ResourceIds, k \in ResourceIds \cup {Null} : Packing(c, k)
<1>1. ASSUME NEW f, Posts(f), NEW g, Books(g)
      PROVE  f = g
  <2>1. f \in Event /\ events \in Seq(Event) /\ events' = Append(events, f)
    BY <1>1 DEF TypeOK, Posts, Appends
  <2>2. events' = Append(events, g)
    BY <1>1 DEF Books
  <2>3. events \in Seq(Event \cup {g})
    BY <2>1
  <2>4. events'[Len(events) + 1] = f
    BY <2>1, AppendIsSequence
  <2>5. events'[Len(events) + 1] = g
    BY <2>2, <2>3, AppendIsSequence
  <2> QED
    BY <2>4, <2>5
<1>2. ASSUME NEW f, Posts(f) \/ Books(f)
      PROVE  events' # events
  <2>1. events \in Seq(Event) /\ events' = Append(events, f)
    BY <1>2 DEF TypeOK, Posts, Appends, Books
  <2> QED
    BY <2>1
<1>3. ASSUME NEW c, NEW k, Packing(c, k)
      PROVE  events' = events
  BY <1>3 DEF Packing, PackResource
<1>4. Packs => events' = events
  BY DEF Packs
<1> QED
  BY <1>1, <1>2, <1>3, <1>4, NextPosts, NextBooks
=============================================================================
