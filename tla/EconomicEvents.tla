--------------------------- MODULE EconomicEvents ---------------------------
(***************************************************************************)
(* The ledger of Zenflows: economic resources and the economic events that *)
(* create and change them (Zenflows.VF.EconomicEvent.Domain).              *)
(*                                                                         *)
(* `create/2' runs the insertion of the event row and every effect of      *)
(* `handle_insert/3' in one database transaction, and any failed check     *)
(* rolls all of it back.  One action of this module is one such            *)
(* transaction that commits; a refused request changes nothing and is no   *)
(* step.  Transactions that overlap are the subject of EventTransactions.  *)
(*                                                                         *)
(* Row ids are the positions in the two sequences: the program's ULIDs     *)
(* order the rows by insertion in the same way.                            *)
(***************************************************************************)
EXTENDS Integers, Sequences, FiniteSets

CONSTANTS
  Agents,        \* vf_agent rows
  Specs,         \* vf_resource_specification rows
  Units,         \* vf_unit rows
  Processes,     \* vf_process rows
  Locations,     \* vf_spatial_thing rows
  Stages,        \* vf_process_specification rows
  BasedOn,       \* the process specification of each process, or Nil
  Nil,           \* an absent reference
  Quantities,    \* numerical values the clients send
  ActionIds,     \* the action ids the clients use
  Packable,      \* the resources that PackResource is called for
  MaxEvents,     \* bound on the length of the event log
  MaxResources   \* bound on the number of resources

ASSUME QuantitiesAssumption == Quantities \subseteq Nat \ {0}   \* measure.ex: > 0
ASSUME BasedOnAssumption == BasedOn \in [Processes -> Stages \cup {Nil}]
ASSUME NilAssumption ==
  Nil \notin Agents \cup Specs \cup Units \cup Processes \cup Locations \cup Stages
ASSUME BoundsAssumption == MaxEvents \in Nat /\ MaxResources \in Nat

VARIABLES
  resources,     \* vf_economic_resource: the row of each resource
  events         \* vf_economic_event: the row of each event

vars == <<resources, events>>

Null == 0        \* an absent row id

\* The enumeration vf_action_id.
ActionId ==
  {"produce", "raise", "consume", "lower", "use", "work", "cite", "deliverService",
   "pickup", "dropoff", "accept", "modify", "combine", "separate",
   "transferAllRights", "transferCustody", "transfer", "move"}

Resource ==
  [spec: Specs, unit: Units, accounting: Int, onhand: Int,
   accountable: Agents, custodian: Agents, containedIn: Nat,
   location: Locations \cup {Nil}, stage: Stages \cup {Nil}, prev: Nat]

Event ==
  [action: ActionId, provider: Agents, receiver: Agents,
   inputOf: Processes \cup {Nil}, outputOf: Processes \cup {Nil},
   from: Nat, to: Nat, spec: Specs \cup {Nil},
   quantity: Nat, unit: Units \cup {Nil},
   location: Locations \cup {Nil}, prev: Nat]

ResourceIds == 1..Len(resources)
EventIds == 1..Len(events)
NextResource == Len(resources) + 1
NextEvent == Len(events) + 1

-----------------------------------------------------------------------------
(* What EconomicEvent.changeset/1 accepts: per action, the fields it casts, *)
(* those it requires, and how they must relate.                             *)

Sent(acts, froms, tos, specs, inputs, outputs, locs) ==
  [action: acts \cap ActionIds, provider: Agents, receiver: Agents,
   inputOf: inputs, outputOf: outputs, from: froms, to: tos, spec: specs,
   quantity: Quantities, unit: Units, location: locs, prev: {Null}]

SameAgent(e) == e.provider = e.receiver

SpecXorResource(e) == (e.spec # Nil) # (e.from # Null)

RaiseInputs ==
  LET froms == ResourceIds \cup {Null}
      specs == Specs \cup {Nil}
      locs == Locations \cup {Nil}
  IN {e \in Sent({"raise"}, froms, {Null}, specs, {Nil}, {Nil}, locs)
             \cup Sent({"produce"}, froms, {Null}, specs, {Nil}, Processes, locs) :
        SameAgent(e) /\ SpecXorResource(e)}

LowerInputs ==
  {e \in Sent({"lower"}, ResourceIds, {Null}, {Nil}, {Nil}, {Nil}, {Nil})
         \cup Sent({"consume"}, ResourceIds, {Null}, {Nil}, Processes, {Nil}, {Nil}) :
     SameAgent(e)}

\* An effort only: `work' has no resource quantity.
WorkInputs ==
  {[e EXCEPT !.quantity = 0, !.unit = Nil] :
     e \in Sent({"work"}, {Null}, {Null}, Specs, Processes, {Nil}, {Nil})}

DeliverServiceInputs ==
  {e \in Sent({"deliverService"}, {Null}, {Null}, Specs,
              Processes \cup {Nil}, Processes \cup {Nil}, {Nil}) :
     e.inputOf = Nil \/ e.inputOf # e.outputOf}

CiteInputs ==
  {e \in Sent({"cite"}, ResourceIds \cup {Null}, {Null}, Specs \cup {Nil},
              Processes, {Nil}, {Nil}) :
     SpecXorResource(e)}

\* The resource quantity of `use' is optional.
UseInputs ==
  LET full == {e \in Sent({"use"}, ResourceIds \cup {Null}, {Null}, Specs \cup {Nil},
                          Processes, {Nil}, {Nil}) : SpecXorResource(e)}
  IN full \cup {[e EXCEPT !.quantity = 0, !.unit = Nil] : e \in full}

PickupInputs ==
  {e \in Sent({"pickup"}, ResourceIds, {Null}, {Nil}, Processes, {Nil}, {Nil}) :
     SameAgent(e)}

DropoffInputs ==
  {e \in Sent({"dropoff"}, ResourceIds, {Null}, {Nil}, {Nil}, Processes,
              Locations \cup {Nil}) : SameAgent(e)}

AcceptInputs ==
  {e \in Sent({"accept"}, ResourceIds, {Null}, {Nil}, Processes, {Nil}, {Nil}) :
     SameAgent(e)}

ModifyInputs ==
  {e \in Sent({"modify"}, ResourceIds, {Null}, {Nil}, {Nil}, Processes, {Nil}) :
     SameAgent(e)}

\* transferAllRights casts no to_location.
TransferAllRightsInputs ==
  Sent({"transferAllRights"}, ResourceIds, ResourceIds \cup {Null}, {Nil},
       {Nil}, {Nil}, {Nil})

TransferInputs(act) ==
  Sent({act}, ResourceIds, ResourceIds \cup {Null}, {Nil}, {Nil}, {Nil},
       Locations \cup {Nil})

MoveInputs == {e \in TransferInputs("move") : SameAgent(e)}

-----------------------------------------------------------------------------
(* What the checks look up.                                                 *)

Contained(r) == resources[r].containedIn # Null

Container(r) == \E c \in ResourceIds : resources[c].containedIn = r

Loose(r) == ~Contained(r) /\ ~Container(r)

Accountable(p, r) == resources[r].accountable = p

\* Mutated: custody is taken from the column beside.
CustodianByAccountable(p, r) == resources[r].accountable = p

Custodian(p, r) == resources[r].custodian = p

\* Mutated: the query forgets resource_inventoried_as_id.
InputEventsAnyResource(act, e, p) ==
  {i \in EventIds : events[i].action = act /\ events[i].inputOf = p}

\* Earlier events of action `act' on the resource of `e' that consume from,
\* respectively produce into, process `p'.
InputEvents(act, e, p) ==
  {i \in EventIds : events[i].action = act /\ events[i].from = e.from /\ events[i].inputOf = p}

\* Mutated: the query compares input_of_id.
OutputEventsByInput(act, e, p) ==
  {i \in EventIds : events[i].action = act /\ events[i].from = e.from /\ events[i].inputOf = p}

OutputEvents(act, e, p) ==
  {i \in EventIds : events[i].action = act /\ events[i].from = e.from /\ events[i].outputOf = p}

(* What the transactions write.                                             *)

\* The event row, with the previous event of the resource it goes through.
Record(e, prev) == events' = Append(events, [e EXCEPT !.prev = prev])

\* Mutated: previous_event_id is not set.
TouchedUnlinked(r, accounting, onhand) ==
  [resources[r] EXCEPT !.accounting = @ + accounting, !.onhand = @ + onhand]

\* The row of resource r after event NextEvent added to its quantities.
Touched(r, accounting, onhand) ==
  [resources[r] EXCEPT !.accounting = @ + accounting, !.onhand = @ + onhand,
                       !.prev = NextEvent]

\* Mutated: the new resource has no previous event.
CreatedUnlinked(e, spec, accounting, onhand) ==
  [spec |-> spec, unit |-> e.unit, accounting |-> accounting, onhand |-> onhand,
   accountable |-> e.receiver, custodian |-> e.receiver, containedIn |-> Null,
   location |-> e.location, stage |-> Nil, prev |-> Null]

\* The row of a resource that NextEvent creates for the receiver of e.
Created(e, spec, accounting, onhand) ==
  [spec |-> spec, unit |-> e.unit, accounting |-> accounting, onhand |-> onhand,
   accountable |-> e.receiver, custodian |-> e.receiver, containedIn |-> Null,
   location |-> e.location, stage |-> Nil, prev |-> NextEvent]

-----------------------------------------------------------------------------
Init == resources = <<>> /\ events = <<>>

(* raise and produce *)

RaiseNew(e) ==
  /\ e.spec # Nil
  /\ Len(resources) < MaxResources
  /\ resources' = Append(resources, Created(e, e.spec, e.quantity, e.quantity))
  /\ Record([e EXCEPT !.from = NextResource], Null)

RaiseInto(e) ==
  /\ e.from # Null
  /\ Accountable(e.provider, e.from) /\ Custodian(e.provider, e.from)
  /\ e.unit = resources[e.from].unit
  /\ Loose(e.from)
  /\ Record(e, resources[e.from].prev)
  /\ resources' = [resources EXCEPT ![e.from] = Touched(e.from, e.quantity, e.quantity)]

(* lower and consume: nothing asks for a sufficient quantity *)
Lower(e) ==
  /\ Accountable(e.provider, e.from) /\ Custodian(e.provider, e.from)
  /\ e.unit = resources[e.from].unit
  /\ Loose(e.from)
  /\ Record(e, resources[e.from].prev)
  /\ resources' = [resources EXCEPT ![e.from] = Touched(e.from, -e.quantity, -e.quantity)]

(* work, deliverService, and the use or the citation of a specification *)
RecordOnly(e) ==
  /\ e.from = Null
  /\ Record(e, Null)
  /\ UNCHANGED resources

(* use and cite of a resource *)
UseResource(e) ==
  /\ e.from # Null
  /\ e.unit # Nil => e.unit = resources[e.from].unit
  /\ Loose(e.from)
  /\ Record(e, resources[e.from].prev)
  /\ resources' = [resources EXCEPT ![e.from] = Touched(e.from, 0, 0)]

CiteResource(e) ==
  /\ e.from # Null
  /\ e.unit = resources[e.from].unit
  /\ Loose(e.from)
  /\ Record(e, resources[e.from].prev)
  /\ resources' = [resources EXCEPT ![e.from] = Touched(e.from, 0, 0)]

Pickup(e) ==
  /\ Custodian(e.provider, e.from)
  /\ ~Contained(e.from)
  /\ e.unit = resources[e.from].unit
  /\ e.quantity = resources[e.from].onhand
  /\ InputEvents("pickup", e, e.inputOf) = {}
  /\ Record(e, resources[e.from].prev)
  /\ resources' = [resources EXCEPT ![e.from] = Touched(e.from, 0, 0)]

\* Mutated: only what the resource contains is relocated.
RelocatesContents(e, r) == e.location # Nil /\ resources[r].containedIn = e.from

\* A dropoff with a location relocates the resource and what it contains.
Relocates(e, r) ==
  e.location # Nil /\ (r = e.from \/ resources[r].containedIn = e.from)

\* repo.one() raises on two pickups, and so rolls back.
Dropoff(e) ==
  /\ \E i \in EventIds :
       /\ InputEvents("pickup", e, e.outputOf) = {i}
       /\ e.provider = events[i].provider
       /\ e.unit = events[i].unit
       /\ Container(e.from) => e.quantity = events[i].quantity
  /\ OutputEvents("dropoff", e, e.outputOf) = {}
  /\ Record(e, resources[e.from].prev)
  /\ resources' = [r \in ResourceIds |->
       LET row == IF r = e.from THEN Touched(r, 0, 0) ELSE resources[r]
       IN IF Relocates(e, r) THEN [row EXCEPT !.location = e.location] ELSE row]

\* There are no combine or separate events to refuse: see the README.
Accept(e) ==
  /\ Custodian(e.provider, e.from)
  /\ ~Contained(e.from)
  /\ e.unit = resources[e.from].unit
  /\ e.quantity = resources[e.from].onhand
  /\ Container(e.from) => resources[e.from].onhand > 0
  /\ InputEvents("accept", e, e.inputOf) = {}
  /\ Record(e, resources[e.from].prev)
  /\ resources' = [resources EXCEPT ![e.from] = Touched(e.from, 0, -e.quantity)]

\* Mutated: the stage is left alone.
StagedNever(row, p) == row

\* The stage of a modified resource is what the process is based on.
Staged(row, p) == [row EXCEPT !.stage = BasedOn[p]]

Modify(e) ==
  /\ \E i \in EventIds :
       /\ InputEvents("accept", e, e.outputOf) = {i}
       /\ e.provider = events[i].provider
       /\ e.unit = events[i].unit
       /\ e.quantity = events[i].quantity
  /\ OutputEvents("modify", e, e.outputOf) = {}
  /\ Record(e, resources[e.from].prev)
  /\ resources' = [resources EXCEPT ![e.from] =
       Staged(Touched(e.from, 0, e.quantity), e.outputOf)]

-----------------------------------------------------------------------------
(* The transfer family.  transferCustody moves the onhand quantity and the  *)
(* custody, transferAllRights the accounting quantity and the               *)
(* accountability, transfer and move all of them.                           *)

MovesOnhand(e) == e.action # "transferAllRights"

MovesAccounting(e) == e.action # "transferCustody"

\* Mutated: transferCustody moves the accounting quantity too.
AccountingAlwaysMoved(e) == e.quantity

AccountingMoved(e) == IF MovesAccounting(e) THEN e.quantity ELSE 0

OnhandMoved(e) == IF MovesOnhand(e) THEN e.quantity ELSE 0

\* The other resource, unless there is none.  The query for both rows returns
\* one row when they are the same, and the program then takes it that there
\* is no other resource.
HasTarget(e) == e.to \notin {Null, e.from}

\* A container must be transferred whole; as quantities sent are positive, that
\* is also the check that what it has is.
SourceChecks(e) ==
  /\ ~Contained(e.from)
  /\ e.unit = resources[e.from].unit
  /\ Container(e.from) =>
       /\ MovesAccounting(e) => e.quantity = resources[e.from].accounting
       /\ MovesOnhand(e) => e.quantity = resources[e.from].onhand
       /\ ~HasTarget(e)

\* Mutated: the specifications are not compared.
TargetChecksAnySpec(e) ==
  HasTarget(e) => Loose(e.to) /\ e.unit = resources[e.to].unit

TargetChecks(e) ==
  HasTarget(e) =>
    /\ Loose(e.to)
    /\ e.unit = resources[e.to].unit
    /\ resources[e.from].spec = resources[e.to].spec

\* Quantities leave e.from for e.to, which may be e.from.  The holder of what
\* remains on e.from becomes the receiver, who for a move is the holder already;
\* e.to keeps its holders and its previous event.
IntoExisting(e) ==
  /\ e.to # Null
  /\ Record(e, resources[e.from].prev)
  /\ resources' = [r \in ResourceIds |->
       LET row == IF r = e.from
                  THEN [Touched(r, -AccountingMoved(e), -OnhandMoved(e)) EXCEPT
                          !.accountable = IF MovesAccounting(e) THEN e.receiver ELSE @,
                          !.custodian = IF MovesOnhand(e) THEN e.receiver ELSE @]
                  ELSE resources[r]
       IN IF r = e.to
            THEN [row EXCEPT !.accounting = @ + AccountingMoved(e),
                             !.onhand = @ + OnhandMoved(e)]
            ELSE row]

\* Mutated: the contents keep their holders.
RepackedSameHolders(e, row) == [row EXCEPT !.containedIn = NextResource]

\* Mutated: the contents change both holders, whatever the action moves.
RepackedBothHolders(e, row) ==
  [row EXCEPT !.containedIn = NextResource,
              !.accountable = e.receiver, !.custodian = e.receiver]

\* The row of a resource that e.from contained, once e.from is transferred.
Repacked(e, row) ==
  [row EXCEPT !.containedIn = NextResource,
              !.accountable = IF MovesAccounting(e) THEN e.receiver ELSE @,
              !.custodian = IF MovesOnhand(e) THEN e.receiver ELSE @]

\* Quantities leave e.from for a resource made for the receiver.  What e.from
\* contains moves along.
IntoNew(e) ==
  /\ e.to = Null
  /\ Len(resources) < MaxResources
  /\ Record([e EXCEPT !.to = NextResource], resources[e.from].prev)
  /\ resources' = Append(
       [r \in ResourceIds |->
          LET row == IF r = e.from
                     THEN Touched(r, -AccountingMoved(e), -OnhandMoved(e))
                     ELSE resources[r]
          IN IF resources[r].containedIn = e.from THEN Repacked(e, row) ELSE row],
       Created(e, resources[e.from].spec, AccountingMoved(e), OnhandMoved(e)))

TransferCustody(e) ==
  /\ Custodian(e.provider, e.from)
  /\ SourceChecks(e) /\ TargetChecks(e)
  /\ IntoExisting(e) \/ IntoNew(e)

TransferAllRights(e) ==
  /\ Accountable(e.provider, e.from)
  /\ SourceChecks(e) /\ TargetChecks(e)
  /\ IntoExisting(e) \/ IntoNew(e)

Transfer(e) ==
  /\ Accountable(e.provider, e.from) /\ Custodian(e.provider, e.from)
  /\ SourceChecks(e) /\ TargetChecks(e)
  /\ IntoExisting(e) \/ IntoNew(e)

Move(e) ==
  /\ Accountable(e.provider, e.from) /\ Custodian(e.provider, e.from)
  /\ SourceChecks(e) /\ TargetChecks(e)
  /\ HasTarget(e) => Accountable(e.provider, e.to) /\ Custodian(e.provider, e.to)
  /\ IntoExisting(e) \/ IntoNew(e)

-----------------------------------------------------------------------------
(* EconomicResource.Domain.update/2 with contained_in_id, the only way to   *)
(* pack a resource while combine and separate have no handler.  It checks   *)
(* nothing: any resource goes into any other, or itself, or out again.      *)
PackResource(c, k) ==
  /\ c \in Packable
  /\ resources' = [resources EXCEPT ![c].containedIn = k]
  /\ UNCHANGED events

\* EconomicEvent.Domain.create/2.
CreateEvent ==
  \/ \E e \in RaiseInputs : RaiseNew(e) \/ RaiseInto(e)
  \/ \E e \in LowerInputs : Lower(e)
  \/ \E e \in WorkInputs \cup DeliverServiceInputs : RecordOnly(e)
  \/ \E e \in UseInputs : RecordOnly(e) \/ UseResource(e)
  \/ \E e \in CiteInputs : RecordOnly(e) \/ CiteResource(e)
  \/ \E e \in PickupInputs : Pickup(e)
  \/ \E e \in DropoffInputs : Dropoff(e)
  \/ \E e \in AcceptInputs : Accept(e)
  \/ \E e \in ModifyInputs : Modify(e)
  \/ \E e \in TransferInputs("transferCustody") : TransferCustody(e)
  \/ \E e \in TransferAllRightsInputs : TransferAllRights(e)
  \/ \E e \in TransferInputs("transfer") : Transfer(e)
  \/ \E e \in MoveInputs : Move(e)

Next ==
  \/ Len(events) < MaxEvents /\ CreateEvent
  \/ \E c \in ResourceIds, k \in ResourceIds \cup {Null} : PackResource(c, k)

Spec == Init /\ [][Next]_vars
=============================================================================
