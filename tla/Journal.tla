-------------------------------- MODULE Journal --------------------------------
(***************************************************************************)
(* What a ledger promises to those who keep things in it: accounts with    *)
(* two quantities, what is owned and what is at hand, which change only by *)
(* entries in a journal that grows and is never rewritten.  An entry       *)
(* changes nothing but the accounts it names, as its kind says; quantities *)
(* leave an account only by an entry of whoever holds them, and nothing is *)
(* lost or made on the way from one account to another.                    *)
(***************************************************************************)
EXTENDS Integers, Sequences

VARIABLES
  entries,    \* kind, provider, receiver, from, to (0: none) and quantity
  accounts    \* owned, onhand, and who has the right to each: owner, keeper

vars == <<entries, accounts>>

Issues == {"raise", "produce"}
Withdraws == {"lower", "consume"}
MovesOwned == {"transferAllRights", "transfer", "move"}
MovesOnhand == {"transferCustody", "transfer", "move"}

\* Signs of what entry e does to account a.
Gets(e, a) == IF e.to = a THEN e.quantity ELSE 0
Gives(e, a) == IF e.from = a THEN e.quantity ELSE 0

OwnedChange(e, a) ==
  CASE e.kind \in Issues -> Gives(e, a)
    [] e.kind \in Withdraws -> -Gives(e, a)
    [] e.kind \in MovesOwned -> Gets(e, a) - Gives(e, a)
    [] OTHER -> 0

\* What is accepted into a process is not at hand until it is given back.
OnhandChange(e, a) ==
  CASE e.kind \in Issues \cup {"modify"} -> Gives(e, a)
    [] e.kind \in Withdraws \cup {"accept"} -> -Gives(e, a)
    [] e.kind \in MovesOnhand -> Gets(e, a) - Gives(e, a)
    [] OTHER -> 0

\* Only who holds something parts with it.
Entitled(e) ==
  /\ e.kind \in Withdraws \cup MovesOwned => accounts[e.from].owner = e.provider
  /\ e.kind \in Withdraws \cup MovesOnhand \cup {"accept"} => accounts[e.from].keeper = e.provider

\* The accounts after e.  Holders change only to the receiver of an entry that
\* moves what they hold.
Booked(e) ==
  \A a \in DOMAIN accounts :
    /\ accounts'[a].owned = accounts[a].owned + OwnedChange(e, a)
    /\ accounts'[a].onhand = accounts[a].onhand + OnhandChange(e, a)
    /\ \/ accounts'[a].owner = accounts[a].owner
       \/ accounts'[a].owner = e.receiver /\ e.kind \in MovesOwned
    /\ \/ accounts'[a].keeper = accounts[a].keeper
       \/ accounts'[a].keeper = e.receiver /\ e.kind \in MovesOnhand

\* An account that e names may be new; it is the receiver's.
Opened(e, a) ==
  /\ a \in {e.from, e.to}
  /\ accounts'[a] = [owned |-> OwnedChange(e, a), onhand |-> OnhandChange(e, a),
                     owner |-> e.receiver, keeper |-> e.receiver]

Post(e) ==
  /\ entries' = Append(entries, e)
  /\ e.from \in DOMAIN accounts => Entitled(e)
  /\ Booked(e)
  /\ \/ Len(accounts') = Len(accounts)
     \/ Len(accounts') = Len(accounts) + 1 /\ Opened(e, Len(accounts'))

Init == entries = <<>> /\ accounts = <<>>

Next == Len(entries') = Len(entries) + 1 /\ Post(entries'[Len(entries')])

Spec == Init /\ [][Next]_vars
=============================================================================
