---------------------------- MODULE HTTPCProofs -----------------------------
(***************************************************************************)
(* The HTTP client, for any callers, tries and connections: no request is  *)
(* handed to a connection twice, and each caller gets the response to its  *)
(* own request.                                                            *)
(***************************************************************************)
EXTENDS HTTPC, TLAPS

Requests == [caller: Callers, number: Nat]

Messages == [kind: {"call", "done", "error", "closed"}, socket: Nat, ref: Nat,
             from: Requests \cup {Nothing}]

CallerStates == [pc: {"idle", "waiting", "asleep", "ended"}, number: Nat, tries: Nat,
                 result: {"none", "ok", "error", "exit"}, answer: Requests \cup {Nothing}]

-----------------------------------------------------------------------------
(* The invariant of requests                                                *)

\* Types, as far as the proofs need them.
Types ==
  /\ callers \in [Callers -> CallerStates]
  /\ mailbox \in Seq(Messages)
  /\ \A i \in 1..Len(mailbox) : mailbox[i].kind # "closed" => mailbox[i].from \in Requests
  /\ refs \in Seq(Requests)
  /\ sockets \in Nat /\ server.socket \in Nat
  /\ DOMAIN server = {"up", "socket", "open", "requests"} /\ server = [f \in DOMAIN server |-> server[f]]
  /\ peer \subseteq [socket: Nat, ref: Nat, from: Requests]

\* A request that was made, and whose caller is not about to make it.
Made(q) ==
  \/ q.number < callers[q.caller].number
  \/ q.number = callers[q.caller].number /\ callers[q.caller].pc \in {"waiting", "ended"}

\* What is in the mailbox or was handed to a connection was made, and is there
\* once: a caller that tries again does so after its call has left the mailbox.
Distinct ==
  /\ \A i \in 1..Len(refs) : Made(refs[i])
  /\ \A i \in 1..Len(mailbox) : mailbox[i].kind = "call" => Made(mailbox[i].from)
  /\ \A i, j \in 1..Len(refs) : refs[i] = refs[j] => i = j
  /\ \A i, j \in 1..Len(mailbox) :
       mailbox[i].kind = "call" /\ mailbox[j].kind = "call" /\ mailbox[i].from = mailbox[j].from => i = j
  /\ \A i \in 1..Len(mailbox), j \in 1..Len(refs) :
       mailbox[i].kind = "call" => mailbox[i].from # refs[j]

-----------------------------------------------------------------------------
(* Sequences                                                                *)

LEMMA Appended ==
  ASSUME NEW S, NEW s \in Seq(S), NEW x \in S
  PROVE  /\ Append(s, x) \in Seq(S)
         /\ Len(Append(s, x)) = Len(s) + 1
         /\ \A i \in 1..Len(s) : Append(s, x)[i] = s[i]
         /\ Append(s, x)[Len(s) + 1] = x
OBVIOUS

LEMMA MoreRequests ==
  \A s \in Seq(Requests), q \in Requests : Append(s, q) \in Seq(Requests)
OBVIOUS

LEMMA Rest ==
  ASSUME NEW S, NEW s \in Seq(S), s # <<>>
  PROVE  /\ Tail(s) \in Seq(S) /\ Len(s) \in Nat /\ Len(s) >= 1
         /\ Len(Tail(s)) = Len(s) - 1
         /\ \A i \in 1..Len(s) - 1 : Tail(s)[i] = s[i + 1]
         /\ Head(s) = s[1] /\ s[1] \in S
OBVIOUS

-----------------------------------------------------------------------------
(* What the steps do                                                        *)

\* Callers keep their numbers and what they made, except one whose call the
\* server has just taken from the mailbox without sending it.
Keep ==
  \A c \in Callers :
    /\ callers'[c].number = callers[c].number
    /\ callers[c].pc \in {"waiting", "ended"} => callers'[c].pc \in {"waiting", "ended"}

LEMMA ReplyKeeps ==
  ASSUME Types, NEW from, NEW state, Reply(from, state),
         from.caller \in Callers =>
           state \in CallerStates /\ state.number = callers[from.caller].number
  PROVE  /\ callers' \in [Callers -> CallerStates]
         /\ \A c \in Callers :
              \/ callers'[c] = callers[c]
              \/ from = Own(c) /\ callers[c].pc = "waiting" /\ callers'[c] = state
<1> DEFINE d == from.caller
<1>2. CASE Waits(d) /\ from = Own(d)
  <2>1. callers' = [callers EXCEPT ![d] = state]
    BY <1>2 DEF Reply
  <2>2. CASE d \in Callers
    BY <2>1, <2>2, <1>2 DEF Types, Waits
  <2>3. CASE d \notin Callers
    BY <2>1, <2>3 DEF Types
  <2> QED
    BY <2>2, <2>3
<1>3. CASE ~(Waits(d) /\ from = Own(d))
  BY <1>3 DEF Reply, Types
<1> QED
  BY <1>2, <1>3

LEMMA FreshState ==
  Fresh \in CallerStates
BY DEF Fresh, CallerStates

LEMMA TwoFields ==
  ASSUME NEW r \in CallerStates, NEW n \in Nat, NEW pc \in {"idle", "waiting", "asleep", "ended"}
  PROVE  /\ [r EXCEPT !.pc = pc, !.number = n] \in CallerStates
         /\ [r EXCEPT !.pc = pc, !.tries = n] \in CallerStates
<1>1. [r EXCEPT !.pc = pc] \in CallerStates
  BY DEF CallerStates
<1> DEFINE s == [r EXCEPT !.pc = pc]
<1>2. /\ [r EXCEPT !.pc = pc, !.number = n] = [s EXCEPT !.number = n]
      /\ [r EXCEPT !.pc = pc, !.tries = n] = [s EXCEPT !.tries = n]
  BY DEF CallerStates
<1>3. s \in CallerStates
  BY <1>1
<1> HIDE DEF s
<1>4. /\ [s EXCEPT !.number = n] \in CallerStates /\ [s EXCEPT !.tries = n] \in CallerStates
  BY <1>3 DEF CallerStates
<1> QED
  BY <1>2, <1>4

LEMMA EndState ==
  ASSUME Types, NEW c \in Callers, NEW result \in {"ok", "error", "exit"},
         NEW answer \in Requests \cup {Nothing}
  PROVE  /\ End(c, result, answer) \in CallerStates
         /\ End(c, result, answer).number = callers[c].number
         /\ End(c, result, answer).pc = "ended"
         /\ End(c, result, answer).result = result
         /\ End(c, result, answer).answer = answer
BY DEF End, Types, CallerStates

LEMMA RetryState ==
  ASSUME Types, NEW c \in Callers, NEW result
  PROVE  /\ Retries(c, result) \in CallerStates
         /\ Retries(c, result).number = callers[c].number
         /\ Retries(c, result).result = "ok" =>
              callers[c].result = "ok" /\ Retries(c, result).answer = callers[c].answer
         /\ result # "error_conn" => Retries(c, result).pc = "ended"
<1>1. CASE result = "error_conn" /\ callers[c].tries < MaxTries
  BY <1>1 DEF Retries, Types, CallerStates
<1>2. CASE ~(result = "error_conn" /\ callers[c].tries < MaxTries)
  BY <1>2, EndState DEF Retries
<1> QED
  BY <1>1, <1>2

\* What was made stays made.
LEMMA StillMade ==
  ASSUME Types, NEW q \in Requests, Made(q),
         callers' \in [Callers -> CallerStates],
         LET c == q.caller
         IN \/ callers'[c].number > callers[c].number
            \/ /\ callers'[c].number = callers[c].number
               /\ callers[c].pc \in {"waiting", "ended"} =>
                    callers'[c].pc \in {"waiting", "ended"} \/ q.number # callers[c].number
  PROVE  Made(q)'
<1>1. q.caller \in Callers /\ q.number \in Nat
  BY DEF Requests
<1>2. callers[q.caller].number \in Nat /\ callers'[q.caller].number \in Nat
  BY <1>1 DEF Types, CallerStates
<1> QED
  BY <1>1, <1>2 DEF Made

LEMMA ClosedIsMessage ==
  \A n \in Nat : LET m == Message("closed", n, 0, Nothing) IN m \in Messages /\ m.kind # "call"
BY DEF Message, Messages, Nothing

\* A step that takes no call from the mailbox and sends none.
LEMMA MoreMail ==
  ASSUME Types, Distinct, NEW m \in Messages, m.kind # "call",
         callers' \in [Callers -> CallerStates], Keep, UNCHANGED refs,
         mailbox' \in {mailbox, Append(mailbox, m), <<>>}
  PROVE  Distinct'
<1>1. \A q \in Requests : Made(q) => Made(q)'
  <2> SUFFICES ASSUME NEW q \in Requests, Made(q) PROVE Made(q)'
    OBVIOUS
  <2>1. q.caller \in Callers
    BY DEF Requests
  <2> QED
    BY <2>1, StillMade DEF Keep
<1>2. \A i \in 1..Len(refs) : Made(refs[i])'
  <2>1. \A i \in 1..Len(refs) : refs[i] \in Requests
    BY DEF Types
  <2> QED
    BY <2>1, <1>1 DEF Distinct, Made
<1>3. Len(mailbox) \in Nat /\ Len(mailbox') \in Nat
  BY DEF Types
<1>4. \A i \in 1..Len(mailbox') : mailbox'[i].kind = "call" =>
        i \in 1..Len(mailbox) /\ mailbox'[i] = mailbox[i]
  BY <1>3, Appended DEF Types
<1>5. \A i \in 1..Len(mailbox') : mailbox'[i].kind = "call" =>
        mailbox[i].kind = "call" /\ mailbox[i].from \in Requests /\ Made(mailbox[i].from)'
  BY <1>4, <1>1 DEF Distinct, Types
<1> QED
  BY <1>2, <1>4, <1>5 DEF Distinct, Made

\* A new request; its number is above that of anything made.
LEMMA BeginKeeps ==
  ASSUME Types, Distinct, NEW c \in Callers, Begin(c)
  PROVE  Distinct' /\ callers' \in [Callers -> CallerStates]
<1>1. callers' \in [Callers -> CallerStates]
  <2> DEFINE next == [Fresh EXCEPT !.pc = "asleep", !.number = callers[c].number + 1]
  <2>1. callers[c].number + 1 \in Nat
    BY DEF Types, CallerStates
  <2>3. next \in CallerStates
    BY <2>1, FreshState, TwoFields
  <2>4. callers' = [callers EXCEPT ![c] = next]
    BY DEF Begin
  <2> HIDE DEF next
  <2> QED
    BY <2>3, <2>4 DEF Types
<1>2. \A q \in Requests : Made(q) => Made(q)'
  <2> SUFFICES ASSUME NEW q \in Requests, Made(q) PROVE Made(q)'
    OBVIOUS
  <2>1. CASE q.caller = c
    <3>1. callers'[c].number = callers[c].number + 1 /\ callers[c].number \in Nat
      BY DEF Begin, Types, CallerStates, Fresh
    <3> QED
      BY <3>1, <2>1, <1>1, StillMade
  <2>2. CASE q.caller # c
    <3>1. q.caller \in Callers /\ callers'[q.caller] = callers[q.caller]
      BY <2>2 DEF Begin, Types, Requests
    <3> QED
      BY <3>1, <1>1, StillMade
  <2> QED
    BY <2>1, <2>2
<1>3. mailbox' = mailbox /\ refs' = refs
  BY DEF Begin
<1>4. \A i \in 1..Len(refs) : Made(refs[i])'
  <2>1. \A i \in 1..Len(refs) : refs[i] \in Requests /\ Made(refs[i])
    BY DEF Distinct, Types
  <2> QED
    BY <2>1, <1>2, <1>3 DEF Made
<1>5. \A i \in 1..Len(mailbox) : (mailbox[i].kind = "call" => Made(mailbox[i].from))'
  <2>1. \A i \in 1..Len(mailbox) : mailbox[i].kind = "call" =>
          mailbox[i].from \in Requests /\ Made(mailbox[i].from)
    BY DEF Distinct, Types
  <2> QED
    BY <2>1, <1>2, <1>3 DEF Made
<1> QED
  BY <1>1, <1>3, <1>4, <1>5 DEF Distinct

\* A call of a caller that sleeps is of a request that was not made.
LEMMA CallKeeps ==
  ASSUME Types, Distinct, NEW c \in Callers, Call(c)
  PROVE  Distinct' /\ callers' \in [Callers -> CallerStates]
<1>1. CASE ~server.up
  <2>1. callers' = [callers EXCEPT ![c] = End(c, "exit", Nothing)] /\ UNCHANGED <<mailbox, refs>>
    BY <1>1 DEF Call
  <2>2. /\ callers' \in [Callers -> CallerStates] /\ Keep
    BY <2>1, EndState DEF Types, Keep
  <2> QED
    BY <2>1, <2>2, MoreMail, ClosedIsMessage
<1>2. CASE server.up
  <2> DEFINE m == Message("call", 0, 0, Own(c))
  <2>1. /\ callers' = [callers EXCEPT ![c].pc = "waiting", ![c].tries = @ + 1]
        /\ mailbox' = Append(mailbox, m) /\ refs' = refs /\ callers[c].pc = "asleep"
    BY <1>2 DEF Call
  <2>2. callers' \in [Callers -> CallerStates] /\ callers'[c].pc = "waiting" /\ Keep
    <3> PICK r \in CallerStates : r = callers[c]
      BY DEF Types
    <3> PICK n \in Nat : n = r.tries + 1
      BY DEF CallerStates
    <3> DEFINE next == [r EXCEPT !.pc = "waiting", !.tries = n]
    <3>2. /\ next \in CallerStates /\ next.pc = "waiting" /\ next.number = callers[c].number
      <4>1. next \in CallerStates
        BY TwoFields
      <4>2. next.pc = "waiting" /\ next.number = r.number
        BY DEF CallerStates
      <4> QED
        BY <4>1, <4>2
    <3>3. callers' = [callers EXCEPT ![c] = next]
      BY <2>1 DEF Types
    <3> HIDE DEF next
    <3>4. callers' \in [Callers -> CallerStates] /\ callers'[c] = next
      BY <3>2, <3>3 DEF Types
    <3>5. \A d \in Callers : d # c => callers'[d] = callers[d]
      BY <3>3 DEF Types
    <3> QED
      BY <3>2, <3>4, <3>5 DEF Keep
  <2>3. Own(c) \in Requests /\ Own(c).caller = c /\ Own(c).number = callers[c].number
    BY DEF Own, Requests, Types, CallerStates
  <2>4. ~Made(Own(c)) /\ Made(Own(c))'
    BY <2>1, <2>2, <2>3 DEF Made, Types, CallerStates, Keep, Own
  <2>5. \A q \in Requests : Made(q) => Made(q)'
    <3> SUFFICES ASSUME NEW q \in Requests, Made(q) PROVE Made(q)'
      OBVIOUS
    <3>1. q.caller \in Callers
      BY DEF Requests
    <3> QED
      BY <3>1, <2>2, StillMade DEF Keep
  <2>6. /\ m \in Messages /\ m.kind = "call" /\ m.from = Own(c)
    BY <2>3 DEF Message, Messages
  <2>7. /\ Len(mailbox) \in Nat /\ Len(mailbox') = Len(mailbox) + 1
        /\ \A i \in 1..Len(mailbox) : mailbox'[i] = mailbox[i]
        /\ mailbox'[Len(mailbox) + 1] = m
    BY <2>1, <2>6, Appended DEF Types
  <2>8. \A i \in 1..Len(mailbox) : mailbox[i].kind = "call" =>
          Made(mailbox[i].from) /\ mailbox[i].from \in Requests /\ mailbox[i].from # Own(c)
    <3> SUFFICES ASSUME NEW i \in 1..Len(mailbox), mailbox[i].kind = "call"
                 PROVE  Made(mailbox[i].from) /\ mailbox[i].from \in Requests /\ mailbox[i].from # Own(c)
      OBVIOUS
    <3>1. mailbox[i].from \in Requests
      BY DEF Types
    <3>2. Made(mailbox[i].from)
      BY DEF Distinct
    <3> QED
      BY <3>1, <3>2, <2>4
  <2>9. \A i \in 1..Len(refs) : refs[i] \in Requests /\ Made(refs[i])' /\ refs[i] # Own(c)
    BY <2>1, <2>4, <2>5 DEF Distinct, Types
  <2>10. \A i \in 1..Len(mailbox') :
           \/ i \in 1..Len(mailbox) /\ mailbox'[i] = mailbox[i]
           \/ i = Len(mailbox) + 1 /\ mailbox'[i] = m
    BY <2>7
  <2>11. \A i \in 1..Len(refs') : Made(refs[i])'
    BY <2>1, <2>9
  <2>12. \A i \in 1..Len(mailbox') : (mailbox[i].kind = "call" => Made(mailbox[i].from))'
    <3> SUFFICES ASSUME NEW i \in 1..Len(mailbox'), mailbox'[i].kind = "call"
                 PROVE  Made(mailbox[i].from)'
      OBVIOUS
    <3>1. CASE i \in 1..Len(mailbox) /\ mailbox'[i] = mailbox[i]
      <4> PICK q \in Requests : q = mailbox[i].from
        BY <3>1, <2>8
      <4>1. Made(q) /\ mailbox'[i].from = q
        BY <3>1, <2>8
      <4>2. Made(q)'
        BY <4>1, <2>5
      <4> QED
        BY <4>1, <4>2 DEF Made
    <3>2. CASE mailbox'[i] = m
      BY <3>2, <2>3, <2>4, <2>6, <2>2 DEF Made, Own, Keep
    <3> QED
      BY <3>1, <3>2, <2>10
  <2>13. \A i, j \in 1..Len(mailbox') :
           mailbox'[i].kind = "call" /\ mailbox'[j].kind = "call" /\ mailbox'[i].from = mailbox'[j].from => i = j
    <3> SUFFICES ASSUME NEW i \in 1..Len(mailbox'), NEW j \in 1..Len(mailbox'),
                        mailbox'[i].kind = "call", mailbox'[j].kind = "call",
                        mailbox'[i].from = mailbox'[j].from
                 PROVE  i = j
      OBVIOUS
    <3> HIDE DEF m
    <3> QED
      BY <2>6, <2>8, <2>10 DEF Distinct
  <2>14. \A i \in 1..Len(mailbox'), j \in 1..Len(refs') :
           mailbox'[i].kind = "call" => mailbox'[i].from # refs'[j]
    <3> HIDE DEF m
    <3> QED
      BY <2>1, <2>6, <2>9, <2>10 DEF Distinct
  <2>15. \A i, j \in 1..Len(refs') : refs'[i] = refs'[j] => i = j
    BY <2>1 DEF Distinct
  <2> HIDE DEF m
  <2> QED
    BY <2>2, <2>11, <2>12, <2>13, <2>14, <2>15 DEF Distinct
<1> QED
  BY <1>1, <1>2

\* The server takes the message at the head.  If it is a call, it is handed to
\* the connection, or it is not and its caller may try again.
LEMMA TakeKeeps ==
  ASSUME Types, Distinct, mailbox # <<>>, mailbox' = Tail(mailbox),
         callers' \in [Callers -> CallerStates],
         \/ refs' = refs
         \/ Head(mailbox).kind = "call" /\ refs' = Append(refs, Head(mailbox).from),
         \A c \in Callers :
           /\ callers'[c].number = callers[c].number
           /\ callers[c].pc \in {"waiting", "ended"} =>
                \/ callers'[c].pc \in {"waiting", "ended"}
                \/ Head(mailbox).kind = "call" /\ refs' = refs /\ Head(mailbox).from = Own(c)
  PROVE  Distinct'
<1> DEFINE h == Head(mailbox)
<1>1. h = mailbox[1] /\ h \in Messages /\ 1 \in 1..Len(mailbox)
  BY Rest DEF Types
<1>2. \A i \in 1..Len(mailbox') :
        i + 1 \in 1..Len(mailbox) /\ i + 1 # 1 /\ mailbox'[i] = mailbox[i + 1]
  BY Rest DEF Types
<1>3. \A q \in Requests :
        Made(q) /\ (h.kind = "call" /\ refs' = refs => q # h.from) => Made(q)'
  <2> SUFFICES ASSUME NEW q \in Requests, Made(q), h.kind = "call" /\ refs' = refs => q # h.from
               PROVE  Made(q)'
    OBVIOUS
  <2>1. q.caller \in Callers
    BY DEF Requests
  <2>2. q.number = callers[q.caller].number => q = Own(q.caller)
    BY DEF Requests, Own
  <2> HIDE DEF h
  <2>3. \A c \in Callers :
           /\ callers'[c].number = callers[c].number
           /\ callers[c].pc \in {"waiting", "ended"} =>
                \/ callers'[c].pc \in {"waiting", "ended"}
                \/ h.kind = "call" /\ refs' = refs /\ h.from = Own(c)
    BY DEF h
  <2> QED
    BY <2>1, <2>2, <2>3, StillMade
<1>4. \A i \in 1..Len(refs) : refs[i] \in Requests /\ Made(refs[i]) /\ (h.kind = "call" => refs[i] # h.from)
  BY <1>1 DEF Distinct, Types
<1>5. \A i \in 1..Len(mailbox') : mailbox'[i].kind = "call" =>
        /\ mailbox'[i].from \in Requests /\ Made(mailbox[i + 1].from)
        /\ h.kind = "call" => mailbox'[i].from # h.from
  BY <1>1, <1>2 DEF Distinct, Types
<1>6. \A i \in 1..Len(mailbox'), j \in 1..Len(mailbox') :
        mailbox'[i].kind = "call" /\ mailbox'[j].kind = "call" /\ mailbox'[i].from = mailbox'[j].from => i = j
  <2> SUFFICES ASSUME NEW i \in 1..Len(mailbox'), NEW j \in 1..Len(mailbox'),
                      mailbox'[i].kind = "call", mailbox'[j].kind = "call",
                      mailbox'[i].from = mailbox'[j].from
               PROVE  i = j
    OBVIOUS
  <2>1. i + 1 = j + 1
    BY <1>2 DEF Distinct
  <2> QED
    BY <2>1
<1>7. \A i \in 1..Len(mailbox') : (mailbox[i].kind = "call" => Made(mailbox[i].from))'
  <2> SUFFICES ASSUME NEW i \in 1..Len(mailbox'), mailbox'[i].kind = "call"
               PROVE  Made(mailbox[i].from)'
    OBVIOUS
  <2> PICK q \in Requests : q = mailbox'[i].from
    BY <1>5
  <2>1. Made(q)
    BY <1>2, <1>5
  <2>2. Made(q)'
    BY <2>1, <1>3, <1>5
  <2> QED
    BY <2>2 DEF Made
<1>8. \A i \in 1..Len(refs) : \A q : q = refs[i] => q \in Requests /\ Made(q)'
  BY <1>3, <1>4
<1>9. CASE refs' = refs
  <2>1. \A i \in 1..Len(refs) : Made(refs[i])'
    BY <1>8, <1>9 DEF Made
  <2>2. \A i \in 1..Len(mailbox'), j \in 1..Len(refs) :
          mailbox'[i].kind = "call" => mailbox'[i].from # refs[j]
    BY <1>2 DEF Distinct
  <2> QED
    BY <2>1, <2>2, <1>6, <1>7, <1>9 DEF Distinct
<1>10. CASE refs' # refs
  <2>1. h.kind = "call" /\ refs' = Append(refs, h.from)
    BY <1>10
  <2>2. h.from \in Requests /\ Made(h.from)
    BY <1>1, <2>1 DEF Types, Distinct
  <2>3. /\ Len(refs) \in Nat /\ Len(refs') = Len(refs) + 1
        /\ \A i \in 1..Len(refs) : refs'[i] = refs[i]
        /\ refs'[Len(refs) + 1] = h.from
    BY <2>1, <2>2, Appended DEF Types
  <2>4. \A i \in 1..Len(refs') :
           \/ i \in 1..Len(refs) /\ refs'[i] = refs[i]
           \/ i = Len(refs) + 1 /\ refs'[i] = h.from
    BY <2>3
  <2> HIDE DEF h
  <2>5. \A i \in 1..Len(refs') : (Made(refs[i]))'
    <3> SUFFICES ASSUME NEW i \in 1..Len(refs') PROVE Made(refs[i])'
      OBVIOUS
    <3> PICK q \in Requests : q = refs'[i] /\ Made(q)
      BY <2>2, <2>4, <1>4
    <3>1. Made(q)'
      BY <1>3, <1>10
    <3> QED
      BY <3>1 DEF Made
  <2>6. \A i, j \in 1..Len(refs') : refs'[i] = refs'[j] => i = j
    BY <2>1, <2>4, <1>4 DEF Distinct
  <2>7. \A i \in 1..Len(mailbox'), j \in 1..Len(refs') :
          mailbox'[i].kind = "call" => mailbox'[i].from # refs'[j]
    <3> SUFFICES ASSUME NEW i \in 1..Len(mailbox'), NEW j \in 1..Len(refs'), mailbox'[i].kind = "call"
                 PROVE  mailbox'[i].from # refs'[j]
      OBVIOUS
    <3>1. CASE j \in 1..Len(refs) /\ refs'[j] = refs[j]
      BY <3>1, <1>2 DEF Distinct
    <3>2. CASE refs'[j] = h.from
      BY <3>2, <1>5, <2>1
    <3> QED
      BY <3>1, <3>2, <2>4
  <2> QED
    BY <2>5, <2>6, <2>7, <1>6, <1>7 DEF Distinct
<1> QED
  BY <1>9, <1>10

-----------------------------------------------------------------------------
(* The invariant holds                                                      *)

Inv == Types /\ Distinct

LEMMA InitInv ==
  Init => Inv
<1> SUFFICES ASSUME Init PROVE Inv
  OBVIOUS
<1>1. Types
  BY FreshState DEF Init, Types, NewServer
<1>2. refs = <<>> /\ mailbox = <<>>
  BY DEF Init
<1>3. Len(refs) = 0 /\ Len(mailbox) = 0
  BY <1>2
<1> QED
  BY <1>1, <1>3 DEF Inv, Distinct

\* The types of what steps of the server leave alone.
LEMMA StepTypes ==
  ASSUME Types, callers' \in [Callers -> CallerStates],
         mailbox' \in Seq(Messages),
         \A i \in 1..Len(mailbox') : mailbox'[i].kind # "closed" => mailbox'[i].from \in Requests,
         refs' \in Seq(Requests), sockets' \in Nat,
         \/ UNCHANGED server
         \/ server' = NewServer
         \/ server' = [NewServer EXCEPT !.up = FALSE]
         \/ \E socket \in Nat, open \in BOOLEAN : server' = [server EXCEPT !.socket = socket, !.open = open]
         \/ \E open \in BOOLEAN : server' = [server EXCEPT !.open = open]
         \/ \E socket \in Nat, open \in BOOLEAN : \E requests :
              server' = [server EXCEPT !.socket = socket, !.open = open, !.requests = requests]
         \/ \E requests : server' = [server EXCEPT !.requests = requests],
         peer' \subseteq [socket: Nat, ref: Nat, from: Requests]
  PROVE  Types'
<1> DEFINE Server(s) ==
      /\ s.socket \in Nat
      /\ DOMAIN s = {"up", "socket", "open", "requests"} /\ s = [f \in DOMAIN s |-> s[f]]
<1>1. Server(server)
  BY DEF Types
<1>2. Server(NewServer) /\ Server([NewServer EXCEPT !.up = FALSE])
  BY DEF NewServer
<1>3. Server(server')
  BY <1>1, <1>2
<1> QED
  BY <1>3 DEF Types

LEMMA MailTypes ==
  ASSUME Types,
         \/ mailbox' \in {mailbox, <<>>}
         \/ mailbox # <<>> /\ mailbox' = Tail(mailbox)
         \/ \E m \in Messages : (m.kind # "closed" => m.from \in Requests) /\ mailbox' = Append(mailbox, m)
  PROVE  /\ mailbox' \in Seq(Messages)
         /\ \A i \in 1..Len(mailbox') : mailbox'[i].kind # "closed" => mailbox'[i].from \in Requests
<1>1. CASE mailbox' \in {mailbox, <<>>}
  <2>1. CASE mailbox' = mailbox
    BY <2>1 DEF Types
  <2>2. CASE mailbox' = <<>>
    <3>1. <<>> \in Seq(Messages) /\ Len(<<>>) = 0
      OBVIOUS
    <3> QED
      BY <2>2, <3>1
  <2> QED
    BY <1>1, <2>1, <2>2
<1>2. CASE mailbox # <<>> /\ mailbox' = Tail(mailbox)
  <2>1. /\ mailbox' \in Seq(Messages)
        /\ \A i \in 1..Len(mailbox') : i + 1 \in 1..Len(mailbox) /\ mailbox'[i] = mailbox[i + 1]
    BY <1>2, Rest DEF Types
  <2>2. \A i \in 1..Len(mailbox) : mailbox[i].kind # "closed" => mailbox[i].from \in Requests
    BY DEF Types
  <2> QED
    BY <2>1, <2>2
<1>3. CASE \E m \in Messages : (m.kind # "closed" => m.from \in Requests) /\ mailbox' = Append(mailbox, m)
  <2> PICK m \in Messages : (m.kind # "closed" => m.from \in Requests) /\ mailbox' = Append(mailbox, m)
    BY <1>3
  <2>1. /\ mailbox' \in Seq(Messages)
        /\ \A i \in 1..Len(mailbox') :
             (i \in 1..Len(mailbox) /\ mailbox'[i] = mailbox[i]) \/ mailbox'[i] = m
    BY Appended DEF Types
  <2>2. \A i \in 1..Len(mailbox) : mailbox[i].kind # "closed" => mailbox[i].from \in Requests
    BY DEF Types
  <2> HIDE DEF Requests
  <2> QED
    BY <2>1, <2>2
<1> QED
  BY <1>1, <1>2, <1>3

LEMMA HeadTypes ==
  ASSUME Types, NEW kinds, Handles(kinds)
  PROVE  /\ mailbox # <<>> /\ Head(mailbox) \in Messages /\ Head(mailbox).kind \in kinds
         /\ Head(mailbox).kind # "closed" => Head(mailbox).from \in Requests
BY Rest DEF Handles, Types

LEMMA BeginInv ==
  ASSUME Inv, NEW c \in Callers, Begin(c)
  PROVE  Inv'
<1>1. Types /\ Distinct
  BY DEF Inv
<1>2. Distinct' /\ callers' \in [Callers -> CallerStates]
  BY <1>1, BeginKeeps
<1>3. UNCHANGED <<mailbox, server, peer, sockets, refs>>
  BY DEF Begin
<1> QED
  BY <1>1, <1>2, <1>3 DEF Inv, Types

LEMMA CallInv ==
  ASSUME Inv, NEW c \in Callers, Call(c)
  PROVE  Inv'
<1>1. Types /\ Distinct
  BY DEF Inv
<1>2. Distinct' /\ callers' \in [Callers -> CallerStates]
  BY <1>1, CallKeeps
<1>3. UNCHANGED <<server, peer, sockets, refs>>
  BY DEF Call
<1>4. \/ mailbox' \in {mailbox, <<>>}
      \/ \E m \in Messages : (m.kind # "closed" => m.from \in Requests) /\ mailbox' = Append(mailbox, m)
  <2>1. Own(c) \in Requests
    BY <1>1 DEF Own, Requests, Types, CallerStates
  <2> DEFINE m == Message("call", 0, 0, Own(c))
  <2>2. m \in Messages /\ (m.kind # "closed" => m.from \in Requests)
    BY <2>1 DEF Message, Messages
  <2>3. mailbox' = mailbox \/ mailbox' = Append(mailbox, m)
    BY DEF Call
  <2> HIDE DEF m
  <2> QED
    BY <2>2, <2>3
<1>5. /\ mailbox' \in Seq(Messages)
      /\ \A i \in 1..Len(mailbox') : mailbox'[i].kind # "closed" => mailbox'[i].from \in Requests
  BY <1>1, <1>4, MailTypes
<1>6. refs' \in Seq(Requests) /\ sockets' \in Nat /\ peer' \subseteq [socket: Nat, ref: Nat, from: Requests]
  BY <1>1, <1>3 DEF Types
<1>7. Types'
  BY <1>1, <1>2, <1>3, <1>5, <1>6, StepTypes
<1> QED
  BY <1>2, <1>7 DEF Inv

LEMMA TimeOutInv ==
  ASSUME Inv, NEW c \in Callers, TimeOut(c)
  PROVE  Inv'
<1>1. Types /\ Distinct
  BY DEF Inv
<1>2. /\ callers' = [callers EXCEPT ![c] = End(c, "exit", Nothing)]
      /\ UNCHANGED <<mailbox, server, peer, sockets, refs>>
  BY DEF TimeOut
<1>3. callers' \in [Callers -> CallerStates] /\ Keep
  BY <1>1, <1>2, EndState DEF Types, Keep
<1>4. Distinct'
  BY <1>1, <1>2, <1>3, MoreMail, ClosedIsMessage
<1> QED
  BY <1>1, <1>2, <1>3, <1>4 DEF Inv, Types

\* What the server does with the message at the head.
LEMMA TakeInv ==
  ASSUME Inv, NEW kinds, Handles(kinds), mailbox' = Tail(mailbox),
         callers' \in [Callers -> CallerStates],
         \/ refs' = refs
         \/ Head(mailbox).kind = "call" /\ refs' = Append(refs, Head(mailbox).from),
         \A c \in Callers :
           /\ callers'[c].number = callers[c].number
           /\ callers[c].pc \in {"waiting", "ended"} =>
                \/ callers'[c].pc \in {"waiting", "ended"}
                \/ Head(mailbox).kind = "call" /\ refs' = refs /\ Head(mailbox).from = Own(c),
         sockets' \in {sockets, sockets + 1},
         \/ UNCHANGED server
         \/ \E socket \in Nat, open \in BOOLEAN : server' = [server EXCEPT !.socket = socket, !.open = open]
         \/ \E open \in BOOLEAN : server' = [server EXCEPT !.open = open]
         \/ \E socket \in Nat, open \in BOOLEAN : \E requests :
              server' = [server EXCEPT !.socket = socket, !.open = open, !.requests = requests]
         \/ \E requests : server' = [server EXCEPT !.requests = requests],
         peer' \subseteq [socket: Nat, ref: Nat, from: Requests]
  PROVE  Inv'
<1>1. Types /\ Distinct
  BY DEF Inv
<1>2. /\ mailbox # <<>> /\ Head(mailbox) \in Messages
      /\ Head(mailbox).kind # "closed" => Head(mailbox).from \in Requests
  BY <1>1, HeadTypes
<1>3. Distinct'
  BY <1>1, <1>2, TakeKeeps
<1>4. /\ mailbox' \in Seq(Messages)
      /\ \A i \in 1..Len(mailbox') : mailbox'[i].kind # "closed" => mailbox'[i].from \in Requests
  BY <1>1, <1>2, MailTypes
<1>5. refs' \in Seq(Requests) /\ sockets' \in Nat
  <2>1. refs \in Seq(Requests) /\ sockets \in Nat
    BY <1>1 DEF Types
  <2>2. sockets' \in Nat
    BY ONLY <2>1, sockets' \in {sockets, sockets + 1}
  <2>3. refs' = Append(refs, Head(mailbox).from) /\ Head(mailbox).kind = "call" => refs' \in Seq(Requests)
    <3>1. \A q \in Requests : Append(refs, q) \in Seq(Requests)
      BY <2>1, MoreRequests
    <3> QED
      BY <1>2, <3>1
  <2> QED
    BY <2>1, <2>2, <2>3
<1>6. Types'
  BY <1>1, <1>4, <1>5, StepTypes
<1> QED
  BY <1>3, <1>6 DEF Inv

LEMMA ConnectFailsInv ==
  ASSUME Inv, ConnectFails
  PROVE  Inv'
<1>1. Types
  BY DEF Inv
<1>2. Handles({"call"}) /\ mailbox' = Tail(mailbox) /\ UNCHANGED <<server, peer, sockets, refs>>
  BY DEF ConnectFails
<1>3. PICK from \in Requests : from = Head(mailbox).from
  BY <1>1, <1>2, HeadTypes
<1>4. Head(mailbox).kind = "call"
  BY <1>1, <1>2, HeadTypes
<1> DEFINE state == Retries(from.caller, "error_conn")
<1>5. Reply(from, state) /\ from.caller \in Callers
  BY <1>3 DEF ConnectFails, Requests
<1>6. state \in CallerStates /\ state.number = callers[from.caller].number
  BY <1>1, <1>5, RetryState
<1> HIDE DEF state
<1>7. /\ callers' \in [Callers -> CallerStates]
      /\ \A c \in Callers :
           \/ callers'[c] = callers[c]
           \/ from = Own(c) /\ callers[c].pc = "waiting" /\ callers'[c] = state
  BY <1>1, <1>5, <1>6, ReplyKeeps
<1>8. \A c \in Callers : from = Own(c) => c = from.caller
  BY DEF Own
<1>9. peer' \subseteq [socket: Nat, ref: Nat, from: Requests]
  BY <1>1, <1>2 DEF Types
<1> QED
  BY <1>2, <1>3, <1>4, <1>6, <1>7, <1>8, <1>9, TakeInv

\* The socket of a request.
LEMMA SocketType ==
  ASSUME Types
  PROVE  Socket \in Nat
BY DEF Types, Socket

LEMMA RequestFailsInv ==
  ASSUME Inv, RequestFails
  PROVE  Inv'
<1>1. Types
  BY DEF Inv
<1>2. /\ Handles({"call"}) /\ mailbox' = Tail(mailbox) /\ peer' = peer
      /\ \E open \in BOOLEAN : server' = [server EXCEPT !.socket = Socket, !.open = open]
      /\ sockets' \in {sockets, sockets + 1}
  BY DEF RequestFails
<1>3. PICK from \in Requests : from = Head(mailbox).from
  BY <1>1, <1>2, HeadTypes
<1>4. Head(mailbox).kind = "call"
  BY <1>1, <1>2, HeadTypes
<1> DEFINE state == Retries(from.caller, "error_req")
<1>5. Reply(from, state) /\ from.caller \in Callers /\ refs' = Append(refs, from)
  BY <1>3 DEF RequestFails, Requests
<1>6. state \in CallerStates /\ state.number = callers[from.caller].number /\ state.pc = "ended"
  BY <1>1, <1>5, RetryState
<1> HIDE DEF state
<1>7. /\ callers' \in [Callers -> CallerStates]
      /\ \A c \in Callers :
           \/ callers'[c] = callers[c]
           \/ from = Own(c) /\ callers[c].pc = "waiting" /\ callers'[c] = state
  BY <1>1, <1>5, <1>6, ReplyKeeps
<1>8. \A c \in Callers : from = Own(c) => c = from.caller
  BY DEF Own
<1>9. peer' \subseteq [socket: Nat, ref: Nat, from: Requests] /\ Socket \in Nat
  BY <1>1, <1>2, SocketType DEF Types
<1>10. \A c \in Callers :
        /\ callers'[c].number = callers[c].number
        /\ callers[c].pc \in {"waiting", "ended"} => callers'[c].pc \in {"waiting", "ended"}
  BY <1>6, <1>7, <1>8
<1> QED
  BY <1>2, <1>3, <1>4, <1>5, <1>7, <1>9, <1>10, TakeInv

LEMMA RequestInv ==
  ASSUME Inv, Request
  PROVE  Inv'
<1>1. Types
  BY DEF Inv
<1> DEFINE ref == Len(refs) + 1
<1>2. /\ Handles({"call"}) /\ mailbox' = Tail(mailbox) /\ callers' = callers
      /\ refs' = Append(refs, Head(mailbox).from)
      /\ sockets' \in {sockets, sockets + 1}
      /\ \/ peer' = peer \cup {[socket |-> Socket, ref |-> ref, from |-> Head(mailbox).from]}
         \/ peer' = peer
  BY DEF Request
<1>3. \E requests : server' = [server EXCEPT !.socket = Socket, !.open = TRUE, !.requests = requests]
  BY DEF Request
<1>4. Head(mailbox).kind = "call" /\ Head(mailbox).from \in Requests
  BY <1>1, <1>2, HeadTypes
<1>5. Socket \in Nat /\ ref \in Nat
  BY <1>1, SocketType DEF Types
<1>6. peer' \subseteq [socket: Nat, ref: Nat, from: Requests]
  BY <1>1, <1>2, <1>4, <1>5 DEF Types
<1>7. callers' \in [Callers -> CallerStates]
  BY <1>1, <1>2 DEF Types
<1> QED
  BY <1>2, <1>3, <1>4, <1>5, <1>6, <1>7, TakeInv

LEMMA UnknownInv ==
  ASSUME Inv, Unknown
  PROVE  Inv'
<1>1. Types
  BY DEF Inv
<1>2. /\ Handles({"done", "error", "closed"}) /\ mailbox' = Tail(mailbox)
      /\ UNCHANGED <<callers, server, peer, sockets, refs>>
  BY DEF Unknown
<1>3. callers' \in [Callers -> CallerStates] /\ peer' \subseteq [socket: Nat, ref: Nat, from: Requests]
  BY <1>1, <1>2 DEF Types
<1> QED
  BY <1>2, <1>3, TakeInv

LEMMA ReceiveClosedInv ==
  ASSUME Inv, ReceiveClosed
  PROVE  Inv'
<1>1. Types
  BY DEF Inv
<1>2. /\ Handles({"closed"}) /\ mailbox' = Tail(mailbox)
      /\ UNCHANGED <<callers, peer, sockets, refs>>
      /\ server' = [server EXCEPT !.open = FALSE]
  BY DEF ReceiveClosed, Current
<1>3. callers' \in [Callers -> CallerStates] /\ peer' \subseteq [socket: Nat, ref: Nat, from: Requests]
  BY <1>1, <1>2 DEF Types
<1> QED
  BY <1>2, <1>3, TakeInv

LEMMA ReceiveResponseInv ==
  ASSUME Inv, ReceiveResponse
  PROVE  Inv'
<1>1. Types
  BY DEF Inv
<1>2. /\ Handles({"done"}) /\ mailbox' = Tail(mailbox) /\ UNCHANGED <<peer, sockets, refs>>
      /\ \E requests : server' = [server EXCEPT !.requests = requests]
  BY DEF ReceiveResponse, Current
<1> DEFINE from == server.requests[Entry(Head(mailbox).ref)]
           state == End(from.caller, "ok", Head(mailbox).from)
<1>3. Reply(from, state)
  BY DEF ReceiveResponse
<1>4. Head(mailbox).from \in Requests
  BY <1>1, <1>2, HeadTypes
<1>5. from.caller \in Callers =>
        state \in CallerStates /\ state.number = callers[from.caller].number /\ state.pc = "ended"
  BY <1>1, <1>4, EndState
<1>6. \A c \in Callers : from = Own(c) => c = from.caller
  BY DEF Own
<1> HIDE DEF state, from
<1>7. /\ callers' \in [Callers -> CallerStates]
      /\ \A c \in Callers :
           \/ callers'[c] = callers[c]
           \/ from = Own(c) /\ callers[c].pc = "waiting" /\ callers'[c] = state
  BY <1>1, <1>3, <1>5, ReplyKeeps
<1>8. \A c \in Callers :
        /\ callers'[c].number = callers[c].number
        /\ callers[c].pc \in {"waiting", "ended"} => callers'[c].pc \in {"waiting", "ended"}
  BY <1>5, <1>6, <1>7
<1>9. peer' \subseteq [socket: Nat, ref: Nat, from: Requests]
  BY <1>1, <1>2 DEF Types
<1> QED
  BY <1>2, <1>7, <1>8, <1>9, TakeInv

\* What the peer and the network do, and the end of the server.
LEMMA MailInv ==
  ASSUME Inv, UNCHANGED <<callers, server, sockets, refs>>, peer' \subseteq peer,
         NEW m \in Messages, m.kind # "call", m.kind # "closed" => m.from \in Requests,
         mailbox' = Append(mailbox, m)
  PROVE  Inv'
<1>1. Types /\ Distinct
  BY DEF Inv
<1>2. callers' \in [Callers -> CallerStates] /\ Keep
  BY <1>1 DEF Types, Keep
<1>3. Distinct'
  BY <1>1, <1>2, MoreMail
<1>4. /\ mailbox' \in Seq(Messages)
      /\ \A i \in 1..Len(mailbox') : mailbox'[i].kind # "closed" => mailbox'[i].from \in Requests
  BY <1>1, MailTypes
<1>5. Types'
  BY <1>1, <1>2, <1>4 DEF Types
<1> QED
  BY <1>3, <1>5 DEF Inv

LEMMA PeerInv ==
  ASSUME Inv, SendResponse \/ SendError \/ CloseSocket
  PROVE  Inv'
<1>1. Types
  BY DEF Inv
<1>2. CASE SendResponse \/ SendError
  <2>1. PICK p \in peer, kind \in {"done", "error"} : Send(p, kind) /\ peer' = peer \ {p}
    BY <1>2 DEF SendResponse, SendError
  <2> DEFINE m == Message(kind, p.socket, p.ref, p.from)
  <2>2. m \in Messages /\ m.kind # "call" /\ m.from \in Requests
    BY <1>1 DEF Types, Message, Messages
  <2>3. mailbox' = Append(mailbox, m)
    BY <2>1 DEF Send
  <2>4. UNCHANGED <<callers, server, sockets, refs>> /\ peer' \subseteq peer
    BY <1>2, <2>1 DEF SendResponse, SendError
  <2> HIDE DEF m
  <2> QED
    BY <2>2, <2>3, <2>4, MailInv
<1>3. CASE CloseSocket
  <2> DEFINE m == Message("closed", server.socket, 0, Nothing)
  <2>1. m \in Messages /\ m.kind = "closed"
    BY <1>1 DEF Types, Message, Messages
  <2>2. mailbox' = Append(mailbox, m) /\ UNCHANGED <<callers, server, sockets, refs>> /\ peer' \subseteq peer
    BY <1>3 DEF CloseSocket
  <2> HIDE DEF m
  <2> QED
    BY <2>1, <2>2, MailInv
<1> QED
  BY <1>2, <1>3

LEMMA CrashInv ==
  ASSUME Inv, Crash \/ Restart
  PROVE  Inv'
<1>1. Types /\ Distinct
  BY DEF Inv
<1>2. /\ mailbox' \in {mailbox, <<>>} /\ UNCHANGED <<sockets, refs>> /\ peer' \subseteq peer
      /\ server' = NewServer \/ server' = [NewServer EXCEPT !.up = FALSE]
  BY DEF Crash, Restart
<1>3. callers' \in [Callers -> CallerStates] /\ Keep
  <2>1. CASE Crash
    <3>1. callers' = [c \in Callers |-> IF Waits(c) THEN End(c, "exit", Nothing) ELSE callers[c]]
      BY <2>1 DEF Crash
    <3>2. \A c \in Callers : callers'[c] \in CallerStates /\ callers'[c].number = callers[c].number
            /\ (callers[c].pc \in {"waiting", "ended"} => callers'[c].pc \in {"waiting", "ended"})
      BY <1>1, <3>1, EndState DEF Types
    <3> QED
      BY <3>1, <3>2 DEF Keep
  <2>2. CASE Restart
    BY <1>1, <2>2 DEF Restart, Types, Keep
  <2> QED
    BY <2>1, <2>2
<1>4. Distinct'
  BY <1>1, <1>2, <1>3, MoreMail, ClosedIsMessage
<1>5. /\ mailbox' \in Seq(Messages)
      /\ \A i \in 1..Len(mailbox') : mailbox'[i].kind # "closed" => mailbox'[i].from \in Requests
  BY <1>1, <1>2, MailTypes
<1>6. peer' \subseteq [socket: Nat, ref: Nat, from: Requests] /\ refs' \in Seq(Requests) /\ sockets' \in Nat
  BY <1>1, <1>2 DEF Types
<1>7. Types'
  BY <1>1, <1>2, <1>3, <1>5, <1>6, StepTypes
<1> QED
  BY <1>4, <1>7 DEF Inv

-----------------------------------------------------------------------------
(* Sent once                                                                *)

LEMMA NextInv ==
  Inv /\ [Next]_vars => Inv'
<1> SUFFICES ASSUME Inv, [Next]_vars PROVE Inv'
  OBVIOUS
<1>1. ASSUME NEW c \in Callers, Begin(c) \/ Call(c) \/ TimeOut(c) PROVE Inv'
  BY <1>1, BeginInv, CallInv, TimeOutInv
<1>2. CASE Handle
  BY <1>2, ConnectFailsInv, RequestFailsInv, RequestInv, UnknownInv, ReceiveResponseInv,
     ReceiveClosedInv, CrashInv DEF Handle
<1>3. CASE Restart
  BY <1>3, CrashInv
<1>4. CASE SendResponse \/ SendError \/ CloseSocket
  BY <1>4, PeerInv
<1>5. CASE UNCHANGED vars
  BY <1>5 DEF vars, Inv, Types, Distinct, Made
<1> QED
  BY <1>1, <1>2, <1>3, <1>4, <1>5 DEF Next

\* No request is handed to a connection twice, for any callers, tries and
\* connections: neither by request/6, which tries again, nor when a call is
\* handled after its caller has given up (httpc.ex:71-87, 107-131).
THEOREM RequestsSentOnce ==
  Spec => []SentOnce
<1>1. Inv => SentOnce
  BY DEF Inv, Types, Distinct, SentOnce
<1> QED
  BY <1>1, InitInv, NextInv, PTL DEF Spec

Answers == {"done", "error"}

-----------------------------------------------------------------------------
(* The invariant of answers                                                 *)

\* An answer that the peer may send or has sent: it is to the request that its
\* reference was made for, and the server awaits it on the present socket.
Known(x) ==
  /\ x.socket <= sockets
  /\ x.ref \in 1..Len(refs) /\ x.from = refs[x.ref]
  /\ x.socket = server.socket => x.ref \in DOMAIN server.requests

\* The server's own records.
Recorded ==
  /\ DOMAIN server.requests \subseteq 1..Len(refs)
  /\ \A r \in DOMAIN server.requests : server.requests[r] = refs[r]
  /\ server.socket <= sockets
  /\ ~server.up => peer = {} /\ mailbox = <<>>

\* There is one answer at most to each reference.
Awaited ==
  /\ \A p \in peer : Known(p)
  /\ \A i \in 1..Len(mailbox) : mailbox[i].kind \in Answers => Known(mailbox[i])
  /\ \A p, q \in peer : p.ref = q.ref => p = q
  /\ \A i, j \in 1..Len(mailbox) :
       mailbox[i].kind \in Answers /\ mailbox[j].kind \in Answers /\ mailbox[i].ref = mailbox[j].ref => i = j
  /\ \A i \in 1..Len(mailbox), p \in peer : mailbox[i].kind \in Answers => mailbox[i].ref # p.ref

-----------------------------------------------------------------------------
(* What the steps do                                                        *)

LEMMA KnownKept ==
  ASSUME Types, NEW x, x.socket \in Nat, Known(x),
         refs' = refs \/ \E q \in Requests : refs' = Append(refs, q),
         sockets' \in {sockets, sockets + 1},
         \/ /\ server'.socket = server.socket
            /\ x.ref \in DOMAIN server.requests => x.ref \in DOMAIN server'.requests
         \/ server'.socket = sockets + 1
  PROVE  Known(x)'
<1>1. sockets \in Nat /\ Len(refs) \in Nat
  BY DEF Types
<1>2. x.ref \in 1..Len(refs') /\ refs'[x.ref] = refs[x.ref]
  <2>1. CASE refs' = refs
    BY <2>1 DEF Known
  <2>2. CASE \E q \in Requests : refs' = Append(refs, q)
    BY <2>2, <1>1, Appended DEF Known, Types
  <2> QED
    BY <2>1, <2>2
<1>3. x.socket <= sockets'
  BY <1>1 DEF Known
<1>4. x.socket = server'.socket => x.ref \in DOMAIN server'.requests
  BY <1>1 DEF Known
<1> QED
  BY <1>2, <1>3, <1>4 DEF Known

\* The server takes the message at the head, and may give the peer a request
\* with a new reference.
LEMMA TakeAwaited ==
  ASSUME Types, Awaited, mailbox # <<>>, mailbox' = Tail(mailbox),
         \A p \in peer' : p \in peer \/ (p.ref = Len(refs) + 1 /\ Known(p)'),
         \A p, q \in peer' \ peer : p = q,
         refs' = refs \/ \E q \in Requests : refs' = Append(refs, q),
         sockets' \in {sockets, sockets + 1},
         \/ /\ server'.socket = server.socket
            /\ \A r \in DOMAIN server.requests :
                 \/ r \in DOMAIN server'.requests
                 \/ Head(mailbox).kind \in Answers /\ r = Head(mailbox).ref
         \/ server'.socket = sockets + 1
  PROVE  Awaited'
<1> DEFINE h == Head(mailbox)
<1>1. h = mailbox[1] /\ 1 \in 1..Len(mailbox)
  BY Rest DEF Types
<1>2. \A i \in 1..Len(mailbox') :
        i + 1 \in 1..Len(mailbox) /\ i + 1 # 1 /\ mailbox'[i] = mailbox[i + 1]
  BY Rest DEF Types
<1>3. \A x : x.socket \in Nat /\ Known(x) /\ (h.kind \in Answers => x.ref # h.ref) => Known(x)'
  <2> SUFFICES ASSUME NEW x, x.socket \in Nat, Known(x), h.kind \in Answers => x.ref # h.ref
               PROVE  Known(x)'
    OBVIOUS
  <2> QED
    BY KnownKept
<1>4. \A p \in peer : p.socket \in Nat /\ Known(p) /\ (h.kind \in Answers => p.ref # h.ref)
  BY <1>1 DEF Types, Awaited
<1>5. \A p \in peer' : Known(p)'
  BY <1>3, <1>4
<1>6. \A i \in 1..Len(mailbox') : mailbox'[i].kind \in Answers =>
        /\ mailbox'[i].socket \in Nat /\ Known(mailbox[i + 1])
        /\ h.kind \in Answers => mailbox'[i].ref # h.ref
  <2> SUFFICES ASSUME NEW i \in 1..Len(mailbox'), mailbox'[i].kind \in Answers
               PROVE  /\ mailbox'[i].socket \in Nat /\ Known(mailbox[i + 1])
                      /\ h.kind \in Answers => mailbox'[i].ref # h.ref
    OBVIOUS
  <2>1. i + 1 \in 1..Len(mailbox) /\ mailbox[i + 1] \in Messages /\ mailbox[i + 1].kind \in Answers
    BY <1>2 DEF Types
  <2>2. mailbox'[i].socket \in Nat
    BY <1>2, <2>1 DEF Messages
  <2>3. Known(mailbox[i + 1])
    BY <2>1 DEF Awaited
  <2>4. h.kind \in Answers => mailbox[i + 1].ref # h.ref
    BY <1>1, <1>2, <2>1 DEF Awaited
  <2> QED
    BY <1>2, <2>2, <2>3, <2>4
<1>7. \A i \in 1..Len(mailbox') : (mailbox[i].kind \in Answers => Known(mailbox[i]))'
  <2> SUFFICES ASSUME NEW i \in 1..Len(mailbox'), mailbox'[i].kind \in Answers
               PROVE  Known(mailbox[i])'
    OBVIOUS
  <2>1. \A x : x = mailbox'[i] => Known(x)'
    <3> SUFFICES ASSUME NEW x, x = mailbox'[i] PROVE Known(x)'
      OBVIOUS
    <3>1. Known(x)
      BY <1>2, <1>6
    <3> QED
      BY <3>1, <1>3, <1>6
  <2> QED
    BY <2>1 DEF Known
<1>8. \A p, q \in peer' : p.ref = q.ref => p = q
  <2>1. \A p \in peer : p.ref # Len(refs) + 1
    BY DEF Awaited, Known, Types
  <2> QED
    BY <2>1 DEF Awaited
<1>9. \A i, j \in 1..Len(mailbox') :
        mailbox'[i].kind \in Answers /\ mailbox'[j].kind \in Answers /\ mailbox'[i].ref = mailbox'[j].ref => i = j
  <2> SUFFICES ASSUME NEW i \in 1..Len(mailbox'), NEW j \in 1..Len(mailbox'),
                      mailbox'[i].kind \in Answers, mailbox'[j].kind \in Answers,
                      mailbox'[i].ref = mailbox'[j].ref
               PROVE  i = j
    OBVIOUS
  <2>1. i + 1 = j + 1
    BY <1>2 DEF Awaited
  <2> QED
    BY <2>1
<1>10. \A i \in 1..Len(mailbox'), p \in peer' : mailbox'[i].kind \in Answers => mailbox'[i].ref # p.ref
  <2> SUFFICES ASSUME NEW i \in 1..Len(mailbox'), NEW p \in peer', mailbox'[i].kind \in Answers
               PROVE  mailbox'[i].ref # p.ref
    OBVIOUS
  <2>1. CASE p \in peer
    BY <2>1, <1>2 DEF Awaited
  <2>2. CASE p.ref = Len(refs) + 1
    <3>1. mailbox'[i].ref \in 1..Len(refs)
      BY <1>2, <1>6 DEF Known
    <3> QED
      BY <2>2, <3>1 DEF Types
  <2> QED
    BY <2>1, <2>2
<1> QED
  BY <1>5, <1>7, <1>8, <1>9, <1>10 DEF Awaited

\* A message is put in the mailbox: if it is an answer, the peer had it.
LEMMA MailAwaited ==
  ASSUME Types, Awaited, UNCHANGED <<server, refs, sockets>>, peer' \subseteq peer,
         NEW m \in Messages, mailbox' \in {mailbox, Append(mailbox, m)},
         m.kind \in Answers =>
           \E p \in peer \ peer' : m.socket = p.socket /\ m.ref = p.ref /\ m.from = p.from
  PROVE  Awaited'
<1>1. \A x : Known(x) => Known(x)'
  BY DEF Known
<1>2. Len(mailbox) \in Nat
  BY DEF Types
<1>3. \A i \in 1..Len(mailbox') :
        \/ i \in 1..Len(mailbox) /\ mailbox'[i] = mailbox[i]
        \/ i = Len(mailbox) + 1 /\ mailbox'[i] = m
  BY Appended DEF Types
<1>4. m.kind \in Answers =>
        /\ Known(m)
        /\ \A p \in peer' : m.ref # p.ref
        /\ \A i \in 1..Len(mailbox) : mailbox[i].kind \in Answers => m.ref # mailbox[i].ref
  <2> SUFFICES ASSUME NEW p \in peer \ peer', m.socket = p.socket, m.ref = p.ref, m.from = p.from
               PROVE  /\ Known(m)
                      /\ \A q \in peer' : m.ref # q.ref
                      /\ \A i \in 1..Len(mailbox) : mailbox[i].kind \in Answers => m.ref # mailbox[i].ref
    OBVIOUS
  <2>1. Known(m)
    BY DEF Awaited, Known
  <2> QED
    BY <2>1 DEF Awaited
<1>5. \A p \in peer' : Known(p)'
  BY <1>1 DEF Awaited
<1>6. \A i \in 1..Len(mailbox') : (mailbox[i].kind \in Answers => Known(mailbox[i]))'
  <2> SUFFICES ASSUME NEW i \in 1..Len(mailbox'), mailbox'[i].kind \in Answers
               PROVE  Known(mailbox[i])'
    OBVIOUS
  <2>1. \A x : x = mailbox'[i] => Known(x)
    BY <1>3, <1>4 DEF Awaited
  <2>2. \A x : x = mailbox'[i] => Known(x)'
    BY <1>1, <2>1
  <2> QED
    BY <2>2 DEF Known
<1>7. \A p, q \in peer' : p.ref = q.ref => p = q
  BY DEF Awaited
<1>8. \A i, j \in 1..Len(mailbox') :
        mailbox'[i].kind \in Answers /\ mailbox'[j].kind \in Answers /\ mailbox'[i].ref = mailbox'[j].ref => i = j
  BY <1>3, <1>4 DEF Awaited
<1>9. \A i \in 1..Len(mailbox'), p \in peer' : mailbox'[i].kind \in Answers => mailbox'[i].ref # p.ref
  BY <1>3, <1>4 DEF Awaited
<1> QED
  BY <1>5, <1>6, <1>7, <1>8, <1>9 DEF Awaited

\* Only the end of a response sets an answer.
LEMMA OwnKept ==
  ASSUME OwnResponse,
         \A c \in Callers : callers'[c].result = "ok" =>
           \/ /\ callers[c].result = "ok" /\ callers'[c].answer = callers[c].answer
              /\ callers'[c].number = callers[c].number
           \/ callers'[c].answer = [caller |-> c, number |-> callers'[c].number]
  PROVE  OwnResponse'
BY DEF OwnResponse, Own

\* A reply that is no response.
LEMMA ErrorKeepsOwn ==
  ASSUME Types, OwnResponse, NEW from, from.caller \in Callers, NEW result, Reply(from, Retries(from.caller, result))
  PROVE  OwnResponse'
<1> DEFINE c == from.caller
           state == Retries(c, result)
<1>1. /\ state \in CallerStates /\ state.number = callers[c].number
      /\ state.result = "ok" => callers[c].result = "ok" /\ state.answer = callers[c].answer
  BY RetryState
<1>2. Reply(from, state)
  OBVIOUS
<1>3. \A d \in Callers : from = Own(d) => d = c
  BY DEF Own
<1> HIDE DEF state, c
<1>4. \A d \in Callers :
        \/ callers'[d] = callers[d]
        \/ from = Own(d) /\ callers[d].pc = "waiting" /\ callers'[d] = state
  BY <1>1, <1>2, ReplyKeeps DEF c
<1> QED
  BY <1>1, <1>3, <1>4, OwnKept

LEMMA ServerFields ==
  ASSUME Types, NEW socket, NEW open, NEW requests
  PROVE  /\ LET s == [server EXCEPT !.socket = socket, !.open = open]
            IN s.up = server.up /\ s.socket = socket /\ s.requests = server.requests
         /\ LET s == [server EXCEPT !.open = open]
            IN s.up = server.up /\ s.socket = server.socket /\ s.requests = server.requests
         /\ LET s == [server EXCEPT !.socket = socket, !.open = open, !.requests = requests]
            IN s.up = server.up /\ s.socket = socket /\ s.requests = requests
         /\ LET s == [server EXCEPT !.requests = requests]
            IN s.up = server.up /\ s.socket = server.socket /\ s.requests = requests
BY DEF Types

-----------------------------------------------------------------------------
(* The actions                                                              *)

Whole == Recorded /\ Awaited /\ OwnResponse

LEMMA InitWhole ==
  Init => Whole
<1> SUFFICES ASSUME Init PROVE Whole
  OBVIOUS
<1>1. Len(mailbox) = 0 /\ mailbox = <<>> /\ peer = {} /\ DOMAIN server.requests = {} /\ server.socket = 0 /\ sockets = 0
  BY DEF Init, NewServer
<1>2. OwnResponse
  BY DEF Init, Fresh, OwnResponse
<1> QED
  BY <1>1, <1>2 DEF Whole, Recorded, Awaited

LEMMA CallersWhole ==
  ASSUME Types, Whole, NEW c \in Callers, Begin(c) \/ Call(c) \/ TimeOut(c)
  PROVE  Whole'
<1>1. Recorded /\ Awaited /\ OwnResponse
  BY DEF Whole
<1>2. UNCHANGED <<server, refs, sockets, peer>>
  BY DEF Begin, Call, TimeOut
<1> DEFINE m == Message("call", 0, 0, Own(c))
<1>3. m \in Messages /\ m.kind \notin Answers
  BY DEF Message, Messages, Own, Requests, Types, CallerStates, Answers
<1>4. mailbox' \in {mailbox, Append(mailbox, m)} /\ (~server.up => mailbox' = mailbox)
  BY DEF Begin, Call, TimeOut
<1> HIDE DEF m
<1>5. Awaited'
  BY <1>1, <1>2, <1>3, <1>4, MailAwaited
<1>6. Recorded'
  BY <1>1, <1>2, <1>4 DEF Recorded
<1>7. OwnResponse'
  <2>1. CASE Begin(c)
    <3>1. callers' = [callers EXCEPT ![c] = [Fresh EXCEPT !.pc = "asleep", !.number = callers[c].number + 1]]
      BY <2>1 DEF Begin
    <3>2. [Fresh EXCEPT !.pc = "asleep", !.number = callers[c].number + 1].result = "none"
      BY DEF Fresh
    <3>3. callers'[c].result = "none" /\ \A d \in Callers : d # c => callers'[d] = callers[d]
      BY <3>1, <3>2 DEF Types
    <3> QED
      BY <1>1, <3>3, OwnKept
  <2>2. CASE callers' = [callers EXCEPT ![c] = End(c, "exit", Nothing)]
    <3>1. End(c, "exit", Nothing).result = "exit"
      BY EndState
    <3>2. callers'[c].result = "exit" /\ \A d \in Callers : d # c => callers'[d] = callers[d]
      BY <2>2, <3>1 DEF Types
    <3> QED
      BY <1>1, <3>2, OwnKept
  <2>3. CASE callers' = [callers EXCEPT ![c].pc = "waiting", ![c].tries = @ + 1]
    <3>1. \A d \in Callers : /\ callers'[d].result = callers[d].result /\ callers'[d].answer = callers[d].answer
                             /\ callers'[d].number = callers[d].number
      BY <2>3 DEF Types, CallerStates
    <3> QED
      BY <1>1, <3>1, OwnKept
  <2> QED
    BY <2>1, <2>2, <2>3 DEF Call, TimeOut
<1> QED
  BY <1>5, <1>6, <1>7 DEF Whole

LEMMA PeerWhole ==
  ASSUME Types, Whole, SendResponse \/ SendError \/ CloseSocket
  PROVE  Whole'
<1>1. Recorded /\ Awaited /\ OwnResponse
  BY DEF Whole
<1>2. UNCHANGED <<server, refs, sockets, callers>> /\ peer' \subseteq peer
  BY DEF SendResponse, SendError, CloseSocket
<1>3. OwnResponse'
  BY <1>1, <1>2 DEF OwnResponse, Own
<1>4. CASE SendResponse \/ SendError
  <2>1. PICK p \in peer, kind \in {"done", "error"} : Send(p, kind) /\ peer' = peer \ {p}
    BY <1>4 DEF SendResponse, SendError
  <2> DEFINE m == Message(kind, p.socket, p.ref, p.from)
  <2>2. m \in Messages /\ m.socket = p.socket /\ m.ref = p.ref /\ m.from = p.from
    BY DEF Types, Message, Messages
  <2>3. mailbox' = Append(mailbox, m) /\ p \in peer \ peer'
    BY <2>1 DEF Send
  <2> HIDE DEF m
  <2>4. Awaited'
    BY <1>1, <1>2, <2>2, <2>3, MailAwaited
  <2>5. Recorded'
    BY <1>1, <1>2, <2>3 DEF Recorded
  <2> QED
    BY <1>3, <2>4, <2>5 DEF Whole
<1>5. CASE CloseSocket
  <2> DEFINE m == Message("closed", server.socket, 0, Nothing)
  <2>1. m \in Messages /\ m.kind \notin Answers
    BY DEF Types, Message, Messages, Answers
  <2>2. mailbox' = Append(mailbox, m) /\ server.up
    BY <1>5 DEF CloseSocket
  <2> HIDE DEF m
  <2>3. Awaited'
    BY <1>1, <1>2, <2>1, <2>2, MailAwaited
  <2>4. Recorded'
    BY <1>1, <1>2, <2>2 DEF Recorded
  <2> QED
    BY <1>3, <2>3, <2>4 DEF Whole
<1> QED
  BY <1>4, <1>5

LEMMA CrashWhole ==
  ASSUME Types, Whole, Crash \/ Restart
  PROVE  Whole'
<1>1. Recorded /\ Awaited /\ OwnResponse
  BY DEF Whole
<1>2. /\ UNCHANGED <<refs, sockets>> /\ peer' = {} /\ mailbox' = <<>>
      /\ server' = NewServer \/ server' = [NewServer EXCEPT !.up = FALSE]
  BY <1>1 DEF Crash, Restart, Recorded
<1>3. Len(mailbox') = 0 /\ DOMAIN server'.requests = {} /\ server'.socket = 0 /\ sockets' \in Nat
  BY <1>2 DEF NewServer, Types
<1>4. Recorded' /\ Awaited'
  BY <1>2, <1>3 DEF Recorded, Awaited
<1>5. OwnResponse'
  <2>1. CASE Crash
    <3>1. callers' = [c \in Callers |-> IF Waits(c) THEN End(c, "exit", Nothing) ELSE callers[c]]
      BY <2>1 DEF Crash
    <3>2. \A c \in Callers : callers'[c] = callers[c] \/ callers'[c].result = "exit"
      BY <3>1, EndState
    <3> QED
      BY <1>1, <3>2, OwnKept
  <2>2. CASE Restart
    BY <1>1, <2>2 DEF Restart, OwnResponse, Own
  <2> QED
    BY <2>1, <2>2
<1> QED
  BY <1>4, <1>5 DEF Whole

\* What the server does with a call or with the end of its connection.
LEMMA HandleWhole ==
  ASSUME Types, Whole, ConnectFails \/ Unknown \/ ReceiveClosed
  PROVE  Whole'
<1>1. Recorded /\ Awaited /\ OwnResponse
  BY DEF Whole
<1>2. /\ mailbox # <<>> /\ mailbox' = Tail(mailbox) /\ server.up
      /\ UNCHANGED <<refs, sockets, peer>>
      /\ server' = server \/ server' = [server EXCEPT !.open = FALSE]
  BY DEF ConnectFails, Unknown, ReceiveClosed, Current, Handles
<1>3. server'.up = server.up /\ server'.socket = server.socket /\ server'.requests = server.requests
  <2>1. CASE server' = server
    BY <2>1
  <2>2. CASE server' = [server EXCEPT !.open = FALSE]
    BY <2>2, ServerFields
  <2> QED
    BY <1>2, <2>1, <2>2
<1>4. Recorded'
  BY <1>1, <1>2, <1>3 DEF Recorded
<1>5. CASE ConnectFails
  <2>1. Head(mailbox).from \in Requests /\ Reply(Head(mailbox).from, Retries(Head(mailbox).from.caller, "error_conn"))
    BY <1>5, HeadTypes DEF ConnectFails
  <2>2. OwnResponse'
    BY <1>1, <2>1, ErrorKeepsOwn DEF Requests
  <2>3. Awaited'
    BY <1>1, <1>2, <1>3, TakeAwaited
  <2> QED
    BY <1>4, <2>2, <2>3 DEF Whole
<1>6. CASE Unknown \/ ReceiveClosed
  <2>1. callers' = callers
    BY <1>6 DEF Unknown, ReceiveClosed
  <2>2. OwnResponse'
    BY <1>1, <2>1 DEF OwnResponse, Own
  <2>3. Awaited'
    BY <1>1, <1>2, <1>3, TakeAwaited
  <2> QED
    BY <1>4, <2>2, <2>3 DEF Whole
<1> QED
  BY <1>5, <1>6

LEMMA RequestFailsWhole ==
  ASSUME Types, Whole, RequestFails
  PROVE  Whole'
<1>1. Recorded /\ Awaited /\ OwnResponse
  BY DEF Whole
<1>2. /\ Handles({"call"}) /\ mailbox # <<>> /\ mailbox' = Tail(mailbox) /\ server.up /\ peer' = peer
      /\ \/ Socket = server.socket /\ sockets' = sockets
         \/ Socket = sockets + 1 /\ sockets' = sockets + 1
  BY DEF RequestFails, Handles, Socket
<1>3. PICK q \in Requests : q = Head(mailbox).from
  BY <1>2, HeadTypes
<1>4. refs' = Append(refs, q) /\ Reply(q, Retries(q.caller, "error_req"))
  BY <1>3 DEF RequestFails
<1>5. server'.up = server.up /\ server'.socket = Socket /\ server'.requests = server.requests
  BY ServerFields DEF RequestFails
<1>6. /\ Len(refs') = Len(refs) + 1 /\ Len(refs) \in Nat /\ sockets \in Nat
      /\ \A i \in 1..Len(refs) : refs'[i] = refs[i]
  BY <1>4, Appended DEF Types
<1>7. Recorded'
  BY <1>1, <1>2, <1>5, <1>6 DEF Recorded
<1>8. OwnResponse'
  BY <1>1, <1>4, ErrorKeepsOwn DEF Requests
<1>9. Awaited'
  <2>1. \/ /\ server'.socket = server.socket
           /\ \A r \in DOMAIN server.requests : r \in DOMAIN server'.requests
        \/ server'.socket = sockets + 1
    BY <1>2, <1>5
  <2> QED
    BY <1>1, <1>2, <1>4, <2>1, TakeAwaited
<1> QED
  BY <1>7, <1>8, <1>9 DEF Whole

LEMMA RequestWhole ==
  ASSUME Types, Whole, Request
  PROVE  Whole'
<1>1. Recorded /\ Awaited /\ OwnResponse
  BY DEF Whole
<1> DEFINE ref == Len(refs) + 1
<1>2. /\ Handles({"call"}) /\ mailbox # <<>> /\ mailbox' = Tail(mailbox) /\ server.up /\ callers' = callers
      /\ \/ Socket = server.socket /\ sockets' = sockets
         \/ Socket = sockets + 1 /\ sockets' = sockets + 1
  BY DEF Request, Handles, Socket
<1>3. PICK q \in Requests : q = Head(mailbox).from
  BY <1>2, HeadTypes
<1>4. /\ refs' = Append(refs, q)
      /\ peer' = peer \cup {[socket |-> Socket, ref |-> ref, from |-> q]} \/ peer' = peer
  BY <1>3 DEF Request
<1>5. PICK requests : /\ requests = [r \in DOMAIN server.requests \cup {ref} |->
                                       IF r = ref THEN q ELSE server.requests[r]]
                     /\ server' = [server EXCEPT !.socket = Socket, !.open = TRUE, !.requests = requests]
  BY <1>3 DEF Request
<1>6. server'.up = server.up /\ server'.socket = Socket /\ server'.requests = requests
  BY <1>5, ServerFields
<1>7. /\ Len(refs') = Len(refs) + 1 /\ Len(refs) \in Nat /\ sockets \in Nat
      /\ \A i \in 1..Len(refs) : refs'[i] = refs[i]
      /\ refs'[ref] = q
  BY <1>4, Appended DEF Types
<1>8. DOMAIN requests = DOMAIN server.requests \cup {ref} /\ ref \in 1..Len(refs')
  BY <1>5, <1>7
<1>9. \A r \in DOMAIN requests : requests[r] = refs'[r]
  BY <1>1, <1>5, <1>7 DEF Recorded
<1>10. Socket <= sockets'
  BY <1>1, <1>2, <1>7 DEF Recorded
<1>11. Recorded'
  BY <1>1, <1>2, <1>6, <1>7, <1>8, <1>9, <1>10 DEF Recorded
<1>12. OwnResponse'
  BY <1>1, <1>2 DEF OwnResponse, Own
<1>13. \A p \in peer' : p \in peer \/ (p.ref = Len(refs) + 1 /\ Known(p)')
  <2> SUFFICES ASSUME NEW p, p = [socket |-> Socket, ref |-> ref, from |-> q]
               PROVE  p.ref = Len(refs) + 1 /\ Known(p)'
    BY <1>4
  <2> QED
    BY <1>6, <1>7, <1>8, <1>10 DEF Known
<1>14. \A p, r \in peer' \ peer : p = r
  BY <1>4
<1>15. \/ /\ server'.socket = server.socket
           /\ \A r \in DOMAIN server.requests : r \in DOMAIN server'.requests
       \/ server'.socket = sockets + 1
  BY <1>2, <1>6, <1>8
<1>16. Awaited'
  BY <1>1, <1>2, <1>4, <1>13, <1>14, <1>15, TakeAwaited
<1> QED
  BY <1>11, <1>12, <1>16 DEF Whole

\* The entry of the reference is there, and is the request that the response
\* is for.
LEMMA ReceiveResponseWhole ==
  ASSUME Types, Whole, ReceiveResponse
  PROVE  Whole'
<1>1. Recorded /\ Awaited /\ OwnResponse
  BY DEF Whole
<1> DEFINE h == Head(mailbox)
           ref == h.ref
           from == server.requests[ref]
           state == End(from.caller, "ok", h.from)
<1>2. /\ Handles({"done"}) /\ mailbox # <<>> /\ mailbox' = Tail(mailbox) /\ server.up
      /\ h.socket = server.socket /\ h.kind = "done"
      /\ UNCHANGED <<peer, refs, sockets>>
  BY DEF ReceiveResponse, Current, Handles
<1>3. Reply(from, state) /\ server' = [server EXCEPT !.requests = Restrict(server.requests, DOMAIN server.requests \ {ref})]
  BY DEF ReceiveResponse, Entry
<1>4. h = mailbox[1] /\ 1 \in 1..Len(mailbox) /\ h.from \in Requests
  BY <1>2, Rest, HeadTypes DEF Types
<1>5. Known(h)
  BY <1>1, <1>2, <1>4 DEF Awaited, Answers
<1>6. ref \in DOMAIN server.requests /\ from = h.from
  BY <1>1, <1>2, <1>5 DEF Known, Recorded
<1>7. PICK requests : requests = Restrict(server.requests, DOMAIN server.requests \ {ref})
  OBVIOUS
<1>8. server'.up = server.up /\ server'.socket = server.socket /\ server'.requests = requests
  BY <1>3, <1>7, ServerFields
<1>9. /\ DOMAIN requests = DOMAIN server.requests \ {ref}
      /\ \A r \in DOMAIN requests : requests[r] = server.requests[r]
  BY <1>7 DEF Restrict
<1>10. Recorded'
  BY <1>1, <1>2, <1>8, <1>9 DEF Recorded
<1>11. from.caller \in Callers
  BY <1>4, <1>6 DEF Requests
<1>12. /\ state \in CallerStates /\ state.number = callers[from.caller].number
       /\ state.result = "ok" /\ state.answer = from
  BY <1>4, <1>6, <1>11, EndState
<1>13. \A c \in Callers : from = Own(c) => from = [caller |-> c, number |-> callers[c].number] /\ c = from.caller
  BY DEF Own
<1>14. \A r \in DOMAIN server.requests :
         r \in DOMAIN server'.requests \/ (h.kind \in Answers /\ r = h.ref)
  BY <1>2, <1>8, <1>9 DEF Answers
<1> HIDE DEF state, from
<1>15. \A c \in Callers :
         \/ callers'[c] = callers[c]
         \/ from = Own(c) /\ callers[c].pc = "waiting" /\ callers'[c] = state
  BY <1>3, <1>12, ReplyKeeps
<1>16. OwnResponse'
  BY <1>1, <1>12, <1>13, <1>15, OwnKept
<1>17. Awaited'
  BY <1>1, <1>2, <1>8, <1>14, TakeAwaited
<1> QED
  BY <1>10, <1>16, <1>17 DEF Whole

-----------------------------------------------------------------------------
(* Own responses                                                            *)

LEMMA NextWhole ==
  Inv /\ Whole /\ [Next]_vars => Whole'
<1> SUFFICES ASSUME Inv, Whole, [Next]_vars PROVE Whole'
  OBVIOUS
<1>1. Types
  BY DEF Inv
<1>2. ASSUME NEW c \in Callers, Begin(c) \/ Call(c) \/ TimeOut(c) PROVE Whole'
  BY <1>1, <1>2, CallersWhole
<1>3. CASE Handle
  BY <1>1, <1>3, HandleWhole, RequestFailsWhole, RequestWhole, ReceiveResponseWhole, CrashWhole DEF Handle
<1>4. CASE Restart
  BY <1>1, <1>4, CrashWhole
<1>5. CASE SendResponse \/ SendError \/ CloseSocket
  BY <1>1, <1>5, PeerWhole
<1>6. CASE UNCHANGED vars
  BY <1>6 DEF vars, Whole, Recorded, Awaited, Known, OwnResponse, Own
<1> QED
  BY <1>2, <1>3, <1>4, <1>5, <1>6 DEF Next

\* Whoever gets a response gets that to its own request, for any callers, tries
\* and connections, whatever fails, closes, restarts or comes late and in
\* whatever order answers come (httpc.ex:113-169).
THEOREM ResponsesAreOwn ==
  Spec => []OwnResponse
<1>1. Init => Inv /\ Whole
  BY InitInv, InitWhole
<1>2. Inv /\ Whole /\ [Next]_vars => (Inv /\ Whole)'
  BY NextInv, NextWhole
<1>3. Inv /\ Whole => OwnResponse
  BY DEF Whole
<1> QED
  BY <1>1, <1>2, <1>3, PTL DEF Spec

-----------------------------------------------------------------------------
(* Types                                                                    *)

Results == {"ok", "error", "exit"}

\* Who sleeps has a try left; who has ended, and no one else, has a result.
Sound(s) ==
  /\ s.tries \in 0..MaxTries
  /\ s.pc = "asleep" => s.tries < MaxTries
  /\ s.pc = "ended" <=> s.result \in Results

Counted ==
  /\ \A c \in Callers : Sound(callers[c])
  /\ server.open => server.socket = sockets

LEMMA EndSound ==
  ASSUME Types, NEW c \in Callers, Sound(callers[c]), NEW result \in Results,
         NEW answer \in Requests \cup {Nothing}
  PROVE  Sound(End(c, result, answer))
BY DEF End, Types, CallerStates, Sound, Results

LEMMA RetrySound ==
  ASSUME Types, NEW c \in Callers, Sound(callers[c]), Waits(c), NEW result
  PROVE  Sound(Retries(c, result))
<1>1. CASE result = "error_conn" /\ callers[c].tries < MaxTries
  BY <1>1 DEF Retries, Types, CallerStates, Sound, Waits, Results
<1>2. CASE ~(result = "error_conn" /\ callers[c].tries < MaxTries)
  BY <1>2, EndSound DEF Retries, Results
<1> QED
  BY <1>1, <1>2

LEMMA ReplySound ==
  ASSUME Types, Counted, NEW from \in Requests, NEW state, Reply(from, state),
         Waits(from.caller) => Sound(state)
  PROVE  \A c \in Callers : Sound(callers'[c])
<1>1. from.caller \in Callers
  BY DEF Requests
<1> QED
  BY <1>1 DEF Reply, Types, Counted

LEMMA CallerSound ==
  ASSUME Types, Counted, NEW c \in Callers, Begin(c) \/ Call(c) \/ TimeOut(c)
  PROVE  \A d \in Callers : Sound(callers'[d])
<1>1. /\ callers[c] \in CallerStates /\ Sound(callers[c]) /\ callers[c].number \in Nat
      /\ callers[c].tries + 1 \in Nat
  BY DEF Types, Counted, CallerStates
<1>2. ASSUME NEW s, callers' = [callers EXCEPT ![c] = s], Sound(s)
      PROVE  \A d \in Callers : Sound(callers'[d])
  BY <1>2 DEF Types, Counted
<1>3. CASE Begin(c)
  <2> DEFINE s == [Fresh EXCEPT !.pc = "asleep", !.number = callers[c].number + 1]
  <2>1. Sound(s)
    BY <1>1, MaxTriesAssumption DEF Sound, Fresh, Results
  <2>2. callers' = [callers EXCEPT ![c] = s]
    BY <1>3 DEF Begin
  <2> HIDE DEF s
  <2> QED
    BY <1>2, <2>1, <2>2
<1>4. CASE Call(c) /\ server.up
  <2> DEFINE s == [callers[c] EXCEPT !.pc = "waiting", !.tries = @ + 1]
  <2>1. callers[c].pc = "asleep" /\ callers' = [callers EXCEPT ![c] = s]
    BY <1>4 DEF Call, Types
  <2>2. s.pc = "waiting" /\ s.tries = callers[c].tries + 1 /\ s.result = callers[c].result
    BY <1>1 DEF CallerStates
  <2> HIDE DEF s
  <2>3. Sound(s)
    BY <1>1, <2>1, <2>2, MaxTriesAssumption DEF Sound
  <2> QED
    BY <1>2, <2>1, <2>3
<1>5. CASE (Call(c) /\ ~server.up) \/ TimeOut(c)
  <2>1. callers' = [callers EXCEPT ![c] = End(c, "exit", Nothing)]
    BY <1>5 DEF Call, TimeOut
  <2>2. Sound(End(c, "exit", Nothing))
    BY <1>1, EndSound DEF Results
  <2> QED
    BY <1>2, <2>1, <2>2
<1> QED
  BY <1>3, <1>4, <1>5

\* The socket that a request opens is the newest.
LEMMA OpenedLast ==
  ASSUME Types, Counted, NEW open, NEW requests,
         \/ server' = [server EXCEPT !.socket = Socket, !.open = open]
         \/ server' = [server EXCEPT !.socket = Socket, !.open = open, !.requests = requests],
         sockets' = IF server.open THEN sockets ELSE sockets + 1
  PROVE  server'.open => server'.socket = sockets'
<1>1. server'.socket = Socket
  BY DEF Types
<1> QED
  BY <1>1 DEF Socket, Counted

LEMMA HandleCounted ==
  ASSUME Inv, Whole, Counted, Handle
  PROVE  Counted'
<1>1. Types /\ Recorded /\ \A c \in Callers : Sound(callers[c])
  BY DEF Inv, Whole, Counted
<1>2. CASE ConnectFails
  <2>1. PICK from \in Requests : from = Head(mailbox).from
    BY <1>1, <1>2, HeadTypes DEF ConnectFails
  <2>2. Reply(from, Retries(from.caller, "error_conn")) /\ from.caller \in Callers
    BY <1>2, <2>1 DEF ConnectFails, Requests
  <2>3. \A c \in Callers : Sound(callers'[c])
    BY <1>1, <2>2, RetrySound, ReplySound
  <2> QED
    BY <1>2, <2>3 DEF ConnectFails, Counted, Sound
<1>3. CASE RequestFails
  <2>1. PICK from \in Requests : from = Head(mailbox).from
    BY <1>1, <1>3, HeadTypes DEF RequestFails
  <2>2. Reply(from, Retries(from.caller, "error_req")) /\ from.caller \in Callers
    BY <1>3, <2>1 DEF RequestFails, Requests
  <2>3. \A c \in Callers : Sound(callers'[c])
    BY <1>1, <2>2, RetrySound, ReplySound
  <2>4. server'.open => server'.socket = sockets'
    BY <1>1, <1>3, OpenedLast DEF RequestFails
  <2> QED
    BY <2>3, <2>4 DEF Counted, Sound
<1>4. CASE Request
  <2>1. server'.open => server'.socket = sockets'
    BY <1>1, <1>4, OpenedLast DEF Request
  <2> QED
    BY <1>1, <1>4, <2>1 DEF Request, Counted, Sound
<1>5. CASE Unknown
  BY <1>5 DEF Unknown, Counted, Sound
<1>6. CASE ReceiveResponse
  <2>1. PICK from \in Requests : from = Head(mailbox).from
    BY <1>1, <1>6, HeadTypes DEF ReceiveResponse, Current
  <2>2. Known(Head(mailbox))
    BY <1>6, <1>1, Rest DEF ReceiveResponse, Current, Handles, Whole, Awaited, Answers, Types
  <2>3. server.requests[Head(mailbox).ref] = from
    BY <1>1, <1>6, <2>1, <2>2 DEF ReceiveResponse, Current, Known, Recorded
  <2>4. Reply(from, End(from.caller, "ok", from)) /\ from.caller \in Callers
    BY <1>6, <2>1, <2>3 DEF ReceiveResponse, Entry, Requests
  <2>5. \A c \in Callers : Sound(callers'[c])
    BY <1>1, <2>4, EndSound, ReplySound DEF Results
  <2>6. server'.open = server.open /\ server'.socket = server.socket /\ sockets' = sockets
    BY <1>1, <1>6 DEF ReceiveResponse, Types
  <2> QED
    BY <2>5, <2>6 DEF Counted, Sound
<1>7. CASE ReceiveClosed
  <2>1. callers' = callers /\ ~server'.open
    BY <1>1, <1>7 DEF ReceiveClosed, Types
  <2> QED
    BY <1>1, <2>1 DEF Counted, Sound
<1>8. CASE Crash
  <2>1. \A c \in Callers : Sound(callers'[c])
    BY <1>1, <1>8, EndSound DEF Crash, Results
  <2>2. ~server'.open
    BY <1>8 DEF Crash, NewServer
  <2> QED
    BY <2>1, <2>2 DEF Counted, Sound
<1> QED
  BY <1>2, <1>3, <1>4, <1>5, <1>6, <1>7, <1>8 DEF Handle

LEMMA NextCounted ==
  Inv /\ Whole /\ Counted /\ [Next]_vars => Counted'
<1> SUFFICES ASSUME Inv, Whole, Counted, [Next]_vars PROVE Counted'
  OBVIOUS
<1>1. Types
  BY DEF Inv
<1>2. ASSUME NEW c \in Callers, Begin(c) \/ Call(c) \/ TimeOut(c) PROVE Counted'
  <2>1. UNCHANGED <<server, sockets>>
    BY <1>2 DEF Begin, Call, TimeOut
  <2>2. \A d \in Callers : Sound(callers'[d])
    BY <1>1, <1>2, CallerSound
  <2> QED
    BY <2>1, <2>2 DEF Counted, Sound
<1>3. CASE Handle
  BY <1>3, HandleCounted
<1>4. CASE Restart
  BY <1>4 DEF Restart, NewServer, Counted, Sound
<1>5. CASE SendResponse \/ SendError \/ CloseSocket
  BY <1>5 DEF SendResponse, SendError, CloseSocket, Counted, Sound
<1>6. CASE UNCHANGED vars
  BY <1>6 DEF vars, Counted, Sound
<1> QED
  BY <1>2, <1>3, <1>4, <1>5, <1>6 DEF Next

\* Nobody tries more often than allowed, the server's connection is the newest
\* that was opened, and what the peer may answer on it is known to the server
\* (httpc.ex:71-87, 107-137).
THEOREM TypeCorrect ==
  Spec => []TypeOK
<1>1. Init => Inv /\ Whole /\ Counted
  <2>1. Init => Counted
    BY MaxTriesAssumption DEF Init, Counted, Sound, Fresh, NewServer, Results
  <2> QED
    BY <2>1, InitInv, InitWhole
<1>2. Inv /\ Whole /\ Counted /\ [Next]_vars => (Inv /\ Whole /\ Counted)'
  BY NextInv, NextWhole, NextCounted
<1>3. Inv /\ Whole /\ Counted => TypeOK
  <2> SUFFICES ASSUME Types, Recorded, Awaited, Counted PROVE TypeOK
    BY DEF Inv, Whole
  <2>1. \A c \in Callers : callers[c].pc \in {"idle", "waiting", "asleep", "ended"}
    BY DEF Types, CallerStates
  <2>2. \A p \in peer : p.ref \in DOMAIN refs /\ (server.socket = p.socket => p.ref \in DOMAIN server.requests)
    BY DEF Awaited, Known, Types
  <2>3. server.socket \in 0..sockets
    BY DEF Recorded, Types
  <2> QED
    BY <2>1, <2>2, <2>3 DEF TypeOK, Counted, Sound, Results, Ended
<1> QED
  BY <1>1, <1>2, <1>3, PTL DEF Spec
=============================================================================
