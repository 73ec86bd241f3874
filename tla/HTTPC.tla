--------------------------------- MODULE HTTPC ---------------------------------
(***************************************************************************)
(* The HTTP client of one service: a GenServer that owns the connection,   *)
(* the processes that call it, the peer and what is in between.            *)
(*                                                                         *)
(* Mint names each request by a reference and may answer them in any order *)
(* (HTTP/2) or in theirs (HTTP/1).  The parts of a response, which the     *)
(* server gathers under the reference, are one message here.  What is      *)
(* wrong with a connection is only noticed when a message about it is      *)
(* handled.                                                                *)
(***************************************************************************)
EXTENDS Integers, Sequences, FiniteSets, Functions

CONSTANTS
  Callers,      \* processes that make requests, one after another
  MaxTries,     \* the parameter `max' of request/6
  MaxRequests,  \* bound on the requests of each caller
  MaxSockets    \* bound on the connections; later ones fail

ASSUME MaxTriesAssumption == MaxTries \in Nat \ {0} /\ MaxRequests \in Nat /\ MaxSockets \in Nat

VARIABLES
  callers,   \* what each caller does: idle, waiting, asleep or ended
  mailbox,   \* messages to the GenServer: calls, and what sockets report
  server,    \* the GenServer: up, its connection, its requests
  peer,      \* requests that the peer has: socket, reference, whose
  sockets,   \* the number of sockets opened so far
  refs       \* for each reference made, the request it was made for

vars == <<callers, mailbox, server, peer, sockets, refs>>

\* No connection is socket 0.  requests: for each reference, whose it is.
NewServer == [up |-> TRUE, socket |-> 0, open |-> FALSE, requests |-> <<>>]

Nothing == [caller |-> "nobody", number |-> 0]

\* number: of the present request; result: how it ended; answer: the request
\* that the response was for.
Fresh == [pc |-> "idle", number |-> 0, tries |-> 0, result |-> "none", answer |-> Nothing]

\* A request of a caller, of which its calls, messages and replies are.
Own(c) == [caller |-> c, number |-> callers[c].number]

Message(kind, socket, ref, from) == [kind |-> kind, socket |-> socket, ref |-> ref, from |-> from]

Ended(c) == callers[c].pc = "ended"
Waits(c) == callers[c].pc = "waiting"

-----------------------------------------------------------------------------
(* Callers                                                                  *)

End(c, result, answer) == [callers[c] EXCEPT !.pc = "ended", !.result = result, !.answer = answer]

\* request/6.  A process that exited is followed by another that calls.
Begin(c) ==
  /\ callers[c].pc \in {"idle", "ended"} /\ callers[c].number < MaxRequests
  /\ callers' = [callers EXCEPT ![c] = [Fresh EXCEPT !.pc = "asleep", !.number = callers[c].number + 1]]
  /\ UNCHANGED <<mailbox, server, peer, sockets, refs>>

\* GenServer.call, the first time or after the sleep of 5 ms; it exits if there
\* is no such process.
Call(c) ==
  /\ callers[c].pc = "asleep"
  /\ IF server.up
     THEN /\ callers' = [callers EXCEPT ![c].pc = "waiting", ![c].tries = @ + 1]
          /\ mailbox' = Append(mailbox, Message("call", 0, 0, Own(c)))
     ELSE callers' = [callers EXCEPT ![c] = End(c, "exit", Nothing)] /\ UNCHANGED mailbox
  /\ UNCHANGED <<server, peer, sockets, refs>>

\* The time limit of GenServer.call; the call stays in the mailbox.
TimeOut(c) ==
  /\ Waits(c)
  /\ callers' = [callers EXCEPT ![c] = End(c, "exit", Nothing)]
  /\ UNCHANGED <<mailbox, server, peer, sockets, refs>>

\* Mutated: a failed request is tried again like a failed connection.
RetriesAll(c, result) ==
  IF result # "ok" /\ callers[c].tries < MaxTries
  THEN [callers[c] EXCEPT !.pc = "asleep"] ELSE End(c, "error", Nothing)

\* Mutated: the number of tries has no bound.
RetriesForever(c, result) ==
  IF result = "error_conn" THEN [callers[c] EXCEPT !.pc = "asleep", !.tries = 0] ELSE End(c, "error", Nothing)

\* What the loop of request/6 does with an error.
Retries(c, result) ==
  IF result = "error_conn" /\ callers[c].tries < MaxTries
  THEN [callers[c] EXCEPT !.pc = "asleep"] ELSE End(c, "error", Nothing)

\* A reply to a caller that waits; one that comes late is dropped.
Reply(from, state) ==
  LET c == from.caller
  IN callers' = IF Waits(c) /\ from = Own(c) THEN [callers EXCEPT ![c] = state] ELSE callers

-----------------------------------------------------------------------------
(* handle_call: connect if need be, then send the request.                  *)

Handles(kinds) == server.up /\ mailbox # <<>> /\ Head(mailbox).kind \in kinds

ConnectFails ==
  /\ Handles({"call"}) /\ ~server.open
  /\ LET from == Head(mailbox).from IN Reply(from, Retries(from.caller, "error_conn"))
  /\ mailbox' = Tail(mailbox)
  /\ UNCHANGED <<server, peer, sockets, refs>>

\* The socket the request goes through, opened if need be.
Socket == IF server.open THEN server.socket ELSE sockets + 1

\* HTTP.request fails; if because the peer has closed, the connection is closed
\* now.  What was written of the request may have reached the peer.
RequestFails ==
  /\ Handles({"call"}) /\ Socket <= MaxSockets
  /\ LET from == Head(mailbox).from
     IN Reply(from, Retries(from.caller, "error_req")) /\ refs' = Append(refs, from)
  /\ \E open \in BOOLEAN : server' = [server EXCEPT !.socket = Socket, !.open = open]
  /\ sockets' = IF server.open THEN sockets ELSE sockets + 1
  /\ mailbox' = Tail(mailbox)
  /\ UNCHANGED peer

\* The peer has closed the socket, and the server does not know yet.
Closing(socket) == \E i \in DOMAIN mailbox : mailbox[i].kind = "closed" /\ mailbox[i].socket = socket

Request ==
  /\ Handles({"call"}) /\ Socket <= MaxSockets
  /\ LET from == Head(mailbox).from
         ref == Len(refs) + 1
     IN /\ refs' = Append(refs, from)
        /\ server' = [server EXCEPT !.socket = Socket, !.open = TRUE,
                        !.requests = [r \in DOMAIN @ \cup {ref} |-> IF r = ref THEN from ELSE @[r]]]
        \* It is lost if the peer closed its side meanwhile.
        /\ \/ peer' = peer \cup {[socket |-> Socket, ref |-> ref, from |-> from]}
           \/ peer' = peer /\ Closing(Socket)
  /\ sockets' = IF server.open THEN sockets ELSE sockets + 1
  /\ mailbox' = Tail(mailbox)
  /\ UNCHANGED callers

-----------------------------------------------------------------------------
(* The peer                                                                 *)

\* A response, or (HTTP/2) an error of this request only.
Send(p, kind) ==
  /\ ~Closing(p.socket)
  /\ mailbox' = Append(mailbox, Message(kind, p.socket, p.ref, p.from))

SendResponse ==
  /\ \E p \in peer : Send(p, "done") /\ peer' = peer \ {p}
  /\ UNCHANGED <<callers, server, sockets, refs>>

SendError ==
  /\ \E p \in peer : Send(p, "error") /\ peer' = peer \ {p}
  /\ UNCHANGED <<callers, server, sockets, refs>>

\* The peer or the network closes the connection of the server, if it has not
\* yet: what the peer did not answer it never will.
CloseSocket ==
  /\ server.up /\ server.open /\ ~Closing(server.socket)
  /\ mailbox' = Append(mailbox, Message("closed", server.socket, 0, Nothing))
  /\ peer' = {p \in peer : p.socket # server.socket}
  /\ UNCHANGED <<callers, server, sockets, refs>>

-----------------------------------------------------------------------------
(* handle_info: messages of the present socket; others are :unknown.        *)

Unknown ==
  /\ Handles({"done", "error", "closed"}) /\ Head(mailbox).socket # server.socket
  /\ mailbox' = Tail(mailbox)
  /\ UNCHANGED <<callers, server, peer, sockets, refs>>

Current(kind) == Handles({kind}) /\ Head(mailbox).socket = server.socket

\* Mutated: responses are taken to come in the order of the requests.
Oldest(ref) == CHOOSE r \in DOMAIN server.requests : \A s \in DOMAIN server.requests : r <= s

\* The entry of state.requests that the end of a response belongs to.
Entry(ref) == ref

ReceiveResponse ==
  /\ Current("done")
  /\ LET ref == Entry(Head(mailbox).ref)
         from == server.requests[ref]
     IN /\ Reply(from, End(from.caller, "ok", Head(mailbox).from))
        /\ server' = [server EXCEPT !.requests = Restrict(@, DOMAIN @ \ {ref})]
  /\ mailbox' = Tail(mailbox)
  /\ UNCHANGED <<peer, sockets, refs>>

\* No one is told: the entries of state.requests stay.
ReceiveClosed ==
  /\ Current("closed")
  /\ server' = [server EXCEPT !.open = FALSE]
  /\ mailbox' = Tail(mailbox)
  /\ UNCHANGED <<callers, peer, sockets, refs>>

\* update_in with the error in place of a function raises.  Processes that wait
\* for the server exit with it; its socket closes and its mailbox is gone.
Crash ==
  /\ Current("error")
  /\ server' = [NewServer EXCEPT !.up = FALSE]
  /\ callers' = [c \in Callers |-> IF Waits(c) THEN End(c, "exit", Nothing) ELSE callers[c]]
  /\ mailbox' = <<>> /\ peer' = {}
  /\ UNCHANGED <<sockets, refs>>

\* By the supervisor of the application.
Restart ==
  /\ ~server.up
  /\ server' = NewServer
  /\ UNCHANGED <<callers, mailbox, peer, sockets, refs>>

-----------------------------------------------------------------------------
Init ==
  /\ callers = [c \in Callers |-> Fresh]
  /\ mailbox = <<>> /\ server = NewServer /\ peer = {} /\ sockets = 0 /\ refs = <<>>

Handle ==
  \/ ConnectFails \/ RequestFails \/ Request
  \/ Unknown \/ ReceiveResponse \/ ReceiveClosed \/ Crash

Next ==
  \/ \E c \in Callers : Begin(c) \/ Call(c) \/ TimeOut(c)
  \/ Handle \/ Restart
  \/ SendResponse \/ SendError \/ CloseSocket

Spec == Init /\ [][Next]_vars

\* The run time wakes sleepers, fires time limits, delivers messages and
\* restarts the server.  Nothing is assumed of the peer or of the network.
FairSpec ==
  /\ Spec
  /\ \A c \in Callers : WF_vars(Call(c)) /\ WF_vars(TimeOut(c))
  /\ WF_vars(Handle) /\ WF_vars(Restart)

-----------------------------------------------------------------------------
(* Properties                                                               *)

\* Messages and requests have their types; a request is known to the server
\* as long as the peer may answer it on the present socket.
TypeOK ==
  /\ \A c \in Callers :
       /\ callers[c].pc \in {"idle", "waiting", "asleep", "ended"} /\ callers[c].tries \in 0..MaxTries
       /\ Ended(c) <=> callers[c].result \in {"ok", "error", "exit"}
  /\ server.socket \in 0..sockets /\ (server.open => server.socket = sockets)
  /\ \A p \in peer : p.ref \in DOMAIN refs /\ (server.socket = p.socket => p.ref \in DOMAIN server.requests)

\* Every caller that gets a response gets the whole response to its own
\* request, whatever else was pending, closed, restarted or late
\* (state.requests is keyed by the reference, httpc.ex:113-116, 138-169).
OwnResponse ==
  \A c \in Callers : callers[c].result = "ok" => callers[c].answer = Own(c)

\* A request is handed to the connection at most once, although request/6
\* retries and calls outlive their callers: the services are not idempotent
\* (httpc.ex:74-87).
SentOnce ==
  \A i, j \in DOMAIN refs : refs[i] = refs[j] => i = j

\* Every call ends, whatever the peer and the network do.
CallsEnd == \A c \in Callers : callers[c].pc = "asleep" ~> Ended(c)
=============================================================================
