------------------------------- MODULE Reactor ------------------------------
(***************************************************************************)
(* The reactor of src/reactor.c: a list of sockets and the handlers of     *)
(* their messages, the array for zmq_poll() that is made from it, and the  *)
(* loop that asks for messages and dispatches them.  Handlers may register *)
(* other sockets and may halt the loop; signals interrupt what waits.      *)
(***************************************************************************)
EXTENDS Naturals, Sequences

CONSTANTS
  Sockets,   \* what may be registered
  MaxItems,  \* bound: registrations
  MaxSent    \* bound: messages for a socket

ASSUME ReactorAssumption == MaxItems \in Nat /\ MaxSent \in Nat

VARIABLES
  items,   \* r->reactors, each with its socket and its index
  poller,  \* r->poller, each with its socket and whether revents is ZMQ_POLLIN
  npoll,   \* n of reactor_go(): how many of them are polled
  turn,    \* the item that the inner loop has reached
  loopPc,  \* where reactor_go() is; "idle" when it is not running
  sent,    \* messages that have come for a socket ...
  got      \* ... and how many were received from it

reactorVars == <<items, poller, npoll, turn, loopPc, sent, got>>

ReactorTypeOK ==
  /\ items \in Seq([socket : Sockets, index : 1..MaxItems]) /\ Len(items) <= MaxItems
  /\ poller \in Seq([socket : Sockets, revents : BOOLEAN]) /\ Len(poller) = Len(items)
  /\ npoll \in 0..Len(items) /\ turn \in 1..Len(items) + 1
  /\ loopPc \in {"idle", "poll", "walk", "recv", "handler"}
  /\ sent \in [Sockets -> 0..MaxSent] /\ got \in [Sockets -> 0..MaxSent]

ReactorInit ==
  /\ items = <<>> /\ poller = <<>> /\ npoll = 0 /\ turn = 1 /\ loopPc = "idle"
  /\ sent = [s \in Sockets |-> 0] /\ got = [s \in Sockets |-> 0]

Readable(s) == got[s] < sent[s]

-----------------------------------------------------------------------------
\* Mutant: only the new item, whose index is the first, is left as it was made.
ReactorSetPlain(s) ==
  /\ loopPc \in {"idle", "handler"} /\ Len(items) < MaxItems
  /\ items' = Append(items, [socket |-> s, index |-> 1])
  /\ poller' = [i \in DOMAIN items' |-> [socket |-> items'[i].socket, revents |-> FALSE]]
  /\ UNCHANGED <<npoll, turn, loopPc, sent, got>>

\* Mutant: the array stays as it is when one was made before.
ReactorSetOld(s) ==
  /\ loopPc \in {"idle", "handler"} /\ Len(items) < MaxItems
  /\ items' = Append(items, [socket |-> s, index |-> Len(items) + 1])
  /\ poller' = IF poller # <<>> THEN poller ELSE <<[socket |-> s, revents |-> FALSE]>>
  /\ UNCHANGED <<npoll, turn, loopPc, sent, got>>

\* reactor_set(), by the host or by a handler: the array is made anew, and with
\* it every revents is lost.
ReactorSet(s) ==
  /\ loopPc \in {"idle", "handler"} /\ Len(items) < MaxItems
  /\ items' = Append(items, [socket |-> s, index |-> Len(items) + 1])
  /\ poller' = [i \in DOMAIN items' |-> [socket |-> items'[i].socket, revents |-> FALSE]]
  /\ UNCHANGED <<npoll, turn, loopPc, sent, got>>

\* reactor_go() is called; the number of sockets is taken once.
ReactorGo ==
  /\ loopPc = "idle" /\ items # <<>>
  /\ npoll' = Len(items) /\ loopPc' = "poll"
  /\ UNCHANGED <<items, poller, turn, sent, got>>

\* zmq_poll() returns, with something to read.
Poll ==
  /\ loopPc = "poll" /\ \E i \in 1..npoll : Readable(poller[i].socket)
  /\ poller' = [i \in DOMAIN poller |->
       IF i <= npoll THEN [poller[i] EXCEPT !.revents = Readable(poller[i].socket)] ELSE poller[i]]
  /\ loopPc' = "walk" /\ turn' = 1
  /\ UNCHANGED <<items, npoll, sent, got>>

\* The inner loop, at one item.
Item == items[turn]
Walk ==
  /\ loopPc = "walk"
  /\ \/ turn > Len(items) /\ loopPc' = "poll" /\ turn' = 1
     \/ turn <= Len(items) /\ ~poller[Item.index].revents /\ turn' = turn + 1 /\ UNCHANGED loopPc
     \/ turn <= Len(items) /\ poller[Item.index].revents /\ loopPc' = "recv" /\ UNCHANGED turn
  /\ UNCHANGED <<items, poller, npoll, sent, got>>

\* pdu_recv(), which waits when there is nothing.
ReactorRecv ==
  /\ loopPc = "recv" /\ Readable(Item.socket)
  /\ got' = [got EXCEPT ![Item.socket] = @ + 1]
  /\ loopPc' = "handler"
  /\ UNCHANGED <<items, poller, npoll, turn, sent>>

HandlerReturns ==
  /\ loopPc = "handler" /\ loopPc' = "walk" /\ turn' = turn + 1
  /\ UNCHANGED <<items, poller, npoll, sent, got>>

\* The handler answers VIGOR_REACTOR_HALT and reactor_go() returns 0.
HandlerHalts ==
  /\ loopPc = "handler" /\ loopPc' = "idle" /\ turn' = 1
  /\ UNCHANGED <<items, poller, npoll, sent, got>>

\* A signal ends zmq_poll(), and reactor_go() returns 1; it ends a pdu_recv()
\* that waits, and the loop goes on.
ReactorInterrupted ==
  /\ \/ loopPc = "poll" /\ loopPc' = "idle" /\ UNCHANGED turn
     \/ loopPc = "recv" /\ ~Readable(Item.socket) /\ loopPc' = "walk" /\ turn' = turn + 1
  /\ UNCHANGED <<items, poller, npoll, sent, got>>

SocketReadable(s) ==
  /\ sent[s] < MaxSent /\ sent' = [sent EXCEPT ![s] = @ + 1]
  /\ UNCHANGED <<items, poller, npoll, turn, loopPc, got>>

ReactorStep == Poll \/ Walk \/ ReactorRecv \/ HandlerReturns

ReactorNext ==
  \/ \E s \in Sockets : ReactorSet(s) \/ SocketReadable(s)
  \/ ReactorGo \/ ReactorStep \/ HandlerHalts \/ ReactorInterrupted

\* A running loop goes on, and handlers return.
ReactorFairness == WF_reactorVars(ReactorStep)

ReactorSpec == ReactorInit /\ [][ReactorNext]_reactorVars /\ ReactorFairness

-----------------------------------------------------------------------------
(* Properties                                                              *)

Polled(s) == loopPc # "idle" /\ \E i \in 1..npoll : poller[i].socket = s

\* The loop waits for a socket that zmq_poll() said could be read.
Stuck == loopPc = "recv" /\ ~Readable(Item.socket)
RegisteredTwice(s) == \E i, j \in DOMAIN items : i # j /\ items[i].socket = s /\ items[j].socket = s

\* Every message for a socket that was registered before reactor_go() was
\* called is received in the end, whatever handlers register meanwhile, unless
\* the loop returns or gets stuck; and it gets stuck only in a socket that was
\* registered twice, whose one message both items want (src/reactor.c:61-113).
Served ==
  /\ \A s \in Sockets, k \in 1..MaxSent :
       Polled(s) /\ sent[s] >= k ~> got[s] >= k \/ loopPc = "idle" \/ Stuck
  /\ [](Stuck => RegisteredTwice(Item.socket))
=============================================================================
