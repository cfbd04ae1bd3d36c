--------------------------------- MODULE HA ---------------------------------
(***************************************************************************)
(* The two-peer high-availability cluster of src/ha.c: ha_new, ha_check,   *)
(* ha_startup, ha_thread and ha_shutdown on both peers, the applications   *)
(* that call ha_check(m, HA_CLIENT_REQUEST), the PUB/SUB sockets between   *)
(* the peers, signals, crashes and restarts.                               *)
(*                                                                         *)
(* Time.  The code compares time_ms() with two absolute times per peer:    *)
(* `next' (the next heartbeat) and m->expiry (when the other peer is given *)
(* up).  Only the time left matters, so both are count-downs here; 0 is    *)
(* "time_ms() >= ...".  Tick moves every clock by one unit.                *)
(*                                                                         *)
(* Sockets.  inbox[p] holds what the other peer published and p has not    *)
(* received: in flight or in the SUB queue.  ZeroMQ keeps the order, never *)
(* duplicates, and drops at the high-water mark or with no subscriber.     *)
(***************************************************************************)
EXTENDS Naturals, Sequences

CONSTANTS
  Primary, Standby,  \* the peers, named for the state ha_new() gives them
  Heartbeat,         \* m->heartbeat, in clock units
  HighWater,         \* high-water mark of a SUB queue; bounds inbox
  Prompt,            \* TRUE: threads and network take no time on the clock
  Faults             \* which of FaultKinds may happen

FaultKinds == {"signal", "shutdown", "crash", "loss", "mistyped"}

ASSUME HAAssumption ==
  /\ Primary # Standby
  /\ Heartbeat \in Nat \ {0}
  /\ HighWater \in Nat \ {0}
  /\ Prompt \in BOOLEAN
  /\ Faults \subseteq FaultKinds

Peers    == {Primary, Standby}
Peer(p)  == IF p = Primary THEN Standby ELSE Primary
Role(p)  == IF p = Primary THEN "primary" ELSE "standby"
States   == {"primary", "standby", "active", "passive"}
Messages == States \cup {"mistyped"}     \* "mistyped": pdu_type is not "HA"
PCs      == {"down", "new", "loop", "poll", "recv", "extend", "beat", "done"}

VARIABLES
  state,      \* m->state of each peer
  expiry,     \* m->expiry - time_ms(), 0 once passed
  next,       \* ha_thread's next - time_ms(), 0 once passed
  pc,         \* where ha_thread stands; "new": ha_new() only, "down": crashed
  exit,       \* ha_shutdown() holds m->exit
  signal,     \* VIGOR_SIGNALLED of the peer's process
  inbox,      \* what the peer's SUB socket will still deliver
  takeover,   \* history: some client request made a passive peer active
  restarted   \* history: some peer has crashed

vars == <<state, expiry, next, pc, exit, signal, inbox, takeover, restarted>>

TypeOK ==
  /\ state \in [Peers -> States]
  /\ expiry \in [Peers -> 0..2 * Heartbeat]
  /\ next \in [Peers -> 0..Heartbeat]
  /\ pc \in [Peers -> PCs]
  /\ exit \in [Peers -> BOOLEAN]
  /\ signal \in [Peers -> BOOLEAN]
  /\ inbox \in [Peers -> Seq(Messages)]
  /\ takeover \in BOOLEAN
  /\ restarted \in BOOLEAN

\* ha_new() on both peers; neither thread is started yet.
Init ==
  /\ state = [p \in Peers |-> Role(p)]
  /\ expiry = [p \in Peers |-> 2 * Heartbeat]
  /\ next = [p \in Peers |-> 0]
  /\ pc = [p \in Peers |-> "new"]
  /\ exit = [p \in Peers |-> FALSE]
  /\ signal = [p \in Peers |-> FALSE]
  /\ inbox = [p \in Peers |-> <<>>]
  /\ takeover = FALSE
  /\ restarted = FALSE

-----------------------------------------------------------------------------
(* ha_check(): one transition of the state machine, under m->lock.         *)

\* Mutant: dual actives go unnoticed.
FailsNoDualActive(s, event, left) ==
  \/ s = "standby" /\ event = "client"
  \/ s = "passive" /\ event = "passive"
  \/ s = "passive" /\ event = "client" /\ left > 0

\* ha_check() returns non-zero.
Fails(s, event, left) ==
  \/ s = "standby" /\ event = "client"
  \/ s = "active"  /\ event = "active"
  \/ s = "passive" /\ event = "passive"
  \/ s = "passive" /\ event = "client" /\ left > 0

\* Mutant: the standby answers PEER_PRIMARY as the primary does PEER_STANDBY.
AfterSymmetric(s, event, left) ==
  CASE s = "primary" /\ event = "standby"                  -> "active"
    [] s = "standby" /\ event = "primary"                  -> "active"
    [] s \in {"primary", "standby"} /\ event = "active"    -> "passive"
    [] s = "passive" /\ event \in {"primary", "standby"}   -> "active"
    [] s = "passive" /\ event = "client" /\ left = 0       -> "active"
    [] OTHER                                               -> s

\* Mutant: a starting primary takes the lead from a passive peer, too.
AfterPassivePeer(s, event, left) ==
  CASE s = "primary" /\ event \in {"standby", "passive"}   -> "active"
    [] s \in {"primary", "standby"} /\ event = "active"    -> "passive"
    [] s = "passive" /\ event \in {"primary", "standby"}   -> "active"
    [] s = "passive" /\ event = "client" /\ left = 0       -> "active"
    [] OTHER                                               -> s

\* Mutant: the standby does not handle PEER_ACTIVE.
AfterDeafStandby(s, event, left) ==
  CASE s = "primary" /\ event = "standby"                  -> "active"
    [] s = "primary" /\ event = "active"                   -> "passive"
    [] s = "passive" /\ event \in {"primary", "standby"}   -> "active"
    [] s = "passive" /\ event = "client" /\ left = 0       -> "active"
    [] OTHER                                               -> s

\* m->state after ha_check().
After(s, event, left) ==
  CASE s = "primary" /\ event = "standby"                  -> "active"
    [] s \in {"primary", "standby"} /\ event = "active"    -> "passive"
    [] s = "passive" /\ event \in {"primary", "standby"}   -> "active"
    [] s = "passive" /\ event = "client" /\ left = 0       -> "active"
    [] OTHER                                               -> s

-----------------------------------------------------------------------------
(* ha_thread()                                                             *)

Goto(p, label) == pc' = [pc EXCEPT ![p] = label]

\* ha_startup(): the thread sets its first heartbeat and enters the loop.
Startup(p) ==
  /\ pc[p] = "new"
  /\ next' = [next EXCEPT ![p] = Heartbeat]
  /\ Goto(p, "loop")
  /\ UNCHANGED <<state, expiry, exit, signal, inbox, takeover, restarted>>

\* while (!signalled()): the test clears the flag.
Loop(p) ==
  /\ pc[p] = "loop"
  /\ Goto(p, IF signal[p] THEN "done" ELSE "poll")
  /\ signal' = [signal EXCEPT ![p] = FALSE]
  /\ UNCHANGED <<state, expiry, next, exit, inbox, takeover, restarted>>

\* zmq_poll() returns -1 (EINTR): the loop is left, the flag stays set.
Interrupted(p) ==
  /\ pc[p] = "poll"
  /\ signal[p]
  /\ Goto(p, "done")
  /\ UNCHANGED <<state, expiry, next, exit, signal, inbox, takeover, restarted>>

\* Mutant: the shutdown is looked for only when a message has come.
PollLateExit(p) ==
  /\ pc[p] = "poll"
  /\ \/ /\ inbox[p] # <<>>
        /\ Goto(p, IF exit[p] THEN "done" ELSE "recv")
     \/ /\ next[p] = 0
        /\ Prompt => inbox[p] = <<>>
        /\ Goto(p, "beat")
  /\ UNCHANGED <<state, expiry, next, exit, signal, inbox, takeover, restarted>>

\* zmq_poll() returns for a message, or at `next' with what is in flight
\* still on its way; then the try-lock of m->exit.
Poll(p) ==
  /\ pc[p] = "poll"
  /\ \/ /\ inbox[p] # <<>>
        /\ Goto(p, IF exit[p] THEN "done" ELSE "recv")
     \/ /\ next[p] = 0
        /\ Prompt => inbox[p] = <<>>
        /\ Goto(p, IF exit[p] THEN "done" ELSE "beat")
  /\ UNCHANGED <<state, expiry, next, exit, signal, inbox, takeover, restarted>>

\* Mutant: a peer that fails on dual actives steps down first.
RecvStepsDown(p) ==
  /\ pc[p] = "recv"
  /\ LET m == Head(inbox[p]) IN
       IF m = "mistyped" \/ Fails(state[p], m, expiry[p])
         THEN Goto(p, "done") /\ state' = [state EXCEPT ![p] = "passive"]
         ELSE /\ Goto(p, "extend")
              /\ state' = [state EXCEPT ![p] = After(@, m, expiry[p])]
  /\ inbox' = [inbox EXCEPT ![p] = Tail(@)]
  /\ UNCHANGED <<expiry, next, exit, signal, takeover, restarted>>

\* pdu_recv(), the type test and ha_check() of the peer's state: a failure of
\* either leaves the loop, with m->state as it is.
Recv(p) ==
  /\ pc[p] = "recv"
  /\ LET m == Head(inbox[p]) IN
       IF m = "mistyped" \/ Fails(state[p], m, expiry[p])
         THEN Goto(p, "done") /\ UNCHANGED state
         ELSE /\ Goto(p, "extend")
              /\ state' = [state EXCEPT ![p] = After(@, m, expiry[p])]
  /\ inbox' = [inbox EXCEPT ![p] = Tail(@)]
  /\ UNCHANGED <<expiry, next, exit, signal, takeover, restarted>>

\* Mutant: one heartbeat of silence is enough.
ExtendShort(p) ==
  /\ pc[p] = "extend"
  /\ expiry' = [expiry EXCEPT ![p] = Heartbeat]
  /\ Goto(p, "beat")
  /\ UNCHANGED <<state, next, exit, signal, inbox, takeover, restarted>>

\* Mutant: the expiry is moved on from where it was (+=).
ExtendAdds(p) ==
  /\ pc[p] = "extend"
  /\ expiry' = [expiry EXCEPT ![p] = @ + 2 * Heartbeat]
  /\ Goto(p, "beat")
  /\ UNCHANGED <<state, next, exit, signal, inbox, takeover, restarted>>

\* m->expiry = time_ms() + 2 * m->heartbeat, after m->lock is released.
Extend(p) ==
  /\ pc[p] = "extend"
  /\ expiry' = [expiry EXCEPT ![p] = 2 * Heartbeat]
  /\ Goto(p, "beat")
  /\ UNCHANGED <<state, next, exit, signal, inbox, takeover, restarted>>

\* The message reaches q's SUB socket, or is dropped.
Publish(q, m) ==
  \/ /\ pc[q] # "down"
     /\ Len(inbox[q]) < HighWater
     /\ inbox' = [inbox EXCEPT ![q] = Append(@, m)]
  \/ /\ pc[q] = "down" \/ Len(inbox[q]) >= HighWater \/ "loss" \in Faults
     /\ UNCHANGED inbox

\* The heartbeat, when it is due.  m->state is read without m->lock; a client
\* request between the read and the send is one that comes after the send.
Beat(p) ==
  /\ pc[p] = "beat"
  /\ Goto(p, "loop")
  /\ IF next[p] = 0
       THEN /\ Publish(Peer(p), state[p])
            /\ next' = [next EXCEPT ![p] = Heartbeat]
       ELSE UNCHANGED <<inbox, next>>
  /\ UNCHANGED <<state, expiry, exit, signal, takeover, restarted>>

Thread(p) == Loop(p) \/ Interrupted(p) \/ Poll(p) \/ Recv(p) \/ Extend(p) \/ Beat(p)

-----------------------------------------------------------------------------
(* The application around a peer                                           *)

\* Mutant: a rejected request renews the expiry.
ClientRequestRenews(p) ==
  /\ pc[p] # "down"
  /\ state' = [state EXCEPT ![p] = After(@, "client", expiry[p])]
  /\ expiry' = [expiry EXCEPT ![p] = 2 * Heartbeat]
  /\ takeover' = (takeover \/ state'[p] # state[p])
  /\ UNCHANGED <<next, pc, exit, signal, inbox, restarted>>

\* ha_check(m, HA_CLIENT_REQUEST), from any thread of the application.
ClientRequest(p) ==
  /\ pc[p] # "down"
  /\ state' = [state EXCEPT ![p] = After(@, "client", expiry[p])]
  /\ takeover' = (takeover \/ state'[p] # state[p])
  /\ UNCHANGED <<expiry, next, pc, exit, signal, inbox, restarted>>

\* ha_shutdown() takes m->exit ...
Shutdown(p) ==
  /\ "shutdown" \in Faults
  /\ pc[p] \notin {"down", "new"}
  /\ ~exit[p]
  /\ exit' = [exit EXCEPT ![p] = TRUE]
  /\ UNCHANGED <<state, expiry, next, pc, signal, inbox, takeover, restarted>>

\* ... joins the thread, and releases m->exit.
Join(p) ==
  /\ exit[p]
  /\ pc[p] = "done"
  /\ exit' = [exit EXCEPT ![p] = FALSE]
  /\ UNCHANGED <<state, expiry, next, pc, signal, inbox, takeover, restarted>>

\* vigor_sig_handler()
Signal(p) ==
  /\ "signal" \in Faults
  /\ pc[p] \notin {"down", "new"}
  /\ signal' = [signal EXCEPT ![p] = TRUE]
  /\ UNCHANGED <<state, expiry, next, pc, exit, inbox, takeover, restarted>>

-----------------------------------------------------------------------------
(* The environment                                                         *)

\* The process of p dies: its sockets close, what it published stays.
Crash(p) ==
  /\ "crash" \in Faults
  /\ pc[p] # "down"
  /\ Goto(p, "down")
  /\ inbox' = [inbox EXCEPT ![p] = <<>>]
  /\ exit' = [exit EXCEPT ![p] = FALSE]
  /\ restarted' = TRUE
  /\ UNCHANGED <<state, expiry, next, signal, takeover>>

\* A new process calls ha_new() with p's configured state.
Restart(p) ==
  /\ pc[p] = "down"
  /\ Goto(p, "new")
  /\ state' = [state EXCEPT ![p] = Role(p)]
  /\ expiry' = [expiry EXCEPT ![p] = 2 * Heartbeat]
  /\ signal' = [signal EXCEPT ![p] = FALSE]
  /\ UNCHANGED <<next, exit, inbox, takeover, restarted>>

\* Something else publishes on the peer's endpoint.
Mistyped(p) ==
  /\ "mistyped" \in Faults
  /\ pc[p] # "down"
  /\ Len(inbox[p]) < HighWater
  /\ inbox' = [inbox EXCEPT ![p] = Append(@, "mistyped")]
  /\ UNCHANGED <<state, expiry, next, pc, exit, signal, takeover, restarted>>

\* ha_thread of p has something to do now.
Busy(p) ==
  \/ pc[p] \in {"loop", "recv", "extend", "beat"}
  \/ pc[p] = "poll" /\ (inbox[p] # <<>> \/ next[p] = 0)

Less(n) == IF n = 0 THEN 0 ELSE n - 1

\* time_ms() advances; on a prompt system only when no thread has work.
Tick ==
  /\ Prompt => \A p \in Peers : ~Busy(p)
  /\ expiry' = [p \in Peers |-> Less(expiry[p])]
  /\ next' = [p \in Peers |-> Less(next[p])]
  /\ UNCHANGED <<state, pc, exit, signal, inbox, takeover, restarted>>

Application(p) == Startup(p) \/ ClientRequest(p) \/ Shutdown(p) \/ Join(p) \/ Signal(p)
Environment(p) == Crash(p) \/ Restart(p) \/ Mistyped(p)

Next == Tick \/ \E p \in Peers : Thread(p) \/ Application(p) \/ Environment(p)

Spec == Init /\ [][Next]_vars

\* zmq_poll() reports a message.
Deliver(p) == Poll(p) /\ pc'[p] = "recv"

\* The scheduler runs every thread, the clock moves, a message in flight comes
\* in at last, ha_startup() is called, a thread that has ended is joined, and
\* clients keep asking.
Fairness ==
  /\ WF_vars(Tick)
  /\ \A p \in Peers : /\ WF_vars(Thread(p))
                      /\ SF_vars(Deliver(p))
                      /\ WF_vars(Startup(p))
                      /\ WF_vars(Join(p))
                      /\ WF_vars(ClientRequest(p))

FairSpec == Spec /\ Fairness
-----------------------------------------------------------------------------
(* Properties                                                              *)

Active(p)  == pc[p] # "down" /\ state[p] = "active"
Passive(p) == pc[p] # "down" /\ state[p] = "passive"

\* Until a client request has forced a takeover and as long as no peer has
\* restarted, heartbeats alone -- late, lost, cut off by signals, shutdown or
\* a foreign message -- never make both peers active, whatever ha_check()
\* (src/ha.c:85-169) is fed: the primary leads, the standby follows.
NoProtocolSplit ==
  ~takeover /\ ~restarted => ~(Active(Primary) /\ Active(Standby))

\* "Peer is restarting - become active, peer will go passive" (src/ha.c:130):
\* peers that crash and come back as configured do not make both active either.
NoRestartSplit ==
  ~takeover => ~(Active(Primary) /\ Active(Standby))

\* "Two passives would mean cluster would be non-responsive" (src/ha.c:142): no
\* order of heartbeats, losses, takeovers, crashes and restarts leads there.
NoDualPassive ==
  ~(Passive(Primary) /\ Passive(Standby))

\* A client request moves p from passive to active.
TakesOver(p) == /\ pc[p] # "down" /\ pc'[p] = pc[p]
                /\ state[p] = "passive" /\ state'[p] = "active"

\* On a prompt system without loss or restarts, a peer whose own thread runs and has
\* written its new expiry lets a client request take over only from a peer whose
\* thread has ended: 2 * heartbeat is long enough that a living peer is never
\* given up (src/ha.c:146-158 against 236 and 240-249).
NoFalseTakeover ==
  [][\A p \in Peers :
       TakesOver(p) =>
         \/ pc[Peer(p)] \in {"down", "new", "done"}
         \/ pc[p] \in {"extend", "done"}
         \/ restarted]_vars

\* "If peer is alive, reject connections" (src/ha.c:156): the same with no
\* exception for the moment between ha_check() and the write of m->expiry.
AlivePeerRejects ==
  [][\A p \in Peers :
       TakesOver(p) => pc[Peer(p)] \in {"down", "new", "done"}]_vars

\* The pair sorts itself out: the primary becomes active and the standby passive
\* (src/ha.c:93-117; the full-stack test of t/ha.c waits for it), however slow
\* the heartbeats are, unless a thread ends before, shut down or on an error.
Elected ==
  <>(\/ state[Primary] = "active" /\ state[Standby] = "passive"
     \/ \E p \in Peers : pc[p] = "done")

\* Once the primary's thread has ended with the standby passive, retried client
\* requests do make the standby active, however late its last
\* heartbeats come in (src/ha.c:146-158).
Failover ==
  (pc[Primary] = "done" /\ Passive(Standby)) ~> Active(Standby)

\* ha_shutdown() returns: the thread leaves the loop whatever it was doing
\* and whatever keeps arriving (src/ha.c:219-221, 259-265).
ShutdownReturns == \A p \in Peers : exit[p] ~> ~exit[p]

\* Two active peers that hear each other do not stay so unnoticed: one of the
\* threads gives up with "fatal error - dual actives" (src/ha.c:119-125).
SplitNoticed ==
  (Active(Primary) /\ Active(Standby)) ~> \E p \in Peers : pc[p] = "done"

\* The pair implements the abstract specification: the peers that are active
\* are its leaders, one at a time until ha_check(m, HA_CLIENT_REQUEST) forces
\* another or a peer crashes (src/ha.c:85-169, 204-253).
Unsettled == takeover \/ restarted

L == INSTANCE Leadership WITH
       leaders <- {p \in Peers : Active(p)}, unsettled <- Unsettled

ImplementsLeadership == L!Spec
=============================================================================
