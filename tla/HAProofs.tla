------------------------------ MODULE HAProofs ------------------------------
(***************************************************************************)
(* Theorems about HA for every heartbeat, high-water mark and set of       *)
(* faults: the type invariant, that heartbeats alone never split the pair, *)
(* and the refinement of Leadership; and for peers that crash and come     *)
(* back, that the two are never both passive and, on a prompt system,      *)
(* never both active before a client request forces it, and that a request *)
(* forces nothing while the other peer's thread runs.                      *)
(***************************************************************************)
EXTENDS HA, TLAPS

\* ha_thread reads a message only after zmq_poll() has reported one, and a
\* crashed peer is remembered in `restarted'.
ThreadInv ==
  /\ \A p \in Peers : pc[p] = "recv" => inbox[p] # <<>>
  /\ \A p \in Peers : pc[p] = "down" => restarted

Carries(p, m) == \E i \in 1..Len(inbox[p]) : inbox[p][i] = m

\* No "primary" waits behind an "active".
InOrder(p) ==
  \A i, j \in 1..Len(inbox[p]) :
    i < j /\ inbox[p][i] = "active" => inbox[p][j] # "primary"

\* The primary is never passive and the standby never active; the standby has
\* heard "active" only from an active primary; and on the way to the standby no
\* "primary" comes behind an "active".
Following ==
  /\ state[Primary] \in {"primary", "active"}
  /\ state[Standby] \in {"standby", "passive"}
  /\ ~Carries(Primary, "active")
  /\ ~Carries(Primary, "primary")
  /\ ~Carries(Standby, "standby")
  /\ ~Carries(Standby, "passive")
  /\ state[Primary] = "primary" =>
       state[Standby] = "standby" /\ ~Carries(Standby, "active")
  /\ state[Standby] = "passive" => ~Carries(Standby, "primary")
  /\ InOrder(Standby)

\* So it is before any takeover or restart.
PairInv == ~takeover /\ ~restarted => Following

IInv == TypeOK /\ ThreadInv /\ PairInv
-----------------------------------------------------------------------------

\* ha_check() leaves the peer in one of the four states (src/ha.c:85-169).
LEMMA AfterType ==
  ASSUME NEW s \in States, NEW event, NEW left
  PROVE  After(s, event, left) \in States
BY DEF After, States

LEMMA PeersType ==
  /\ Primary \in Peers /\ Standby \in Peers
  /\ \A p \in Peers : Peer(p) \in Peers /\ Peer(p) # p /\ Role(p) \in States
BY HAAssumption DEF Peers, Peer, Role, States

LEMMA LessType ==
  ASSUME NEW n \in Nat, NEW k \in 0..n
  PROVE  Less(k) \in 0..n
BY DEF Less

LEMMA AppendType ==
  ASSUME NEW S, NEW s \in Seq(S), NEW m \in S
  PROVE  Append(s, m) \in Seq(S) /\ Append(s, m) # <<>>
<1>1. Append(s, m) \in Seq(S) /\ Len(Append(s, m)) = Len(s) + 1
  OBVIOUS
<1>2. Len(s) \in Nat /\ Len(<<>>) = 0
  OBVIOUS
<1> QED
  BY <1>1, <1>2

\* The peers are as they were made at the start.
LEMMA InitInv == Init => IInv
<1> SUFFICES ASSUME Init PROVE IInv
  OBVIOUS
<1>1. TypeOK
  <2>1. 2 * Heartbeat \in 0..2 * Heartbeat /\ 0 \in 0..Heartbeat
    BY HAAssumption
  <2>2. <<>> \in Seq(Messages)
    OBVIOUS
  <2>3. state \in [Peers -> States]
    BY PeersType DEF Init
  <2> QED
    BY <2>1, <2>2, <2>3 DEF Init, TypeOK, PCs
<1>2. ThreadInv
  BY DEF Init, ThreadInv
<1>3. PairInv
  BY HAAssumption, PeersType DEF Init, PairInv, Following, Carries, InOrder, Role
<1> QED
  BY <1>1, <1>2, <1>3 DEF IInv

\* What a step may do to an inbox keeps its type.
LEMMA PublishType ==
  ASSUME TypeOK, NEW q \in Peers, NEW m \in Messages, Publish(q, m)
  PROVE  inbox' \in [Peers -> Seq(Messages)]
<1>1. inbox[q] \in Seq(Messages)
  BY DEF TypeOK
<1>2. Append(inbox[q], m) \in Seq(Messages)
  BY <1>1, AppendType
<1> QED
  BY <1>2 DEF TypeOK, Publish

\* Every step keeps the types; a message taken from an inbox was there.
LEMMA TypeStep == TypeOK /\ ThreadInv /\ [Next]_vars => TypeOK'
<1> SUFFICES ASSUME TypeOK, ThreadInv, [Next]_vars
             PROVE  TypeOK'
  OBVIOUS
<1> USE HAAssumption, PeersType
<1>1. ASSUME NEW p \in Peers, Thread(p) PROVE TypeOK'
  <2>1. CASE Loop(p)
    BY <2>1 DEF Loop, Goto, TypeOK, PCs
  <2>2. CASE Interrupted(p)
    BY <2>2 DEF Interrupted, Goto, TypeOK, PCs
  <2>3. CASE Poll(p)
    BY <2>3 DEF Poll, Goto, TypeOK, PCs
  <2>4. CASE Recv(p)
    <3>1. inbox[p] # <<>> /\ inbox[p] \in Seq(Messages)
      BY <2>4 DEF Recv, ThreadInv, TypeOK
    <3>2. inbox' \in [Peers -> Seq(Messages)]
      BY <2>4, <3>1 DEF Recv, TypeOK
    <3>3. state' \in [Peers -> States]
      <4>1. After(state[p], Head(inbox[p]), expiry[p]) \in States
        BY AfterType DEF TypeOK
      <4> QED
        BY <2>4, <4>1 DEF Recv, TypeOK
    <3>4. pc' \in [Peers -> PCs]
      BY <2>4 DEF Recv, Goto, TypeOK, PCs
    <3> QED
      BY <2>4, <3>2, <3>3, <3>4 DEF Recv, TypeOK
  <2>5. CASE Extend(p)
    BY <2>5 DEF Extend, Goto, TypeOK, PCs
  <2>6. CASE Beat(p)
    <3>1. inbox' \in [Peers -> Seq(Messages)]
      <4>1. state[p] \in Messages
        BY DEF TypeOK, Messages
      <4> QED
        BY <2>6, <4>1, PublishType DEF Beat, TypeOK
    <3>2. next' \in [Peers -> 0..Heartbeat]
      <4>1. Heartbeat \in 0..Heartbeat
        OBVIOUS
      <4> QED
        BY <2>6, <4>1 DEF Beat, TypeOK
    <3> QED
      BY <2>6, <3>1, <3>2 DEF Beat, Goto, TypeOK, PCs
  <2> QED
    BY <1>1, <2>1, <2>2, <2>3, <2>4, <2>5, <2>6 DEF Thread
<1>2. ASSUME NEW p \in Peers, Application(p) PROVE TypeOK'
  <2>1. CASE Startup(p)
    BY <2>1 DEF Startup, Goto, TypeOK, PCs
  <2>2. CASE ClientRequest(p)
    <3>1. state' \in [Peers -> States]
      BY <2>2, AfterType DEF ClientRequest, TypeOK
    <3>2. takeover' \in BOOLEAN
      BY <2>2 DEF ClientRequest, TypeOK
    <3> QED
      BY <2>2, <3>1, <3>2 DEF ClientRequest, TypeOK
  <2>3. CASE Shutdown(p)
    BY <2>3 DEF Shutdown, TypeOK
  <2>4. CASE Join(p)
    BY <2>4 DEF Join, TypeOK
  <2>5. CASE Signal(p)
    BY <2>5 DEF Signal, TypeOK
  <2> QED
    BY <1>2, <2>1, <2>2, <2>3, <2>4, <2>5 DEF Application
<1>3. ASSUME NEW p \in Peers, Environment(p) PROVE TypeOK'
  <2>1. CASE Crash(p)
    BY <2>1 DEF Crash, Goto, TypeOK, PCs
  <2>2. CASE Restart(p)
    <3>1. 2 * Heartbeat \in 0..2 * Heartbeat
      OBVIOUS
    <3> QED
      BY <2>2, <3>1 DEF Restart, Goto, TypeOK, PCs
  <2>3. CASE Mistyped(p)
    <3>1. inbox' \in [Peers -> Seq(Messages)]
      BY <2>3, AppendType DEF Mistyped, TypeOK, Messages
    <3> QED
      BY <2>3, <3>1 DEF Mistyped, TypeOK
  <2> QED
    BY <1>3, <2>1, <2>2, <2>3 DEF Environment
<1>4. CASE Tick
  <2>1. expiry' \in [Peers -> 0..2 * Heartbeat]
    <3>1. \A p \in Peers : Less(expiry[p]) \in 0..2 * Heartbeat
      BY LessType DEF TypeOK
    <3> QED
      BY <1>4, <3>1 DEF Tick
  <2>2. next' \in [Peers -> 0..Heartbeat]
    <3>1. \A p \in Peers : Less(next[p]) \in 0..Heartbeat
      BY LessType DEF TypeOK
    <3> QED
      BY <1>4, <3>1 DEF Tick
  <2> QED
    BY <1>4, <2>1, <2>2 DEF Tick, TypeOK
<1>5. CASE UNCHANGED vars
  BY <1>5 DEF vars, TypeOK
<1> QED
  BY <1>1, <1>2, <1>3, <1>4, <1>5 DEF Next

\* Only the thread of p takes messages from inbox[p], one per reported one.
LEMMA ThreadStep == TypeOK /\ ThreadInv /\ [Next]_vars => ThreadInv'
<1> SUFFICES ASSUME TypeOK, ThreadInv, [Next]_vars
             PROVE  ThreadInv'
  OBVIOUS
<1> USE HAAssumption, PeersType
<1>1. ASSUME NEW p \in Peers, Thread(p) PROVE ThreadInv'
  <2>1. CASE Loop(p)
    BY <2>1 DEF Loop, Goto, TypeOK, ThreadInv
  <2>2. CASE Interrupted(p)
    BY <2>2 DEF Interrupted, Goto, TypeOK, ThreadInv
  <2>3. CASE Poll(p)
    BY <2>3 DEF Poll, Goto, TypeOK, ThreadInv
  <2>4. CASE Recv(p)
    BY <2>4 DEF Recv, Goto, TypeOK, ThreadInv
  <2>5. CASE Extend(p)
    BY <2>5 DEF Extend, Goto, TypeOK, ThreadInv
  <2>6. CASE Beat(p)
    <3>1. \A q \in Peers : inbox[q] # <<>> => inbox'[q] # <<>>
      BY <2>6 DEF Beat, Publish, TypeOK, Messages
    <3> QED
      BY <2>6, <3>1 DEF Beat, Goto, TypeOK, ThreadInv
  <2> QED
    BY <1>1, <2>1, <2>2, <2>3, <2>4, <2>5, <2>6 DEF Thread
<1>2. ASSUME NEW p \in Peers, Application(p) PROVE ThreadInv'
  BY <1>2 DEF Application, Startup, ClientRequest, Shutdown, Join, Signal, Goto,
              TypeOK, ThreadInv
<1>3. ASSUME NEW p \in Peers, Environment(p) PROVE ThreadInv'
  <2>1. CASE Crash(p)
    BY <2>1 DEF Crash, Goto, TypeOK, ThreadInv
  <2>2. CASE Restart(p)
    BY <2>2 DEF Restart, Goto, TypeOK, ThreadInv
  <2>3. CASE Mistyped(p)
    <3>1. inbox'[p] # <<>>
      BY <2>3, AppendType DEF Mistyped, TypeOK, Messages
    <3> QED
      BY <2>3, <3>1 DEF Mistyped, TypeOK, ThreadInv
  <2> QED
    BY <1>3, <2>1, <2>2, <2>3 DEF Environment
<1>4. CASE Tick
  BY <1>4 DEF Tick, ThreadInv
<1>5. CASE UNCHANGED vars
  BY <1>5 DEF vars, ThreadInv
<1> QED
  BY <1>1, <1>2, <1>3, <1>4, <1>5 DEF Next

\* TypeOK holds in every reachable state, whatever the constants.
THEOREM TypeCorrect == Spec => []TypeOK
<1>1. Init => TypeOK /\ ThreadInv
  BY InitInv DEF IInv
<1>2. TypeOK /\ ThreadInv /\ [Next]_vars => TypeOK' /\ ThreadInv'
  BY TypeStep, ThreadStep
<1> QED
  BY <1>1, <1>2, PTL DEF Spec
-----------------------------------------------------------------------------
(* The pair invariant                                                      *)

\* Of two places in a sequence of n + 1, the earlier is among the first n.
LEMMA TwoPlaces ==
  ASSUME NEW n \in Nat, NEW a \in 1..(n + 1), NEW b \in 1..(n + 1), a < b
  PROVE  a \in 1..n /\ a # n + 1 /\ (b = n + 1 \/ (b \in 1..n /\ b # n + 1))
OBVIOUS

\* What an inbox carries after one more message.
LEMMA CarriesAppend ==
  ASSUME NEW S, NEW s \in Seq(S), NEW m \in S, NEW t,
         t = Append(s, m)
  PROVE  /\ \A x : (\E i \in 1..Len(t) : t[i] = x)
                   => x = m \/ \E i \in 1..Len(s) : s[i] = x
         /\ \A i, j \in 1..Len(t) :
              i < j => /\ i \in 1..Len(s) /\ t[i] = s[i]
                       /\ t[j] = m \/ (j \in 1..Len(s) /\ t[j] = s[j])
<1>1. Len(t) = Len(s) + 1 /\ Len(s) \in Nat
  OBVIOUS
<1>2. \A i \in 1..Len(t) : t[i] = IF i = Len(t) THEN m ELSE s[i]
  OBVIOUS
<1>3. ASSUME NEW x, NEW i \in 1..Len(t), t[i] = x
      PROVE  x = m \/ \E k \in 1..Len(s) : s[k] = x
  BY <1>1, <1>2, <1>3
<1>4. ASSUME NEW i \in 1..Len(t), NEW j \in 1..Len(t), i < j
      PROVE  /\ i \in 1..Len(s) /\ t[i] = s[i]
             /\ t[j] = m \/ (j \in 1..Len(s) /\ t[j] = s[j])
  <2>1. i \in 1..Len(s) /\ i # Len(t) /\ (j = Len(t) \/ (j \in 1..Len(s) /\ j # Len(t)))
    <3>1. i \in 1..(Len(s) + 1) /\ j \in 1..(Len(s) + 1)
      BY <1>1
    <3> QED
      BY <1>1, <1>4, <3>1, TwoPlaces, Zenon
  <2>2. t[i] = s[i] /\ (j # Len(t) => t[j] = s[j]) /\ (j = Len(t) => t[j] = m)
    BY <1>2, <2>1
  <2> QED
    BY <2>1, <2>2
<1> QED
  BY <1>3, <1>4

\* What an inbox carries after its first message is taken.
LEMMA CarriesTail ==
  ASSUME NEW S, NEW s \in Seq(S), s # <<>>
  PROVE  /\ Head(s) = s[1] /\ 1 \in 1..Len(s)
         /\ Len(Tail(s)) = Len(s) - 1
         /\ \A i \in 1..Len(Tail(s)) :
              Tail(s)[i] = s[i + 1] /\ i + 1 \in 1..Len(s)
<1>1. Len(s) \in Nat /\ Len(s) # 0
  OBVIOUS
<1>2. Len(Tail(s)) = Len(s) - 1 /\ \A i \in 1..Len(Tail(s)) : Tail(s)[i] = s[i + 1]
  BY <1>1
<1> QED
  BY <1>1, <1>2

\* An inbox that a step leaves alone keeps its messages and their order.
LEMMA SameInbox ==
  ASSUME NEW p \in Peers, inbox'[p] = inbox[p]
  PROVE  /\ \A x : Carries(p, x)' <=> Carries(p, x)
         /\ InOrder(p)' <=> InOrder(p)
BY DEF Carries, InOrder

\* A step that leaves the states and the inboxes alone.
LEMMA FollowingUnchanged ==
  Following /\ UNCHANGED <<state, inbox>> => Following'
BY DEF Following, Carries, InOrder

\* One peer publishes, or a foreign message comes in: if the sender is q's peer,
\* m is that peer's state.
LEMMA FollowingAppend ==
  ASSUME TypeOK, Following, NEW q \in Peers, NEW m \in Messages,
         m \in {state[Peer(q)], "mistyped"},
         inbox' = [inbox EXCEPT ![q] = Append(@, m)], UNCHANGED state
  PROVE  Following'
<1> USE HAAssumption, PeersType
<1> DEFINE s == inbox[q]
           t == inbox'[q]
<1>1. s \in Seq(Messages) /\ t = Append(s, m)
  BY DEF TypeOK
<1> HIDE DEF s, t
<1>2. \A x : (\E i \in 1..Len(t) : t[i] = x) => x = m \/ \E i \in 1..Len(s) : s[i] = x
  BY <1>1, CarriesAppend
<1>3. \A i, j \in 1..Len(t) :
        i < j => /\ i \in 1..Len(s) /\ t[i] = s[i]
                 /\ t[j] = m \/ (j \in 1..Len(s) /\ t[j] = s[j])
  BY <1>1, CarriesAppend
<1>4. CASE q = Primary
  <2>1. inbox'[Standby] = inbox[Standby]
    BY <1>4 DEF TypeOK
  <2>2. m \in {"standby", "passive", "mistyped"}
    BY <1>4 DEF Following, Peer
  <2>3. ~Carries(Primary, "active")' /\ ~Carries(Primary, "primary")'
    BY <1>2, <1>4, <2>2 DEF Following, Carries, s, t
  <2>4. \A x : Carries(Standby, x)' <=> Carries(Standby, x)
    BY <2>1, SameInbox
  <2>5. InOrder(Standby)' <=> InOrder(Standby)
    BY <2>1, SameInbox
  <2> QED
    BY <2>3, <2>4, <2>5 DEF Following
<1>5. CASE q = Standby
  <2>1. inbox'[Primary] = inbox[Primary]
    BY <1>5 DEF TypeOK
  <2>2. m \in {state[Primary], "mistyped"}
    BY <1>5 DEF Peer
  <2>3. \A x : Carries(Standby, x)' => x = m \/ Carries(Standby, x)
    BY <1>2, <1>5 DEF Carries, s, t
  <2>4. ASSUME NEW i \in 1..Len(t), NEW j \in 1..Len(t), i < j, t[i] = "active"
        PROVE  t[j] # "primary"
    <3>1. Carries(Standby, "active")
      BY <1>3, <1>5, <2>4 DEF Carries, s
    <3>2. m # "primary"
      BY <2>2, <3>1 DEF Following
    <3> QED
      BY <1>3, <1>5, <2>4, <3>2 DEF Following, InOrder, s
  <2>5. InOrder(Standby)'
    BY <1>5, <2>4 DEF InOrder, t
  <2>6. \A x : Carries(Primary, x)' <=> Carries(Primary, x)
    BY <2>1, SameInbox
  <2> QED
    BY <2>2, <2>3, <2>5, <2>6 DEF Following
<1> QED
  BY <1>4, <1>5 DEF Peers

\* The primary handles a message of a standby that is not active.
LEMMA FollowingRecvPrimary ==
  ASSUME TypeOK, ThreadInv, Following, Recv(Primary)
  PROVE  Following'
<1> USE HAAssumption, PeersType
<1> DEFINE s == inbox[Primary]
<1>1. s \in Seq(Messages) /\ s # <<>>
  BY DEF TypeOK, ThreadInv, Recv
<1>2. inbox'[Primary] = Tail(s) /\ inbox'[Standby] = inbox[Standby]
  BY DEF Recv, TypeOK
<1>3. Head(s) \in {"standby", "passive", "mistyped"}
  <2>1. Head(s) \in Messages
    BY <1>1
  <2> QED
    BY <1>1, <2>1, CarriesTail DEF Following, Carries, Messages, States
<1>4. \A x : Carries(Primary, x)' => Carries(Primary, x)
  BY <1>1, <1>2, CarriesTail DEF Carries
<1>5. state'[Standby] = state[Standby]
  BY DEF Recv, TypeOK
<1>6. state'[Primary] \in {state[Primary], "active"}
  BY <1>3 DEF Recv, After, Fails, Following, TypeOK
<1>7. \A x : Carries(Standby, x)' <=> Carries(Standby, x)
  BY <1>2, SameInbox
<1>8. InOrder(Standby)' <=> InOrder(Standby)
  BY <1>2, SameInbox
<1> QED
  BY <1>4, <1>5, <1>6, <1>7, <1>8 DEF Following

\* The standby handles a message of a primary that is not passive.
LEMMA FollowingRecvStandby ==
  ASSUME TypeOK, ThreadInv, Following, Recv(Standby)
  PROVE  Following'
<1> USE HAAssumption, PeersType
<1> DEFINE s == inbox[Standby]
           t == inbox'[Standby]
<1>1. s \in Seq(Messages) /\ s # <<>>
  BY DEF TypeOK, ThreadInv, Recv
<1>2. t = Tail(s) /\ inbox'[Primary] = inbox[Primary]
  BY DEF Recv, TypeOK
<1>3. Head(s) \in {"primary", "active", "mistyped"}
  <2>1. Head(s) \in Messages
    BY <1>1
  <2> QED
    BY <1>1, <2>1, CarriesTail DEF Following, Carries, Messages, States
<1>4. /\ Head(s) = s[1] /\ 1 \in 1..Len(s)
      /\ Len(s) \in Nat /\ Len(t) = Len(s) - 1
      /\ \A i \in 1..Len(t) : t[i] = s[i + 1] /\ i + 1 \in 1..Len(s)
  BY <1>1, <1>2, CarriesTail
<1>5. \A x : Carries(Standby, x)' => Carries(Standby, x)
  BY <1>4 DEF Carries
<1>6. state'[Primary] = state[Primary]
  BY DEF Recv, TypeOK
<1>7. InOrder(Standby)'
  <2> SUFFICES ASSUME NEW i \in 1..Len(t), NEW j \in 1..Len(t), i < j, t[i] = "active"
               PROVE  t[j] # "primary"
    BY DEF InOrder
  <2>1. /\ i + 1 \in 1..Len(s) /\ j + 1 \in 1..Len(s) /\ i + 1 < j + 1
        /\ t[i] = s[i + 1] /\ t[j] = s[j + 1]
    BY <1>4
  <2> QED
    BY <2>1 DEF Following, InOrder
<1>8. \A x : Carries(Primary, x)' <=> Carries(Primary, x)
  BY <1>2, SameInbox
<1>9. CASE Head(s) = "active" /\ state[Standby] = "standby"
  <2>1. state'[Standby] = "passive"
    BY <1>9 DEF Recv, After, Fails, TypeOK
  <2>2. state[Primary] # "primary"
    BY <1>4, <1>9 DEF Following, Carries
  <2>3. ~Carries(Standby, "primary")'
    <3> SUFFICES ASSUME NEW i \in 1..Len(t), t[i] = "primary" PROVE FALSE
      BY DEF Carries
    <3>1. i + 1 \in 1..Len(s) /\ 1 < i + 1 /\ s[i + 1] = "primary" /\ s[1] = "active"
      BY <1>4, <1>9
    <3> QED
      BY <1>4, <3>1 DEF Following, InOrder
  <2> QED
    BY <1>8, <1>5, <1>6, <1>7, <2>1, <2>2, <2>3 DEF Following
<1>10. CASE ~(Head(s) = "active" /\ state[Standby] = "standby")
  <2>1. Head(s) = "primary" => state[Standby] = "standby"
    BY <1>4 DEF Following, Carries
  <2>2. state'[Standby] = state[Standby]
    BY <1>3, <1>10, <2>1 DEF Recv, After, Fails, Following, TypeOK
  <2> QED
    BY <1>8, <1>5, <1>6, <1>7, <2>2 DEF Following
<1> QED
  BY <1>9, <1>10

\* Every step keeps the pair invariant.
LEMMA PairStep == IInv /\ [Next]_vars => PairInv'
<1> SUFFICES ASSUME TypeOK, ThreadInv, PairInv, [Next]_vars, ~takeover', ~restarted'
             PROVE  Following'
  BY DEF IInv, PairInv
<1> USE HAAssumption, PeersType
<1>1. ASSUME NEW p \in Peers, Thread(p) PROVE Following'
  <2>1. Following
    BY <1>1 DEF PairInv, Thread, Loop, Interrupted, Poll, Recv, Extend, Beat
  <2>2. CASE Loop(p) \/ Interrupted(p) \/ Poll(p) \/ Extend(p)
    BY <2>1, <2>2, FollowingUnchanged DEF Loop, Interrupted, Poll, Extend
  <2>3. CASE Recv(p)
    BY <2>1, <2>3, FollowingRecvPrimary, FollowingRecvStandby DEF Peers
  <2>4. CASE Beat(p)
    <3>1. Peer(p) \in Peers /\ Peer(Peer(p)) = p /\ state[p] \in Messages
      BY DEF Peer, Peers, TypeOK, Messages
    <3>2. CASE UNCHANGED inbox
      BY <2>1, <2>4, <3>2, FollowingUnchanged DEF Beat
    <3>3. CASE inbox' = [inbox EXCEPT ![Peer(p)] = Append(@, state[p])]
      BY <2>1, <2>4, <3>1, <3>3, FollowingAppend DEF Beat
    <3> QED
      BY <2>4, <3>2, <3>3 DEF Beat, Publish
  <2> QED
    BY <1>1, <2>2, <2>3, <2>4 DEF Thread
<1>2. ASSUME NEW p \in Peers, Application(p) PROVE Following'
  <2>1. Following
    BY <1>2 DEF PairInv, Application, Startup, ClientRequest, Shutdown, Join, Signal
  <2>2. CASE Startup(p) \/ Shutdown(p) \/ Join(p) \/ Signal(p)
    BY <2>1, <2>2, FollowingUnchanged DEF Startup, Shutdown, Join, Signal
  <2>3. CASE ClientRequest(p)
    <3>1. state' = state
      BY <2>3 DEF ClientRequest, TypeOK
    <3> QED
      BY <2>1, <2>3, <3>1, FollowingUnchanged DEF ClientRequest
  <2> QED
    BY <1>2, <2>2, <2>3 DEF Application
<1>3. ASSUME NEW p \in Peers, Environment(p) PROVE Following'
  <2>1. CASE Crash(p)
    BY <2>1 DEF Crash
  <2>2. CASE Restart(p)
    BY <2>2 DEF Restart, ThreadInv
  <2>3. CASE Mistyped(p)
    <3>1. Following
      BY <2>3 DEF PairInv, Mistyped
    <3> QED
      BY <2>3, <3>1, FollowingAppend DEF Mistyped, Messages
  <2> QED
    BY <1>3, <2>1, <2>2, <2>3 DEF Environment
<1>4. CASE Tick
  BY <1>4, FollowingUnchanged DEF Tick, PairInv
<1>5. CASE UNCHANGED vars
  BY <1>5, FollowingUnchanged DEF vars, PairInv
<1> QED
  BY <1>1, <1>2, <1>3, <1>4, <1>5 DEF Next

\* The inductive invariant holds in every reachable state.
THEOREM Invariance == Spec => []IInv
<1>1. IInv /\ [Next]_vars => IInv'
  BY TypeStep, ThreadStep, PairStep DEF IInv
<1> QED
  BY <1>1, InitInv, PTL DEF Spec

\* Heartbeats alone never make both peers active (src/ha.c:85-169, 204-253), for
\* every heartbeat, queue length, timing and set of faults.
THEOREM NoSplit == Spec => []NoProtocolSplit
<1>1. IInv => NoProtocolSplit
  BY DEF IInv, PairInv, Following, NoProtocolSplit, Active
<1> QED
  BY <1>1, Invariance, PTL
-----------------------------------------------------------------------------
(* Refinement: the pair implements Leadership.                             *)

Leaders == {p \in Peers : Active(p)}

\* What the steps of the pair but Crash and Restart leave alone: who is up
\* (src/ha.c:204-265 has no step that ends or starts a process).
LEMMA UpStep ==
  ASSUME TypeOK, NEW p \in Peers,
         Thread(p) \/ Application(p) \/ Mistyped(p)
  PROVE  restarted' = restarted /\ \A q \in Peers : pc'[q] = "down" <=> pc[q] = "down"
<1>1. CASE Thread(p)
  BY <1>1 DEF Thread, Loop, Interrupted, Poll, Recv, Extend, Beat, Goto, TypeOK
<1>2. CASE Application(p)
  BY <1>2 DEF Application, Startup, ClientRequest, Shutdown, Join, Signal, Goto, TypeOK
<1>3. CASE Mistyped(p)
  BY <1>3 DEF Mistyped
<1> QED
  BY <1>1, <1>2, <1>3

\* ha_check() of a peer's message (src/ha.c:224-234) elects a leader, or none.
LEMMA RecvLeads ==
  ASSUME IInv, NEW p \in Peers, Recv(p)
  PROVE  [L!Next]_<<Leaders, Unsettled>>
<1> USE HAAssumption, PeersType
<1>1. UNCHANGED <<takeover, restarted, Unsettled>>
  BY DEF Recv, Unsettled
<1>2. \A q \in Peers : q # p => state'[q] = state[q]
  BY DEF Recv, IInv, TypeOK
<1>3. state[p] = "active" => state'[p] = "active"
  BY DEF Recv, After, IInv, TypeOK
<1>4. \A q \in Peers : pc'[q] = "down" <=> pc[q] = "down"
  BY UpStep DEF IInv, Thread
<1>5. pc[p] # "down"
  BY DEF Recv
<1>6. CASE state[p] = "active" \/ state'[p] # "active"
  <2>1. Leaders' = Leaders
    BY <1>2, <1>3, <1>4, <1>6 DEF Leaders, Active
  <2> QED
    BY <1>1, <2>1
<1>7. CASE state[p] # "active" /\ state'[p] = "active"
  <2>1. Leaders' = Leaders \cup {p} /\ p \notin Leaders
    BY <1>2, <1>4, <1>5, <1>7 DEF Leaders, Active
  <2>2. Leaders = {} \/ Unsettled
    <3> SUFFICES ASSUME ~Unsettled PROVE Leaders = {}
      OBVIOUS
    <3>1. Following
      BY DEF IInv, PairInv, Unsettled
    <3>2. PairInv'
      BY PairStep DEF Next, Thread
    <3>3. Following'
      BY <1>1, <3>2 DEF PairInv, Unsettled
    <3>4. state[Standby] # "active" /\ state'[Standby] # "active"
      BY <3>1, <3>3 DEF Following
    <3> QED
      BY <1>7, <3>4 DEF Leaders, Active, Peers
  <2> QED
    BY <1>1, <2>1, <2>2 DEF L!Next, L!Elect, Leaders
<1> QED
  BY <1>6, <1>7

\* A client request (src/ha.c:146-159) forces a leader, or changes none.
LEMMA RequestLeads ==
  ASSUME IInv, NEW p \in Peers, ClientRequest(p)
  PROVE  [L!Next]_<<Leaders, Unsettled>>
<1> USE HAAssumption, PeersType
<1>1. \A q \in Peers : q # p => state'[q] = state[q]
  BY DEF ClientRequest, IInv, TypeOK
<1>2. state'[p] = After(state[p], "client", expiry[p])
  BY DEF ClientRequest, IInv, TypeOK
<1>3. pc' = pc /\ restarted' = restarted /\ pc[p] # "down"
  BY DEF ClientRequest
<1>4. CASE state'[p] = state[p]
  <2>1. Unsettled' = Unsettled
    BY <1>3, <1>4 DEF ClientRequest, IInv, TypeOK, Unsettled
  <2>2. Leaders' = Leaders
    BY <1>1, <1>3, <1>4 DEF Leaders, Active
  <2> QED
    BY <2>1, <2>2
<1>5. CASE state'[p] # state[p]
  <2>1. state[p] = "passive" /\ state'[p] = "active"
    BY <1>2, <1>5 DEF After
  <2>2. Leaders' = Leaders \cup {p} /\ p \notin Leaders
    BY <1>1, <1>3, <2>1 DEF Leaders, Active
  <2>3. Unsettled' = TRUE
    BY <1>5 DEF ClientRequest, Unsettled
  <2> QED
    BY <2>2, <2>3 DEF L!Next, L!Force, Leaders
<1> QED
  BY <1>4, <1>5

\* A crash kills a leader, or not; a restart makes none.
LEMMA CrashLeads ==
  ASSUME IInv, NEW p \in Peers, Crash(p) \/ Restart(p)
  PROVE  [L!Next]_<<Leaders, Unsettled>>
<1> USE HAAssumption, PeersType
<1>1. CASE Crash(p)
  <2>1. state' = state /\ Unsettled' = TRUE
    BY <1>1 DEF Crash, Unsettled
  <2>2. pc'[p] = "down" /\ \A q \in Peers : q # p => pc'[q] = pc[q]
    BY <1>1 DEF Crash, Goto, IInv, TypeOK
  <2>3. Leaders' = Leaders \ {p}
    BY <2>1, <2>2 DEF Leaders, Active
  <2> QED
    BY <2>1, <2>3 DEF L!Next, L!Die, Leaders
<1>2. CASE Restart(p)
  <2>1. pc[p] = "down" /\ state'[p] # "active" /\ Unsettled' = Unsettled
    BY <1>2 DEF Restart, Role, IInv, TypeOK, Unsettled
  <2>2. \A q \in Peers : q # p => pc'[q] = pc[q] /\ state'[q] = state[q]
    BY <1>2 DEF Restart, Goto, IInv, TypeOK
  <2>3. Leaders' = Leaders
    BY <2>1, <2>2 DEF Leaders, Active
  <2> QED
    BY <2>1, <2>3
<1> QED
  BY <1>1, <1>2

\* All other steps leave states, and who is up, as they are.
LEMMA SameLeads ==
  ASSUME UNCHANGED <<state, takeover, restarted>>,
         \A q \in Peers : pc'[q] = "down" <=> pc[q] = "down"
  PROVE  [L!Next]_<<Leaders, Unsettled>>
<1>1. Leaders' = Leaders
  BY DEF Leaders, Active
<1>2. Unsettled' = Unsettled
  BY DEF Unsettled
<1> QED
  BY <1>1, <1>2

LEMMA LeadershipStep ==
  ASSUME IInv, [Next]_vars
  PROVE  [L!Next]_<<Leaders, Unsettled>>
<1> USE HAAssumption, PeersType
<1>1. ASSUME NEW p \in Peers, Thread(p) \/ Application(p) \/ Mistyped(p),
             ~Recv(p), ~ClientRequest(p)
      PROVE  [L!Next]_<<Leaders, Unsettled>>
  <2>1. UNCHANGED <<state, takeover, restarted>>
    BY <1>1 DEF Thread, Loop, Interrupted, Poll, Extend, Beat, Application, Startup,
                Shutdown, Join, Signal, Mistyped
  <2> QED
    BY <1>1, <2>1, UpStep, SameLeads DEF IInv
<1>2. CASE Tick \/ UNCHANGED vars
  BY <1>2, SameLeads DEF Tick, vars
<1> QED
  BY <1>1, <1>2, RecvLeads, RequestLeads, CrashLeads DEF Next, Environment

\* The pair implements the abstract specification: one leader is elected, and a
\* second comes only after a client request that found its peer silent, or a
\* crash (src/ha.c:85-169).
THEOREM Refinement == Spec => ImplementsLeadership
<1>1. Init => L!Init
  BY HAAssumption, PeersType DEF Init, L!Init, Active, Role, Unsettled
<1>2. IInv /\ [Next]_vars => [L!Next]_<<Leaders, Unsettled>>
  BY LeadershipStep
<1> QED
  BY <1>1, <1>2, Invariance, PTL DEF Spec, ImplementsLeadership, L!Spec, Leaders

-----------------------------------------------------------------------------
(* Peers that crash and come back                                          *)

Up(p)    == pc[p] # "down"
Fresh(p) == Up(p) /\ state[p] \in {"primary", "standby"}
Alive(p) == pc[p] \in {"loop", "poll", "recv", "extend", "beat"}

\* A peer that is down gets no messages.
DownInv == \A p \in Peers : ~Up(p) => inbox[p] = <<>>

-----------------------------------------------------------------------------
(* What a step does to an inbox                                            *)

LEMMA EmptyCarries ==
  ASSUME NEW p, inbox[p] = <<>>
  PROVE  (\A x : ~Carries(p, x)) /\ InOrder(p)
BY DEF Carries, InOrder

LEMMA AppendFacts ==
  ASSUME TypeOK, NEW q \in Peers, NEW m \in Messages,
         inbox' = [inbox EXCEPT ![q] = Append(@, m)]
  PROVE  /\ \A x : Carries(q, x)' => x = m \/ Carries(q, x)
         /\ \A x : Carries(q, x) => Carries(q, x)'
         /\ InOrder(q) /\ (m = "primary" => ~Carries(q, "active")) => InOrder(q)'
         /\ Len(inbox'[q]) = Len(inbox[q]) + 1 /\ inbox'[q] # <<>>
         /\ \A p \in Peers \ {q} : /\ inbox'[p] = inbox[p]
                                   /\ \A x : Carries(p, x)' <=> Carries(p, x)
                                   /\ InOrder(p)' <=> InOrder(p)
<1> DEFINE s == inbox[q]
           t == inbox'[q]
<1>1. s \in Seq(Messages) /\ t = Append(s, m)
  BY DEF TypeOK
<1>2. \A p \in Peers \ {q} : inbox'[p] = inbox[p]
  BY DEF TypeOK
<1> HIDE DEF s, t
<1>3. /\ \A x : (\E i \in 1..Len(t) : t[i] = x) => x = m \/ \E i \in 1..Len(s) : s[i] = x
      /\ \A i, j \in 1..Len(t) :
           i < j => /\ i \in 1..Len(s) /\ t[i] = s[i]
                    /\ t[j] = m \/ (j \in 1..Len(s) /\ t[j] = s[j])
  BY <1>1, CarriesAppend
<1>4. Len(t) = Len(s) + 1 /\ t # <<>> /\ Len(s) \in Nat /\ \A i \in 1..Len(s) : i \in 1..Len(t) /\ t[i] = s[i]
  BY <1>1, AppendType
<1>5. \A x : Carries(q, x) => Carries(q, x)'
  BY <1>4 DEF Carries, s, t
<1>6. \A x : Carries(q, x)' => x = m \/ Carries(q, x)
  BY <1>3 DEF Carries, s, t
<1>7. ASSUME InOrder(q), m = "primary" => ~Carries(q, "active") PROVE InOrder(q)'
  <2> SUFFICES ASSUME NEW i \in 1..Len(t), NEW j \in 1..Len(t), i < j, t[i] = "active"
               PROVE  t[j] # "primary"
    BY DEF InOrder, t
  <2>1. i \in 1..Len(s) /\ s[i] = "active" /\ (t[j] = m \/ (j \in 1..Len(s) /\ t[j] = s[j]))
    BY <1>3
  <2>2. m # "primary"
    BY <1>7, <2>1 DEF Carries, s
  <2> QED
    BY <1>7, <2>1, <2>2 DEF InOrder, s
<1>8. ASSUME NEW p \in Peers \ {q}
      PROVE  (\A x : Carries(p, x)' <=> Carries(p, x)) /\ (InOrder(p)' <=> InOrder(p))
  BY <1>2, SameInbox
<1> QED
  BY <1>2, <1>4, <1>5, <1>6, <1>7, <1>8 DEF s, t

LEMMA RecvFacts ==
  ASSUME TypeOK, ThreadInv, NEW p \in Peers, Recv(p)
  PROVE  /\ Head(inbox[p]) \in Messages /\ Carries(p, Head(inbox[p])) /\ inbox[p] # <<>>
         /\ \A x : Carries(p, x)' => Carries(p, x)
         /\ InOrder(p) => InOrder(p)' /\ (Head(inbox[p]) = "active" => ~Carries(p, "primary")')
         /\ Len(inbox'[p]) = Len(inbox[p]) - 1
         /\ state'[p] \in {state[p], After(state[p], Head(inbox[p]), expiry[p])}
         /\ \A q \in Peers \ {p} : /\ inbox'[q] = inbox[q] /\ state'[q] = state[q]
                                   /\ \A x : Carries(q, x)' <=> Carries(q, x)
                                   /\ InOrder(q)' <=> InOrder(q)
<1> DEFINE s == inbox[p]
           t == inbox'[p]
<1>1. s \in Seq(Messages) /\ s # <<>>
  BY DEF TypeOK, ThreadInv, Recv
<1>2. t = Tail(s) /\ \A q \in Peers \ {p} : inbox'[q] = inbox[q] /\ state'[q] = state[q]
  BY DEF Recv, TypeOK
<1>3. state'[p] \in {state[p], After(state[p], Head(s), expiry[p])}
  BY DEF Recv, TypeOK
<1> HIDE DEF s, t
<1>4. /\ Head(s) = s[1] /\ 1 \in 1..Len(s) /\ Head(s) \in Messages
      /\ Len(s) \in Nat /\ Len(t) = Len(s) - 1
      /\ \A i \in 1..Len(t) : t[i] = s[i + 1] /\ i + 1 \in 1..Len(s)
  BY <1>1, <1>2, CarriesTail
<1>5. Carries(p, Head(s))
  BY <1>4 DEF Carries, s
<1>6. \A x : Carries(p, x)' => Carries(p, x)
  BY <1>4 DEF Carries, s, t
<1>7. ASSUME InOrder(p) PROVE InOrder(p)' /\ (Head(s) = "active" => ~Carries(p, "primary")')
  <2>1. ASSUME NEW i \in 1..Len(t), NEW j \in 1..Len(t), i < j, t[i] = "active"
        PROVE  t[j] # "primary"
    <3>1. i + 1 \in 1..Len(s) /\ j + 1 \in 1..Len(s) /\ i + 1 < j + 1
          /\ t[i] = s[i + 1] /\ t[j] = s[j + 1]
      BY <1>4, <2>1
    <3> QED
      BY <1>7, <2>1, <3>1 DEF InOrder, s
  <2>2. ASSUME NEW j \in 1..Len(t), s[1] = "active" PROVE t[j] # "primary"
    <3>1. j + 1 \in 1..Len(s) /\ 1 < j + 1 /\ t[j] = s[j + 1]
      BY <1>4, <2>2
    <3> QED
      BY <1>4, <1>7, <2>2, <3>1 DEF InOrder, s
  <2> QED
    BY <1>4, <2>1, <2>2 DEF InOrder, Carries, t
<1>8. ASSUME NEW q \in Peers \ {p}
      PROVE  (\A x : Carries(q, x)' <=> Carries(q, x)) /\ (InOrder(q)' <=> InOrder(q))
  BY <1>2, SameInbox
<1> QED
  BY <1>1, <1>2, <1>3, <1>4, <1>5, <1>6, <1>7, <1>8 DEF s, t

\* What ha_check() can make of a state (src/ha.c:85-169).
LEMMA AfterFacts ==
  ASSUME NEW s \in States, NEW event, NEW left
  PROVE  /\ After(s, event, left) \in {s, "active", "passive"}
         /\ After(s, event, left) = "passive" =>
              s = "passive" \/ (s \in {"primary", "standby"} /\ event = "active")
         /\ After(s, event, left) = "active" =>
              \/ s = "active"
              \/ s = "primary" /\ event = "standby"
              \/ s = "passive" /\ event \in {"primary", "standby"}
              \/ s = "passive" /\ event = "client" /\ left = 0
         /\ event = "client" => After(s, event, left) \in {s, "active"}
BY DEF After, States

LEMMA PeerFacts ==
  /\ Peer(Primary) = Standby /\ Peer(Standby) = Primary /\ Primary # Standby
  /\ \A p \in Peers : /\ Peer(p) \in Peers /\ Peer(p) # p /\ Peer(Peer(p)) = p
                      /\ \A q \in Peers : q = p \/ q = Peer(p)
BY HAAssumption DEF Peer, Peers

\* The heartbeat of p reaches its peer or not (src/ha.c:240-249).
LEMMA BeatFacts ==
  ASSUME TypeOK, NEW p \in Peers, Beat(p)
  PROVE  \/ inbox' = inbox
         \/ /\ inbox' = [inbox EXCEPT ![Peer(p)] = Append(@, state[p])]
            /\ Up(Peer(p)) /\ next[p] = 0 /\ next'[p] = Heartbeat /\ state[p] \in Messages
<1>1. state[p] \in Messages
  BY DEF TypeOK, Messages
<1> QED
  BY <1>1 DEF Beat, Publish, TypeOK, Up

-----------------------------------------------------------------------------
(* Two passives                                                            *)

\* Of two peers of which none is active, one at most can still be made passive
\* by its inbox, and none if the other is.
DualInv ==
  /\ NoDualPassive
  /\ \A p \in Peers : Fresh(p) /\ Passive(Peer(p)) => ~Carries(p, "active")
  /\ Fresh(Primary) /\ Fresh(Standby) =>
       ~Carries(Primary, "active") \/ ~Carries(Standby, "active")

SafeInv == TypeOK /\ ThreadInv /\ DownInv /\ DualInv

LEMMA DualSame ==
  ASSUME DualInv, UNCHANGED state,
         \A q \in Peers : pc'[q] = "down" <=> pc[q] = "down",
         \A q \in Peers : Carries(q, "active")' => Carries(q, "active")
  PROVE  DualInv'
BY PeerFacts, PeersType DEF DualInv, NoDualPassive, Fresh, Passive, Up

LEMMA DownStep == SafeInv /\ [Next]_vars => DownInv'
<1> SUFFICES ASSUME SafeInv, [Next]_vars PROVE DownInv'
  OBVIOUS
<1> USE PeersType DEF SafeInv, DownInv, Up
<1>1. ASSUME NEW p \in Peers, Thread(p) PROVE DownInv'
  <2>1. \A q \in Peers : pc'[q] = "down" <=> pc[q] = "down"
    BY <1>1, UpStep
  <2>2. CASE Recv(p)
    BY <2>1, <2>2, RecvFacts DEF Recv
  <2>3. CASE Beat(p)
    BY <2>1, <2>3, BeatFacts, AppendFacts
  <2>4. CASE Loop(p) \/ Interrupted(p) \/ Poll(p) \/ Extend(p)
    BY <2>1, <2>4 DEF Loop, Interrupted, Poll, Extend
  <2> QED
    BY <1>1, <2>2, <2>3, <2>4 DEF Thread
<1>2. ASSUME NEW p \in Peers, Application(p) PROVE DownInv'
  <2>1. inbox' = inbox
    BY <1>2 DEF Application, Startup, ClientRequest, Shutdown, Join, Signal
  <2> QED
    BY <1>2, <2>1, UpStep
<1>3. ASSUME NEW p \in Peers, Crash(p) PROVE DownInv'
  BY <1>3 DEF Crash, Goto, TypeOK
<1>4. ASSUME NEW p \in Peers, Restart(p) PROVE DownInv'
  BY <1>4 DEF Restart, Goto, TypeOK
<1>5. ASSUME NEW p \in Peers, Mistyped(p) PROVE DownInv'
  BY <1>5 DEF Mistyped, TypeOK
<1>6. CASE Tick \/ UNCHANGED vars
  BY <1>6 DEF Tick, vars
<1> QED
  BY <1>1, <1>2, <1>3, <1>4, <1>5, <1>6 DEF Next, Environment

LEMMA DualStep == SafeInv /\ [Next]_vars => DualInv'
<1> SUFFICES ASSUME SafeInv, [Next]_vars PROVE DualInv'
  OBVIOUS
<1> USE PeersType, PeerFacts
<1>0. TypeOK /\ ThreadInv /\ DownInv /\ DualInv
  BY DEF SafeInv
<1>1. ASSUME NEW p \in Peers, Recv(p) PROVE DualInv'
  <2>1. \A q \in Peers : pc'[q] = "down" <=> pc[q] = "down"
    BY <1>0, <1>1, UpStep DEF Thread
  <2>2. PICK h \in Messages : h = Head(inbox[p]) /\ Carries(p, h)
    BY <1>0, <1>1, RecvFacts
  <2>3. /\ state'[p] \in {state[p], After(state[p], h, expiry[p])}
        /\ state'[Peer(p)] = state[Peer(p)]
        /\ \A q \in Peers : Carries(q, "active")' => Carries(q, "active")
    BY <1>0, <1>1, <2>2, RecvFacts
  <2>4. \/ state'[p] = state[p]
        \/ state'[p] = "active"
        \/ state'[p] = "passive" /\ Fresh(p) /\ Carries(p, "active")
    <3>1. state[p] \in States /\ Up(p)
      BY <1>0, <1>1 DEF TypeOK, Recv, Up
    <3> QED
      BY <2>2, <2>3, <3>1, AfterFacts DEF Fresh
  <2> QED
    BY <1>0, <2>1, <2>3, <2>4 DEF DualInv, NoDualPassive, Fresh, Passive, Up, Peers
<1>2. ASSUME NEW p \in Peers, Beat(p) PROVE DualInv'
  <2>1. UNCHANGED state /\ (\A q \in Peers : pc'[q] = "down" <=> pc[q] = "down") /\ pc[p] # "down"
    BY <1>0, <1>2, UpStep DEF Thread, Beat
  <2>2. CASE inbox' = inbox
    BY <1>0, <2>1, <2>2, DualSame DEF Carries
  <2>3. CASE inbox' = [inbox EXCEPT ![Peer(p)] = Append(@, state[p])] /\ state[p] # "active"
    <3>1. state[p] \in Messages
      BY <1>0 DEF TypeOK, Messages
    <3>2. \A q \in Peers : Carries(q, "active")' => Carries(q, "active")
      BY <1>0, <2>3, <3>1, AppendFacts
    <3> QED
      BY <1>0, <2>1, <3>2, DualSame
  <2>4. CASE state[p] = "active"
    <3>1. \A q \in Peers : (Fresh(q) \/ Passive(q))' => q = Peer(p)
      BY <1>0, <2>1, <2>4 DEF Fresh, Passive, TypeOK
    <3>2. Fresh(Peer(p))' => ~Passive(p)'
      BY <2>1, <2>4 DEF Passive
    <3> QED
      BY <3>1, <3>2 DEF DualInv, NoDualPassive, Peers
  <2> QED
    BY <1>0, <1>2, <2>2, <2>3, <2>4, BeatFacts
<1>3. ASSUME NEW p \in Peers, ClientRequest(p) PROVE DualInv'
  <2>1. (\A q \in Peers : pc'[q] = "down" <=> pc[q] = "down") /\ inbox' = inbox
    BY <1>3 DEF ClientRequest
  <2>2. state'[Peer(p)] = state[Peer(p)] /\ state'[p] \in {state[p], "active"}
    <3>1. state[p] \in States /\ state' = [state EXCEPT ![p] = After(@, "client", expiry[p])]
      BY <1>0, <1>3 DEF TypeOK, ClientRequest
    <3> QED
      BY <1>0, <3>1, AfterFacts DEF TypeOK
  <2>3. \A q \in Peers : Carries(q, "active")' => Carries(q, "active")
    BY <2>1 DEF Carries
  <2> QED
    BY <1>0, <2>1, <2>2, <2>3 DEF DualInv, NoDualPassive, Fresh, Passive, Up, Peers
<1>4. ASSUME NEW p \in Peers, Crash(p) PROVE DualInv'
  <2>1. UNCHANGED state /\ pc'[p] = "down" /\ pc'[Peer(p)] = pc[Peer(p)]
        /\ inbox'[Peer(p)] = inbox[Peer(p)]
    BY <1>0, <1>4 DEF Crash, Goto, TypeOK
  <2> QED
    BY <2>1 DEF DualInv, NoDualPassive, Fresh, Passive, Up, Peers
<1>5. ASSUME NEW p \in Peers, Restart(p) PROVE DualInv'
  <2>1. /\ state'[p] = Role(p) /\ state'[Peer(p)] = state[Peer(p)]
        /\ pc'[Peer(p)] = pc[Peer(p)] /\ inbox' = inbox /\ inbox[p] = <<>>
    BY <1>0, <1>5 DEF Restart, Goto, TypeOK, DownInv, Up
  <2>2. ~Carries(p, "active")'
    BY <2>1 DEF Carries
  <2>3. ~Passive(p)'
    BY <2>1 DEF Role, Passive
  <2> QED
    BY <2>1, <2>2, <2>3 DEF DualInv, NoDualPassive, Peers
<1>6. ASSUME NEW p \in Peers, Mistyped(p) PROVE DualInv'
  <2>1. UNCHANGED <<state, pc>> /\ inbox' = [inbox EXCEPT ![p] = Append(@, "mistyped")]
    BY <1>6 DEF Mistyped
  <2>2. \A q \in Peers : Carries(q, "active")' => Carries(q, "active")
    <3>1. "mistyped" \in Messages
      BY DEF Messages
    <3> QED
      BY <1>0, <2>1, <3>1, AppendFacts
  <2> QED
    BY <1>0, <2>1, <2>2, DualSame
<1>7. ASSUME UNCHANGED <<state, inbox>>, \A q \in Peers : pc'[q] = "down" <=> pc[q] = "down"
      PROVE  DualInv'
  BY <1>0, <1>7, DualSame DEF Carries
<1>8. ASSUME NEW p \in Peers, Loop(p) \/ Interrupted(p) \/ Poll(p) \/ Extend(p)
      PROVE  DualInv'
  BY <1>0, <1>7, <1>8, UpStep DEF Thread, Loop, Interrupted, Poll, Extend
<1>9. ASSUME NEW p \in Peers, Startup(p) \/ Shutdown(p) \/ Join(p) \/ Signal(p)
      PROVE  DualInv'
  BY <1>0, <1>7, <1>9, UpStep DEF Application, Startup, Shutdown, Join, Signal
<1>10. CASE Tick \/ UNCHANGED vars
  BY <1>7, <1>10 DEF Tick, vars
<1> QED
  BY <1>1, <1>2, <1>3, <1>4, <1>5, <1>6, <1>8, <1>9, <1>10
     DEF Next, Thread, Application, Environment

LEMMA SafeStart == Init => SafeInv
<1> SUFFICES ASSUME Init PROVE SafeInv
  OBVIOUS
<1>1. TypeOK /\ ThreadInv
  BY InitInv DEF IInv
<1>2. DownInv
  BY DEF Init, DownInv, Up
<1>3. \A p \in Peers : ~Passive(p) /\ ~Carries(p, "active")
  BY EmptyCarries DEF Init, Passive, Role
<1> QED
  BY <1>1, <1>2, <1>3, PeersType DEF SafeInv, DualInv, NoDualPassive

LEMMA SafeAlways == Spec => []SafeInv
<1>1. SafeInv /\ [Next]_vars => SafeInv'
  BY TypeStep, ThreadStep, DownStep, DualStep DEF SafeInv
<1> QED
  BY <1>1, SafeStart, PTL DEF Spec

\* "Two passives would mean cluster would be non-responsive" (src/ha.c:142): no
\* order of heartbeats, losses, takeovers, crashes and restarts leads there.
THEOREM NeverBothPassive == Spec => []NoDualPassive
<1>1. SafeInv => NoDualPassive
  BY DEF SafeInv, DualInv
<1> QED
  BY <1>1, SafeAlways, PTL
-----------------------------------------------------------------------------
(* Two actives, on a prompt system                                         *)

\* Foreign messages end a thread; the other faults may all happen.
PromptSystem == Prompt /\ "mistyped" \notin Faults

RoleInv ==
  /\ state[Primary] # "standby" /\ state[Standby] # "primary"
  /\ ~Carries(Primary, "primary") /\ ~Carries(Standby, "standby")

\* Between two ticks a peer publishes once, and a running thread reads all it
\* has: unless it has just started, or published itself, there is at most the
\* one message its peer has just published.
InstantInv ==
  \A p \in Peers : Alive(p) /\ next[p] < Heartbeat /\ inbox[p] # <<>> =>
    Len(inbox[p]) = 1 /\ next[Peer(p)] = Heartbeat

\* A standby whose heartbeat meets a primary that has yet to send its own has
\* nothing to read.
CrossInv ==
  Alive(Primary) /\ next[Primary] < Heartbeat /\ Carries(Primary, "standby") =>
    state[Standby] = "standby" /\ inbox[Standby] = <<>>

\* What is in its inbox will make the standby active.
Rising ==
  \/ state[Standby] = "passive" /\ Carries(Standby, "primary")
  \/ state[Standby] # "active" /\ ~InOrder(Standby)

\* Then the primary is not, nor will its inbox make it so.
SplitInv ==
  Rising \/ Active(Standby) => ~Active(Primary) /\ ~Carries(Primary, "standby")

RestartInv == RoleInv /\ InstantInv /\ CrossInv /\ (~takeover => SplitInv)

LEMMA RoleStep ==
  ASSUME SafeInv, RoleInv, [Next]_vars, "mistyped" \notin Faults
  PROVE  RoleInv'
<1> USE PeersType, PeerFacts
<1>0. TypeOK /\ ThreadInv /\ DownInv
  BY DEF SafeInv
<1>1. ASSUME NEW p \in Peers, Recv(p) PROVE RoleInv'
  <2>1. /\ state'[p] \in {state[p], "active", "passive"} /\ state'[Peer(p)] = state[Peer(p)]
        /\ \A q \in Peers : \A x : Carries(q, x)' => Carries(q, x)
    <3>1. state[p] \in States
      BY <1>0 DEF TypeOK
    <3> QED
      BY <1>0, <1>1, <3>1, RecvFacts, AfterFacts
  <2> QED
    BY <2>1 DEF RoleInv, Peers
<1>2. ASSUME NEW p \in Peers, Beat(p) PROVE RoleInv'
  <2>1. UNCHANGED state
    BY <1>2 DEF Beat
  <2>2. CASE inbox' = inbox
    BY <2>1, <2>2 DEF RoleInv, Carries
  <2>3. CASE inbox' = [inbox EXCEPT ![Peer(p)] = Append(@, state[p])] /\ state[p] \in Messages
    <3>1. /\ \A x : Carries(Peer(p), x)' => x = state[p] \/ Carries(Peer(p), x)
          /\ \A x : Carries(p, x)' <=> Carries(p, x)
      BY <1>0, <2>3, AppendFacts
    <3> QED
      BY <2>1, <3>1 DEF RoleInv, Peers
  <2> QED
    BY <1>0, <1>2, <2>2, <2>3, BeatFacts
<1>3. ASSUME NEW p \in Peers, ClientRequest(p) PROVE RoleInv'
  <2>1. state[p] \in States /\ state' = [state EXCEPT ![p] = After(@, "client", expiry[p])]
    BY <1>0, <1>3 DEF TypeOK, ClientRequest
  <2>2. state'[Peer(p)] = state[Peer(p)] /\ state'[p] \in {state[p], "active"}
    BY <1>0, <2>1, AfterFacts DEF TypeOK
  <2>3. inbox' = inbox
    BY <1>3 DEF ClientRequest
  <2> QED
    BY <2>2, <2>3 DEF RoleInv, Carries, Peers
<1>4. ASSUME NEW p \in Peers, Crash(p) PROVE RoleInv'
  <2>1. UNCHANGED state /\ inbox'[p] = <<>> /\ inbox'[Peer(p)] = inbox[Peer(p)]
    BY <1>0, <1>4 DEF Crash, TypeOK
  <2> QED
    BY <2>1 DEF RoleInv, Carries, Peers
<1>5. ASSUME NEW p \in Peers, Restart(p) PROVE RoleInv'
  <2>1. state'[p] = Role(p) /\ state'[Peer(p)] = state[Peer(p)] /\ inbox' = inbox
    BY <1>0, <1>5 DEF Restart, TypeOK
  <2> QED
    BY <2>1 DEF RoleInv, Carries, Role, Peers
<1>6. ASSUME UNCHANGED <<state, inbox>> PROVE RoleInv'
  BY <1>6 DEF RoleInv, Carries
<1> QED
  BY <1>1, <1>2, <1>3, <1>4, <1>5, <1>6
     DEF Next, Thread, Application, Environment, Tick, vars, Loop, Interrupted, Poll, Extend,
         Startup, Shutdown, Join, Signal, Mistyped

\* Which threads run.
LEMMA AliveStep ==
  ASSUME TypeOK, NEW p \in Peers
  PROVE  /\ Thread(p) => Alive(p) /\ (\A q \in Peers : Alive(q)' => Alive(q))
         /\ ClientRequest(p) \/ Shutdown(p) \/ Join(p) \/ Signal(p) \/ Mistyped(p)
              => pc' = pc /\ next' = next
         /\ Crash(p) \/ Restart(p) => ~Alive(p)' /\ next' = next
         /\ Startup(p) => next'[p] = Heartbeat /\ ~Alive(p)
         /\ Startup(p) \/ Crash(p) \/ Restart(p) =>
              pc'[Peer(p)] = pc[Peer(p)] /\ next'[Peer(p)] = next[Peer(p)]
<1> USE PeerFacts
<1>1. CASE Thread(p)
  BY <1>1 DEF Thread, Loop, Interrupted, Poll, Recv, Extend, Beat, Goto, Alive, TypeOK,
              Startup, ClientRequest, Shutdown, Join, Signal, Crash, Restart, Mistyped
<1>2. CASE ~Thread(p)
  BY <1>2 DEF Goto, Alive, TypeOK, Startup, ClientRequest, Shutdown, Join, Signal,
              Crash, Restart, Mistyped
<1> QED
  BY <1>1, <1>2

\* The clock waits for running threads.
LEMMA TickFacts ==
  ASSUME TypeOK, Prompt, Tick, NEW p \in Peers, Alive(p)
  PROVE  pc[p] = "poll" /\ inbox[p] = <<>> /\ next[p] # 0
BY DEF Tick, Busy, Alive

LEMMA InstantStep ==
  ASSUME SafeInv, InstantInv, [Next]_vars, PromptSystem
  PROVE  InstantInv'
<1> USE PeersType, PeerFacts, HAAssumption
<1>0. TypeOK /\ ThreadInv /\ Prompt /\ "mistyped" \notin Faults
  BY DEF SafeInv, PromptSystem
<1>1. ASSUME \A q \in Peers : Alive(q)' => Alive(q), UNCHANGED <<inbox, next>>
      PROVE  InstantInv'
  BY <1>1 DEF InstantInv
<1>2. ASSUME NEW p \in Peers, Recv(p) PROVE InstantInv'
  <2>1. \A q \in Peers : Alive(q)' => Alive(q)
    BY <1>0, <1>2, AliveStep DEF Thread
  <2>2. /\ inbox[p] # <<>> /\ inbox'[Peer(p)] = inbox[Peer(p)] /\ next' = next
        /\ Len(inbox'[p]) = Len(inbox[p]) - 1 /\ inbox'[p] \in Seq(Messages)
    BY <1>0, <1>2, TypeStep, RecvFacts DEF Recv, TypeOK
  <2>3. Len(inbox[p]) = 1 => inbox'[p] = <<>>
    BY <2>2
  <2> QED
    BY <2>1, <2>2, <2>3 DEF InstantInv, Peers
<1>3. ASSUME NEW p \in Peers, Beat(p) PROVE InstantInv'
  <2>1. (\A q \in Peers : Alive(q)' => Alive(q)) /\ Alive(p)
    BY <1>0, <1>3, AliveStep DEF Thread
  <2>2. CASE next[p] = 0
    <3>1. next'[p] = Heartbeat /\ next'[Peer(p)] = next[Peer(p)]
      BY <1>0, <1>3, <2>2 DEF Beat, TypeOK
    <3>2. ASSUME Alive(Peer(p)), next[Peer(p)] < Heartbeat, inbox'[Peer(p)] # <<>>
          PROVE  Len(inbox'[Peer(p)]) = 1
      <4>1. inbox[Peer(p)] = <<>>
        BY <2>2, <3>2 DEF InstantInv
      <4>2. inbox' = [inbox EXCEPT ![Peer(p)] = Append(@, state[p])] /\ state[p] \in Messages
        BY <1>0, <1>3, <3>2, <4>1, BeatFacts
      <4>3. Len(inbox'[Peer(p)]) = Len(inbox[Peer(p)]) + 1
        BY ONLY <1>0, <4>2, AppendFacts, Peer(p) \in Peers
      <4> QED
        BY <4>1, <4>3
    <3> QED
      BY <2>1, <3>1, <3>2 DEF InstantInv, Peers
  <2>3. CASE next[p] # 0
    BY <1>1, <1>3, <2>1, <2>3 DEF Beat
  <2> QED
    BY <2>2, <2>3
<1>4. ASSUME NEW p \in Peers, Loop(p) \/ Interrupted(p) \/ Poll(p) \/ Extend(p)
      PROVE  InstantInv'
  BY <1>0, <1>1, <1>4, AliveStep DEF Thread, Loop, Interrupted, Poll, Extend
<1>5. ASSUME NEW p \in Peers, ClientRequest(p) \/ Shutdown(p) \/ Join(p) \/ Signal(p)
      PROVE  InstantInv'
  <2>1. UNCHANGED <<inbox, next, pc>>
    BY <1>0, <1>5, AliveStep DEF ClientRequest, Shutdown, Join, Signal
  <2> QED
    BY <1>1, <2>1 DEF Alive
<1>6. ASSUME NEW p \in Peers, Startup(p) \/ Crash(p) \/ Restart(p) PROVE InstantInv'
  <2>1. /\ inbox'[Peer(p)] = inbox[Peer(p)] /\ next'[p] \in {Heartbeat, next[p]}
        /\ next'[Peer(p)] = next[Peer(p)] /\ (Alive(Peer(p))' <=> Alive(Peer(p)))
        /\ ~Alive(p)' \/ next'[p] = Heartbeat
    <3>1. inbox'[Peer(p)] = inbox[Peer(p)]
      BY <1>0, <1>6 DEF Startup, Crash, Restart, TypeOK
    <3>2. /\ pc'[Peer(p)] = pc[Peer(p)] /\ next'[Peer(p)] = next[Peer(p)]
          /\ next'[p] \in {Heartbeat, next[p]} /\ (~Alive(p)' \/ next'[p] = Heartbeat)
      BY <1>0, <1>6, AliveStep
    <3> QED
      BY <3>1, <3>2 DEF Alive
  <2> QED
    BY <2>1 DEF InstantInv, Peers
<1>7. CASE Tick
  <2>1. \A p \in Peers : Alive(p) => inbox[p] = <<>>
    BY <1>0, <1>7, TickFacts
  <2> QED
    BY <1>7, <2>1 DEF Tick, InstantInv, Alive
<1>8. CASE UNCHANGED vars
  BY <1>1, <1>8 DEF vars, Alive
<1> QED
  BY <1>0, <1>2, <1>3, <1>4, <1>5, <1>6, <1>7, <1>8
     DEF Next, Thread, Application, Environment, Mistyped
LEMMA CrossStep ==
  ASSUME SafeInv, InstantInv, CrossInv, [Next]_vars, PromptSystem
  PROVE  CrossInv'
<1> USE PeersType, PeerFacts, HAAssumption
<1>0. TypeOK /\ ThreadInv /\ Prompt /\ "mistyped" \notin Faults
  BY DEF SafeInv, PromptSystem
\* what may make a difference: only the standby's heartbeat does
<1>1. ASSUME Alive(Primary)' => Alive(Primary), next'[Primary] \in {next[Primary], Heartbeat},
             Carries(Primary, "standby")' => Carries(Primary, "standby"),
             CrossInv => inbox[Standby] # <<>> \/ (state[Standby] = "standby" => state'[Standby] = "standby"),
             inbox[Standby] = <<>> => inbox'[Standby] = <<>> \/ next'[Primary] = Heartbeat
      PROVE  CrossInv'
  BY <1>1 DEF CrossInv
<1>2. CASE Recv(Primary)
  <2>1. /\ Alive(Primary)' => Alive(Primary)
        /\ Carries(Primary, "standby")' => Carries(Primary, "standby")
        /\ next' = next /\ inbox'[Standby] = inbox[Standby] /\ state'[Standby] = state[Standby]
    BY <1>0, <1>2, AliveStep, RecvFacts DEF Thread, Recv
  <2> QED
    BY <1>1, <2>1
<1>3. CASE Recv(Standby)
  <2>1. /\ Alive(Primary)' => Alive(Primary)
        /\ Carries(Primary, "standby")' <=> Carries(Primary, "standby")
        /\ next' = next /\ inbox[Standby] # <<>>
    BY <1>0, <1>3, AliveStep, RecvFacts DEF Thread, Recv
  <2> QED
    BY <1>1, <2>1
<1>4. CASE Beat(Primary)
  <2>1. /\ Alive(Primary)' => Alive(Primary)
        /\ state' = state /\ next'[Primary] \in {next[Primary], Heartbeat}
        /\ inbox' = inbox \/ next'[Primary] = Heartbeat
    BY <1>0, <1>4, AliveStep DEF Thread, Beat, TypeOK
  <2>2. Carries(Primary, "standby")' => Carries(Primary, "standby")
    <3>1. inbox'[Primary] = inbox[Primary]
      BY <1>0, <1>4 DEF Beat, Publish, TypeOK
    <3> QED
      BY <3>1 DEF Carries
  <2> QED
    BY <1>1, <2>1, <2>2
<1>5. CASE Beat(Standby)
  <2>1. /\ Alive(Primary)' => Alive(Primary)
        /\ Alive(Standby) /\ state' = state /\ next'[Primary] = next[Primary]
    BY <1>0, <1>5, AliveStep DEF Thread, Beat, TypeOK
  <2>2. CASE inbox' = inbox
    BY <1>1, <2>1, <2>2 DEF Carries
  <2>3. CASE /\ inbox' = [inbox EXCEPT ![Primary] = Append(@, state[Standby])]
             /\ next[Standby] = 0 /\ state[Standby] \in Messages
    <3> SUFFICES ASSUME Alive(Primary), next[Primary] < Heartbeat, Carries(Primary, "standby")'
                 PROVE  state'[Standby] = "standby" /\ inbox'[Standby] = <<>>
      BY <2>1 DEF CrossInv
    <3>1. inbox[Standby] = <<>>
      BY <2>1, <2>3 DEF InstantInv
    <3>2. inbox[Primary] = <<>> /\ inbox'[Standby] = inbox[Standby]
      BY <1>0, <2>3 DEF InstantInv, TypeOK
    <3>3. ~Carries(Primary, "standby")
      BY <3>2, EmptyCarries
    <3>4. state[Standby] = "standby"
      BY <1>0, <2>3, <3>3, AppendFacts
    <3> QED
      BY <2>1, <3>1, <3>2, <3>4
  <2> QED
    BY <1>0, <1>5, <2>2, <2>3, BeatFacts
<1>6. ASSUME NEW p \in Peers, Loop(p) \/ Interrupted(p) \/ Poll(p) \/ Extend(p)
      PROVE  CrossInv'
  <2>1. \A q \in Peers : Alive(q)' => Alive(q)
    BY <1>0, <1>6, AliveStep DEF Thread
  <2>2. UNCHANGED <<state, inbox, next>>
    BY <1>6 DEF Loop, Interrupted, Poll, Extend
  <2> QED
    BY <1>1, <2>1, <2>2 DEF Carries
<1>7. ASSUME NEW p \in Peers, ClientRequest(p) PROVE CrossInv'
  <2>1. UNCHANGED <<inbox, next, pc>>
    BY <1>7 DEF ClientRequest
  <2>2. state[Standby] = "standby" => state'[Standby] = "standby"
    BY <1>0, <1>7 DEF ClientRequest, After, TypeOK
  <2> QED
    BY <1>1, <2>1, <2>2 DEF Carries, Alive
<1>8. ASSUME UNCHANGED <<state, inbox, next>>, pc' = pc PROVE CrossInv'
  BY <1>8 DEF CrossInv, Carries, Alive
<1>9. ASSUME NEW p \in Peers, Shutdown(p) \/ Join(p) \/ Signal(p) PROVE CrossInv'
  BY <1>8, <1>9 DEF Shutdown, Join, Signal
<1>10. CASE Startup(Primary) \/ Crash(Primary) \/ Restart(Primary)
  <2>1. ~Alive(Primary)' \/ next'[Primary] = Heartbeat
    BY <1>0, <1>10, AliveStep
  <2> QED
    BY <2>1 DEF CrossInv
<1>11. CASE Startup(Standby) \/ Crash(Standby) \/ Restart(Standby)
  <2>1. pc'[Primary] = pc[Primary] /\ next'[Primary] = next[Primary]
    BY <1>0, <1>11, AliveStep
  <2>2. /\ inbox'[Primary] = inbox[Primary]
        /\ inbox'[Standby] = inbox[Standby] \/ inbox'[Standby] = <<>>
        /\ state'[Standby] \in {state[Standby], "standby"}
    BY <1>0, <1>11 DEF Startup, Crash, Restart, TypeOK, Role
  <2> QED
    BY <1>1, <2>1, <2>2 DEF Carries, Alive
<1>12. CASE Tick
  <2>1. Alive(Primary) => ~Carries(Primary, "standby")
    BY <1>0, <1>12, TickFacts, EmptyCarries
  <2> QED
    BY <1>12, <2>1 DEF Tick, CrossInv, Alive, Carries
<1>13. CASE UNCHANGED vars
  BY <1>8, <1>13 DEF vars
<1> QED
  BY <1>0, <1>2, <1>3, <1>4, <1>5, <1>6, <1>7, <1>9, <1>10, <1>11, <1>12, <1>13
     DEF Next, Thread, Application, Environment, Mistyped, Peers

LEMMA SplitStep ==
  ASSUME SafeInv, RoleInv, InstantInv, CrossInv, SplitInv, [Next]_vars, PromptSystem, ~takeover'
  PROVE  SplitInv'
<1> USE PeersType, PeerFacts, HAAssumption
<1>0. TypeOK /\ ThreadInv /\ DownInv /\ Prompt /\ "mistyped" \notin Faults
  BY DEF SafeInv, PromptSystem
<1>1. ASSUME UNCHANGED <<state, inbox>>, \A q \in Peers : pc'[q] = "down" <=> pc[q] = "down"
      PROVE  SplitInv'
  BY <1>1 DEF SplitInv, Rising, Active, Carries, InOrder
<1>2. CASE Recv(Primary)
  <2>1. \A q \in Peers : pc'[q] = "down" <=> pc[q] = "down"
    BY <1>0, <1>2, UpStep DEF Thread
  <2>2. PICK h \in Messages : h = Head(inbox[Primary]) /\ Carries(Primary, h)
    BY <1>0, <1>2, RecvFacts
  <2>3. /\ state'[Primary] \in {state[Primary], After(state[Primary], h, expiry[Primary])}
        /\ state'[Standby] = state[Standby]
        /\ Carries(Primary, "standby")' => Carries(Primary, "standby")
        /\ Carries(Standby, "primary")' <=> Carries(Standby, "primary")
        /\ InOrder(Standby)' <=> InOrder(Standby)
    BY <1>0, <1>2, <2>2, RecvFacts
  <2>4. ASSUME Rising \/ Active(Standby) PROVE state'[Primary] # "active"
    <3>1. h # "standby" /\ h # "primary" /\ state[Primary] # "active" /\ h # "client"
      BY <1>2, <2>2, <2>4 DEF SplitInv, RoleInv, Active, Recv, Messages, States
    <3>2. state[Primary] \in States
      BY <1>0 DEF TypeOK
    <3> QED
      BY <2>3, <3>1, <3>2, AfterFacts
  <2> QED
    BY <2>1, <2>3, <2>4 DEF SplitInv, Rising, Active
<1>3. CASE Recv(Standby)
  <2>1. \A q \in Peers : pc'[q] = "down" <=> pc[q] = "down"
    BY <1>0, <1>3, UpStep DEF Thread
  <2>2. PICK h \in Messages : h = Head(inbox[Standby]) /\ Carries(Standby, h)
    BY <1>0, <1>3, RecvFacts
  <2>3. /\ state'[Standby] \in {state[Standby], After(state[Standby], h, expiry[Standby])}
        /\ state'[Primary] = state[Primary]
        /\ Carries(Standby, "primary")' => Carries(Standby, "primary")
        /\ Carries(Primary, "standby")' <=> Carries(Primary, "standby")
        /\ InOrder(Standby) => InOrder(Standby)' /\ (h = "active" => ~Carries(Standby, "primary")')
    BY <1>0, <1>3, <2>2, RecvFacts
  <2>4. /\ state[Standby] \in States \ {"primary"} /\ h # "standby" /\ h # "client"
        /\ pc[Standby] # "down"
    BY <1>0, <1>3, <2>2 DEF TypeOK, RoleInv, Recv, Messages, States
  <2>5. Rising' \/ Active(Standby)' => Rising \/ Active(Standby)
    <3>1. CASE state'[Standby] = state[Standby]
      BY <2>1, <2>3, <3>1 DEF Rising, Active
    <3>2. CASE state'[Standby] # state[Standby] /\ state'[Standby] = "active"
      BY <2>2, <2>3, <2>4, <3>2, AfterFacts DEF Rising
    <3>3. CASE state'[Standby] # state[Standby] /\ state'[Standby] # "active"
      <4>1. state'[Standby] = "passive" /\ state[Standby] = "standby" /\ h = "active"
        BY <2>3, <2>4, <3>3, AfterFacts
      <4> QED
        BY <2>3, <4>1 DEF Rising, Active
    <3> QED
      BY <3>1, <3>2, <3>3
  <2> QED
    BY <2>1, <2>3, <2>5 DEF SplitInv, Active
<1>4. CASE Beat(Primary)
  <2>1. /\ \A q \in Peers : pc'[q] = "down" <=> pc[q] = "down"
        /\ Alive(Primary) /\ state' = state
    BY <1>0, <1>4, UpStep, AliveStep DEF Thread, Beat
  <2>2. CASE inbox' = inbox
    BY <1>1, <2>1, <2>2
  <2>3. CASE /\ inbox' = [inbox EXCEPT ![Standby] = Append(@, state[Primary])]
             /\ next[Primary] = 0 /\ state[Primary] \in Messages
    <3>1. /\ \A x : Carries(Standby, x)' => x = state[Primary] \/ Carries(Standby, x)
          /\ InOrder(Standby) /\ (state[Primary] = "primary" => ~Carries(Standby, "active"))
               => InOrder(Standby)'
          /\ \A x : Carries(Primary, x)' <=> Carries(Primary, x)
      <4>1. Primary \in Peers \ {Standby} /\ Standby \in Peers
        OBVIOUS
      <4> QED
        BY ONLY <1>0, <2>3, <4>1, AppendFacts
    <3>2. CASE state[Primary] # "primary"
      BY <2>1, <3>1, <3>2 DEF SplitInv, Rising, Active
    <3>3. CASE state[Primary] = "primary"
      <4>1. ASSUME Carries(Primary, "standby")
            PROVE  state[Standby] = "standby" /\ InOrder(Standby)'
        <5>1. state[Standby] = "standby" /\ inbox[Standby] = <<>>
          BY <2>1, <2>3, <4>1 DEF CrossInv
        <5> QED
          BY <3>1, <5>1, EmptyCarries
      <4>2. Active(Standby) => ~Carries(Primary, "standby")
        BY DEF SplitInv
      <4> QED
        BY <2>1, <3>1, <3>3, <4>1, <4>2 DEF SplitInv, Rising, Active
    <3> QED
      BY <3>2, <3>3
  <2> QED
    BY <1>0, <1>4, <2>2, <2>3, BeatFacts
<1>5. CASE Beat(Standby)
  <2>1. /\ \A q \in Peers : pc'[q] = "down" <=> pc[q] = "down"
        /\ Alive(Standby) /\ state' = state
    BY <1>0, <1>5, UpStep, AliveStep DEF Thread, Beat
  <2>2. CASE inbox' = inbox
    BY <1>1, <2>1, <2>2
  <2>3. CASE /\ inbox' = [inbox EXCEPT ![Primary] = Append(@, state[Standby])]
             /\ next[Standby] = 0 /\ state[Standby] \in Messages
    <3>1. /\ \A x : Carries(Primary, x)' => x = state[Standby] \/ Carries(Primary, x)
          /\ \A x : Carries(Standby, x)' <=> Carries(Standby, x)
          /\ InOrder(Standby)' <=> InOrder(Standby)
      BY <1>0, <2>3, AppendFacts
    <3>2. InOrder(Standby)
      <4>1. inbox[Standby] = <<>> \/ Len(inbox[Standby]) = 1
        BY <2>1, <2>3 DEF InstantInv
      <4>2. CASE Len(inbox[Standby]) = 1
        BY <4>2 DEF InOrder
      <4> QED
        BY <4>1, <4>2, EmptyCarries
    <3>3. Rising \/ Active(Standby) => state[Standby] # "standby"
      BY <3>2 DEF Rising, Active
    <3>4. Rising' \/ Active(Standby)' => Rising \/ Active(Standby)
      BY <2>1, <3>1 DEF Rising, Active
    <3> QED
      BY <2>1, <3>1, <3>3, <3>4 DEF SplitInv, Active
  <2> QED
    BY <1>0, <1>5, <2>2, <2>3, BeatFacts
<1>6. ASSUME NEW p \in Peers, Loop(p) \/ Interrupted(p) \/ Poll(p) \/ Extend(p)
      PROVE  SplitInv'
  BY <1>0, <1>1, <1>6, UpStep DEF Thread, Loop, Interrupted, Poll, Extend
<1>7. ASSUME NEW p \in Peers, Startup(p) \/ Shutdown(p) \/ Join(p) \/ Signal(p)
      PROVE  SplitInv'
  BY <1>0, <1>1, <1>7, UpStep DEF Application, Startup, Shutdown, Join, Signal
<1>8. ASSUME NEW p \in Peers, ClientRequest(p) PROVE SplitInv'
  <2>1. state'[p] = state[p]
    BY <1>8, Zenon DEF ClientRequest
  <2>2. state' = state
    BY <1>0, <1>8, <2>1 DEF ClientRequest, TypeOK
  <2> QED
    BY <1>1, <1>8, <2>2 DEF ClientRequest
<1>9. CASE Crash(Primary) \/ Restart(Primary)
  <2>1. /\ state'[Standby] = state[Standby] /\ inbox'[Standby] = inbox[Standby]
        /\ ~Active(Primary)' /\ inbox'[Primary] = <<>>
    BY <1>0, <1>9 DEF Crash, Restart, Goto, Active, Role, TypeOK, DownInv, Up
  <2>2. ~Carries(Primary, "standby")'
    BY <2>1 DEF Carries
  <2> QED
    BY <2>1, <2>2 DEF SplitInv
<1>10. CASE Crash(Standby) \/ Restart(Standby)
  <2>1. ~Active(Standby)' /\ inbox'[Standby] = <<>>
    BY <1>0, <1>10 DEF Crash, Restart, Goto, Active, Role, TypeOK, DownInv, Up
  <2>2. ~Rising'
    BY <2>1 DEF Rising, Carries, InOrder
  <2> QED
    BY <2>1, <2>2 DEF SplitInv
<1>11. CASE Tick \/ UNCHANGED vars
  BY <1>1, <1>11 DEF Tick, vars
<1> QED
  BY <1>0, <1>2, <1>3, <1>4, <1>5, <1>6, <1>7, <1>8, <1>9, <1>10, <1>11
     DEF Next, Thread, Application, Environment, Mistyped, Peers

LEMMA RestartStart == Init => RestartInv
<1> SUFFICES ASSUME Init PROVE RestartInv
  OBVIOUS
<1> USE PeersType, PeerFacts
<1>1. \A p \in Peers : (\A x : ~Carries(p, x)) /\ InOrder(p) /\ inbox[p] = <<>>
  BY EmptyCarries DEF Init
<1>2. state[Primary] = "primary" /\ state[Standby] = "standby"
  BY DEF Init, Role
<1> QED
  BY <1>1, <1>2 DEF RestartInv, RoleInv, InstantInv, CrossInv, SplitInv, Rising, Active

\* "Peer is restarting - become active, peer will go passive" (src/ha.c:130): where
\* threads and network take no time on the clock, peers that crash and come back
\* as configured, at any moment, do not make both active, whatever is lost.
THEOREM NeverBothActive == PromptSystem => (Spec => []NoRestartSplit)
<1> SUFFICES ASSUME PromptSystem PROVE Spec => []NoRestartSplit
  OBVIOUS
<1>1. SafeInv /\ RestartInv /\ [Next]_vars => RestartInv'
  <2> SUFFICES ASSUME SafeInv, RestartInv, [Next]_vars PROVE RestartInv'
    OBVIOUS
  <2>1. RoleInv' /\ InstantInv' /\ CrossInv'
    BY RoleStep, InstantStep, CrossStep DEF RestartInv, PromptSystem
  <2>2. ASSUME ~takeover' PROVE ~takeover
    <3>1. TypeOK
      BY DEF SafeInv
    <3> QED
      BY <2>2, <3>1 DEF TypeOK, Next, Thread, Application, Environment, Loop, Interrupted, Poll,
         Recv, Extend, Beat, Startup, ClientRequest, Shutdown, Join, Signal, Crash, Restart,
         Mistyped, Tick, vars
  <2> QED
    BY <2>1, <2>2, SplitStep DEF RestartInv
<1>2. RestartInv => NoRestartSplit
  BY DEF RestartInv, SplitInv, NoRestartSplit
<1> QED
  BY <1>1, <1>2, RestartStart, SafeAlways, PTL DEF Spec
-----------------------------------------------------------------------------
(* No takeover from a living peer                                          *)

LosslessSystem == Prompt /\ "loss" \notin Faults

\* Before ha_startup() a peer has what ha_new() gave it, and its first process
\* has sent nothing.
NewInv ==
  \A p \in Peers : pc[p] = "new" =>
    /\ state[p] = Role(p)
    /\ ~restarted => state[Peer(p)] # "passive" /\ ~Carries(Peer(p), "active")

\* A passive peer of a running one has at least a heartbeat left when that one
\* next publishes, or a message to read.
Expecting(p) ==
  \/ expiry[p] >= Heartbeat + next[Peer(p)]
  \/ inbox[p] # <<>> /\ expiry[p] >= Heartbeat

LivingInv ==
  ~restarted =>
    \A p \in Peers :
      Alive(p) /\ Alive(Peer(p)) /\ state[p] = "passive" /\ pc[p] # "extend" => Expecting(p)

LEMMA NewStep ==
  ASSUME SafeInv, NewInv, [Next]_vars
  PROVE  NewInv'
<1> USE PeersType, PeerFacts
<1>0. TypeOK /\ ThreadInv
  BY DEF SafeInv
\* who is new, was new, or has restarted
<1>1. ASSUME NEW p \in Peers, pc'[p] = "new", ~Restart(p)
      PROVE  pc[p] = "new"
  BY <1>0, <1>1 DEF Next, Thread, Application, Environment, Loop, Interrupted, Poll, Recv,
         Extend, Beat, Startup, ClientRequest, Shutdown, Join, Signal, Crash, Restart, Mistyped,
         Tick, vars, Goto, TypeOK
<1>2. ASSUME NEW p \in Peers, pc'[p] = "new", ~Restart(p)
      PROVE  /\ state'[p] = Role(p)
             /\ ~restarted' => /\ state'[Peer(p)] # "passive"
                               /\ ~Carries(Peer(p), "active")'
  <2>0. PICK q \in Peers : q = Peer(p)
    OBVIOUS
  <2> SUFFICES /\ state'[p] = Role(p)
               /\ ~restarted' => state'[q] # "passive" /\ ~Carries(q, "active")'
    BY <2>0
  <2>1. /\ pc[p] = "new" /\ state[p] = Role(p) /\ state[p] \in {"primary", "standby"}
        /\ ~restarted => state[q] # "passive" /\ ~Carries(q, "active")
    BY <1>1, <1>2, <2>0 DEF NewInv, Role
  <2>2. q \in Peers /\ p \in Peers \ {q} /\ q # p /\ Peer(q) = p /\ state[q] \in States
    BY <1>0, <2>0 DEF TypeOK
  <2>3. ASSUME UNCHANGED <<state, inbox>>, ~restarted' => ~restarted
        PROVE  /\ state'[p] = Role(p)
               /\ ~restarted' => state'[q] # "passive" /\ ~Carries(q, "active")'
    BY <2>1, <2>3 DEF Carries
  <2>4. CASE Recv(q)
    <3>1. PICK h \in Messages : h = Head(inbox[q]) /\ Carries(q, h)
      BY <1>0, <2>2, <2>4, RecvFacts
    <3>2. /\ state'[p] = state[p] /\ state'[q] \in {state[q], After(state[q], h, expiry[q])}
          /\ Carries(q, "active")' => Carries(q, "active")
      BY <1>0, <2>2, <2>4, <3>1, RecvFacts
    <3>3. ~restarted => state'[q] # "passive"
      BY <2>1, <2>2, <3>1, <3>2, AfterFacts
    <3> QED
      BY <2>1, <2>4, <3>2, <3>3 DEF Recv
  <2>5. CASE Beat(q)
    <3>1. UNCHANGED <<state, restarted>>
      BY <2>5 DEF Beat
    <3>2. CASE inbox' = inbox
      BY <2>3, <3>1, <3>2
    <3>3. CASE inbox' = [inbox EXCEPT ![p] = Append(@, state[q])] /\ state[q] \in Messages
      <4>1. Carries(q, "active")' <=> Carries(q, "active")
        <5>1. q \in Peers \ {p}
          BY <2>2
        <5> QED
          BY ONLY <1>0, <3>3, <5>1, p \in Peers, AppendFacts
      <4> QED
        BY <2>1, <3>1, <4>1
    <3> QED
      BY <1>0, <2>2, <2>5, <3>2, <3>3, BeatFacts
  <2>6. ASSUME NEW r \in Peers, Mistyped(r)
        PROVE  /\ state'[p] = Role(p)
               /\ ~restarted' => state'[q] # "passive" /\ ~Carries(q, "active")'
    <3>1. /\ UNCHANGED <<state, restarted>> /\ "mistyped" \in Messages
          /\ inbox' = [inbox EXCEPT ![r] = Append(@, "mistyped")]
      BY <2>6 DEF Mistyped, Messages
    <3>2. Carries(q, "active")' => Carries(q, "active")
      <4>1. CASE q = r
        BY <1>0, <3>1, <4>1, AppendFacts
      <4>2. CASE q # r
        <5>1. q \in Peers \ {r}
          BY <4>2
        <5> QED
          BY ONLY <1>0, <3>1, <5>1, r \in Peers, AppendFacts
      <4> QED
        BY <4>1, <4>2
    <3> QED
      BY <2>1, <3>1, <3>2
  <2>7. ASSUME NEW r \in Peers, ClientRequest(r)
        PROVE  /\ state'[p] = Role(p)
               /\ ~restarted' => state'[q] # "passive" /\ ~Carries(q, "active")'
    <3>1. UNCHANGED <<inbox, restarted>>
      BY <2>7 DEF ClientRequest
    <3>2. state'[p] = state[p] /\ (state'[q] = "passive" => state[q] = "passive")
      BY <1>0, <2>1, <2>2, <2>7 DEF ClientRequest, After, TypeOK
    <3> QED
      BY <2>1, <3>1, <3>2 DEF Carries
  <2>8. ASSUME NEW r \in Peers, Crash(r) \/ Restart(r)
        PROVE  state'[p] = Role(p) /\ restarted'
    <3>1. CASE Crash(r)
      BY <2>1, <3>1 DEF Crash
    <3>2. CASE Restart(r)
      BY <1>0, <1>2, <2>1, <2>8, <3>2 DEF Restart, ThreadInv, TypeOK
    <3> QED
      BY <2>8, <3>1, <3>2
  <2>9. ~Recv(p) /\ ~Beat(p)
    BY <2>1 DEF Recv, Beat
  <2>10. \A r \in Peers : r = p \/ r = q
    BY <2>0
  <2>11. ASSUME NEW r \in Peers, Loop(r) \/ Interrupted(r) \/ Poll(r) \/ Extend(r)
                                 \/ Startup(r) \/ Shutdown(r) \/ Join(r) \/ Signal(r)
         PROVE  UNCHANGED <<state, inbox, restarted>>
    BY <2>11 DEF Loop, Interrupted, Poll, Extend, Startup, Shutdown, Join, Signal
  <2>12. CASE Tick \/ UNCHANGED vars
    BY <2>3, <2>12 DEF Tick, vars
  <2> QED
    BY <2>3, <2>4, <2>5, <2>6, <2>7, <2>8, <2>9, <2>10, <2>11, <2>12
       DEF Next, Thread, Application, Environment
<1>3. ASSUME NEW p \in Peers, Restart(p) PROVE state'[p] = Role(p) /\ restarted'
  BY <1>0, <1>3 DEF Restart, ThreadInv, TypeOK
<1> QED
  BY <1>2, <1>3 DEF NewInv

LEMMA LivingStep ==
  ASSUME SafeInv, NewInv, LivingInv, [Next]_vars, LosslessSystem
  PROVE  LivingInv'
<1> USE PeersType, PeerFacts, HAAssumption
<1>0. TypeOK /\ ThreadInv /\ Prompt /\ "loss" \notin Faults
  BY DEF SafeInv, LosslessSystem
<1>1. ASSUME \A q \in Peers : Alive(q)' => Alive(q),
             \A q \in Peers : Alive(q)' /\ pc'[q] # "extend" => pc[q] # "extend",
             \A q \in Peers : state'[q] = "passive" => state[q] = "passive",
             \A q \in Peers : inbox[q] # <<>> => inbox'[q] # <<>>,
             UNCHANGED <<expiry, next, restarted>>
      PROVE  LivingInv'
  BY <1>1 DEF LivingInv, Expecting
<1>2. ASSUME NEW p \in Peers, Loop(p) \/ Interrupted(p) \/ Poll(p) PROVE LivingInv'
  <2>1. \A q \in Peers : Alive(q)' => Alive(q)
    BY <1>0, <1>2, AliveStep DEF Thread
  <2>2. UNCHANGED <<state, inbox, expiry, next, restarted>>
    BY <1>2 DEF Loop, Interrupted, Poll
  <2>3. \A q \in Peers : Alive(q)' /\ pc'[q] # "extend" => pc[q] # "extend"
    BY <1>0, <1>2 DEF Loop, Interrupted, Poll, Goto, TypeOK
  <2> QED
    BY <1>1, <2>1, <2>2, <2>3
<1>3. ASSUME NEW p \in Peers, Recv(p) PROVE LivingInv'
  <2>1. \A q \in Peers : Alive(q)' => Alive(q)
    BY <1>0, <1>3, AliveStep DEF Thread
  <2>2. /\ UNCHANGED <<expiry, next, restarted>>
        /\ pc'[p] \in {"extend", "done"} /\ pc'[Peer(p)] = pc[Peer(p)]
        /\ inbox'[Peer(p)] = inbox[Peer(p)] /\ state'[Peer(p)] = state[Peer(p)]
    BY <1>0, <1>3 DEF Recv, Goto, TypeOK
  <2>3. pc'[p] # "extend" => ~Alive(p)'
    BY <2>2 DEF Alive
  <2> QED
    BY <2>1, <2>2, <2>3 DEF LivingInv, Expecting, Peers
<1>4. ASSUME NEW p \in Peers, Extend(p) PROVE LivingInv'
  <2>1. \A q \in Peers : Alive(q)' => Alive(q)
    BY <1>0, <1>4, AliveStep DEF Thread
  <2>2. /\ UNCHANGED <<state, inbox, next, restarted>>
        /\ expiry'[p] = 2 * Heartbeat /\ expiry'[Peer(p)] = expiry[Peer(p)]
        /\ pc'[Peer(p)] = pc[Peer(p)]
    BY <1>0, <1>4 DEF Extend, Goto, TypeOK
  <2>3. next[Peer(p)] \in 0..Heartbeat
    BY <1>0 DEF TypeOK
  <2>4. Expecting(p)'
    BY <2>2, <2>3 DEF Expecting
  <2> QED
    BY <2>1, <2>2, <2>4 DEF LivingInv, Expecting, Peers
<1>5. ASSUME NEW p \in Peers, Beat(p) PROVE LivingInv'
  <2>1. (\A q \in Peers : Alive(q)' => Alive(q)) /\ Alive(p)
    BY <1>0, <1>5, AliveStep DEF Thread
  <2>2. UNCHANGED <<state, expiry, restarted>> /\ pc[p] = "beat" /\ pc'[p] = "loop"
        /\ pc'[Peer(p)] = pc[Peer(p)] /\ inbox'[p] = inbox[p] /\ next'[Peer(p)] = next[Peer(p)]
    BY <1>0, <1>5 DEF Beat, Publish, Goto, TypeOK
  <2>3. CASE next[p] # 0
    BY <1>1, <1>5, <2>1, <2>2, <2>3 DEF Beat, Peers
  <2>4. CASE next[p] = 0
    <3>1. Alive(Peer(p)) => inbox'[Peer(p)] # <<>>
      <4> SUFFICES ASSUME Alive(Peer(p)) PROVE inbox'[Peer(p)] # <<>>
        OBVIOUS
      <4>1. state[p] \in Messages /\ inbox[Peer(p)] \in Seq(Messages) /\ pc[Peer(p)] # "down"
        BY <1>0 DEF TypeOK, Messages, Alive
      <4>2. CASE inbox' = [inbox EXCEPT ![Peer(p)] = Append(@, state[p])]
        BY <1>0, <4>1, <4>2, AppendFacts
      <4>3. CASE Len(inbox[Peer(p)]) >= HighWater /\ inbox' = inbox
        BY <4>1, <4>3
      <4> QED
        BY <1>0, <1>5, <2>4, <4>1, <4>2, <4>3 DEF Beat, Publish
    <3>2. ASSUME Expecting(Peer(p)), Alive(Peer(p)) PROVE Expecting(Peer(p))'
      <4>1. expiry[Peer(p)] \in Nat
        BY <1>0 DEF TypeOK
      <4> QED
        BY <2>2, <2>4, <3>1, <3>2, <4>1 DEF Expecting
    <3>3. Expecting(p) => Expecting(p)'
      BY <2>2 DEF Expecting
    <3>4. state' = state /\ restarted' = restarted
      BY <2>2
    <3> HIDE DEF Expecting
    <3> QED
      BY <2>1, <2>2, <3>2, <3>3, <3>4 DEF LivingInv, Peers
  <2> QED
    BY <2>3, <2>4
<1>6. ASSUME NEW p \in Peers, Startup(p) PROVE LivingInv'
  <2>1. /\ pc[p] = "new" /\ UNCHANGED <<state, inbox, expiry, restarted>>
    BY <1>6 DEF Startup
  <2>2. ~restarted => state[p] # "passive" /\ state[Peer(p)] # "passive"
    BY <2>1 DEF NewInv, Role
  <2> QED
    BY <2>1, <2>2 DEF LivingInv, Peers
<1>7. ASSUME NEW p \in Peers, ClientRequest(p) PROVE LivingInv'
  <2>1. UNCHANGED <<inbox, expiry, next, pc, restarted>>
    BY <1>7 DEF ClientRequest
  <2>2. \A q \in Peers : state'[q] = "passive" => state[q] = "passive"
    BY <1>0, <1>7 DEF ClientRequest, After, TypeOK
  <2> QED
    BY <1>1, <2>1, <2>2 DEF Alive
<1>8. ASSUME NEW p \in Peers, Shutdown(p) \/ Join(p) \/ Signal(p) PROVE LivingInv'
  <2>1. UNCHANGED <<state, inbox, expiry, next, pc, restarted>>
    BY <1>8 DEF Shutdown, Join, Signal
  <2> QED
    BY <1>1, <2>1 DEF Alive
<1>9. ASSUME NEW p \in Peers, Mistyped(p) PROVE LivingInv'
  <2>1. UNCHANGED <<state, expiry, next, pc, restarted>>
    BY <1>9 DEF Mistyped
  <2>2. \A q \in Peers : inbox[q] # <<>> => inbox'[q] # <<>>
    <3>1. /\ "mistyped" \in Messages /\ inbox' = [inbox EXCEPT ![p] = Append(@, "mistyped")]
      BY <1>9 DEF Mistyped, Messages
    <3> QED
      BY <1>0, <3>1, AppendFacts
  <2> QED
    BY <1>1, <2>1, <2>2 DEF Alive
<1>10. ASSUME NEW p \in Peers, Crash(p) \/ Restart(p) PROVE LivingInv'
  <2>1. restarted'
    BY <1>0, <1>10 DEF Crash, Restart, ThreadInv
  <2> QED
    BY <2>1 DEF LivingInv
<1>11. CASE Tick
  <2>1. UNCHANGED <<state, inbox, pc, restarted>>
    BY <1>11 DEF Tick
  <2>2. ASSUME NEW p \in Peers, Alive(p), Alive(Peer(p)), Expecting(p) PROVE Expecting(p)'
    <3>1. inbox[p] = <<>> /\ next[Peer(p)] # 0
      BY <1>0, <1>11, <2>2, TickFacts
    <3>2. expiry[p] \in Nat /\ next[Peer(p)] \in Nat
      BY <1>0 DEF TypeOK
    <3>3. expiry'[p] = Less(expiry[p]) /\ next'[Peer(p)] = Less(next[Peer(p)])
      BY <1>11 DEF Tick
    <3> QED
      BY <2>2, <3>1, <3>2, <3>3 DEF Expecting, Less
  <2> QED
    BY <2>1, <2>2 DEF LivingInv, Alive
<1>12. CASE UNCHANGED vars
  BY <1>1, <1>12 DEF vars, Alive
<1> QED
  BY <1>2, <1>3, <1>4, <1>5, <1>6, <1>7, <1>8, <1>9, <1>10, <1>11, <1>12
     DEF Next, Thread, Application, Environment

LEMMA LivingStart == Init => NewInv /\ LivingInv
<1> SUFFICES ASSUME Init PROVE NewInv /\ LivingInv
  OBVIOUS
<1> USE PeersType, PeerFacts
<1>1. \A p \in Peers : ~Carries(p, "active") /\ ~Alive(p) /\ state[p] = Role(p)
  BY EmptyCarries DEF Init, Alive
<1> QED
  BY <1>1 DEF NewInv, LivingInv, Role

\* A step that takes over is a client request, of a peer whose expiry has
\* passed.
LEMMA TakeoverStep ==
  ASSUME SafeInv, NewInv, LivingInv, [Next]_vars, NEW p \in Peers, TakesOver(p)
  PROVE  \/ pc[Peer(p)] \in {"down", "new", "done"}
         \/ pc[p] \in {"extend", "done"}
         \/ restarted
<1> USE PeersType, PeerFacts, HAAssumption
<1>0. TypeOK
  BY DEF SafeInv
<1>1. state[p] = "passive" /\ state'[p] = "active" /\ pc[p] # "down" /\ pc'[p] = pc[p]
  BY DEF TakesOver
<1>2. ClientRequest(p)
  <2>1. ~Recv(p) /\ ~Restart(p)
    BY <1>0, <1>1 DEF Recv, Restart, Goto, TypeOK
  <2>2. \A q \in Peers : q # p => ~Recv(q) /\ ~Restart(q) /\ ~ClientRequest(q)
    BY <1>0, <1>1 DEF Recv, Restart, ClientRequest, TypeOK
  <2>3. state' # state
    BY <1>1
  <2> QED
    BY <2>1, <2>2, <2>3
       DEF Next, Thread, Application, Environment, Loop, Interrupted, Poll, Extend, Beat,
           Startup, Shutdown, Join, Signal, Crash, Mistyped, Tick, vars
<1>3. expiry[p] = 0
  <2>1. state'[p] = After(state[p], "client", expiry[p])
    BY <1>0, <1>2 DEF ClientRequest, TypeOK
  <2> QED
    BY <1>1, <2>1 DEF After
<1>4. ~Expecting(p)
  <2>1. next[Peer(p)] \in Nat
    BY <1>0 DEF TypeOK
  <2> QED
    BY <1>3, <2>1 DEF Expecting
<1>5. pc[p] # "new"
  BY <1>1 DEF NewInv, Role
<1>6. pc[p] \in PCs /\ pc[Peer(p)] \in PCs
  BY <1>0 DEF TypeOK
<1> QED
  BY <1>1, <1>4, <1>5, <1>6 DEF LivingInv, Alive, PCs

\* Where threads and network take no time on the clock and lose nothing, and until
\* a peer crashes, a client request takes over only from a peer whose thread has
\* ended, whatever the heartbeat, if the thread of the peer that takes over runs and
\* is not about to write its own expiry: 2 * heartbeat is long enough
\* (src/ha.c:146-158, 236, 240-249).
THEOREM TakeoverIsTrue == LosslessSystem => (Spec => NoFalseTakeover)
<1> SUFFICES ASSUME LosslessSystem PROVE Spec => NoFalseTakeover
  OBVIOUS
<1>1. SafeInv /\ NewInv /\ LivingInv /\ [Next]_vars => NewInv' /\ LivingInv'
  BY NewStep, LivingStep
<1>2. SafeInv /\ NewInv /\ LivingInv /\ [Next]_vars =>
        [\A p \in Peers :
           TakesOver(p) =>
             \/ pc[Peer(p)] \in {"down", "new", "done"}
             \/ pc[p] \in {"extend", "done"}
             \/ restarted]_vars
  BY TakeoverStep
<1> QED
  BY <1>1, <1>2, LivingStart, SafeAlways, PTL DEF Spec, NoFalseTakeover
=============================================================================
