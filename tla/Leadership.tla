----------------------------- MODULE Leadership -----------------------------
(***************************************************************************)
(* What the HA pair promises to the application (abstract specification of *)
(* src/ha.c): one peer at a time is elected to serve.  A second one starts *)
(* to serve only after a client request has forced it to, because its peer *)
(* was silent for too long, or after a peer has died.                      *)
(***************************************************************************)
CONSTANT Peers

VARIABLES
  leaders,    \* the peers that serve
  unsettled   \* a takeover was forced, or a peer has died

Init == leaders = {} /\ unsettled = FALSE

\* The heartbeats elect p; once things are unsettled nothing is promised.
Elect(p) ==
  /\ p \notin leaders
  /\ leaders = {} \/ unsettled
  /\ leaders' = leaders \cup {p}
  /\ UNCHANGED unsettled

\* A client request forces p to serve.
Force(p) ==
  /\ p \notin leaders
  /\ leaders' = leaders \cup {p}
  /\ unsettled' = TRUE

Die(p) == leaders' = leaders \ {p} /\ unsettled' = TRUE

Next == \E p \in Peers : Elect(p) \/ Force(p) \/ Die(p)

Spec == Init /\ [][Next]_<<leaders, unsettled>>
=============================================================================
