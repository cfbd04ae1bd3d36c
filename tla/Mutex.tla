-------------------------------- MODULE Mutex --------------------------------
(***************************************************************************)
(* What lock_acquire() and lock_release() promise (abstract specification  *)
(* of src/lock.c): at most one process holds the lock, until it releases   *)
(* the lock or dies.                                                       *)
(***************************************************************************)
CONSTANT Procs

VARIABLE holders

Init == holders = {}

Acquire(p) == holders = {} /\ holders' = {p}

Release(p) == p \in holders /\ holders' = holders \ {p}

Next == \E p \in Procs : Acquire(p) \/ Release(p)

Spec == Init /\ [][Next]_holders
=============================================================================
