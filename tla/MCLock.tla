------------------------------- MODULE MCLock -------------------------------
(* Instances of Lock for TLC: the faults of each run.                      *)
EXTENDS Lock

ShortFaults == {"short"}
DieFaults   == {"exit", "crash", "reuse", "short"}
ExitFaults  == {"exit"}
TwiceFaults == {"rerelease"}
=============================================================================
