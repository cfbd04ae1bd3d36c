-------------------------------- MODULE MCHA --------------------------------
(* Instances of HA for TLC: the faults of each run.                        *)
EXTENDS HA

NoFaults     == {}
AsyncFaults  == {"crash", "loss", "mistyped"}
PromptFaults == {"crash", "signal", "shutdown"}
DieFaults    == {"crash"}
JoinFaults   == {"shutdown"}
=============================================================================
