SPECIFICATION Spec
CONSTANTS
  Primary = fred
  Standby = barney
  Heartbeat = 1
  HighWater = 3
  Prompt = FALSE
  Faults <- DieFaults
INVARIANT NoRestartSplit
