SPECIFICATION Spec
CONSTANTS
  Primary = fred
  Standby = barney
  Heartbeat = 2
  HighWater = 3
  Prompt = TRUE
  Faults <- PromptFaults
INVARIANT NoRestartSplit
PROPERTY NoFalseTakeover
