SPECIFICATION Spec
CONSTANTS
  Primary = fred
  Standby = barney
  Heartbeat = 3
  HighWater = 3
  Prompt = TRUE
  Faults <- NoFaults
PROPERTY AlivePeerRejects
