SPECIFICATION Spec
CONSTANTS
  Primary = fred
  Standby = barney
  Heartbeat = 1
  HighWater = 2
  Prompt = FALSE
  Faults <- AsyncFaults
INVARIANT TypeOK
INVARIANT NoProtocolSplit
INVARIANT NoDualPassive
PROPERTY ImplementsLeadership
