SPECIFICATION FairSpec
CONSTANTS
  Primary = fred
  Standby = barney
  Heartbeat = 1
  HighWater = 2
  Prompt = FALSE
  Faults <- JoinFaults
PROPERTY Elected
PROPERTY SplitNoticed
PROPERTY Failover
PROPERTY ShutdownReturns
