SPECIFICATION FairSpec
CONSTANTS
  a = a
  b = b
  c = c
  d = d
  Procs = {a, b, c, d}
  Mortal = {}
  SkipEuid = {}
  NoFile = NoFile
  NoPid = NoPid
  Faults <- ShortFaults
INVARIANT TypeOK
PROPERTY ImplementsMutex
PROPERTY FreeIsTaken
