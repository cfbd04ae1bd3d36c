SPECIFICATION FairSpec
CONSTANTS
  a = a
  b = b
  c = c
  Procs = {a, b, c}
  Mortal = {a, b}
  SkipEuid = {a}
  NoFile = NoFile
  NoPid = NoPid
  Faults <- DieFaults
INVARIANT ExclusiveUnlessRaced
INVARIANT HolderOwnsFile
PROPERTY PartialLockStays
PROPERTY AbandonedIsBroken
