SPECIFICATION Spec
CONSTANTS
  a = a
  b = b
  c = c
  Procs = {a, b, c}
  Mortal = {a, b, c}
  SkipEuid = {}
  NoFile = NoFile
  NoPid = NoPid
  Faults <- ExitFaults
INVARIANT MutualExclusion
CHECK_DEADLOCK FALSE
