SPECIFICATION Spec
CONSTANTS
  a = a
  b = b
  Procs = {a, b}
  Mortal = {}
  SkipEuid = {}
  NoFile = NoFile
  NoPid = NoPid
  Faults <- TwiceFaults
PROPERTY UnheldReleaseFails
