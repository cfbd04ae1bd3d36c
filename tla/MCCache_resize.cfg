SPECIFICATION CacheSpec
CONSTANTS
  NULL = NULL
  Stale = Stale
  Ids = {i1, i2, i3}
  Data = {d1, d2, d3}
  Sizes = {1, 2}
  Expiries <- SomeExpiries
  OldAge = 2
  Ahead = 1
  GrowsInUse = TRUE
SYMMETRY Symmetric
PROPERTY ResizeKeepsContents
