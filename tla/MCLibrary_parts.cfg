SPECIFICATION Spec
CONSTANTS
  NULL = NULL
  x1 = x1
  x2 = x2
  x3 = x3
  k4 = k4
  Keys = {x1, x2, x3, k4}
  Values = {v1}
  Buckets = 3
  HashOf <- Colliding
  Ids = {x1, x2, x3}
  Data = {d1, d2, d3}
  Sizes = {1, 2}
  Expiries <- SomeExpiries
  OldAge = 2
  Ahead = 1
  Stale = Stale
  GrowsInUse = FALSE
  Heads = {h1, h2}
  Nodes = {x1, x2, x3}
  Lists = {a, b}
  Strings = {1, 2}
  Junk = Junk
  InitLen = 4
  ExpFactor = 2
  MaxStrings = 3
  Alphabet <- Letters
  VarValue <- Variables
  Delims <- Delimiters
  ByteOf <- Bytes256
  BufferSize = 3
  Residues <- Leftovers
  MaxText = 4
  PathChars = {"/", ".", "a"}
  MaxPath = 7
  BlockSize = 4
  LengthSize = 2
  WordBits = 6
  FdBufSize = 3
  Digests <- SomeDigests
  MaxChunk = 9
  MaxMessage = 18
  HbParams <- Heartbeats
  IntMax = 127
  Instants = {999500, 1000000, 1002001, 3001999}
  MaxMisses = 6
  LogIdents = {p, q}
  LogPaths = {f}
SYMMETRY Symmetric
INVARIANT LibraryTypeOK
INVARIANT WellFormed
INVARIANT Coherent
INVARIANT RingsClosed
INVARIANT TextRight
INVARIANT DigestRight
INVARIANT TimingRight
INVARIANT LogRight
PROPERTY LoopsRight
PROPERTY ImplementsMap
PROPERTY ObjectsDestroyed
PROPERTY ImplementsBoundedCache
PROPERTY ImplementsLists
PROPERTY ImplementsStringLists
PROPERTY PathRight
CHECK_DEADLOCK FALSE
