SPECIFICATION Spec
CONSTANTS
  NULL = NULL
  Data = {"x"}
  ClientId = "c"
  MaxFrames = 2
  MaxQueue = 1
  ZapKeys = {z1}
  MaxRequests = 2
  Sockets = {t1, t2}
  MaxItems = 3
  MaxSent = 2
  Loops = {main, ha}
  Ids = {0, 7, 8}
  Codes = {0, 3}
  MaxArgs = 100
  MaxRuns = 1
  d1 = d1
  d2 = d2
  d3 = d3
  Starts = {d1, d2, d3}
  OfRoot = {d1, d2}
  Words <- NamesAndChars
  PidText <- Pids
  PidBuffer = 4
  Keepers = {"PATH", "TERM"}
  EnvOf <- Environments
  MaxFiles = 2
  w2 = w2
  ConfKeys = {c1, c2}
  ConfValues = {w1, w2, w3}
  ReadBack <- TrimsTo
  NoIdent = w1
  MaxPairs = 2
  MaxLines = 1
  b1 = b1
  s1 = s1
  i1 = i1
  BoxKeys = {b1}
  SignKeys = {s1}
  CertTexts <- CertForms
  Idents = {i1}
  IdentBack <- SameIdent
INVARIANT ServicesTypeOK
INVARIANT RunnerRight
INVARIANT DaemonRight
PROPERTY PduRight
PROPERTY ZapRight
PROPERTY Served
PROPERTY ImplementsSettings
PROPERTY CertRight
CHECK_DEADLOCK FALSE
