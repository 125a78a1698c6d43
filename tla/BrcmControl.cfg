SPECIFICATION ControlSpec
CHECK_DEADLOCK FALSE
CONSTANTS
  Requests = {r1, r2}
  None = None
  MaxAborts = 1
  MaxFound = 1
  MaxFails = 0
  Slots = {1, 2}
  Ids = {1, 2}
  NoId = 0
  Kinds = {"net", "p2p", "dev"}
  MaxAccidents = 2
  Aps = {a1, a2}
  NoAp = NoAp
  ConnectRequests <- MCConnectRequests
  ConnectBounds <- MCConnectBounds
  Settings <- MCSettings
  Elements <- MCElements
  IeLimit = 2
  IeBuf = 40
  KeyIdx = {0, 1}
  ApBound <- MCApBound
  Scans <- MCScans
  NetDetect <- MCNetDetect
  MaxBuckets = 2
  MaxChans = 3
  MinPeriod = 10
  PnoBound <- MCPnoBound
  Sessions = 5
  CoexFaults = 1
SYMMETRY ApSymmetry
INVARIANTS ScanEnds HostFollows ConnectAgrees ApFollows PnoRight CoexBack
