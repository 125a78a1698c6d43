SPECIFICATION TransmitSpec
CHECK_DEADLOCK FALSE
CONSTANTS
  Rings = {0, 1}
  None = None
  High = 2
  Low = 1
  Delay = 2
  Trickle = 2
  FlowDepth = 3
  Eighth = 2
  Pktids = 2
  SlowFirmware = FALSE
  MaxPkts = 3
  MaxFails = 1
  MaxDeletes = 1
  Depth = 16
  Thrs = 2
  MaxMsgs = 20
  Nodes = 2
  FwsFifos = 2
  FwsSlots = 4
  PsqLen = 3
  FwsHigh = 3
  FwsLow = 1
  FreeRun = 8
  FwsCredit = 1
  Traffic <- MCTraffic
  FwsPkts = 3
  FwsSteps = 4
  RxSlots = 4
  RxWindow = 2
  RxPackets = 7
INVARIANTS NothingOverwritten PacketsAccounted RingLife FwsKept FwsSent ReorderRight
