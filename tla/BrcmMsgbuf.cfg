SPECIFICATION MsgbufSpec
CHECK_DEADLOCK FALSE
CONSTANTS
  Depth = 6
  Thrs = 2
  MaxMsgs = 14
  Callers = {0, 1}
  None = None
  RingRoom = 2
  MaxResp = 2
  NrPktids = 4
  MaxCmds = 3
  MaxTimeouts = 2
  MaxMissed = 1
  Rings = {0, 1}
  High = 1
  Low = 1
  Delay = 1
  Trickle = 2
  FlowDepth = 3
  Eighth = 2
  Pktids = 3
  MaxPkts = 2
  MaxFails = 1
  MaxDeletes = 1
  CalmPkts = 3
INVARIANTS NothingLost CommandsSeparate
PROPERTIES NobodyWaits StopEnds
