SPECIFICATION BusSpec
CHECK_DEADLOCK FALSE
CONSTANTS
  Allowed <- MCAllowed
  Wrap = 16
  CtlCredits = 2
  Window = 3
  GlomSize = 2
  QueueLen = 2
  QueueHigh = 2
  QueueLow = 1
  RxBound = 2
  TxBound = 2
  TxMinMax = 1
  IdleTime = 1
  Budget <- MCBudget
  RxWrap = 4
  RxFrames = 4
  RxFaults = 2
  RxLeft = 3
  NTxq = 4
  NRxq = 2
  ImageLen = 6
  Chunk = 4
  Align = 2
  VersionTries = 2
  UsbPkts = 4
  UsbCmds = 2
  UsbPower = 3
  UsbFaults = 1
  Docs <- MCDocs
  FwRequests <- MCRequests
  BoardTypes = 2
  MaxNvram = 70
  FwFaults = 1
INVARIANTS SdioSent SdioPrompt SdioFrames UsbPools PcieRemoved PcieAgrees FilesRight
