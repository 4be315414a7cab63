SPECIFICATION Spec
CONSTANTS
  SECTOR_SIZE = 2  VOL_SIZE = 3  ByteVals = {0, 1}  MAX_BUF = 3
  Disks <- MCDisks  Big = {"ahci", "usb"}  Required <- MCRequired  Optional <- MCOptional
  InitMedia <- MCInitMedia
  Names = {"a", "b"}  PathArgs <- MCPathArgs
  Lbas = {0, 1}  Datas = {"x", "y"}  NoData = "z"
  RING_TRBS = 4  EVT_TRBS = 3  Cmds = {"x", "y"}  MAX_FLIGHT = 2
  IntEps = {"k1"}  XFER_Q = 3  MscLbas = {0}  MscDatas = {1, 2}  READY_TRIES = 1  MAX_TRBS = 1
  RING = 3  EthFrames = {"f", "g"}  MAX_PAGES = 8  MAX_TXQ = 2
  MAX_FRAMES = 17  FRAME_SIZE = 32  HEAP_FRAMES = 2  USER_CANON_MAX = 256  ADDR_MAX = 320
  USER_STACK_BASE = 192  USER_STACK_PAGES = 2  ARGV_MAX = 3  ARGV_STR_MAX = 16  FAN = 8
  MAX_IMAGES = 2  MAX_DMA = 1  MAX_LOST = 1
  Elfs <- MCElfs  Argvs <- MCArgvs  Mmio <- MCMmio  MemMap <- MCMemMap
  PIPE_MAX = 1  PIPE_CAP = 3  END_MAX = 2  Bytes = {0, 1}  ZeroByte = 0
  Messages <- SomeMessages  Wants = {1, 2, 4}
  FilePaths = {"a", "b"}  BinPath = "bin"  Pieces = {"x", "y", "COE1", "signed", "unsigned"}
  Downloads <- MCDownloads  StartFiles <- MCStartFiles
  WRITE_CAP = 1  EDIT_CAP = 2  PKG_CAP = 4
  LINE_CAP = 2  HIST_CAP = 2  MAX_CAND = 4  QUERY_CAP = 1  CSI_CAP = 1  Chars = {"a", " "}
  Params = {"3"}  Clips <- MCClips  Builtins <- MCBuiltins  Bin <- MCBin  Files <- MCBin
CONSTRAINT Small
INVARIANTS CacheCoherent MountedDiskSafe CwdInTree AhciOk RingsCarry ArmedIsPending MscOk
  FramesInOrder FramesAccounted  RingOK  ScreenShows HistoryKept
PROPERTIES  ImplementsStream
CHECK_DEADLOCK FALSE
