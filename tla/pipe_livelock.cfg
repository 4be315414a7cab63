SPECIFICATION FairSpec
CONSTANTS
  PIPE_MAX = 1  PIPE_CAP = 1  END_MAX = 255  Bytes = {0}  ZeroByte = 0
  FD_MAX = 5
  MAX_PROC = 2  PID_MAX = 2  QUEUE_CAP = 2  MAX_SURFACES = 0
  Rsps = {1}  SpawnFds <- DefaultOrPipe  Lens = {1}
  Calls = {"spawn", "read", "pipe"}
  IrqKeys = {}
  PollEvents = {}
PROPERTY IrqWindow
