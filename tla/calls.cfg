SPECIFICATION Spec
CONSTANTS
  PIPE_MAX = 1  PIPE_CAP = 1  END_MAX = 255  Bytes = {0}  ZeroByte = 0
  FD_MAX = 3
  MAX_PROC = 3  PID_MAX = 3  QUEUE_CAP = 2  MAX_SURFACES = 1
  Rsps = {1, 2}  SpawnFds <- DefaultOnly  Lens = {1}
  Calls = {"exit", "fault", "spawn", "wait", "read", "win_create", "pipe"}
  IrqKeys = {"key"}
  PollEvents = {"launch", "close_frame"}
INVARIANTS SysretStack PipeRefs
PROPERTY ZombieStays
