SPECIFICATION Spec
CONSTANTS
  PIPE_MAX = 1  PIPE_CAP = 2  END_MAX = 2  Bytes = {0}  ZeroByte = 0
  FD_MAX = 5
  MAX_PROC = 3  PID_MAX = 3  QUEUE_CAP = 2  MAX_SURFACES = 0
  Rsps = {1}  SpawnFds <- DefaultOrPipe  Lens = {1, 3}
  Calls = {"exit", "spawn", "wait", "kill", "read", "write", "pipe", "close"}
  IrqKeys = {}
  PollEvents = {}
INVARIANTS PipeRefs NoLostPipeWakeup
