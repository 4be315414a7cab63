SPECIFICATION Spec
CONSTANTS
  PIPE_MAX = 1  PIPE_CAP = 1  END_MAX = 255  Bytes = {0}  ZeroByte = 0
  FD_MAX = 3
  MAX_PROC = 3  PID_MAX = 3  QUEUE_CAP = 2  MAX_SURFACES = 0
  Rsps = {1}  SpawnFds <- DefaultOnly  Lens = {1}
  Calls = {"exit", "spawn", "wait", "kill"}
  IrqKeys = {"key"}
  PollEvents = {"ctrlc", "launch"}
INVARIANT NoPanic
