SPECIFICATION Spec
CONSTANTS
  PIPE_MAX = 1  PIPE_CAP = 1  END_MAX = 255  Bytes = {0}  ZeroByte = 0
  FD_MAX = 3
  MAX_PROC = 3  PID_MAX = 3  QUEUE_CAP = 2  MAX_SURFACES = 0
  Rsps = {1}  SpawnFds <- DefaultOnly  Lens = {1}
  Calls = {"exit", "fault", "spawn", "wait", "kill", "read"}
  IrqKeys = {"key", "ctrlc"}
  PollEvents = {"key", "ctrlc", "launch"}
INVARIANTS TypeOK RunningIsCurrent Cr3Owned ResumePoint NoMissedChild
CHECK_DEADLOCK FALSE
