SPECIFICATION Spec
CONSTANTS
  HostNames = {"a", "A"}  Lower <- MCLower  CACHE_CAP = 1  PING_COUNT = 2  BODY_CAP = 1  SLACK = 1
  LOCAL_PORTS = 2  Responses <- MCResponses
  MAX_PORTS = 2  MAX_HUB_PORTS = 2  MAX_SLOTS = 3  MAX_ROUNDS = 3  Plugged <- MCPlugged
  MAX_STAGES = 3  MAX_WORDS = 2  FD_MAX = 7  PROCS = 3  PIPES = 2  PS_MAX = 1  CmdLines <- MCCmdLines
INVARIANTS NetConfig  UsbTable PromptClean
PROPERTIES CallEnds EnumerationEnds 
CHECK_DEADLOCK FALSE
