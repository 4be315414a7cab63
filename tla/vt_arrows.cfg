SPECIFICATION Spec
CONSTANTS
    MAX_SURFACES = 1
    IN_CAP = 2
    KEY_CAP = 2
    Pids = {1}
    Keys = {}
    Names = {"sh", "files"}
    Parts = {}
    MAX_FRAMES = 2
    MouseEvents <- MCMouseEvents
INVARIANT
    ArrowsReachStdin
CHECK_DEADLOCK FALSE
