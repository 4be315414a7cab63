SPECIFICATION Spec
CONSTANTS
    MAX_SURFACES = 1
    IN_CAP = 2
    KEY_CAP = 2
    Pids = {1}
    Keys = {"AltSpace", "Tab", "Enter", "Esc"}
    Names = {"files", "poweroff"}
    Parts = {"Close", "Min", "Max", "Title", "Resize", "Client"}
    MAX_FRAMES = 3
    MouseEvents <- MCMouseEvents
INVARIANTS
    WindowsMatch
    DragTarget
    NothingOfExited
PROPERTIES
    ImplementsStack
CONSTRAINT FewFrames
CHECK_DEADLOCK FALSE
