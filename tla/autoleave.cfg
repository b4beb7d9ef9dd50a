SPECIFICATION RetentionSpec
CONSTANTS
    Joiner = {a1, a2}
    LeaveWorker = {w1, w2}
    LeaveKinds = {"ok", "already_done", "error"}
    LeaveCrashes = 1
    LeaveCopies = 2
INVARIANTS
    LeftHasLeft
    CompletesLast
PROPERTIES
    NoEarlyLeave
    
CHECK_DEADLOCK FALSE
