SPECIFICATION FairSpec
CONSTANTS
    Account = {a1, a2}
    Worker = {w1}
    Orders <- SoloOrders
    Already = {}
    Recorded = {a1, a2}
    Kinds = {"ok", "already_done", "invalid_target", "session_dead", "conn_error"}
    Beats = {"running", "pending", "jobs"}
    CrashPoints <- SafePoints
    MaxTries = 2
    MaxRetries = 1
    MaxCrashes = 1
    MaxLosses = 0
    MaxSlow = 0
    MaxCopies = 1

    
    
PROPERTIES
    EventuallySettles
    EventuallyReported
CHECK_DEADLOCK FALSE
