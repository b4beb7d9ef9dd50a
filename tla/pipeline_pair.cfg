SPECIFICATION Spec
CONSTANTS
    Account = {a1, a2}
    Worker = {w1, w2}
    Orders <- PairOrders
    Already = {}
    Recorded = {}
    Kinds = {"ok", "already_done", "invalid_target", "failed"}
    Beats = {"running", "pending", "jobs"}
    CrashPoints <- LossyPoints
    MaxTries = 2
    MaxRetries = 0
    MaxCrashes = 1
    MaxLosses = 1
    MaxSlow = 1
    MaxCopies = 1
INVARIANTS
    OneVerdict
    SuccessIsRecorded
    ViewAccountsDistinct
    AccountActsAlone
PROPERTIES
    ImplementsLifecycle
SYMMETRY Symmetry
CONSTRAINT OneFault
CHECK_DEADLOCK FALSE
