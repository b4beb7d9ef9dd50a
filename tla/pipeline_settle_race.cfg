SPECIFICATION Spec
CONSTANTS
    Account = {a1, a2, a3}
    Worker = {w1, w2}
    Orders <- TwoViews
    Already = {}
    Recorded = {}
    Kinds = {"ok", "failed"}
    Beats = {}
    CrashPoints = {}
    MaxTries = 1
    MaxRetries = 0
    MaxCrashes = 0
    MaxLosses = 0
    MaxSlow = 0
    MaxCopies = 1
PROPERTY
    SettlesWhenIdle
CHECK_DEADLOCK FALSE
