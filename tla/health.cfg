SPECIFICATION Spec
CONSTANTS
    a1 = a1
    a2 = a2
    sweep = sweep
    view = view
    Account = {a1, a2}
    Ids <- TwoIds
    Prober = {sweep, view}
    Sweeper = sweep
    Asked = {{a1}}
    Limit = 1
    NullsFirst = TRUE
    DEAD_THRESHOLD = 2
    MaxLogins <- Logins
    MaxGlitches = 1
    MaxRevoked <- Revocations
    MaxDeleted = 1
INVARIANTS
    DeadWasRefusedTwice
PROPERTIES
    
    StatusFollowsSession
CHECK_DEADLOCK FALSE
