SPECIFICATION Spec
CONSTANTS
    Attempts = 3
    MaxSize = 5
    ChunkSize = 2
    PageSize = 2
    Limits = {0, 3}
    AtFirst = 5
    MaxChange = 2
    MaxRetries = 2
    MaxDeaths = 1
    none = none
    Defaults <- Default
    Dcs <- Answered
    Suggestions = {"r2", "r3"}
    Custom <- Configured
    Discover = TRUE
INVARIANTS
    TransferIsWhole
    WalkIsComplete
    
PROPERTIES
    ImplementsCall
    
CHECK_DEADLOCK FALSE
