SPECIFICATION FairSpec
CONSTANTS
    Account = {a1, a2, a3}
    r1 = r1
    r2 = r2
    r3 = r3
    r4 = r4
    Request <- Requests
    NonceOf <- Nonces
    OrderOf <- Orders
    WantedBy <- Wanted
    MaxCrashes = 1
INVARIANTS
    CopiesActOnce
    AcceptedRuns
PROPERTIES
    EveryRequestAnswered
CHECK_DEADLOCK FALSE
