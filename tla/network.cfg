SPECIFICATION Spec
CONSTANTS
    r1 = r1
    r2 = r2
    s1 = s1
    u1 = u1
    u2 = u2
    u3 = u3
    v1 = v1
    none = none
    Request = {r1, r2, s1}
    Pinned = {s1}
    Retries <- Ladder
    Configured <- TwoUrls
    Answers <- Lists
    Reliable = {u2}
    ServiceUrl = v1
    MaxFlaps = 1
INVARIANTS
    RefreshesAfterAll
    ReliableUrlIsFound
PROPERTIES
    StoredUrlAnswered
CHECK_DEADLOCK FALSE
