SPECIFICATION Spec
CONSTANTS
    none = none
    start1 = start1
    v1 = v1
    v2 = v2
    sign = sign
    cancel = cancel
    s1 = s1
    s2 = s2
    p1 = p1
    p2 = p2
    Process = {p1, p2}
    Session = {s1, s2}
    Call = {start1, v1, v2, sign, cancel}
    Kind <- KindOf
    For <- OneLogin
    Earlier <- MCEarlier
    MaxRestarts = 1
    MaxTimeouts = 1
INVARIANTS
    NoOrphanClient
PROPERTIES
    AcceptedIsStored
    EveryCallEnds
CHECK_DEADLOCK FALSE
