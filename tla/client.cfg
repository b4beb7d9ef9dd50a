SPECIFICATION Spec
CONSTANTS
    start1 = start1
    start2 = start2
    stop1 = stop1
    invoke1 = invoke1
    invoke2 = invoke2
    login1 = login1
    logout1 = logout1
    idle1 = idle1
    none = none
    t1 = t1
    t2 = t2
    t3 = t3
    Call = {start1, start2, stop1, invoke1, invoke2, login1, logout1, idle1}
    Kind <- MCKind
    Programs <- MCPrograms
    Task = {t1, t2, t3}
    MaxErrors = 1
INVARIANTS
    NothingLeftOpen
    RegistrationHeals
PROPERTIES
    
    UpdatesFlow
CHECK_DEADLOCK FALSE
