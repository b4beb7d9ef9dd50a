SPECIFICATION SocketSpec
CONSTANTS
    Caller = {c1, c2}
    closer = closer
    Reconnect = {t1, t2, t3}
    Socket = {s1, s2, s3, s4}
    nothing = nothing
    MaxCalls = 2
    MaxLosses = 2
    MaxFails = 1
    MaxCancels = 1

    
PROPERTIES
    CallsReturn
    Recovers
CHECK_DEADLOCK FALSE
