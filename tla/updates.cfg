SPECIFICATION Spec
CONSTANTS
    h1 = h1
    h2 = h2
    h3 = h3
    raw1 = raw1
    Chat = {c1, c2}
    Handler = {h1, h2, h3, raw1}
    KindOf <- MCKindOf
    GroupOf <- MCGroupOf
    AtStart <- MCAtStart
    Modes = {"bot", "http", "socket"}
    Limit = 2
    MaxLog = 3
    Budget <- MCBudget
    MaxTogether = 1
PROPERTIES
    NewsArrives
    DispatchedOnce
    HandlersAreReached
CHECK_DEADLOCK FALSE
