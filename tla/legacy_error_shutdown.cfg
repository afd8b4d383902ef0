CONSTANTS
    Conns = {c1}
    Names = {n1}
    MatcherOn = TRUE
    Kinds <- ErrorKinds
    BufCap = 1
    DefaultAsyncPoolSize = 1
    Networks = {"None"}
    OptionLists <- NoOptions
    MaxPush = 1
    MaxInst = 2
    NoConn = NoConn
    NoMsg = NoMsg
    SysName = SysName
    Matcher <- MatchAll
SPECIFICATION Spec
PROPERTY ErrorShutdownCompletes
\* the server really hangs here
CHECK_DEADLOCK FALSE
