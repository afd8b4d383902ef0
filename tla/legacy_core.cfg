CONSTANTS
    Conns = {c1, c2}
    Names = {n1}
    MatcherOn = TRUE
    Kinds <- CoreKinds
    BufCap = 2
    DefaultAsyncPoolSize = 1
    Networks <- AllNetworks
    OptionLists <- CoreOptions
    MaxPush = 2
    MaxInst = 3
    NoConn = NoConn
    NoMsg = NoMsg
    SysName = SysName
    Matcher <- MatchAll
SPECIFICATION Spec
INVARIANTS
    
    TypeOK
PROPERTIES
    RunReturns
\* after shutdown the server has stopped: a late push can block for good on
\* the re-created system dispatcher, which nothing starts
CHECK_DEADLOCK FALSE
