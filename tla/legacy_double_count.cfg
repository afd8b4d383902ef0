CONSTANTS
    Conns = {c1}
    Names = {n1}
    MatcherOn = TRUE
    Kinds <- ShuntAsyncKinds
    BufCap = 2
    DefaultAsyncPoolSize = 1
    Networks = {"None"}
    OptionLists <- NoOptions
    MaxPush = 2
    MaxInst = 3
    NoConn = NoConn
    NoMsg = NoMsg
    SysName = SysName
    Matcher <- MatchAll
SPECIFICATION Spec
PROPERTY ShutdownQuiesced
