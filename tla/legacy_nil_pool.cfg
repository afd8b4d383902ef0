\* An HTTP server whose ListenAndServe fails at once (the port is taken):
\* its serve goroutine pushes the Error message, racing the
\* connectionInitHandle goroutine it has just started.
CONSTANTS
    Conns = {c1}
    Names = {n1}
    MatcherOn = TRUE
    Kinds <- NoKinds
    BufCap = 1
    DefaultAsyncPoolSize = 1
    Networks = {"Http"}
    OptionLists <- NoOptions
    MaxPush = 1
    MaxInst = 2
    NoConn = NoConn
    NoMsg = NoMsg
    SysName = SysName
    Matcher <- MatchAll
SPECIFICATION Spec
INVARIANT NoNilPoolPush
