CONSTANTS
    Conns = {c1}
    Names = {}
    Keys = {k1}
    NoConn = NoConn
    NoKey = NoKey
    NoDisp = NoDisp
    NoMsg = NoMsg
    Kinds <- SystemKinds
    BufCap = 2
    PoolSize = 2
    MaxPush = 4
    MaxDisp = 2

SPECIFICATION Spec

PROPERTY
    Drains

    KeyReleased
