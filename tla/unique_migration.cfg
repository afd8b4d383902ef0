CONSTANTS
    Conns = {c1}
    Names = {n1, n2}
    Keys = {k1}
    NoConn = NoConn
    NoKey = NoKey
    NoDisp = NoDisp
    NoMsg = NoMsg
    Kinds <- UniqueMigrationKinds
    BufCap = 2
    PoolSize = 2
    MaxPush = 3
    MaxDisp = 2

SPECIFICATION Spec

INVARIANT
    UniqueSingleFlight

