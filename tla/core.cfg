CONSTANTS
    Conns = {c1, c2}
    Names = {n1, n2}
    Keys = {k1}
    NoConn = NoConn
    NoKey = NoKey
    NoDisp = NoDisp
    NoMsg = NoMsg
    Kinds <- CoreKinds
    BufCap = 2
    PoolSize = 1
    MaxPush = 2
    MaxDisp = 2

SYMMETRY ConnSymmetry

SPECIFICATION Spec

INVARIANTS
    RegistryConsistent
    CounterCovers
    UniqueKeyOwned
    TypeOK
