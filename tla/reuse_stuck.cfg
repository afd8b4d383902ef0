\* Reuse as a reconnect: the connection is closed, or its send fails,
\* and Reuse then installs another connection's pool and batch.
CONSTANTS
    Writers = {w1}
    MaxWrites = 1
    SendCanFail = TRUE
    MaxReuse = 1
SPECIFICATION Spec
PROPERTY ReuseReconnects
CHECK_DEADLOCK FALSE
