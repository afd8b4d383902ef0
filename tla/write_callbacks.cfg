\* Two writers, three Write calls, transport errors possible, one Reuse:
\* callbacks run at most once.
CONSTANTS
    Writers = {w1, w2}
    MaxWrites = 3
    SendCanFail = TRUE
    MaxReuse = 1
SPECIFICATION Spec
INVARIANTS
    CallbackAtMostOnce
    TypeOK
\* After Close the loop returns and the writers run out of calls: the
\* connection really stops there.
CHECK_DEADLOCK FALSE
