\* P6 against writeLoop's reuse of the batch's backing array.
CONSTANTS
    Writers = {w1}
    MaxWrites = 3
    SendCanFail = FALSE
    MaxReuse = 0
SPECIFICATION Spec
INVARIANT SentInWriteOrder
CHECK_DEADLOCK FALSE
