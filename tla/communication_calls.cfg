CONSTANTS
    Components = {c1, c2}
    Peers = {p1}
    MaxCalls = 2
    MaxSchedules = 4
SPECIFICATION Spec
INVARIANT TypeOK
INVARIANT NothingDropped
INVARIANT OwnMail
INVARIANT NoDuplicates
PROPERTY ReadsReturn
CHECK_DEADLOCK FALSE
