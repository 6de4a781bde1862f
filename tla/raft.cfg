SPECIFICATION Spec
CONSTANTS
    Node = {n1, n2, n3}
    Timers = {n1, n2, n3}
    Peers <- AllOthers
    Command = {"x"}
    Nil = Nil
    LateReads = FALSE
    ApplyCap = 0
    MaxTerm = 2
    MaxLog = 1
SYMMETRY NodeSymmetry
VIEW LiveState
ACTION_CONSTRAINT EagerSend
INVARIANT TypeOK
INVARIANT ElectionSafety
INVARIANT CommittedEverywhere
PROPERTY LogsNeverTruncated
CHECK_DEADLOCK FALSE
