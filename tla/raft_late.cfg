SPECIFICATION Spec
CONSTANTS
    Node = {n1, n2, n3, n4, n5}
    Timers = {n1}
    Peers <- AllOthers
    Command = {"x"}
    Nil = Nil
    LateReads = TRUE
    ApplyCap = 1
    MaxTerm = 2
    MaxLog = 0
VIEW LiveState
SYMMETRY NodeSymmetry
ACTION_CONSTRAINT EagerSend
PROPERTY LeaderHasMajority
CHECK_DEADLOCK FALSE
