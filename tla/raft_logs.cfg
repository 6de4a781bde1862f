SPECIFICATION Spec
CONSTANTS
    Node = {n1, n2}
    Timers = {n1, n2}
    Peers <- AllOthers
    Command = {x, y}
    Nil = Nil
    LateReads = FALSE
    ApplyCap = 1
    MaxTerm = 3
    MaxLog = 2
SYMMETRY DataSymmetry
VIEW LiveState
ACTION_CONSTRAINT EagerSend
INVARIANT StateMachineSafety
INVARIANT MatchIndexSound
INVARIANT CommitWithinRequest
CHECK_DEADLOCK FALSE
