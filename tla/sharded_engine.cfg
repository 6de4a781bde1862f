SPECIFICATION EnginesSpec
CONSTANTS
    Client = {c1, c2}
    Key = {1, 2}
    Value = {v}
    None = None
    NumShards = 2
    ShardOf <- RoundRobin
    MaxStarts = 2
INVARIANT EnginesTypeOK
INVARIANT RequestsConserved
INVARIANT NoMissedRequest
INVARIANT CountInRange
PROPERTY Linearizable
PROPERTY CallsReturn
PROPERTY StopReturns
CHECK_DEADLOCK FALSE
