\* Two served shards, of which one is restarted, and two changes of leadership.
CONSTANTS
    ShardID <- MCShardID
    Key = {k1}
    VNodes <- MCVNodes
    Circle <- MCCircle
    Placements <- MCPlacements
    Client = {c1}
    NumShards = 2
    MaxRetries = 2
    Served <- MCServed
    Unsteady = {1}
    MaxStarts = 2
    MaxChanges = 2
SPECIFICATION Spec
INVARIANT TypeOK
INVARIANT GetShardIsSuccessor
INVARIANT ProposedOnce
INVARIANT LeadersHaveLed
PROPERTY MinimalMovement
PROPERTY RouteReturns
\* The walk over the statuses and a writer may wait for each other.
CHECK_DEADLOCK FALSE
