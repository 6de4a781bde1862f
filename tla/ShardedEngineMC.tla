-------------------------- MODULE ShardedEngineMC --------------------------
EXTENDS LockingEngines

\* Keys 1, 2, 3... in turn on the shards.
RoundRobin == [k \in Key |-> (k % NumShards) + 1]

=============================================================================
