----------------------------- MODULE ShardingMC -----------------------------
(***************************************************************************)
(* An instance of Sharding: every placement of the virtual nodes of three  *)
(* shards and of a key around a small circle, and a server on one of them. *)
(***************************************************************************)
EXTENDS Sharding

MCShardID == 0 .. 2
MCVNodes == 2
MCCircle == 6

\* The virtual nodes of a shard are alike: their hashes increase.
VnodePlacements ==
    {v \in [MCShardID \X (1 .. MCVNodes) -> 0 .. MCCircle - 1] :
        /\ \A a, b \in MCShardID \X (1 .. MCVNodes) : v[a] = v[b] => a = b
        /\ \A s \in MCShardID : v[s, 1] < v[s, 2]}

MCPlacements ==
    {[vnode |-> v, key |-> h] : v \in VnodePlacements, h \in [Key -> 0 .. MCCircle - 1]}

\* One placement: the shards alternate, and the keys belong to shard 1.
MCServed ==
    {p \in MCPlacements :
        /\ \A s \in MCShardID, i \in 1 .. MCVNodes : p.vnode[s, i] = s + 3 * (i - 1)
        /\ \A k \in Key : p.key[k] = 1}

=============================================================================
