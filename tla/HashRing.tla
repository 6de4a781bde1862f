------------------------------ MODULE HashRing ------------------------------
(***************************************************************************)
(* The consistent-hash ring of node/sharding/hash_ring.go.                 *)
(*                                                                         *)
(* hash is an arbitrary function, drawn in Init and fixed from then on;    *)
(* two virtual nodes never have the same 64-bit hash (sort.Slice is not    *)
(* stable, and would put such a pair in either order). shards is a slice   *)
(* in the code; nothing depends on its order.                              *)
(***************************************************************************)
EXTENDS Integers, Sequences, FiniteSets

CONSTANTS
    ShardID,
    Key,
    VNodes,       \* virtualNodes
    Circle,       \* 2^64: hashes are 0 .. Circle - 1
    Placements    \* the hash functions considered: [vnode, key]

HashFunction == [vnode : [ShardID \X (1 .. VNodes) -> 0 .. Circle - 1],
                 key   : [Key -> 0 .. Circle - 1]]

ASSUME RingConstants ==
    /\ ShardID \subseteq Nat /\ IsFiniteSet(ShardID)
    /\ VNodes \in Nat \ {0}
    /\ Circle \in Nat \ {0}
    /\ Placements \subseteq HashFunction
    /\ \A p \in Placements : \A v, w \in ShardID \X (1 .. VNodes) :
          p.vnode[v] = p.vnode[w] => v = w

VARIABLES
    shards,
    ring,     \* sequence of VirtualNodes [hash, shard]
    hash      \* hash.vnode[s, i] and hash.key[k]

ringVars == <<shards, ring, hash>>

-----------------------------------------------------------------------------
VirtualNode == [hash : 0 .. Circle - 1, shard : ShardID]

\* The elements of r at the positions K, in the order of at, which tells the
\* positions apart.
Rank(K, at, p) == Cardinality({q \in K : at[q] < at[p]})

InOrder(r, K, at) ==
    [i \in 1 .. Cardinality(K) |-> r[CHOOSE p \in K : Rank(K, at, p) = i - 1]]

\* sort.Slice by hash
Sorted(r) == InOrder(r, DOMAIN r, [p \in DOMAIN r |-> r[p].hash])

VNode(s, i) == [hash |-> hash.vnode[s, i], shard |-> s]

\* addShardToRing
WithShard(r, s) == r \o [i \in 1 .. VNodes |-> VNode(s, i)]

\* The order in which the virtual nodes are appended is lost in the sort.
NewHashRing(S) == Sorted([v \in S \X (1 .. VNodes) |-> VNode(v[1], v[2])])

\* Mutant: the search looks for a strictly larger hash.
GetShard_Strict(r, k) ==
    IF r = << >> THEN 0
    ELSE LET after == {i \in DOMAIN r : r[i].hash > hash.key[k]}
         IN  r[IF after = {} THEN 1 ELSE CHOOSE i \in after : \A j \in after : i <= j].shard

GetShard(r, k) ==
    IF r = << >> THEN 0
    ELSE LET after == {i \in DOMAIN r : r[i].hash >= hash.key[k]}
         IN  r[IF after = {} THEN 1 ELSE CHOOSE i \in after : \A j \in after : i <= j].shard

-----------------------------------------------------------------------------
RingInit ==
    /\ hash \in Placements
    /\ shards \in SUBSET ShardID
    /\ ring = NewHashRing(shards)

\* Mutant: the ring is not sorted again.
AddShard_Unsorted(s) ==
    /\ s \notin shards
    /\ shards' = shards \union {s}
    /\ ring' = WithShard(ring, s)
    /\ UNCHANGED hash

\* A shard that is there already is left alone.
AddShard(s) ==
    /\ s \notin shards
    /\ shards' = shards \union {s}
    /\ ring' = Sorted(WithShard(ring, s))
    /\ UNCHANGED hash

RemoveShard(s) ==
    LET kept == {p \in DOMAIN ring : ring[p].shard # s}
    IN  /\ shards' = shards \ {s}
        /\ ring' = InOrder(ring, kept, [p \in kept |-> p])
        /\ UNCHANGED hash

-----------------------------------------------------------------------------
\* GetShard's binary search finds the owner of the virtual node that comes first
\* clockwise from the key, among those of the present shards: the answer depends on
\* which shards there are, and not on the AddShards and RemoveShards that led there.
GetShardIsSuccessor ==
    LET Ahead(s, i, k) == (hash.vnode[s, i] - hash.key[k]) % Circle
    IN  \A k \in Key : shards # {} =>
            \E s \in shards, i \in 1 .. VNodes :
                /\ GetShard(ring, k) = s
                /\ \A t \in shards, j \in 1 .. VNodes : Ahead(s, i, k) <= Ahead(t, j, k)

\* A change of shards moves a key only to a shard it adds or from one it removes
\* (AddShard and RemoveShard, "minimal key movement" in hash_ring_test.go).
MinimalMovement ==
    [][\A k \in Key : GetShard(ring', k) # GetShard(ring, k) =>
          \/ GetShard(ring', k) \in shards' \ shards
          \/ GetShard(ring, k) \in shards \ shards']_ringVars

=============================================================================
