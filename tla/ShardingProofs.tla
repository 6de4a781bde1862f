--------------------------- MODULE ShardingProofs ---------------------------
(***************************************************************************)
(* Theorems about the sharded server of node/sharding and                  *)
(* cmd/sharded_server: the ring, the leaders that the manager and the      *)
(* router know of, and the operations that Route proposes.                 *)
(*                                                                         *)
(* The first part is about the ring alone (hash_ring.go): what its sort,   *)
(* its filter and its search return, and that AddShard and RemoveShard     *)
(* keep it a sorted list of the virtual nodes of the shards.               *)
(***************************************************************************)
EXTENDS Sharding, FiniteSetTheorems, SequenceTheorems, TLAPS

-----------------------------------------------------------------------------
(* Lists by rank.                                                          *)

\* An order without ties on a finite set numbers it from 0.
LEMMA Ranks ==
    ASSUME NEW K, IsFiniteSet(K), NEW at \in [K -> Int],
           \A p, q \in K : at[p] = at[q] => p = q
    PROVE  /\ Cardinality(K) \in Nat
           /\ \A p \in K : Rank(K, at, p) \in 0 .. Cardinality(K) - 1
           /\ \A p, q \in K : at[p] < at[q] <=> Rank(K, at, p) < Rank(K, at, q)
           /\ \A i \in 1 .. Cardinality(K) : \E p \in K : Rank(K, at, p) = i - 1
<1> DEFINE n         == Cardinality(K)
           Before(p) == {q \in K : at[q] < at[p]}
           rank      == [p \in K |-> Rank(K, at, p)]
<1>1. n \in Nat
  BY FS_CardinalityType
<1>2. ASSUME NEW p \in K
      PROVE  /\ IsFiniteSet(Before(p)) /\ Cardinality(Before(p)) \in Nat
             /\ Cardinality(Before(p)) < n
             /\ Rank(K, at, p) = Cardinality(Before(p))
  <2>1. Before(p) \in SUBSET K /\ p \notin Before(p)
    OBVIOUS
  <2>2. Rank(K, at, p) = Cardinality(Before(p))
    BY DEF Rank
  <2> HIDE DEF Before
  <2>3. /\ IsFiniteSet(Before(p)) /\ Cardinality(Before(p)) <= n
        /\ n = Cardinality(Before(p)) => K = Before(p)
    BY <2>1, FS_Subset
  <2>4. Cardinality(Before(p)) \in Nat
    BY <2>3, FS_CardinalityType
  <2> QED
    BY <1>1, <2>1, <2>2, <2>3, <2>4
<1>3. ASSUME NEW p \in K, NEW q \in K, at[p] < at[q]
      PROVE  Rank(K, at, p) < Rank(K, at, q)
  <2>1. Before(p) \in SUBSET Before(q) /\ p \in Before(q) /\ p \notin Before(p)
    BY <1>3
  <2> HIDE DEF Before
  <2>2. /\ Cardinality(Before(p)) <= Cardinality(Before(q))
        /\ Cardinality(Before(q)) = Cardinality(Before(p)) => Before(q) = Before(p)
    BY <1>2, <2>1, FS_Subset
  <2> QED
    BY <1>2, <2>1, <2>2
<1>4. \A p \in K : Rank(K, at, p) \in 0 .. n - 1
  <2> HIDE DEF Before, n
  <2> QED
    BY <1>1, <1>2
<1>5. ASSUME NEW p \in K, NEW q \in K, Rank(K, at, p) < Rank(K, at, q)
      PROVE  at[p] < at[q]
  <2>1. at[p] \in Int /\ at[q] \in Int
    OBVIOUS
  <2>2. Rank(K, at, p) \in Int /\ Rank(K, at, q) \in Int
    BY <1>1, <1>4
  <2>3. CASE at[q] < at[p]
    BY <1>3, <1>5, <2>2, <2>3
  <2>4. CASE at[p] = at[q]
    BY <1>5, <2>2, <2>4
  <2> QED
    BY <2>1, <2>3, <2>4
<1>6. \A p, q \in K : Rank(K, at, p) = Rank(K, at, q) => p = q
  <2> SUFFICES ASSUME NEW p \in K, NEW q \in K, Rank(K, at, p) = Rank(K, at, q), p # q
               PROVE  FALSE
    OBVIOUS
  <2>1. at[p] \in Int /\ at[q] \in Int /\ at[p] # at[q]
    OBVIOUS
  <2>2. Rank(K, at, p) \in Int
    BY <1>1, <1>4
  <2>3. at[p] < at[q] \/ at[q] < at[p]
    BY <2>1
  <2> QED
    BY <1>3, <2>2, <2>3
<1>7. rank \in Injection(K, 0 .. n - 1)
  <2>1. rank \in [K -> 0 .. n - 1]
    BY <1>4
  <2> QED
    BY <1>6, <2>1 DEF Injection, IsInjective
<1>8. IsFiniteSet(0 .. n - 1) /\ Cardinality(0 .. n - 1) = n
  <2>1. /\ IsFiniteSet(0 .. n - 1)
        /\ Cardinality(0 .. n - 1) = IF 0 > n - 1 THEN 0 ELSE n - 1 - 0 + 1
    BY <1>1, FS_Interval
  <2> QED
    BY <1>1, <2>1
<1> HIDE DEF rank
<1>9. rank \in Surjection(K, 0 .. n - 1)
  BY <1>7, <1>8, FS_Injection
<1>10. ASSUME NEW i \in 1 .. n PROVE \E p \in K : Rank(K, at, p) = i - 1
  <2>1. i - 1 \in 0 .. n - 1
    BY <1>1
  <2> QED
    BY <1>9, <2>1, Zenon DEF Surjection, rank
<1> QED
  BY <1>1, <1>3, <1>4, <1>5, <1>10

\* o lists the elements of r at the positions K, each once, in the order of at.
ListedBy(o, r, K, at) ==
    \E f \in [1 .. Len(o) -> K] :
        /\ \A i \in 1 .. Len(o) : o[i] = r[f[i]]
        /\ \A i, j \in 1 .. Len(o) : i < j => at[f[i]] < at[f[j]]
        /\ \A p \in K : \E i \in 1 .. Len(o) : f[i] = p

\* Sorting a finite set by different numbers lists it in their order.
LEMMA InOrderLists ==
    ASSUME NEW K, IsFiniteSet(K), NEW at \in [K -> Int],
           \A p, q \in K : at[p] = at[q] => p = q,
           NEW T, NEW r, \A p \in K : r[p] \in T
    PROVE  /\ InOrder(r, K, at) \in Seq(T)
           /\ ListedBy(InOrder(r, K, at), r, K, at)
<1> DEFINE n == Cardinality(K)
           At(i) == CHOOSE p \in K : Rank(K, at, p) = i - 1
           f == [i \in 1 .. n |-> At(i)]
<1>1. /\ n \in Nat
      /\ \A p \in K : Rank(K, at, p) \in 0 .. n - 1
      /\ \A p, q \in K : at[p] < at[q] <=> Rank(K, at, p) < Rank(K, at, q)
      /\ \A i \in 1 .. n : \E p \in K : Rank(K, at, p) = i - 1
  BY Ranks
<1>2. \A i \in 1 .. n : At(i) \in K /\ Rank(K, at, At(i)) = i - 1
  BY <1>1
<1>3. InOrder(r, K, at) = [i \in 1 .. n |-> r[At(i)]]
  BY DEF InOrder
<1> HIDE DEF n, At
<1>4. f \in [1 .. n -> K] /\ \A i \in 1 .. n : f[i] = At(i)
  BY <1>2
<1> HIDE DEF f
<1>5. /\ InOrder(r, K, at) \in Seq(T) /\ Len(InOrder(r, K, at)) = n
      /\ \A i \in 1 .. n : InOrder(r, K, at)[i] = r[f[i]]
  BY <1>1, <1>2, <1>3, <1>4
<1>6. ASSUME NEW i \in 1 .. n, NEW j \in 1 .. n, i < j PROVE at[f[i]] < at[f[j]]
  <2>1. Rank(K, at, f[i]) = i - 1 /\ Rank(K, at, f[j]) = j - 1 /\ i - 1 < j - 1
    BY <1>1, <1>2, <1>4, <1>6
  <2> QED
    BY <1>1, <1>4, <2>1
<1>7. ASSUME NEW p \in K PROVE \E i \in 1 .. n : f[i] = p
  <2> DEFINE i == Rank(K, at, p) + 1
  <2>1. i \in 1 .. n /\ Rank(K, at, p) = i - 1 /\ Rank(K, at, p) \in Int
    BY <1>1
  <2> HIDE DEF i
  <2>2. f[i] \in K /\ Rank(K, at, f[i]) = Rank(K, at, p)
    BY <1>2, <1>4, <2>1
  <2>3. ~(at[f[i]] < at[p]) /\ ~(at[p] < at[f[i]])
    BY <1>1, <2>1, <2>2
  <2>4. at[f[i]] \in Int /\ at[p] \in Int
    BY <2>2
  <2>5. f[i] = p
    BY <2>2, <2>3, <2>4, SMTT(30)
  <2> QED
    BY <2>1, <2>5
<1> DEFINE o == InOrder(r, K, at)
<1>8. ListedBy(o, r, K, at)
  <2>1. o \in Seq(T) /\ Len(o) = n /\ \A i \in 1 .. n : o[i] = r[f[i]]
    BY <1>5
  <2> HIDE DEF o
  <2>2. \A i, j \in 1 .. n : i < j => at[f[i]] < at[f[j]]
    BY <1>6, Zenon
  <2>3. \A p \in K : \E i \in 1 .. n : f[i] = p
    BY <1>7, Zenon
  <2> QED
    BY <1>4, <2>1, <2>2, <2>3, Zenon DEF ListedBy
<1> QED
  BY <1>5, <1>8

-----------------------------------------------------------------------------
(* The ring.                                                               *)

\* The elements of r at the positions K are the virtual nodes of the shards S.
Lists(r, K, S) ==
    /\ \A p \in K : \E s \in S, v \in 1 .. VNodes : r[p] = VNode(s, v)
    /\ \A s \in S, v \in 1 .. VNodes : \E p \in K : r[p] = VNode(s, v)

\* r lists the virtual nodes of the shards S, each once, by their hashes.
IsRing(r, S) ==
    /\ r \in Seq(VirtualNode)
    /\ Lists(r, 1 .. Len(r), S)
    /\ \A i, j \in 1 .. Len(r) : i < j => r[i].hash < r[j].hash

RingInv ==
    /\ hash \in Placements
    /\ shards \subseteq ShardID
    /\ IsRing(ring, shards)

\* The types of a placement, and that virtual nodes have different hashes.
LEMMA HashFacts ==
    ASSUME NEW p \in Placements
    PROVE  /\ p.vnode \in [ShardID \X (1 .. VNodes) -> 0 .. Circle - 1]
           /\ p.key \in [Key -> 0 .. Circle - 1]
           /\ \A v, w \in ShardID \X (1 .. VNodes) : p.vnode[v] = p.vnode[w] => v = w
  BY RingConstants, Zenon DEF HashFunction

\* Virtual nodes are told apart by their hashes.
LEMMA VNodeFacts ==
    ASSUME hash \in Placements
    PROVE  /\ \A s \in ShardID, v \in 1 .. VNodes :
                 /\ VNode(s, v) \in VirtualNode
                 /\ VNode(s, v).shard = s /\ VNode(s, v).hash = hash.vnode[s, v]
           /\ \A s, t \in ShardID, v, w \in 1 .. VNodes :
                 VNode(s, v).hash = VNode(t, w).hash => s = t /\ v = w
<1>1. /\ hash.vnode \in [ShardID \X (1 .. VNodes) -> 0 .. Circle - 1]
      /\ \A v, w \in ShardID \X (1 .. VNodes) : hash.vnode[v] = hash.vnode[w] => v = w
  BY HashFacts, Zenon
<1>2. ASSUME NEW s \in ShardID, NEW v \in 1 .. VNodes
      PROVE  /\ VNode(s, v) \in VirtualNode
             /\ VNode(s, v).shard = s /\ VNode(s, v).hash = hash.vnode[s, v]
  <2>1. <<s, v>> \in ShardID \X (1 .. VNodes)
    OBVIOUS
  <2>2. hash.vnode[<<s, v>>] \in 0 .. Circle - 1
    BY <1>1, <2>1, Zenon
  <2> QED
    BY <2>2, Zenon DEF VNode, VirtualNode
<1>3. ASSUME NEW s \in ShardID, NEW t \in ShardID, NEW v \in 1 .. VNodes,
             NEW w \in 1 .. VNodes, VNode(s, v).hash = VNode(t, w).hash
      PROVE  s = t /\ v = w
  <2>1. <<s, v>> \in ShardID \X (1 .. VNodes) /\ <<t, w>> \in ShardID \X (1 .. VNodes)
    OBVIOUS
  <2>2. hash.vnode[<<s, v>>] = hash.vnode[<<t, w>>]
    BY <1>2, <1>3, Zenon
  <2>3. <<s, v>> = <<t, w>>
    BY <1>1, <2>1, <2>2, Zenon
  <2> QED
    BY <2>3
<1> QED
  BY <1>2, <1>3, Zenon

\* sort.Slice makes a ring of a list, in any order, of the virtual nodes of S.
LEMMA SortedIsRing ==
    ASSUME NEW S, NEW K, IsFiniteSet(K), NEW r \in [K -> VirtualNode],
           \A p, q \in K : r[p].hash = r[q].hash => p = q,
           Lists(r, K, S)
    PROVE  IsRing(Sorted(r), S)
<1> DEFINE at == [p \in K |-> r[p].hash]
<1>1. at \in [K -> Int] /\ \A p \in K : at[p] = r[p].hash
  BY RingConstants DEF VirtualNode
<1>2. Sorted(r) = InOrder(r, K, at)
  BY DEF Sorted
<1> HIDE DEF at
<1>3. \A p, q \in K : at[p] = at[q] => p = q
  BY <1>1, ZenonT(60)
<1> DEFINE o == InOrder(r, K, at)
           n == Len(o)
<1>4. o \in Seq(VirtualNode) /\ ListedBy(o, r, K, at)
  <2>1. \A p \in K : r[p] \in VirtualNode
    OBVIOUS
  <2> QED
    BY <1>1, <1>3, <2>1, InOrderLists, Zenon
<1> HIDE DEF o
<1>5. PICK f \in [1 .. n -> K] :
         /\ \A i \in 1 .. n : o[i] = r[f[i]]
         /\ \A i, j \in 1 .. n : i < j => at[f[i]] < at[f[j]]
         /\ \A p \in K : \E i \in 1 .. n : f[i] = p
  BY <1>4, Zenon DEF ListedBy
<1> HIDE DEF n
<1>6. /\ o \in Seq(VirtualNode) /\ Len(o) = n
      /\ \A i \in 1 .. n : f[i] \in K /\ o[i] = r[f[i]]
  BY <1>4, <1>5 DEF n
<1>7. Lists(o, 1 .. Len(o), S)
  <2>1. ASSUME NEW i \in 1 .. n PROVE \E s \in S, v \in 1 .. VNodes : o[i] = VNode(s, v)
    BY <1>6 DEF Lists
  <2>2. ASSUME NEW s \in S, NEW v \in 1 .. VNodes
        PROVE  \E i \in 1 .. n : o[i] = VNode(s, v)
    <3>1. PICK p \in K : r[p] = VNode(s, v)
      BY DEF Lists
    <3>2. PICK i \in 1 .. n : f[i] = p
      BY <1>5
    <3> QED
      BY <1>6, <3>1, <3>2
  <2> QED
    BY <1>6, <2>1, <2>2, Zenon DEF Lists
<1>8. ASSUME NEW i \in 1 .. Len(o), NEW j \in 1 .. Len(o), i < j
      PROVE  o[i].hash < o[j].hash
  <2>1. at[f[i]] < at[f[j]]
    BY <1>5, <1>6, <1>8
  <2>2. at[f[i]] = o[i].hash /\ at[f[j]] = o[j].hash
    BY <1>1, <1>6, Zenon
  <2> QED
    BY <2>1, <2>2
<1> QED
  BY <1>2, <1>6, <1>7, <1>8, Zenon DEF IsRing, o

\* NewHashRing.
LEMMA NewRing ==
    ASSUME hash \in Placements, NEW S \in SUBSET ShardID
    PROVE  IsRing(NewHashRing(S), S)
<1> DEFINE K == S \X (1 .. VNodes)
           r == [v \in K |-> VNode(v[1], v[2])]
<1>1. IsFiniteSet(K)
  <2>1. IsFiniteSet(S)
    BY RingConstants, FS_Subset, Zenon
  <2>2. IsFiniteSet(1 .. VNodes)
    BY RingConstants, FS_Interval
  <2> QED
    BY <2>1, <2>2, FS_Product, Zenon
<1>2. \A p \in K : p[1] \in ShardID /\ p[2] \in 1 .. VNodes /\ p = <<p[1], p[2]>>
  OBVIOUS
<1>3. r \in [K -> VirtualNode]
  BY <1>2, VNodeFacts, Zenon
<1>4. \A p, q \in K : r[p].hash = r[q].hash => p = q
  <2> SUFFICES ASSUME NEW p \in K, NEW q \in K, r[p].hash = r[q].hash PROVE p = q
    OBVIOUS
  <2>1. VNode(p[1], p[2]).hash = VNode(q[1], q[2]).hash
    OBVIOUS
  <2>2. p[1] = q[1] /\ p[2] = q[2]
    <3>1. p[1] \in ShardID /\ p[2] \in 1 .. VNodes /\ q[1] \in ShardID /\ q[2] \in 1 .. VNodes
      BY <1>2, Zenon
    <3>2. \A s, t \in ShardID, v, w \in 1 .. VNodes :
            VNode(s, v).hash = VNode(t, w).hash => s = t /\ v = w
      BY VNodeFacts, Zenon
    <3> HIDE DEF r
    <3> QED
      BY <2>1, <3>1, <3>2
  <2> QED
    BY <1>2, <2>2
<1>5. \A p \in K : \E s \in S, v \in 1 .. VNodes : r[p] = VNode(s, v)
  <2> SUFFICES ASSUME NEW p \in K PROVE \E s \in S, v \in 1 .. VNodes : r[p] = VNode(s, v)
    OBVIOUS
  <2>1. r[p] = VNode(p[1], p[2]) /\ p[1] \in S /\ p[2] \in 1 .. VNodes
    OBVIOUS
  <2> QED
    BY <2>1, Zenon
<1>6. \A s \in S, v \in 1 .. VNodes : \E p \in K : r[p] = VNode(s, v)
  <2> SUFFICES ASSUME NEW s \in S, NEW v \in 1 .. VNodes PROVE \E p \in K : r[p] = VNode(s, v)
    OBVIOUS
  <2>1. <<s, v>> \in K /\ r[<<s, v>>] = VNode(s, v)
    OBVIOUS
  <2> QED
    BY <2>1, Zenon
<1>7. Lists(r, K, S)
  BY <1>5, <1>6, Zenon DEF Lists
<1>8. NewHashRing(S) = Sorted(r)
  BY DEF NewHashRing
<1> HIDE DEF K, r
<1> QED
  BY <1>1, <1>3, <1>4, <1>7, <1>8, SortedIsRing

\* AddShard.
LEMMA AddedRing ==
    ASSUME RingInv, NEW s \in ShardID, s \notin shards
    PROVE  IsRing(Sorted(WithShard(ring, s)), shards \union {s})
<1> DEFINE new == [i \in 1 .. VNodes |-> VNode(s, i)]
           r   == ring \o new
           l   == Len(ring)
           K   == 1 .. l + VNodes
           S   == shards \union {s}
<1>1. /\ hash \in Placements /\ shards \subseteq ShardID /\ VNodes \in Nat
      /\ ring \in Seq(VirtualNode) /\ l \in Nat
      /\ Lists(ring, 1 .. l, shards)
      /\ \A i, j \in 1 .. l : i < j => ring[i].hash < ring[j].hash
  BY RingConstants, LenProperties DEF RingInv, IsRing
<1>2. \A i \in 1 .. VNodes : VNode(s, i) \in VirtualNode
  BY <1>1, VNodeFacts, Zenon
<1>3. /\ new \in Seq(VirtualNode) /\ Len(new) = VNodes
      /\ \A i \in 1 .. VNodes : new[i] = VNode(s, i)
  BY <1>1, <1>2
<1> HIDE DEF new
<1>4. /\ r \in Seq(VirtualNode) /\ Len(r) = l + VNodes
      /\ \A i \in K : r[i] = IF i <= l THEN ring[i] ELSE new[i - l]
  <2>1. /\ r \in Seq(VirtualNode) /\ Len(r) = Len(ring) + Len(new)
        /\ \A i \in 1 .. Len(ring) + Len(new) :
             r[i] = IF i <= Len(ring) THEN ring[i] ELSE new[i - Len(ring)]
    BY <1>1, <1>3, ConcatProperties, Zenon
  <2> QED
    BY <1>3, <2>1, Zenon
<1>5. WithShard(ring, s) = r
  BY DEF WithShard, new
<1> HIDE DEF r, l
<1>6. \A i \in 1 .. l : i \in K /\ r[i] = ring[i]
  BY <1>1, <1>4
<1>7. \A i \in 1 .. VNodes : l + i \in K /\ r[l + i] = VNode(s, i)
  BY <1>1, <1>3, <1>4
<1>8. ASSUME NEW p \in K
      PROVE  p \in 1 .. l \/ \E i \in 1 .. VNodes : p = l + i
  <2>1. CASE p > l
    <3>1. p - l \in 1 .. VNodes /\ p = l + (p - l)
      BY <1>1, <2>1
    <3> QED
      BY <3>1
  <2> QED
    BY <1>1, <2>1
<1>9. ASSUME NEW p \in 1 .. l
      PROVE  \E t \in shards, v \in 1 .. VNodes : r[p] = VNode(t, v)
  BY <1>1, <1>6, Zenon DEF Lists
<1>10. \A t, u \in ShardID, v, w \in 1 .. VNodes :
         VNode(t, v).hash = VNode(u, w).hash => t = u /\ v = w
  BY <1>1, VNodeFacts, Zenon
<1>11. ASSUME NEW p \in 1 .. l, NEW i \in 1 .. VNodes PROVE r[p].hash # r[l + i].hash
  <2>1. PICK t \in shards, v \in 1 .. VNodes : r[p] = VNode(t, v)
    BY <1>9
  <2>2. t \in ShardID /\ t # s
    BY <1>1
  <2>3. VNode(t, v).hash # VNode(s, i).hash
    BY <1>10, <2>2, Zenon
  <2>4. r[l + i] = VNode(s, i)
    BY <1>7, Zenon
  <2> QED
    BY <2>1, <2>3, <2>4, Zenon
<1>12. ASSUME NEW p \in 1 .. l, NEW q \in 1 .. l, r[p].hash = r[q].hash PROVE p = q
  <2>1. /\ ring[p] \in VirtualNode /\ ring[q] \in VirtualNode
        /\ ring[p].hash = ring[q].hash
    BY <1>1, <1>6, <1>12, ElementOfSeq DEF l
  <2>2. ring[p].hash \in Int
    BY <2>1, RingConstants DEF VirtualNode
  <2>3. ~(p < q) /\ ~(q < p)
    BY <1>1, <2>1, <2>2
  <2> QED
    BY <1>1, <2>3
<1>13. ASSUME NEW p \in K, NEW q \in K, r[p].hash = r[q].hash PROVE p = q
  <2>1. CASE p \in 1 .. l /\ q \in 1 .. l
    BY <1>12, <1>13, <2>1, Zenon
  <2>2. ASSUME NEW i \in 1 .. VNodes, q = l + i PROVE p = q
    <3>1. p \notin 1 .. l
      BY <1>11, <1>13, <2>2, Zenon
    <3>2. PICK j \in 1 .. VNodes : p = l + j
      BY <1>8, <3>1, Zenon
    <3>3. VNode(s, j).hash = VNode(s, i).hash
      BY <1>7, <1>13, <2>2, <3>2, Zenon
    <3> QED
      BY <1>10, <2>2, <3>2, <3>3, ZenonT(60)
  <2>3. ASSUME NEW i \in 1 .. VNodes, p = l + i PROVE p = q
    <3>1. q \notin 1 .. l
      BY <1>11, <1>13, <2>3, Zenon
    <3>2. PICK j \in 1 .. VNodes : q = l + j
      BY <1>8, <3>1, Zenon
    <3> QED
      BY <2>2, <3>2, Zenon
  <2> QED
    BY <1>8, <2>1, <2>2, <2>3, Zenon
<1>14. Lists(r, K, S)
  <2>1. ASSUME NEW p \in K PROVE \E t \in S, v \in 1 .. VNodes : r[p] = VNode(t, v)
    <3>1. CASE p \in 1 .. l
      BY <1>9, <3>1
    <3>2. ASSUME NEW i \in 1 .. VNodes, p = l + i
          PROVE  \E t \in S, v \in 1 .. VNodes : r[p] = VNode(t, v)
      BY <1>7, <3>2
    <3> QED
      BY <1>8, <3>1, <3>2, Zenon
  <2>2. ASSUME NEW t \in S, NEW v \in 1 .. VNodes PROVE \E p \in K : r[p] = VNode(t, v)
    <3>1. CASE t = s
      BY <1>7, <3>1, Zenon
    <3>2. CASE t \in shards
      <4>1. PICK p \in 1 .. l : ring[p] = VNode(t, v)
        BY <1>1, <3>2, Zenon DEF Lists
      <4> QED
        BY <1>6, <4>1, Zenon
    <3> QED
      BY <3>1, <3>2
  <2> QED
    BY <2>1, <2>2, Zenon DEF Lists
<1>15. IsFiniteSet(K) /\ r \in [K -> VirtualNode]
  <2>1. IsFiniteSet(K)
    BY <1>1, FS_Interval
  <2>2. DOMAIN r = K
    BY <1>1, <1>4, LenProperties
  <2> QED
    BY <1>4, <2>1, <2>2, LenProperties, ElementOfSeq
<1> HIDE DEF K, S
<1> QED
  BY <1>5, <1>13, <1>14, <1>15, SortedIsRing DEF S

\* RemoveShard.
LEMMA RemovedRing ==
    ASSUME RingInv, NEW s, NEW kept, kept = {p \in DOMAIN ring : ring[p].shard # s}
    PROVE  IsRing(InOrder(ring, kept, [p \in kept |-> p]), shards \ {s})
<1> DEFINE l  == Len(ring)
           at == [p \in kept |-> p]
           o  == InOrder(ring, kept, at)
           n  == Len(o)
           S  == shards \ {s}
<1>1. /\ hash \in Placements /\ shards \subseteq ShardID
      /\ ring \in Seq(VirtualNode) /\ l \in Nat /\ DOMAIN ring = 1 .. l
      /\ Lists(ring, 1 .. l, shards)
      /\ \A i, j \in 1 .. l : i < j => ring[i].hash < ring[j].hash
  BY LenProperties DEF RingInv, IsRing
<1> HIDE DEF l
<1>2. /\ kept \in SUBSET (1 .. l) /\ \A p \in kept : ring[p].shard # s
      /\ \A p \in 1 .. l : ring[p].shard # s => p \in kept
  BY <1>1
<1>3. IsFiniteSet(kept)
  BY <1>1, <1>2, FS_Interval, FS_Subset
<1>4. at \in [kept -> Int] /\ \A p \in kept : at[p] = p
  BY <1>1, <1>2
<1> HIDE DEF at
<1>5. \A p \in kept : ring[p] \in VirtualNode
  BY <1>1, <1>2, ElementOfSeq DEF l
<1>6. o \in Seq(VirtualNode) /\ ListedBy(o, ring, kept, at)
  <2>1. \A p, q \in kept : at[p] = at[q] => p = q
    BY <1>4
  <2> QED
    BY <1>3, <1>4, <1>5, <2>1, InOrderLists, Zenon
<1> HIDE DEF o
<1>7. PICK f \in [1 .. n -> kept] :
        /\ \A i \in 1 .. n : o[i] = ring[f[i]]
        /\ \A i, j \in 1 .. n : i < j => at[f[i]] < at[f[j]]
        /\ \A p \in kept : \E i \in 1 .. n : f[i] = p
  BY <1>6, Zenon DEF ListedBy
<1> HIDE DEF n
<1>8. \A i \in 1 .. n : f[i] \in kept /\ f[i] \in 1 .. l /\ o[i] = ring[f[i]]
  BY <1>2, <1>7
<1>9. \A t \in ShardID, v \in 1 .. VNodes : VNode(t, v).shard = t
  BY <1>1, VNodeFacts, Zenon
<1>10. Lists(o, 1 .. n, S)
  <2>1. ASSUME NEW i \in 1 .. n PROVE \E t \in S, v \in 1 .. VNodes : o[i] = VNode(t, v)
    <3>1. PICK t \in shards, v \in 1 .. VNodes : ring[f[i]] = VNode(t, v)
      BY <1>1, <1>8, Zenon DEF Lists
    <3>2. t # s
      BY <1>1, <1>2, <1>8, <1>9, <3>1
    <3> QED
      BY <1>8, <3>1, <3>2
  <2>2. ASSUME NEW t \in S, NEW v \in 1 .. VNodes PROVE \E i \in 1 .. n : o[i] = VNode(t, v)
    <3>1. PICK p \in 1 .. l : ring[p] = VNode(t, v)
      BY <1>1, Zenon DEF Lists
    <3>2. p \in kept
      BY <1>1, <1>2, <1>9, <3>1
    <3>3. PICK i \in 1 .. n : f[i] = p
      BY <1>7, <3>2, Zenon
    <3> QED
      BY <1>8, <3>1, <3>3, Zenon
  <2> QED
    BY <2>1, <2>2, Zenon DEF Lists
<1>11. ASSUME NEW i \in 1 .. n, NEW j \in 1 .. n, i < j PROVE o[i].hash < o[j].hash
  <2>1. f[i] < f[j]
    BY <1>4, <1>7, <1>8, <1>11
  <2> QED
    BY <1>1, <1>8, <2>1
<1>12. IsRing(o, S)
  BY <1>6, <1>10, <1>11, Zenon DEF IsRing, n
<1> QED
  BY <1>12 DEF o, at

-----------------------------------------------------------------------------
(* The search.                                                             *)

\* A set of positions has a smallest.
LEMMA SmallestIn ==
    ASSUME NEW l \in Nat, NEW A \in SUBSET (1 .. l), A # {}
    PROVE  \E i \in A : \A j \in A : i <= j
<1> DEFINE at == [p \in A |-> p]
<1>1. IsFiniteSet(A)
  <2>1. IsFiniteSet(1 .. l)
    BY FS_Interval
  <2> QED
    BY <2>1, FS_Subset, Zenon
<1>2. at \in [A -> Int] /\ \A p \in A : at[p] = p
  OBVIOUS
<1> HIDE DEF at
<1>3. /\ Cardinality(A) \in Nat /\ Cardinality(A) # 0
      /\ \A i \in 1 .. Cardinality(A) : \E p \in A : Rank(A, at, p) = i - 1
  <2>1. Cardinality(A) # 0
    BY <1>1, FS_EmptySet
  <2>2. \A p, q \in A : at[p] = at[q] => p = q
    BY <1>2, Zenon
  <2>3. /\ Cardinality(A) \in Nat
        /\ \A i \in 1 .. Cardinality(A) : \E p \in A : Rank(A, at, p) = i - 1
    BY <1>1, <1>2, <2>2, Ranks, Zenon
  <2> QED
    BY <2>1, <2>3
<1>4. PICK p \in A : Rank(A, at, p) = 0
  <2>1. 1 \in 1 .. Cardinality(A) /\ 1 - 1 = 0
    BY <1>3
  <2> QED
    BY <1>3, <2>1
<1> DEFINE before == {q \in A : at[q] < at[p]}
<1>5. before \in SUBSET A /\ Cardinality(before) = 0
  BY <1>4 DEF Rank
<1>6. before = {}
  <2> HIDE DEF before
  <2> QED
    BY <1>1, <1>5, FS_Subset, FS_EmptySet, Zenon
<1>7. ASSUME NEW q \in A PROVE p <= q
  BY <1>2, <1>6
<1> QED
  BY <1>7

\* How far ahead of h the hash x is, clockwise.
LEMMA AheadOf ==
    ASSUME NEW x \in 0 .. Circle - 1, NEW h \in 0 .. Circle - 1
    PROVE  (x - h) % Circle = IF x >= h THEN x - h ELSE x - h + Circle
<1>1. Circle \in Nat /\ Circle > 0
  BY RingConstants
<1>2. CASE x >= h
  BY <1>1, <1>2
<1>3. CASE x < h
  BY <1>1, <1>3
<1> QED
  BY <1>1, <1>2, <1>3

\* Clockwise from h: first what is at or after h, then what is before it.
LEMMA AheadOrder ==
    ASSUME NEW a \in 0 .. Circle - 1, NEW b \in 0 .. Circle - 1, NEW h \in 0 .. Circle - 1,
           a >= h /\ b >= h => a <= b,
           a < h => b < h /\ a <= b
    PROVE  (a - h) % Circle <= (b - h) % Circle
<1>1. /\ (a - h) % Circle = IF a >= h THEN a - h ELSE a - h + Circle
      /\ (b - h) % Circle = IF b >= h THEN b - h ELSE b - h + Circle
  BY AheadOf
<1> DEFINE u == (a - h) % Circle
           v == (b - h) % Circle
<1>2. u <= v
  <2>1. Circle \in Nat
    BY RingConstants
  <2> HIDE DEF u, v
  <2> QED
    BY <1>1, <2>1 DEF u, v
<1> QED
  BY <1>2

\* sort.Search: the first of a list at or after h, or the first of all.
LEMMA SearchFinds ==
    ASSUME NEW l \in Nat \ {0}, NEW x \in [1 .. l -> Int], NEW h \in Int
    PROVE  LET after == {i \in 1 .. l : x[i] >= h}
               idx   == IF after = {} THEN 1
                        ELSE CHOOSE i \in after : \A j \in after : i <= j
           IN  /\ idx \in 1 .. l
               /\ \/ x[idx] >= h /\ \A m \in 1 .. l : x[m] >= h => idx <= m
                  \/ idx = 1 /\ \A m \in 1 .. l : x[m] < h
<1> DEFINE after == {i \in 1 .. l : x[i] >= h}
           idx   == IF after = {} THEN 1
                    ELSE CHOOSE i \in after : \A j \in after : i <= j
<1>1. CASE after = {}
  <2>1. idx = 1 /\ 1 \in 1 .. l
    BY <1>1
  <2>2. \A m \in 1 .. l : x[m] < h
    BY <1>1
  <2> QED
    BY <2>1, <2>2, Zenon
<1>2. CASE after # {}
  <2>1. after \in SUBSET (1 .. l)
    OBVIOUS
  <2>2. \E i \in after : \A j \in after : i <= j
    <3> HIDE DEF after
    <3> QED
      BY <1>2, <2>1, SmallestIn, Zenon
  <2>3. idx \in after /\ \A j \in after : idx <= j
    BY <1>2, <2>2, Zenon
  <2> HIDE DEF idx
  <2>4. idx \in 1 .. l /\ x[idx] >= h /\ \A m \in 1 .. l : x[m] >= h => idx <= m
    BY <2>3, Zenon
  <2> QED
    BY <2>4, Zenon DEF idx
<1> QED
  BY <1>1, <1>2, Zenon

\* What the search finds is the nearest.
LEMMA Nearest ==
    ASSUME NEW l \in Nat, NEW x \in [1 .. l -> 0 .. Circle - 1],
           \A i, j \in 1 .. l : i < j => x[i] < x[j],
           NEW h \in 0 .. Circle - 1, NEW idx \in 1 .. l,
           \/ x[idx] >= h /\ \A m \in 1 .. l : x[m] >= h => idx <= m
           \/ idx = 1 /\ \A m \in 1 .. l : x[m] < h,
           NEW m \in 1 .. l
    PROVE  (x[idx] - h) % Circle <= (x[m] - h) % Circle
<1> DEFINE a == x[idx]  b == x[m]
<1>1. a \in 0 .. Circle - 1 /\ b \in 0 .. Circle - 1 /\ Circle \in Nat
  BY RingConstants
<1>2. idx <= m => a <= b
  <2>1. idx \in Int /\ m \in Int /\ a \in Int /\ b \in Int
    BY <1>1
  <2>2. idx < m => a < b
    OBVIOUS
  <2>3. idx = m => a = b
    OBVIOUS
  <2> HIDE DEF a, b
  <2> QED
    BY <2>1, <2>2, <2>3
<1>3. \/ a >= h /\ (b >= h => a <= b)
      \/ a < h /\ b < h /\ a <= b
  <2>1. CASE a >= h /\ (b >= h => idx <= m)
    BY <1>2, <2>1
  <2>2. CASE idx = 1 /\ a < h /\ b < h
    <3>1. idx <= m
      BY <2>2
    <3> QED
      BY <1>2, <2>2, <3>1
  <2> QED
    BY <2>1, <2>2
<1> HIDE DEF a, b
<1>4. (a >= h /\ b >= h => a <= b) /\ (a < h => b < h /\ a <= b)
  BY <1>1, <1>3
<1>5. (a - h) % Circle <= (b - h) % Circle
  BY <1>1, <1>4, AheadOrder, ZenonT(60)
<1> QED
  BY <1>5 DEF a, b

\* GetShard on a ring.
LEMMA Successor ==
    ASSUME RingInv
    PROVE  GetShardIsSuccessor
<1> DEFINE Ahead(s, i, k) == (hash.vnode[s, i] - hash.key[k]) % Circle
<1> SUFFICES ASSUME NEW k \in Key, shards # {}
             PROVE  \E s \in shards, i \in 1 .. VNodes :
                       /\ GetShard(ring, k) = s
                       /\ \A t \in shards, j \in 1 .. VNodes : Ahead(s, i, k) <= Ahead(t, j, k)
  BY Zenon DEF GetShardIsSuccessor
<1> DEFINE l     == Len(ring)
           h     == hash.key[k]
           x     == [i \in 1 .. l |-> ring[i].hash]
           after == {i \in 1 .. l : x[i] >= h}
           idx   == IF after = {} THEN 1
                    ELSE CHOOSE i \in after : \A j \in after : i <= j
<1>1. /\ hash \in Placements /\ shards \subseteq ShardID
      /\ ring \in Seq(VirtualNode) /\ l \in Nat /\ DOMAIN ring = 1 .. l
      /\ Lists(ring, 1 .. l, shards)
      /\ \A i, j \in 1 .. l : i < j => ring[i].hash < ring[j].hash
  BY LenProperties DEF RingInv, IsRing
<1>2. h \in 0 .. Circle - 1
  BY <1>1, RingConstants, HashFacts
<1>3. l # 0
  <2>1. PICK s \in shards : TRUE
    OBVIOUS
  <2>2. 1 \in 1 .. VNodes
    BY RingConstants
  <2>3. PICK i \in 1 .. l : ring[i] = VNode(s, 1)
    BY <1>1, <2>2 DEF Lists
  <2> QED
    BY <1>1
<1>4. /\ x \in [1 .. l -> 0 .. Circle - 1]
      /\ \A i \in 1 .. l : x[i] = ring[i].hash
  <2>1. \A i \in 1 .. l : ring[i] \in VirtualNode
    BY <1>1, ElementOfSeq
  <2> QED
    BY <2>1 DEF VirtualNode
<1>5. GetShard(ring, k) = ring[idx].shard
  <2>1. ring # << >>
    BY <1>3
  <2> DEFINE found == {i \in DOMAIN ring : ring[i].hash >= hash.key[k]}
  <2>2. after = found
    BY <1>1
  <2>3. GetShard(ring, k) = ring[IF found = {} THEN 1
                                 ELSE CHOOSE i \in found : \A j \in found : i <= j].shard
    BY <2>1 DEF GetShard
  <2> HIDE DEF found, after
  <2> QED
    BY <2>2, <2>3
<1> HIDE DEF l, h, x
<1>6. \A i, j \in 1 .. l : i < j => x[i] < x[j]
  BY <1>1, <1>4, Zenon
<1>7. /\ idx \in 1 .. l
      /\ \A m \in 1 .. l : (x[idx] - h) % Circle <= (x[m] - h) % Circle
  <2>1. x \in [1 .. l -> Int] /\ h \in Int /\ l \in Nat \ {0}
    BY <1>1, <1>2, <1>3, <1>4, RingConstants
  <2>2. /\ idx \in 1 .. l
        /\ \/ x[idx] >= h /\ \A m \in 1 .. l : x[m] >= h => idx <= m
           \/ idx = 1 /\ \A m \in 1 .. l : x[m] < h
    BY <2>1, SearchFinds, Zenon
  <2> HIDE DEF after, idx
  <2>3. ASSUME NEW m \in 1 .. l PROVE (x[idx] - h) % Circle <= (x[m] - h) % Circle
    BY <1>1, <1>2, <1>4, <1>6, <2>2, Nearest, Zenon
  <2> QED
    BY <2>2, <2>3
<1> HIDE DEF after, idx
<1>8. PICK s \in shards, i \in 1 .. VNodes : ring[idx] = VNode(s, i)
  BY <1>1, <1>7, Zenon DEF Lists
<1>9. \A t \in shards, j \in 1 .. VNodes :
        VNode(t, j).shard = t /\ VNode(t, j).hash = hash.vnode[t, j]
  <2>1. \A t \in ShardID, j \in 1 .. VNodes :
          VNode(t, j).shard = t /\ VNode(t, j).hash = hash.vnode[t, j]
    BY <1>1, VNodeFacts, Zenon
  <2> QED
    BY <1>1, <2>1, Zenon
<1>10. GetShard(ring, k) = s /\ x[idx] = hash.vnode[s, i]
  <2>1. x[idx] = ring[idx].hash /\ GetShard(ring, k) = ring[idx].shard
    BY <1>4, <1>5, <1>7, Zenon
  <2>2. VNode(s, i).shard = s /\ VNode(s, i).hash = hash.vnode[s, i]
    BY <1>9, Zenon
  <2> QED
    BY <1>8, <2>1, <2>2, Zenon
<1>11. ASSUME NEW t \in shards, NEW j \in 1 .. VNodes
       PROVE  Ahead(s, i, k) <= Ahead(t, j, k)
  <2>1. PICK m \in 1 .. l : ring[m] = VNode(t, j)
    BY <1>1, Zenon DEF Lists
  <2>2. x[m] = hash.vnode[t, j]
    <3>1. x[m] = ring[m].hash
      BY <1>4, Zenon
    <3>2. VNode(t, j).hash = hash.vnode[t, j]
      BY <1>9, Zenon
    <3> QED
      BY <2>1, <3>1, <3>2, Zenon
  <2>3. (x[idx] - h) % Circle <= (x[m] - h) % Circle
    BY <1>7, Zenon
  <2> QED
    BY <1>10, <2>2, <2>3, Zenon DEF h
<1> QED
  BY <1>10, <1>11, Zenon

\* Positions at the same distance from h are equal.
LEMMA AheadInjective ==
    ASSUME NEW a \in 0 .. Circle - 1, NEW b \in 0 .. Circle - 1, NEW h \in 0 .. Circle - 1,
           (a - h) % Circle <= (b - h) % Circle, (b - h) % Circle <= (a - h) % Circle
    PROVE  a = b
<1> DEFINE u == (a - h) % Circle
           v == (b - h) % Circle
<1>1. /\ u = IF a >= h THEN a - h ELSE a - h + Circle
      /\ v = IF b >= h THEN b - h ELSE b - h + Circle
      /\ u <= v /\ v <= u /\ Circle \in Nat
  BY AheadOf, RingConstants
<1> HIDE DEF u, v
<1> QED
  BY <1>1

\* Without shards the ring is empty.
LEMMA EmptyRing ==
    ASSUME RingInv, shards = {}
    PROVE  ring = << >>
<1>1. ring \in Seq(VirtualNode) /\ Len(ring) \in Nat /\ Lists(ring, 1 .. Len(ring), shards)
  BY LenProperties DEF RingInv, IsRing
<1>2. \A p \in 1 .. Len(ring) : FALSE
  BY <1>1, Zenon DEF Lists
<1>3. Len(ring) = 0
  BY <1>1, <1>2
<1> QED
  BY <1>1, <1>3, EmptySeq

\* Two answers of GetShard, for the shards before a change and after it: if
\* both shards were there before and after, each is as near as the other.
LEMMA Movement ==
    ASSUME RingInv, hash' = hash, shards' \subseteq ShardID,
           GetShardIsSuccessor, GetShardIsSuccessor',
           shards = {} => ring = << >>, shards' = {} => ring' = << >>,
           NEW k \in Key, GetShard(ring', k) # GetShard(ring, k)
    PROVE  \/ GetShard(ring', k) \in shards' \ shards
           \/ GetShard(ring, k) \in shards \ shards'
<1> DEFINE Ahead(s, i) == (hash.vnode[s, i] - hash.key[k]) % Circle
           old == GetShard(ring, k)
           new == GetShard(ring', k)
<1>1. hash \in Placements /\ shards \subseteq ShardID
  BY DEF RingInv
<1>2. /\ hash.vnode \in [ShardID \X (1 .. VNodes) -> 0 .. Circle - 1]
      /\ \A v, w \in ShardID \X (1 .. VNodes) : hash.vnode[v] = hash.vnode[w] => v = w
      /\ hash.key[k] \in 0 .. Circle - 1
  BY <1>1, HashFacts, Zenon
<1>3. shards # {} =>
        \E s \in shards, i \in 1 .. VNodes :
           /\ old = s
           /\ \A t \in shards, j \in 1 .. VNodes : Ahead(s, i) <= Ahead(t, j)
  BY Zenon DEF GetShardIsSuccessor
<1>4. shards' # {} =>
        \E s \in shards', i \in 1 .. VNodes :
           /\ new = s
           /\ \A t \in shards', j \in 1 .. VNodes : Ahead(s, i) <= Ahead(t, j)
  <2>1. (GetShard(ring, k))' = new
    <3> DEFINE A == {i \in DOMAIN ring' : ring'[i].hash >= hash'.key[k]}
               B == {i \in DOMAIN ring' : ring'[i].hash >= hash.key[k]}
    <3>1. A = B
      OBVIOUS
    <3>2. (GetShard(ring, k))' =
            IF ring' = << >> THEN 0
            ELSE ring'[IF A = {} THEN 1 ELSE CHOOSE i \in A : \A j \in A : i <= j].shard
      BY DEF GetShard
    <3>3. new =
            IF ring' = << >> THEN 0
            ELSE ring'[IF B = {} THEN 1 ELSE CHOOSE i \in B : \A j \in B : i <= j].shard
      BY DEF GetShard
    <3> HIDE DEF A, B, new
    <3> QED
      BY <3>1, <3>2, <3>3
  <2>2. shards' # {} =>
          \E s \in shards', i \in 1 .. VNodes :
             /\ (GetShard(ring, k))' = s
             /\ \A t \in shards', j \in 1 .. VNodes :
                   (hash'.vnode[s, i] - hash'.key[k]) % Circle
                     <= (hash'.vnode[t, j] - hash'.key[k]) % Circle
    BY Zenon DEF GetShardIsSuccessor
  <2> QED
    BY <2>1, <2>2, ZenonT(60)
<1>5. CASE shards = {} /\ shards' = {}
  BY <1>5, Zenon DEF GetShard
<1>6. CASE shards = {} /\ shards' # {}
  BY <1>4, <1>6, Zenon
<1>7. CASE shards # {} /\ shards' = {}
  BY <1>3, <1>7, Zenon
<1>8. CASE shards # {} /\ shards' # {}
  <2>1. PICK s \in shards, i \in 1 .. VNodes :
          old = s /\ \A t \in shards, j \in 1 .. VNodes : Ahead(s, i) <= Ahead(t, j)
    BY <1>3, <1>8, Zenon
  <2>2. PICK t \in shards', j \in 1 .. VNodes :
          new = t /\ \A u \in shards', l \in 1 .. VNodes : Ahead(t, j) <= Ahead(u, l)
    BY <1>4, <1>8, Zenon
  <2>3. CASE s \in shards' /\ t \in shards
    <3> DEFINE a == hash.vnode[s, i]  b == hash.vnode[t, j]  h == hash.key[k]
    <3>1. (a - h) % Circle <= (b - h) % Circle /\ (b - h) % Circle <= (a - h) % Circle
      BY <2>1, <2>2, <2>3, ZenonT(60)
    <3>2. /\ <<s, i>> \in ShardID \X (1 .. VNodes) /\ <<t, j>> \in ShardID \X (1 .. VNodes)
      BY <1>1
    <3>3. a \in 0 .. Circle - 1 /\ b \in 0 .. Circle - 1 /\ h \in 0 .. Circle - 1
      BY <1>2, <3>2, ZenonT(60)
    <3> HIDE DEF a, b, h
    <3>4. a = b
      BY <3>1, <3>3, AheadInjective
    <3>5. <<s, i>> = <<t, j>>
      BY <1>2, <3>2, <3>4, ZenonT(60) DEF a, b
    <3>6. s = t
      BY <3>5
    <3> QED
      BY <2>1, <2>2, <3>6, Zenon
  <2>4. CASE s \notin shards' \/ t \notin shards
    BY <2>1, <2>2, <2>4, ZenonT(60)
  <2> QED
    BY <2>3, <2>4, Zenon
<1> QED
  BY <1>5, <1>6, <1>7, <1>8, Zenon

-----------------------------------------------------------------------------
(* The ring of a running server.                                           *)

\* A server that has been started keeps the ring of its shards.
ServerRing == RingInv /\ (serving => shards = Shard)

\* The ring is right after every step, and the hash function stays.
LEMMA RingStep ==
    ASSUME ServerRing, [Next]_vars
    PROVE  ServerRing' /\ hash' = hash
<1>1. RingInv /\ hash \in Placements /\ shards \subseteq ShardID
  BY DEF ServerRing, RingInv
<1>2. ASSUME shards' \subseteq ShardID, hash' = hash, IsRing(ring', shards'),
             serving' => shards' = Shard
      PROVE  ServerRing' /\ hash' = hash
  <2>1. (IsRing(ring, shards))'
    <3>1. /\ ring' \in Seq(VirtualNode)
          /\ \A i, j \in 1 .. Len(ring') : i < j => ring'[i].hash < ring'[j].hash
      BY <1>2, Zenon DEF IsRing
    <3>2. ASSUME NEW s, NEW v PROVE [hash |-> hash'.vnode[s, v], shard |-> s] = VNode(s, v)
      BY <1>2, Zenon DEF VNode
    <3>3. Lists(ring', 1 .. Len(ring'), shards')
      BY <1>2, Zenon DEF IsRing
    <3>4. ASSUME NEW p \in 1 .. Len(ring')
          PROVE  \E s \in shards', v \in 1 .. VNodes :
                    ring'[p] = [hash |-> hash'.vnode[s, v], shard |-> s]
      <4>1. PICK s \in shards', v \in 1 .. VNodes : ring'[p] = VNode(s, v)
        BY <3>3, <3>4, Zenon DEF Lists
      <4> QED
        BY <3>2, <4>1, Zenon
    <3>5. ASSUME NEW s \in shards', NEW v \in 1 .. VNodes
          PROVE  \E p \in 1 .. Len(ring') :
                    ring'[p] = [hash |-> hash'.vnode[s, v], shard |-> s]
      <4>1. PICK p \in 1 .. Len(ring') : ring'[p] = VNode(s, v)
        BY <3>3, <3>5, Zenon DEF Lists
      <4> QED
        BY <3>2, <4>1, Zenon
    <3>6. (Lists(ring, 1 .. Len(ring), shards))'
      BY <3>4, <3>5, Zenon DEF Lists, VNode
    <3> QED
      BY <3>1, <3>6, Zenon DEF IsRing, VirtualNode
  <2> QED
    BY <1>1, <1>2, <2>1 DEF ServerRing, RingInv
<1>3. ASSUME UNCHANGED <<ringVars, serving>> PROVE ServerRing' /\ hash' = hash
  <2>1. shards' = shards /\ ring' = ring /\ hash' = hash /\ serving' = serving
    BY <1>3, Zenon DEF ringVars
  <2>2. IsRing(ring', shards) /\ (serving' => shards = Shard) /\ shards \in SUBSET ShardID
    BY <1>1, <2>1 DEF ServerRing, RingInv
  <2> QED
    BY <1>2, <2>1, <2>2
<1>4. CASE Start
  <2>1. Shard \in SUBSET ShardID /\ IsRing(NewHashRing(Shard), Shard)
    BY <1>1, ShardingConstants, NewRing
  <2>2. shards' = Shard /\ hash' = hash /\ ring' = NewHashRing(Shard)
    BY <1>4, Zenon DEF Start
  <2> QED
    BY <1>2, <2>1, <2>2
<1>5. ASSUME NEW s \in ShardID, ChangeRing(s) PROVE ServerRing' /\ hash' = hash
  <2>1. ~serving /\ serving' = serving /\ (AddShard(s) \/ RemoveShard(s))
    BY <1>5, Zenon DEF ChangeRing
  <2>2. CASE AddShard(s)
    <3>1. /\ s \notin shards /\ shards' = shards \union {s} /\ hash' = hash
          /\ ring' = Sorted(WithShard(ring, s))
      BY <2>2, Zenon DEF AddShard
    <3>2. shards \union {s} \in SUBSET ShardID
      BY <1>1
    <3> QED
      BY <1>1, <1>2, <2>1, <3>1, <3>2, AddedRing
  <2>3. CASE RemoveShard(s)
    <3> DEFINE kept == {p \in DOMAIN ring : ring[p].shard # s}
    <3>1. /\ shards' = shards \ {s} /\ hash' = hash
          /\ ring' = InOrder(ring, kept, [p \in kept |-> p])
      BY <2>3 DEF RemoveShard
    <3>2. shards \ {s} \in SUBSET ShardID
      BY <1>1
    <3>3. IsRing(InOrder(ring, kept, [p \in kept |-> p]), shards \ {s})
      BY <1>1, RemovedRing, Zenon
    <3> HIDE DEF kept
    <3> QED
      BY <1>2, <2>1, <3>1, <3>2, <3>3, SMTT(30)
  <2> QED
    BY <2>1, <2>2, <2>3
<1>6. ASSUME NEW i \in ShardRaft,
             ChangeLeader(i) \/ TrackLookup(i) \/ TrackRead(i) \/ TrackLock(i) \/ TrackWrite(i)
      PROVE  UNCHANGED <<ringVars, serving>>
  BY <1>6, Zenon
     DEF ChangeLeader, TrackLookup, TrackRead, TrackLock, TrackWrite, SetTracker
<1>7. ASSUME NEW s, AdminLock(s) \/ StopShard \/ StartShard \/ WalkBegin \/ WalkStep
      PROVE  UNCHANGED <<ringVars, serving>>
  BY <1>7, Zenon
     DEF AdminLock, StopShard, StartShard, SetAdmin, WalkBegin, WalkStep, WalkStatus,
         WalkEnd, WalkPublish, SetWalk
<1>8. ASSUME NEW c \in Client,
             \/ \E k \in Key : Route(c, k)
             \/ RouteLookup(c) \/ RoutePropose(c) \/ RouteRefresh(c)
      PROVE  UNCHANGED <<ringVars, serving>>
  BY <1>8, Zenon DEF Route, RouteLookup, RoutePropose, RouteRefresh, SetRoute
<1>9. CASE UNCHANGED vars
  BY <1>3, <1>9, Zenon DEF vars
<1> QED
  BY <1>3, <1>4, <1>5, <1>6, <1>7, <1>8, <1>9, Zenon DEF Next

\* The ring is right initially.
LEMMA RingAtFirst ==
    ASSUME Init
    PROVE  ServerRing
<1>1. hash \in Placements /\ shards \in SUBSET ShardID /\ ring = NewHashRing(shards) /\ ~serving
  BY DEF Init, RingInit
<1>2. IsRing(ring, shards)
  BY <1>1, NewRing
<1> QED
  BY <1>1, <1>2 DEF ServerRing, RingInv

\* The ring is always right.
LEMMA RingIsRing == Spec => []ServerRing
<1>1. Init => ServerRing
  BY RingAtFirst
<1>2. ServerRing /\ [Next]_vars => ServerRing'
  BY RingStep
<1> QED
  BY <1>1, <1>2, PTL DEF Spec

\* Whatever shards there are, and however many virtual nodes they have, GetShard
\* answers with the shard that owns the first virtual node clockwise from the
\* key, after any AddShards and RemoveShards and on a started server.
THEOREM RingFindsSuccessor == Spec => []GetShardIsSuccessor
<1>1. ServerRing => GetShardIsSuccessor
  BY Successor DEF ServerRing
<1> QED
  BY <1>1, RingIsRing, PTL

\* Adding or removing a shard moves a key only to the shard that came or from
\* the one that went, for any hash function that tells the virtual nodes apart.
THEOREM RingMovesLittle == Spec => MinimalMovement
<1> DEFINE Moves ==
      \A k \in Key : GetShard(ring', k) # GetShard(ring, k) =>
          \/ GetShard(ring', k) \in shards' \ shards
          \/ GetShard(ring, k) \in shards \ shards'
           Good == ServerRing /\ GetShardIsSuccessor /\ (shards = {} => ring = << >>)
<1>1. ServerRing => Good
  BY Successor, EmptyRing DEF ServerRing
<1>2. ASSUME Good, Good', [Next]_vars PROVE [Moves]_ringVars
  <2>1. RingInv /\ hash' = hash /\ shards' \subseteq ShardID
    BY <1>2, RingStep DEF ServerRing, RingInv
  <2>2. /\ GetShardIsSuccessor /\ GetShardIsSuccessor'
        /\ (shards = {} => ring = << >>) /\ (shards' = {} => ring' = << >>)
    BY <1>2, Zenon
  <2>3. Moves
    BY <2>1, <2>2, Movement
  <2> QED
    BY <2>3
<1> HIDE DEF Good
<1> QED
  BY <1>1, <1>2, RingIsRing, PTL DEF Spec, MinimalMovement

-----------------------------------------------------------------------------
(* The manager, the goroutines that track leaders, and the calls of Route. *)

\* A goroutine that found a ShardRaft goes on with one, what it has read of its
\* leadership was true, and the goroutines of ShardRafts to come do not run yet.
TrackersInv ==
    \A i \in ShardRaft :
        /\ tracker[i].pc \in {"read", "lock", "write"} => tracker[i].ref \in ShardRaft
        /\ tracker[i].isLeader => tracker[i].pc \in {"lock", "write"} /\ tracker[i].ref \in led
        /\ i[2] > started[i[1]] => tracker[i].pc = "none"

AdminInv ==
    /\ admin.pc = "start" => started[admin.shard] < MaxStarts
    /\ ~serving => admin.pc = "idle" /\ \A s \in Shard : started[s] = 0

\* The walk holds the lock for reading: the shards it has yet to visit are there.
LeadersInv ==
    /\ leads \subseteq led
    /\ LeadersHaveLed
    /\ walk.seen \subseteq {i[1] : i \in led}
    /\ walk.pc = "walk" => \A s \in walk.left : Current(s) # {}

\* An attempt is one of MaxRetries, and proposes to a ShardRaft of the key's shard.
RoutesInv ==
    \A c \in Client :
        /\ route[c].pc \notin {"done", "failed"} => route[c].attempt < MaxRetries
        /\ route[c].pc = "propose" => /\ route[c].ref \in ShardRaft
                                      /\ route[c].ref[1] = route[c].shard

ServerInv ==
    TypeOK /\ ServerRing /\ TrackersInv /\ AdminInv /\ LeadersInv /\ RoutesInv /\ ProposedOnce

\* The types of the constants that name a ShardRaft.
LEMMA RaftFacts ==
    /\ \A i \in ShardRaft : i[1] \in Shard /\ i[2] \in 1 .. MaxStarts /\ i = <<i[1], i[2]>>
    /\ \A s \in Shard, g \in 1 .. MaxStarts : <<s, g>> \in ShardRaft
    /\ Shard \subseteq Nat /\ 0 \in Shard /\ MaxStarts \in Nat /\ 1 \in 1 .. MaxStarts
    /\ None \notin ShardRaft
  BY ShardingConstants DEF ShardRaft, Shard, None

\* ServerInv holds initially.
LEMMA ServerInvInit == Init => ServerInv
<1> SUFFICES ASSUME Init PROVE ServerInv
  OBVIOUS
<1>1. ServerRing
  BY RingAtFirst
<1>2. shards \subseteq ShardID /\ ring \in Seq(VirtualNode) /\ hash \in HashFunction
  BY <1>1, RingConstants DEF ServerRing, RingInv, IsRing
<1>a. /\ serving = FALSE /\ writer = FALSE /\ changes = 0
      /\ started = [s \in Shard |-> 0]
      /\ current = {} /\ known = {} /\ leads = {} /\ led = {} /\ shardLeaders = {}
      /\ admin = [pc |-> "idle", shard |-> 0]
      /\ walk = [pc |-> "none", left |-> {}, seen |-> {}]
  BY Zenon DEF Init
<1>3. /\ serving \in BOOLEAN /\ writer \in BOOLEAN /\ changes \in 0 .. MaxChanges
      /\ started \in [Shard -> 0 .. MaxStarts]
      /\ current \subseteq ShardRaft /\ known \subseteq ShardRaft
      /\ leads \subseteq ShardRaft /\ led \subseteq ShardRaft
      /\ shardLeaders \subseteq Shard
      /\ admin \in [pc : {"idle", "stop", "start"}, shard : Shard]
      /\ walk \in [pc : {"none", "tick", "walk", "publish"}, left : SUBSET Shard, seen : SUBSET Shard]
  <2>1. started \in [Shard -> 0 .. MaxStarts] /\ changes \in 0 .. MaxChanges
    BY <1>a, ShardingConstants
  <2>2. admin \in [pc : {"idle", "stop", "start"}, shard : Shard]
    BY <1>a, RaftFacts
  <2>3. walk \in [pc : {"none", "tick", "walk", "publish"}, left : SUBSET Shard, seen : SUBSET Shard]
    BY <1>a
  <2> QED
    BY <1>a, <2>1, <2>2, <2>3, ZenonT(60)
<1>4. tracker \in [ShardRaft -> [pc : {"none", "tick", "read", "lock", "write"},
                                 ref : ShardRaft \union {None}, isLeader : BOOLEAN]]
  BY DEF Init
<1>5. route \in [Client -> [pc : {"idle", "lookup", "propose", "refresh", "done", "failed"},
                            shard : Shard, attempt : 0 .. MaxRetries,
                            ref : ShardRaft \union {None}]]
  BY RaftFacts, ShardingConstants DEF Init
<1>6. log \in [ShardRaft -> Seq(Client)] /\ \A i \in ShardRaft : log[i] = << >>
  BY DEF Init
<1>7. TrackersInv /\ AdminInv /\ LeadersInv
  BY RaftFacts DEF Init, TrackersInv, AdminInv, LeadersInv, LeadersHaveLed
<1>8. RoutesInv /\ ProposedOnce
  BY <1>6, ShardingConstants DEF Init, RoutesInv, ProposedOnce
<1> QED
  BY <1>1, <1>2, <1>3, <1>4, <1>5, <1>6, <1>7, <1>8 DEF ServerInv, TypeOK

Tracks(i) == TrackLookup(i) \/ TrackRead(i) \/ TrackLock(i) \/ TrackWrite(i)

Routes(c) == (\E k \in Key : Route(c, k)) \/ RouteLookup(c) \/ RoutePropose(c) \/ RouteRefresh(c)

\* Which actions change which variable.
LEMMA Frames ==
    ASSUME [Next]_vars
    PROVE  /\ Start \/ UNCHANGED serving
           /\ Start \/ StartShard \/ UNCHANGED started
           /\ Start \/ StopShard \/ StartShard \/ UNCHANGED current
           /\ (\E i \in ShardRaft : ChangeLeader(i)) \/ UNCHANGED raftVars
           /\ (\E i \in ShardRaft : TrackWrite(i)) \/ UNCHANGED known
           /\ WalkPublish \/ (\E c \in Client : RouteRefresh(c)) \/ UNCHANGED shardLeaders
           /\ Start \/ StartShard \/ (\E i \in ShardRaft : Tracks(i)) \/ UNCHANGED tracker
           /\ (\E s \in Unsteady : AdminLock(s)) \/ StopShard \/ StartShard \/ UNCHANGED admin
           /\ Start \/ WalkBegin \/ WalkStep \/ UNCHANGED walk
           /\ (\E c \in Client : Routes(c)) \/ UNCHANGED route
           /\ (\E c \in Client : RoutePropose(c)) \/ UNCHANGED log
           /\ writer' \in BOOLEAN \/ UNCHANGED writer
<1>1. ASSUME NEW i \in ShardRaft, ChangeLeader(i)
      PROVE  UNCHANGED <<serving, mgrVars, shardLeaders, walk, route, log>>
  BY <1>1, Zenon DEF ChangeLeader
<1>2. ASSUME NEW i \in ShardRaft, TrackLookup(i) \/ TrackRead(i)
      PROVE  UNCHANGED <<serving, raftVars, started, current, known, admin, writer,
                         shardLeaders, walk, route, log>>
  BY <1>2, Zenon DEF TrackLookup, TrackRead, SetTracker
<1>3. ASSUME NEW i \in ShardRaft, TrackLock(i)
      PROVE  /\ UNCHANGED <<serving, raftVars, started, current, known, admin,
                            shardLeaders, walk, route, log>>
             /\ writer' = TRUE
  BY <1>3, Zenon DEF TrackLock, SetTracker, Announce
<1>4. ASSUME NEW i \in ShardRaft, TrackWrite(i)
      PROVE  /\ UNCHANGED <<serving, raftVars, started, current, admin,
                            shardLeaders, walk, route, log>>
             /\ writer' = FALSE
  BY <1>4, Zenon DEF TrackWrite, SetTracker
<1>5. ASSUME NEW s \in Unsteady, AdminLock(s)
      PROVE  /\ UNCHANGED <<serving, raftVars, started, current, known, tracker,
                            shardLeaders, walk, route, log>>
             /\ writer' = TRUE
  BY <1>5, Zenon DEF AdminLock, SetAdmin, Announce
<1>6. ASSUME StopShard
      PROVE  /\ UNCHANGED <<serving, raftVars, started, known, tracker,
                            shardLeaders, walk, route, log>>
             /\ writer' = FALSE
  BY <1>6, Zenon DEF StopShard, SetAdmin
<1>7. ASSUME StartShard
      PROVE  /\ UNCHANGED <<serving, raftVars, known, shardLeaders, walk, route, log>>
             /\ writer' = FALSE
  BY <1>7, Zenon DEF StartShard, SetAdmin
<1>8. ASSUME WalkBegin \/ WalkStep
      PROVE  /\ UNCHANGED <<serving, raftVars, mgrVars, route, log>>
             /\ WalkPublish \/ UNCHANGED shardLeaders
  BY <1>8, Zenon DEF WalkBegin, WalkStep, WalkStatus, WalkEnd, WalkPublish, SetWalk
<1>9. ASSUME NEW c \in Client, Routes(c)
      PROVE  /\ UNCHANGED <<serving, raftVars, mgrVars, walk>>
             /\ RouteRefresh(c) \/ UNCHANGED shardLeaders
             /\ RoutePropose(c) \/ UNCHANGED log
  BY <1>9, Zenon DEF Routes, Route, RouteLookup, RoutePropose, RouteRefresh, SetRoute
<1>10. ASSUME Start
       PROVE  UNCHANGED <<raftVars, known, admin, writer, shardLeaders, route, log>>
  BY <1>10, Zenon DEF Start
<1>11. ASSUME NEW s \in ShardID, ChangeRing(s)
       PROVE  UNCHANGED <<serving, raftVars, mgrVars, shardLeaders, walk, route, log>>
  BY <1>11, Zenon DEF ChangeRing
<1>12. CASE UNCHANGED vars
  BY <1>12, Zenon DEF vars, mgrVars
<1>13. \/ Start \/ StopShard \/ StartShard \/ WalkBegin \/ WalkStep \/ UNCHANGED vars
       \/ \E s \in ShardID : ChangeRing(s)
       \/ \E i \in ShardRaft : ChangeLeader(i) \/ Tracks(i)
       \/ \E s \in Unsteady : AdminLock(s)
       \/ \E c \in Client : Routes(c)
  BY Zenon DEF Next, Tracks, Routes
<1>14. CASE \E i \in ShardRaft : ChangeLeader(i) \/ Tracks(i)
  <2>1. PICK i \in ShardRaft : ChangeLeader(i) \/ Tracks(i)
    BY <1>14
  <2>2. CASE ChangeLeader(i)
    BY <1>1, <2>2, Zenon DEF mgrVars
  <2>3. CASE TrackLookup(i) \/ TrackRead(i)
    BY <1>2, <2>3, ZenonT(60) DEF Tracks
  <2>4. CASE TrackLock(i)
    BY <1>3, <2>4, ZenonT(60) DEF Tracks
  <2>5. CASE TrackWrite(i)
    BY <1>4, <2>5, ZenonT(60) DEF Tracks
  <2> QED
    BY <2>1, <2>2, <2>3, <2>4, <2>5, ZenonT(60) DEF Tracks
<1>15. CASE \E c \in Client : Routes(c)
  BY <1>9, <1>15, ZenonT(60) DEF mgrVars
<1>16. CASE StopShard \/ StartShard \/ \E s \in Unsteady : AdminLock(s)
  BY <1>5, <1>6, <1>7, <1>16, ZenonT(60)
<1>17. CASE WalkBegin \/ WalkStep
  BY <1>8, <1>17, Zenon DEF mgrVars
<1>18. CASE Start \/ \E s \in ShardID : ChangeRing(s)
  BY <1>10, <1>11, <1>18, ZenonT(60) DEF mgrVars
<1> QED
  BY <1>12, <1>13, <1>14, <1>15, <1>16, <1>17, <1>18, Zenon

\* Every step keeps the manager's part of ServerInv.
LEMMA ManagerStep ==
    ASSUME ServerInv, [Next]_vars
    PROVE  /\ started' \in [Shard -> 0 .. MaxStarts]
           /\ current' \subseteq ShardRaft
           /\ admin' \in [pc : {"idle", "stop", "start"}, shard : Shard]
           /\ serving' \in BOOLEAN /\ writer' \in BOOLEAN
           /\ AdminInv'
<1>1. /\ started \in [Shard -> 0 .. MaxStarts] /\ current \subseteq ShardRaft
      /\ admin \in [pc : {"idle", "stop", "start"}, shard : Shard]
      /\ serving \in BOOLEAN /\ writer \in BOOLEAN
      /\ AdminInv
  BY DEF ServerInv, TypeOK
<1>2. writer' \in BOOLEAN
  BY <1>1, Frames, Zenon
<1>3. ASSUME Start
      PROVE  /\ started' = [s \in Shard |-> 1] /\ current' = Shard \X {1}
             /\ admin' = admin /\ serving' = TRUE /\ ~serving
  BY <1>3, Zenon DEF Start
<1>4. CASE Start
  <2>1. started' \in [Shard -> 0 .. MaxStarts] /\ current' \subseteq ShardRaft
    BY <1>3, <1>4, RaftFacts
  <2>2. admin.pc = "idle"
    BY <1>1, <1>3, <1>4, Zenon DEF AdminInv
  <2>3. AdminInv'
    BY <1>3, <1>4, <2>2 DEF AdminInv
  <2> QED
    BY <1>1, <1>2, <1>3, <1>4, <2>1, <2>3, Zenon
<1>5. CASE StartShard
  <2> DEFINE s == admin.shard
             i == <<s, started[s] + 1>>
  <2>1. /\ admin.pc = "start"
        /\ started' = [started EXCEPT ![s] = @ + 1]
        /\ current' = current \union {i}
        /\ admin' = [admin EXCEPT !.pc = "idle"]
        /\ serving' = serving
    BY <1>5, Zenon DEF StartShard, SetAdmin
  <2>2. s \in Shard /\ started[s] < MaxStarts /\ started[s] \in Nat /\ serving
    BY <1>1, <2>1 DEF AdminInv
  <2>3. started[s] + 1 \in 1 .. MaxStarts /\ i \in ShardRaft
    BY <2>2, RaftFacts
  <2>4. started' \in [Shard -> 0 .. MaxStarts] /\ current' \subseteq ShardRaft
    BY <1>1, <2>1, <2>2, <2>3
  <2>5. admin' \in [pc : {"idle", "stop", "start"}, shard : Shard] /\ admin'.pc = "idle"
    BY <1>1, <2>1
  <2>6. AdminInv'
    BY <2>1, <2>2, <2>5 DEF AdminInv
  <2> QED
    BY <1>1, <1>2, <2>1, <2>4, <2>5, <2>6
<1>6. CASE StopShard
  <2>1. /\ current' \subseteq current
        /\ admin' = [admin EXCEPT !.pc = "idle"]
        /\ serving' = serving /\ started' = started
    BY <1>6 DEF StopShard, SetAdmin
  <2>2. admin' \in [pc : {"idle", "stop", "start"}, shard : Shard] /\ admin'.pc = "idle"
    BY <1>1, <2>1
  <2>3. AdminInv'
    BY <1>1, <2>1, <2>2 DEF AdminInv
  <2> QED
    BY <1>1, <1>2, <2>1, <2>2, <2>3
<1>7. ASSUME NEW s \in Unsteady, AdminLock(s)
      PROVE  admin' \in [pc : {"idle", "stop", "start"}, shard : Shard] /\ AdminInv'
  <2>1. /\ serving
        /\ Current(s) # {} \/ started[s] < MaxStarts
        /\ admin' = [pc |-> IF Current(s) # {} THEN "stop" ELSE "start", shard |-> s]
        /\ serving' = serving /\ started' = started
    BY <1>7, Zenon DEF AdminLock, SetAdmin
  <2>2. s \in Shard
    BY ShardingConstants
  <2> HIDE DEF Current
  <2> QED
    BY <1>1, <2>1, <2>2 DEF AdminInv
<1>8. CASE ~Start /\ ~StartShard /\ ~StopShard
  <2>1. UNCHANGED <<serving, started, current>>
    BY <1>8, Frames, Zenon
  <2>2. CASE UNCHANGED admin
    BY <1>1, <1>2, <2>1, <2>2, Zenon DEF AdminInv
  <2>3. CASE \E s \in Unsteady : AdminLock(s)
    BY <1>1, <1>2, <1>7, <2>1, <2>3, Zenon
  <2> QED
    BY <1>8, <2>2, <2>3, Frames, Zenon
<1> QED
  BY <1>4, <1>5, <1>6, <1>8, Zenon

Goroutine == [pc : {"none", "tick", "read", "lock", "write"},
              ref : ShardRaft \union {None}, isLeader : BOOLEAN]

\* What TrackersInv says of one goroutine.
Sound(t, L) ==
    /\ t.pc \in {"read", "lock", "write"} => t.ref \in ShardRaft
    /\ t.isLeader => t.pc \in {"lock", "write"} /\ t.ref \in L

\* Every leader has led, and what has led stays so.
LEMMA LedGrows ==
    ASSUME ServerInv, [Next]_vars
    PROVE  /\ changes' \in 0 .. MaxChanges
           /\ leads' \subseteq led' /\ led \subseteq led' /\ led' \subseteq ShardRaft
<1>1. /\ changes \in 0 .. MaxChanges /\ led \subseteq ShardRaft
      /\ leads \subseteq led
  BY DEF ServerInv, TypeOK, LeadersInv
<1>2. CASE UNCHANGED raftVars
  BY <1>1, <1>2, Zenon DEF raftVars
<1>3. ASSUME NEW i \in ShardRaft, ChangeLeader(i)
      PROVE  /\ changes' \in 0 .. MaxChanges
             /\ leads' \subseteq led' /\ led \subseteq led' /\ led' \subseteq ShardRaft
  <2>1. /\ changes < MaxChanges /\ changes' = changes + 1
        /\ leads' \subseteq leads \union {i} /\ led' = led \union {i}
    BY <1>3 DEF ChangeLeader
  <2> QED
    BY <1>1, <2>1, ShardingConstants
<1> QED
  BY <1>2, <1>3, Frames, ZenonT(60)

\* A step of a goroutine leaves it sound, and does not start it.
LEMMA TrackerStep ==
    ASSUME ServerInv, NEW i \in ShardRaft, Tracks(i)
    PROVE  \E t \in Goroutine :
              /\ tracker' = [tracker EXCEPT ![i] = t]
              /\ Sound(t, led)
              /\ tracker[i].pc # "none"
<1>1. /\ tracker[i] \in Goroutine /\ current \subseteq ShardRaft
      /\ leads \subseteq led /\ led \subseteq ShardRaft
      /\ Sound(tracker[i], led)
  BY DEF ServerInv, TypeOK, LeadersInv, TrackersInv, Sound, Goroutine
<1>2. CASE TrackLookup(i)
  <2>1. CASE Current(i[1]) = {}
    <3>1. /\ tracker' = [tracker EXCEPT ![i] = [tracker[i] EXCEPT !.pc = "none"]]
          /\ tracker[i].pc = "tick"
      BY <1>2, <2>1, Zenon DEF TrackLookup, SetTracker
    <3> DEFINE t == [tracker[i] EXCEPT !.pc = "none"]
    <3>2. t \in Goroutine /\ Sound(t, led)
      BY <1>1, <3>1 DEF Sound, Goroutine
    <3> QED
      BY <3>1, <3>2, Zenon
  <2>2. CASE Current(i[1]) # {}
    <3>1. PICK j \in Current(i[1]) :
             tracker' = [tracker EXCEPT ![i] = [tracker[i] EXCEPT !.pc = "read", !.ref = j]]
      BY <1>2, <2>2, Zenon DEF TrackLookup, SetTracker
    <3>2. tracker[i].pc = "tick" /\ j \in ShardRaft
      BY <1>1, <1>2, Zenon DEF TrackLookup, Current
    <3> DEFINE t == [tracker[i] EXCEPT !.pc = "read", !.ref = j]
    <3>3. t \in Goroutine /\ Sound(t, led)
      BY <1>1, <3>2, Zenon DEF Sound, Goroutine
    <3> QED
      BY <3>1, <3>2, <3>3, ZenonT(60)
  <2> QED
    BY <2>1, <2>2
<1>3. CASE TrackRead(i)
  <2>1. tracker[i].pc = "read" /\ tracker[i].ref \in ShardRaft
    BY <1>1, <1>3 DEF TrackRead, Sound
  <2>2. CASE tracker[i].ref \notin current
    <3> DEFINE t == [pc |-> "none", ref |-> None, isLeader |-> FALSE]
    <3>1. tracker' = [tracker EXCEPT ![i] = t]
      BY <1>3, <2>2, Zenon DEF TrackRead, SetTracker
    <3>2. t \in Goroutine /\ Sound(t, led)
      BY DEF Sound, Goroutine
    <3> QED
      BY <2>1, <3>1, <3>2, Zenon
  <2>3. CASE tracker[i].ref \in current
    <3> DEFINE b == tracker[i].ref \in leads
               t == [tracker[i] EXCEPT !.pc = "lock", !.isLeader = b]
    <3>1. tracker' = [tracker EXCEPT ![i] = t]
      BY <1>3, <2>3, Zenon DEF TrackRead, SetTracker
    <3>2. b \in BOOLEAN /\ (b => tracker[i].ref \in led)
      BY <1>1
    <3> HIDE DEF b
    <3>3. t \in Goroutine /\ t.pc = "lock" /\ t.ref = tracker[i].ref /\ t.isLeader = b
      BY <1>1, <3>2, Zenon DEF Goroutine
    <3>4. Sound(t, led)
      BY <2>1, <3>2, <3>3, Zenon DEF Sound
    <3> QED
      BY <2>1, <3>1, <3>3, <3>4, ZenonT(60)
  <2> QED
    BY <2>2, <2>3
<1>4. CASE TrackLock(i)
  <2> DEFINE t == [tracker[i] EXCEPT !.pc = "write"]
  <2>1. tracker[i].pc = "lock" /\ tracker' = [tracker EXCEPT ![i] = t]
    BY <1>4, Zenon DEF TrackLock, SetTracker
  <2>2. t \in Goroutine /\ Sound(t, led)
    BY <1>1, <2>1 DEF Sound, Goroutine
  <2> QED
    BY <2>1, <2>2, Zenon
<1>5. CASE TrackWrite(i)
  <2> DEFINE t == [pc |-> "tick", ref |-> None, isLeader |-> FALSE]
  <2>1. tracker[i].pc = "write" /\ tracker' = [tracker EXCEPT ![i] = t]
    BY <1>5, Zenon DEF TrackWrite, SetTracker
  <2>2. t \in Goroutine /\ Sound(t, led)
    BY DEF Sound, Goroutine
  <2> QED
    BY <2>1, <2>2, Zenon
<1> QED
  BY <1>2, <1>3, <1>4, <1>5, Zenon DEF Tracks

\* Every step keeps the trackers' part of ServerInv.
LEMMA TrackersStep ==
    ASSUME ServerInv, [Next]_vars
    PROVE  tracker' \in [ShardRaft -> Goroutine] /\ TrackersInv'
<1>1. /\ tracker \in [ShardRaft -> Goroutine]
      /\ started \in [Shard -> 0 .. MaxStarts]
      /\ \A i \in ShardRaft : /\ Sound(tracker[i], led)
                              /\ i[2] > started[i[1]] => tracker[i].pc = "none"
  BY DEF ServerInv, TypeOK, TrackersInv, Sound, Goroutine
<1>2. led \subseteq led' /\ AdminInv
  BY LedGrows DEF ServerInv
<1>3. \A i \in ShardRaft : Sound(tracker[i], led')
  BY <1>1, <1>2 DEF Sound
<1>4. ASSUME tracker' \in [ShardRaft -> Goroutine],
             \A i \in ShardRaft : /\ Sound(tracker'[i], led')
                                  /\ i[2] > started'[i[1]] => tracker'[i].pc = "none"
      PROVE  tracker' \in [ShardRaft -> Goroutine] /\ TrackersInv'
  BY <1>4, Zenon DEF TrackersInv, Sound, ShardRaft, Shard
<1>5. \A t \in Goroutine : t.pc = "none" =>
         /\ [t EXCEPT !.pc = "tick"] \in Goroutine
         /\ \A L : Sound(t, L) => Sound([t EXCEPT !.pc = "tick"], L)
  BY DEF Sound, Goroutine
<1>6. CASE Start
  <2>1. /\ ~serving /\ started' = [s \in Shard |-> 1]
        /\ tracker' = [i \in ShardRaft |->
                          IF i[2] = 1 THEN [tracker[i] EXCEPT !.pc = "tick"] ELSE tracker[i]]
    BY <1>6, Zenon DEF Start
  <2>2. \A i \in ShardRaft : tracker[i].pc = "none"
    <3>1. \A s \in Shard : started[s] = 0
      BY <1>2, <2>1, Zenon DEF AdminInv
    <3> QED
      BY <1>1, <3>1, RaftFacts
  <2>3. \A i \in ShardRaft : /\ tracker'[i] \in Goroutine /\ Sound(tracker'[i], led')
                             /\ i[2] # 1 => tracker'[i].pc = "none"
    BY <1>1, <1>3, <1>5, <2>1, <2>2, ZenonT(60)
  <2>4. \A i \in ShardRaft : i[2] > started'[i[1]] => i[2] # 1
    BY <2>1, RaftFacts
  <2>5. tracker' \in [ShardRaft -> Goroutine]
    BY <2>1, <2>3
  <2> QED
    BY <1>4, <2>3, <2>4, <2>5, Zenon
<1>7. CASE StartShard
  <2> DEFINE s == admin.shard
             i == <<s, started[s] + 1>>
  <2>1. /\ admin.pc = "start"
        /\ started' = [started EXCEPT ![s] = @ + 1]
        /\ tracker' = [tracker EXCEPT ![i].pc = "tick"]
    BY <1>7, Zenon DEF StartShard
  <2>2. s \in Shard /\ started[s] < MaxStarts /\ started[s] \in Nat
    BY <1>1, <1>2, <2>1 DEF AdminInv, ServerInv, TypeOK
  <2>3. i \in ShardRaft /\ i[1] = s /\ i[2] = started[s] + 1
    BY <2>2, RaftFacts
  <2>4. tracker[i].pc = "none"
    BY <1>1, <2>2, <2>3
  <2> HIDE DEF i, s
  <2>5. /\ tracker'[i] = [tracker[i] EXCEPT !.pc = "tick"]
        /\ \A j \in ShardRaft : j # i => tracker'[j] = tracker[j]
        /\ tracker' = [tracker EXCEPT ![i] = [tracker[i] EXCEPT !.pc = "tick"]]
    BY <1>1, <2>1, <2>3, ZenonT(60)
  <2>6. \A j \in ShardRaft : tracker'[j] \in Goroutine /\ Sound(tracker'[j], led')
    BY <1>1, <1>3, <1>5, <2>3, <2>4, <2>5, ZenonT(60)
  <2>7. tracker' \in [ShardRaft -> Goroutine]
    BY <1>1, <2>3, <2>5, <2>6
  <2>8. \A j \in ShardRaft : j[2] > started'[j[1]] => j # i /\ j[2] > started[j[1]]
    BY <1>1, <2>1, <2>2, <2>3, RaftFacts
  <2>9. \A j \in ShardRaft : j[2] > started'[j[1]] => tracker'[j].pc = "none"
    BY <1>1, <2>5, <2>8, ZenonT(60)
  <2> QED
    BY <1>4, <2>6, <2>7, <2>9, ZenonT(60)
<1>8. ASSUME NEW i \in ShardRaft, Tracks(i), UNCHANGED started
      PROVE  tracker' \in [ShardRaft -> Goroutine] /\ TrackersInv'
  <2>1. PICK t \in Goroutine : /\ tracker' = [tracker EXCEPT ![i] = t]
                               /\ Sound(t, led) /\ tracker[i].pc # "none"
    BY <1>8, TrackerStep
  <2>2. tracker' \in [ShardRaft -> Goroutine]
    BY <1>1, <2>1
  <2>3. tracker'[i] = t /\ \A j \in ShardRaft : j # i => tracker'[j] = tracker[j]
    BY <1>1, <2>1, Zenon
  <2>4. Sound(t, led')
    BY <1>2, <2>1 DEF Sound
  <2>5. \A j \in ShardRaft : j[2] > started'[j[1]] => tracker'[j].pc = "none"
    BY <1>1, <1>8, <2>1, <2>3, ZenonT(60)
  <2> QED
    BY <1>3, <1>4, <2>2, <2>3, <2>4, <2>5, ZenonT(60)
<1>9. CASE ~Start /\ ~StartShard
  <2>1. UNCHANGED started
    BY <1>9, Frames, Zenon
  <2>2. CASE UNCHANGED tracker
    BY <1>1, <1>3, <1>4, <2>1, <2>2, Zenon
  <2> QED
    BY <1>8, <1>9, <2>1, <2>2, Frames, Zenon
<1> QED
  BY <1>6, <1>7, <1>9, ZenonT(60)

\* The shards a ShardRaft of which has led.
ShardsOf(L) == {i[1] : i \in L}

WalkSound(w, L, C) ==
    /\ w \in [pc : {"none", "tick", "walk", "publish"}, left : SUBSET Shard, seen : SUBSET Shard]
    /\ w.seen \subseteq ShardsOf(L)
    /\ w.pc = "walk" => w.left \subseteq ShardsOf(C)

\* Known leaders have led.
LEMMA KnownLed ==
    ASSUME ServerInv, [Next]_vars
    PROVE  known' \subseteq led'
<1>1. known \subseteq led /\ led \subseteq led'
  BY LedGrows DEF ServerInv, LeadersInv, LeadersHaveLed
<1>2. ASSUME NEW i \in ShardRaft, TrackWrite(i) PROVE known' \subseteq led'
  <2>1. tracker[i].isLeader => tracker[i].ref \in led
    BY DEF ServerInv, TrackersInv
  <2>2. known' = IF tracker[i].isLeader THEN known \union {tracker[i].ref} ELSE known
    BY <1>2, Zenon DEF TrackWrite
  <2>3. CASE tracker[i].isLeader
    BY <1>1, <2>1, <2>2, <2>3
  <2>4. CASE ~tracker[i].isLeader
    BY <1>1, <2>2, <2>4
  <2> QED
    BY <2>3, <2>4
<1> QED
  BY <1>1, <1>2, Frames, Zenon

\* The walk over the shards refers to shards that are there.
LEMMA WalkSoundStep ==
    ASSUME ServerInv, [Next]_vars
    PROVE  WalkSound(walk', led', current')
<1>1. /\ walk \in [pc : {"none", "tick", "walk", "publish"}, left : SUBSET Shard, seen : SUBSET Shard]
      /\ walk.seen \subseteq ShardsOf(led) /\ current \subseteq ShardRaft /\ known \subseteq led
      /\ walk.pc = "walk" => \A s \in walk.left : Current(s) # {}
  BY DEF ServerInv, TypeOK, LeadersInv, LeadersHaveLed, ShardsOf
<1>2. led \subseteq led' /\ ShardsOf(led) \subseteq ShardsOf(led') /\ ShardsOf(current) \subseteq Shard
  BY <1>1, LedGrows, RaftFacts DEF ShardsOf
<1>3. walk.pc = "walk" => walk.left \subseteq ShardsOf(current)
  BY <1>1 DEF Current, ShardsOf
<1>4. WalkSound(walk, led', current)
  BY <1>1, <1>2, <1>3 DEF WalkSound
<1>5. CASE Start
  <2>1. walk' = [walk EXCEPT !.pc = "tick"]
    BY <1>5, Zenon DEF Start
  <2> QED
    BY <1>1, <1>2, <2>1 DEF WalkSound
<1>6. CASE StopShard \/ StartShard
  <2>1. walk' = walk /\ walk.pc # "walk"
    BY <1>6, Zenon DEF StopShard, StartShard, SetAdmin, Reading
  <2> QED
    BY <1>4, <2>1 DEF WalkSound
<1>7. CASE WalkBegin
  <2>1. walk' = [pc |-> "walk", left |-> ShardsOf(current), seen |-> {}] /\ current' = current
    BY <1>7, Zenon DEF WalkBegin, SetWalk, ShardsOf, mgrVars
  <2> QED
    BY <1>2, <2>1 DEF WalkSound
<1>8. ASSUME NEW s \in Shard, WalkStatus(s) PROVE WalkSound(walk', led', current')
  <2> DEFINE seen == IF Current(s) \subseteq known THEN walk.seen \union {s} ELSE walk.seen
  <2>1. /\ walk.pc = "walk" /\ s \in walk.left /\ current' = current
        /\ walk' = [walk EXCEPT !.left = walk.left \ {s}, !.seen = seen]
    BY <1>8, Zenon DEF WalkStatus, SetWalk, mgrVars
  <2>2. Current(s) \subseteq known => s \in ShardsOf(led)
    BY <1>1, <2>1 DEF Current, ShardsOf
  <2>3. seen \subseteq ShardsOf(led') /\ seen \subseteq Shard
    BY <1>1, <1>2, <2>2
  <2> HIDE DEF seen
  <2>4. /\ walk' \in [pc : {"none", "tick", "walk", "publish"}, left : SUBSET Shard,
                      seen : SUBSET Shard]
        /\ walk'.seen = seen /\ walk'.left \subseteq walk.left
    BY <1>1, <2>1, <2>3, Zenon
  <2> QED
    BY <1>3, <2>1, <2>3, <2>4 DEF WalkSound
<1>9. CASE WalkEnd
  <2>1. walk' = [walk EXCEPT !.pc = "publish"]
    BY <1>9, Zenon DEF WalkEnd, SetWalk
  <2> QED
    BY <1>1, <1>2, <2>1 DEF WalkSound
<1>10. CASE WalkPublish
  <2>1. walk' = [pc |-> "tick", left |-> {}, seen |-> {}]
    BY <1>10, Zenon DEF WalkPublish, SetWalk
  <2> QED
    BY <2>1 DEF WalkSound
<1>11. CASE UNCHANGED <<walk, current>>
  BY <1>4, <1>11, Zenon
<1>12. \/ Start \/ StopShard \/ StartShard \/ WalkBegin \/ WalkEnd \/ WalkPublish
       \/ (\E s \in Shard : WalkStatus(s)) \/ UNCHANGED <<walk, current>>
  BY Frames, Zenon DEF WalkStep
<1> QED
  BY <1>5, <1>6, <1>7, <1>8, <1>9, <1>10, <1>11, <1>12, Zenon

\* Every step keeps the leaders' part of ServerInv.
LEMMA LeadersStep ==
    ASSUME ServerInv, [Next]_vars
    PROVE  /\ known' \subseteq ShardRaft /\ leads' \subseteq ShardRaft
           /\ shardLeaders' \subseteq Shard
           /\ LeadersInv'
<1>1. /\ known' \subseteq led' /\ leads' \subseteq led' /\ led \subseteq led' /\ led' \subseteq ShardRaft
      /\ WalkSound(walk', led', current') /\ ShardsOf(led) \subseteq ShardsOf(led')
  BY KnownLed, LedGrows, WalkSoundStep DEF ShardsOf
<1>2. /\ known \subseteq led /\ shardLeaders \subseteq ShardsOf(led) /\ walk.seen \subseteq ShardsOf(led)
  BY DEF ServerInv, LeadersInv, LeadersHaveLed, ShardsOf
<1>3. shardLeaders' \subseteq ShardsOf(led')
  <2>1. CASE UNCHANGED shardLeaders
    BY <1>1, <1>2, <2>1
  <2>2. CASE WalkPublish
    BY <1>1, <1>2, <2>2 DEF WalkPublish
  <2>3. ASSUME NEW c \in Client, RouteRefresh(c) PROVE shardLeaders' \subseteq ShardsOf(led')
    <3>1. \/ shardLeaders' = shardLeaders
          \/ /\ shardLeaders' = shardLeaders \union {route[c].shard}
             /\ \E i \in Current(route[c].shard) : i \in known
      BY <2>3, Zenon DEF RouteRefresh
    <3>2. (\E i \in Current(route[c].shard) : i \in known) => route[c].shard \in ShardsOf(led)
      BY <1>2 DEF Current, ShardsOf
    <3> QED
      BY <1>1, <1>2, <3>1, <3>2
  <2> QED
    BY <2>1, <2>2, <2>3, Frames, ZenonT(60)
<1>4. ShardsOf(led') \subseteq Shard
  BY <1>1, RaftFacts DEF ShardsOf
<1>5. walk'.pc = "walk" => \A s \in walk'.left : \E i \in current' : i[1] = s
  BY <1>1 DEF WalkSound, ShardsOf
<1>6. (walk.pc = "walk" => \A s \in walk.left : Current(s) # {})'
  BY <1>5 DEF Current
<1>7. LeadersInv'
  BY <1>1, <1>3, <1>6 DEF LeadersInv, LeadersHaveLed, WalkSound, ShardsOf
<1> QED
  BY <1>1, <1>3, <1>4, <1>7

Call == [pc : {"idle", "lookup", "propose", "refresh", "done", "failed"},
         shard : Shard, attempt : 0 .. MaxRetries, ref : ShardRaft \union {None}]

\* What RoutesInv says of one call.
Bounded(r) ==
    /\ r.pc \notin {"done", "failed"} => r.attempt < MaxRetries
    /\ r.pc = "propose" => r.ref \in ShardRaft /\ r.ref[1] = r.shard

\* A retry counts as an attempt.
LEMMA RetriedBounded ==
    ASSUME NEW r \in Call, r.attempt < MaxRetries
    PROVE  Retried(r) \in Call /\ Bounded(Retried(r)) /\ Retried(r).pc # "done"
<1>1. r.attempt \in Nat /\ MaxRetries \in Nat /\ r.attempt + 1 \in 0 .. MaxRetries
  BY ShardingConstants DEF Call
<1> DEFINE p == IF r.attempt + 1 < MaxRetries THEN "lookup" ELSE "failed"
<1>2. /\ p \in {"lookup", "failed"}
      /\ p = "lookup" => r.attempt + 1 < MaxRetries
  BY <1>1
<1>3. Retried(r) = [r EXCEPT !.pc = p, !.attempt = r.attempt + 1, !.ref = None]
  BY Zenon DEF Retried
<1> HIDE DEF p
<1>4. Retried(r) \in Call /\ Retried(r).pc = p /\ Retried(r).attempt = r.attempt + 1
  BY <1>1, <1>2, <1>3, Zenon DEF Call
<1> QED
  BY <1>2, <1>4 DEF Bounded

\* The shard of a key is one that the server serves.
LEMMA ServedShard ==
    ASSUME ServerRing, serving, NEW k \in Key
    PROVE  GetShard(ring, k) \in Shard
<1>1. GetShardIsSuccessor /\ shards = Shard /\ shards # {}
  BY Successor, RaftFacts DEF ServerRing
<1> QED
  BY <1>1, Zenon DEF GetShardIsSuccessor

\* What a step of Route does to its call and the logs.
LEMMA CallStep ==
    ASSUME ServerInv, NEW c \in Client, Routes(c)
    PROVE  \E r \in Call :
              /\ route' = [route EXCEPT ![c] = r] /\ Bounded(r)
              /\ route[c].pc # "done"
              /\ r.pc # "done" => UNCHANGED log
              /\ r.pc = "done" =>
                    /\ route[c].pc = "propose" /\ r.shard = route[c].shard
                    /\ log' = [log EXCEPT ![route[c].ref] = Append(log[route[c].ref], c)]
<1>1. /\ route[c] \in Call /\ Bounded(route[c]) /\ current \subseteq ShardRaft /\ ServerRing
  BY DEF ServerInv, TypeOK, RoutesInv, Bounded, Call
<1>2. ASSUME NEW k \in Key, Route(c, k)
      PROVE  \E r \in Call : /\ route' = [route EXCEPT ![c] = r] /\ Bounded(r)
                             /\ route[c].pc # "done" /\ r.pc # "done" /\ UNCHANGED log
  <2> DEFINE s == GetShard(ring, k)
             r == [route[c] EXCEPT !.pc = "lookup", !.shard = s]
  <2>1. serving /\ route[c].pc = "idle" /\ route' = [route EXCEPT ![c] = r] /\ UNCHANGED log
    BY <1>2, Zenon DEF Route, SetRoute
  <2>2. s \in Shard
    BY <1>1, <2>1, ServedShard
  <2> HIDE DEF s
  <2>3. r \in Call /\ r.pc = "lookup"
    BY <1>1, <2>2, Zenon DEF Call
  <2>4. Bounded(r)
    BY <1>1, <2>1, <2>3 DEF Bounded, Call
  <2> QED
    BY <2>1, <2>3, <2>4, Zenon
<1>3. CASE RouteLookup(c)
  <2>1. route[c].pc = "lookup" /\ UNCHANGED log
    BY <1>3, Zenon DEF RouteLookup
  <2>2. CASE Current(route[c].shard) = {}
    <3>1. route' = [route EXCEPT ![c] = Retried(route[c])]
      BY <1>3, <2>2, ZenonT(60) DEF RouteLookup, SetRoute
    <3>2. Retried(route[c]) \in Call /\ Bounded(Retried(route[c])) /\ Retried(route[c]).pc # "done"
      BY <1>1, <2>1, RetriedBounded DEF Bounded
    <3> QED
      BY <2>1, <3>1, <3>2, ZenonT(60)
  <2>3. CASE Current(route[c].shard) # {}
    <3>1. PICK i \in Current(route[c].shard) :
             route' = [route EXCEPT ![c] = [route[c] EXCEPT !.pc = "propose", !.ref = i]]
      BY <1>3, <2>3, ZenonT(60) DEF RouteLookup, SetRoute
    <3> DEFINE r == [route[c] EXCEPT !.pc = "propose", !.ref = i]
    <3>2. i \in ShardRaft /\ i[1] = route[c].shard
      BY <1>1 DEF Current
    <3>3. /\ r \in Call /\ r.pc = "propose" /\ r.ref = i
          /\ r.shard = route[c].shard /\ r.attempt = route[c].attempt
      BY <1>1, <3>2, Zenon DEF Call
    <3>4. Bounded(r)
      BY <1>1, <2>1, <3>2, <3>3 DEF Bounded
    <3> QED
      BY <2>1, <3>1, <3>3, <3>4, Zenon
  <2> QED
    BY <2>2, <2>3
<1>4. CASE RoutePropose(c)
  <2>1. route[c].pc = "propose"
    BY <1>4, Zenon DEF RoutePropose
  <2>2. CASE route[c].ref \in leads
    <3> DEFINE r == [route[c] EXCEPT !.pc = "done"]
    <3>1. /\ route' = [route EXCEPT ![c] = r]
          /\ log' = [log EXCEPT ![route[c].ref] = Append(log[route[c].ref], c)]
      BY <1>4, <2>2, Zenon DEF RoutePropose, SetRoute
    <3>2. r \in Call /\ r.pc = "done" /\ r.shard = route[c].shard
      BY <1>1 DEF Call
    <3>3. Bounded(r)
      BY <3>2 DEF Bounded
    <3> QED
      BY <2>1, <3>1, <3>2, <3>3, ZenonT(60)
  <2>3. CASE route[c].ref \notin leads
    <3> DEFINE r == [route[c] EXCEPT !.pc = "refresh"]
    <3>1. route' = [route EXCEPT ![c] = r] /\ UNCHANGED log
      BY <1>4, <2>3, Zenon DEF RoutePropose, SetRoute
    <3>2. r \in Call /\ r.pc = "refresh" /\ r.attempt = route[c].attempt
      BY <1>1 DEF Call
    <3>3. Bounded(r)
      BY <1>1, <2>1, <3>2 DEF Bounded
    <3> QED
      BY <2>1, <3>1, <3>2, <3>3, ZenonT(60)
  <2> QED
    BY <2>2, <2>3
<1>5. CASE RouteRefresh(c)
  <2>1. /\ route[c].pc = "refresh" /\ UNCHANGED log
        /\ route' = [route EXCEPT ![c] = Retried(route[c])]
    BY <1>5, Zenon DEF RouteRefresh, SetRoute
  <2>2. Retried(route[c]) \in Call /\ Bounded(Retried(route[c])) /\ Retried(route[c]).pc # "done"
    BY <1>1, <2>1, RetriedBounded DEF Bounded
  <2> QED
    BY <2>1, <2>2, Zenon
<1> QED
  BY <1>2, <1>3, <1>4, <1>5, ZenonT(60) DEF Routes

\* What ProposedOnce says of one call: where the log lg has operations of c.
At(lg, i, n, c) == i \in ShardRaft /\ n \in DOMAIN lg[i] /\ lg[i][n] = c

Once(lg, r, c) ==
    /\ r.pc = "done" <=> \E i, n : At(lg, i, n, c)
    /\ \A i, n : At(lg, i, n, c) =>
          i[1] = r.shard /\ \A j, m : At(lg, j, m, c) => i = j /\ n = m

\* The property that a call proposes once, for one call.
LEMMA OnceEach ==
    ASSUME NEW lg, NEW r, NEW c
    PROVE  Once(lg, r, c) <=>
              /\ r.pc = "done" <=> \E i \in ShardRaft : \E n \in DOMAIN lg[i] : lg[i][n] = c
              /\ \A i \in ShardRaft : \A n \in DOMAIN lg[i] : lg[i][n] = c =>
                    /\ i[1] = r.shard
                    /\ \A j \in ShardRaft : \A m \in DOMAIN lg[j] :
                          lg[j][m] = c => i = j /\ n = m
<1>1. (\E i, n : At(lg, i, n, c)) <=> \E i \in ShardRaft : \E n \in DOMAIN lg[i] : lg[i][n] = c
  BY Zenon DEF At
<1>2. \A i, n : (\A j, m : At(lg, j, m, c) => i = j /\ n = m)
                 <=> \A j \in ShardRaft : \A m \in DOMAIN lg[j] : lg[j][m] = c => i = j /\ n = m
  BY Zenon DEF At
<1>3. (\A i, n : At(lg, i, n, c) =>
          i[1] = r.shard /\ \A j, m : At(lg, j, m, c) => i = j /\ n = m)
      <=> \A i \in ShardRaft : \A n \in DOMAIN lg[i] : lg[i][n] = c =>
             /\ i[1] = r.shard
             /\ \A j \in ShardRaft : \A m \in DOMAIN lg[j] : lg[j][m] = c => i = j /\ n = m
  BY ZenonT(60) DEF At
<1> QED
  BY <1>1, <1>3, Zenon DEF Once

\* Every step keeps the routes' part of ServerInv.
LEMMA RoutesStep ==
    ASSUME ServerInv, [Next]_vars
    PROVE  /\ route' \in [Client -> Call] /\ log' \in [ShardRaft -> Seq(Client)]
           /\ RoutesInv' /\ ProposedOnce'
<1>1. /\ route \in [Client -> Call] /\ log \in [ShardRaft -> Seq(Client)]
      /\ (\A c \in Client : Bounded(route[c])) /\ ProposedOnce
  BY DEF ServerInv, TypeOK, RoutesInv, Bounded, Call
<1>2. ASSUME \A c \in Client : Bounded(route'[c]) PROVE RoutesInv'
  BY <1>2, Zenon DEF RoutesInv, Bounded, ShardRaft, Shard
<1>a. \A c \in Client : Once(log, route[c], c)
  BY <1>1, OnceEach, Zenon DEF ProposedOnce
<1>b. ASSUME \A c \in Client : Once(log', route'[c], c) PROVE ProposedOnce'
  BY <1>b, OnceEach, Zenon DEF ProposedOnce, ShardRaft, Shard
<1>3. ASSUME UNCHANGED log,
             \A c \in Client : /\ route'[c].pc = "done" <=> route[c].pc = "done"
                               /\ route[c].pc = "done" => route'[c].shard = route[c].shard
      PROVE  ProposedOnce'
  <2>1. \A c \in Client : Once(log, route'[c], c)
    BY <1>3, <1>a, Zenon DEF Once
  <2> QED
    BY <1>3, <1>b, <2>1, Zenon
<1>4. ASSUME NEW c \in Client, route[c].pc = "propose", NEW r \in Call,
             route' = [route EXCEPT ![c] = r], r.pc = "done", r.shard = route[c].shard,
             log' = [log EXCEPT ![route[c].ref] = Append(log[route[c].ref], c)]
      PROVE  log' \in [ShardRaft -> Seq(Client)] /\ ProposedOnce'
  <2> DEFINE q == route[c].ref
             l == log[q]
             z == Len(l) + 1
  <2>1. q \in ShardRaft /\ q[1] = route[c].shard /\ l \in Seq(Client)
    BY <1>1, <1>4 DEF Bounded
  <2>2. log' \in [ShardRaft -> Seq(Client)]
    BY <1>1, <1>4, <2>1
  <2>3. /\ route'[c] = r /\ \A d \in Client : d # c => route'[d] = route[d]
        /\ log'[q] = Append(l, c) /\ \A i \in ShardRaft : i # q => log'[i] = log[i]
    BY <1>1, <1>4, <2>1, ZenonT(60)
  <2> HIDE DEF q
  <2>4. /\ DOMAIN l = 1 .. Len(l) /\ DOMAIN log'[q] = 1 .. z /\ Len(l) \in Nat
        /\ log'[q][z] = c /\ \A n \in 1 .. Len(l) : log'[q][n] = l[n]
    BY <2>1, <2>3
  <2>5. z \notin DOMAIN l /\ \A n : n \in DOMAIN log'[q] <=> n \in DOMAIN l \/ n = z
    BY <2>4
  <2>6. \A n \in DOMAIN l : log'[q][n] = l[n]
    BY <2>4
  <2> HIDE DEF z
  <2>7. \A n, d : At(log', q, n, d) <=> At(log, q, n, d) \/ (n = z /\ d = c)
    BY <2>1, <2>4, <2>5, <2>6, ZenonT(60) DEF At
  <2>8. \A i, n, d : i # q => (At(log', i, n, d) <=> At(log, i, n, d))
    BY <2>3, Zenon DEF At
  <2>9. ~\E i, n : At(log, i, n, c)
    BY <1>4, <1>a, Zenon DEF Once
  <2>10. Once(log', route'[c], c)
    <3>1. \A i, n : At(log', i, n, c) <=> i = q /\ n = z
      BY <2>7, <2>8, <2>9, Zenon
    <3>2. q[1] = r.shard
      BY <1>4, <2>1, Zenon
    <3>3. \E i, n : At(log', i, n, c)
      BY <3>1, Zenon
    <3>4. ASSUME NEW i, NEW n, At(log', i, n, c)
          PROVE  i[1] = r.shard /\ \A j, m : At(log', j, m, c) => i = j /\ n = m
      <4>1. i = q /\ n = z
        BY <3>1, <3>4, Zenon
      <4>2. \A j, m : At(log', j, m, c) => i = j /\ n = m
        BY <3>1, <4>1
      <4> QED
        BY <3>2, <4>1, <4>2
    <3>5. Once(log', r, c)
      BY <1>4, <3>3, <3>4, ZenonT(60) DEF Once
    <3> QED
      BY <2>3, <3>5, Zenon
  <2>11. ASSUME NEW d \in Client, d # c PROVE Once(log', route'[d], d)
    <3>1. \A i, n : At(log', i, n, d) <=> At(log, i, n, d)
      BY <2>7, <2>8, <2>11, ZenonT(60)
    <3>2. Once(log, route'[d], d)
      BY <1>a, <2>3, <2>11, ZenonT(60)
    <3> QED
      BY <3>1, <3>2 DEF Once
  <2>12. ProposedOnce'
    BY <1>b, <2>10, <2>11, ZenonT(60)
  <2> QED
    BY <2>2, <2>12
<1>5. ASSUME NEW c \in Client, Routes(c)
      PROVE  /\ route' \in [Client -> Call] /\ log' \in [ShardRaft -> Seq(Client)]
             /\ RoutesInv' /\ ProposedOnce'
  <2>1. PICK r \in Call :
           /\ route' = [route EXCEPT ![c] = r] /\ Bounded(r)
           /\ route[c].pc # "done"
           /\ r.pc # "done" => UNCHANGED log
           /\ r.pc = "done" =>
                 /\ route[c].pc = "propose" /\ r.shard = route[c].shard
                 /\ log' = [log EXCEPT ![route[c].ref] = Append(log[route[c].ref], c)]
    BY <1>5, CallStep, ZenonT(60)
  <2>2. route' \in [Client -> Call]
    BY <1>1, <2>1
  <2>3. route'[c] = r /\ \A d \in Client : d # c => route'[d] = route[d]
    BY <1>1, <2>1, ZenonT(60)
  <2>4. RoutesInv'
    BY <1>1, <1>2, <2>1, <2>3, Zenon
  <2>5. CASE r.pc = "done"
    BY <1>4, <2>1, <2>2, <2>4, <2>5, ZenonT(60)
  <2>6. CASE r.pc # "done"
    <3>1. ProposedOnce'
      BY <1>3, <2>1, <2>3, <2>6, Zenon
    <3> QED
      BY <1>1, <2>1, <2>2, <2>4, <2>6, <3>1, Zenon
  <2> QED
    BY <2>5, <2>6
<1>6. CASE UNCHANGED <<route, log>>
  BY <1>1, <1>2, <1>3, <1>6, Zenon
<1>7. (\E c \in Client : Routes(c)) \/ UNCHANGED <<route, log>>
  BY Frames, Zenon DEF Routes
<1> QED
  BY <1>5, <1>6, <1>7, Zenon

\* ServerInv is an invariant.
LEMMA ServerInvariant == Spec => []ServerInv
<1>1. Init => ServerInv
  BY ServerInvInit
<1>2. ASSUME ServerInv, [Next]_vars PROVE ServerInv'
  <2>1. ServerRing'
    BY <1>2, RingStep DEF ServerInv
  <2>2. shards' \subseteq ShardID /\ ring' \in Seq(VirtualNode) /\ hash' \in HashFunction
    BY <2>1, RingConstants DEF ServerRing, RingInv, IsRing
  <2>3. /\ started' \in [Shard -> 0 .. MaxStarts] /\ current' \subseteq ShardRaft
        /\ admin' \in [pc : {"idle", "stop", "start"}, shard : Shard]
        /\ serving' \in BOOLEAN /\ writer' \in BOOLEAN /\ AdminInv'
    BY <1>2, ManagerStep
  <2>4. tracker' \in [ShardRaft -> Goroutine] /\ TrackersInv'
    BY <1>2, TrackersStep
  <2>5. /\ changes' \in 0 .. MaxChanges /\ led' \subseteq ShardRaft
        /\ known' \subseteq ShardRaft /\ leads' \subseteq ShardRaft
        /\ shardLeaders' \subseteq Shard /\ LeadersInv'
    BY <1>2, LedGrows, LeadersStep
  <2>6. walk' \in [pc : {"none", "tick", "walk", "publish"},
                   left : SUBSET Shard, seen : SUBSET Shard]
    BY <1>2, WalkSoundStep DEF WalkSound
  <2>7. /\ route' \in [Client -> Call] /\ log' \in [ShardRaft -> Seq(Client)]
        /\ RoutesInv' /\ ProposedOnce'
    BY <1>2, RoutesStep
  <2>8. TypeOK'
    BY <2>2, <2>3, <2>4, <2>5, <2>6, <2>7, ZenonT(60)
       DEF TypeOK, Goroutine, Call, ShardRaft, Shard, None, HashFunction, VirtualNode
  <2> QED
    BY <2>1, <2>3, <2>4, <2>5, <2>7, <2>8, ZenonT(60) DEF ServerInv
<1> QED
  BY <1>1, <1>2, PTL DEF Spec

\* The variables keep to their types: Route makes at most MaxRetries attempts, for
\* a shard that the server serves, and goroutines follow ShardRafts that were made.
THEOREM ServerTypes == Spec => []TypeOK
<1>1. ServerInv => TypeOK
  BY DEF ServerInv
<1> QED
  BY <1>1, ServerInvariant, PTL

\* Route proposes an operation at most once, for any number of clients, shards,
\* retries, restarts and elections: when it reports success the operation is in one
\* log, at one position, of a ShardRaft of the key's shard, and otherwise in none.
THEOREM RouteProposesOnce == Spec => []ProposedOnce
<1>1. ServerInv => ProposedOnce
  BY DEF ServerInv
<1> QED
  BY <1>1, ServerInvariant, PTL

\* Whoever trackLeader and trackLeaders record as a leader has been one, although
\* they read, lock and write in separate steps and StopShard and StartShard may
\* replace the ShardRaft between them.
THEOREM RecordedLeadersHaveLed == Spec => []LeadersHaveLed
<1>1. ServerInv => LeadersHaveLed
  BY DEF ServerInv, LeadersInv
<1> QED
  BY <1>1, ServerInvariant, PTL

=============================================================================
