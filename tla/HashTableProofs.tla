--------------------------- MODULE HashTableProofs ---------------------------
(***************************************************************************)
(* Proofs about HashTable: its invariants, what an insert evicts, and that *)
(* it implements KVCache. The inductive invariant IInv is TableProofs'     *)
(* invariant of a table, with the bounds on counters and times, the        *)
(* memory bound and, for LRU, that the history agrees with the list.       *)
(***************************************************************************)
EXTENDS HashTable, TableProofs

\* LRU: the history is the order of the list.
Ordered ==
  older = IF table.pol.policy = "LFU" THEN {}
          ELSE {p \in Held(table) \X Held(table) : Behind(table.pol.list, p[1], p[2])}

Bounded(e) == e.count \in 0 .. MaxCount /\ e.expiry \in Time

IInv ==
  /\ TInv(table)
  /\ \A k \in Held(table) : Bounded(View(table)[k])
  /\ now \in Time
  /\ scanner \in {"stopped", "running"}
  /\ expired \in Seq(Key)
  /\ Ordered
  /\ MemoryBound

-----------------------------------------------------------------------------
(* The properties follow from IInv. *)

OneToOne(f, n) == \A i, j \in 1 .. n : f[i] = f[j] => i = j

Image(f, n) == {f[i] : i \in 1 .. n}

\* A sequence of different elements has as many as it is long.
LEMMA InjectiveCount ==
  ASSUME NEW n \in Nat, NEW f, OneToOne(f, n)
  PROVE  Cardinality(Image(f, n)) = n
<1> USE Zenon
<1> DEFINE S == Image(f, n)
           g == [i \in 1 .. n |-> f[i]]
<1>1. g \in [1 .. n -> S] /\ (\A x \in S : \E i \in 1 .. n : g[i] = x)
      /\ \A i, j \in 1 .. n : g[i] = g[j] => i = j
  BY DEF OneToOne, Image
<1> HIDE DEF S, g
<1>2. g \in Surjection(1 .. n, S)
  BY <1>1 DEF Surjection
<1>3. g \in Injection(1 .. n, S)
  BY <1>1 DEF Injection, IsInjective
<1>4. IsFiniteSet(1 .. n) /\ Cardinality(1 .. n) = n
  <2>1. 1 \in Int /\ n \in Int
    BY SMT
  <2>2. IsFiniteSet(1 .. n) /\ Cardinality(1 .. n) = IF 1 > n THEN 0 ELSE n - 1 + 1
    BY <2>1, FS_Interval
  <2> QED
    BY <2>2, SMT
<1>5. Cardinality(S) = Cardinality(1 .. n)
  BY <1>2, <1>3, <1>4, FS_Surjection
<1> QED
  BY <1>4, <1>5 DEF S

\* The pairs of a table, as the map that lookups see.
LEMMA KeysOf ==
  ASSUME NEW t, Chained(t)
  PROVE  /\ {kv.key : kv \in Pairs(t)} = Held(t)
         /\ \A kv \in Pairs(t) : /\ kv.key \in Held(t)
                                 /\ kv.entry = View(t)[kv.key] /\ kv.entry \in Entries
<1> USE Zenon
<1>1. /\ Pairs(t) \subseteq KeyEntry
      /\ \A kv \in KeyEntry : kv \in Pairs(t) <=> Has(t, kv.key, kv.entry)
  BY PairsAre
<1>2. \A kv \in KeyEntry : kv.key \in Key /\ kv.entry \in Entries
  BY SMT DEF KeyEntry
<1>3. /\ View(t) \in [Held(t) -> Entries] /\ Held(t) \subseteq Key
      /\ \A k \in Key : \A e : Has(t, k, e) <=> k \in Held(t) /\ View(t)[k] = e
  BY ViewIs
<1>4. ASSUME NEW kv \in Pairs(t)
      PROVE  kv.key \in Held(t) /\ kv.entry = View(t)[kv.key] /\ kv.entry \in Entries
  BY <1>1, <1>2, <1>3
<1>5. ASSUME NEW k \in Held(t) PROVE k \in {kv.key : kv \in Pairs(t)}
  <2> DEFINE kv == [key |-> k, entry |-> View(t)[k]]
  <2>1. k \in Key /\ View(t)[k] \in Entries
    BY <1>3
  <2>2. kv \in KeyEntry /\ kv.key = k /\ kv.entry = View(t)[k]
    BY <2>1 DEF KeyEntry
  <2> HIDE DEF kv
  <2>3. kv \in Pairs(t)
    BY <1>1, <1>3, <2>1, <2>2
  <2> QED
    BY <2>2, <2>3
<1> QED
  BY <1>4, <1>5

\* The entries in the chains are those of the map.
LEMMA KeysAre ==
  ASSUME Chained(table)
  PROVE  /\ Keys = Held(table)
         /\ \A kv \in Stored : /\ kv.key \in Held(table)
                                 /\ kv.entry = View(table)[kv.key] /\ kv.entry \in Entries
  BY KeysOf, Zenon DEF Keys, Stored

\* The last call is one of the interface.
CallTyped == call \in LastCalls

\* IInv implies TypeOK, given the type of the last call.
LEMMA IInvTypeOK == IInv /\ CallTyped => TypeOK
<1> USE Zenon
<1> SUFFICES ASSUME IInv, call \in LastCalls PROVE TypeOK
  BY SMT DEF CallTyped
<1>1. Chained(table) /\ table \in Tables /\ table.entries = Cardinality(Held(table))
  BY DEF IInv, TInv
<1>2. ASSUME NEW kv \in Stored
      PROVE  /\ kv.key \in Key
             /\ kv.entry \in [value : Value, count : 0 .. MaxCount, expiry : Time]
  <2>1. /\ kv.key \in Held(table) /\ kv.entry = View(table)[kv.key] /\ kv.entry \in Entries
    BY <1>1, KeysAre
  <2>2. kv.key \in Key
    BY <2>1 DEF Held
  <2>3. kv.entry.count \in 0 .. MaxCount /\ kv.entry.expiry \in Time
    BY <2>1 DEF IInv, Bounded
  <2>4. kv.entry \in [value : Value, count : 0 .. MaxCount, expiry : Time]
    <3> DEFINE e == kv.entry
    <3>1. e \in Entries /\ e.count \in 0 .. MaxCount /\ e.expiry \in Time
      BY <2>1, <2>3
    <3> HIDE DEF e
    <3>2. e \in [value : Value, count : 0 .. MaxCount, expiry : Time]
      BY <3>1 DEF Entries
    <3> QED
      BY <3>2 DEF e
  <2> QED
    BY <2>2, <2>4
<1>3. table.entries \in 0 .. Cardinality(Key)
  <2>1. Held(table) \in SUBSET Key
    BY DEF Held
  <2>2. Cardinality(Held(table)) <= Cardinality(Key) /\ Cardinality(Key) \in Nat
    BY <2>1, PolicyConstants, FS_Subset, FS_CardinalityType
  <2>3. table.entries \in Nat
    BY <1>1, TableFields
  <2> QED
    BY <1>1, <2>2, <2>3, SMT
<1>4. table.pol.mem \in Nat
  BY <1>1, TableFields, PolicyFields
<1> QED
  BY <1>2, <1>3, <1>4 DEF IInv, TypeOK

\* IInv implies ChainsConsistent.
LEMMA IInvChainsConsistent == IInv => ChainsConsistent
<1> USE Zenon
<1> SUFFICES ASSUME IInv PROVE ChainsConsistent
  BY SMT
<1>1. Chained(table) /\ table.entries = Cardinality(Held(table))
  BY DEF IInv, TInv
<1>2. table.buckets \in Seq(Seq(KeyEntry)) /\ DOMAIN table.buckets = 1 .. Len(table.buckets)
  <2>1. table.buckets \in Seq(Seq(KeyEntry))
    BY <1>1 DEF Chained
  <2> QED
    BY <2>1, SMT
<1>3. ASSUME NEW b \in DOMAIN table.buckets
      PROVE  /\ \A i \in DOMAIN table.buckets[b] : BucketOf(table, table.buckets[b][i].key) = b
             /\ Len(table.buckets[b]) = Cardinality({kv.key : kv \in Range(table.buckets[b])})
  <2> DEFINE chain == table.buckets[b]
             f == [i \in 1 .. Len(chain) |-> chain[i].key]
  <2>1. chain \in Seq(KeyEntry)
    BY <1>2, SMT
  <2>2. DOMAIN chain = 1 .. Len(chain) /\ Len(chain) \in Nat
    BY <2>1, SMT
  <2>3. /\ \A i \in 1 .. Len(chain) : BucketOf(table, chain[i].key) = b
        /\ \A i, j \in 1 .. Len(chain) : chain[i].key = chain[j].key => i = j
    BY <1>1, <1>2 DEF Chained
  <2>4. \A i \in 1 .. Len(chain) : f[i] = chain[i].key
    OBVIOUS
  <2> HIDE DEF chain, f
  <2>5. Cardinality(Image(f, Len(chain))) = Len(chain)
    <3>1. OneToOne(f, Len(chain))
      BY <2>3, <2>4 DEF OneToOne
    <3> QED
      BY <2>2, <3>1, InjectiveCount
  <2>6. {kv.key : kv \in Range(chain)} = Image(f, Len(chain))
    BY <2>2, <2>4 DEF Range, Image
  <2> QED
    BY <2>2, <2>3, <2>5, <2>6 DEF chain
<1>4. table.entries = Cardinality(Keys)
  BY <1>1, KeysAre
<1> QED
  BY <1>3, <1>4 DEF ChainsConsistent

\* IInv implies PolicyTracksTable.
LEMMA IInvPolicyTracksTable == IInv => PolicyTracksTable
<1> USE Zenon
<1> SUFFICES ASSUME IInv PROVE PolicyTracksTable
  BY SMT
<1> DEFINE p == table.pol
           m == View(table)
<1>1. Chained(table) /\ Books(p, m)
  BY DEF IInv, TInv
<1>2. /\ Keys = Held(table) /\ DOMAIN m = Keys /\ m \in Maps
      /\ \A k \in Keys : m[k] = EntryOf(table, k)
  BY <1>1, KeysAre, ViewIs
<1>3. p.policy \in {"LRU", "LFU"} /\ p.list \in Seq(Key)
  BY <1>1, PolicyFields DEF Books
<1>4. p.mem = Cardinality(UNION {{k} \X (1 .. Size[EntryOf(table, k).value]) : k \in Keys})
  <2>1. p.mem = Cardinality(UNION {{k} \X (1 .. Size[m[k].value]) : k \in Keys})
    BY <1>1, <1>2 DEF Books, Bytes, Cells
  <2>2. {{k} \X (1 .. Size[m[k].value]) : k \in Keys}
          = {{k} \X (1 .. Size[EntryOf(table, k).value]) : k \in Keys}
    BY <1>2
  <2> QED
    BY <2>1, <2>2
<1> HIDE DEF m
<1>5. CASE p.policy = "LRU"
  <2>1. p.policy # "LFU"
    BY <1>5, SMT
  <2>2. NoDup(p.list) /\ \A k : In(p.list, k) <=> k \in Keys
    BY <1>1, <1>2, <1>5 DEF Books, Listed
  <2>3. Range(p.list) = Keys
    BY <1>3, <2>2, RangeIs
  <2>4. Len(p.list) = Cardinality(Keys)
    <3>1. Len(p.list) \in Nat
      BY <1>3, SMT
    <3>2. OneToOne(p.list, Len(p.list))
      BY <2>2 DEF NoDup, OneToOne
    <3>3. Cardinality(Image(p.list, Len(p.list))) = Len(p.list)
      BY <3>1, <3>2, InjectiveCount
    <3>4. Image(p.list, Len(p.list)) = Keys
      BY <2>2 DEF In, Image
    <3> QED
      BY <3>3, <3>4
  <2> QED
    BY <1>4, <1>5, <2>1, <2>3, <2>4 DEF PolicyTracksTable, Tracked
<1>6. CASE p.policy = "LFU"
  <2>1. p.policy # "LRU"
    BY <1>6, SMT
  <2>2. DOMAIN p.count = Keys /\ \A k \in Keys : p.count[k] = EntryOf(table, k).count
    BY <1>1, <1>2, <1>6 DEF Books, Counted
  <2> QED
    BY <1>4, <2>1, <2>2 DEF PolicyTracksTable, Tracked
<1> QED
  BY <1>3, <1>5, <1>6

\* IInv implies HeapCoversKeys.
LEMMA IInvHeapCoversKeys == IInv => HeapCoversKeys
<1> USE Zenon
<1> SUFFICES ASSUME IInv, table.pol.policy = "LFU"
             PROVE  {e[1] : e \in Valid(table.pol)} = Keys
  BY DEF HeapCoversKeys
<1> DEFINE p == table.pol
<1>1. Chained(table) /\ Books(p, View(table)) /\ Covered(p, Held(table))
  BY DEF IInv, TInv
<1>2. Keys = Held(table) /\ DOMAIN View(table) = Keys
  BY <1>1, KeysAre, ViewIs
<1>3. DOMAIN p.count = Keys
  BY <1>1, <1>2 DEF Books, Counted
<1>4. ASSUME NEW k \in Keys PROVE <<k, p.count[k]>> \in Valid(p) /\ <<k, p.count[k]>>[1] = k
  <2>1. <<k, p.count[k]>>[1] = k /\ <<k, p.count[k]>>[2] = p.count[k]
    BY SMT
  <2>2. <<k, p.count[k]>> \in p.heap
    BY <1>1, <1>2 DEF Covered
  <2> QED
    BY <1>3, <2>1, <2>2 DEF Valid
<1>5. \A e \in Valid(p) : e[1] \in Keys
  BY <1>3 DEF Valid
<1> QED
  BY <1>4, <1>5

-----------------------------------------------------------------------------
(* IInv is inductive. *)

\* IInv holds initially.
LEMMA InitIInv == Init => IInv
<1> SUFFICES ASSUME Init PROVE IInv
  OBVIOUS
<1>1. PICK q \in Policies : table = NewTable(q)
  BY Zenon DEF Init
<1>2. q \in {"LRU", "LFU"}
  BY ScannerConstants
<1>3. TInv(table) /\ Held(table) = {} /\ table.pol.policy = q /\ table.pol.mem = 0
  BY <1>1, <1>2, NewTableInv, Zenon
<1>4. now \in Time /\ scanner \in {"stopped", "running"} /\ expired \in Seq(Key)
  BY ScannerConstants DEF Init, Time
<1>5. Ordered
  <2>1. {p \in Held(table) \X Held(table) : Behind(table.pol.list, p[1], p[2])} = {}
    BY <1>3
  <2> QED
    BY <2>1, Zenon DEF Init, Ordered
<1>6. MemoryBound
  <2>1. PICK v \in Value : TRUE
    BY TableConstants, Zenon
  <2>2. Size[v] \in Nat
    BY <2>1, TableConstants
  <2>3. 0 <= MemoryLimit + Size[v]
    BY <2>2, PolicyConstants
  <2> QED
    BY <1>3, <2>3, Zenon DEF MemoryBound
<1> QED
  BY <1>3, <1>4, <1>5, <1>6, Zenon DEF IInv

\* The history is a relation on the keys of the table.
LEMMA OlderIs ==
  ASSUME IInv
  PROVE  /\ table.pol.policy \in {"LRU", "LFU"}
         /\ table.pol.policy # "LFU" =>
              \A i, j \in Held(table) : <<i, j>> \in older <=> Behind(table.pol.list, i, j)
<1> USE Zenon
<1>1. table.pol.policy \in {"LRU", "LFU"}
  BY TableFields, PolicyFields DEF IInv, TInv
<1>2. ASSUME table.pol.policy # "LFU", NEW i \in Held(table), NEW j \in Held(table)
      PROVE  <<i, j>> \in older <=> Behind(table.pol.list, i, j)
  <2>1. older = {p \in Held(table) \X Held(table) : Behind(table.pol.list, p[1], p[2])}
    BY <1>2 DEF IInv, Ordered
  <2>2. <<i, j>> \in Held(table) \X Held(table) /\ <<i, j>>[1] = i /\ <<i, j>>[2] = j
    BY SMT
  <2> QED
    BY <2>1, <2>2
<1> QED
  BY <1>1, <1>2

\* What a step has to show for the history to follow the list.
LEMMA OrderKept ==
  ASSUME IInv, TInv(table'), table'.pol.policy = table.pol.policy, NEW used, older' = Using(used),
         table.pol.policy # "LFU" =>
            \A i, j \in Held(table') :
               Behind(table'.pol.list, i, j) <=>
                  /\ i # j /\ i \notin used
                  /\ j \in used \/ (i \in Held(table) /\ j \in Held(table) /\ Behind(table.pol.list, i, j))
  PROVE  Ordered'
<1> USE Zenon
<1> DEFINE u == table'
<1>1. CASE table.pol.policy = "LFU"
  BY <1>1 DEF Ordered, Using
<1>2. CASE table.pol.policy # "LFU"
  <2> DEFINE K == Held(u)
             new == {p \in K \X K : Behind(u.pol.list, p[1], p[2])}
             old == {p \in Held(table) \X Held(table) : Behind(table.pol.list, p[1], p[2])}
             seen == {p \in K \X K : p[1] # p[2] /\ p[1] \notin used /\ (p[2] \in used \/ p \in older)}
  <2>1. older' = seen
    BY <1>2 DEF Using, Held
  <2>2. older = old
    BY <1>2 DEF IInv, Ordered
  <2>3. ASSUME NEW p \in K \X K PROVE p \in seen <=> p \in new
    <3>1. p[1] \in K /\ p[2] \in K
      BY SMT
    <3>2. p \in older <=> p[1] \in Held(table) /\ p[2] \in Held(table)
                            /\ Behind(table.pol.list, p[1], p[2])
      <4>1. p \in Held(table) \X Held(table) <=> p[1] \in Held(table) /\ p[2] \in Held(table)
        BY SMT
      <4> QED
        BY <2>2, <4>1
    <3> QED
      BY <1>2, <3>1, <3>2
  <2>4. seen = new
    BY <2>3
  <2> QED
    BY <1>2, <2>1, <2>4 DEF Ordered
<1> QED
  BY <1>1, <1>2

\* A loop that takes no turn evicts nothing.
LEMMA EvictingSame ==
  ASSUME NEW t
  PROVE  Evicting(t, t)
<1>1. Held(t) \ Held(t) = {}
  OBVIOUS
<1> QED
  BY <1>1, Zenon DEF Evicting

\* Storing an entry for k, after evictions.
LEMMA StoreKeeps ==
  ASSUME IInv, NEW v, TInv(v), Evicting(v, table), NEW k \in Key, NEW e \in Entries,
         PutIn(table', v, k, e), Bounded(e), older' = Using({k})
  PROVE  /\ TInv(table') /\ Ordered'
         /\ \A j \in Held(table') : Bounded(View(table')[j])
<1> USE Zenon
<1> DEFINE u == table'
<1>1. /\ TInv(u) /\ View(u) = Store(View(v), k, e) /\ Held(u) = Held(v) \union {k}
      /\ u.pol.policy = v.pol.policy
      /\ v.pol.policy = "LRU" =>
           \A i, j : Behind(u.pol.list, i, j) <=>
                       /\ i # k
                       /\ (j = k /\ i \in Held(v)) \/ (j # k /\ Behind(v.pol.list, i, j))
  BY DEF PutIn
<1>2. /\ Held(v) \subseteq Held(table) /\ \A j \in Held(v) : View(v)[j] = View(table)[j]
      /\ v.pol.policy = table.pol.policy
      /\ \A i, j \in Held(v) : Before(v.pol, i, j) <=> Before(table.pol, i, j)
  BY DEF Evicting
<1>3. Chained(v) /\ DOMAIN View(v) = Held(v)
  <2>1. Chained(v)
    BY DEF TInv
  <2> QED
    BY <2>1, ViewIs
<1>4. View(u)[k] = e /\ \A j \in Held(v) : j # k => View(u)[j] = View(v)[j]
  BY <1>1, <1>3 DEF Store
<1>5. \A j \in Held(u) : Bounded(View(u)[j])
  <2>1. \A j \in Held(v) : Bounded(View(v)[j])
    BY <1>2 DEF IInv
  <2> QED
    BY <1>1, <1>4, <2>1
<1>6. Ordered'
  <2>1. ASSUME table.pol.policy # "LFU", NEW i \in Held(u), NEW j \in Held(u)
        PROVE  Behind(u.pol.list, i, j) <=>
                  /\ i # j /\ i \notin {k}
                  /\ j \in {k} \/ (i \in Held(table) /\ j \in Held(table) /\ Behind(table.pol.list, i, j))
    <3>1. table.pol.policy = "LRU" /\ v.pol.policy = "LRU" /\ v.pol.policy # "LFU"
      BY <1>2, <2>1, OlderIs, SMT
    <3>2. Behind(u.pol.list, i, j) <=>
             i # k /\ ((j = k /\ i \in Held(v)) \/ (j # k /\ Behind(v.pol.list, i, j)))
      BY <1>1, <3>1
    <3>3. i \in Held(v) /\ j \in Held(v) => (Behind(v.pol.list, i, j) <=> Behind(table.pol.list, i, j))
      BY <1>2, <2>1, <3>1 DEF Before
    <3>4. Behind(v.pol.list, i, j) => i # j
      <4>1. v.pol.list \in Seq(Key) /\ NoDup(v.pol.list)
        BY <3>1 DEF TInv, Books, Listed
      <4> QED
        BY <4>1, BehindFacts
    <3>5. CASE i = k
      BY <3>2, <3>5
    <3>6. CASE i # k /\ j = k
      BY <1>1, <3>2, <3>6
    <3>7. CASE i # k /\ j # k
      <4>1. i \in Held(v) /\ j \in Held(v)
        BY <1>1, <3>7
      <4> QED
        BY <1>2, <3>2, <3>3, <3>4, <3>7, <4>1
    <3> QED
      BY <3>5, <3>6, <3>7
  <2>2. u.pol.policy = table.pol.policy
    BY <1>1, <1>2
  <2> HIDE DEF u
  <2> QED
    BY <1>1, <2>1, <2>2, OrderKept DEF u
<1> QED
  BY <1>1, <1>5, <1>6

\* Losing key k; it may have been used before.
LEMMA RemoveKeeps ==
  ASSUME IInv, NEW k, NEW used \in {{k}, {}},
         TInv(table'), Held(table') = Held(table) \ {k},
         \A j \in Held(table') : View(table')[j] = View(table)[j],
         table'.pol.policy = table.pol.policy,
         table.pol.policy # "LFU" =>
           \A i, j \in Held(table') :
              Behind(table'.pol.list, i, j) <=> Behind(table.pol.list, i, j),
         older' = Using(used)
  PROVE  Ordered' /\ \A j \in Held(table') : Bounded(View(table')[j])
<1> USE Zenon
<1>1. \A j \in Held(table') : Bounded(View(table')[j])
  <2>1. \A j \in Held(table) : Bounded(View(table)[j])
    BY DEF IInv
  <2>2. \A j \in Held(table') : j \in Held(table)
    OBVIOUS
  <2> QED
    BY <2>1, <2>2
<1>2. ASSUME table.pol.policy # "LFU", NEW i \in Held(table'), NEW j \in Held(table')
      PROVE  Behind(table'.pol.list, i, j) <=>
                /\ i # j /\ i \notin used
                /\ j \in used \/ (i \in Held(table) /\ j \in Held(table) /\ Behind(table.pol.list, i, j))
  <2>1. i \in Held(table) /\ j \in Held(table) /\ i \notin used /\ j \notin used
    OBVIOUS
  <2>2. table.pol.policy = "LRU"
    BY <1>2, OlderIs, SMT
  <2>3. table.pol.list \in Seq(Key) /\ NoDup(table.pol.list)
    BY <2>2 DEF IInv, TInv, Books, Listed
  <2>4. Behind(table.pol.list, i, j) => i # j
    BY <2>3, BehindFacts
  <2> QED
    BY <1>2, <2>1, <2>4
<1>3. Ordered'
  BY <1>2, OrderKept
<1> QED
  BY <1>1, <1>3

\* engine_set: what the eviction left, and what was stored in it.
SetOutcome(v, k, e) ==
  /\ TInv(v) /\ Evicting(v, table) /\ v.pol.mem <= MemoryLimit
  /\ PutIn(table', v, k, e)

\* e holds value x, and expires ttl from now.
Given(e, x, ttl) == e.value = x /\ e.expiry = IF ttl > 0 THEN now + ttl ELSE 0

\* What engine_set does to the map and the policy.
LEMMA SetStep ==
  ASSUME IInv, NEW k \in Key, NEW x \in Value, NEW ttl \in 0 .. MaxTime, Set(k, x, ttl)
  PROVE  \E v, e :
           SetOutcome(v, k, e) /\ e \in Entries /\ Bounded(e) /\ Given(e, x, ttl)
<1> USE Zenon
<1> DEFINE d == IF ttl > 0 THEN now + ttl ELSE 0
           e == Entry(x, d)
<1>1. now \in Nat /\ ttl \in Nat /\ now + ttl <= MaxTime /\ MaxTime \in Nat /\ MaxCount \in Nat
      /\ ttl <= MaxTime
  BY ScannerConstants, SMT DEF IInv, Time, Set
<1>2. d \in Time /\ d \in Nat
  BY <1>1, SMT DEF Time
<1> HIDE DEF d
<1>3. e.value = x /\ e.count = 0 /\ e.expiry = d /\ e \in Entries
  <2>1. 0 \in Nat
    BY SMT
  <2> QED
    BY <1>2, <2>1 DEF Entry, Entries
<1>4. Bounded(e)
  <2>1. 0 \in 0 .. MaxCount
    BY <1>1, SMT
  <2> QED
    BY <1>2, <1>3, <2>1 DEF Bounded
<1>5. PICK r \in Inserted(Run(table), k, e) : table' = r.table
  BY DEF Set, d
<1> HIDE DEF e
<1>6. Run(table) \in Runs /\ Run(table).table = table
  BY NewRun DEF IInv
<1>7. PICK v : /\ TInv(v) /\ Evicting(v, Run(table).table) /\ v.pol.mem <= MemoryLimit
               /\ PutIn(r.table, v, k, e)
  BY <1>3, <1>5, <1>6, InsertedIs
<1>8. SetOutcome(v, k, e)
  BY <1>5, <1>6, <1>7 DEF SetOutcome
<1>9. Given(e, x, ttl)
  BY <1>3 DEF d, Given
<1> HIDE DEF d, e
<1> QED
  BY <1>3, <1>4, <1>8, <1>9

\* What a removed key leaves; its accesses before do not matter.
RemoveOutcome(k) ==
  /\ TInv(table') /\ Held(table') = Held(table) \ {k}
  /\ \A j \in Held(table') : View(table')[j] = View(table)[j]
  /\ table'.pol.policy = table.pol.policy
  /\ table'.pol.mem <= table.pol.mem
  /\ table.pol.policy # "LFU" =>
       \A i, j \in Held(table') :
          Behind(table'.pol.list, i, j) <=> Behind(table.pol.list, i, j)

\* What remove does to the map and the policy.
LEMMA RemoveStep ==
  ASSUME IInv, NEW k \in Key, table' = Removed(Run(table), k).table
  PROVE  RemoveOutcome(k)
<1> USE Zenon
<1>1. TInv(table)
  BY DEF IInv
<1>2. /\ TInv(table') /\ Held(table') = Held(table) \ {k}
      /\ \A j \in Held(table') : View(table')[j] = View(table)[j]
      /\ table'.pol.policy = table.pol.policy
      /\ table'.pol.mem <= table.pol.mem
      /\ \A i, j \in Held(table') : Before(table'.pol, i, j) <=> Before(table.pol, i, j)
  <2> DEFINE u == Removed(Run(table), k).table
  <2>1. /\ TInv(u) /\ Held(u) = Held(table) \ {k}
        /\ \A j \in Held(u) : View(u)[j] = View(table)[j]
        /\ u.pol.policy = table.pol.policy
        /\ u.pol.mem <= table.pol.mem
        /\ \A i, j \in Held(u) : Before(u.pol, i, j) <=> Before(table.pol, i, j)
    BY <1>1, RemovedIs
  <2> HIDE DEF u
  <2>2. table' = u
    BY DEF u
  <2> QED
    BY <2>1, <2>2
<1> QED
  BY <1>2 DEF RemoveOutcome, Before

\* get of a live key: its entry e afterwards.
AccessOutcome(u, k, e) ==
  /\ PutIn(u, table, k, e) /\ e \in Entries
  /\ e.value = View(table)[k].value /\ e.expiry = View(table)[k].expiry
  /\ e.count = IF table.pol.policy = "LFU" THEN View(table)[k].count + 1 ELSE View(table)[k].count
  /\ u.pol.mem = table.pol.mem

\* What a hit of get does to the map and the policy.
LEMMA AccessStep ==
  ASSUME IInv, NEW k \in Key, Hit(table, k, now)
  PROVE  /\ k \in Held(table) /\ View(table)[k] = EntryOf(table, k)
         /\ \E e : AccessOutcome(Accessed(table, k), k, e)
<1> USE Zenon
<1> DEFINE e == [EntryOf(table, k) EXCEPT !.count = IF table.pol.policy = "LFU" THEN @ + 1 ELSE @]
           u == Accessed(table, k)
<1>1. TInv(table) /\ Chained(table)
  BY DEF IInv, TInv
<1>2. Found(table, k) /\ k \in Held(table)
  BY DEF Hit, Held
<1>3. View(table)[k] = EntryOf(table, k)
  BY <1>1, <1>2, ViewIs
<1>4. /\ PutIn(u, table, k, e) /\ e \in Entries
      /\ e.value = EntryOf(table, k).value /\ e.expiry = EntryOf(table, k).expiry
      /\ e.count = IF table.pol.policy = "LFU" THEN EntryOf(table, k).count + 1
                   ELSE EntryOf(table, k).count
      /\ u.pol.mem = table.pol.mem
  BY <1>1, <1>2, AccessTable
<1> HIDE DEF e, u
<1>5. AccessOutcome(u, k, e)
  BY <1>3, <1>4 DEF AccessOutcome
<1> QED
  BY <1>2, <1>3, <1>5 DEF u

\* A key that expires during get is removed after its access.
LEMMA LateStep ==
  ASSUME IInv, NEW k \in Key, Hit(table, k, now),
         table' = Removed(Run(Accessed(table, k)), k).table
  PROVE  RemoveOutcome(k)
<1> USE Zenon
<1> DEFINE t == Accessed(table, k)
           u == Removed(Run(t), k).table
<1>1. PICK e : AccessOutcome(t, k, e)
  BY AccessStep
<1>2. /\ TInv(t) /\ View(t) = Store(View(table), k, e) /\ Held(t) = Held(table) \union {k}
      /\ t.pol.policy = table.pol.policy /\ t.pol.mem = table.pol.mem
      /\ table.pol.policy = "LRU" =>
           \A i, j : Behind(t.pol.list, i, j) <=>
                       /\ i # k
                       /\ (j = k /\ i \in Held(table)) \/ (j # k /\ Behind(table.pol.list, i, j))
  BY <1>1 DEF AccessOutcome, PutIn
<1> HIDE DEF t
<1>3. /\ TInv(u) /\ Held(u) = Held(t) \ {k} /\ \A j \in Held(u) : View(u)[j] = View(t)[j]
      /\ u.pol.policy = t.pol.policy
      /\ u.pol.mem <= t.pol.mem
      /\ \A i, j \in Held(u) : Before(u.pol, i, j) <=> Before(t.pol, i, j)
  BY <1>2, RemovedIs
<1>4. table' = u
  BY DEF t
<1> HIDE DEF u
<1>5. k \in Held(table) /\ DOMAIN View(table) = Held(table)
  <2>1. Chained(table)
    BY DEF IInv, TInv
  <2> QED
    BY <2>1, AccessStep, ViewIs
<1>6. Held(u) = Held(table) \ {k}
  BY <1>2, <1>3, <1>5
<1>7. \A j \in Held(table) : j # k => View(t)[j] = View(table)[j]
  BY <1>2, <1>5 DEF Store
<1>8. \A j \in Held(u) : View(u)[j] = View(table)[j]
  BY <1>3, <1>6, <1>7
<1>9. u.pol.policy = table.pol.policy /\ u.pol.mem <= table.pol.mem
  BY <1>2, <1>3
<1>10. ASSUME table.pol.policy # "LFU", NEW i \in Held(u), NEW j \in Held(u)
       PROVE  Behind(u.pol.list, i, j) <=> Behind(table.pol.list, i, j)
  <2>1. table.pol.policy = "LRU"
    BY <1>10, OlderIs, SMT
  <2>2. Behind(u.pol.list, i, j) <=> Behind(t.pol.list, i, j)
    BY <1>2, <1>3, <1>10 DEF Before
  <2>3. i # k /\ j # k
    BY <1>6
  <2> QED
    BY <1>2, <2>1, <2>2, <2>3
<1> QED
  BY <1>3, <1>4, <1>6, <1>8, <1>9, <1>10 DEF RemoveOutcome

\* The scanner collects keys whose entries have expired.
LEMMA SampleIs ==
  ASSUME IInv, NEW picks \in Picks, ScanSample(picks)
  PROVE  /\ expired' \in Seq(Key)
         /\ \A k \in Range(expired') : k \in Held(table) /\ IsExpired(View(table)[k], now)
<1> USE Zenon
<1> DEFINE N == 1 .. SampleSize
           cell(i) == {i} \X DOMAIN table.buckets[picks[i]]
           sets == {cell(i) : i \in N}
           f == [i \in N |-> cell(i)]
           seen == UNION sets
           kv(p) == table.buckets[picks[p[1]]][p[2]]
           S == {p \in seen : IsExpired(kv(p).entry, now)}
           dead == Listing(S)
<1>1. /\ table.buckets \in Seq(Seq(KeyEntry)) /\ DOMAIN table.buckets = 1 .. Len(table.buckets)
      /\ picks \in [N -> DOMAIN table.buckets] /\ DOMAIN picks = N
  <2>1. table.buckets \in Seq(Seq(KeyEntry))
    BY DEF IInv, TInv, Chained
  <2>2. picks \in [N -> DOMAIN table.buckets]
    BY DEF Picks
  <2> QED
    BY <2>1, <2>2, SMT
<1>2. ASSUME NEW i \in N
      PROVE  /\ IsFiniteSet(cell(i))
             /\ \A p \in cell(i) : kv(p) \in KeyEntry /\ kv(p) \in Pairs(table)
  <2> DEFINE c == table.buckets[picks[i]]
  <2>1. c \in Seq(KeyEntry)
    BY <1>1, SMT
  <2>2. DOMAIN c = 1 .. Len(c) /\ Len(c) \in Int /\ 1 \in Int /\ \A j \in DOMAIN c : c[j] \in KeyEntry
    BY <2>1, SMT
  <2>3. IsFiniteSet(DOMAIN c)
    BY <2>2, FS_Interval
  <2>4. IsFiniteSet({i})
    BY FS_Singleton
  <2>5. IsFiniteSet(cell(i))
    BY <2>3, <2>4, FS_Product
  <2>6. \A p \in cell(i) : p[1] = i /\ p[2] \in DOMAIN c
    BY SMT
  <2>7. \A j \in DOMAIN c : c[j] \in Pairs(table)
    <3>1. picks[i] \in DOMAIN table.buckets
      BY <1>1
    <3>2. \A j \in DOMAIN c : c[j] \in Range(c)
      BY DEF Range
    <3>3. c = table.buckets[picks[i]]
      BY DEF c
    <3> HIDE DEF c
    <3> QED
      BY <3>1, <3>2, <3>3 DEF Pairs
  <2> QED
    BY <2>2, <2>5, <2>6, <2>7
<1>3. IsFiniteSet(sets)
  <2>1. f \in [N -> sets] /\ \A x \in sets : \E i \in N : f[i] = x
    OBVIOUS
  <2> HIDE DEF f, sets
  <2>2. f \in Surjection(N, sets)
    BY <2>1 DEF Surjection
  <2>3. 1 \in Int /\ SampleSize \in Int
    BY ScannerConstants, SMT
  <2>4. IsFiniteSet(N)
    BY <2>3, FS_Interval
  <2> QED
    BY <2>2, <2>4, FS_Surjection
<1>4. \A x \in sets : IsFiniteSet(x)
  BY <1>2
<1>5. \A p \in seen : kv(p) \in KeyEntry /\ kv(p) \in Pairs(table)
  BY <1>2
<1>6. IsFiniteSet(seen)
  <2> HIDE DEF sets
  <2> QED
    BY <1>3, <1>4, FS_UNION
<1>7. expired' = [i \in DOMAIN dead |-> kv(dead[i]).key]
  BY <1>1 DEF ScanSample
<1> HIDE DEF sets, f, N
<1>8. S \in SUBSET seen
  OBVIOUS
<1>9. IsFiniteSet(S)
  BY <1>6, <1>8, FS_Subset
<1>10. dead \in Seq(S)
  <2> HIDE DEF S
  <2> QED
    BY <1>9, ListingIs
<1>11. \A p \in S : kv(p).key \in Key
  <2>1. \A x \in KeyEntry : x.key \in Key
    BY SMT DEF KeyEntry
  <2> QED
    BY <1>5, <1>8, <2>1
<1>a. \A p \in S : kv(p).key \in Held(table) /\ IsExpired(View(table)[kv(p).key], now)
  <2>1. Chained(table)
    BY DEF IInv, TInv
  <2>2. \A x \in Pairs(table) : x.key \in Held(table) /\ x.entry = View(table)[x.key]
    BY <2>1, KeysOf
  <2>3. \A p \in S : kv(p) \in Pairs(table) /\ IsExpired(kv(p).entry, now)
    BY <1>5
  <2> QED
    BY <2>2, <2>3
<1> HIDE DEF S, dead
<1>12. DOMAIN dead = 1 .. Len(dead) /\ Len(dead) \in Nat /\ \A i \in DOMAIN dead : dead[i] \in S
  BY <1>10, SMT
<1>13. expired' \in [1 .. Len(dead) -> Key]
  <2>1. \A i \in 1 .. Len(dead) : kv(dead[i]).key \in Key
    BY <1>11, <1>12
  <2> QED
    BY <1>7, <1>12, <2>1
<1>14. \A k \in Range(expired') : k \in Held(table) /\ IsExpired(View(table)[k], now)
  <2>1. \A k \in Range(expired') : \E i \in DOMAIN dead : k = kv(dead[i]).key
    BY <1>7 DEF Range
  <2> QED
    BY <1>a, <1>12, <2>1
<1> QED
  BY <1>12, <1>13, <1>14, FunctionSeq

\* A step that does not raise current_memory_ keeps MemoryBound.
LEMMA MemoryKept ==
  ASSUME IInv, TInv(table'), table'.pol.mem <= table.pol.mem
  PROVE  MemoryBound'
<1>1. PICK v \in Value : table.pol.mem <= MemoryLimit + Size[v]
  BY Zenon DEF IInv, MemoryBound
<1>2. table.pol.mem \in Nat /\ table'.pol.mem \in Nat
  <2>1. table \in Tables /\ table' \in Tables
    BY Zenon DEF IInv, TInv
  <2> QED
    BY <2>1, TableFields, PolicyFields, Zenon
<1>3. Size[v] \in Nat /\ MemoryLimit \in Nat
  BY TableConstants, PolicyConstants
<1>4. table'.pol.mem <= MemoryLimit + Size[v]
  BY <1>1, <1>2, <1>3
<1> QED
  BY <1>4, Zenon DEF MemoryBound

\* The parts of IInv that a removal of k disturbs.
LEMMA RemoveIInv ==
  ASSUME IInv, NEW k \in Key, RemoveOutcome(k), NEW used \in {{k}, {}}, older' = Using(used),
         now' \in Time, scanner' = scanner, expired' \in Seq(Key)
  PROVE  IInv'
<1> USE Zenon
<1>1. /\ TInv(table') /\ Held(table') = Held(table) \ {k}
      /\ \A j \in Held(table') : View(table')[j] = View(table)[j]
      /\ table'.pol.policy = table.pol.policy
      /\ table'.pol.mem <= table.pol.mem
      /\ table.pol.policy # "LFU" =>
           \A i, j \in Held(table') :
              Behind(table'.pol.list, i, j) <=> Behind(table.pol.list, i, j)
  BY DEF RemoveOutcome
<1>2. Ordered' /\ \A j \in Held(table') : Bounded(View(table')[j])
  BY <1>1, RemoveKeeps
<1>3. MemoryBound'
  BY <1>1, MemoryKept
<1>4. scanner' \in {"stopped", "running"}
  BY DEF IInv
<1> QED
  BY <1>1, <1>2, <1>3, <1>4 DEF IInv

\* engine_set keeps IInv.
LEMMA SetIInv ==
  ASSUME IInv, NEW k \in Key, NEW x \in Value, NEW ttl \in 0 .. MaxTime, Set(k, x, ttl)
  PROVE  IInv'
<1> USE Zenon
<1>1. PICK v, e : SetOutcome(v, k, e) /\ e \in Entries /\ Bounded(e) /\ Given(e, x, ttl)
  BY SetStep
<1>2. /\ TInv(v) /\ Evicting(v, table) /\ v.pol.mem <= MemoryLimit
      /\ PutIn(table', v, k, e)
  BY <1>1 DEF SetOutcome
<1>3. older' = Using({k}) /\ now' = now /\ scanner' = scanner /\ expired' = expired
  BY DEF Set
<1>4. TInv(table') /\ Ordered' /\ \A j \in Held(table') : Bounded(View(table')[j])
  BY <1>1, <1>2, <1>3, StoreKeeps
<1>5. MemoryBound'
  <2>1. table'.pol.mem <= v.pol.mem + Size[x]
    <3>1. e.value = x
      BY <1>1 DEF Given
    <3> QED
      BY <1>2, <3>1 DEF PutIn
  <2>2. table' \in Tables /\ v \in Tables
    BY <1>2, <1>4 DEF TInv
  <2>3. v.pol.mem \in Nat /\ table'.pol.mem \in Nat
    BY <2>2, TableFields, PolicyFields
  <2>4. Size[x] \in Nat /\ MemoryLimit \in Nat
    BY TableConstants, PolicyConstants, SMT
  <2>5. table'.pol.mem <= MemoryLimit + Size[x]
    BY <1>2, <2>1, <2>3, <2>4, SMT
  <2> QED
    BY <2>5 DEF MemoryBound
<1> QED
  BY <1>3, <1>4, <1>5 DEF IInv

\* A counter below its bound stays within it.
LEMMA Counting ==
  ASSUME NEW c, NEW d, c \in 0 .. MaxCount, c < MaxCount, d = c + 1 \/ d = c
  PROVE  d \in 0 .. MaxCount
  BY ScannerConstants

\* engine_get keeps IInv, whether it hits, misses or finds the entry expired.
LEMMA GetIInv ==
  ASSUME IInv, NEW k \in Key, Get(k)
  PROVE  IInv'
<1> USE Zenon
<1>1. CASE UNCHANGED <<table, now, scanner, expired, older>>
  BY <1>1 DEF IInv, Ordered, MemoryBound
<1>2. CASE /\ Hit(table, k, now) /\ EntryOf(table, k).count < MaxCount
           /\ table' = Accessed(table, k) /\ older' = Using({k})
           /\ UNCHANGED <<now, scanner, expired>>
  <2>1. PICK e : AccessOutcome(table', k, e)
    BY <1>2, AccessStep
  <2>2. k \in Held(table) /\ View(table)[k] = EntryOf(table, k)
    BY <1>2, AccessStep
  <2>3. /\ PutIn(table', table, k, e) /\ e \in Entries
        /\ e.expiry = View(table)[k].expiry
        /\ e.count = View(table)[k].count + 1 \/ e.count = View(table)[k].count
        /\ table'.pol.mem = table.pol.mem
    BY <2>1 DEF AccessOutcome
  <2>4. Bounded(View(table)[k])
    BY <2>2 DEF IInv
  <2>5. Bounded(e)
    BY <1>2, <2>2, <2>3, <2>4, Counting DEF Bounded
  <2>6. TInv(table) /\ Evicting(table, table)
    BY EvictingSame DEF IInv
  <2>7. TInv(table') /\ Ordered' /\ \A j \in Held(table') : Bounded(View(table')[j])
    BY <1>2, <2>3, <2>5, <2>6, StoreKeeps
  <2>8. MemoryBound'
    BY <2>3 DEF IInv, MemoryBound
  <2>9. now' = now /\ scanner' = scanner /\ expired' = expired
    BY <1>2, SMT
  <2> QED
    BY <2>7, <2>8, <2>9 DEF IInv
<1>3. CASE /\ Hit(table, k, now) /\ now < MaxTime /\ now' = now + 1
           /\ table' = Removed(Run(Accessed(table, k)), k).table
           /\ older' = Using({k})
           /\ UNCHANGED <<scanner, expired>>
  <2>1. RemoveOutcome(k)
    BY <1>3, LateStep
  <2>2. now' \in Time
    BY <1>3, ScannerConstants, SMT DEF IInv, Time
  <2>3. scanner' = scanner /\ expired' \in Seq(Key)
    BY <1>3, SMT DEF IInv
  <2> QED
    BY <1>3, <2>1, <2>2, <2>3, RemoveIInv
<1> QED
  BY <1>1, <1>2, <1>3 DEF Get

\* Every step preserves the inductive invariant.
LEMMA NextIInv == IInv /\ [Next]_vars => IInv'
<1> USE Zenon
<1> SUFFICES ASSUME IInv, [Next]_vars PROVE IInv'
  BY SMT
<1>1. ASSUME NEW k \in Key, NEW v \in Value, NEW ttl \in 0 .. MaxTime, Set(k, v, ttl)
      PROVE  IInv'
  BY <1>1, SetIInv
<1>2. ASSUME NEW k \in Key, Get(k) PROVE IInv'
  BY <1>2, GetIInv
<1>3. ASSUME NEW k \in Key, Delete(k) PROVE IInv'
  <2>1. RemoveOutcome(k)
    BY <1>3, RemoveStep DEF Delete
  <2>2. older' = Using({}) /\ now' \in Time /\ scanner' = scanner /\ expired' \in Seq(Key)
    BY <1>3 DEF Delete, IInv
  <2> QED
    BY <2>1, <2>2, RemoveIInv
<1>4. CASE Tick
  <2>1. now' \in Time
    BY <1>4, ScannerConstants, SMT DEF IInv, Time, Tick
  <2> QED
    BY <1>4, <2>1 DEF Tick, IInv, Ordered, MemoryBound
<1>5. CASE StartScanner \/ StopScanner
  BY <1>5 DEF StartScanner, StopScanner, IInv, Ordered, MemoryBound
<1>6. ASSUME NEW picks \in Picks, ScanSample(picks) PROVE IInv'
  <2>1. expired' \in Seq(Key)
    BY <1>6, SampleIs
  <2>2. UNCHANGED <<table, now, scanner, older>>
    BY <1>6 DEF ScanSample
  <2> QED
    BY <2>1, <2>2 DEF IInv, Ordered, MemoryBound
<1>7. CASE ScanRemove
  <2> DEFINE k == Head(expired)
  <2>1. k \in Key /\ expired' \in Seq(Key)
    <3>1. expired \in Seq(Key) /\ expired # << >> /\ expired' = Tail(expired)
      BY <1>7 DEF ScanRemove, IInv
    <3> QED
      BY <3>1, SMT
  <2>2. RemoveOutcome(k)
    BY <1>7, <2>1, RemoveStep DEF ScanRemove
  <2>3. older' = Using({}) /\ now' \in Time /\ scanner' = scanner
    BY <1>7 DEF ScanRemove, IInv
  <2> HIDE DEF k
  <2> QED
    BY <2>1, <2>2, <2>3, RemoveIInv
<1>8. CASE UNCHANGED vars
  BY <1>8 DEF vars, IInv, Ordered, MemoryBound
<1> QED
  BY <1>1, <1>2, <1>3, <1>4, <1>5, <1>6, <1>7, <1>8 DEF Next

\* IInv is an invariant.
LEMMA SpecIInv == Spec => []IInv
  BY InitIInv, NextIInv, PTL DEF Spec

\* What the interface is asked and answers has its type.
LEMMA NextCalls == IInv /\ CallTyped /\ [Next]_vars => CallTyped'
<1> USE Zenon
<1> SUFFICES ASSUME IInv, call \in LastCalls, [Next]_vars PROVE call' \in LastCalls
  BY SMT DEF CallTyped
<1>1. ASSUME NEW k \in Key, NEW v \in Value, NEW ttl \in 0 .. MaxTime, Set(k, v, ttl)
      PROVE  call' \in LastCalls
  BY <1>1 DEF Set, LastCalls, Time
<1>2. ASSUME NEW k \in Key, Get(k) PROVE call' \in LastCalls
  <2>1. ASSUME NEW x \in Value \union {None}, call' = [op |-> "get", key |-> k, reply |-> x]
        PROVE  call' \in LastCalls
    BY <2>1 DEF LastCalls
  <2>2. CASE call' = [op |-> "get", key |-> k, reply |-> None]
    BY <2>1, <2>2
  <2>3. CASE /\ Hit(table, k, now)
             /\ call' = [op |-> "get", key |-> k, reply |-> EntryOf(table, k).value]
    <3>1. k \in Held(table) /\ View(table)[k] = EntryOf(table, k) /\ Chained(table)
      BY <2>3, AccessStep DEF IInv, TInv
    <3>2. EntryOf(table, k) \in Entries
      BY <3>1, ViewIs
    <3>3. EntryOf(table, k).value \in Value
      BY <3>2 DEF Entries
    <3> QED
      BY <2>1, <2>3, <3>3
  <2> QED
    BY <1>2, <2>2, <2>3 DEF Get
<1>3. ASSUME NEW k \in Key, Delete(k) PROVE call' \in LastCalls
  <2>1. Found(table, k) \in BOOLEAN
    BY DEF Found
  <2> QED
    BY <1>3, <2>1 DEF Delete, LastCalls
<1>4. CASE call' = NoCall
  BY <1>4 DEF LastCalls
<1>5. CASE Tick \/ StartScanner \/ StopScanner \/ (\E picks \in Picks : ScanSample(picks)) \/ ScanRemove
  BY <1>4, <1>5 DEF Tick, StartScanner, StopScanner, ScanSample, ScanRemove
<1>6. CASE UNCHANGED vars
  BY <1>6 DEF vars
<1> QED
  BY <1>1, <1>2, <1>3, <1>5, <1>6 DEF Next

\* The last call is always one of the interface.
LEMMA SpecCalls == Spec => []CallTyped
<1>1. Init => CallTyped
  BY Zenon DEF Init, LastCalls, CallTyped
<1> QED
  BY <1>1, NextCalls, SpecIInv, PTL DEF Spec

-----------------------------------------------------------------------------
(* The invariants. *)

\* The variables of the table and its scanner keep their types: every entry has
\* a key, a value, a counter and an expiry, num_entries_ is between 0 and the
\* number of keys and current_memory_ never goes below 0.
THEOREM TypeCorrect == Spec => []TypeOK
  BY SpecIInv, SpecCalls, IInvTypeOK, PTL

\* Through every sequence of inserts, updates, removals, evictions and rehashes,
\* whatever the hash function, each key is in one place only, the one a lookup
\* inspects, and num_entries_ counts the keys.
THEOREM ChainsAreConsistent == Spec => []ChainsConsistent
  BY SpecIInv, IInvChainsConsistent, PTL

\* The eviction policy (the list of LRU, the counters of LFU) tracks exactly the
\* keys of the table, and current_memory_ is the size of their values.
THEOREM PolicyIsInStep == Spec => []PolicyTracksTable
  BY SpecIInv, IInvPolicyTracksTable, PTL

\* Lazy deletion in LFU's heap never runs out of candidates: every key of the
\* table has a valid heap entry.
THEOREM HeapCovers == Spec => []HeapCoversKeys
  BY SpecIInv, IInvHeapCoversKeys, PTL

\* evict_if_needed brings the memory down to the limit before an insert stores
\* its value, so the limit is overshot by one value at most.
THEOREM MemoryIsBounded == Spec => []MemoryBound
<1>1. IInv => MemoryBound
  BY Zenon DEF IInv
<1> QED
  BY SpecIInv, <1>1, PTL

-----------------------------------------------------------------------------
(* What an insert evicts. *)

\* The action of EvictsColdest.
ColdestEvicted ==
  call'.op = "set" =>
     \A i \in Keys \ Keys', j \in (Keys \intersect Keys') \ {call'.key} : Colder(i, j)

\* What the policy would rather evict is colder: less used, or used longer ago.
LEMMA BeforeColder ==
  ASSUME IInv, NEW i \in Held(table), NEW j \in Held(table), Before(table.pol, i, j)
  PROVE  Colder(i, j)
<1> USE Zenon
<1>1. CASE table.pol.policy = "LFU"
  <2>1. Chained(table) /\ Counted(table.pol.count, View(table))
    BY <1>1 DEF IInv, TInv, Books
  <2>2. DOMAIN View(table) = Held(table) /\ \A k \in Held(table) : View(table)[k] = EntryOf(table, k)
    BY <2>1, ViewIs
  <2>3. \A k \in Held(table) : table.pol.count[k] = EntryOf(table, k).count
    BY <2>1, <2>2 DEF Counted
  <2> QED
    BY <1>1, <2>3 DEF Before, Colder
<1>2. CASE table.pol.policy # "LFU"
  BY <1>2, OlderIs DEF Before, Colder
<1> QED
  BY <1>1, <1>2

\* engine_set evicts the coldest.
LEMMA SetColdest ==
  ASSUME IInv, NEW k \in Key, NEW x \in Value, NEW ttl \in 0 .. MaxTime, Set(k, x, ttl)
  PROVE  ColdestEvicted
<1> USE Zenon
<1>1. PICK v, e : SetOutcome(v, k, e)
  BY SetStep
<1>2. /\ TInv(table') /\ View(table') = Store(View(v), k, e)
      /\ Held(table') = Held(v) \union {k} /\ TInv(v)
  BY <1>1 DEF SetOutcome, PutIn
<1>3. /\ Held(v) \subseteq Held(table) /\ \A j \in Held(v) : View(v)[j] = View(table)[j]
      /\ \A i \in Held(table) \ Held(v), j \in Held(v) : Before(table.pol, i, j)
  BY <1>1 DEF SetOutcome, Evicting
<1>4. Keys = Held(table) /\ Keys' = Held(table')
  <2>1. Chained(table) /\ Chained(table')
    BY <1>2 DEF IInv, TInv
  <2> QED
    BY <2>1, KeysOf DEF Keys, Stored
<1>5. call'.key = k
  BY DEF Set
<1>6. ASSUME NEW i \in Keys \ Keys', NEW j \in (Keys \intersect Keys') \ {call'.key}
      PROVE  Colder(i, j)
  <2>1. i \in Held(table) \ Held(v) /\ i \in Held(table)
    BY <1>2, <1>4
  <2>2. j \in Held(v) /\ j \in Held(table)
    BY <1>2, <1>4, <1>5
  <2>3. Before(table.pol, i, j)
    BY <1>3, <2>1, <2>2
  <2> QED
    BY <2>1, <2>2, <2>3, BeforeColder
<1> QED
  BY <1>6 DEF ColdestEvicted

\* Every step evicts the coldest, if anything.
LEMMA NextColdest == IInv /\ [Next]_vars => [ColdestEvicted]_vars
<1> USE Zenon
<1> SUFFICES ASSUME IInv, [Next]_vars PROVE [ColdestEvicted]_vars
  BY SMT
<1>1. ASSUME NEW k \in Key, NEW v \in Value, NEW ttl \in 0 .. MaxTime, Set(k, v, ttl)
      PROVE  ColdestEvicted
  BY <1>1, SetColdest
<1>2. ASSUME call'.op \in {"get", "delete", "none"} PROVE ColdestEvicted
  <2>1. call'.op # "set"
    BY <1>2, SMT
  <2> QED
    BY <2>1 DEF ColdestEvicted
<1>3. ASSUME NEW k \in Key, Get(k) PROVE ColdestEvicted
  <2>1. PICK x : call' = [op |-> "get", key |-> k, reply |-> x]
    BY <1>3 DEF Get
  <2>2. call'.op = "get"
    BY <2>1
  <2> QED
    BY <1>2, <2>2
<1>4. ASSUME NEW k \in Key, Delete(k) PROVE ColdestEvicted
  <2>1. call'.op = "delete"
    BY <1>4 DEF Delete
  <2> QED
    BY <1>2, <2>1
<1>5. CASE Tick \/ StartScanner \/ StopScanner \/ (\E picks \in Picks : ScanSample(picks)) \/ ScanRemove
  <2>1. call' = NoCall
    BY <1>5 DEF Tick, StartScanner, StopScanner, ScanSample, ScanRemove
  <2>2. call'.op = "none"
    BY <2>1 DEF NoCall
  <2> QED
    BY <1>2, <2>2
<1> QED
  BY <1>1, <1>3, <1>4, <1>5 DEF Next

\* Under LRU and LFU alike, and through any history of sets, gets, deletes and
\* scans, a key that insert evicts is colder than every key that it keeps.
THEOREM EvictsTheColdest == Spec => EvictsColdest
  BY SpecIInv, NextColdest, PTL DEF Spec, EvictsColdest, ColdestEvicted

-----------------------------------------------------------------------------
(* The table implements KVCache. *)

\* What a caller sees of a table is its map.
LEMMA ShownIs ==
  ASSUME NEW t, Chained(t)
  PROVE  /\ \A k \in Held(t) : /\ k \in Key /\ Contents(t)[k] # None
                               /\ Contents(t)[k].value = View(t)[k].value
                               /\ Contents(t)[k].expiry = View(t)[k].expiry
         /\ \A k \in Key : k \notin Held(t) => Contents(t)[k] = None
         /\ Cache!Present(Contents(t)) = Held(t)
<1> USE Zenon
<1> DEFINE s == Contents(t)
<1>1. \A k \in Key : s[k] = Seen(t, k)
  BY DEF Contents
<1>2. View(t) \in [Held(t) -> Entries] /\ Held(t) \subseteq Key
  BY ViewIs
<1> HIDE DEF s
<1>3. ASSUME NEW k \in Held(t)
      PROVE  /\ k \in Key /\ s[k] # None
             /\ s[k].value = View(t)[k].value /\ s[k].expiry = View(t)[k].expiry
  <2> DEFINE e == View(t)[k]
             x == [value |-> e.value, expiry |-> e.expiry]
  <2>1. k \in Key /\ e \in Entries
    BY <1>2
  <2>2. s[k] = x
    BY <1>1, <2>1, SeenIs
  <2> HIDE DEF e
  <2>3. x \in [value : Value, expiry : Nat] /\ x.value = e.value /\ x.expiry = e.expiry
    BY <2>1 DEF Entries
  <2>4. x # None
    BY <2>3, TableConstants
  <2> QED
    BY <2>1, <2>2, <2>3, <2>4 DEF e
<1>4. \A k \in Key : k \notin Held(t) => s[k] = None
  BY <1>1, SeenIs
<1>5. Cache!Present(s) = Held(t)
  BY <1>3, <1>4 DEF Cache!Present
<1> QED
  BY <1>3, <1>4, <1>5 DEF s

\* Equal values are shown as equal, missing ones as missing.
LEMMA ShownSame ==
  ASSUME NEW t, NEW u, Chained(t), Chained(u), NEW k \in Key, k \in Held(t) <=> k \in Held(u),
         k \in Held(t) => /\ View(u)[k].value = View(t)[k].value
                          /\ View(u)[k].expiry = View(t)[k].expiry
  PROVE  Contents(t)[k] = Contents(u)[k]
<1> USE Zenon
<1>1. Contents(t)[k] = Seen(t, k) /\ Contents(u)[k] = Seen(u, k)
  BY DEF Contents
<1>2. CASE k \in Held(t)
  <2>1. k \in Held(u)
    BY <1>2
  <2>2. Seen(t, k) = [value |-> View(t)[k].value, expiry |-> View(t)[k].expiry]
    BY <1>2, SeenIs
  <2>3. Seen(u, k) = [value |-> View(u)[k].value, expiry |-> View(u)[k].expiry]
    BY <2>1, SeenIs
  <2> QED
    BY <1>1, <1>2, <2>2, <2>3
<1>3. CASE k \notin Held(t)
  BY <1>1, <1>3, SeenIs
<1> QED
  BY <1>2, <1>3

\* KVCache measures the memory as the table does.
LEMMA UsedIs ==
  ASSUME NEW t, Chained(t), NEW K \in SUBSET Held(t)
  PROVE  Cache!Used(Contents(t), K) = Bytes(View(t), K)
<1> USE Zenon
<1>1. \A k \in K : Contents(t)[k].value = View(t)[k].value
  BY ShownIs
<1>2. {{k} \X (1 .. Size[Contents(t)[k].value]) : k \in K}
        = {{k} \X (1 .. Size[View(t)[k].value]) : k \in K}
  BY <1>1
<1>3. /\ Cache!Used(Contents(t), K)
           = Cardinality(UNION {{k} \X (1 .. Size[Contents(t)[k].value]) : k \in K})
      /\ Bytes(View(t), K) = Cardinality(UNION {{k} \X (1 .. Size[View(t)[k].value]) : k \in K})
  BY DEF Cache!Used, Bytes, Cells, Cache!Cardinality, Cardinality
<1> QED
  BY <1>2, <1>3

\* evict_if_needed forgets enough, and no more than needed.
LEMMA EvictedEnough ==
  ASSUME NEW t, NEW v, TInv(t), TInv(v), Evicting(v, t), v.pol.mem <= MemoryLimit
  PROVE  Cache!Enough(Contents(t), Held(t) \ Held(v))
<1> USE Zenon
<1> DEFINE s == Contents(t)
           lost == Held(t) \ Held(v)
           kept == Cache!Present(s) \ lost
<1>1. Chained(t) /\ Chained(v) /\ v.pol.mem = Bytes(View(v), DOMAIN View(v))
  BY DEF TInv, Books
<1>2. /\ Held(v) \subseteq Held(t) /\ \A k \in Held(v) : View(v)[k] = View(t)[k]
      /\ lost # {} => \E k \in lost : Bytes(View(t), Held(v) \union {k}) > MemoryLimit
  BY DEF Evicting
<1>3. Cache!Present(s) = Held(t) /\ DOMAIN View(v) = Held(v)
  BY <1>1, ShownIs, ViewIs
<1>4. kept = Held(v)
  BY <1>2, <1>3
<1>5. Cache!Used(s, kept) <= MemoryLimit
  <2>1. Cache!Used(s, Held(v)) = Bytes(View(t), Held(v))
    BY <1>1, <1>2, UsedIs
  <2>2. Bytes(View(v), Held(v)) = Bytes(View(t), Held(v))
    <3> DEFINE m == View(v)
               w == View(t)
               K == Held(v)
    <3>1. \A k \in K : m[k].value = w[k].value
      BY <1>2
    <3> HIDE DEF m, w, K
    <3>2. Bytes(m, K) = Bytes(w, K)
      BY <3>1, BytesSame
    <3> QED
      BY <3>2 DEF m, w, K
  <2> QED
    BY <1>1, <1>3, <1>4, <2>1, <2>2
<1>6. ASSUME lost # {} PROVE \E k \in lost : Cache!Used(s, kept \union {k}) > MemoryLimit
  <2>1. PICK k \in lost : Bytes(View(t), Held(v) \union {k}) > MemoryLimit
    BY <1>2, <1>6
  <2>2. Held(v) \union {k} \in SUBSET Held(t)
    BY <1>2
  <2>3. Cache!Used(s, Held(v) \union {k}) = Bytes(View(t), Held(v) \union {k})
    BY <1>1, <2>2, UsedIs
  <2> QED
    BY <1>4, <2>1, <2>3
<1> QED
  BY <1>5, <1>6 DEF Cache!Enough

\* engine_set stores what it is given, as a Put of KVCache does.
LEMMA SetShown ==
  ASSUME IInv, NEW k \in Key, NEW x \in Value, NEW ttl \in 0 .. MaxTime, Set(k, x, ttl)
  PROVE  Cache!Put(Contents(table), Contents(table'), k,
                   [value |-> x, expiry |-> IF ttl > 0 THEN now + ttl ELSE 0])
<1> USE Zenon
<1> DEFINE s == Contents(table)
           t == Contents(table')
           gone == {j \in Cache!Present(s) \ {k} : t[j] = None}
<1>1. PICK v, e : SetOutcome(v, k, e) /\ e \in Entries /\ Given(e, x, ttl)
  BY SetStep
<1>2. /\ TInv(table') /\ View(table') = Store(View(v), k, e)
      /\ Held(table') = Held(v) \union {k} /\ TInv(v) /\ Evicting(v, table)
      /\ v.pol.mem <= MemoryLimit
  BY <1>1 DEF SetOutcome, PutIn
<1>3. TInv(table) /\ Chained(table) /\ Chained(table') /\ Chained(v)
  BY <1>2 DEF IInv, TInv
<1>4. /\ Held(v) \subseteq Held(table) /\ \A j \in Held(v) : View(v)[j] = View(table)[j]
  BY <1>2 DEF Evicting
<1>5. DOMAIN View(v) = Held(v)
  BY <1>3, ViewIs
<1>6. /\ View(table')[k] = e
      /\ \A j \in Held(v) : j # k => View(table')[j] = View(table)[j]
  BY <1>2, <1>4, <1>5 DEF Store
<1>7. Cache!Present(s) = Held(table)
  BY <1>3, ShownIs
<1>8. /\ \A j \in Held(table') : t[j] # None
      /\ \A j \in Key : j \notin Held(table') => t[j] = None
  BY <1>3, ShownIs
<1>9. t[k] = [value |-> x, expiry |-> IF ttl > 0 THEN now + ttl ELSE 0]
  <2>1. k \in Held(table') /\ t[k] = Seen(table', k)
    BY <1>2 DEF Contents
  <2>2. t[k] = [value |-> e.value, expiry |-> e.expiry]
    BY <1>3, <1>6, <2>1, SeenIs
  <2> QED
    BY <1>1, <2>2 DEF Given
<1>10. Held(table) \subseteq Key
  BY DEF Held
<1>11. gone = (Held(table) \ Held(v)) \ {k}
  <2>1. \A j \in Held(table) \ {k} : t[j] = None <=> j \notin Held(v)
    BY <1>2, <1>8, <1>10
  <2> QED
    BY <1>7, <2>1
<1>12. Cache!Agree(s, t, Key \ (gone \union {k}))
  <2>1. ASSUME NEW j \in Key \ (gone \union {k}) PROVE s[j] = t[j]
    <3>1. j # k /\ (j \in Held(table) => j \in Held(v))
      BY <1>11
    <3>2. j \in Held(table) <=> j \in Held(table')
      BY <1>2, <1>4, <3>1
    <3>3. j \in Held(table) => View(table')[j] = View(table)[j]
      BY <1>6, <3>1
    <3> QED
      BY <1>3, <3>2, <3>3, ShownSame
  <2> QED
    BY <2>1 DEF Cache!Agree
<1>13. Cache!Enough(s, gone) \/ Cache!Enough(s, gone \union ({k} \intersect Cache!Present(s)))
  <2>1. Cache!Enough(s, Held(table) \ Held(v))
    BY <1>2, <1>3, EvictedEnough
  <2>2. gone = Held(table) \ Held(v)
          \/ gone \union ({k} \intersect Cache!Present(s)) = Held(table) \ Held(v)
    BY <1>7, <1>11
  <2> QED
    BY <2>1, <2>2
<1> HIDE DEF s, t
<1> QED
  BY <1>1, <1>9, <1>12, <1>13 DEF Cache!Put, s, t

\* remove is a removal in KVCache.
LEMMA RemoveShown ==
  ASSUME IInv, NEW k \in Key, RemoveOutcome(k)
  PROVE  Cache!Without(Contents(table), Contents(table'), k)
<1> USE Zenon
<1>1. /\ TInv(table') /\ Held(table') = Held(table) \ {k}
      /\ \A j \in Held(table') : View(table')[j] = View(table)[j]
  BY DEF RemoveOutcome
<1>2. Chained(table) /\ Chained(table')
  BY <1>1 DEF IInv, TInv
<1>3. Contents(table')[k] = None
  BY <1>1, <1>2, ShownIs
<1>4. ASSUME NEW j \in Key \ {k} PROVE Contents(table)[j] = Contents(table')[j]
  <2>1. j \in Held(table) <=> j \in Held(table')
    BY <1>1
  <2> QED
    BY <1>1, <1>2, <2>1, ShownSame
<1> QED
  BY <1>3, <1>4 DEF Cache!Without, Cache!Agree

\* A hit shows a caller the same map.
LEMMA AccessShown ==
  ASSUME IInv, NEW k \in Key, Hit(table, k, now), table' = Accessed(table, k)
  PROVE  Contents(table') = Contents(table)
<1> USE Zenon
<1>1. PICK e : AccessOutcome(table', k, e)
  BY AccessStep
<1>2. /\ TInv(table') /\ View(table') = Store(View(table), k, e)
      /\ Held(table') = Held(table) \union {k}
      /\ e.value = View(table)[k].value /\ e.expiry = View(table)[k].expiry
  BY <1>1 DEF AccessOutcome, PutIn
<1>3. Chained(table) /\ Chained(table') /\ k \in Held(table)
  BY <1>2, AccessStep DEF IInv, TInv
<1>4. DOMAIN View(table) = Held(table)
  BY <1>3, ViewIs
<1>5. View(table')[k] = e /\ \A j \in Held(table) : j # k => View(table')[j] = View(table)[j]
  BY <1>2, <1>4 DEF Store
<1>6. ASSUME NEW j \in Key PROVE Contents(table)[j] = Contents(table')[j]
  <2>1. j \in Held(table) <=> j \in Held(table')
    BY <1>2, <1>3
  <2>2. j \in Held(table) => /\ View(table')[j].value = View(table)[j].value
                             /\ View(table')[j].expiry = View(table)[j].expiry
    BY <1>2, <1>5
  <2> QED
    BY <1>3, <2>1, <2>2, ShownSame
<1>7. \A j \in Key : Seen(table, j) = Seen(table', j)
  BY <1>6 DEF Contents
<1> QED
  BY <1>7 DEF Contents

\* What a lookup reads in the table is what KVCache reads in the map.
LEMMA LookupIs ==
  ASSUME IInv, NEW k \in Key, NEW time
  PROVE  /\ Found(table, k) <=> Contents(table)[k] # None
         /\ Cache!Expired(Contents(table), k, time)
              <=> Found(table, k) /\ IsExpired(EntryOf(table, k), time)
         /\ Hit(table, k, time)
              => Cache!Lookup(Contents(table), k, time) = EntryOf(table, k).value
         /\ ~Hit(table, k, time) => Cache!Lookup(Contents(table), k, time) = None
<1> USE Zenon
<1> DEFINE s == Contents(table)
<1>1. Chained(table) /\ (k \in Held(table) <=> Found(table, k))
  BY DEF IInv, TInv, Held
<1>2. CASE ~Found(table, k)
  <2>1. s[k] = None
    BY <1>1, <1>2, ShownIs
  <2> QED
    BY <1>2, <2>1 DEF Cache!Expired, Cache!Lookup, Hit
<1>3. CASE Found(table, k)
  <2>1. View(table)[k] = EntryOf(table, k)
    BY <1>1, <1>3, ViewIs
  <2>2. s[k] # None /\ s[k].value = EntryOf(table, k).value /\ s[k].expiry = EntryOf(table, k).expiry
    BY <1>1, <1>3, <2>1, ShownIs
  <2>3. Cache!Expired(s, k, time) <=> IsExpired(EntryOf(table, k), time)
    BY <2>2 DEF Cache!Expired, IsExpired
  <2> QED
    BY <1>3, <2>2, <2>3 DEF Cache!Lookup, Hit
<1> QED
  BY <1>2, <1>3

\* A lookup answers as KVCache does.
LEMMA GetShown == ASSUME IInv, NEW k \in Key, Get(k) PROVE Cache!Get(k) \/ Cache!GetLate(k)
<1> USE Zenon
<1>1. CASE /\ ~Hit(table, k, now)
           /\ call' = [op |-> "get", key |-> k, reply |-> None]
           /\ UNCHANGED <<table, now, scanner, expired, older>>
  <2>1. Cache!Lookup(Contents(table), k, now) = None
    BY <1>1, LookupIs
  <2>2. UNCHANGED <<Contents(table), now, Range(expired)>>
    BY <1>1 DEF Contents, Range
  <2> QED
    BY <1>1, <2>1, <2>2 DEF Cache!Get
<1>2. CASE /\ Hit(table, k, now) /\ table' = Accessed(table, k)
           /\ call' = [op |-> "get", key |-> k, reply |-> EntryOf(table, k).value]
           /\ UNCHANGED <<now, scanner, expired>>
  <2>1. Cache!Lookup(Contents(table), k, now) = EntryOf(table, k).value
    BY <1>2, LookupIs
  <2>2. Contents(table') = Contents(table)
    BY <1>2, AccessShown
  <2>3. UNCHANGED <<Contents(table), now, Range(expired)>>
    BY <1>2, <2>2 DEF Contents, Range
  <2> QED
    BY <1>2, <2>1, <2>3 DEF Cache!Get
<1>3. CASE /\ Hit(table, k, now) /\ IsExpired(EntryOf(table, k), now + 1) /\ now' = now + 1
           /\ table' = Removed(Run(Accessed(table, k)), k).table
           /\ call' = [op |-> "get", key |-> k, reply |-> None]
           /\ UNCHANGED <<scanner, expired>>
  <2>1. Cache!Without(Contents(table), Contents(table'), k)
    BY <1>3, LateStep, RemoveShown
  <2>2. /\ ~Cache!Expired(Contents(table), k, now)
        /\ Cache!Expired(Contents(table), k, now + 1)
    BY <1>3, LookupIs DEF Hit
  <2>3. UNCHANGED Range(expired)
    BY <1>3 DEF Range
  <2>4. Cache!Without(Contents(table), Contents(table)', k)
    BY <2>1 DEF Contents
  <2> QED
    BY <1>3, <2>2, <2>3, <2>4 DEF Cache!GetLate
<1> QED
  BY <1>1, <1>2, <1>3 DEF Get

\* A delete removes its key, and answers whether there was one.
LEMMA DeleteShown == ASSUME IInv, NEW k \in Key, Delete(k) PROVE Cache!Delete(k)
<1> USE Zenon
<1>1. RemoveOutcome(k) /\ now' = now /\ UNCHANGED expired
  BY RemoveStep DEF Delete
<1>2. Cache!Without(Contents(table), Contents(table'), k)
  BY <1>1, RemoveShown
<1>3. Cache!Without(Contents(table), Contents(table)', k)
  BY <1>2 DEF Contents
<1>4. Found(table, k) <=> Contents(table)[k] # None
  BY LookupIs
<1>5. Found(table, k) = (Contents(table)[k] # None)
  BY <1>4 DEF Found
<1>6. call' = [op |-> "delete", key |-> k, reply |-> Contents(table)[k] # None]
  BY <1>5 DEF Delete
<1>7. UNCHANGED Range(expired)
  BY <1>1 DEF Range
<1> QED
  BY <1>1, <1>3, <1>6, <1>7 DEF Cache!Delete

\* The scanner removes only keys it has found expired.
LEMMA ForgetShown == ASSUME IInv, ScanRemove PROVE \E k \in Key : Cache!Forget(k)
<1> USE Zenon
<1> DEFINE k == Head(expired)
<1>1. expired \in Seq(Key) /\ expired # << >> /\ expired' = Tail(expired) /\ call' = NoCall
  BY DEF ScanRemove, IInv
<1>2. k \in Key
  BY <1>1, SMT
<1>3. RemoveOutcome(k) /\ now' = now
  BY <1>2, RemoveStep DEF ScanRemove
<1>4. Cache!Without(Contents(table), Contents(table'), k)
  BY <1>2, <1>3, RemoveShown
<1>5. Cache!Without(Contents(table), Contents(table)', k)
  BY <1>4 DEF Contents
<1>6. k \in Range(expired) /\ Range(expired)' \in {Range(expired), Range(expired) \ {k}}
  <2> DEFINE rest == Tail(expired)
  <2>1. /\ \A i \in DOMAIN expired : i = 1 \/ (i - 1 \in DOMAIN rest /\ rest[i - 1] = expired[i])
        /\ \A i \in DOMAIN rest : i + 1 \in DOMAIN expired /\ rest[i] = expired[i + 1]
        /\ 1 \in DOMAIN expired /\ k = expired[1]
    BY <1>1, SMT
  <2>2. expired' = rest
    BY <1>1
  <2> HIDE DEF k, rest
  <2>3. k \in Range(expired)
    BY <2>1 DEF Range
  <2>4. \A i \in DOMAIN rest : rest[i] \in Range(expired)
    BY <2>1 DEF Range
  <2>5. \A i \in DOMAIN expired : expired[i] = k \/ expired[i] \in Range(rest)
    BY <2>1 DEF Range
  <2>6. Range(rest) \subseteq Range(expired)
    BY <2>4 DEF Range
  <2>7. \A x \in Range(expired) : x = k \/ x \in Range(rest)
    <3> TAKE x \in Range(expired)
    <3>1. PICK i \in DOMAIN expired : x = expired[i]
      BY DEF Range
    <3> QED
      BY <2>5, <3>1
  <2>8. Range(rest) = Range(expired) \/ Range(rest) = Range(expired) \ {k}
    BY <2>3, <2>6, <2>7
  <2>9. Range(expired)' = Range(rest)
    BY <2>2 DEF Range
  <2> QED
    BY <2>3, <2>8, <2>9
<1>7. call' = Cache!NoCall
  BY <1>1 DEF NoCall, Cache!NoCall
<1> HIDE DEF k
<1>8. Cache!Forget(k)
  BY <1>3, <1>5, <1>6, <1>7 DEF Cache!Forget
<1> QED
  BY <1>2, <1>8

\* A scan finds expired keys only.
LEMMA ScanShown == ASSUME IInv, NEW picks \in Picks, ScanSample(picks) PROVE Cache!Scan
<1> USE Zenon
<1>1. expired' \in Seq(Key) /\ \A k \in Range(expired') : k \in Held(table) /\ IsExpired(View(table)[k], now)
  BY SampleIs
<1>2. UNCHANGED table /\ UNCHANGED now /\ call' = NoCall
  BY DEF ScanSample
<1>3. Chained(table)
  BY DEF IInv, TInv
<1>4. ASSUME NEW k \in Range(expired') PROVE k \in Key /\ Cache!Expired(Contents(table), k, now)
  <2>1. k \in Key /\ Found(table, k) /\ k \in Held(table) /\ IsExpired(View(table)[k], now)
    BY <1>1, <1>4 DEF Held
  <2>2. View(table)[k] = EntryOf(table, k)
    BY <1>3, <2>1, ViewIs
  <2> QED
    BY <2>1, <2>2, LookupIs
<1>5. Range(expired)' \subseteq Range(expired) \union {k \in Key : Cache!Expired(Contents(table), k, now)}
  <2>1. Range(expired') \subseteq Range(expired) \union {k \in Key : Cache!Expired(Contents(table), k, now)}
    BY <1>4
  <2>2. Range(expired)' = Range(expired')
    BY DEF Range
  <2> QED
    BY <2>1, <2>2
<1>6. UNCHANGED Contents(table)
  BY <1>2 DEF Contents
<1>7. call' = Cache!NoCall
  BY <1>2 DEF NoCall, Cache!NoCall
<1> QED
  BY <1>2, <1>5, <1>6, <1>7 DEF Cache!Scan

\* Every step is one of KVCache.
LEMMA NextShown == ASSUME IInv, Next PROVE Cache!Next
<1> USE Zenon
<1>1. ASSUME NEW k \in Key, NEW v \in Value, NEW ttl \in 0 .. MaxTime, Set(k, v, ttl)
      PROVE  Cache!Next
  <2>1. Cache!Put(Contents(table), Contents(table'), k,
                  [value |-> v, expiry |-> IF ttl > 0 THEN now + ttl ELSE 0])
    BY <1>1, SetShown
  <2>2. Cache!Put(Contents(table), Contents(table)', k,
                  [value |-> v, expiry |-> IF ttl > 0 THEN now + ttl ELSE 0])
    BY <2>1 DEF Contents
  <2>3. /\ call' = [op |-> "set", key |-> k, value |-> v, ttl |-> ttl]
        /\ UNCHANGED <<now, Range(expired)>>
    BY <1>1 DEF Set, Range
  <2>4. Cache!Set(k, v, ttl)
    BY <2>2, <2>3 DEF Cache!Set
  <2> QED
    BY <2>4 DEF Cache!Next
<1>2. ASSUME NEW k \in Key, Get(k) PROVE Cache!Next
  BY <1>2, GetShown DEF Cache!Next
<1>3. ASSUME NEW k \in Key, Delete(k) PROVE Cache!Next
  BY <1>3, DeleteShown DEF Cache!Next
<1>4. CASE ScanRemove
  BY <1>4, ForgetShown DEF Cache!Next
<1>5. ASSUME NEW picks \in Picks, ScanSample(picks) PROVE Cache!Next
  BY <1>5, ScanShown DEF Cache!Next
<1>6. CASE Tick
  <2>1. /\ UNCHANGED <<Contents(table), Range(expired)>> /\ now' = now + 1 /\ call' = Cache!NoCall
    BY <1>6 DEF Tick, Contents, Range, NoCall, Cache!NoCall
  <2>2. Cache!Tick
    BY <2>1 DEF Cache!Tick
  <2> QED
    BY <2>2 DEF Cache!Next
<1>7. CASE StartScanner \/ StopScanner
  <2>1. /\ UNCHANGED <<Contents(table), now>> /\ UNCHANGED Range(expired) /\ call' = Cache!NoCall
    BY <1>7 DEF StartScanner, StopScanner, Contents, Range, NoCall, Cache!NoCall
  <2>2. Cache!Scan
    BY <2>1 DEF Cache!Scan
  <2> QED
    BY <2>2 DEF Cache!Next
<1> QED
  BY <1>1, <1>2, <1>3, <1>4, <1>5, <1>6, <1>7 DEF Next

\* Chains, rehashing, counters, lists and heaps are invisible to a caller. A get
\* answers with what the last set of its key stored and drops nothing, a delete
\* removes its key and no other, a set evicts other keys only under memory pressure
\* and no more of them than needed, and no other key is ever lost than one that a
\* lookup or a scan has found expired.
THEOREM ImplementsKVCache == Spec => CacheSpec
<1> USE Zenon
<1>1. Init => Cache!Init
  <2> SUFFICES ASSUME Init PROVE Cache!Init
    BY SMT
  <2>1. PICK q \in Policies : table = NewTable(q)
    BY DEF Init
  <2>2. q \in {"LRU", "LFU"}
    BY ScannerConstants, SMT
  <2>3. Held(table) = {} /\ Chained(table)
    BY <2>1, <2>2, NewTableInv DEF TInv
  <2>4. \A k \in Key : Seen(table, k) = None
    BY <2>3, SeenIs
  <2>5. now = 0 /\ call = Cache!NoCall /\ expired = << >>
    BY DEF Init, NoCall, Cache!NoCall
  <2>6. Range(expired) = {}
    BY <2>5, SMT DEF Range
  <2>7. Contents(table) = [k \in Key |-> None]
    BY <2>4 DEF Contents
  <2> QED
    BY <2>5, <2>6, <2>7 DEF Cache!Init
<1>2. IInv /\ [Next]_vars => [Cache!Next]_Cache!vars
  <2> SUFFICES ASSUME IInv, [Next]_vars PROVE [Cache!Next]_Cache!vars
    BY SMT
  <2>1. CASE Next
    BY <2>1, NextShown
  <2>2. CASE UNCHANGED vars
    BY <2>2 DEF vars, Cache!vars, Contents, Range
  <2> QED
    BY <2>1, <2>2
<1> QED
  BY <1>1, <1>2, SpecIInv, PTL DEF Spec, CacheSpec, Cache!Spec

=============================================================================
