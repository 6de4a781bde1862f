----------------------------- MODULE HashTable -----------------------------
(***************************************************************************)
(* A table behind the C interface of engine/src/engine.cpp, and its TTL    *)
(* scanner thread. The two interleave at whole calls of engine_set,        *)
(* engine_get, engine_delete and remove. (They share the table without a   *)
(* lock; the data race itself has no meaning to model.)                    *)
(***************************************************************************)
EXTENDS TableOps

CONSTANTS
    Policies,         \* the eviction policies to construct tables with
    SampleSize,       \* buckets looked at by a scan
    MaxCount,         \* bound on access_count
    MaxTime           \* bound on the clock

ASSUME ScannerConstants ==
    /\ Policies \subseteq {"LRU", "LFU"}
    /\ {SampleSize, MaxCount, MaxTime} \subseteq Nat

VARIABLES
    table,      \* buckets_ and the policy
    now,        \* the steady clock
    scanner,    \* is the scanner thread running?
    expired,    \* expired_keys of the scan in progress
    call,       \* the call that was made in the last step, and its answer
    older       \* history, LRU only: the pairs of keys present of which the first
                \* was used before the second

vars == <<table, now, scanner, expired, call, older>>

Time == 0 .. MaxTime

\* A step that is not a call of the C interface.
NoCall == [op |-> "none"]

\* The history after a step in which the keys used (at most one) were used.
Using(used) ==
    LET present == {k \in Key : Found(table', k)}
    IN  IF table.pol.policy = "LFU" THEN {}
        ELSE {p \in present \X present :
                p[1] # p[2] /\ p[1] \notin used /\ (p[2] \in used \/ p \in older)}

-----------------------------------------------------------------------------
\* engine_create takes the default policy and limit; tables with others are
\* constructed by the tests, the benchmarks and the sharded engines.
Init ==
    /\ \E p \in Policies : table = NewTable(p)
    /\ now = 0
    /\ scanner = "stopped"
    /\ expired = << >>
    /\ call = NoCall
    /\ older = {}

\* engine_set; ttl 0 is "no expiry".
Set(k, v, ttl) ==
    /\ now + ttl <= MaxTime
    /\ \E r \in Inserted(Run(table), k, Entry(v, IF ttl > 0 THEN now + ttl ELSE 0)) :
          table' = r.table
    /\ call' = [op |-> "set", key |-> k, value |-> v, ttl |-> ttl]
    /\ older' = Using({k})
    /\ UNCHANGED <<now, scanner, expired>>

\* engine_get. It reads the clock a second time after HashTable::get: the entry
\* may have expired in between, and is then removed.
Get(k) ==
    \/ /\ ~Hit(table, k, now)
       /\ call' = [op |-> "get", key |-> k, reply |-> None]
       /\ UNCHANGED <<table, now, scanner, expired, older>>
    \/ /\ Hit(table, k, now)
       /\ EntryOf(table, k).count < MaxCount
       /\ table' = Accessed(table, k)
       /\ call' = [op |-> "get", key |-> k, reply |-> EntryOf(table, k).value]
       /\ older' = Using({k})
       /\ UNCHANGED <<now, scanner, expired>>
    \/ /\ Hit(table, k, now)
       /\ now < MaxTime
       /\ IsExpired(EntryOf(table, k), now + 1)
       /\ now' = now + 1
       /\ table' = Removed(Run(Accessed(table, k)), k).table
       /\ call' = [op |-> "get", key |-> k, reply |-> None]
       /\ older' = Using({k})
       /\ UNCHANGED <<scanner, expired>>

\* engine_delete
Delete(k) ==
    /\ table' = Removed(Run(table), k).table
    /\ call' = [op |-> "delete", key |-> k, reply |-> Found(table, k)]
    /\ older' = Using({})
    /\ UNCHANGED <<now, scanner, expired>>

Tick ==
    /\ now < MaxTime
    /\ now' = now + 1
    /\ call' = NoCall
    /\ UNCHANGED <<table, scanner, expired, older>>

StartScanner ==
    /\ scanner = "stopped"
    /\ scanner' = "running"
    /\ call' = NoCall
    /\ UNCHANGED <<table, now, expired, older>>

\* stop_ttl_scanner returns when the thread has left its loop.
StopScanner ==
    /\ scanner = "running"
    /\ expired = << >>
    /\ scanner' = "stopped"
    /\ call' = NoCall
    /\ UNCHANGED <<table, now, expired, older>>

\* Mutant: every key of the sampled buckets is taken for expired.
ScanSample_All(picks) ==
    /\ scanner = "running"
    /\ expired = << >>
    /\ LET seen == UNION {{i} \X DOMAIN table.buckets[picks[i]] : i \in DOMAIN picks}
           all == Listing(seen)
       IN  expired' = [i \in DOMAIN all |-> table.buckets[picks[all[i][1]]][all[i][2]].key]
    /\ call' = NoCall
    /\ UNCHANGED <<table, now, scanner, older>>

\* The first half of scan_expired_keys: expired keys of the sampled buckets.
ScanSample(picks) ==
    /\ scanner = "running"
    /\ expired = << >>
    /\ LET seen == UNION {{i} \X DOMAIN table.buckets[picks[i]] : i \in DOMAIN picks}
           kv(p) == table.buckets[picks[p[1]]][p[2]]
           dead == Listing({p \in seen : IsExpired(kv(p).entry, now)})
       IN  expired' = [i \in DOMAIN dead |-> kv(dead[i]).key]
    /\ call' = NoCall
    /\ UNCHANGED <<table, now, scanner, older>>

\* The second half, one key at a time: by now the key may hold another value.
ScanRemove ==
    /\ expired # << >>
    /\ table' = Removed(Run(table), Head(expired)).table
    /\ expired' = Tail(expired)
    /\ call' = NoCall
    /\ older' = Using({})
    /\ UNCHANGED <<now, scanner>>

Picks == [1 .. SampleSize -> DOMAIN table.buckets]

Next ==
    \/ \E k \in Key, v \in Value, ttl \in 0 .. MaxTime : Set(k, v, ttl)
    \/ \E k \in Key : Get(k)
    \/ \E k \in Key : Delete(k)
    \/ Tick
    \/ StartScanner
    \/ StopScanner
    \/ \E picks \in Picks : ScanSample(picks)
    \/ ScanRemove

Spec == Init /\ [][Next]_vars

-----------------------------------------------------------------------------
Stored == Pairs(table)

Keys == {kv.key : kv \in Stored}

LastCalls ==
    {NoCall} \union [op : {"set"}, key : Key, value : Value, ttl : Time]
             \union [op : {"get"}, key : Key, reply : Value \union {None}]
             \union [op : {"delete"}, key : Key, reply : BOOLEAN]

\* The values each variable takes.
TypeOK ==
    /\ \A kv \in Stored :
          /\ kv.key \in Key
          /\ kv.entry \in [value : Value, count : 0 .. MaxCount, expiry : Time]
    /\ table.entries \in 0 .. Cardinality(Key)
    /\ table.pol.mem \in Nat
    /\ now \in Time
    /\ scanner \in {"stopped", "running"}
    /\ expired \in Seq(Key)
    /\ call \in LastCalls

\* Through updates, evictions and rehashing each key is in one place only, the one
\* a lookup inspects, and num_entries_ counts them.
ChainsConsistent ==
    /\ \A b \in DOMAIN table.buckets : \A i \in DOMAIN table.buckets[b] :
          BucketOf(table, table.buckets[b][i].key) = b
    /\ \A b \in DOMAIN table.buckets :
          Len(table.buckets[b]) = Cardinality({kv.key : kv \in Range(table.buckets[b])})
    /\ table.entries = Cardinality(Keys)

\* The policy and the table never drift apart: it tracks exactly the keys of the
\* table, each once, its counters are theirs and current_memory_ is the size of
\* their values.
PolicyTracksTable ==
    LET p == table.pol
    IN  /\ Tracked(p) = Keys
        /\ p.policy = "LRU" => Len(p.list) = Cardinality(Keys)
        /\ p.policy = "LFU" => \A k \in Keys : p.count[k] = EntryOf(table, k).count
        /\ p.mem = Cardinality(UNION {{k} \X (1 .. Size[EntryOf(table, k).value]) : k \in Keys})

\* Lazy deletion never runs out of candidates: a tracked key always has a valid
\* entry in the heap, so evict_if_needed can bring the memory below the limit.
HeapCoversKeys ==
    table.pol.policy = "LFU" => {e[1] : e \in Valid(table.pol)} = Keys

\* Room is made before an insert, not after: the memory limit is overshot by one
\* value at most.
MemoryBound ==
    \E v \in Value : table.pol.mem <= MemoryLimit + Size[v]

\* Key k is a better victim than j: used less often, or less recently.
Colder(k, j) ==
    IF table.pol.policy = "LFU"
      THEN EntryOf(table, k).count <= EntryOf(table, j).count
      ELSE <<k, j>> \in older

\* Through any history of sets, gets and deletes, an insert evicts the coldest
\* keys: one that it evicts is colder than every other key that it keeps.
EvictsColdest ==
    [][call'.op = "set" =>
          \A i \in Keys \ Keys', j \in (Keys \intersect Keys') \ {call'.key} : Colder(i, j)]_vars

\* The table implements a map that forgets only what it must (KVCache): a key goes
\* when it is deleted, when room is needed for a set, when it expires during a
\* lookup, or, set again or not, after a scan has found it expired.
Cache == INSTANCE KVCache WITH store <- Contents(table), doomed <- Range(expired)

CacheSpec == Cache!Spec

=============================================================================
