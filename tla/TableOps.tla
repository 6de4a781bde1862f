------------------------------ MODULE TableOps ------------------------------
(***************************************************************************)
(* The operations of engine/src/hash_table.cpp, as operators on a run r of *)
(* its code: r.table is the table, r.log the records handed to             *)
(* wal_writer_->append so far. One that may go several ways yields the set *)
(* of its outcomes. A table is a record                                    *)
(*                                                                         *)
(*   buckets   buckets_, a sequence of chains of [key, entry]              *)
(*   entries   num_entries_                                                *)
(*   pol       the eviction policy (EvictionPolicy)                        *)
(***************************************************************************)
EXTENDS EvictionPolicy

CONSTANTS
    Value,
    Size,             \* Size[v]: v.size()
    Hash,             \* Hash[k]: hash(k)
    None,             \* std::nullopt
    InitialCapacity

ASSUME TableConstants ==
    /\ Size \in [Value -> Nat]
    /\ Hash \in [Key -> Nat]
    /\ Value # {}
    /\ None \notin Value \union [value : Value, expiry : Nat]
    /\ InitialCapacity \in Nat

Entry(v, expiry) == [value |-> v, count |-> 0, expiry |-> expiry]

IsExpired(e, t) == e.expiry # 0 /\ t >= e.expiry

Doubled[i \in Nat] == IF i = 0 THEN 1 ELSE 2 * Doubled[i - 1]

\* 1, doubled until it is not below n.
Capacity(n) ==
    Doubled[CHOOSE i \in 0 .. n : Doubled[i] >= n /\ \A j \in 0 .. i - 1 : Doubled[j] < n]

NewTable(policy) ==
    [buckets |-> [i \in 1 .. Capacity(InitialCapacity) |-> << >>],
     entries |-> 0, pol |-> NewPolicy(policy)]

BucketOf(t, k) == (Hash[k] % Len(t.buckets)) + 1

Found(t, k) ==
    LET chain == t.buckets[BucketOf(t, k)]
    IN  \E i \in DOMAIN chain : chain[i].key = k

\* Where a search of chain from its beginning finds k.
First(chain, k) ==
    CHOOSE i \in DOMAIN chain : chain[i].key = k /\ \A j \in 1 .. i - 1 : chain[j].key # k

\* The entry a lookup of k finds.
EntryOf(t, k) ==
    LET chain == t.buckets[BucketOf(t, k)]
    IN  chain[First(chain, k)].entry

\* Replace the entry of k in place.
SetEntry(t, k, e) ==
    [t EXCEPT !.buckets[BucketOf(t, k)] =
        [@ EXCEPT ![First(@, k)] = [key |-> k, entry |-> e]]]

\* What the chains hold.
Pairs(t) == UNION {Range(t.buckets[b]) : b \in DOMAIN t.buckets}

\* The elements of S in some order.
Listing(S) == CHOOSE s \in [1 .. Cardinality(S) -> S] : IsInjective(s)

\* Mutant: entries keep their bucket number when the table grows.
Rehash_SameBucket(t, n) ==
    [t EXCEPT !.buckets =
        [b \in 1 .. n |-> IF b \in DOMAIN @ THEN @[b] ELSE << >>]]

\* Entries move in the order of the old buckets. No result of a lookup depends on
\* the order within a chain, so any order will do. The hash stored in an entry is that
\* of its key, which never changes.
Rehash(t, n) ==
    [t EXCEPT !.buckets =
        [b \in 1 .. n |-> Listing({kv \in Pairs(t) : (Hash[kv.key] % n) + 1 = b})]]

ResizeIfNeeded(t) ==
    IF 4 * t.entries > 3 * Len(t.buckets) THEN Rehash(t, 2 * Len(t.buckets)) ELSE t

\* Mutant: num_entries_ is decremented whether or not the key was there.
Removed_AlwaysCounts(r, k) ==
    LET t == r.table
    IN  [log |-> Append(r.log, [op |-> "DELETE", key |-> k]),
         table |->
            IF ~Found(t, k) THEN [t EXCEPT !.entries = @ - 1]
            ELSE [t EXCEPT !.buckets[BucketOf(t, k)] =
                               Erase(@, First(@, k)),
                           !.entries = @ - 1,
                           !.pol = OnDelete(@, k, Size[EntryOf(t, k).value])]]

\* remove
Removed(r, k) ==
    LET t == r.table
    IN  [log |-> Append(r.log, [op |-> "DELETE", key |-> k]),
         table |->
            IF ~Found(t, k) THEN t
            ELSE [t EXCEPT !.buckets[BucketOf(t, k)] =
                               Erase(@, First(@, k)),
                           !.entries = @ - 1,
                           !.pol = OnDelete(@, k, Size[EntryOf(t, k).value])]]

\* One turn of the loop of evict_if_needed.
EvictOnce(r) ==
    LET p == r.table.pol
    IN  IF ~ShouldEvict(p) THEN {r}
        ELSE IF Candidates(p) = {} THEN {[r EXCEPT !.table.pol.heap = {}]}
        ELSE {Removed([r EXCEPT !.table.pol = c.left], c.victim) : c \in Candidates(p)}

\* Mutant: at most one victim per insert.
Evicted_Once(r) == EvictOnce(r)

\* evict_if_needed: every turn removes an entry, or ends the loop.
Evicted(r) ==
    LET turns[n \in Nat] ==
            IF n = 0 THEN {r} ELSE UNION {EvictOnce(s) : s \in turns[n - 1]}
    IN  turns[r.table.entries]

\* Mutant: an update does not take the old value out of the policy.
Put_NoOnDelete(t, k, e) ==
    IF Found(t, k)
      THEN [SetEntry(t, k, e) EXCEPT !.pol = OnInsert(@, k, Size[e.value], e.count)]
      ELSE [t EXCEPT !.buckets[BucketOf(t, k)] = Append(@, [key |-> k, entry |-> e]),
                     !.entries = @ + 1,
                     !.pol = OnInsert(@, k, Size[e.value], e.count)]

\* The part of insert after the resize: update in place, or append to the chain.
Put(t, k, e) ==
    IF Found(t, k)
      THEN [SetEntry(t, k, e) EXCEPT
               !.pol = OnInsert(OnDelete(@, k, Size[EntryOf(t, k).value]),
                                k, Size[e.value], e.count)]
      ELSE [t EXCEPT !.buckets[BucketOf(t, k)] = Append(@, [key |-> k, entry |-> e]),
                     !.entries = @ + 1,
                     !.pol = OnInsert(@, k, Size[e.value], e.count)]

\* insert: logged first, then room is made for it, then it is stored.
Inserted(r, k, e) ==
    LET logged == [r EXCEPT !.log = Append(@, [op |-> "SET", key |-> k,
                                               value |-> e.value, expiry |-> e.expiry])]
    IN  {[s EXCEPT !.table = Put(ResizeIfNeeded(@), k, e)] : s \in Evicted(logged)}

\* get, when it succeeds: the access is recorded. Only LFU reads access_count;
\* it is left at 0 under LRU, where last_access_ns is the order of the list.
Accessed(t, k) ==
    LET e == [EntryOf(t, k) EXCEPT !.count = IF t.pol.policy = "LFU" THEN @ + 1 ELSE @]
    IN  [SetEntry(t, k, e) EXCEPT !.pol = OnAccess(@, k, e.count)]

Hit(t, k, time) == Found(t, k) /\ ~IsExpired(EntryOf(t, k), time)

Run(t) == [table |-> t, log |-> << >>]

\* What a lookup of k finds in table t: value and expiry, or None.
Seen(t, k) ==
    LET hits == {kv \in Range(t.buckets[BucketOf(t, k)]) : kv.key = k}
    IN  IF hits = {} THEN None
        ELSE LET e == (CHOOSE kv \in hits : TRUE).entry
             IN  [value |-> e.value, expiry |-> e.expiry]

Contents(t) == [k \in Key |-> Seen(t, k)]

=============================================================================
