------------------------------ MODULE KVCache ------------------------------
(***************************************************************************)
(* What the storage engine promises its callers: a map from keys to values *)
(* that may forget. It changes in four ways only. A Set stores what it was *)
(* given; it forgets other keys only when the values have outgrown the     *)
(* memory limit, and then no more of them than needed. A Delete removes    *)
(* its key. A lookup answers with what is in the map and changes nothing,  *)
(* unless its key expires during the call. And a key that was found        *)
(* expired may be forgotten some time later, whatever it holds by then:    *)
(* this is all that is lost without a caller asking for it.                *)
(***************************************************************************)
EXTENDS Integers, FiniteSets

CONSTANTS Key, Value, Size, None, MemoryLimit, MaxTime

VARIABLES
    store,      \* for each key its value and expiry (0 is "never"), or None
    now,
    call,       \* the call that was made in the last step, and its answer
    doomed      \* keys found expired and not removed yet

vars == <<store, now, call, doomed>>

NoCall == [op |-> "none"]

Present(s) == {k \in Key : s[k] # None}

Expired(s, k, time) == s[k] # None /\ s[k].expiry # 0 /\ time >= s[k].expiry

Lookup(s, k, time) == IF s[k] = None \/ Expired(s, k, time) THEN None ELSE s[k].value

\* The bytes that the values of keys take in map s.
Used(s, keys) == Cardinality(UNION {{k} \X (1 .. Size[s[k].value]) : k \in keys})

\* May the keys lost be forgotten to make room?
Enough(s, lost) ==
    LET kept == Present(s) \ lost
    IN  /\ Used(s, kept) <= MemoryLimit
        /\ lost # {} => \E k \in lost : Used(s, kept \union {k}) > MemoryLimit

Agree(s, t, keys) == \A k \in keys : s[k] = t[k]

\* t is s after key k got item x. The old value of k may be forgotten to make room
\* for the new one.
Put(s, t, k, x) ==
    LET gone == {j \in Present(s) \ {k} : t[j] = None}
    IN  /\ t[k] = x
        /\ Agree(s, t, Key \ (gone \union {k}))
        /\ Enough(s, gone) \/ Enough(s, gone \union ({k} \intersect Present(s)))

\* t is s without key k.
Without(s, t, k) == t[k] = None /\ Agree(s, t, Key \ {k})

-----------------------------------------------------------------------------
Init ==
    /\ store = [k \in Key |-> None]
    /\ now = 0
    /\ call = NoCall
    /\ doomed = {}

Set(k, v, ttl) ==
    /\ call' = [op |-> "set", key |-> k, value |-> v, ttl |-> ttl]
    /\ Put(store, store', k, [value |-> v, expiry |-> IF ttl > 0 THEN now + ttl ELSE 0])
    /\ UNCHANGED <<now, doomed>>

Get(k) ==
    /\ call' = [op |-> "get", key |-> k, reply |-> Lookup(store, k, now)]
    /\ UNCHANGED <<store, now, doomed>>

\* The key expires during the call.
GetLate(k) ==
    /\ call' = [op |-> "get", key |-> k, reply |-> None]
    /\ now' = now + 1
    /\ ~Expired(store, k, now)
    /\ Expired(store, k, now + 1)
    /\ Without(store, store', k)
    /\ UNCHANGED doomed

Delete(k) ==
    /\ call' = [op |-> "delete", key |-> k, reply |-> store[k] # None]
    /\ Without(store, store', k)
    /\ UNCHANGED <<now, doomed>>

Tick ==
    /\ call' = NoCall
    /\ now' = now + 1
    /\ UNCHANGED <<store, doomed>>

\* Only keys that have expired are marked.
Scan ==
    /\ call' = NoCall
    /\ doomed' \subseteq doomed \union {k \in Key : Expired(store, k, now)}
    /\ UNCHANGED <<store, now>>

\* A marked key is forgotten, also if it has been set again since. A key that was
\* marked twice stays marked.
Forget(k) ==
    /\ k \in doomed
    /\ call' = NoCall
    /\ Without(store, store', k)
    /\ doomed' \in {doomed, doomed \ {k}}
    /\ UNCHANGED now

Next ==
    \/ \E k \in Key, v \in Value, ttl \in 0 .. MaxTime : Set(k, v, ttl)
    \/ \E k \in Key : Get(k) \/ GetLate(k) \/ Delete(k) \/ Forget(k)
    \/ Tick
    \/ Scan

Spec == Init /\ [][Next]_vars

=============================================================================
