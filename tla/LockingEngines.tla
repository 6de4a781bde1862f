--------------------------- MODULE LockingEngines ---------------------------
(***************************************************************************)
(* The engines threads may share: ShardedEngine with its queues, and the   *)
(* two that lock, engine/include/sharded_engine_sync.h (a mutex for each   *)
(* shard) and mutex_engine.h (one mutex). Which one it is, is drawn once;  *)
(* all are held to AtomicKV.                                               *)
(*                                                                         *)
(* An operation of a HashTable is a load and a store of the table, so that *)
(* only the mutex makes it atomic. A thread of its own calls total_entries *)
(* of ShardedEngineSync, or size of MutexEngine.                           *)
(***************************************************************************)
EXTENDS ShardedEngine

VARIABLES
    kind,       \* "queues", "stripes" or "mutex"
    lock,       \* lock[s]: the thread that holds the mutex of shard s, or None
    view,       \* view[c]: the table as c has loaded it
    count       \* the counting thread, and the keys that were there all the time
                \* and at some time of its call

lockVars == <<kind, lock, view>>
queueVars == <<running, control, starts, worker, hand, queue>>
engineVars == <<vars, lockVars, count>>

\* get_shard_id of ShardedEngineSync; MutexEngine has one table.
StripeOf(k) == IF kind = "mutex" THEN 1 ELSE ShardOf[k]
Table(s) == {k \in Key : StripeOf(k) = s}

Present(st) == {k \in Key : st[k] # None}

NotCounting == [pc |-> "idle", shard |-> 1, total |-> 0, always |-> {}, ever |-> {}]

EnginesInit ==
    /\ Init
    /\ kind \in {"queues", "stripes", "mutex"}
    /\ lock = [s \in Shards |-> None]
    /\ view = [c \in Client |-> << >>]
    /\ count = NotCounting

\* What the counting thread's history makes of a change of the tables.
Watch ==
    count' = IF count.pc = "idle" THEN count
             ELSE [count EXCEPT !.always = @ \intersect Present(store'),
                                !.ever = @ \union Present(store')]

-----------------------------------------------------------------------------
\* remove answers what HashTable::remove does, whether the key was there.
LockedOp == {op \in KV!Op : op.type # "REMOVE"}

\* get, set or remove is called.
Call(c, op) ==
    /\ client[c].pc = "idle"
    /\ KV!Call(c, op)
    /\ client' = [client EXCEPT ![c] = [pc |-> "lock", shard |-> StripeOf(op.key)]]
    /\ UNCHANGED <<queueVars, lockVars>>

\* Mutant: no lock_guard.
Lock_None(c) ==
    /\ client[c].pc = "lock"
    /\ lock' = [lock EXCEPT ![client[c].shard] = c]
    /\ view' = [view EXCEPT ![c] = [k \in Table(client[c].shard) |-> store[k]]]
    /\ client' = [client EXCEPT ![c].pc = "locked"]
    /\ UNCHANGED <<queueVars, call, store, kind>>

\* The lock_guard, and the operation begins.
Lock(c) ==
    /\ client[c].pc = "lock"
    /\ lock[client[c].shard] = None
    /\ lock' = [lock EXCEPT ![client[c].shard] = c]
    /\ view' = [view EXCEPT ![c] = [k \in Table(client[c].shard) |-> store[k]]]
    /\ client' = [client EXCEPT ![c].pc = "locked"]
    /\ UNCHANGED <<queueVars, call, store, kind>>

\* Mutant: the mutex stays locked.
Unlock_Forgotten(s) == UNCHANGED lock

Unlock(s) == lock' = [lock EXCEPT ![s] = None]

\* The operation ends, and the lock_guard with it.
Commit(c) ==
    LET op == call[c].op
    IN  /\ client[c].pc = "locked"
        /\ store' = [k \in Key |-> IF k \in DOMAIN view[c] THEN KV!Effect(view[c], op)[k]
                                                           ELSE store[k]]
        /\ call' = [call EXCEPT ![c] = [state |-> "done", result |-> KV!Answer(view[c], op)]]
        /\ Unlock(client[c].shard)
        /\ view' = [view EXCEPT ![c] = << >>]
        /\ client' = [client EXCEPT ![c].pc = "wait"]
        /\ UNCHANGED <<queueVars, kind>>

-----------------------------------------------------------------------------
CountBegin ==
    /\ kind # "queues" /\ count.pc = "idle"
    /\ count' = [pc |-> "busy", shard |-> 1, total |-> 0,
                 always |-> Present(store), ever |-> Present(store)]

\* Mutant: the loop ends one shard early.
LastStripe_Early == IF kind = "mutex" THEN 0 ELSE NumShards - 1

LastStripe == IF kind = "mutex" THEN 1 ELSE NumShards

\* One turn of the loop of total_entries, with its lock_guard.
CountShard ==
    /\ count.pc = "busy"
    /\ count.shard <= LastStripe
    /\ lock[count.shard] = None
    /\ count' = [count EXCEPT !.shard = @ + 1,
                              !.total = @ + Cardinality(Present(store) \intersect Table(count.shard))]

CountEnd ==
    /\ count.pc = "busy" /\ count.shard > LastStripe
    /\ count' = [count EXCEPT !.pc = "done"]

CountReturn ==
    /\ count.pc = "done"
    /\ count' = NotCounting

-----------------------------------------------------------------------------
LockStep(c) ==
    \/ Lock(c)
    \/ Commit(c)
    \/ Return(c) /\ UNCHANGED lockVars
    \/ \E op \in LockedOp : Call(c, op)

EnginesNext ==
    \/ kind = "queues" /\ Next /\ Watch /\ UNCHANGED lockVars
    \/ kind # "queues" /\ (\E c \in Client : LockStep(c)) /\ Watch
    \/ (CountBegin \/ CountShard \/ CountEnd \/ CountReturn) /\ UNCHANGED <<vars, lockVars>>

\* The fairness of ShardedEngine: std::mutex does not promise that a thread that
\* waits for it is ever the one that gets it.
EnginesSpec == EnginesInit /\ [][EnginesNext]_engineVars /\ Fairness

-----------------------------------------------------------------------------
\* The values each variable takes. A mutex is held by the one thread that is between
\* its load and its store.
EnginesTypeOK ==
    /\ kind = "queues" => TypeOK
    /\ \A s \in Shards, c \in Client :
          lock[s] = c <=> client[c].pc = "locked" /\ client[c].shard = s
    /\ count.pc \in {"idle", "busy", "done"}
    /\ count.always \subseteq count.ever

\* total_entries takes the mutexes one after the other while other threads set and
\* remove keys. It counts every key that was there all the time, none that was never
\* there, and no key twice.
CountInRange ==
    count.pc = "done" =>
        count.total \in Cardinality(count.always) .. Cardinality(count.ever)

=============================================================================
