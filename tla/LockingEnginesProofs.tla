------------------------ MODULE LockingEnginesProofs ------------------------
(***************************************************************************)
(* Proofs about the engines that threads share, for any number of threads, *)
(* keys, values and shards.                                                *)
(***************************************************************************)
EXTENDS LockingEngines, FiniteSetTheorems, TLAPS

Tables == [Key -> Value \union {None}]

\* What all the engines keep: a request that is not answered is one of AtomicKV.
StoreInv ==
    /\ kind \in {"queues", "stripes", "mutex"}
    /\ store \in Tables
    /\ call = [c \in Client |-> call[c]]
    /\ \A c \in Client : call[c].state = "called" => call[c].op \in KV!Op

\* The engine with queues: nobody locks, a worker that is about to sleep has an empty
\* queue, since it holds the mutex, and no request is missed.
QueueInv ==
    /\ TypeOK
    /\ \A s \in Shards :
          /\ lock[s] = None
          /\ worker[s] = "process" => hand[s] \in Client
          /\ worker[s] = "blocking" => queue[s] = << >>
    /\ NoMissedRequest

\* The engines that lock: who holds the mutex of a table has an exact view of it.
LockInv ==
    /\ worker = [s \in Shards |-> "exited"]
    /\ client \in [Client -> [pc : {"idle", "lock", "locked", "wait"}, shard : Shards]]
    /\ lock \in [Shards -> Client \union {None}]
    /\ view = [c \in Client |-> view[c]]
    /\ \A s \in Shards, c \in Client :
          lock[s] = c <=> client[c].pc = "locked" /\ client[c].shard = s
    /\ \A c \in Client : client[c].pc \in {"lock", "locked"} =>
          /\ call[c].state = "called"
          /\ client[c].shard = StripeOf(call[c].op.key)
    /\ \A c \in Client : client[c].pc = "locked" =>
          view[c] = [k \in Table(client[c].shard) |-> store[k]]

Inv ==
    /\ StoreInv
    /\ kind = "queues" => QueueInv
    /\ kind # "queues" => LockInv

-----------------------------------------------------------------------------
\* An operation of AtomicKV takes a map to a map.
LEMMA EffectType ==
    ASSUME NEW st \in Tables, NEW op \in KV!Op
    PROVE  /\ KV!Effect(st, op) \in Tables
           /\ op.key \in Key
BY DEF Tables, KV!Effect, KV!Op

\* The three kinds of steps an implementation takes on the state of AtomicKV keep the
\* part of the invariant that is about it.
LEMMA StoreSteps ==
    ASSUME StoreInv, UNCHANGED kind,
           NEW c \in Client,
           \/ KV!Do(c)
           \/ KV!Return(c)
           \/ \E op \in KV!Op : KV!Call(c, op)
           \/ UNCHANGED <<store, call>>
    PROVE  StoreInv'
<1>1. CASE KV!Do(c)
  BY <1>1, EffectType DEF StoreInv, KV!Do
<1>2. CASE KV!Return(c)
  BY <1>2 DEF StoreInv, KV!Return, KV!Idle
<1>3. CASE \E op \in KV!Op : KV!Call(c, op)
  BY <1>3 DEF StoreInv, KV!Call
<1>4. CASE UNCHANGED <<store, call>>
  BY <1>4 DEF StoreInv
<1> QED
  BY <1>1, <1>2, <1>3, <1>4

\* Every key has a table, in each of the engines.
LEMMA StripeType ==
    ASSUME NEW k \in Key
    PROVE  StripeOf(k) \in Shards
BY ShardedConstants DEF StripeOf, Shards

-----------------------------------------------------------------------------
\* The callers of the engine with queues.
LEMMA CallerStep ==
    ASSUME StoreInv, QueueInv, UNCHANGED lockVars, NEW c \in Client,
           Notify(c) \/ Return(c) \/ \E op \in Request : Enqueue(c, op)
    PROVE  StoreInv' /\ QueueInv'
<1> USE DEF StoreInv, QueueInv, lockVars
<1>1. CASE Notify(c)
  <2>1. StoreInv'
    BY <1>1, StoreSteps DEF Notify
  <2>2. TypeOK'
    BY <1>1, ZenonT(30) DEF TypeOK, Notify, Notified
  <2>3. \A s \in Shards : /\ lock'[s] = None
                          /\ worker'[s] = "process" => hand'[s] \in Client
                          /\ worker'[s] = "blocking" => queue'[s] = << >>
    BY <1>1 DEF TypeOK, Notify, Notified
  <2>4. ASSUME NEW s \in Shards, worker'[s] = "asleep", queue'[s] # << >>
        PROVE  \E d \in Client : client'[d].pc = "notify" /\ client'[d].shard = s
    <3>1. worker[s] = "asleep" /\ s # client[c].shard
      BY <1>1, <2>4 DEF TypeOK, Notify, Notified
    <3>2. PICK d \in Client : client[d].pc = "notify" /\ client[d].shard = s
      BY <1>1, <2>4, <3>1 DEF NoMissedRequest, Notify
    <3>3. client'[d] = client[d]
      BY <1>1, <3>1, <3>2 DEF TypeOK, Notify
    <3> QED
      BY <3>2, <3>3
  <2> QED
    BY <2>1, <2>2, <2>3, <2>4 DEF NoMissedRequest
<1>2. CASE Return(c)
  <2>1. StoreInv'
    BY <1>2, StoreSteps DEF Return
  <2>2. TypeOK'
    BY <1>2, ShardedConstants DEF TypeOK, Return, KV!Return, Shards
  <2>3. \A d \in Client : client[d].pc = "notify" => client'[d] = client[d]
    BY <1>2 DEF TypeOK, Return
  <2> QED
    BY <1>2, <2>1, <2>2, <2>3 DEF NoMissedRequest, Return
<1>3. ASSUME NEW op \in Request, Enqueue(c, op)
      PROVE  StoreInv' /\ QueueInv'
  <2>1. op \in KV!Op /\ op.key \in Key
    BY DEF Request, KV!Op
  <2> DEFINE s == ShardOf[op.key]
  <2>2. s \in Shards
    BY <2>1, ShardedConstants
  <2>3. StoreInv'
    BY <1>3, <2>1, StoreSteps DEF Enqueue
  <2>4. /\ queue' = [queue EXCEPT ![s] = Append(@, c)]
        /\ client' = [client EXCEPT ![c] = [pc |-> "notify", shard |-> s]]
        /\ client[c].pc = "idle" /\ worker[s] # "blocking"
        /\ UNCHANGED <<running, control, starts, worker, hand, store>>
    BY <1>3 DEF Enqueue, Free, KV!Call
  <2> HIDE DEF s
  <2>5. TypeOK'
    BY <2>2, <2>4 DEF TypeOK
  <2>6. \A t \in Shards : t # s => queue'[t] = queue[t]
    BY <2>2, <2>4 DEF TypeOK
  <2>7. client'[c].pc = "notify" /\ client'[c].shard = s
    BY <2>2, <2>4 DEF TypeOK
  <2>8. \A d \in Client : d # c => client'[d] = client[d]
    BY <2>4 DEF TypeOK
  <2>9. NoMissedRequest'
    BY <2>4, <2>6, <2>7, <2>8 DEF NoMissedRequest
  <2> QED
    BY <2>3, <2>4, <2>5, <2>6, <2>9
<1> QED
  BY <1>1, <1>2, <1>3

\* The workers of the engine with queues.
LEMMA WorkerSteps ==
    ASSUME StoreInv, QueueInv, UNCHANGED lockVars, NEW s \in Shards, WorkerStep(s)
    PROVE  StoreInv' /\ QueueInv'
<1> USE DEF StoreInv, QueueInv, lockVars, Goto
<1>1. CASE WorkerHead(s)
  BY <1>1 DEF WorkerHead, TypeOK, NoMissedRequest
<1>2. CASE WorkerTake(s)
  <2>1. queue[s] \in Seq(Client) /\ queue[s] # << >>
    BY <1>2 DEF WorkerTake, TypeOK
  <2>2. Head(queue[s]) \in Client /\ Tail(queue[s]) \in Seq(Client)
    BY <2>1
  <2>3. TypeOK'
    BY <1>2, <2>2 DEF WorkerTake, TypeOK
  <2>4. \A t \in Shards : t # s => queue'[t] = queue[t] /\ worker'[t] = worker[t]
                                    /\ hand'[t] = hand[t]
    BY <1>2 DEF WorkerTake, TypeOK
  <2>5. worker'[s] = "process" /\ hand'[s] = Head(queue[s])
    BY <1>2 DEF WorkerTake, TypeOK
  <2>6. UNCHANGED <<store, call, client, kind, lock>>
    BY <1>2 DEF WorkerTake
  <2>7. StoreInv'
    BY <2>6
  <2>8. \A t \in Shards : /\ lock'[t] = None
                          /\ worker'[t] = "process" => hand'[t] \in Client
                          /\ worker'[t] = "blocking" => queue'[t] = << >>
    BY <2>2, <2>4, <2>5, <2>6
  <2>9. NoMissedRequest'
    BY <2>4, <2>5, <2>6 DEF NoMissedRequest
  <2> HIDE DEF StoreInv
  <2> QED
    BY <2>3, <2>7, <2>8, <2>9
<1>3. CASE WorkerIdle(s)
  BY <1>3 DEF WorkerIdle, TypeOK, NoMissedRequest
<1>4. CASE WorkerSleep(s)
  BY <1>4 DEF WorkerSleep, TypeOK, NoMissedRequest
<1>5. CASE WorkerProcess(s)
  <2>1. hand[s] \in Client /\ KV!Do(hand[s])
    BY <1>5 DEF WorkerProcess
  <2>2. StoreInv'
    BY <2>1, StoreSteps
  <2>3. TypeOK'
    BY <1>5, <2>2 DEF WorkerProcess, TypeOK, Tables
  <2>4. \A t \in Shards : t # s => worker'[t] = worker[t] /\ hand'[t] = hand[t]
    BY <1>5 DEF WorkerProcess, TypeOK
  <2>5. worker'[s] = "head" /\ UNCHANGED <<queue, client>>
    BY <1>5 DEF WorkerProcess, TypeOK
  <2> QED
    BY <2>2, <2>3, <2>4, <2>5 DEF NoMissedRequest
<1> QED
  BY <1>1, <1>2, <1>3, <1>4, <1>5 DEF WorkerStep

Controls == [pc : {"stopped", "started", "notify", "join"}, shard : Shards,
             missed : SUBSET Shards]

\* The control thread stays within the shards.
LEMMA AdvanceType ==
    ASSUME control \in Controls,
           NEW next \in {"join", "stopped"}, NEW missed \in SUBSET Shards,
           Advance(next, missed)
    PROVE  control' \in Controls
<1>1. CASE control.shard < NumShards
  <2>1. control' = [control EXCEPT !.shard = @ + 1, !.missed = missed]
    BY <1>1 DEF Advance
  <2>2. control.shard + 1 \in Shards
    BY <1>1, ShardedConstants DEF Controls, Shards
  <2> QED
    BY <2>1, <2>2, Zenon DEF Controls
<1>2. CASE ~(control.shard < NumShards)
  <2>1. control' = [pc |-> next, shard |-> 1, missed |-> missed]
    BY <1>2 DEF Advance
  <2>2. 1 \in Shards
    BY ShardedConstants DEF Shards
  <2> QED
    BY <2>1, <2>2 DEF Controls
<1> QED
  BY <1>1, <1>2

\* start and stop.
LEMMA ControlSteps ==
    ASSUME StoreInv, QueueInv, UNCHANGED lockVars,
           Start \/ Stop \/ StopNotify \/ StopJoin
    PROVE  StoreInv' /\ QueueInv'
<1> USE DEF StoreInv, QueueInv, lockVars
<1>1. CASE Start
  BY <1>1, ShardedConstants DEF Start, TypeOK, NoMissedRequest, Shards
<1>2. CASE Stop
  BY <1>2, ZenonT(30) DEF Stop, TypeOK, NoMissedRequest
<1>3. CASE StopNotify
  <2>0. control' \in Controls
    BY <1>3, AdvanceType DEF StopNotify, TypeOK, Controls
  <2>1. TypeOK'
    BY <1>3, <2>0 DEF StopNotify, Notified, TypeOK, Controls
  <2>2. UNCHANGED <<hand, queue, client, call, store>>
    BY <1>3 DEF StopNotify
  <2>3. \A s \in Shards : worker'[s] = worker[s] \/ worker'[s] = "enter"
    BY <1>3 DEF StopNotify, Notified, TypeOK
  <2> QED
    BY <2>1, <2>2, <2>3 DEF NoMissedRequest
<1>4. CASE StopJoin
  <2>0. control' \in Controls
    BY <1>4, AdvanceType DEF StopJoin, TypeOK, Controls
  <2>1. TypeOK'
    BY <1>4, <2>0 DEF StopJoin, TypeOK, Controls
  <2> QED
    BY <1>4, <2>1 DEF StopJoin, NoMissedRequest
<1> QED
  BY <1>1, <1>2, <1>3, <1>4

-----------------------------------------------------------------------------
\* What lets Commit write back the table it loaded: it is the operation of AtomicKV on
\* the whole map.
LEMMA CommitIsDo ==
    ASSUME StoreInv, LockInv, NEW c \in Client, Commit(c)
    PROVE  KV!Do(c)
<1> DEFINE op == call[c].op
           s == client[c].shard
<1>1. client[c].pc = "locked" /\ call[c].state = "called" /\ s = StripeOf(op.key)
  BY DEF Commit, LockInv
<1>2. op \in KV!Op /\ op.key \in Key
  BY <1>1, EffectType DEF StoreInv
<1>3. view[c] = [k \in Table(s) |-> store[k]]
  BY <1>1 DEF LockInv
<1>4. op.key \in Table(s) /\ Table(s) \subseteq Key
  BY <1>1, <1>2 DEF Table
<1>5. store' = [k \in Key |-> IF k \in DOMAIN view[c] THEN KV!Effect(view[c], op)[k]
                                                     ELSE store[k]]
  BY DEF Commit
<1>6. call' = [call EXCEPT ![c] = [state |-> "done", result |-> KV!Answer(view[c], op)]]
  BY DEF Commit
<1> HIDE DEF op, s
<1>7. KV!Answer(view[c], op) = KV!Answer(store, op)
  <2>1. view[c][op.key] = store[op.key]
    BY <1>3, <1>4
  <2> QED
    BY <2>1 DEF KV!Answer
<1>8. \A k \in Key : store'[k] = KV!Effect(store, op)[k]
  <2> SUFFICES ASSUME NEW k \in Key
               PROVE  store'[k] = KV!Effect(store, op)[k]
    OBVIOUS
  <2>1. CASE op.type = "GET"
    <3>1. KV!Effect(view[c], op) = view[c] /\ KV!Effect(store, op) = store
      BY <2>1 DEF KV!Effect
    <3> QED
      BY <3>1, <1>3, <1>4, <1>5
  <2>2. CASE op.type = "SET"
    <3>1. /\ KV!Effect(view[c], op) = [view[c] EXCEPT ![op.key] = op.value]
          /\ KV!Effect(store, op) = [store EXCEPT ![op.key] = op.value]
      BY <2>2 DEF KV!Effect
    <3> QED
      BY <3>1, <1>2, <1>3, <1>4, <1>5 DEF StoreInv, Tables
  <2>3. CASE op.type \in {"REMOVE", "ERASE"}
    <3>1. /\ KV!Effect(view[c], op) = [view[c] EXCEPT ![op.key] = None]
          /\ KV!Effect(store, op) = [store EXCEPT ![op.key] = None]
      BY <2>3 DEF KV!Effect
    <3> QED
      BY <3>1, <1>2, <1>3, <1>4, <1>5 DEF StoreInv, Tables
  <2> QED
    BY <1>2, <2>1, <2>2, <2>3 DEF KV!Op
<1>9. KV!Effect(store, op) \in Tables
  BY <1>2, EffectType DEF StoreInv
<1>10. store' = KV!Effect(store, op)
  BY <1>5, <1>8, <1>9 DEF Tables
<1> QED
  BY <1>1, <1>6, <1>7, <1>10 DEF KV!Do, op

\* The threads of the engines that lock.
LEMMA LockSteps ==
    ASSUME StoreInv, LockInv, NEW c \in Client, LockStep(c)
    PROVE  StoreInv' /\ LockInv'
<1>1. CASE Lock(c)
  <2>1. StoreInv'
    BY <1>1, StoreSteps DEF Lock
  <2> DEFINE s == client[c].shard
  <2>2. s \in Shards /\ lock[s] = None /\ client[c].pc = "lock"
    BY <1>1 DEF Lock, LockInv
  <2>3. /\ lock' = [lock EXCEPT ![s] = c]
        /\ view' = [view EXCEPT ![c] = [k \in Table(s) |-> store[k]]]
        /\ client' = [client EXCEPT ![c].pc = "locked"]
        /\ UNCHANGED <<worker, call, store, kind>>
    BY <1>1 DEF Lock, queueVars
  <2>4. /\ client'[c].pc = "locked" /\ client'[c].shard = s
        /\ \A d \in Client : d # c => client'[d] = client[d]
        /\ client' \in [Client -> [pc : {"idle", "lock", "locked", "wait"}, shard : Shards]]
    BY <2>3 DEF LockInv
  <2>5. /\ lock'[s] = c
        /\ \A t \in Shards : t # s => lock'[t] = lock[t]
        /\ lock' \in [Shards -> Client \union {None}]
    BY <2>2, <2>3 DEF LockInv
  <2>6. /\ view'[c] = [k \in Table(s) |-> store[k]]
        /\ \A d \in Client : d # c => view'[d] = view[d]
        /\ view' = [d \in Client |-> view'[d]]
    BY <2>3, Zenon DEF LockInv
  <2>7. \A t : Table(t)' = Table(t)
    BY <2>3 DEF Table, StripeOf
  <2>8. \A k : StripeOf(k)' = StripeOf(k)
    BY <2>3 DEF StripeOf
  <2>9. \A t \in Shards, d \in Client :
          lock'[t] = d <=> client'[d].pc = "locked" /\ client'[d].shard = t
    BY <2>2, <2>4, <2>5, ShardedConstants DEF LockInv
  <2>10. ASSUME NEW d \in Client, client'[d].pc = "locked"
         PROVE  view'[d] = [k \in Table(client'[d].shard) |-> store'[k]]
    <3>1. CASE d = c
      BY <3>1, <2>3, <2>4, <2>6
    <3>2. CASE d # c
      <4>1. client'[d] = client[d] /\ view'[d] = view[d]
        BY <3>2, <2>4, <2>6
      <4>2. view[d] = [k \in Table(client[d].shard) |-> store[k]]
        BY <2>10, <4>1 DEF LockInv
      <4> QED
        BY <4>1, <4>2, <2>3
    <3> QED
      BY <3>1, <3>2
  <2>11. \A d \in Client : client'[d].pc \in {"lock", "locked"} =>
            call'[d].state = "called" /\ client'[d].shard = StripeOf(call'[d].op.key)
    BY <2>2, <2>3, <2>4 DEF LockInv
  <2> QED
    BY <2>1, <2>3, <2>4, <2>5, <2>6, <2>7, <2>8, <2>9, <2>10, <2>11, Zenon DEF LockInv
<1>2. CASE Commit(c)
  <2> DEFINE s == client[c].shard
  <2>1. KV!Do(c)
    BY <1>2, CommitIsDo
  <2>2. UNCHANGED <<kind, worker>>
    BY <1>2 DEF Commit, queueVars
  <2>3. StoreInv'
    BY <2>1, <2>2, StoreSteps
  <2>4. client[c].pc = "locked" /\ s \in Shards /\ lock[s] = c
    BY <1>2 DEF Commit, LockInv
  <2>5. /\ lock' = [lock EXCEPT ![s] = None]
        /\ view' = [view EXCEPT ![c] = << >>]
        /\ client' = [client EXCEPT ![c].pc = "wait"]
    BY <1>2 DEF Commit, Unlock
  <2>6. /\ client'[c].pc = "wait"
        /\ \A d \in Client : d # c => client'[d] = client[d]
        /\ client' \in [Client -> [pc : {"idle", "lock", "locked", "wait"}, shard : Shards]]
    BY <2>5 DEF LockInv
  <2>7. /\ lock'[s] = None
        /\ \A t \in Shards : t # s => lock'[t] = lock[t]
        /\ lock' \in [Shards -> Client \union {None}]
    BY <2>4, <2>5 DEF LockInv
  <2>8. /\ \A d \in Client : d # c => view'[d] = view[d]
        /\ view' = [d \in Client |-> view'[d]]
    BY <2>5, ZenonT(30) DEF LockInv
  <2>9. \A d \in Client : d # c => call'[d] = call[d]
    BY <2>1 DEF KV!Do, StoreInv
  <2>10. \A t \in Shards, d \in Client :
          lock'[t] = d <=> client'[d].pc = "locked" /\ client'[d].shard = t
    BY <2>4, <2>6, <2>7, ShardedConstants DEF LockInv
  <2>11. ASSUME NEW d \in Client, client'[d].pc = "locked"
         PROVE  view'[d] = [k \in Table(client'[d].shard) |-> store'[k]]
    <3>1. d # c /\ client[d].pc = "locked" /\ client'[d] = client[d]
      BY <2>6, <2>11
    <3>2. client[d].shard # s
      BY <3>1, <2>4 DEF LockInv
    <3>3. view[c] = [k \in Table(s) |-> store[k]]
      BY <2>4 DEF LockInv
    <3>4. ASSUME NEW k \in Table(client[d].shard)
          PROVE  store'[k] = store[k]
      <4>1. k \in Key /\ k \notin DOMAIN view[c]
        BY <3>2, <3>3 DEF Table
      <4> QED
        BY <1>2, <4>1 DEF Commit
    <3>5. view[d] = [k \in Table(client[d].shard) |-> store[k]]
      BY <3>1 DEF LockInv
    <3> QED
      BY <3>1, <3>4, <3>5, <2>8
  <2>12. \A d \in Client : client'[d].pc \in {"lock", "locked"} =>
            call'[d].state = "called" /\ client'[d].shard = StripeOf(call'[d].op.key)
    BY <2>6, <2>9 DEF LockInv
  <2>13. \A t : Table(t)' = Table(t)
    BY <2>2 DEF Table, StripeOf
  <2>14. \A k : StripeOf(k)' = StripeOf(k)
    BY <2>2 DEF StripeOf
  <2> QED
    BY <2>2, <2>3, <2>6, <2>7, <2>8, <2>10, <2>11, <2>12, <2>13, <2>14 DEF LockInv
<1>3. CASE Return(c) /\ UNCHANGED lockVars
  <2>1. StoreInv'
    BY <1>3, StoreSteps DEF Return, lockVars
  <2>2. UNCHANGED <<kind, worker, lock, view, store>>
    BY <1>3 DEF Return, KV!Return, lockVars
  <2>3. /\ client[c].pc = "wait" /\ client'[c].pc = "idle"
        /\ \A d \in Client : d # c => client'[d] = client[d] /\ call'[d] = call[d]
        /\ client' \in [Client -> [pc : {"idle", "lock", "locked", "wait"}, shard : Shards]]
    BY <1>3, ShardedConstants DEF Return, KV!Return, LockInv, StoreInv, Shards
  <2>4. \A t : Table(t)' = Table(t)
    BY <2>2 DEF Table, StripeOf
  <2>5. \A k : StripeOf(k)' = StripeOf(k)
    BY <2>2 DEF StripeOf
  <2>6. \A t \in Shards, d \in Client :
          lock'[t] = d <=> client'[d].pc = "locked" /\ client'[d].shard = t
    BY <2>2, <2>3 DEF LockInv
  <2>7. \A d \in Client : client'[d].pc = "locked" =>
          view'[d] = [k \in Table(client'[d].shard) |-> store'[k]]
    <3>1. \A d \in Client : client'[d].pc = "locked" => d # c
      BY <2>3
    <3> QED
      BY <2>2, <2>3, <3>1, SMTT(30) DEF LockInv
  <2>8. \A d \in Client : client'[d].pc \in {"lock", "locked"} =>
            call'[d].state = "called" /\ client'[d].shard = StripeOf(call'[d].op.key)
    BY <2>3 DEF LockInv
  <2> QED
    BY <2>1, <2>2, <2>3, <2>4, <2>5, <2>6, <2>7, <2>8 DEF LockInv
<1>4. ASSUME NEW op \in LockedOp, Call(c, op)
      PROVE  StoreInv' /\ LockInv'
  <2>1. op \in KV!Op /\ op.key \in Key
    BY DEF LockedOp, KV!Op
  <2>2. StoreInv'
    BY <1>4, <2>1, StoreSteps DEF Call, lockVars
  <2>3. UNCHANGED <<kind, worker, lock, view, store>>
    BY <1>4 DEF Call, KV!Call, lockVars, queueVars
  <2>4. call' = [call EXCEPT ![c] = [state |-> "called", op |-> op]]
    BY <1>4 DEF Call, KV!Call
  <2>5. /\ client[c].pc = "idle"
        /\ client' = [client EXCEPT ![c] = [pc |-> "lock", shard |-> StripeOf(op.key)]]
    BY <1>4 DEF Call
  <2>6. call'[c].state = "called" /\ call'[c].op = op
    BY <2>4 DEF StoreInv
  <2>7. StripeOf(op.key) \in Shards
    BY <2>1, StripeType
  <2>8. /\ client'[c].pc = "lock" /\ client'[c].shard = StripeOf(op.key)
        /\ \A d \in Client : d # c => client'[d] = client[d]
        /\ client' \in [Client -> [pc : {"idle", "lock", "locked", "wait"}, shard : Shards]]
    BY <2>5, <2>7 DEF LockInv
  <2>9. \A d \in Client : d # c => call'[d] = call[d]
    BY <2>4 DEF StoreInv
  <2>10. \A t : Table(t)' = Table(t)
    BY <2>3 DEF Table, StripeOf
  <2>11. \A k : StripeOf(k)' = StripeOf(k)
    BY <2>3 DEF StripeOf
  <2> QED
    BY <2>2, <2>3, <2>5, <2>6, <2>8, <2>9, <2>10, <2>11, SMTT(30) DEF LockInv
<1> QED
  BY <1>1, <1>2, <1>3, <1>4 DEF LockStep

-----------------------------------------------------------------------------
\* Inv holds initially.
LEMMA InvInit == EnginesInit => Inv
<1> SUFFICES ASSUME EnginesInit
             PROVE  Inv
  OBVIOUS
<1>1. 1 \in Shards
  BY ShardedConstants DEF Shards
<1>2. StoreInv
  BY DEF EnginesInit, Init, KV!Init, KV!Idle, StoreInv, Tables
<1>3. QueueInv
  <2>1. TypeOK
    <3>1. /\ control \in Controls /\ queue \in [Shards -> Seq(Client)]
          /\ client \in [Client -> [pc : {"idle", "notify", "wait"}, shard : Shards]]
      BY <1>1 DEF EnginesInit, Init, Controls
    <3>2. /\ worker \in [Shards -> {"head", "enter", "blocking", "asleep", "process", "exited"}]
          /\ hand \in [Shards -> Client \union {None}]
      BY DEF EnginesInit, Init
    <3>3. running \in BOOLEAN
      BY Zenon DEF EnginesInit, Init
    <3>4. starts \in 0 .. MaxStarts
      BY ShardedConstants DEF EnginesInit, Init
    <3> QED
      BY <1>2, <3>1, <3>2, <3>3, <3>4 DEF TypeOK, Controls, StoreInv, Tables
  <2> QED
    BY <2>1 DEF EnginesInit, Init, QueueInv, NoMissedRequest
<1>4. LockInv
  BY <1>1, ShardedConstants DEF EnginesInit, Init, LockInv
<1> QED
  BY <1>2, <1>3, <1>4 DEF Inv

\* Inv is inductive.
LEMMA InvNext == Inv /\ [EnginesNext]_engineVars => Inv'
<1> SUFFICES ASSUME Inv, [EnginesNext]_engineVars
             PROVE  Inv'
  OBVIOUS
<1>1. CASE kind = "queues" /\ Next /\ Watch /\ UNCHANGED lockVars
  <2>1. StoreInv /\ QueueInv /\ kind' = "queues"
    BY <1>1 DEF Inv, lockVars
  <2>2. StoreInv' /\ QueueInv'
    BY <1>1, <2>1, CallerStep, WorkerSteps, ControlSteps DEF Next
  <2> QED
    BY <2>1, <2>2 DEF Inv
<1>2. CASE kind # "queues" /\ (\E c \in Client : LockStep(c)) /\ Watch
  <2>1. StoreInv /\ LockInv
    BY <1>2 DEF Inv
  <2>2. PICK c \in Client : LockStep(c)
    BY <1>2
  <2>3. StoreInv' /\ LockInv'
    BY <2>1, <2>2, LockSteps
  <2>4. kind' = kind
    BY <2>2 DEF LockStep, Lock, Commit, Call, lockVars
  <2> QED
    BY <1>2, <2>3, <2>4 DEF Inv
<1>3. CASE UNCHANGED <<vars, lockVars>>
  <2> USE <1>3 DEF vars, lockVars
  <2>1. StoreInv => StoreInv'
    BY DEF StoreInv
  <2>2. TypeOK => TypeOK'
    BY DEF TypeOK
  <2>3. NoMissedRequest => NoMissedRequest'
    BY DEF NoMissedRequest
  <2>4. QueueInv => QueueInv'
    BY <2>2, <2>3, Zenon DEF QueueInv
  <2>5. /\ \A t : Table(t)' = Table(t)
        /\ \A k : StripeOf(k)' = StripeOf(k)
    BY DEF Table, StripeOf
  <2>6. LockInv => LockInv'
    BY <2>5 DEF LockInv
  <2> QED
    BY <2>1, <2>4, <2>6, Zenon DEF Inv
<1> QED
  BY <1>1, <1>2, <1>3 DEF EnginesNext, engineVars

\* Inv is an invariant of the engines.
LEMMA Invariance == EnginesSpec => []Inv
BY InvInit, InvNext, PTL DEF EnginesSpec

\* No worker of ShardedEngine sleeps through a request (NoMissedRequest), for any number
\* of callers and shards: the push and the predicate of the wait are under one mutex.
THEOREM NoRequestIsMissed == EnginesSpec => []NoMissedRequest
<1>1. Inv => NoMissedRequest
  BY DEF Inv, QueueInv, LockInv, NoMissedRequest
<1> QED
  BY <1>1, Invariance, PTL

\* A step of any of the engines is a step of AtomicKV, or none.
LEMMA StepRefines ==
    Inv /\ [EnginesNext]_engineVars => [KV!Next]_(KV!vars)
<1> SUFFICES ASSUME Inv, EnginesNext
             PROVE  KV!Next \/ UNCHANGED <<store, call>>
  BY DEF engineVars, vars, KV!vars
<1>1. CASE kind = "queues" /\ Next
  <2> USE DEF KV!Next
  <2>1. ASSUME NEW c \in Client, Notify(c) \/ Return(c) \/ \E op \in Request : Enqueue(c, op)
        PROVE  KV!Next \/ UNCHANGED <<store, call>>
    BY <2>1 DEF Notify, Return, Enqueue, Request
  <2>2. ASSUME NEW s \in Shards, WorkerStep(s)
        PROVE  KV!Next \/ UNCHANGED <<store, call>>
    <3>1. CASE WorkerProcess(s)
      BY <1>1, <3>1 DEF WorkerProcess, Inv, QueueInv
    <3> QED
      BY <2>2, <3>1 DEF WorkerStep, WorkerHead, WorkerTake, WorkerIdle, WorkerSleep
  <2>3. CASE Start \/ Stop \/ StopNotify \/ StopJoin
    BY <2>3 DEF Start, Stop, StopNotify, StopJoin
  <2> QED
    BY <1>1, <2>1, <2>2, <2>3 DEF Next
<1>2. CASE kind # "queues" /\ \E c \in Client : LockStep(c)
  <2>1. PICK c \in Client : LockStep(c)
    BY <1>2
  <2>2. CASE Commit(c)
    BY <1>2, <2>2, CommitIsDo DEF Inv, KV!Next
  <2>3. CASE Lock(c)
    BY <2>3 DEF Lock
  <2>4. CASE Return(c)
    BY <2>4 DEF Return, KV!Next
  <2>5. CASE \E op \in LockedOp : Call(c, op)
    BY <2>5 DEF Call, LockedOp, KV!Next
  <2> QED
    BY <2>1, <2>2, <2>3, <2>4, <2>5 DEF LockStep
<1>3. CASE UNCHANGED vars
  BY <1>3 DEF vars
<1> QED
  BY <1>1, <1>2, <1>3 DEF EnginesNext

\* Linearizable: with any number of threads, keys, values and shards, each of the three
\* engines implements AtomicKV. Behind a mutex a whole table is loaded and written
\* back, and no update of another thread is overwritten.
THEOREM EnginesAreLinearizable == EnginesSpec => Linearizable
<1>1. EnginesInit => KV!Init
  BY DEF EnginesInit, Init
<1> QED
  BY <1>1, StepRefines, Invariance, PTL DEF EnginesSpec, Linearizable, KV!Spec

-----------------------------------------------------------------------------
\* The keys of the tables the counting thread is done with.
Seen == {k \in Key : StripeOf(k) < count.shard}

Counting == [pc : {"idle", "busy", "done"}, shard : Nat \ {0}, total : Nat,
             always : SUBSET Key, ever : SUBSET Key]

\* What it has counted so far lies between what was always and what was ever in the
\* tables it has seen.
CountInv ==
    /\ count \in Counting
    /\ count.pc # "idle" => /\ kind # "queues"
                            /\ count.always \subseteq Present(store)
                            /\ Present(store) \subseteq count.ever
    /\ count.pc = "done" => count.shard > LastStripe
    /\ count.always \subseteq count.ever
    /\ count.total \in Cardinality(count.always \intersect Seen) ..
                       Cardinality(count.ever \intersect Seen)

\* Sets of keys are finite, and a part of one is no larger.
LEMMA KeySets ==
    ASSUME NEW S \in SUBSET Key, NEW T \in SUBSET S
    PROVE  /\ Cardinality(S) \in Nat /\ Cardinality(T) \in Nat
           /\ Cardinality(T) <= Cardinality(S)
<1>1. IsFiniteSet(S)
  BY ShardedConstants, FS_Subset
<1> QED
  BY <1>1, FS_Subset, FS_CardinalityType

\* Two sets of keys without a common key.
LEMMA DisjointKeySets ==
    ASSUME NEW S \in SUBSET Key, NEW T \in SUBSET Key, S \intersect T = {}
    PROVE  Cardinality(S \union T) = Cardinality(S) + Cardinality(T)
<1>1. IsFiniteSet(S) /\ IsFiniteSet(T)
  BY ShardedConstants, FS_Subset
<1>2. Cardinality(S \intersect T) = 0
  BY FS_EmptySet
<1>3. Cardinality(S) \in Nat /\ Cardinality(T) \in Nat
  BY <1>1, FS_CardinalityType
<1>4. Cardinality(S \union T) = Cardinality(S) + Cardinality(T) - Cardinality(S \intersect T)
  BY <1>1, FS_Union, Zenon
<1> QED
  BY <1>2, <1>3, <1>4

\* A sum of bounded numbers is bounded by the sums of the bounds.
LEMMA SumBounds ==
    ASSUME NEW lo1 \in Nat, NEW n1 \in Nat, NEW hi1 \in Nat, lo1 <= n1, n1 <= hi1,
           NEW lo2 \in Nat, NEW n2 \in Nat, NEW hi2 \in Nat, lo2 <= n2, n2 <= hi2
    PROVE  n1 + n2 \in (lo1 + lo2) .. (hi1 + hi2)
OBVIOUS

\* CountInv holds initially.
LEMMA CountInit == EnginesInit => CountInv
<1> SUFFICES ASSUME EnginesInit
             PROVE  CountInv
  OBVIOUS
<1>1. count = NotCounting
  BY DEF EnginesInit
<1>2. count.always \intersect Seen = {} /\ count.ever \intersect Seen = {}
  BY <1>1 DEF NotCounting
<1>3. Cardinality({}) = 0
  BY FS_EmptySet
<1> QED
  BY <1>1, <1>2, <1>3 DEF NotCounting, CountInv, Counting

\* A change of the tables while the thread counts.
LEMMA CountWatch ==
    ASSUME CountInv, Watch, UNCHANGED kind
    PROVE  CountInv'
<1>1. CASE count.pc = "idle"
  BY <1>1 DEF Watch, CountInv, Seen, StripeOf
<1>2. CASE count.pc # "idle"
  <2>1. count' = [count EXCEPT !.always = @ \intersect Present(store'),
                               !.ever = @ \union Present(store')]
    BY <1>2 DEF Watch
  <2>2. /\ count'.always = count.always \intersect Present(store')
        /\ count'.ever = count.ever \union Present(store')
        /\ count'.pc = count.pc /\ count'.shard = count.shard /\ count'.total = count.total
    BY <2>1 DEF CountInv, Counting
  <2>3. Present(store') \subseteq Key
    BY DEF Present
  <2>4. count' \in Counting
    BY <2>1, <2>3, Zenon DEF CountInv, Counting
  <2>5. Seen' = Seen /\ LastStripe' = LastStripe
    BY <2>2 DEF Seen, StripeOf, LastStripe
  <2>6. /\ Cardinality(count'.always \intersect Seen)
             <= Cardinality(count.always \intersect Seen)
        /\ Cardinality(count'.always \intersect Seen) \in Nat
        /\ Cardinality(count.always \intersect Seen) \in Nat
    <3>1. count.always \intersect Seen \in SUBSET Key
      BY DEF Seen
    <3>2. count'.always \intersect Seen \in SUBSET (count.always \intersect Seen)
      BY <2>2
    <3> QED
      BY <3>1, <3>2, KeySets
  <2>7. /\ Cardinality(count.ever \intersect Seen)
             <= Cardinality(count'.ever \intersect Seen)
        /\ Cardinality(count'.ever \intersect Seen) \in Nat
        /\ Cardinality(count.ever \intersect Seen) \in Nat
    <3>1. count'.ever \intersect Seen \in SUBSET Key
      BY DEF Seen
    <3>2. count.ever \intersect Seen \in SUBSET (count'.ever \intersect Seen)
      BY <2>2
    <3> QED
      BY <3>1, <3>2, KeySets
  <2>8. count'.total \in Cardinality(count'.always \intersect Seen) ..
                         Cardinality(count'.ever \intersect Seen)
    BY <2>2, <2>6, <2>7 DEF CountInv, Counting
  <2>9. /\ count'.always \subseteq Present(store')
        /\ Present(store') \subseteq count'.ever
        /\ count'.always \subseteq count'.ever
    BY <2>2
  <2> QED
    BY <1>2, <2>2, <2>4, <2>5, <2>8, <2>9 DEF CountInv, Present
<1> QED
  BY <1>1, <1>2

\* The turn of the loop for one table: its keys are added once.
LEMMA CountOne ==
    ASSUME CountInv, CountShard, UNCHANGED <<kind, store>>
    PROVE  CountInv'
<1> DEFINE T == Table(count.shard)
           P == Present(store)
<1>1. /\ count.pc = "busy"
      /\ count' = [count EXCEPT !.shard = @ + 1, !.total = @ + Cardinality(P \intersect T)]
  BY DEF CountShard
<1>2. T \subseteq Key /\ P \subseteq Key
  BY DEF Table, Present
<1>3. Cardinality(P \intersect T) \in Nat
  BY <1>2, KeySets
<1>4. /\ count'.shard = count.shard + 1
      /\ count'.total = count.total + Cardinality(P \intersect T)
      /\ count'.always = count.always /\ count'.ever = count.ever /\ count'.pc = "busy"
  BY <1>1 DEF CountInv, Counting
<1>5. count' \in Counting
  <2>1. count.shard + 1 \in Nat \ {0} /\ count.total + Cardinality(P \intersect T) \in Nat
    BY <1>3 DEF CountInv, Counting
  <2> HIDE DEF P, T
  <2> QED
    BY <1>1, <2>1, Zenon DEF CountInv, Counting
<1>6. Seen' = Seen \union T /\ Seen \intersect T = {}
  <2>1. \A k \in Key : StripeOf(k) \in Nat /\ StripeOf(k)' = StripeOf(k)
    BY StripeType, ShardedConstants DEF Shards, StripeOf
  <2>2. count.shard \in Nat
    BY DEF CountInv, Counting
  <2>3. \A k \in Key : StripeOf(k)' < count'.shard
                         <=> StripeOf(k) < count.shard \/ StripeOf(k) = count.shard
    BY <1>4, <2>1, <2>2
  <2> QED
    BY <2>1, <2>2, <2>3 DEF Seen, Table
<1> HIDE DEF T, P
<1>7. ASSUME NEW S \in SUBSET Key
      PROVE  /\ Cardinality(S \intersect (Seen \union T))
                   = Cardinality(S \intersect Seen) + Cardinality(S \intersect T)
             /\ Cardinality(S \intersect Seen) \in Nat
             /\ Cardinality(S \intersect T) \in Nat
  <2>1. S \intersect (Seen \union T) = (S \intersect Seen) \union (S \intersect T)
    OBVIOUS
  <2>2. (S \intersect Seen) \intersect (S \intersect T) = {}
    BY <1>6
  <2>3. S \intersect Seen \in SUBSET Key /\ S \intersect T \in SUBSET Key
    OBVIOUS
  <2> QED
    BY <2>1, <2>2, <2>3, DisjointKeySets, KeySets
<1>8. /\ count.always \subseteq P /\ P \subseteq count.ever
      /\ count.always \in SUBSET Key /\ count.ever \in SUBSET Key
  BY <1>1 DEF CountInv, Counting, P
<1>9. /\ Cardinality(count.always \intersect T) <= Cardinality(P \intersect T)
      /\ Cardinality(P \intersect T) <= Cardinality(count.ever \intersect T)
  <2>1. /\ P \intersect T \in SUBSET Key
        /\ count.ever \intersect T \in SUBSET Key
        /\ count.always \intersect T \in SUBSET (P \intersect T)
        /\ P \intersect T \in SUBSET (count.ever \intersect T)
    BY <1>2, <1>8
  <2> QED
    BY <2>1, KeySets
<1>10. count'.total \in Cardinality(count'.always \intersect Seen') ..
                        Cardinality(count'.ever \intersect Seen')
  <2>1. count.total \in Nat
    BY DEF CountInv, Counting
  <2>2. /\ Cardinality(count.always \intersect Seen) <= count.total
        /\ count.total <= Cardinality(count.ever \intersect Seen)
    BY <1>7, <1>8, <2>1 DEF CountInv
  <2>3. /\ Cardinality(count'.always \intersect Seen')
             = Cardinality(count.always \intersect Seen) + Cardinality(count.always \intersect T)
        /\ Cardinality(count'.ever \intersect Seen')
             = Cardinality(count.ever \intersect Seen) + Cardinality(count.ever \intersect T)
    BY <1>4, <1>6, <1>7, <1>8, Zenon
  <2>4. /\ Cardinality(count.always \intersect Seen) \in Nat
        /\ Cardinality(count.ever \intersect Seen) \in Nat
        /\ Cardinality(count.always \intersect T) \in Nat
        /\ Cardinality(count.ever \intersect T) \in Nat
    BY <1>7, <1>8, Zenon
  <2>5. count.total + Cardinality(P \intersect T) \in
          (Cardinality(count.always \intersect Seen) + Cardinality(count.always \intersect T)) ..
          (Cardinality(count.ever \intersect Seen) + Cardinality(count.ever \intersect T))
    BY <1>3, <1>9, <2>1, <2>2, <2>4, SumBounds
  <2> QED
    BY <1>4, <2>3, <2>5
<1>11. Present(store)' = Present(store)
  BY DEF Present
<1> QED
  BY <1>1, <1>4, <1>5, <1>10, <1>11 DEF CountInv

\* CountInv is inductive with Inv.
LEMMA CountNext == Inv /\ CountInv /\ [EnginesNext]_engineVars => CountInv'
<1> SUFFICES ASSUME Inv, CountInv, [EnginesNext]_engineVars
             PROVE  CountInv'
  OBVIOUS
<1>1. CASE kind = "queues" /\ Next /\ Watch /\ UNCHANGED lockVars
  BY <1>1, CountWatch DEF lockVars
<1>2. CASE kind # "queues" /\ (\E c \in Client : LockStep(c)) /\ Watch
  <2>1. kind' = kind
    BY <1>2 DEF LockStep, Lock, Commit, Call, lockVars
  <2> QED
    BY <1>2, <2>1, CountWatch
<1>3. CASE CountBegin /\ UNCHANGED <<vars, lockVars>>
  <2>1. /\ count' = [pc |-> "busy", shard |-> 1, total |-> 0,
                     always |-> Present(store), ever |-> Present(store)]
        /\ kind # "queues" /\ kind' = kind /\ store' = store
    BY <1>3 DEF CountBegin, vars, lockVars
  <2>2. Present(store) \subseteq Key /\ Present(store)' = Present(store)
    BY <2>1 DEF Present
  <2>3. Seen' = {}
    <3>1. \A k \in Key : StripeOf(k)' = StripeOf(k) /\ StripeOf(k) \in Nat /\ StripeOf(k) >= 1
      BY <2>1, StripeType, ShardedConstants DEF StripeOf, Shards
    <3> QED
      BY <2>1, <3>1 DEF Seen
  <2>4. /\ Cardinality(count'.always \intersect Seen') = 0
        /\ Cardinality(count'.ever \intersect Seen') = 0
    <3>1. count'.always \intersect Seen' = {} /\ count'.ever \intersect Seen' = {}
      BY <2>3
    <3> QED
      BY <3>1, FS_EmptySet
  <2>5. count' \in Counting
    BY <2>1, <2>2 DEF Counting
  <2> QED
    BY <2>1, <2>2, <2>4, <2>5 DEF CountInv
<1>4. CASE CountShard /\ UNCHANGED <<vars, lockVars>>
  BY <1>4, CountOne DEF vars, lockVars
<1>5. CASE CountEnd /\ UNCHANGED <<vars, lockVars>>
  <2>1. /\ count.shard > LastStripe /\ count.pc = "busy"
        /\ count' = [count EXCEPT !.pc = "done"]
        /\ kind' = kind /\ store' = store
    BY <1>5 DEF CountEnd, vars, lockVars
  <2>2. /\ count' \in Counting
        /\ count'.shard = count.shard /\ count'.total = count.total
        /\ count'.always = count.always /\ count'.ever = count.ever /\ count'.pc = "done"
    BY <2>1 DEF CountInv, Counting
  <2>3. Seen' = Seen /\ LastStripe' = LastStripe /\ Present(store)' = Present(store)
    BY <2>1, <2>2 DEF Seen, StripeOf, LastStripe, Present
  <2> QED
    BY <2>1, <2>2, <2>3 DEF CountInv
<1>6. CASE CountReturn /\ UNCHANGED <<vars, lockVars>>
  <2>1. count' = NotCounting
    BY <1>6 DEF CountReturn
  <2>2. count'.always \intersect Seen' = {} /\ count'.ever \intersect Seen' = {}
    BY <2>1 DEF NotCounting
  <2>3. Cardinality({}) = 0
    BY FS_EmptySet
  <2> QED
    BY <2>1, <2>2, <2>3 DEF NotCounting, CountInv, Counting
<1>7. CASE UNCHANGED engineVars
  BY <1>7 DEF CountInv, Seen, StripeOf, LastStripe, Present, engineVars, vars, lockVars
<1> QED
  BY <1>1, <1>2, <1>3, <1>4, <1>5, <1>6, <1>7 DEF EnginesNext

\* CountInv is an invariant.
LEMMA CountInvariance == EnginesSpec => []CountInv
BY CountInit, CountNext, Invariance, PTL DEF EnginesSpec

\* CountInRange: total_entries of ShardedEngineSync, which locks one shard at a time, and
\* size of MutexEngine count every key that stays and none that was never there, for any
\* number of shards and of threads that set and remove meanwhile.
THEOREM CountsAreInRange == EnginesSpec => []CountInRange
<1>1. CountInv /\ Inv => CountInRange
  <2> SUFFICES ASSUME CountInv, Inv, count.pc = "done"
               PROVE  count.total \in Cardinality(count.always) .. Cardinality(count.ever)
    BY DEF CountInRange
  <2>1. kind \in {"stripes", "mutex"}
    BY DEF Inv, StoreInv, CountInv
  <2>2. \A k \in Key : StripeOf(k) \in Nat /\ StripeOf(k) <= LastStripe
    BY <2>1, ShardedConstants DEF StripeOf, LastStripe, Shards
  <2>3. LastStripe \in Nat /\ count.shard \in Nat /\ count.shard > LastStripe
    BY ShardedConstants DEF LastStripe, CountInv, Counting
  <2>4. Seen = Key
    BY <2>2, <2>3 DEF Seen
  <2>5. count.always \intersect Seen = count.always /\ count.ever \intersect Seen = count.ever
    BY <2>4 DEF CountInv, Counting
  <2> QED
    BY <2>5, SMTT(30) DEF CountInv
<1> QED
  BY <1>1, Invariance, CountInvariance, PTL

\* EnginesTypeOK: a mutex is held by the one thread between its load and its store.
THEOREM EnginesTypeCorrect == EnginesSpec => []EnginesTypeOK
<1>1. Inv /\ CountInv => EnginesTypeOK
  <2> SUFFICES ASSUME Inv, CountInv
               PROVE  EnginesTypeOK
    OBVIOUS
  <2>1. kind = "queues" => TypeOK
    BY DEF Inv, QueueInv
  <2>2. ASSUME NEW s \in Shards, NEW c \in Client
        PROVE  lock[s] = c <=> client[c].pc = "locked" /\ client[c].shard = s
    <3>1. CASE kind = "queues"
      <4>1. lock[s] = None /\ client[c].pc # "locked"
        BY <3>1, Zenon DEF Inv, QueueInv, TypeOK
      <4> QED
        BY <4>1, ShardedConstants
    <3>2. CASE kind # "queues"
      BY <3>2 DEF Inv, LockInv
    <3> QED
      BY <3>1, <3>2
  <2>3. count.pc \in {"idle", "busy", "done"} /\ count.always \subseteq count.ever
    BY DEF CountInv, Counting
  <2> QED
    BY <2>1, <2>2, <2>3 DEF EnginesTypeOK
<1> QED
  BY <1>1, Invariance, CountInvariance, PTL

-----------------------------------------------------------------------------
\* Conservation of requests. A worker has a request in hand exactly while it processes
\* it; the workers stop joins have left, and no other worker starts before all have.
WorkersInv ==
    /\ \A s \in Shards : worker[s] # "process" => hand[s] = None
    /\ control.pc = "stopped" => \A s \in Shards : worker[s] = "exited"
    /\ control.pc = "join" => \A s \in 1 .. control.shard - 1 : worker[s] = "exited"

\* A request in a place is one that is not answered, of that shard, and in no other
\* place; and every one that is not answered has a place.
PlacesInv ==
    /\ \A c \in Client, s \in Shards, i \in Nat :
          Holds(s, i, c) => Unanswered(c) /\ client[c].shard = s
    /\ \A c \in Client, s \in Shards, i, j \in Nat :
          Holds(s, i, c) /\ Holds(s, j, c) => i = j
    /\ \A c \in Client : Unanswered(c) => \E i \in Nat : Holds(client[c].shard, i, c)

\* The locking engines have no queues, and an answer when they wait.
NoPlaces ==
    /\ \A s \in Shards : hand[s] = None /\ queue[s] = << >>
    /\ \A c \in Client : ~Unanswered(c)

ConserveInv ==
    /\ kind = "queues" => WorkersInv /\ PlacesInv
    /\ kind # "queues" => NoPlaces

\* What the invariant says of the places of one caller is the property.
LEMMA OnePlace == Inv /\ ConserveInv => RequestsConserved
<1> SUFFICES ASSUME Inv, ConserveInv, NEW c \in Client
             PROVE  LET places == UNION {{<<s, i>> : i \in {n \in 0 .. Len(queue[s]) :
                                                              Holds(s, n, c)}} : s \in Shards}
                    IN  IF Unanswered(c)
                          THEN /\ Cardinality(places) = 1
                               /\ \A p \in places : p[1] = client[c].shard
                          ELSE places = {}
  BY Zenon DEF RequestsConserved
<1> DEFINE places == UNION {{<<s, i>> : i \in {n \in 0 .. Len(queue[s]) : Holds(s, n, c)}} :
                              s \in Shards}
<1>1. CASE kind # "queues"
  <2>1. ~Unanswered(c) /\ \A s \in Shards : hand[s] = None /\ queue[s] = << >>
    BY <1>1 DEF ConserveInv, NoPlaces
  <2>2. \A s \in Shards : \A n \in 0 .. Len(queue[s]) : ~Holds(s, n, c)
    BY <2>1, ShardedConstants DEF Holds
  <2> QED
    BY <2>1, <2>2
<1>2. CASE kind = "queues"
  <2>1. PlacesInv /\ \A s \in Shards : queue[s] \in Seq(Client)
    BY <1>2 DEF ConserveInv, Inv, QueueInv, TypeOK
  <2>2. \A p \in places : \E s \in Shards, i \in Nat : p = <<s, i>> /\ Holds(s, i, c)
    BY <2>1
  <2>3. CASE ~Unanswered(c)
    BY <2>1, <2>2, <2>3, SMTT(30) DEF PlacesInv
  <2>4. CASE Unanswered(c)
    <3> DEFINE t == client[c].shard
    <3>1. t \in Shards
      BY <1>2 DEF Inv, QueueInv, TypeOK
    <3>2. PICK i \in Nat : Holds(t, i, c)
      BY <2>1, <2>4 DEF PlacesInv
    <3>3. i \in 0 .. Len(queue[t])
      BY <2>1, <3>1, <3>2 DEF Holds
    <3>4. <<t, i>> \in places
      BY <3>1, <3>2, <3>3
    <3>5. \A s \in Shards, j \in Nat : Holds(s, j, c) => s = t /\ j = i
      BY <2>1, <3>1, <3>2 DEF PlacesInv
    <3>6. places = {<<t, i>>}
      BY <2>2, <3>4, <3>5
    <3>7. Cardinality(places) = 1
      BY <3>6, FS_Singleton, Zenon
    <3>8. \A p \in places : p[1] = client[c].shard
      BY <3>6
    <3> HIDE DEF places
    <3> QED
      BY <2>4, <3>7, <3>8 DEF places
  <2> QED
    BY <2>3, <2>4
<1> QED
  BY <1>1, <1>2

\* No step wakes a worker that has left but start, and only WorkerTake fills a hand.
LEMMA WorkersNext ==
    ASSUME QueueInv, WorkersInv, Next
    PROVE  WorkersInv'
<1> USE DEF QueueInv, WorkersInv
<1>0. \A s \in 1 .. control.shard - 1 : s \in Shards
  BY ShardedConstants DEF TypeOK, Shards
<1>1. ASSUME NEW c \in Client, Notify(c) \/ Return(c) \/ \E op \in Request : Enqueue(c, op)
      PROVE  WorkersInv'
  <2>1. UNCHANGED <<control, hand>>
    BY <1>1 DEF Notify, Return, Enqueue
  <2>2. \A s \in Shards : worker'[s] = worker[s] \/ (worker[s] = "asleep" /\ worker'[s] = "enter")
    BY <1>1 DEF Notify, Notified, Return, Enqueue, TypeOK
  <2> QED
    BY <1>0, <2>1, <2>2
<1>2. ASSUME NEW s \in Shards, WorkerStep(s)
      PROVE  WorkersInv'
  <2>1. /\ worker[s] # "exited" /\ control' = control
        /\ \A t \in Shards : t # s => worker'[t] = worker[t] /\ hand'[t] = hand[t]
    BY <1>2 DEF WorkerStep, WorkerHead, WorkerTake, WorkerIdle, WorkerSleep, WorkerProcess,
                Goto, TypeOK
  <2>2. worker'[s] # "process" => hand'[s] = None
    BY <1>2 DEF WorkerStep, WorkerHead, WorkerTake, WorkerIdle, WorkerSleep, WorkerProcess,
                Goto, TypeOK
  <2> QED
    BY <1>0, <2>1, <2>2
<1>3. CASE Start
  BY <1>3 DEF Start, TypeOK
<1>4. CASE Stop
  BY <1>4 DEF Stop, TypeOK
<1>5. CASE StopNotify
  <2>1. /\ hand' = hand
        /\ \A s \in Shards : worker'[s] = worker[s] \/ (worker[s] = "asleep" /\ worker'[s] = "enter")
    BY <1>5 DEF StopNotify, Notified, TypeOK
  <2>2. control'.pc = "notify" \/ (control'.pc = "join" /\ control'.shard = 1)
    BY <1>5 DEF StopNotify, Advance, TypeOK
  <2> QED
    BY <2>1, <2>2
<1>6. CASE StopJoin
  <2>1. UNCHANGED <<hand, worker>>
    BY <1>6 DEF StopJoin
  <2>2. /\ control.shard \in Shards /\ control.pc = "join"
        /\ \A s \in 1 .. control.shard : worker[s] = "exited"
    BY <1>6, ShardedConstants DEF StopJoin, TypeOK, Shards
  <2>3. CASE control.shard < NumShards
    <3>1. control'.pc = "join" /\ control'.shard = control.shard + 1
      BY <1>6, <2>2, <2>3 DEF StopJoin, Advance, TypeOK
    <3> QED
      BY <2>1, <2>2, <3>1, ShardedConstants DEF Shards
  <2>4. CASE ~(control.shard < NumShards)
    <3>1. control'.pc = "stopped"
      BY <1>6, <2>4, SMTT(30) DEF StopJoin, Advance
    <3>2. control.shard = NumShards
      BY <2>2, <2>4, ShardedConstants, SMTT(30) DEF Shards
    <3> QED
      BY <2>1, <2>2, <3>1, <3>2 DEF Shards
  <2> QED
    BY <2>3, <2>4
<1> QED
  BY <1>1, <1>2, <1>3, <1>4, <1>5, <1>6 DEF Next

\* Steps that move no request and answer none.
LEMMA PlacesFrame ==
    ASSUME PlacesInv, UNCHANGED <<hand, queue>>,
           \A c \in Client : (Unanswered(c)' <=> Unanswered(c)) /\ client'[c].shard = client[c].shard
    PROVE  PlacesInv'
<1>1. \A c \in Client, s \in Shards, i \in Nat : Holds(s, i, c)' <=> Holds(s, i, c)
  BY DEF Holds
<1>2. \A c \in Client : \A i \in Nat :
        Holds(client[c].shard, i, c)' <=> Holds(client[c].shard, i, c)
  BY DEF Holds
<1> QED
  BY <1>1, <1>2 DEF PlacesInv

\* A caller adds a place when it pushes, and has none when it returns.
LEMMA CallerPlaces ==
    ASSUME StoreInv, QueueInv, PlacesInv, NEW c \in Client,
           Notify(c) \/ Return(c) \/ \E op \in Request : Enqueue(c, op)
    PROVE  PlacesInv'
<1>0. TypeOK
  BY SMTT(30) DEF QueueInv
<1>1. CASE Notify(c)
  <2>1. UNCHANGED <<hand, queue, call>>
    BY <1>1 DEF Notify
  <2>2. \A d \in Client : (Unanswered(d)' <=> Unanswered(d)) /\ client'[d].shard = client[d].shard
    BY <1>0, <1>1, <2>1, SMTT(30) DEF Notify, Unanswered, TypeOK
  <2> QED
    BY <2>1, <2>2, PlacesFrame
<1>2. CASE Return(c)
  <2>1. UNCHANGED <<hand, queue>>
    BY <1>2 DEF Return
  <2>2. ~Unanswered(c) /\ ~Unanswered(c)'
    BY <1>2 DEF Return, KV!Return, KV!Idle, Unanswered, StoreInv
  <2>3. \A d \in Client : d # c => client'[d] = client[d] /\ call'[d] = call[d]
    BY <1>0, <1>2 DEF Return, KV!Return, StoreInv, TypeOK
  <2>4. \A d \in Client, s \in Shards, i \in Nat : Holds(s, i, d)' <=> Holds(s, i, d)
    BY <2>1, SMTT(30) DEF Holds
  <2>5. \A d \in Client : d # c => (Unanswered(d)' <=> Unanswered(d))
    BY <2>3 DEF Unanswered
  <2>6. \A d \in Client : client[d].shard \in Shards
    BY <1>0, SMTT(30) DEF TypeOK
  <2>7. \A d \in Client, s \in Shards, i \in Nat :
          Holds(s, i, d)' => d # c /\ Unanswered(d)' /\ client'[d].shard = s
    <3> SUFFICES ASSUME NEW d \in Client, NEW s \in Shards, NEW i \in Nat, Holds(s, i, d)'
                 PROVE  d # c /\ Unanswered(d)' /\ client'[d].shard = s
      BY Zenon
    <3>1. Holds(s, i, d)
      BY <2>4, Zenon
    <3>2. Unanswered(d) /\ client[d].shard = s
      BY <3>1, Zenon DEF PlacesInv
    <3>3. d # c
      BY <2>2, <3>2, Zenon
    <3>4. client'[d] = client[d] /\ Unanswered(d)'
      BY <2>3, <2>5, <3>2, <3>3, Zenon
    <3> QED
      BY <3>2, <3>3, <3>4, Zenon
  <2>8. \A d \in Client : Unanswered(d)' => \E i \in Nat : Holds(client[d].shard, i, d)'
    <3> SUFFICES ASSUME NEW d \in Client, Unanswered(d)'
                 PROVE  \E i \in Nat : Holds(client[d].shard, i, d)'
      OBVIOUS
    <3>1. d # c /\ Unanswered(d)
      BY <2>2, <2>5
    <3>2. PICK i \in Nat : Holds(client[d].shard, i, d)
      BY <3>1 DEF PlacesInv
    <3>3. client'[d].shard = client[d].shard
      BY <2>3, <3>1, SMTT(30)
    <3> QED
      BY <2>1, <3>2, <3>3 DEF Holds
  <2> QED
    BY <2>4, <2>7, <2>8 DEF PlacesInv
<1>3. ASSUME NEW op \in Request, Enqueue(c, op)
      PROVE  PlacesInv'
  <2> DEFINE s == ShardOf[op.key]
             n == Len(queue[s]) + 1
  <2>1. s \in Shards
    BY ShardedConstants, SMTT(30) DEF Request, KV!Op
  <2>2. /\ queue' = [queue EXCEPT ![s] = Append(@, c)]
        /\ client' = [client EXCEPT ![c] = [pc |-> "notify", shard |-> s]]
        /\ call' = [call EXCEPT ![c] = [state |-> "called", op |-> op]]
        /\ call[c].state = "idle" /\ hand' = hand
    BY <1>3, ZenonT(60) DEF Enqueue, KV!Call
  <2> HIDE DEF s
  <2>3. ~Unanswered(c) /\ Unanswered(c)' /\ client'[c].shard = s
    BY <1>0, <2>2, SMTT(30) DEF Unanswered, StoreInv, TypeOK
  <2>4. \A d \in Client : d # c => /\ Unanswered(d)' <=> Unanswered(d)
                                   /\ client'[d] = client[d]
    BY <1>0, <2>2 DEF Unanswered, StoreInv, TypeOK
  <2>5. n \in Nat \ {0} /\ queue[s] \in Seq(Client)
    BY <1>0, <2>1, SMTT(30) DEF TypeOK
  <2>6. /\ queue'[s] = Append(queue[s], c)
        /\ \A t \in Shards : t # s => queue'[t] = queue[t]
    BY <1>0, <2>1, <2>2, SMTT(30) DEF TypeOK
  <2>7. /\ Len(queue'[s]) = n /\ queue'[s][n] = c
        /\ \A i \in 1 .. Len(queue[s]) : queue'[s][i] = queue[s][i]
    BY <2>5, <2>6
  <2>8. \A d \in Client, t \in Shards, i \in Nat :
          Holds(t, i, d)' <=> Holds(t, i, d) \/ (d = c /\ t = s /\ i = n)
    <3> SUFFICES ASSUME NEW d \in Client, NEW t \in Shards, NEW i \in Nat
                 PROVE  Holds(t, i, d)' <=> Holds(t, i, d) \/ (d = c /\ t = s /\ i = n)
      OBVIOUS
    <3>1. CASE t # s \/ i = 0
      BY <2>2, <2>5, <2>6, <3>1, SMTT(30) DEF Holds
    <3>2. CASE t = s /\ i # 0
      <4>1. i \in 1 .. Len(queue'[s]) <=> i \in 1 .. Len(queue[s]) \/ i = n
        BY <2>5, <2>7, <3>2
      <4>2. n \notin 1 .. Len(queue[s])
        BY <2>5, SMTT(30)
      <4> QED
        BY <2>7, <3>2, <4>1, <4>2, SMTT(30) DEF Holds
    <3> QED
      BY <3>1, <3>2
  <2> HIDE DEF n
  <2>9. \A t \in Shards, i \in Nat : ~Holds(t, i, c)
    BY <2>3, SMTT(30) DEF PlacesInv
  <2>10. \A d \in Client, t \in Shards, i \in Nat :
           Holds(t, i, d)' => Unanswered(d)' /\ client'[d].shard = t
    BY <2>3, <2>4, <2>8, SMTT(30) DEF PlacesInv
  <2>11. \A d \in Client, t \in Shards, i, j \in Nat :
           Holds(t, i, d)' /\ Holds(t, j, d)' => i = j
    BY <2>8, <2>9, SMTT(30) DEF PlacesInv
  <2>12. ASSUME NEW d \in Client, Unanswered(d)'
         PROVE  \E i \in Nat : Holds(client[d].shard, i, d)'
    <3>1. client'[d].shard \in Shards
      BY <1>0, <2>1, <2>3, <2>4, Zenon DEF TypeOK
    <3>2. \E i \in Nat : Holds(client'[d].shard, i, d) \/ (d = c /\ i = n)
      BY <2>4, <2>5, <2>12 DEF PlacesInv
    <3>3. PICK i \in Nat : Holds(client'[d].shard, i, d) \/ (d = c /\ i = n)
      BY <3>2
    <3>4. ASSUME NEW t \in Shards, t = client'[d].shard
          PROVE  Holds(t, i, d)'
      BY <2>3, <2>8, <3>3, <3>4
    <3> QED
      BY <3>1, <3>4, SMTT(30) DEF Holds
  <2> QED
    BY <2>10, <2>11, <2>12, SMTT(30) DEF PlacesInv
<1> QED
  BY <1>1, <1>2, <1>3

\* A worker moves the requests of its queue up by one place, and empties its hand when
\* it answers.
LEMMA WorkerPlaces ==
    ASSUME StoreInv, QueueInv, WorkersInv, PlacesInv, NEW s \in Shards, WorkerStep(s)
    PROVE  PlacesInv'
<1> USE DEF Goto
<1>0. TypeOK
  BY DEF QueueInv
<1>1. CASE WorkerHead(s) \/ WorkerIdle(s) \/ WorkerSleep(s)
  <2>1. UNCHANGED <<hand, queue, call, client>>
    BY <1>1 DEF WorkerHead, WorkerIdle, WorkerSleep
  <2>2. \A d \in Client : (Unanswered(d)' <=> Unanswered(d)) /\ client'[d].shard = client[d].shard
    BY <2>1, SMTT(30) DEF Unanswered
  <2> QED
    BY <2>1, <2>2, PlacesFrame
<1>2. CASE WorkerTake(s)
  <2>1. /\ queue[s] \in Seq(Client) /\ queue[s] # << >> /\ hand[s] = None
        /\ UNCHANGED <<call, client>>
    BY <1>0, <1>2 DEF WorkerTake, WorkersInv, TypeOK
  <2>2. /\ hand'[s] = Head(queue[s]) /\ queue'[s] = Tail(queue[s])
        /\ \A t \in Shards : t # s => hand'[t] = hand[t] /\ queue'[t] = queue[t]
    BY <1>0, <1>2, SMTT(30) DEF WorkerTake, TypeOK
  <2>3. /\ Len(queue[s]) \in Nat \ {0}
        /\ hand'[s] = queue[s][1]
        /\ Len(queue'[s]) = Len(queue[s]) - 1
        /\ \A i \in 1 .. Len(queue[s]) - 1 : queue'[s][i] = queue[s][i + 1]
    BY <2>1, <2>2
  <2>4. \A d \in Client, i \in Nat : Holds(s, i, d)' <=> Holds(s, i + 1, d)
    <3> SUFFICES ASSUME NEW d \in Client, NEW i \in Nat
                 PROVE  Holds(s, i, d)' <=> Holds(s, i + 1, d)
      OBVIOUS
    <3>1. CASE i = 0
      BY <2>3, <3>1, SMTT(30) DEF Holds
    <3>2. CASE i # 0
      <4>1. i + 1 # 0
        OBVIOUS
      <4>2. i \in 1 .. Len(queue'[s]) <=> i + 1 \in 1 .. Len(queue[s])
        BY <2>3, <3>2
      <4>3. i \in 1 .. Len(queue'[s]) => queue'[s][i] = queue[s][i + 1]
        BY <2>3
      <4> QED
        BY <3>2, <4>1, <4>2, <4>3 DEF Holds
    <3> QED
      BY <3>1, <3>2
  <2>5. \A d \in Client, t \in Shards, i \in Nat : t # s => (Holds(t, i, d)' <=> Holds(t, i, d))
    BY <2>2 DEF Holds
  <2>6. \A d \in Client : ~Holds(s, 0, d)
    BY <2>1, ShardedConstants DEF Holds
  <2>7. \A d \in Client : Unanswered(d)' <=> Unanswered(d)
    BY <2>1 DEF Unanswered
  <2>8. ASSUME NEW d \in Client, NEW t \in Shards, NEW i \in Nat, Holds(t, i, d)'
        PROVE  Unanswered(d)' /\ client'[d].shard = t
    <3>1. i + 1 \in Nat
      OBVIOUS
    <3>2. \E j \in Nat : Holds(t, j, d)
      BY <2>4, <2>5, <2>8, <3>1
    <3> QED
      BY <2>1, <2>7, <3>2 DEF PlacesInv
  <2>9. ASSUME NEW d \in Client, NEW t \in Shards, NEW i \in Nat, NEW j \in Nat,
               Holds(t, i, d)', Holds(t, j, d)'
        PROVE  i = j
    <3>1. CASE t # s
      BY <2>5, <2>9, <3>1 DEF PlacesInv
    <3>2. CASE t = s
      <4>1. Holds(s, i + 1, d) /\ Holds(s, j + 1, d)
        BY <2>4, <2>9, <3>2
      <4>2. i + 1 \in Nat /\ j + 1 \in Nat
        OBVIOUS
      <4>3. i + 1 = j + 1
        BY <4>1, <4>2 DEF PlacesInv
      <4> QED
        BY <4>3
    <3> QED
      BY <3>1, <3>2
  <2>10. ASSUME NEW d \in Client, Unanswered(d)'
         PROVE  \E i \in Nat : Holds(client[d].shard, i, d)'
    <3> DEFINE t == client[d].shard
    <3>1. t \in Shards /\ client'[d].shard = t
      BY <1>0, <2>1 DEF TypeOK
    <3>2. PICK i \in Nat : Holds(t, i, d)
      BY <2>7, <2>10 DEF PlacesInv
    <3> HIDE DEF t
    <3>3. \E j \in Nat : (t # s /\ j = i) \/ (t = s /\ j + 1 = i)
      <4>1. CASE t = s
        <5>1. i # 0
          BY <2>6, <3>2, <4>1
        <5>2. i - 1 \in Nat /\ (i - 1) + 1 = i
          BY <5>1
        <5> QED
          BY <4>1, <5>2
      <4>2. CASE t # s
        BY <4>2
      <4> QED
        BY <4>1, <4>2
    <3>4. PICK j \in Nat : (t # s /\ j = i) \/ (t = s /\ j + 1 = i)
      BY <3>3
    <3>5. Holds(t, j, d)'
      <4>1. CASE t # s
        <5>1. hand'[t] = hand[t] /\ queue'[t] = queue[t] /\ j = i
          BY <2>2, <3>1, <3>4, <4>1
        <5>2. t' = t
          BY <3>1 DEF t
        <5> QED
          BY <3>2, <5>1, <5>2 DEF Holds
      <4>2. CASE t = s
        <5>1. Holds(s, j, d)'
          BY <2>4, <3>2, <3>4, <4>2
        <5>2. t' = s
          BY <3>1, <4>2, SMTT(30) DEF t
        <5> QED
          BY <5>1, <5>2 DEF Holds
      <4> QED
        BY <4>1, <4>2
    <3> QED
      BY <3>5 DEF t
  <2> QED
    BY <2>8, <2>9, <2>10, SMTT(30) DEF PlacesInv
<1>3. CASE WorkerProcess(s)
  <2>0. PICK c \in Client : c = hand[s]
    BY <1>3 DEF WorkerProcess, QueueInv
  <2>1. KV!Do(c) /\ UNCHANGED <<queue, client>>
    BY <1>3, <2>0 DEF WorkerProcess
  <2>2. /\ hand'[s] = None
        /\ \A t \in Shards : t # s => hand'[t] = hand[t]
    BY <1>0, <1>3, SMTT(30) DEF WorkerProcess, TypeOK
  <2>3. \A d \in Client, t \in Shards, i \in Nat :
          Holds(t, i, d)' <=> Holds(t, i, d) /\ ~(t = s /\ i = 0)
    BY <2>1, <2>2, ShardedConstants, SMTT(30) DEF Holds
  <2>4. Holds(s, 0, c)
    BY <2>0 DEF Holds
  <2>5. ~Unanswered(c)' /\ \A d \in Client : d # c => (Unanswered(d)' <=> Unanswered(d))
    BY <2>1 DEF KV!Do, Unanswered, StoreInv
  <2>6. \A t \in Shards, i \in Nat : Holds(t, i, c) => t = s /\ i = 0
    BY <2>1, <2>4 DEF PlacesInv
  <2>7. \A d \in Client, t \in Shards, i \in Nat :
          Holds(t, i, d)' => Unanswered(d)' /\ client'[d].shard = t
    BY <2>1, <2>3, <2>5, <2>6 DEF PlacesInv
  <2>8. \A d \in Client, t \in Shards, i, j \in Nat :
          Holds(t, i, d)' /\ Holds(t, j, d)' => i = j
    BY <2>3 DEF PlacesInv
  <2>9. ASSUME NEW d \in Client, Unanswered(d)'
        PROVE  \E i \in Nat : Holds(client[d].shard, i, d)'
    <3>1. Unanswered(d) /\ d # hand[s]
      BY <2>0, <2>5, <2>9, SMTT(30)
    <3>2. PICK i \in Nat : Holds(client[d].shard, i, d)
      BY <3>1 DEF PlacesInv
    <3>3. client[d].shard \in Shards
      BY <1>0 DEF TypeOK
    <3>4. ~(client[d].shard = s /\ i = 0)
      BY <3>1, <3>2 DEF Holds
    <3>5. ASSUME NEW t \in Shards, t = client[d].shard
          PROVE  Holds(t, i, d)'
      BY <2>3, <3>2, <3>4, <3>5, SMTT(30)
    <3> QED
      BY <2>1, <3>3, <3>5 DEF Holds
  <2> QED
    BY <2>7, <2>8, <2>9 DEF PlacesInv
<1> QED
  BY <1>1, <1>2, <1>3 DEF WorkerStep

\* The engines that lock put nothing into a queue, and wait with an answer.
LEMMA NoPlacesNext ==
    ASSUME StoreInv, LockInv, NoPlaces, NEW c \in Client, LockStep(c)
    PROVE  NoPlaces'
<1>1. UNCHANGED <<hand, queue>>
  BY DEF LockStep, Lock, Commit, Return, Call, queueVars
<1>2. \A d \in Client : d # c => client'[d] = client[d] /\ call'[d] = call[d]
  BY DEF LockStep, Lock, Commit, Return, Call, KV!Return, KV!Call, LockInv, StoreInv
<1>3. ~Unanswered(c)'
  <2>1. CASE Lock(c)
    BY <2>1 DEF Lock, Unanswered, LockInv
  <2>2. CASE Commit(c)
    BY <2>2 DEF Commit, Unanswered, StoreInv
  <2>3. CASE Return(c)
    BY <2>3 DEF Return, KV!Return, KV!Idle, Unanswered, StoreInv
  <2>4. CASE \E op \in LockedOp : Call(c, op)
    BY <2>4 DEF Call, Unanswered, LockInv
  <2> QED
    BY <2>1, <2>2, <2>3, <2>4 DEF LockStep
<1>4. \A d \in Client : ~Unanswered(d)'
  BY <1>2, <1>3, SMTT(30) DEF NoPlaces, Unanswered
<1> QED
  BY <1>1, <1>4 DEF NoPlaces

\* ConserveInv holds initially.
LEMMA ConserveInit == EnginesInit => ConserveInv
<1> SUFFICES ASSUME EnginesInit
             PROVE  ConserveInv
  OBVIOUS
<1>1. \A c \in Client : ~Unanswered(c)
  BY DEF EnginesInit, Init, Unanswered
<1>2. \A s \in Shards : hand[s] = None /\ queue[s] = << >> /\ worker[s] = "exited"
  BY DEF EnginesInit, Init
<1>3. control.pc = "stopped"
  BY DEF EnginesInit, Init
<1>4. \A c \in Client, s \in Shards, i \in Nat : ~Holds(s, i, c)
  BY <1>2, ShardedConstants DEF Holds
<1> QED
  BY <1>1, <1>2, <1>3, <1>4, SMTT(30) DEF ConserveInv, WorkersInv, PlacesInv, NoPlaces

\* ConserveInv is inductive with Inv.
LEMMA ConserveNext == Inv /\ ConserveInv /\ [EnginesNext]_engineVars => ConserveInv'
<1> SUFFICES ASSUME Inv, ConserveInv, [EnginesNext]_engineVars
             PROVE  ConserveInv'
  OBVIOUS
<1>1. CASE kind = "queues" /\ Next /\ UNCHANGED lockVars
  <2>1. /\ StoreInv /\ QueueInv /\ WorkersInv /\ PlacesInv
        /\ kind' = "queues"
    BY <1>1 DEF Inv, ConserveInv, lockVars
  <2>2. WorkersInv'
    BY <1>1, <2>1, WorkersNext
  <2>3. CASE Start \/ Stop \/ StopNotify \/ StopJoin
    <3>1. UNCHANGED <<hand, queue, client, call>>
      BY <2>3 DEF Start, Stop, StopNotify, StopJoin
    <3>2. \A d \in Client :
            (Unanswered(d)' <=> Unanswered(d)) /\ client'[d].shard = client[d].shard
      BY <3>1 DEF Unanswered
    <3> QED
      BY <2>1, <2>2, <3>1, <3>2, PlacesFrame DEF ConserveInv
  <2>4. CASE \E c \in Client : Notify(c) \/ Return(c) \/ \E op \in Request : Enqueue(c, op)
    BY <2>1, <2>2, <2>4, CallerPlaces DEF ConserveInv
  <2>5. CASE \E s \in Shards : WorkerStep(s)
    BY <2>1, <2>2, <2>5, WorkerPlaces DEF ConserveInv
  <2> QED
    BY <1>1, <2>3, <2>4, <2>5 DEF Next
<1>2. CASE kind # "queues" /\ \E c \in Client : LockStep(c)
  <2>1. PICK c \in Client : LockStep(c)
    BY <1>2
  <2>2. NoPlaces'
    BY <1>2, <2>1, NoPlacesNext DEF Inv, ConserveInv
  <2>3. kind' = kind
    BY <2>1 DEF LockStep, Lock, Commit, Call, lockVars
  <2> QED
    BY <1>2, <2>2, <2>3 DEF ConserveInv
<1>3. CASE UNCHANGED <<vars, lockVars>>
  <2>1. UNCHANGED <<kind, control, worker, hand, queue, client, call>>
    BY <1>3 DEF vars, lockVars
  <2>2. \A d \in Client :
          (Unanswered(d)' <=> Unanswered(d)) /\ client'[d].shard = client[d].shard
    BY <2>1 DEF Unanswered
  <2>3. PlacesInv => PlacesInv'
    BY <2>1, <2>2, PlacesFrame
  <2>4. WorkersInv => WorkersInv'
    BY <2>1 DEF WorkersInv
  <2>5. NoPlaces => NoPlaces'
    BY <2>1, <2>2 DEF NoPlaces
  <2> QED
    BY <2>1, <2>3, <2>4, <2>5 DEF ConserveInv
<1> QED
  BY <1>1, <1>2, <1>3 DEF EnginesNext, engineVars

\* RequestsConserved: for any number of callers, shards and restarts, ShardedEngine
\* loses no request and holds none twice, through stop and start too.
THEOREM NoRequestIsLost == EnginesSpec => []RequestsConserved
BY Invariance, ConserveInit, ConserveNext, OnePlace, PTL DEF EnginesSpec

=============================================================================
