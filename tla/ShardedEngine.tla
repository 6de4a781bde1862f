--------------------------- MODULE ShardedEngine ---------------------------
(***************************************************************************)
(* engine/src/sharded_engine.cpp: one worker thread, request queue, mutex  *)
(* and condition variable per shard, the threads that call get, set and    *)
(* remove, and the one that calls start and stop.                          *)
(*                                                                         *)
(* A caller waits for its answer before it calls again, so its name stands *)
(* for its request. The tables of the shards hold different keys; store is *)
(* all of them.                                                            *)
(***************************************************************************)
EXTENDS Integers, Sequences, FiniteSets

CONSTANTS Client, Key, Value, None,
    NumShards,
    ShardOf,        \* get_shard_id
    MaxStarts       \* bound on the calls of start

Shards == 1 .. NumShards

ASSUME ShardedConstants ==
    /\ NumShards \in Nat \ {0}
    /\ ShardOf \in [Key -> Shards]
    /\ MaxStarts \in Nat
    /\ IsFiniteSet(Key)
    /\ None \notin Client

VARIABLES
    running,    \* running_
    control,    \* the start/stop thread: [pc, shard], and as history the shards
                \* whose worker missed the notification of stop
    starts,
    worker,     \* worker[s]: where worker_loop is
    hand,       \* hand[s]: req of the worker, or None
    queue,      \* request_queues_
    client,     \* client[c]: where its call is: [pc, shard]
    call,       \* call[c]: the request of c and its promise, as in AtomicKV
    store       \* the tables

vars == <<running, control, starts, worker, hand, queue, client, call, store>>

KV == INSTANCE AtomicKV

\* remove answers true whether or not the key was there.
Request == {op \in KV!Op : op.type # "ERASE"}

-----------------------------------------------------------------------------
Init ==
    /\ running = FALSE
    /\ control = [pc |-> "stopped", shard |-> 1, missed |-> {}]
    /\ starts = 0
    /\ worker = [s \in Shards |-> "exited"]
    /\ hand = [s \in Shards |-> None]
    /\ queue = [s \in Shards |-> << >>]
    /\ client = [c \in Client |-> [pc |-> "idle", shard |-> 1]]
    /\ KV!Init

\* worker_loop holds the mutex from the test of its predicate until it sleeps;
\* every other critical section is one step.
Free(s) == worker[s] # "blocking"

\* notify_one or notify_all: a queue has one worker.
Notified(s) == IF worker[s] = "asleep" THEN [worker EXCEPT ![s] = "enter"] ELSE worker

\* get, set and remove, up to the push.
Enqueue(c, op) ==
    LET s == ShardOf[op.key]
    IN  /\ client[c].pc = "idle"
        /\ Free(s)
        /\ KV!Call(c, op)
        /\ queue' = [queue EXCEPT ![s] = Append(@, c)]
        /\ client' = [client EXCEPT ![c] = [pc |-> "notify", shard |-> s]]
        /\ UNCHANGED <<running, control, starts, worker, hand>>

\* Mutant: the caller waits without waking the worker.
Notify_Forgotten(c) ==
    /\ client[c].pc = "notify"
    /\ client' = [client EXCEPT ![c].pc = "wait"]
    /\ UNCHANGED <<running, control, starts, worker, hand, queue, call, store>>

\* notify_one, after the unlock.
Notify(c) ==
    /\ client[c].pc = "notify"
    /\ worker' = Notified(client[c].shard)
    /\ client' = [client EXCEPT ![c].pc = "wait"]
    /\ UNCHANGED <<running, control, starts, hand, queue, call, store>>

\* future.get() returns.
Return(c) ==
    /\ client[c].pc = "wait"
    /\ KV!Return(c)
    /\ client' = [client EXCEPT ![c] = [pc |-> "idle", shard |-> 1]]
    /\ UNCHANGED <<running, control, starts, worker, hand, queue>>

-----------------------------------------------------------------------------
Goto(s, pc) ==
    /\ worker' = [worker EXCEPT ![s] = pc]
    /\ UNCHANGED <<running, control, starts, client>>

\* The test of the while.
WorkerHead(s) ==
    /\ worker[s] = "head"
    /\ Goto(s, IF running THEN "enter" ELSE "exited")
    /\ UNCHANGED <<hand, queue, call, store>>

\* Mutant: the request is left in the queue.
WorkerTake_Leave(s) ==
    /\ worker[s] = "enter"
    /\ queue[s] # << >>
    /\ hand' = [hand EXCEPT ![s] = Head(queue[s])]
    /\ Goto(s, "process")
    /\ UNCHANGED <<queue, call, store>>

\* With the mutex, the predicate of the wait holds: there is a request.
WorkerTake(s) ==
    /\ worker[s] = "enter"
    /\ queue[s] # << >>
    /\ hand' = [hand EXCEPT ![s] = Head(queue[s])]
    /\ queue' = [queue EXCEPT ![s] = Tail(@)]
    /\ Goto(s, "process")
    /\ UNCHANGED <<call, store>>

\* Mutant: the predicate does not look at running_.
WorkerIdle_Waits(s) ==
    /\ worker[s] = "enter"
    /\ queue[s] = << >>
    /\ Goto(s, "blocking")
    /\ UNCHANGED <<hand, queue, call, store>>

\* There is none: break if the engine is stopped, and wait if it is not. The
\* mutex is released by going to sleep, but running_ is not guarded by it.
WorkerIdle(s) ==
    /\ worker[s] = "enter"
    /\ queue[s] = << >>
    /\ Goto(s, IF running THEN "blocking" ELSE "exited")
    /\ UNCHANGED <<hand, queue, call, store>>

WorkerSleep(s) ==
    /\ worker[s] = "blocking"
    /\ Goto(s, "asleep")
    /\ UNCHANGED <<hand, queue, call, store>>

\* process_request
WorkerProcess(s) ==
    /\ worker[s] = "process"
    /\ KV!Do(hand[s])
    /\ hand' = [hand EXCEPT ![s] = None]
    /\ Goto(s, "head")
    /\ UNCHANGED queue

-----------------------------------------------------------------------------
Start ==
    /\ control.pc = "stopped"
    /\ starts < MaxStarts
    /\ starts' = starts + 1
    /\ running' = TRUE
    /\ control' = [pc |-> "started", shard |-> 1, missed |-> {}]
    /\ worker' = [s \in Shards |-> "head"]
    /\ UNCHANGED <<hand, queue, client, call, store>>

Stop ==
    /\ control.pc = "started"
    /\ running' = FALSE
    /\ control' = [control EXCEPT !.pc = "notify"]
    /\ UNCHANGED <<starts, worker, hand, queue, client, call, store>>

\* The control thread is done with one shard, and goes on with what comes next.
Advance(next, missed) ==
    control' = IF control.shard < NumShards
                 THEN [control EXCEPT !.shard = @ + 1, !.missed = missed]
                 ELSE [pc |-> next, shard |-> 1, missed |-> missed]

StopNotify ==
    /\ control.pc = "notify"
    /\ worker' = Notified(control.shard)
    /\ Advance("join", control.missed \union
                          {s \in {control.shard} : worker[s] = "blocking"})
    /\ UNCHANGED <<running, starts, hand, queue, client, call, store>>

StopJoin ==
    /\ control.pc = "join"
    /\ worker[control.shard] = "exited"
    /\ Advance("stopped", IF control.shard = NumShards THEN {} ELSE control.missed)
    /\ UNCHANGED <<running, starts, worker, hand, queue, client, call, store>>

WorkerStep(s) ==
    WorkerHead(s) \/ WorkerTake(s) \/ WorkerIdle(s) \/ WorkerSleep(s) \/ WorkerProcess(s)

Next ==
    \/ \E c \in Client : Notify(c) \/ Return(c) \/ \E op \in Request : Enqueue(c, op)
    \/ \E s \in Shards : WorkerStep(s)
    \/ Start
    \/ Stop
    \/ StopNotify
    \/ StopJoin

\* Threads that can run are scheduled. Nobody has to call anything.
Fairness ==
    /\ \A s \in Shards : WF_vars(WorkerStep(s))
    /\ \A c \in Client : WF_vars(Notify(c) \/ Return(c))
    /\ WF_vars(StopNotify \/ StopJoin)

Spec == Init /\ [][Next]_vars /\ Fairness

-----------------------------------------------------------------------------
\* The values each variable takes.
TypeOK ==
    /\ running \in BOOLEAN
    /\ control \in [pc : {"stopped", "started", "notify", "join"}, shard : Shards,
                    missed : SUBSET Shards]
    /\ starts \in 0 .. MaxStarts
    /\ worker \in [Shards -> {"head", "enter", "blocking", "asleep", "process", "exited"}]
    /\ hand \in [Shards -> Client \union {None}]
    /\ queue \in [Shards -> Seq(Client)]
    /\ client \in [Client -> [pc : {"idle", "notify", "wait"}, shard : Shards]]
    /\ store \in [Key -> Value \union {None}]

\* The request of c is in the hand of worker s (place 0) or in place i of its queue.
Holds(s, i, c) ==
    IF i = 0 THEN hand[s] = c ELSE i \in 1 .. Len(queue[s]) /\ queue[s][i] = c

Unanswered(c) == call[c].state = "called" /\ client[c].pc \in {"notify", "wait"}

\* A request is never lost or duplicated, whatever stop and start do meanwhile: a
\* call that is not answered is in one place, in the queue or the hand of its
\* shard, and an answered one in none.
RequestsConserved ==
    \A c \in Client :
        LET places == UNION {{<<s, i>> : i \in {n \in 0 .. Len(queue[s]) : Holds(s, n, c)}} :
                               s \in Shards}
        IN  IF Unanswered(c)
              THEN /\ Cardinality(places) = 1
                   /\ \A p \in places : p[1] = client[c].shard
              ELSE places = {}

\* A worker sleeps on a queue with requests only while a caller is still to
\* notify it: a push after the test of the predicate is not missed.
NoMissedRequest ==
    \A s \in Shards : worker[s] = "asleep" /\ queue[s] # << >> =>
        \E c \in Client : client[c].pc = "notify" /\ client[c].shard = s

\* Every call takes effect once, between its call and its return (AtomicKV).
Linearizable == KV!Spec

\* While the engine is not stopped, every call returns.
CallsReturn ==
    \A c \in Client : client[c].pc # "idle" ~> (client[c].pc = "idle" \/ ~running)

\* stop returns, even with requests in the queues, unless a worker was between the
\* test of its predicate and its sleep when it was notified: running_ is not
\* guarded by the mutex, so such a worker sleeps on and is joined for ever.
StopReturns ==
    control.pc \in {"notify", "join"} ~> (control.pc = "stopped" \/ control.missed # {})

=============================================================================
