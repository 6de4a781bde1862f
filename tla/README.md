# TLA+ models of the distributed key-value store

TLA+ modules for the parts of this repository whose correctness depends on the
order in which things happen: the Raft node, the storage engine, its write-ahead
log and snapshots, the engines that threads share, the RESP server with its event
loop and the sharding layer. TLC checks them on small instances. TLAPS proves, for
every instance, seven theorems about the Raft node, seven about the hash table, four
about its log and snapshots, five about the shared engines, five about the sharding layer
and three about the event loop.
`PROJECT.json` ties every definition to the lines it models and lists the runs, the
hazards and the mutants that show each property can fail.

    cd tla
    tlc -workers 2 -config raft.cfg RaftMC      # any run of the table below
    tlapm RaftProofs.tla                        # the proofs of a *Proofs module

## 1. The system

The repository has two halves that meet in a C API.

| part | source | state | operations |
|---|---|---|---|
| Raft node | `node/raft/node.go` | term, vote, log, commit and apply indices, per-peer indices, timers, apply channel | election, vote, append, propose, commit, apply |
| Raft RPC | `node/raft/rpc.go` | none (HTTP) | two calls, each may fail or be late |
| Raft storage | `node/raft/storage.go` | log and state stores | unused by the node |
| hash ring | `node/sharding/hash_ring.go` | shards, sorted virtual nodes | add, remove, look up |
| shard manager, router | `node/sharding/multi_raft.go`, `router.go` | map of shards, believed leaders, one RWMutex each | start, stop, propose, status, tracking, route with retries |
| servers | `node/cmd/*`, `node/server` | connections | commands in, Raft or the engine behind |
| hash table | `engine/src/hash_table.cpp` | chained buckets, policy, scanner thread | insert, get, remove, rehash, evict, expire |
| eviction policies | `engine/src/lru_policy.cpp`, `lfu_policy.cpp` | recency list; counters and lazy heap | access, insert, delete, candidate |
| log, snapshots | `engine/src/wal.cpp`, `snapshot.cpp` | batch in memory, two files | append, flush, replay, write, load, truncate |
| sharded engine | `engine/src/sharded_engine.cpp` | a queue, mutex, condition variable and worker per shard | get, set, remove, start, stop |
| locking engines | `engine/include/mutex_engine.h`, `sharded_engine_sync.h` | a table and its mutexes | get, set, remove, count |
| RESP parser | `engine/src/resp.cpp` | buffer, state, array being read | feed, parse, reset, encode, to command |
| epoll server | `engine/src/epoll_server.cpp` | connections with a parser and a write buffer, epoll instance | start, stop, wait, accept, read, write, close |

What is hard here, and what the models are aimed at: RPC answers that arrive after
the state they were computed from has changed; goroutines that read without the
mutex; a vote that can be cast twice; a bounded channel that drops; a policy and a
table that must agree through every update, eviction and rehash; a heap cleaned
lazily; files that a crash leaves half-written; a condition variable and a flag
that is not under its mutex; a read lock taken twice; retries; a stream that is cut
anywhere; readiness that is reported once.

## 2. Modules

| module | models | remarks |
|---|---|---|
| `Raft` | `node.go`, `types.go`, `rpc.go` | one action per critical section of the node's mutex |
| `RaftProofs` | types and elections of `Raft` | TLAPS |
| `RaftReplicationProofs` | logs, commitment and state machines of `Raft` | TLAPS; extends `RaftProofs` |
| `EvictionPolicy` | both policies | operators on a policy record |
| `TableOps` | `hash_table.cpp` | operators on a table record and the records it logs |
| `HashTable` | the C API, the clock, the scanner | state machine over `TableOps` |
| `KVCache` | what the table promises | abstract: a map, what its calls answer, and when it may forget a key |
| `Recovery` | reading the log, the calls of `load_snapshot` and `replay_wal` | operators on files and tables |
| `Persistence` | `wal.cpp`, `snapshot.cpp`, the process and its files | state machine over `Recovery` |
| `TableProofs` | what the operations of `TableOps` do to a table, and what the files of `Recovery` hold | TLAPS; lemmas for the next two |
| `HashTableProofs` | theorems about `HashTable` | TLAPS |
| `PersistenceProofs` | theorems about `Persistence` | TLAPS |
| `ShardedEngine` | `sharded_engine.cpp` | callers, workers, control thread |
| `LockingEngines` | `sharded_engine_sync.h`, `mutex_engine.h` | extends `ShardedEngine`: which engine it is, is drawn at the start |
| `AtomicKV` | what the three engines promise | abstract: calls take effect at one moment |
| `LockingEnginesProofs` | theorems about the three engines | TLAPS |
| `Resp` | `resp.cpp` | values, their encoding, and the parser as a function on a record |
| `EpollServer` | `epoll_server.cpp`, over sockets and epoll | extends `Resp` |
| `EpollServerProofs` | theorems about `EpollServer` | TLAPS |
| `HashRing` | `hash_ring.go` | the ring as a library |
| `Sharding` | `multi_raft.go`, `router.go`, the start of `sharded_server` | extends `HashRing` |
| `ShardingProofs` | theorems about the ring and the layer above it | TLAPS |
| `*MC` | constants, views and symmetries for TLC | |

### Raft

The state of a node is its fields. RPCs in flight are four sets: vote requests and
answers are removed when handled; append requests stay, because the next heartbeat
sends the same one again. A message that is never handled is lost. `voteCalls` are
the goroutines of `startElection` that have not run yet: they read the term and the
log without the mutex when they do. `LateReads` says whether one may be delayed past
its node's next election timeout. The runs that pass say no, which is an assumption
about the scheduler (150 ms or more); `raft_late` shows what happens otherwise.

Timers are not clocks: an election may start at any moment, in any state. That
includes the leader, whose election timer the code leaves running. `TakeApplied`
is the server's loop over the apply channel; nothing is taken between two sends of
one `applyCommitted`, so a full channel drops the rest of that batch.

`becomeFollower` runs in `HandleAppendEntries` for an equal term too and clears
`votedFor`. `HasMajority` is `count > len(peers)/2+1`, where `peers` does not contain
the node: all votes in a cluster of two or three, four of five. One consequence
needs no run: a cluster of three with one node down elects nobody and commits
nothing.

### Table, policies, cache

`insert` appends to the log, evicts until the memory is within the limit, resizes,
and only then stores; `TableOps!Inserted` is that sequence, with one outcome for each
way the heap may break ties. `HashTable` adds the clock, lazy expiry (`engine_get`
reads the clock a second time) and the scanner, which collects expired keys and
then removes them one by one, while the owner goes on. The heap of LFU is a set:
copies of an entry are valid or stale together. `older` is a history variable: which key
was last used before which, kept without looking at the list of LRU, so that
`EvictsColdest` does not judge the list by itself. `call` holds what the last step was asked
and answered.

`KVCache` is what callers may rely on. A `Get` answers with what the map holds and changes
nothing; if its key expires during the call (`GetLate`) that key goes. A `Delete` removes its
key and answers whether there was one. A `Set` stores the value and the expiry it was given,
and may forget other keys only as far as the memory limit asks for. Besides, a `Scan` may doom
keys that have expired, and a doomed key may be forgotten later (`Forget`). That rule is as weak
as the code: between the two halves of a scan the owner may set the key again, and the scanner
then deletes the new value (`hash_table.cpp:294`; with `Forget` limited to keys that are still
expired, TLC finds this trace). So the refinement bounds the loss and does not exclude it: the
only keys lost unasked are those a scan has found expired. The refinement maps `store` to
`Contents(table)` and `doomed` to the keys in the scanner's list.

### Persistence

Contents of the two files, the batch in memory, and a process that serves,
checkpoints (flush, snapshot, truncate: the order of `bench_persistence.cpp` and
`test_snapshot.cpp`), stops, crashes and recovers. A crash leaves any prefix of the
batch in the log, possibly with a torn record at its end (one of the buffer, or the one whose
append filled the batch), and any prefix of a snapshot that was being written. The snapshot's checksum
is represented by "whole or not"; log records have none, nor a marker where one
starts. A torn record at the end of the log is dropped by `read_next`. After a restart
new records are appended behind it, and the next replay takes the bytes the torn one
lacks from them: `Recovery!Readings` lets the tear and what follows read as any one record or
as none. `Sound` says that the log has no such place. A restart is a sequence of calls
on a new table: an `insert` for each entry of the snapshot (`LoadCall`), then an `insert`
or a `remove` for each record (`ReplayCall`), and `Built` makes them in this order, with
the evictions that they cause.
`pending` remembers the contents after each operation since the last flush; `cut`
says that a crash hit a snapshot that was replacing another. `LogComplete` and
`RecoversPrefix` are about sound logs and uncut snapshots, and apply again from the
next checkpoint on.

The second snapshot is written over the first when the log that led to the first has
been truncated, so a crash in between loses what both held, although the main
README says "Zero data loss guaranteed" (line 316). `SnapshotLoss` states how far the
loss goes: a key is restored with its last value, or it is missing and the log, which
starts at the last checkpoint, does not mention it.

### Sharded engine

A caller pushes under the mutex, notifies after it and waits. The worker holds the
mutex from the test of its predicate until it sleeps, and `running_` is outside of
it: `Stop` and `StopNotify` may fall in between. Such a worker is not woken and `stop`
joins it for ever, unless a later call notifies its shard. `missed` remembers these
workers, and `StopReturns` says that nothing else keeps `stop` from returning.
`Linearizable` instantiates `AtomicKV` with the same `call` and `store`.

### Locking engines

An operation of the table is two steps, a load of the whole table and a store of it,
so that it is the mutex and not the model that makes it atomic. `StripeOf` is the shard
of a key in `ShardedEngineSync` and the only table in `MutexEngine`. `remove` answers
whether the key was there (`ERASE` in `AtomicKV`); the engine with queues always answers
true (`REMOVE`). A thread of its own runs `total_entries` or `size`; `always` and `ever`
remember the keys that were there all the time and at some time of its call. What
`set` answers, and eviction, are left to `HashTable`.

### RESP parser and epoll server

A stream is a sequence of tokens: type bytes, CR, LF, bytes of text, and numbers. The
parser is a record with the fields of `RESPParser`. `ParseLoop` follows the loop of `parse`
with its recursion for array elements and every `reset`, which clears the buffer and
the array being read. Two consequences: bytes of the next request that came with
this one are dropped, and an array that is not empty is never complete, because the
`reset` of its first element sets the length to 0 (`resp_commands`).

One step of the server is one system call with the code up to the next. The kernel
and the clients are external: a socket has the bytes sent and taken, the room for
replies, and how the client ended it; `ready` is the ready list of the epoll instance.
A descriptor enters it with an edge, or when `epoll_ctl` finds it ready, and leaves it
with `epoll_wait`. A writable edge needs a send or a poll that found no room. A client
sends its script in chunks of any size and may shut down or reset the connection at
any moment. A polite client waits for a reply before the next request. All values
cost one reply, from the handler or `ERR invalid command`, of a fixed size that does
not fit into the socket at once.

When a client has shut down its sending half, `recv` returns 0 and the server closes
the connection, with the replies it has not sent: `RequestsAnswered` is about clients
that have not.

### Sharding

`HashRing` draws an arbitrary hash function at the start. `Sharding` models the
manager's `sync.RWMutex` as Go implements it: a writer announces itself, and from
then on `RLock` waits. `GetAllShardStatuses` is the only section that waits with the
lock held, because it takes the read lock a second time for each shard; `Frozen` is
the state in which it and a writer wait for each other. The server built from this
layer refers to a field `CommandValid` that `raft.ApplyMsg` does not have, so it is
the library that is modelled, with the order of calls of that server.

## 3. Runs

| run | instance | result |
|---|---|---|
| `raft` | 3 nodes, 2 terms, 1 entry | pass: one leader per term, committed entries are on every node, logs are never truncated |
| `raft_logs` | 2 nodes, 3 terms, 2 entries, 2 commands, channel of 1 | pass: state machines agree, `matchIndex` is true, `leaderCommit` is covered by the request |
| `raft_five_nodes` | 5 nodes of which 2 stand, 1 term | **two leaders in a term** |
| `raft_late` | 5 nodes of which 1 stands, 2 terms, late goroutines | **leader without a majority** |
| `raft_apply` | 2 nodes, 3 terms, 2 entries, channel of 1 | **an entry is skipped for good** |
| `hash_table` | 3 keys, values of 1 and 2 bytes, limit 2, both policies | pass: table and policy agree, coldest is evicted, answers and losses are those of `KVCache` |
| `persistence` | 2 keys, 3 records, 2 crashes, torn records | pass: a restart restores a moment since the last flush; what a cut snapshot loses is bounded |
| `persistence_evict` | limit of 1 byte, no crash | **a restart loses a key that was there** |
| `sharded_engine` | 2 callers, 2 shards, 2 starts; and the locking engines with a counting thread | pass: atomic, no request lost, counts in range, calls return while running, `stop` returns unless a worker missed it |
| `resp_server` | 2 connections, 1 or 2 descriptors, `recv` of 3 tokens, replies of 2 bytes in a socket of 1 | pass: no lost edge, exact decoding and answers for clients that wait, the loop returns |
| `resp_commands` | 1 connection, one command | **no command reaches the handler** |
| `sharding` | 540 placements of 6 virtual nodes and a key; 2 served shards, 1 restart, 2 changes of leader | pass: routing is consistent, proposals are made once, `Route` returns unless frozen |

The runs in bold are disagreements between the code and its documentation; the
`findings` in `PROJECT.json` quote both.

**Bounds.** Two terms are enough for an election to overtake another, three for an
old leader's messages to meet a newer one's. Three keys of which two share a bucket,
with a table of two buckets, reach a rehash, a chain of two and an eviction that
has a choice; a limit of two bytes and values of one and two make an insert evict one
or two keys; two stale entries in the heap of LFU let two keys have been used. Three records with batches of two, then three, leave full, partial and
empty batches at a crash; two crashes let the second hit what the first left. Two
callers on one shard or on two reach every order of push, notify and sleep, and with two
keys a lost update of one table. Streams of up to 12 tokens in chunks of any size, read
3 at a time, cut a request at every place, in particular between CR and LF; a socket
that holds half a reply makes every reply a partial send; two connections for one
descriptor reach the shortage. The workloads (`Mixed`) are few because each multiplies
the positions of a stream with all that the loop may be doing. Six
virtual nodes and a key on a circle of six reach every order around it, including a
key on a node and a key behind the last. Bounds are guards on named constants
(`MaxTerm`, `MaxNumber`, `MaxNesting`, `BUFFER_SIZE`, `SendRoom`, `MaxLog`, `MaxCrashes`, `MaxStarts`, `MaxChanges`, `MaxTime`, `MaxCount`, `MaxStale`,
`Timers`, `Served`, `Unsteady`).

**Reductions in the Raft runs.** `SYMMETRY` permutes nodes and commands, which the
model treats alike. The `VIEW` drops messages that no reachable step can
distinguish from absent ones: requests below the receiver's term whose sender no
longer awaits the answer, answers to a term or role the sender has left (both
goroutines return on these before they look at anything else), closed tallies, and the
indices of nodes that do not lead. The
action constraint `EagerSend` lets a leader send each new append request before
anything else happens. As requests stay deliverable and are handled at any later
time, or never, sending early adds behaviours and removes none that the properties
see.

**Reductions in the `hash_table` run.** Two constraints of `HashTableMC` keep TLC from
following a state further. `FewStale` bounds the stale entries of LFU's heap (`MaxStale`).
`ScannerStarted` follows a stopped scanner only with an empty table: no operation reads its
state and a running one may do nothing, so that a stopped one adds nothing. The view `Lasting`
leaves out `call`: no step reads it, and the properties that name it look at the step just taken.
The theorems about
`HashTable` (section 4) need neither.

**Deadlock** is checked in `hash_table`, `persistence` and `resp_server`. It is switched off where
the bounds or the code let everything stop: the Raft runs end when terms and logs are
used up, the sharded engine when it has been stopped for the last time, and the
sharding layer when it is frozen.

**Fairness.** Three specifications assume any. `ShardedEngine`: threads that can
run are scheduled (weak fairness of workers, callers and the control thread); nobody
has to call anything, and nothing is assumed of a `std::mutex`, which is not fair: there is
no liveness property of the locking engines. `EpollServer`: the thread of `run` goes on
(weak fairness of the loop) and clients read their replies in the end; nobody has to
send, and `stop` may never come. `Sharding`: holders and announced writers of the lock go on
when they can, and the readers that `Route` needs are not passed over for ever
(strong fairness), which `sync.RWMutex` provides by admitting waiting readers when a
writer leaves; tickers may be arbitrarily slow. Raft has no liveness property here:
nothing bounds the timers from below, and a leader's own timer ends its reign.

## 4. Proofs

`RaftProofs`, for every set of nodes, channel capacity and bounds:

- **`TypeCorrect`**: `Spec => []TypeOK`. The type invariant is not inductive: that
  `nextIndex - 1` is a natural number needs `LeaderIndexes` (a leader's `nextIndex` is at
  least 1). That `applyCommitted` reads within the log needs `AppliedAhead`
  (`commitIndex <= lastApplied`): an old `commitIndex` is not known to be within the log,
  but all up to it has been sent, so only an index just computed from the log is
  read up to. Lemmas say what the append loop, the slices and
  the channel return.
- **`AtMostOneLeader`**: `Spec => []ElectionSafety` if the peers are all other nodes, there
  are at most three nodes, and no vote goroutine is late. The usual argument, that a
  node votes once per term, is false here. The invariant `ElectionInv` replaces it: a
  node that granted a vote in a term is `Past` it, that is, in a later term, or in this
  one as a follower, and stays so (`PastStable`), since only `startElection`
  makes a candidate and it moves on to a new term. An election of at most three needs every
  vote (`Unanimous`), so once one has succeeded every other node is past its term and
  cannot win it. The remaining conjuncts say that requests, answers and tallies belong
  to the election they are counted for.

The assumptions are needed: `raft_five_nodes` and `raft_late` are the counterexamples
without them.

`LockingEnginesProofs`, for every set of callers, keys and values and every number of
shards, given that the keys are finitely many and every key has a shard:

- **`EnginesAreLinearizable`**: `EnginesSpec => Linearizable`, the refinement of `AtomicKV` by all
  three engines. The step that matters is `Commit`: it stores a whole table computed
  from an earlier load. `LockInv` says that whoever holds a mutex has a view equal to
  the table; it is preserved because a commit touches the keys of its own table only
  (`CommitIsDo`, `LockSteps`).
- **`NoRequestIsMissed`**: `EnginesSpec => []NoMissedRequest`. Inductive with the fact that a worker
  that is about to sleep still has an empty queue, since it holds the mutex
  (`QueueInv`).
- **`NoRequestIsLost`**: `EnginesSpec => []RequestsConserved`. `PlacesInv` says that a request in a
  queue or a hand is an unanswered one of that shard and in no other place, and that every
  unanswered one has a place. Taking a request overwrites the worker's hand, so it needs
  `WorkersInv`: the hand is empty unless the worker processes, and `start` finds every
  worker gone because `stop` joined them one by one.
- **`CountsAreInRange`**: `EnginesSpec => []CountInRange`. `CountInv` bounds the partial sum by the
  keys that were always and ever in the tables already `Seen`; a table adds its own
  keys once because tables are disjoint.
- **`EnginesTypeCorrect`**: `EnginesSpec => []EnginesTypeOK`, from the same invariants.

`RaftReplicationProofs`, under the assumptions of
`AtMostOneLeader` (at most three nodes, no late vote goroutine) and for every number of
terms, entries and commands and every capacity of the channel:

- **`CommittedEntriesSafe`** (`CommittedEverywhere`), **`MatchIndexCorrect`**
  (`MatchIndexSound`), **`CommitIsChecked`** (`CommitWithinRequest`) and **`LogsOnlyGrow`**
  (`LogsNeverTruncated`). None of these is inductive, and Raft's own argument, where
  quorums overlap, is not the one that applies. `LogInv` extends `ElectionInv` by three
  groups. `LogsInv`: no term is won before every node has reached it
  (`ElectedBehind`), any two logs agree where both have an entry (`LogsAgree`), and a
  leader's is the longest (`LeaderLongest`). `VotesInv`: requests, answers and tallies tell
  how long the logs of candidate and voter are, for as long as the vote can count; since
  all votes are needed, a winner's log is the longest (`WinnerLongest`). `ReplicationInv`: a request is a
  slice of a log that has not shrunk since, whatever its age, and its `leaderCommit`
  is within the slice; a positive answer says what the follower still has. A request
  is accepted only in the follower's own term, whose leader has all that the follower has,
  so the append loop never meets a conflict (`LogsGrow`) and logs still agree.
- **`StateMachinesAgree`**: `Spec => []StateMachineSafety`. `SentInv` says that what a node
  has sent are commands of its log at or below `lastApplied`, in increasing order of
  index. The batch that a full channel cuts off leaves gaps, never repetitions. That
  two nodes send the same command for an index is `LogsAgree`.

`TableProofs` and `HashTableProofs`, for both policies, every finite set of keys, every value
set with its sizes, memory limit and hash function, and any number of buckets, uses, ticks
and scans:

- **`ChainsAreConsistent`** (`ChainsConsistent`), **`PolicyIsInStep`** (`PolicyTracksTable`),
  **`HeapCovers`** (`HeapCoversKeys`), **`MemoryIsBounded`** (`MemoryBound`) and **`TypeCorrect`**,
  from `IInv`. Its main part is `TInv`, an invariant of a table as a value: every entry is in the
  chain its hash selects and every key in one place, so that the chains are a map (`View`);
  `Books` says that the policy's list or counters and its memory are those of this map, and
  `Covered` that every key has a valid heap entry. In the middle of an update the key has none
  (`NearlyInv`). `TableProofs` shows that storing, dropping, rehashing, accessing and
  evicting keep `TInv` and what each does to the map. The eviction loop is handled by
  induction on its turns: as long as the memory is above the limit there is a candidate
  (`CandidateExists`), and a turn removes one key (`Turns`), so the loop ends with room or
  with nothing left.
- **`EvictsTheColdest`**: `Spec => EvictsColdest`. `Evicting` says that the policy would rather have
  evicted what is gone than what is left, and `Ordered` that the order of LRU's list is the
  history `older`; for LFU the counters are those of the entries (`Books`).
- **`ImplementsKVCache`**: `Spec => CacheSpec`, the refinement, step by step: `SetShown`,
  `GetShown`, `DeleteShown`, `ScanShown` and `ForgetShown`. The map a caller sees is `View`
  without the counters, so a lookup reads in its chain what `KVCache` reads in the map
  (`LookupIs`), and a hit, which moves list and counters, shows the same map (`AccessShown`).
  That no more is evicted than needed is the last conjunct of `Evicting`: when the last key was
  evicted the memory was above the limit. That the scanner dooms expired keys only is `SampleIs`.

`PersistenceProofs`, for both policies, every finite set of keys, any values and sizes, batch
sizes, log length and number of crashes:

- **`TypeCorrect`**: `Spec => []TypeOK`, evictions included, from `BaseInv`. It needs `TInv` of the
  table at every moment, also of the one that a restart builds from whatever the files hold
  (`RebuiltIs`).
- **`LogCompletes`** (`LogComplete`), **`PrefixRecovered`** (`RecoversPrefix`) and
  **`SnapshotLossBounded`** (`SnapshotLoss`), under `Roomy`: every choice of values fits into the
  memory limit. `Restores` says what a snapshot and a log hold of each key without replaying
  them: the effect of the last record about it, or else its entry in the snapshot. `CallsLeave` (in
  `TableProofs`) and `BuiltIs` show that the replay, one call after the other, gives just that.
  `DataInv` has one conjunct per phase. While the process serves: whichever buffered
  records reach the file, what is restored are the contents after the last of them. During a
  checkpoint: the log is right about every key it mentions, which is all that remains if an old
  snapshot is cut, and the log has everything if it is the first. After a crash: some moment
  since the last flush is restored, or after a cut each key is or is missing from the snapshot. `Covering`
  says that until the first snapshot is whole the log has all that is in it.

`Roomy` is needed: an insert logs its `SET` before the `DELETE`s of what it evicts, so the log
deletes a key that was evicted while it was updated and that the table holds;
`persistence_evict` is the counterexample.

These two rest on recursive functions (capacities, the evicting loop, the calls of a restart,
the records a batch takes). The library's theorems on recursion take operators, which the
provers cannot instantiate; `Recursion`, `FiniteRecursion` and `Induction` in `TableProofs` say
the same of sets and functions, and are proved from the well-foundedness of the natural numbers.

`ShardingProofs`, for every set of shards and keys, number of virtual nodes, circle and
hash function without collisions of virtual nodes, and for every number of operations, retries
and restarts:

- **`RingFindsSuccessor`** (`GetShardIsSuccessor`) and **`RingMovesLittle`**
  (`MinimalMovement`). `RingInv` says that the ring lists the virtual nodes of the shards,
  each once, by their hashes. The lemmas say that sorting by rank lists the elements
  in order (`Ranks`), that appending and sorting, and filtering, give such a list again, and that the
  search finds the first one clockwise. Movement follows because both rings then
  are functions of their sets of shards.
- **`ServerTypes`**, **`RouteProposesOnce`** (`ProposedOnce`) and **`RecordedLeadersHaveLed`**
  (`LeadersHaveLed`), from `ServerInv`. `RoutesInv` has that an attempt refers to a `ShardRaft`
  of the key's shard, be it stopped by now, and is one of `MaxRetries`; `ProposedOnce` is
  inductive with it. `TrackersInv` has that what a goroutine read before it took the
  lock was true then, and `led` only grows. `LeadersInv` has that the walk's shards are
  still there as long as it holds the lock.

`EpollServerProofs`, for every set of clients, workload, buffer
size, reply size and socket size, and any number of descriptors:

- **`BooksAgree`**: `Spec => []TypeOK`. `Books` adds that a client has one descriptor, that the
  backlog holds each waiting client once, and that the events at hand belong to different
  descriptors in use: a descriptor is closed only when its own event is handled, so no event of a batch reaches a connection that has taken over its number.
- **`InputIsNoticed`** (`NoLostInput`) and **`OutputIsFlushed`** (`NoStuckOutput`), from
  `Inv`, which has both for each descriptor (`Watched`, `Flushed`). Every step either leaves a
  descriptor alone or is about the event at hand, and the proof is by the step:
  `epoll_wait` moves a descriptor from the ready list to the batch, `Dispatch` from the batch
  to the handler, the handler gives it up only when `recv` found nothing or `send` emptied
  the buffer or found no room, and whatever a client does then raises an edge. What the
  parser makes of the bytes is left open: the theorems hold for any number of replies to
  what `recv` took.

**Model-checked only**, and why:

- liveness (`CallsReturn`, `StopReturns`, `RequestsAnswered`, `LoopReturns`, `RouteReturns`), which is out of
  the prover's reach;
- `DecodesRequests`: it is about what the recursive functions `ParseLoop`, `ParseAll` and
  `SerializeNested` compute, which takes an induction over the stream;
- what a restart restores where the memory limit makes inserts evict: the theorems about the
  contents assume `Roomy`, and `persistence_evict` is why. The types are proved without it.

## 5. Not modelled

- **Data races** are not given a meaning: the scanner against the table, Go
  connections that share one engine, the `engines` map of the sharded server,
  `ShardedEngine::total_entries`, and `EpollServer::stop` while a handler runs.
- **Raft storage.** `storage.go` is not called by the node. A restarted node is a new one
  that may vote again in a term; no code prevents it, so there is nothing to check.
- **Distributed server, Go RESP server, engine binding.** A write is acknowledged after a
  fixed sleep, whatever became of it; the rest is parsing and calls through cgo.
- **Time.** Timers may fire at any moment, so nothing is said of how often Raft elects, or
  of `epoll_wait`'s timeout. Expiry is modelled in `HashTable` and not in `Persistence`.
- **Power loss.** A crash is the death of the process: what was written to a file stays. The log
  is synced (`wal.cpp:64`), the snapshot is not (`snapshot.cpp:86`) before `truncate_wal` empties
  the log, so that after a power failure both could be gone.
- **The status command.** `handleSTATUS` of the sharded server walks the shards as `trackLeaders`
  does and can be caught in the same deadlock; one walk stands for both.
- **`engine_create`** always makes an LRU table with the default limit. `HashTable` draws the policy,
  which tests, benchmarks and the sharded engines choose.
- **Benchmarks** measure time; only the order of their checkpoint calls is used.
- `MutexEngine::get` returns a pointer into the table. The model answers with the value; no
  caller in the repository follows the pointer after the lock is gone.
- `MAX_EVENTS` (1024) never cuts a batch, and `write_buffer` has no limit, as in the code.
- Raft entries alias the leader's array until they are encoded. `LogsNeverTruncated` shows
  that nothing overwrites them in clusters of up to three; larger ones are open.
- A table with an empty key, which eviction takes for "no candidate", is left out, and so
  are two virtual nodes with one hash: their order is not determined.
- Reads (statistics, status replies) are left out unless another step uses them.
