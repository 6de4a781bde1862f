------------------------------ MODULE Sharding ------------------------------
(***************************************************************************)
(* The sharded server of one node: the ring, the MultiRaftManager with a   *)
(* trackLeader goroutine per StartShard (node/sharding/multi_raft.go), the *)
(* ShardRouter with its trackLeaders goroutine (router.go), and the        *)
(* connections that call Route (cmd/sharded_server/main.go).               *)
(*                                                                         *)
(* A ShardRaft is <<s, g>>, the g-th that StartShard made for s. The only  *)
(* leader ever written into one is its own NodeID, so known and            *)
(* shardLeaders are the sets of those where it is written. The consensus   *)
(* node behind a ShardRaft is in Raft; here it leads or it does not.       *)
(*                                                                         *)
(* mrm.mu is a sync.RWMutex. A writer announces itself and then waits for  *)
(* the readers to leave; RLock waits while a writer is announced. The      *)
(* critical sections that wait for nothing are single steps; the one that  *)
(* does is GetAllShardStatuses, which calls GetShardStatus, and so RLock,  *)
(* with the lock held. sr.mu guards assignments only.                      *)
(***************************************************************************)
EXTENDS HashRing

CONSTANTS
    Client,         \* connections; each calls Route once (bound)
    NumShards,      \* shards 0 .. NumShards - 1 are started
    MaxRetries,
    Served,         \* hash functions under which the server is started (bound)
    Unsteady,       \* shards that are restarted and change their leader (bound)
    MaxStarts,      \* bound on the StartShards of a shard
    MaxChanges      \* bound on the changes of leadership

Shard == 0 .. NumShards - 1

ASSUME ShardingConstants ==
    /\ NumShards \in Nat \ {0} /\ Shard \subseteq ShardID
    /\ MaxRetries \in Nat \ {0}
    /\ Served \subseteq Placements
    /\ Unsteady \subseteq Shard
    /\ MaxStarts \in Nat \ {0}
    /\ MaxChanges \in Nat

ShardRaft == Shard \X (1 .. MaxStarts)
None == <<0, 0>>     \* no ShardRaft

VARIABLES
    serving,
    started,        \* started[s]: how many ShardRafts s has had
    current,        \* the ShardRafts in mrm.shards
    leads,          \* those whose Node is Leader
    led,            \* history: those whose Node has been Leader
    changes,
    known,          \* those whose Leader is set
    shardLeaders,   \* shards whose entry in the router is set
    tracker,        \* tracker[i]: the goroutine started with i: [pc, ref, isLeader]
    admin,          \* a StartShard or StopShard in progress: [pc, shard]
    writer,         \* has a writer of mrm.mu announced itself?
    walk,           \* trackLeaders: [pc, left, seen]
    route,          \* route[c]: [pc, shard, attempt, ref]
    log             \* log[i]: the operations proposed to i, by their clients

raftVars == <<leads, led, changes>>
mgrVars  == <<started, current, known, tracker, admin, writer>>
vars == <<ringVars, serving, raftVars, mgrVars, shardLeaders, walk, route, log>>

Current(s) == {i \in current : i[1] = s}

\* The reader side of mrm.mu: free to enter, and held.
CanRead == ~writer
Reading == walk.pc = "walk"

Announce == ~writer /\ writer' = TRUE

-----------------------------------------------------------------------------
Init ==
    /\ RingInit
    /\ serving = FALSE
    /\ started = [s \in Shard |-> 0]
    /\ current = {} /\ leads = {} /\ led = {} /\ known = {}
    /\ changes = 0
    /\ shardLeaders = {}
    /\ tracker = [i \in ShardRaft |-> [pc |-> "none", ref |-> None, isLeader |-> FALSE]]
    /\ admin = [pc |-> "idle", shard |-> 0]
    /\ writer = FALSE
    /\ walk = [pc |-> "none", left |-> {}, seen |-> {}]
    /\ route = [c \in Client |-> [pc |-> "idle", shard |-> 0, attempt |-> 0, ref |-> None]]
    /\ log = [i \in ShardRaft |-> << >>]

\* ShardedKVServer.Start: a StartShard for each shard, the ring, the router. The
\* ring of a server never changes afterwards.
Start ==
    /\ ~serving
    /\ hash \in Served
    /\ serving' = TRUE
    /\ shards' = Shard
    /\ ring' = NewHashRing(Shard)
    /\ started' = [s \in Shard |-> 1]
    /\ current' = Shard \X {1}
    /\ tracker' = [i \in ShardRaft |->
                      IF i[2] = 1 THEN [tracker[i] EXCEPT !.pc = "tick"] ELSE tracker[i]]
    /\ walk' = [walk EXCEPT !.pc = "tick"]
    /\ UNCHANGED <<hash, raftVars, known, admin, writer, shardLeaders, route, log>>

\* The ring alone, as a library: nothing in the server changes it.
ChangeRing(s) ==
    /\ ~serving
    /\ AddShard(s) \/ RemoveShard(s)
    /\ UNCHANGED <<serving, raftVars, mgrVars, shardLeaders, walk, route, log>>

\* A Node wins or loses an election. StopShard does not close its RPC server, so
\* that a stopped one may do both.
ChangeLeader(i) ==
    /\ changes < MaxChanges
    /\ i[1] \in Unsteady /\ i[2] <= started[i[1]]
    /\ changes' = changes + 1
    /\ leads' = IF i \in leads THEN leads \ {i} ELSE leads \union {i}
    /\ led' = led \union {i}
    /\ UNCHANGED <<ringVars, serving, mgrVars, shardLeaders, walk, route, log>>

-----------------------------------------------------------------------------
SetTracker(i, t) ==
    /\ tracker' = [tracker EXCEPT ![i] = t]
    /\ UNCHANGED <<ringVars, serving, raftVars, started, current, admin,
                   shardLeaders, walk, route, log>>

\* A tick of trackLeader: the ShardRaft is looked up by its shard, so that after
\* a quick restart the old goroutine goes on with the new ShardRaft.
TrackLookup(i) ==
    /\ tracker[i].pc = "tick"
    /\ CanRead
    /\ IF Current(i[1]) = {}
         THEN SetTracker(i, [tracker[i] EXCEPT !.pc = "none"])
         ELSE \E j \in Current(i[1]) :
                 SetTracker(i, [tracker[i] EXCEPT !.pc = "read", !.ref = j])
    /\ UNCHANGED <<known, writer>>

\* The test of Shutdown, and Node.GetState.
TrackRead(i) ==
    /\ tracker[i].pc = "read"
    /\ IF tracker[i].ref \notin current
         THEN SetTracker(i, [pc |-> "none", ref |-> None, isLeader |-> FALSE])
         ELSE SetTracker(i, [tracker[i] EXCEPT !.pc = "lock",
                                               !.isLeader = tracker[i].ref \in leads])
    /\ UNCHANGED <<known, writer>>

TrackLock(i) ==
    /\ tracker[i].pc = "lock"
    /\ Announce
    /\ SetTracker(i, [tracker[i] EXCEPT !.pc = "write"])
    /\ UNCHANGED known

\* Mutant: the Leader is set whether the node leads or not.
TrackWrite_Always(i) ==
    /\ tracker[i].pc = "write"
    /\ ~Reading
    /\ known' = known \union {tracker[i].ref}
    /\ writer' = FALSE
    /\ SetTracker(i, [pc |-> "tick", ref |-> None, isLeader |-> FALSE])

\* Mutant: the lock is not released.
TrackWrite_NoUnlock(i) ==
    /\ tracker[i].pc = "write"
    /\ ~Reading
    /\ known' = IF tracker[i].isLeader THEN known \union {tracker[i].ref} ELSE known
    /\ SetTracker(i, [pc |-> "tick", ref |-> None, isLeader |-> FALSE])
    /\ UNCHANGED writer

\* Nothing resets Leader when the node no longer leads.
TrackWrite(i) ==
    /\ tracker[i].pc = "write"
    /\ ~Reading
    /\ known' = IF tracker[i].isLeader THEN known \union {tracker[i].ref} ELSE known
    /\ writer' = FALSE
    /\ SetTracker(i, [pc |-> "tick", ref |-> None, isLeader |-> FALSE])

-----------------------------------------------------------------------------
SetAdmin(a) ==
    /\ admin' = a
    /\ UNCHANGED <<ringVars, serving, raftVars, known, shardLeaders, walk, route, log>>

\* StopShard and StartShard, up to the lock. What they do with a shard that is not
\* there, or already there, is nothing.
AdminLock(s) ==
    /\ serving
    /\ admin.pc = "idle"
    /\ \/ Current(s) # {}
       \/ started[s] < MaxStarts
    /\ Announce
    /\ SetAdmin([pc |-> IF Current(s) # {} THEN "stop" ELSE "start", shard |-> s])
    /\ UNCHANGED <<started, current, tracker>>

StopShard ==
    /\ admin.pc = "stop"
    /\ ~Reading
    /\ current' = current \ Current(admin.shard)
    /\ writer' = FALSE
    /\ SetAdmin([admin EXCEPT !.pc = "idle"])
    /\ UNCHANGED <<started, tracker>>

StartShard ==
    LET i == <<admin.shard, started[admin.shard] + 1>>
    IN  /\ admin.pc = "start"
        /\ ~Reading
        /\ started' = [started EXCEPT ![admin.shard] = @ + 1]
        /\ current' = current \union {i}
        /\ tracker' = [tracker EXCEPT ![i].pc = "tick"]
        /\ writer' = FALSE
        /\ SetAdmin([admin EXCEPT !.pc = "idle"])

-----------------------------------------------------------------------------
SetWalk(w) ==
    /\ walk' = w
    /\ UNCHANGED <<ringVars, serving, raftVars, mgrVars, route, log>>

\* trackLeaders, a tick: GetAllShardStatuses takes its RLock. The STATUS command walks
\* in the same way; one walk stands for both.
WalkBegin ==
    /\ walk.pc = "tick"
    /\ CanRead
    /\ SetWalk([pc |-> "walk", left |-> {i[1] : i \in current}, seen |-> {}])
    /\ UNCHANGED shardLeaders

\* GetShardStatus, which takes a second one.
WalkStatus(s) ==
    /\ walk.pc = "walk"
    /\ s \in walk.left
    /\ CanRead
    /\ SetWalk([walk EXCEPT !.left = @ \ {s},
                            !.seen = IF Current(s) \subseteq known THEN @ \union {s} ELSE @])
    /\ UNCHANGED shardLeaders

WalkEnd ==
    /\ walk.pc = "walk"
    /\ walk.left = {}
    /\ SetWalk([walk EXCEPT !.pc = "publish"])
    /\ UNCHANGED shardLeaders

WalkPublish ==
    /\ walk.pc = "publish"
    /\ shardLeaders' = shardLeaders \union walk.seen
    /\ SetWalk([pc |-> "tick", left |-> {}, seen |-> {}])

-----------------------------------------------------------------------------
SetRoute(c, r) ==
    /\ route' = [route EXCEPT ![c] = r]
    /\ UNCHANGED <<ringVars, serving, raftVars, mgrVars, walk>>

\* Mutant: the loop makes one attempt too many.
Retried_Once(r) ==
    [r EXCEPT !.pc = IF r.attempt < MaxRetries THEN "lookup" ELSE "failed",
              !.attempt = @ + 1, !.ref = None]

\* The next attempt, or the end of the loop.
Retried(r) ==
    [r EXCEPT !.pc = IF r.attempt + 1 < MaxRetries THEN "lookup" ELSE "failed",
              !.attempt = @ + 1, !.ref = None]

\* handleSET and handleDEL call Route, which asks the ring once.
Route(c, k) ==
    /\ serving
    /\ route[c].pc = "idle"
    /\ SetRoute(c, [route[c] EXCEPT !.pc = "lookup", !.shard = GetShard(ring, k)])
    /\ UNCHANGED <<shardLeaders, log>>

\* ProposeToShard finds the ShardRaft. "shard not found" is neither of the errors
\* Route knows, and is retried.
RouteLookup(c) ==
    /\ route[c].pc = "lookup"
    /\ CanRead
    /\ IF Current(route[c].shard) = {}
         THEN SetRoute(c, Retried(route[c]))
         ELSE \E i \in Current(route[c].shard) :
                 SetRoute(c, [route[c] EXCEPT !.pc = "propose", !.ref = i])
    /\ UNCHANGED <<shardLeaders, log>>

\* Mutant: the node appends the operation before it looks whether it leads.
RoutePropose_First(c) ==
    /\ route[c].pc = "propose"
    /\ log' = [log EXCEPT ![route[c].ref] = Append(@, c)]
    /\ SetRoute(c, [route[c] EXCEPT
                       !.pc = IF route[c].ref \in leads THEN "done" ELSE "refresh"])
    /\ UNCHANGED shardLeaders

\* Node.Propose, without mrm.mu: StopShard may have come before. A node that leads
\* appends the operation, and Route reports success; the others do nothing.
RoutePropose(c) ==
    /\ route[c].pc = "propose"
    /\ IF route[c].ref \in leads
         THEN /\ log' = [log EXCEPT ![route[c].ref] = Append(@, c)]
              /\ SetRoute(c, [route[c] EXCEPT !.pc = "done"])
         ELSE /\ SetRoute(c, [route[c] EXCEPT !.pc = "refresh"])
              /\ UNCHANGED log
    /\ UNCHANGED shardLeaders

\* updateLeader, after "not leader".
RouteRefresh(c) ==
    LET s == route[c].shard
    IN  /\ route[c].pc = "refresh"
        /\ CanRead
        /\ shardLeaders' = IF \E i \in Current(s) : i \in known
                             THEN shardLeaders \union {s} ELSE shardLeaders
        /\ SetRoute(c, Retried(route[c]))
        /\ UNCHANGED log

-----------------------------------------------------------------------------
WalkStep == (\E s \in Shard : WalkStatus(s)) \/ WalkEnd \/ WalkPublish

Next ==
    \/ Start
    \/ \E s \in ShardID : ChangeRing(s)
    \/ \E i \in ShardRaft : \/ ChangeLeader(i)
                            \/ TrackLookup(i) \/ TrackRead(i) \/ TrackLock(i) \/ TrackWrite(i)
    \/ \E s \in Unsteady : AdminLock(s)
    \/ StopShard
    \/ StartShard
    \/ WalkBegin
    \/ WalkStep
    \/ \E c \in Client : \/ \E k \in Key : Route(c, k)
                         \/ RouteLookup(c) \/ RoutePropose(c) \/ RouteRefresh(c)

\* Whoever holds mrm.mu, or has announced itself, goes on when it can, and so do
\* the clients. An RWMutex lets the waiting readers in when a writer leaves: they
\* do not wait for ever for a lock that is free again and again. Tickers may be
\* arbitrarily slow.
Fairness ==
    /\ \A i \in ShardRaft : WF_vars(TrackWrite(i))
    /\ WF_vars(StopShard \/ StartShard)
    /\ WF_vars(WalkStep)
    /\ \A c \in Client : /\ WF_vars(RoutePropose(c))
                         /\ SF_vars(RouteLookup(c))
                         /\ SF_vars(RouteRefresh(c))

Spec == Init /\ [][Next]_vars /\ Fairness

-----------------------------------------------------------------------------
\* The values each variable takes.
TypeOK ==
    /\ shards \subseteq ShardID /\ ring \in Seq(VirtualNode) /\ hash \in HashFunction
    /\ serving \in BOOLEAN /\ writer \in BOOLEAN /\ changes \in 0 .. MaxChanges
    /\ started \in [Shard -> 0 .. MaxStarts]
    /\ current \subseteq ShardRaft /\ known \subseteq ShardRaft
    /\ leads \subseteq ShardRaft /\ led \subseteq ShardRaft
    /\ shardLeaders \subseteq Shard
    /\ tracker \in [ShardRaft -> [pc : {"none", "tick", "read", "lock", "write"},
                                  ref : ShardRaft \union {None}, isLeader : BOOLEAN]]
    /\ admin \in [pc : {"idle", "stop", "start"}, shard : Shard]
    /\ walk \in [pc : {"none", "tick", "walk", "publish"},
                 left : SUBSET Shard, seen : SUBSET Shard]
    /\ route \in [Client -> [pc : {"idle", "lookup", "propose", "refresh", "done", "failed"},
                             shard : Shard, attempt : 0 .. MaxRetries,
                             ref : ShardRaft \union {None}]]
    /\ log \in [ShardRaft -> Seq(Client)]

\* The retries of Route propose an operation at most once, whatever stops, starts
\* and elections come between: one that it reports as done is in one log, of a
\* ShardRaft of the key's shard, and one it reports as failed is in none.
ProposedOnce ==
    \A c \in Client :
        /\ route[c].pc = "done"
              <=> \E i \in ShardRaft : \E n \in DOMAIN log[i] : log[i][n] = c
        /\ \A i \in ShardRaft : \A n \in DOMAIN log[i] : log[i][n] = c =>
              /\ i[1] = route[c].shard
              /\ \A j \in ShardRaft : \A m \in DOMAIN log[j] :
                    log[j][m] = c => i = j /\ n = m

\* Whoever the manager and the router call a leader has been one, although the
\* state was read before mrm.mu was taken and the ShardRaft may be a newer one
\* than its goroutine's.
LeadersHaveLed ==
    /\ known \subseteq led
    /\ shardLeaders \subseteq {i[1] : i \in led}

\* GetAllShardStatuses waits for a writer that waits for it.
Frozen == Reading /\ walk.left # {} /\ writer

\* Every call of Route returns, unless the walk over the statuses has frozen the
\* manager: that is the only deadlock.
RouteReturns ==
    \A c \in Client :
        route[c].pc \in {"lookup", "propose", "refresh"} ~>
            (route[c].pc \in {"done", "failed"} \/ Frozen)

=============================================================================
