-------------------------------- MODULE Raft --------------------------------
(***************************************************************************)
(* The consensus node of node/raft/node.go.                                *)
(*                                                                         *)
(* One action per critical section of the node's mutex: the election timer *)
(* (startElection), the two halves of a vote goroutine, HandleRequestVote, *)
(* Propose, the two halves of sendAppendEntries and HandleAppendEntries.   *)
(* Between the halves of a goroutine the RPC is in flight: it may be lost  *)
(* (never delivered), delayed past any number of other steps, or overtaken *)
(* by later RPCs.                                                          *)
(*                                                                         *)
(* Timers are not modelled as clocks: run() selects on them, and a timer   *)
(* that fired before Stop/Reset still leaves its tick in the channel, so   *)
(* an election may start at any moment and in any state.                   *)
(***************************************************************************)
EXTENDS Integers, Sequences, FiniteSets

CONSTANTS
    Node,         \* the members of the cluster
    Peers,        \* Peers[n]: config.Peers of node n
    Command,      \* client commands
    Nil,          \* votedFor = ""
    LateReads,    \* may a vote goroutine start after its node's next election?
    Timers,       \* nodes whose election timer may fire (bound)
    ApplyCap,     \* capacity of applyCh (0: nothing ever fits)
    MaxTerm,      \* bound on terms
    MaxLog        \* bound on log length

ASSUME RaftConstants ==
    /\ IsFiniteSet(Node)
    /\ Nil \notin Node
    /\ Peers \in [Node -> SUBSET Node]
    /\ LateReads \in BOOLEAN
    /\ Timers \subseteq Node
    /\ ApplyCap \in Nat
    /\ MaxTerm \in Nat
    /\ MaxLog \in Nat

VARIABLES
    state,          \* Follower, Candidate or Leader
    currentTerm,
    votedFor,
    log,            \* sequences of [term, command]; Index is the position
    commitIndex,
    lastApplied,
    nextIndex,      \* nextIndex[n][p], meaningful while n leads
    matchIndex,
    applyCh,        \* messages sent to the state machine and not yet taken
    applied,        \* history: the messages the state machine has taken
    votesReceived,  \* votesReceived[n][e]: peers counted by election e's closure
    voteCalls,      \* vote goroutines that have not yet built their request
    voteReqs,       \* RequestVote requests in flight
    voteResps,      \* their answers
    appendReqs,     \* AppendEntries requests sent
    appendResps,    \* AppendEntries answers sent
    elected         \* history: the <<term, node>> pairs becomeLeader ran for

termVars   == <<state, currentTerm, votedFor>>
commitVars == <<commitIndex, lastApplied, applyCh, applied>>
leaderVars == <<nextIndex, matchIndex, elected>>
voteVars   == <<votesReceived, voteCalls, voteReqs, voteResps>>
vars == <<termVars, log, commitVars, leaderVars, voteVars,
          appendReqs, appendResps>>

-----------------------------------------------------------------------------
Term == 0 .. MaxTerm

Entry == [term : Term, command : Command]

VoteCall == [from : Node, to : Node, election : Term]

VoteRequest ==
    [from : Node, to : Node, election : Term,
     term : Term, lastLogIndex : Nat, lastLogTerm : Term]

VoteResponse ==
    [from : Node, to : Node, election : Term,
     reqTerm : Term, term : Term, granted : BOOLEAN]

AppendRequest ==
    [from : Node, to : Node, term : Term, prevLogIndex : Nat,
     prevLogTerm : Term, entries : Seq(Entry), leaderCommit : Nat]

\* What sendAppendEntries has at hand when the answer arrives: the answer, and
\* on success the matchIndex it implies (prevLogIndex + len(entries)).
\* ConflictIndex and ConflictTerm are left out: no code reads them.
AppendResponse ==
    [from : Node, to : Node, reqTerm : Term, term : Term,
     success : BOOLEAN, matched : Nat]

ApplyMsg == [index : Nat, command : Command]

-----------------------------------------------------------------------------
min(a, b) == IF a < b THEN a ELSE b

LastLogTerm(xlog) == IF xlog = << >> THEN 0 ELSE xlog[Len(xlog)].term

\* Mutant: the usual strict majority of the cluster.
HasMajority_Half(n, count) == count > (Cardinality(Peers[n]) + 1) \div 2

\* "votes > len(n.peers)/2+1", used for elections and for commitment.
HasMajority(n, count) == count > Cardinality(Peers[n]) \div 2 + 1

\* Mutant: the voter does not compare logs.
IsLogUpToDate_Any(xlog, lastIndex, lastTerm) == TRUE

IsLogUpToDate(xlog, lastIndex, lastTerm) ==
    IF lastTerm # LastLogTerm(xlog) THEN lastTerm > LastLogTerm(xlog)
                                    ELSE lastIndex >= Len(xlog)

\* The append loop of HandleAppendEntries: entries that agree are skipped; from
\* the first one that is missing or has another term on, the log is replaced.
MergeEntries(xlog, prev, entries) ==
    LET Differs(i) == \/ prev + i > Len(xlog)
                      \/ xlog[prev + i].term # entries[i].term
        First(i)   == Differs(i) /\ \A j \in 1 .. i - 1 : ~Differs(j)
    IN  IF \E i \in 1 .. Len(entries) : First(i)
          THEN LET i == CHOOSE k \in 1 .. Len(entries) : First(k)
               IN  SubSeq(xlog, 1, prev + i - 1) \o SubSeq(entries, i, Len(entries))
          ELSE xlog

\* The sends of applyCommitted: a message that finds the channel full is
\* dropped (the select's default branch), and lastApplied has moved past it.
Deliver(ch, xlog, from, to) ==
    LET msgs == [i \in 1 .. to - from |->
                    [index |-> from + i, command |-> xlog[from + i].command]]
        room == ApplyCap - Len(ch)
    IN  ch \o SubSeq(msgs, 1, min(to - from, room))

\* Mutant: lastApplied is not advanced.
ApplyCommitted_NoAdvance(n, xlog, c) ==
    /\ commitIndex' = [commitIndex EXCEPT ![n] = c]
    /\ applyCh' = [applyCh EXCEPT ![n] = Deliver(@, xlog, lastApplied[n], c)]
    /\ UNCHANGED <<lastApplied, applied>>

\* applyCommitted, with commitIndex just set to c and the log being xlog.
ApplyCommitted(n, xlog, c) ==
    /\ commitIndex' = [commitIndex EXCEPT ![n] = c]
    /\ IF lastApplied[n] < c
         THEN /\ applyCh' = [applyCh EXCEPT ![n] =
                                Deliver(@, xlog, lastApplied[n], c)]
              /\ lastApplied' = [lastApplied EXCEPT ![n] = c]
         ELSE UNCHANGED <<lastApplied, applyCh>>
    /\ UNCHANGED applied

BecomeFollower(n, term) ==
    /\ state' = [state EXCEPT ![n] = "Follower"]
    /\ currentTerm' = [currentTerm EXCEPT ![n] = term]
    /\ votedFor' = [votedFor EXCEPT ![n] = Nil]

\* The election timer is left running: a leader's own timer ends its reign.
BecomeLeader(n) ==
    /\ state' = [state EXCEPT ![n] = "Leader"]
    /\ nextIndex' = [nextIndex EXCEPT ![n] =
                        [p \in Node |-> IF p \in Peers[n] THEN Len(log[n]) + 1
                                                          ELSE @[p]]]
    /\ matchIndex' = [matchIndex EXCEPT ![n] =
                        [p \in Node |-> IF p \in Peers[n] THEN 0 ELSE @[p]]]
    /\ elected' = elected \union {<<currentTerm[n], n>>}

-----------------------------------------------------------------------------
Init ==
    /\ state = [n \in Node |-> "Follower"]
    /\ currentTerm = [n \in Node |-> 0]
    /\ votedFor = [n \in Node |-> Nil]
    /\ log = [n \in Node |-> << >>]
    /\ commitIndex = [n \in Node |-> 0]
    /\ lastApplied = [n \in Node |-> 0]
    /\ nextIndex = [n \in Node |-> [p \in Node |-> 0]]
    /\ matchIndex = [n \in Node |-> [p \in Node |-> 0]]
    /\ applyCh = [n \in Node |-> << >>]
    /\ applied = [n \in Node |-> << >>]
    /\ votesReceived = [n \in Node |-> [e \in Term |-> {}]]
    /\ voteCalls = {}
    /\ voteReqs = {}
    /\ voteResps = {}
    /\ appendReqs = {}
    /\ appendResps = {}
    /\ elected = {}

\* run() takes a tick of the election timer; the state is not consulted. The
\* goroutines of the previous election have started by then (they have had a
\* whole election timeout), unless LateReads.
StartElection(n) ==
    /\ n \in Timers
    /\ currentTerm[n] < MaxTerm
    /\ LateReads \/ \A c \in voteCalls : c.from # n
    /\ state' = [state EXCEPT ![n] = "Candidate"]
    /\ currentTerm' = [currentTerm EXCEPT ![n] = @ + 1]
    /\ votedFor' = [votedFor EXCEPT ![n] = n]
    /\ voteCalls' = voteCalls \union
         {[from |-> n, to |-> p, election |-> currentTerm[n] + 1] : p \in Peers[n]}
    /\ UNCHANGED <<log, commitVars, leaderVars, votesReceived, voteReqs,
                   voteResps, appendReqs, appendResps>>

\* A vote goroutine starts: it reads its node's term and log without the mutex,
\* so it sees whatever they are by now.
RequestVote(c) ==
    /\ voteCalls' = voteCalls \ {c}
    /\ voteReqs' = voteReqs \union
         {[from |-> c.from, to |-> c.to, election |-> c.election,
           term |-> currentTerm[c.from],
           lastLogIndex |-> Len(log[c.from]),
           lastLogTerm |-> LastLogTerm(log[c.from])]}
    /\ UNCHANGED <<termVars, log, commitVars, leaderVars, votesReceived,
                   voteResps, appendReqs, appendResps>>

HandleRequestVote(r) ==
    LET n       == r.to
        newer   == r.term > currentTerm[n]
        vote    == IF newer THEN Nil ELSE votedFor[n]
        granted == /\ r.term >= currentTerm[n]
                   /\ vote \in {Nil, r.from}
                   /\ IsLogUpToDate(log[n], r.lastLogIndex, r.lastLogTerm)
        term    == IF newer THEN r.term ELSE currentTerm[n]
    IN  /\ state' = [state EXCEPT ![n] = IF newer THEN "Follower" ELSE @]
        /\ currentTerm' = [currentTerm EXCEPT ![n] = term]
        /\ votedFor' = [votedFor EXCEPT ![n] = IF granted THEN r.from ELSE vote]
        /\ voteReqs' = voteReqs \ {r}
        /\ voteResps' = voteResps \union
             {[from |-> r.from, to |-> n, election |-> r.election,
               reqTerm |-> r.term, term |-> term, granted |-> granted]}
        /\ UNCHANGED <<log, commitVars, leaderVars, votesReceived, voteCalls,
                       appendReqs, appendResps>>

\* The second half of a vote goroutine. Its counter belongs to the election
\* that spawned it, its term check to the term the request carried.
CountVote(r) ==
    LET n == r.from
        votes == votesReceived[n][r.election] \union {r.to}
    IN  /\ voteResps' = voteResps \ {r}
        /\ \/ /\ \/ state[n] # "Candidate"
                 \/ currentTerm[n] # r.reqTerm
                 \/ r.term <= currentTerm[n] /\ ~r.granted
              /\ UNCHANGED <<termVars, leaderVars, votesReceived>>
           \/ /\ state[n] = "Candidate"
              /\ currentTerm[n] = r.reqTerm
              /\ r.term > currentTerm[n]
              /\ BecomeFollower(n, r.term)
              /\ UNCHANGED <<leaderVars, votesReceived>>
           \/ /\ state[n] = "Candidate"
              /\ currentTerm[n] = r.reqTerm
              /\ r.term <= currentTerm[n]
              /\ r.granted
              /\ votesReceived' = [votesReceived EXCEPT ![n][r.election] = votes]
              /\ IF HasMajority(n, 1 + Cardinality(votes))
                   THEN BecomeLeader(n)
                   ELSE UNCHANGED <<state, leaderVars>>
              /\ UNCHANGED <<currentTerm, votedFor>>
        /\ UNCHANGED <<log, commitVars, voteCalls, voteReqs,
                       appendReqs, appendResps>>

Propose(n, c) ==
    /\ state[n] = "Leader"
    /\ Len(log[n]) < MaxLog
    /\ log' = [log EXCEPT ![n] = Append(@, [term |-> currentTerm[n], command |-> c])]
    /\ UNCHANGED <<termVars, commitVars, leaderVars, voteVars,
                   appendReqs, appendResps>>

\* Mutants: prevLogIndex off by one; a request limited to one entry.
AppendEntriesRequest_PrevOff(n, p) ==
    [from |-> n, to |-> p, term |-> currentTerm[n],
     prevLogIndex |-> nextIndex[n][p] - 2, prevLogTerm |-> 0,
     entries |-> << >>, leaderCommit |-> commitIndex[n]]

AppendEntriesRequest_OneEntry(n, p) ==
    LET next == nextIndex[n][p]
    IN  [from |-> n, to |-> p, term |-> currentTerm[n],
         prevLogIndex |-> next - 1,
         prevLogTerm |-> IF next > 1 THEN log[n][next - 1].term ELSE 0,
         entries |-> SubSeq(log[n], next, min(next, Len(log[n]))),
         leaderCommit |-> commitIndex[n]]

AppendEntriesRequest(n, p) ==
    LET prev == nextIndex[n][p] - 1
    IN  [from |-> n, to |-> p, term |-> currentTerm[n],
         prevLogIndex |-> prev,
         prevLogTerm |-> IF prev \in 1 .. Len(log[n])
                           THEN log[n][prev].term ELSE 0,
         entries |-> SubSeq(log[n], prev + 1, Len(log[n])),
         leaderCommit |-> commitIndex[n]]

\* The first half of sendAppendEntries. becomeLeader, every heartbeat tick and
\* every Propose start these goroutines, so one may run at any time while n
\* leads. A request stays deliverable: the next heartbeat repeats it.
SendAppendEntries(n, p) ==
    /\ state[n] = "Leader"
    /\ appendReqs' = appendReqs \union {AppendEntriesRequest(n, p)}
    /\ UNCHANGED <<termVars, log, commitVars, leaderVars, voteVars, appendResps>>

\* Mutant: the answer reports success on every path.
Answer_AlwaysSuccess(r, term, success) ==
    appendResps' = appendResps \union
        {[from |-> r.from, to |-> r.to, reqTerm |-> r.term, term |-> term,
          success |-> TRUE, matched |-> r.prevLogIndex + Len(r.entries)]}

Answer(r, term, success) ==
    appendResps' = appendResps \union
        {[from |-> r.from, to |-> r.to, reqTerm |-> r.term, term |-> term,
          success |-> success,
          matched |-> IF success THEN r.prevLogIndex + Len(r.entries) ELSE 0]}

MatchesPrev(xlog, r) ==
    r.prevLogIndex > 0 =>
        /\ r.prevLogIndex <= Len(xlog)
        /\ xlog[r.prevLogIndex].term = r.prevLogTerm

\* becomeFollower runs for an equal term as well, and clears votedFor. On the
\* "log does not contain prevLogIndex" returns, resp.Term is still the term
\* from before becomeFollower.
HandleAppendEntries(r) ==
    LET n == r.to
        merged == MergeEntries(log[n], r.prevLogIndex, r.entries)
    IN  /\ \/ /\ r.term < currentTerm[n]
              /\ Answer(r, currentTerm[n], FALSE)
              /\ UNCHANGED <<termVars, log, commitVars>>
           \/ /\ r.term >= currentTerm[n]
              /\ ~MatchesPrev(log[n], r)
              /\ BecomeFollower(n, r.term)
              /\ Answer(r, currentTerm[n], FALSE)
              /\ UNCHANGED <<log, commitVars>>
           \/ /\ r.term >= currentTerm[n]
              /\ MatchesPrev(log[n], r)
              /\ BecomeFollower(n, r.term)
              /\ log' = [log EXCEPT ![n] = merged]
              /\ IF r.leaderCommit > commitIndex[n]
                   THEN ApplyCommitted(n, merged,
                                       min(r.leaderCommit, Len(merged)))
                   ELSE UNCHANGED commitVars
              /\ Answer(r, r.term, TRUE)
        /\ UNCHANGED <<leaderVars, voteVars, appendReqs>>

\* Mutant: the leader counts itself twice.
Replicated_SelfTwice(n, match, i) ==
    HasMajority(n, 2 + Cardinality({p \in Peers[n] : match[p] >= i}))

\* Enough nodes are known to hold entry i.
Replicated(n, match, i) ==
    HasMajority(n, 1 + Cardinality({p \in Peers[n] : match[p] >= i}))

\* The highest index of the current term that is replicated: each iteration of
\* the loop of updateCommitIndex that finds one moves commitIndex up to it.
UpdatedCommitIndex(n, match) ==
    LET ready      == {i \in commitIndex[n] + 1 .. Len(log[n]) :
                         /\ log[n][i].term = currentTerm[n]
                         /\ Replicated(n, match, i)}
        Highest(i) == \A j \in ready : j <= i
    IN  IF \E i \in ready : Highest(i) THEN CHOOSE i \in ready : Highest(i)
                                      ELSE commitIndex[n]

\* The second half of sendAppendEntries.
HandleAppendResponse(r) ==
    LET n == r.from
        p == r.to
        match == [matchIndex[n] EXCEPT ![p] = r.matched]
    IN  /\ state[n] = "Leader"
        /\ currentTerm[n] = r.reqTerm
        /\ \/ /\ r.term > currentTerm[n]
              /\ BecomeFollower(n, r.term)
              /\ UNCHANGED <<commitVars, leaderVars>>
           \/ /\ r.term <= currentTerm[n]
              /\ r.success
              /\ matchIndex' = [matchIndex EXCEPT ![n] = match]
              /\ nextIndex' = [nextIndex EXCEPT ![n][p] = match[p] + 1]
              /\ ApplyCommitted(n, log[n], UpdatedCommitIndex(n, match))
              /\ UNCHANGED <<termVars, elected>>
           \/ /\ r.term <= currentTerm[n]
              /\ ~r.success
              /\ nextIndex[n][p] > 1
              /\ nextIndex' = [nextIndex EXCEPT ![n][p] = @ - 1]
              /\ UNCHANGED <<termVars, commitVars, matchIndex, elected>>
        /\ UNCHANGED <<log, voteVars, appendReqs, appendResps>>

\* The application's goroutine receives a message ("for msg := range applyCh").
TakeApplied(n) ==
    /\ applyCh[n] # << >>
    /\ applied' = [applied EXCEPT ![n] = Append(@, Head(applyCh[n]))]
    /\ applyCh' = [applyCh EXCEPT ![n] = Tail(@)]
    /\ UNCHANGED <<termVars, log, commitIndex, lastApplied, leaderVars, voteVars,
                   appendReqs, appendResps>>

Next ==
    \/ \E n \in Node : StartElection(n)
    \/ \E c \in voteCalls : RequestVote(c)
    \/ \E r \in voteReqs : HandleRequestVote(r)
    \/ \E r \in voteResps : CountVote(r)
    \/ \E n \in Node, c \in Command : Propose(n, c)
    \/ \E n \in Node : \E p \in Peers[n] : SendAppendEntries(n, p)
    \/ \E r \in appendReqs : HandleAppendEntries(r)
    \/ \E r \in appendResps : HandleAppendResponse(r)
    \/ \E n \in Node : TakeApplied(n)

Spec == Init /\ [][Next]_vars

-----------------------------------------------------------------------------
\* The values each variable takes.
TypeOK ==
    /\ state \in [Node -> {"Follower", "Candidate", "Leader"}]
    /\ currentTerm \in [Node -> Term]
    /\ votedFor \in [Node -> Node \union {Nil}]
    /\ log \in [Node -> Seq(Entry)]
    /\ commitIndex \in [Node -> Nat]
    /\ lastApplied \in [Node -> Nat]
    /\ nextIndex \in [Node -> [Node -> Nat]]
    /\ matchIndex \in [Node -> [Node -> Nat]]
    /\ applyCh \in [Node -> Seq(ApplyMsg)]
    /\ applied \in [Node -> Seq(ApplyMsg)]
    /\ votesReceived \in [Node -> [Term -> SUBSET Node]]
    /\ voteCalls \subseteq VoteCall
    /\ voteReqs \subseteq VoteRequest
    /\ voteResps \subseteq VoteResponse
    /\ appendReqs \subseteq AppendRequest
    /\ appendResps \subseteq AppendResponse
    /\ elected \subseteq Term \X Node

\* raft/README.md, "Election Safety: At most one leader per term": becomeLeader
\* runs for at most one node in any term, over the whole history, although
\* HandleAppendEntries clears votedFor within a term.
ElectionSafety ==
    \A e1, e2 \in elected : e1[1] = e2[1] => e1[2] = e2[2]

\* "Check if we have majority" (node.go:153), and raft/README.md: a node becomes
\* leader only with votes from a majority of the cluster, cast in the term it
\* will lead. A voter that has since moved to a later term is counted for it.
LeaderHasMajority ==
    [][\A e \in elected' \ elected :
          2 * Cardinality({m \in Node :
                             \/ currentTerm[m] > e[1]
                             \/ currentTerm[m] = e[1] /\ votedFor[m] = e[2]})
            > Cardinality(Node)]_vars

\* HandleAppendEntries never has to delete an entry: no candidate can win
\* against a node whose log is ahead, so the truncation of node.go:460-463 is
\* never reached (and a request whose entries alias the sender's log is never
\* overwritten under it). Holds where an election needs every vote.
LogsNeverTruncated ==
    [][\A n \in Node : \A i \in 1 .. Len(log[n]) :
          i <= Len(log'[n]) /\ log'[n][i] = log[n][i]]_vars

\* Leader completeness and log matching at once: an entry that any node takes
\* for committed is in every node's log, at the same index.
CommittedEverywhere ==
    \A n, m \in Node : \A i \in 1 .. commitIndex[n] :
        i <= Len(log[m]) /\ log[m][i] = log[n][i]

\* What node n's state machine was sent so far, taken or still queued.
Sent(n) == applied[n] \o applyCh[n]

\* raft/README.md, "State Machine Safety": no two state machines are ever sent
\* different commands for the same index, and each is sent its commands in
\* increasing order of index, each at most once (applyCommitted).
StateMachineSafety ==
    \A n, m \in Node : \A i \in DOMAIN Sent(n), j \in DOMAIN Sent(m) :
        /\ Sent(n)[i].index = Sent(m)[j].index => Sent(n)[i] = Sent(m)[j]
        /\ n = m /\ i < j => Sent(n)[i].index < Sent(n)[j].index

\* node.go:305, "Channel full, will retry later": an entry that lastApplied has
\* passed was handed to the state machine, since nothing ever goes back to it.
NothingSkipped == \A n \in Node : Len(Sent(n)) = lastApplied[n]

\* What a leader believes of a follower is true, however late and in whatever
\* order the answers to its AppendEntries arrive: up to matchIndex the
\* follower's log is the leader's.
MatchIndexSound ==
    \A n \in Node : state[n] = "Leader" =>
        \A p \in Peers[n] : \A i \in 1 .. matchIndex[n][p] :
            i <= Len(log[p]) /\ i <= Len(log[n]) /\ log[p][i] = log[n][i]

\* The commit index of a request never passes the entries the request vouches
\* for. It is what makes "min(LeaderCommit, len(log))" in HandleAppendEntries
\* safe: entries of the follower beyond the request are not covered by it.
CommitWithinRequest ==
    \A r \in appendReqs : r.leaderCommit <= r.prevLogIndex + Len(r.entries)

=============================================================================
