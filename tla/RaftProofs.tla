----------------------------- MODULE RaftProofs -----------------------------
(***************************************************************************)
(* Theorems about the consensus node of node/raft/node.go: types, index    *)
(* bounds, and election safety of clusters of at most three nodes.         *)
(*                                                                         *)
(* The rest is about replication in clusters of at most three nodes, where *)
(* an election needs every vote: no term is won before every node has      *)
(* reached it, so a leader is never behind anyone, its log is the longest, *)
(* and every log is a prefix of it. Here are the inductive invariant and   *)
(* what steps do to logs and terms; RaftReplicationProofs shows that it is *)
(* kept.                                                                   *)
(***************************************************************************)
EXTENDS Raft, FiniteSetTheorems, SequenceTheorems, TLAPS

-----------------------------------------------------------------------------
(* Types.                                                                  *)

\* nextIndex of a leader is at least 1, so prevLogIndex does not wrap around.
LeaderIndexes ==
    \A n \in Node : state[n] = "Leader" => \A p \in Peers[n] : nextIndex[n][p] >= 1

\* commitIndex may fall back (HandleAppendEntries takes the minimum with the
\* length of the log), lastApplied never does.
AppliedAhead == \A n \in Node : commitIndex[n] <= lastApplied[n]

TypeInv == TypeOK /\ LeaderIndexes /\ AppliedAhead

\* A slice of a log is a log.
LEMMA SubSeqType ==
    ASSUME NEW S, NEW s \in Seq(S), NEW a \in Nat, a >= 1,
           NEW b \in Int, b <= Len(s)
    PROVE  SubSeq(s, a, b) \in Seq(S)
BY LenProperties, SubSeqProperties

\* The append loop of HandleAppendEntries leaves a log, whatever it replaces.
LEMMA MergeType ==
    ASSUME NEW S, NEW xlog \in Seq(S), NEW entries \in Seq(S),
           NEW prev \in Nat, prev <= Len(xlog)
    PROVE  MergeEntries(xlog, prev, entries) \in Seq(S)
<1> DEFINE Differs(i) == \/ prev + i > Len(xlog)
                         \/ xlog[prev + i].term # entries[i].term
           First(i)   == Differs(i) /\ \A j \in 1 .. i - 1 : ~Differs(j)
           k          == CHOOSE i \in 1 .. Len(entries) : First(i)
<1>1. Len(xlog) \in Nat /\ Len(entries) \in Nat
  BY LenProperties
<1>2. CASE \E i \in 1 .. Len(entries) : First(i)
  <2> HIDE DEF Differs
  <2>1. k \in 1 .. Len(entries) /\ First(k)
    BY <1>2
  <2>2. k - 1 >= 1 => ~Differs(k - 1)
    BY <2>1, <1>1
  <2>3. prev + k - 1 <= Len(xlog)
    BY <2>1, <2>2, <1>1 DEF Differs
  <2> HIDE DEF k
  <2>4. SubSeq(xlog, 1, prev + k - 1) \in Seq(S)
    BY <2>1, <2>3, <1>1, SubSeqType
  <2>5. SubSeq(entries, k, Len(entries)) \in Seq(S)
    BY <2>1, <1>1, SubSeqType, SMTT(30)
  <2>6. MergeEntries(xlog, prev, entries)
          = SubSeq(xlog, 1, prev + k - 1) \o SubSeq(entries, k, Len(entries))
    BY <1>2, Zenon DEF MergeEntries, k, First, Differs
  <2> QED
    BY <2>4, <2>5, <2>6, ConcatProperties
<1>3. CASE ~\E i \in 1 .. Len(entries) : First(i)
  BY <1>3 DEF MergeEntries
<1> QED
  BY <1>2, <1>3, Zenon

\* What applyCommitted queues are messages, as long as the entries exist.
LEMMA DeliverType ==
    ASSUME NEW ch \in Seq(ApplyMsg), NEW xlog \in Seq(Entry),
           NEW from \in Nat, NEW to \in Nat, from < to, to <= Len(xlog)
    PROVE  Deliver(ch, xlog, from, to) \in Seq(ApplyMsg)
<1> DEFINE msgs == [i \in 1 .. to - from |->
                      [index |-> from + i, command |-> xlog[from + i].command]]
           room == ApplyCap - Len(ch)
<1>1. Len(ch) \in Nat /\ Len(xlog) \in Nat /\ ApplyCap \in Nat
  BY LenProperties, RaftConstants
<1>2. \A i \in 1 .. to - from : msgs[i] \in ApplyMsg
  <2> SUFFICES ASSUME NEW i \in 1 .. to - from PROVE msgs[i] \in ApplyMsg
    OBVIOUS
  <2>1. xlog[from + i] \in Entry
    BY <1>1, ElementOfSeq
  <2> QED
    BY <2>1 DEF Entry, ApplyMsg
<1> HIDE DEF msgs
<1>3. min(to - from, room) \in Int /\ min(to - from, room) <= to - from
  BY <1>1 DEF min
<1>4. SubSeq(msgs, 1, min(to - from, room)) \in Seq(ApplyMsg)
  BY <1>2, <1>3, SubSeqProperties
<1>5. Deliver(ch, xlog, from, to) = ch \o SubSeq(msgs, 1, min(to - from, room))
  BY DEF Deliver, msgs
<1> QED
  BY <1>4, <1>5, ConcatProperties

\* applyCommitted keeps its variables' types and lastApplied ahead.
LEMMA ApplyCommittedType ==
    ASSUME TypeInv, NEW n \in Node, NEW xlog \in Seq(Entry),
           NEW c \in Nat, c <= Len(xlog) \/ c <= lastApplied[n],
           ApplyCommitted(n, xlog, c)
    PROVE  /\ commitIndex' \in [Node -> Nat]
           /\ lastApplied' \in [Node -> Nat]
           /\ applyCh' \in [Node -> Seq(ApplyMsg)]
           /\ applied' = applied
           /\ AppliedAhead'
<1> USE DEF TypeInv, TypeOK, AppliedAhead, ApplyCommitted
<1>1. commitIndex' = [commitIndex EXCEPT ![n] = c] /\ applied' = applied
  OBVIOUS
<1>2. CASE lastApplied[n] < c
  <2>1. Deliver(applyCh[n], xlog, lastApplied[n], c) \in Seq(ApplyMsg)
    BY <1>2, LenProperties, DeliverType
  <2>2. /\ applyCh' = [applyCh EXCEPT ![n] = Deliver(applyCh[n], xlog, lastApplied[n], c)]
        /\ lastApplied' = [lastApplied EXCEPT ![n] = c]
    BY <1>2, Zenon
  <2> QED
    BY <1>1, <2>1, <2>2
<1>3. CASE ~(lastApplied[n] < c)
  BY <1>1, <1>3
<1> QED
  BY <1>2, <1>3

\* updateCommitIndex moves commitIndex to an index of the log or not at all.
LEMMA UpdatedCommitIndexType ==
    ASSUME TypeInv, NEW n \in Node, NEW match
    PROVE  LET c == UpdatedCommitIndex(n, match)
           IN  c \in Nat /\ (c <= Len(log[n]) \/ c = commitIndex[n])
<1> DEFINE ready      == {i \in commitIndex[n] + 1 .. Len(log[n]) :
                            /\ log[n][i].term = currentTerm[n]
                            /\ Replicated(n, match, i)}
           Highest(i) == \A j \in ready : j <= i
           top        == CHOOSE i \in ready : Highest(i)
<1>1. commitIndex[n] \in Nat /\ Len(log[n]) \in Nat
  BY LenProperties DEF TypeInv, TypeOK
<1>2. \A i \in ready : i \in Nat /\ i <= Len(log[n])
  BY <1>1
<1>3. UpdatedCommitIndex(n, match)
        = IF \E i \in ready : Highest(i) THEN top ELSE commitIndex[n]
  BY DEF UpdatedCommitIndex
<1> HIDE DEF ready
<1>4. (\E i \in ready : Highest(i)) => top \in ready
  OBVIOUS
<1> HIDE DEF Highest, top
<1> QED
  BY <1>1, <1>2, <1>3, <1>4

\* getLastLogIndex and getLastLogTerm.
LEMMA LastLogType ==
    ASSUME NEW xlog \in Seq(Entry)
    PROVE  Len(xlog) \in Nat /\ LastLogTerm(xlog) \in Term
<1>1. Len(xlog) \in Nat /\ (xlog # << >> => Len(xlog) \in 1 .. Len(xlog))
  BY EmptySeq, LenProperties
<1>2. CASE xlog = << >>
  BY <1>1, <1>2, RaftConstants DEF LastLogTerm, Term
<1>3. CASE xlog # << >>
  <2>1. xlog[Len(xlog)] \in Entry
    BY <1>1, <1>3, ElementOfSeq
  <2> QED
    BY <1>1, <1>3, <2>1 DEF LastLogTerm, Entry
<1> QED
  BY <1>2, <1>3

\* Every step of the node keeps the types and the index bounds.
LEMMA TypeInvStep ==
    ASSUME TypeInv, [Next]_vars
    PROVE  TypeInv'
<1> USE DEF termVars, commitVars, leaderVars, voteVars
<1>a. /\ state \in [Node -> {"Follower", "Candidate", "Leader"}]
      /\ currentTerm \in [Node -> Term]
      /\ votedFor \in [Node -> Node \union {Nil}]
  BY DEF TypeInv, TypeOK
<1>b. log \in [Node -> Seq(Entry)]
  BY DEF TypeInv, TypeOK
<1>c. nextIndex \in [Node -> [Node -> Nat]] /\ matchIndex \in [Node -> [Node -> Nat]]
  BY DEF TypeInv, TypeOK
<1>d. LeaderIndexes
  BY DEF TypeInv
<1>1. ASSUME NEW n \in Node, StartElection(n)
      PROVE  TypeInv'
  <2>1. currentTerm[n] + 1 \in Term
    BY <1>1, <1>a, RaftConstants DEF StartElection, Term
  <2>2. voteCalls' \subseteq VoteCall
    <3>1. \A p \in Peers[n] :
            [from |-> n, to |-> p, election |-> currentTerm[n] + 1] \in VoteCall
      BY <2>1, RaftConstants DEF VoteCall
    <3>2. voteCalls \subseteq VoteCall
      BY DEF TypeInv, TypeOK
    <3> QED
      BY <1>1, <3>1, <3>2 DEF StartElection
  <2> QED
    BY <1>1, <2>1, <2>2, SMTT(30)
       DEF StartElection, TypeInv, TypeOK, LeaderIndexes, AppliedAhead
<1>2. ASSUME NEW c \in voteCalls, RequestVote(c)
      PROVE  TypeInv'
  <2>1. c.from \in Node /\ c.to \in Node /\ c.election \in Term
    BY SMTT(30) DEF VoteCall, TypeInv, TypeOK
  <2>2. /\ LastLogTerm(log[c.from]) \in Term
        /\ Len(log[c.from]) \in Nat
        /\ currentTerm[c.from] \in Term
    BY <2>1, <1>a, <1>b, LastLogType
  <2>3. voteReqs' \subseteq VoteRequest
    <3>1. [from |-> c.from, to |-> c.to, election |-> c.election,
           term |-> currentTerm[c.from],
           lastLogIndex |-> Len(log[c.from]),
           lastLogTerm |-> LastLogTerm(log[c.from])] \in VoteRequest
      BY <2>1, <2>2 DEF VoteRequest
    <3>2. voteReqs \subseteq VoteRequest
      BY DEF TypeInv, TypeOK
    <3> QED
      BY <1>2, <3>1, <3>2 DEF RequestVote
  <2> QED
    BY <1>2, <2>3, Zenon DEF RequestVote, TypeInv, TypeOK, LeaderIndexes, AppliedAhead
<1>3. ASSUME NEW r \in voteReqs, HandleRequestVote(r)
      PROVE  TypeInv'
  <2>1. /\ r.from \in Node /\ r.to \in Node
        /\ r.election \in Term /\ r.term \in Term
    BY SMTT(30) DEF VoteRequest, TypeInv, TypeOK
  <2>2. voteResps' \subseteq VoteResponse
    <3>1. PICK t \in Term, g \in BOOLEAN :
            voteResps' = voteResps \union
              {[from |-> r.from, to |-> r.to, election |-> r.election,
                reqTerm |-> r.term, term |-> t, granted |-> g]}
      BY <1>3, <2>1, <1>a, Zenon DEF HandleRequestVote
    <3>2. [from |-> r.from, to |-> r.to, election |-> r.election,
           reqTerm |-> r.term, term |-> t, granted |-> g] \in VoteResponse
      BY <2>1 DEF VoteResponse
    <3>3. voteResps \subseteq VoteResponse
      BY DEF TypeInv, TypeOK
    <3> QED
      BY <3>1, <3>2, <3>3
  <2>3. /\ state' \in [Node -> {"Follower", "Candidate", "Leader"}]
        /\ currentTerm' \in [Node -> Term]
        /\ votedFor' \in [Node -> Node \union {Nil}]
        /\ \A n \in Node : state'[n] = "Leader" => state[n] = "Leader"
    BY <1>3, <2>1, <1>a DEF HandleRequestVote
  <2> QED
    BY <1>3, <2>2, <2>3, SMTT(30)
       DEF HandleRequestVote, TypeInv, TypeOK, LeaderIndexes, AppliedAhead
<1>4. ASSUME NEW r \in voteResps, CountVote(r)
      PROVE  TypeInv'
  <2>1. r.from \in Node /\ r.to \in Node /\ r.election \in Term /\ r.term \in Term
    BY SMTT(30) DEF VoteResponse, TypeInv, TypeOK
  <2>2. CASE UNCHANGED <<termVars, leaderVars, votesReceived>>
    BY <1>4, <2>2 DEF CountVote, TypeInv, TypeOK, LeaderIndexes, AppliedAhead
  <2>3. CASE BecomeFollower(r.from, r.term) /\ UNCHANGED <<leaderVars, votesReceived>>
    <3>1. /\ state' \in [Node -> {"Follower", "Candidate", "Leader"}]
          /\ currentTerm' \in [Node -> Term]
          /\ votedFor' \in [Node -> Node \union {Nil}]
          /\ \A n \in Node : state'[n] = "Leader" => state[n] = "Leader"
      BY <2>1, <2>3, <1>a DEF BecomeFollower
    <3> QED
      BY <1>4, <2>3, <3>1 DEF CountVote, TypeInv, TypeOK, LeaderIndexes, AppliedAhead
  <2>4. CASE /\ votesReceived' = [votesReceived EXCEPT ![r.from][r.election] =
                                     votesReceived[r.from][r.election] \union {r.to}]
             /\ UNCHANGED <<currentTerm, votedFor>>
             /\ BecomeLeader(r.from) \/ UNCHANGED <<state, leaderVars>>
    <3>1. votesReceived' \in [Node -> [Term -> SUBSET Node]]
      <4>1. votesReceived \in [Node -> [Term -> SUBSET Node]]
        BY DEF TypeInv, TypeOK
      <4> QED
        BY <2>1, <2>4, <4>1
    <3>2. CASE BecomeLeader(r.from)
      <4>1. Len(log[r.from]) \in Nat
        BY <2>1, <1>b, LastLogType
      <4> DEFINE next  == [p \in Node |-> IF p \in Peers[r.from]
                             THEN Len(log[r.from]) + 1 ELSE nextIndex[r.from][p]]
                 match == [p \in Node |-> IF p \in Peers[r.from]
                             THEN 0 ELSE matchIndex[r.from][p]]
      <4>2. next \in [Node -> Nat] /\ match \in [Node -> Nat]
        <5>1. nextIndex[r.from] \in [Node -> Nat] /\ matchIndex[r.from] \in [Node -> Nat]
          BY <2>1, <1>c
        <5> QED
          BY <4>1, <5>1
      <4>3. \A p \in Peers[r.from] : next[p] >= 1
        BY <2>1, <4>1, RaftConstants
      <4>4. /\ nextIndex' = [nextIndex EXCEPT ![r.from] = next]
            /\ matchIndex' = [matchIndex EXCEPT ![r.from] = match]
            /\ state' = [state EXCEPT ![r.from] = "Leader"]
            /\ elected' = elected \union {<<currentTerm[r.from], r.from>>}
        BY <2>1, <3>2, <1>c DEF BecomeLeader
      <4> HIDE DEF next, match
      <4>5. /\ nextIndex' \in [Node -> [Node -> Nat]]
            /\ matchIndex' \in [Node -> [Node -> Nat]]
            /\ state' \in [Node -> {"Follower", "Candidate", "Leader"}]
        BY <2>1, <4>2, <4>4, <1>a, <1>c
      <4>6. LeaderIndexes'
        BY <2>1, <4>3, <4>4, <1>a, <1>c, <1>d, SMTT(30) DEF LeaderIndexes
      <4>7. elected' \subseteq Term \X Node
        <5>1. elected \subseteq Term \X Node
          BY DEF TypeInv, TypeOK
        <5>2. <<currentTerm[r.from], r.from>> \in Term \X Node
          BY <2>1, <1>a, SMTT(30)
        <5> QED
          BY <4>4, <5>1, <5>2
      <4> QED
        BY <1>4, <2>4, <3>1, <4>5, <4>6, <4>7, Zenon
           DEF CountVote, TypeInv, TypeOK, AppliedAhead
    <3>3. CASE UNCHANGED <<state, leaderVars>>
      BY <1>4, <2>4, <3>1, <3>3, Zenon
         DEF CountVote, TypeInv, TypeOK, LeaderIndexes, AppliedAhead
    <3> QED
      BY <2>4, <3>2, <3>3
  <2> QED
    BY <1>4, <2>2, <2>3, <2>4 DEF CountVote
<1>5. ASSUME NEW n \in Node, NEW c \in Command, Propose(n, c)
      PROVE  TypeInv'
  <2>1. [term |-> currentTerm[n], command |-> c] \in Entry
    BY <1>a DEF Entry
  <2>2. Append(log[n], [term |-> currentTerm[n], command |-> c]) \in Seq(Entry)
    BY <2>1, <1>b, AppendProperties
  <2>3. log' \in [Node -> Seq(Entry)]
    BY <1>5, <2>2, <1>b, SMTT(30) DEF Propose
  <2> QED
    BY <1>5, <2>3, Zenon DEF Propose, TypeInv, TypeOK, LeaderIndexes, AppliedAhead
<1>6. ASSUME NEW n \in Node, NEW p \in Peers[n], SendAppendEntries(n, p)
      PROVE  TypeInv'
  <2> DEFINE prev == nextIndex[n][p] - 1
  <2>1. p \in Node /\ state[n] = "Leader"
    BY <1>6, RaftConstants DEF SendAppendEntries
  <2>2. /\ prev \in Nat
        /\ Len(log[n]) \in Nat
        /\ log[n] \in Seq(Entry)
        /\ commitIndex[n] \in Nat
        /\ currentTerm[n] \in Term
    <3>1. nextIndex[n][p] \in Nat /\ nextIndex[n][p] >= 1
      BY <2>1, <1>c, <1>d DEF LeaderIndexes
    <3>2. commitIndex[n] \in Nat
      BY DEF TypeInv, TypeOK
    <3> QED
      BY <3>1, <3>2, <1>a, <1>b, LastLogType
  <2> HIDE DEF prev
  <2>3. SubSeq(log[n], prev + 1, Len(log[n])) \in Seq(Entry)
    BY <2>2, SubSeqType
  <2>4. (IF prev \in 1 .. Len(log[n]) THEN log[n][prev].term ELSE 0) \in Term
    <3>1. 0 \in Term
      BY RaftConstants DEF Term
    <3>2. prev \in 1 .. Len(log[n]) => log[n][prev] \in Entry
      BY <2>2, ElementOfSeq, SMTT(30)
    <3> QED
      BY <3>1, <3>2 DEF Entry
  <2>5. AppendEntriesRequest(n, p) \in AppendRequest
    BY <2>1, <2>2, <2>3, <2>4 DEF AppendEntriesRequest, AppendRequest, prev
  <2>6. appendReqs' \subseteq AppendRequest
    BY <1>6, <2>5, SMTT(30) DEF SendAppendEntries, TypeInv, TypeOK
  <2> QED
    BY <1>6, <2>6, Zenon DEF SendAppendEntries, TypeInv, TypeOK, LeaderIndexes, AppliedAhead
<1>7. ASSUME NEW r \in appendReqs, HandleAppendEntries(r)
      PROVE  TypeInv'
  <2> DEFINE merged == MergeEntries(log[r.to], r.prevLogIndex, r.entries)
  <2>1. /\ r.from \in Node /\ r.to \in Node /\ r.term \in Term
        /\ r.prevLogIndex \in Nat /\ r.entries \in Seq(Entry)
        /\ r.leaderCommit \in Nat
    BY Zenon DEF AppendRequest, TypeInv, TypeOK
  <2>2. /\ Len(r.entries) \in Nat
        /\ Len(log[r.to]) \in Nat
        /\ log[r.to] \in Seq(Entry)
        /\ currentTerm[r.to] \in Term
    BY <2>1, <1>a, <1>b, LastLogType
  <2>3. ASSUME NEW t \in Term, NEW ok \in BOOLEAN, Answer(r, t, ok)
        PROVE  appendResps' \subseteq AppendResponse
    <3> DEFINE m == IF ok THEN r.prevLogIndex + Len(r.entries) ELSE 0
    <3>1. m \in Nat
      BY <2>1, <2>2
    <3> HIDE DEF m
    <3>2. [from |-> r.from, to |-> r.to, reqTerm |-> r.term, term |-> t,
           success |-> ok, matched |-> m] \in AppendResponse
      BY <2>1, <3>1 DEF AppendResponse
    <3>3. appendResps \subseteq AppendResponse
      BY DEF TypeInv, TypeOK
    <3> QED
      BY <2>3, <3>2, <3>3 DEF Answer, m
  <2>4. ASSUME BecomeFollower(r.to, r.term)
        PROVE  /\ state' \in [Node -> {"Follower", "Candidate", "Leader"}]
               /\ currentTerm' \in [Node -> Term]
               /\ votedFor' \in [Node -> Node \union {Nil}]
               /\ \A n \in Node : state'[n] = "Leader" => state[n] = "Leader"
    BY <2>1, <2>4, <1>a, SMTT(30) DEF BecomeFollower
  <2>5. CASE /\ Answer(r, currentTerm[r.to], FALSE)
             /\ UNCHANGED <<termVars, log, commitVars>>
    BY <1>7, <2>2, <2>3, <2>5, ZenonT(40)
       DEF HandleAppendEntries, TypeInv, TypeOK, LeaderIndexes, AppliedAhead
  <2>6. CASE /\ BecomeFollower(r.to, r.term)
             /\ Answer(r, currentTerm[r.to], FALSE)
             /\ UNCHANGED <<log, commitVars>>
    BY <1>7, <2>2, <2>3, <2>4, <2>6, ZenonT(40)
       DEF HandleAppendEntries, TypeInv, TypeOK, LeaderIndexes, AppliedAhead
  <2>7. CASE /\ MatchesPrev(log[r.to], r)
             /\ BecomeFollower(r.to, r.term)
             /\ log' = [log EXCEPT ![r.to] = merged]
             /\ IF r.leaderCommit > commitIndex[r.to]
                  THEN ApplyCommitted(r.to, merged, min(r.leaderCommit, Len(merged)))
                  ELSE UNCHANGED commitVars
             /\ Answer(r, r.term, TRUE)
    <3>1. r.prevLogIndex <= Len(log[r.to])
      BY <2>1, <2>2, <2>7 DEF MatchesPrev
    <3>2. merged \in Seq(Entry)
      BY <2>1, <2>2, <3>1, MergeType, Zenon
    <3> HIDE DEF merged
    <3>3. /\ min(r.leaderCommit, Len(merged)) \in Nat
          /\ min(r.leaderCommit, Len(merged)) <= Len(merged)
      BY <2>1, <3>2, LastLogType DEF min
    <3>4. /\ commitIndex' \in [Node -> Nat]
          /\ lastApplied' \in [Node -> Nat]
          /\ applyCh' \in [Node -> Seq(ApplyMsg)]
          /\ applied' = applied
          /\ AppliedAhead'
      <4>1. CASE r.leaderCommit > commitIndex[r.to]
        BY <2>1, <2>7, <3>2, <3>3, <4>1, ApplyCommittedType, SMTT(30)
      <4>2. CASE ~(r.leaderCommit > commitIndex[r.to])
        BY <2>7, <4>2, SMTT(30) DEF TypeInv, TypeOK, AppliedAhead
      <4> QED
        BY <4>1, <4>2
    <3>5. log' \in [Node -> Seq(Entry)]
      BY <2>1, <2>7, <3>2, <1>b
    <3>6. appendResps' \subseteq AppendResponse
      BY <2>1, <2>3, <2>7, Zenon
    <3> QED
      BY <1>7, <2>4, <2>7, <3>4, <3>5, <3>6, Zenon
         DEF HandleAppendEntries, TypeInv, TypeOK, LeaderIndexes
  <2> QED
    BY <1>7, <2>5, <2>6, <2>7, Zenon DEF HandleAppendEntries
<1>8. ASSUME NEW r \in appendResps, HandleAppendResponse(r)
      PROVE  TypeInv'
  <2> DEFINE n == r.from
             match == [matchIndex[n] EXCEPT ![r.to] = r.matched]
  <2>1. n \in Node /\ r.to \in Node /\ r.term \in Term /\ r.matched \in Nat
    BY SMTT(30) DEF AppendResponse, TypeInv, TypeOK
  <2>2. CASE BecomeFollower(n, r.term) /\ UNCHANGED <<commitVars, leaderVars>>
    <3>1. /\ state' \in [Node -> {"Follower", "Candidate", "Leader"}]
          /\ currentTerm' \in [Node -> Term]
          /\ votedFor' \in [Node -> Node \union {Nil}]
          /\ \A m \in Node : state'[m] = "Leader" => state[m] = "Leader"
      BY <2>1, <2>2, <1>a, SMTT(30) DEF BecomeFollower
    <3> QED
      BY <1>8, <2>2, <3>1, Zenon
         DEF HandleAppendResponse, TypeInv, TypeOK, LeaderIndexes, AppliedAhead
  <2>3. CASE /\ matchIndex' = [matchIndex EXCEPT ![n] = match]
             /\ nextIndex' = [nextIndex EXCEPT ![n][r.to] = match[r.to] + 1]
             /\ ApplyCommitted(n, log[n], UpdatedCommitIndex(n, match))
             /\ UNCHANGED <<termVars, elected>>
    <3>1. match \in [Node -> Nat] /\ match[r.to] = r.matched
      BY <2>1, <1>c
    <3> HIDE DEF n, match
    <3>2. nextIndex' = [nextIndex EXCEPT ![n][r.to] = r.matched + 1]
      BY <2>3, <3>1
    <3>3. matchIndex' \in [Node -> [Node -> Nat]] /\ nextIndex' \in [Node -> [Node -> Nat]]
      BY <2>1, <2>3, <3>1, <3>2, <1>c
    <3>4. \A m, p \in Node : \/ nextIndex'[m][p] = nextIndex[m][p]
                             \/ nextIndex'[m][p] = r.matched + 1
      BY <2>1, <3>2, <1>c
    <3>5. LeaderIndexes'
      BY <2>1, <2>3, <3>4, <1>c, <1>d, RaftConstants DEF LeaderIndexes
    <3>6. /\ UpdatedCommitIndex(n, match) \in Nat
          /\ \/ UpdatedCommitIndex(n, match) <= Len(log[n])
             \/ UpdatedCommitIndex(n, match) <= lastApplied[n]
      <4>1. commitIndex[n] <= lastApplied[n]
        BY <2>1 DEF TypeInv, AppliedAhead
      <4> QED
        BY <2>1, <4>1, UpdatedCommitIndexType
    <3>7. /\ commitIndex' \in [Node -> Nat]
          /\ lastApplied' \in [Node -> Nat]
          /\ applyCh' \in [Node -> Seq(ApplyMsg)]
          /\ applied' = applied
          /\ AppliedAhead'
      BY <2>1, <2>3, <3>6, <1>b, ApplyCommittedType, SMTT(30)
    <3> QED
      BY <1>8, <2>3, <3>3, <3>5, <3>7, Zenon DEF HandleAppendResponse, TypeInv, TypeOK
  <2>4. CASE /\ nextIndex[n][r.to] > 1
             /\ nextIndex' = [nextIndex EXCEPT ![n][r.to] = @ - 1]
             /\ UNCHANGED <<termVars, commitVars, matchIndex, elected>>
    <3>1. nextIndex[n][r.to] \in Nat
      BY <2>1, <1>c
    <3>2. nextIndex' \in [Node -> [Node -> Nat]]
      BY <2>1, <2>4, <3>1, <1>c
    <3>3. \A m, p \in Node : nextIndex'[m][p] = nextIndex[m][p] \/ nextIndex'[m][p] >= 1
      BY <2>1, <2>4, <3>1, <1>c, SMTT(30)
    <3>4. LeaderIndexes'
      BY <2>4, <3>3, <1>c, <1>d, RaftConstants, SMTT(30) DEF LeaderIndexes
    <3> QED
      BY <1>8, <2>4, <3>2, <3>4, Zenon DEF HandleAppendResponse, TypeInv, TypeOK, AppliedAhead
  <2> QED
    BY <1>8, <2>2, <2>3, <2>4 DEF HandleAppendResponse
<1>9. ASSUME NEW n \in Node, TakeApplied(n)
      PROVE  TypeInv'
  <2>1. applyCh \in [Node -> Seq(ApplyMsg)] /\ applied \in [Node -> Seq(ApplyMsg)]
    BY DEF TypeInv, TypeOK
  <2>2. Head(applyCh[n]) \in ApplyMsg /\ Tail(applyCh[n]) \in Seq(ApplyMsg)
    BY <1>9, <2>1, HeadTailProperties DEF TakeApplied
  <2>3. Append(applied[n], Head(applyCh[n])) \in Seq(ApplyMsg)
    BY <2>1, <2>2, AppendProperties
  <2>4. applyCh' \in [Node -> Seq(ApplyMsg)] /\ applied' \in [Node -> Seq(ApplyMsg)]
    BY <1>9, <2>1, <2>2, <2>3, SMTT(30) DEF TakeApplied
  <2> QED
    BY <1>9, <2>4, Zenon DEF TakeApplied, TypeInv, TypeOK, LeaderIndexes, AppliedAhead
<1>10. CASE UNCHANGED vars
  BY <1>10, Zenon DEF vars, TypeInv, TypeOK, LeaderIndexes, AppliedAhead
<1> QED
  BY <1>1, <1>2, <1>3, <1>4, <1>5, <1>6, <1>7, <1>8, <1>9, <1>10 DEF Next

\* Init, for TypeInvStep.
LEMMA TypeInvInit == Init => TypeInv
<1> SUFFICES ASSUME Init PROVE TypeInv
  OBVIOUS
<1>1. 0 \in Term
  BY RaftConstants DEF Term
<1>2. << >> \in Seq(Entry) /\ << >> \in Seq(ApplyMsg)
  BY EmptySeq
<1> QED
  BY <1>1, <1>2 DEF Init, TypeInv, TypeOK, LeaderIndexes, AppliedAhead

\* Every reachable state of node.go's variables and messages is well typed: in
\* particular prevLogIndex = nextIndex - 1 never wraps around below zero, and
\* applyCommitted never reads past the end of the log.
THEOREM TypeCorrect == Spec => []TypeOK
<1>1. Spec => []TypeInv
  <2>1. TypeInv /\ [Next]_vars => TypeInv'
    BY TypeInvStep
  <2> QED
    BY <2>1, TypeInvInit, PTL DEF Spec
<1>2. TypeInv => TypeOK
  BY DEF TypeInv
<1> QED
  BY <1>1, <1>2, PTL

-----------------------------------------------------------------------------
(* Election safety.                                                        *)

\* NewCluster's peers, in a cluster of at most three: HasMajority takes all.
SmallCluster ==
    /\ Peers = [n \in Node |-> Node \ {n}]
    /\ Cardinality(Node) <= 3

\* Node p is done with standing for election in term t.
Past(p, t) == currentTerm[p] >= t /\ (currentTerm[p] = t => state[p] = "Follower")

OwnVote == \A n \in Node : state[n] # "Follower" => votedFor[n] = n

CallsCurrent ==
    \A c \in voteCalls :
        /\ c.to \in Peers[c.from]
        /\ state[c.from] # "Follower" => currentTerm[c.from] = c.election

\* A request that carries another term than its election's comes from a node
\* that can no longer become leader in that term.
ReqsCurrent ==
    \A r \in voteReqs :
        /\ r.to \in Peers[r.from]
        /\ r.term # r.election => Past(r.from, r.term)

RespsCurrent ==
    \A r \in voteResps :
        /\ r.to \in Peers[r.from]
        /\ r.reqTerm # r.election => Past(r.from, r.reqTerm)
        /\ r.granted => Past(r.to, r.reqTerm)

TalliesPast ==
    \A n \in Node : \A e \in Term :
        /\ votesReceived[n][e] \subseteq Peers[n]
        /\ \A p \in votesReceived[n][e] : Past(p, e)

ElectedPast == \A e \in elected : \A p \in Node \ {e[2]} : Past(p, e[1])

ElectionInv ==
    /\ OwnVote
    /\ CallsCurrent
    /\ ReqsCurrent
    /\ RespsCurrent
    /\ TalliesPast
    /\ ElectedPast
    /\ ElectionSafety

\* With peers excluding the node itself, "votes > len(peers)/2+1" asks for all
\* votes of a cluster of at most three.
LEMMA Unanimous ==
    ASSUME SmallCluster, NEW n \in Node, NEW V \in SUBSET Peers[n],
           HasMajority(n, 1 + Cardinality(V))
    PROVE  V = Node \ {n}
<1> DEFINE P == Node \ {n}
<1>1. Peers[n] = P
  BY DEF SmallCluster
<1>2. IsFiniteSet(P) /\ Cardinality(P) \in Nat /\ Cardinality(P) <= 2
  <2>1. IsFiniteSet(Node) /\ Cardinality(Node) \in Nat
    BY RaftConstants, FS_CardinalityType
  <2>2. IsFiniteSet(P) /\ Cardinality(P) = Cardinality(Node) - 1
    BY <2>1, FS_RemoveElement
  <2> QED
    BY <2>1, <2>2, FS_CardinalityType DEF SmallCluster
<1>3. /\ IsFiniteSet(V) /\ Cardinality(V) <= Cardinality(P)
      /\ Cardinality(P) = Cardinality(V) => P = V
  BY <1>1, <1>2, FS_Subset
<1>4. Cardinality(V) \in Nat
  BY <1>3, FS_CardinalityType
<1>5. 1 + Cardinality(V) > Cardinality(P) \div 2 + 1
  BY <1>1 DEF HasMajority
<1>6. Cardinality(V) = Cardinality(P)
  <2> HIDE DEF P
  <2> DEFINE k == Cardinality(P)
             v == Cardinality(V)
  <2>1. k \in {0, 1, 2} /\ v \in Nat /\ v <= k /\ 1 + v > k \div 2 + 1
    BY <1>2, <1>3, <1>4, <1>5
  <2> HIDE DEF k, v
  <2>2. k = v
    BY <2>1
  <2> QED
    BY <2>2 DEF k, v
<1> QED
  BY <1>3, <1>6

\* Terms never go back, and a node that is done with a term stays done with it.
LEMMA PastStable ==
    ASSUME TypeInv, Next, NEW p \in Node, NEW t \in Term, Past(p, t)
    PROVE  Past(p, t)'
<1> USE DEF Past, termVars
<1>a. /\ state \in [Node -> {"Follower", "Candidate", "Leader"}]
      /\ currentTerm \in [Node -> Term]
  BY DEF TypeInv, TypeOK
<1>b. currentTerm[p] \in Nat /\ t \in Nat
  BY <1>a, RaftConstants DEF Term
<1>1. ASSUME NEW n \in Node, StartElection(n) PROVE Past(p, t)'
  <2>1. CASE p = n
    <3>1. currentTerm'[p] = currentTerm[p] + 1
      BY <1>1, <1>a, <2>1 DEF StartElection
    <3> QED
      BY <1>b, <3>1
  <2>2. CASE p # n
    BY <1>1, <1>a, <2>2 DEF StartElection
  <2> QED
    BY <2>1, <2>2
<1>2. ASSUME NEW c \in voteCalls, RequestVote(c) PROVE Past(p, t)'
  BY <1>2 DEF RequestVote
<1>3. ASSUME NEW r \in voteReqs, HandleRequestVote(r) PROVE Past(p, t)'
  <2>1. r.to \in Node /\ r.term \in Nat
    <3>1. r \in VoteRequest
      BY DEF TypeInv, TypeOK
    <3> QED
      BY <3>1, RaftConstants DEF VoteRequest, Term
  <2>2. CASE p = r.to
    BY <1>3, <1>a, <1>b, <2>1, <2>2, SMTT(30) DEF HandleRequestVote
  <2>3. CASE p # r.to
    BY <1>3, <1>a, <2>1, <2>3 DEF HandleRequestVote
  <2> QED
    BY <2>2, <2>3
<1>4. ASSUME NEW r \in voteResps, CountVote(r) PROVE Past(p, t)'
  <2>1. r.from \in Node /\ r.term \in Nat
    <3>1. r \in VoteResponse
      BY DEF TypeInv, TypeOK
    <3> QED
      BY <3>1, RaftConstants DEF VoteResponse, Term
  <2> QED
    BY <1>4, <1>a, <1>b, <2>1 DEF CountVote, BecomeFollower, BecomeLeader
<1>5. ASSUME NEW n \in Node, NEW c \in Command, Propose(n, c) PROVE Past(p, t)'
  BY <1>5 DEF Propose
<1>6. ASSUME NEW n \in Node, NEW q \in Peers[n], SendAppendEntries(n, q) PROVE Past(p, t)'
  BY <1>6, SMTT(30) DEF SendAppendEntries
<1>7. ASSUME NEW r \in appendReqs, HandleAppendEntries(r) PROVE Past(p, t)'
  <2>1. r.to \in Node /\ r.term \in Nat
    <3>1. r \in AppendRequest
      BY DEF TypeInv, TypeOK
    <3> QED
      BY <3>1, RaftConstants DEF AppendRequest, Term
  <2>2. CASE UNCHANGED termVars
    BY <2>2
  <2>3. CASE r.term >= currentTerm[r.to] /\ BecomeFollower(r.to, r.term)
    <3>1. CASE p = r.to
      <4>1. state'[p] = "Follower" /\ currentTerm'[p] = r.term
        BY <1>a, <2>3, <3>1 DEF BecomeFollower
      <4> QED
        BY <1>b, <2>1, <2>3, <3>1, <4>1
    <3>2. CASE p # r.to
      BY <1>a, <2>3, <3>2 DEF BecomeFollower
    <3> QED
      BY <3>1, <3>2
  <2> QED
    BY <1>7, <2>2, <2>3, Zenon DEF HandleAppendEntries
<1>8. ASSUME NEW r \in appendResps, HandleAppendResponse(r) PROVE Past(p, t)'
  <2>1. r.from \in Node /\ r.term \in Nat
    <3>1. r \in AppendResponse
      BY DEF TypeInv, TypeOK
    <3> QED
      BY <3>1, RaftConstants DEF AppendResponse, Term
  <2> QED
    BY <1>8, <1>a, <1>b, <2>1 DEF HandleAppendResponse, BecomeFollower
<1>9. ASSUME NEW n \in Node, TakeApplied(n) PROVE Past(p, t)'
  BY <1>9 DEF TakeApplied
<1> QED
  BY <1>1, <1>2, <1>3, <1>4, <1>5, <1>6, <1>7, <1>8, <1>9 DEF Next

\* A step of the cluster keeps the election invariant.
LEMMA ElectionInvStep ==
    ASSUME SmallCluster, ~LateReads, TypeInv, ElectionInv, Next
    PROVE  ElectionInv'
<1>a. /\ state \in [Node -> {"Follower", "Candidate", "Leader"}]
      /\ currentTerm \in [Node -> Term]
      /\ votedFor \in [Node -> Node \union {Nil}]
  BY DEF TypeInv, TypeOK
<1>b. Nil \notin Node /\ \A n \in Node : Peers[n] = Node \ {n}
  BY RaftConstants DEF SmallCluster
<1>c. \A p \in Node : \A t \in Term : Past(p, t) => Past(p, t)'
  BY PastStable
<1>d. votesReceived \in [Node -> [Term -> SUBSET Node]] /\ elected \subseteq Term \X Node
  BY DEF TypeInv, TypeOK
<1>e. OwnVote /\ CallsCurrent /\ ReqsCurrent /\ RespsCurrent /\ TalliesPast
      /\ ElectedPast /\ ElectionSafety
  BY DEF ElectionInv
<1>f. /\ \A c \in voteCalls : c.from \in Node /\ c.to \in Node /\ c.election \in Term
      /\ \A r \in voteReqs : /\ r.from \in Node /\ r.to \in Node
                            /\ r.election \in Term /\ r.term \in Term
      /\ \A r \in voteResps : /\ r.from \in Node /\ r.to \in Node
                             /\ r.election \in Term /\ r.reqTerm \in Term
  BY Zenon DEF TypeInv, TypeOK, VoteCall, VoteRequest, VoteResponse
<1> DEFINE Settled ==
             \A n \in Node : \/ state'[n] = "Follower"
                            \/ /\ state[n] # "Follower"
                               /\ currentTerm'[n] = currentTerm[n]
                               /\ votedFor'[n] = votedFor[n]
<1>g. ASSUME Settled PROVE OwnVote'
  BY <1>g, <1>e DEF OwnVote
<1>h. ASSUME Settled, voteCalls' \subseteq voteCalls PROVE CallsCurrent'
  BY <1>h, <1>e, <1>f DEF CallsCurrent
<1>i. ASSUME voteReqs' \subseteq voteReqs PROVE ReqsCurrent'
  BY <1>i, <1>c, <1>e, <1>f, SMTT(30) DEF ReqsCurrent, Past
<1>j. ASSUME voteResps' \subseteq voteResps PROVE RespsCurrent'
  BY <1>j, <1>c, <1>e, <1>f DEF RespsCurrent, Past
<1>k. ASSUME UNCHANGED votesReceived PROVE TalliesPast'
  BY <1>k, <1>b, <1>c, <1>d, <1>e DEF TalliesPast, Past
<1>l. ASSUME UNCHANGED elected PROVE ElectedPast' /\ ElectionSafety'
  <2>1. ElectionSafety'
    BY <1>l, <1>e DEF ElectionSafety
  <2>2. \A e \in elected : e[1] \in Term
    BY <1>d
  <2>3. ElectedPast'
    BY <1>l, <1>c, <1>e, <2>2, SMTT(30) DEF ElectedPast, Past
  <2> QED
    BY <2>1, <2>3
<1> HIDE DEF Settled
<1> USE DEF termVars, leaderVars, voteVars
<1>1. ASSUME NEW n \in Node, StartElection(n)
      PROVE  ElectionInv'
  <2>1. OwnVote'
    BY <1>1, <1>a, <1>e, SMTT(30) DEF StartElection, OwnVote
  <2>2. CallsCurrent'
    <3>1. \A c \in voteCalls : c.from # n
      BY <1>1 DEF StartElection
    <3>2. \A m \in Node \ {n} : state'[m] = state[m] /\ currentTerm'[m] = currentTerm[m]
      BY <1>1, <1>a DEF StartElection
    <3>3. currentTerm'[n] = currentTerm[n] + 1
      BY <1>1, <1>a DEF StartElection
    <3> SUFFICES ASSUME NEW c \in voteCalls'
                 PROVE  /\ c.to \in Peers[c.from]
                        /\ state'[c.from] # "Follower" => currentTerm'[c.from] = c.election
      BY DEF CallsCurrent
    <3>4. CASE c \in voteCalls
      BY <3>1, <3>2, <3>4, <1>e, <1>f, SMTT(30) DEF CallsCurrent
    <3>5. CASE \E p \in Peers[n] :
                 c = [from |-> n, to |-> p, election |-> currentTerm[n] + 1]
      BY <3>3, <3>5, SMTT(30)
    <3> QED
      BY <1>1, <3>4, <3>5, SMTT(30) DEF StartElection
  <2> QED
    BY <1>1, <2>1, <2>2, <1>i, <1>j, <1>k, <1>l, SMTT(30) DEF StartElection, ElectionInv
<1>2. ASSUME NEW c \in voteCalls, RequestVote(c)
      PROVE  ElectionInv'
  <2>1. OwnVote'
    BY <1>2, <1>e, SMTT(30) DEF RequestVote, OwnVote
  <2>2. CallsCurrent'
    BY <1>2, <1>e, SMTT(30) DEF RequestVote, CallsCurrent
  <2>3. ReqsCurrent'
    <3>1. c.from \in Node /\ c.to \in Peers[c.from]
      BY <1>e, <1>f DEF CallsCurrent
    <3>2. currentTerm[c.from] # c.election => state[c.from] = "Follower"
      BY <1>e DEF CallsCurrent
    <3>3. UNCHANGED <<state, currentTerm>>
      BY <1>2 DEF RequestVote
    <3> SUFFICES ASSUME NEW r \in voteReqs'
                 PROVE  /\ r.to \in Peers[r.from]
                        /\ r.term # r.election => Past(r.from, r.term)'
      BY DEF ReqsCurrent, Past
    <3>4. CASE r \in voteReqs
      BY <3>3, <3>4, <1>e DEF ReqsCurrent, Past
    <3>5. CASE r = [from |-> c.from, to |-> c.to, election |-> c.election,
                    term |-> currentTerm[c.from],
                    lastLogIndex |-> Len(log[c.from]),
                    lastLogTerm |-> LastLogTerm(log[c.from])]
      <4>1. /\ r.from = c.from /\ r.to = c.to /\ r.election = c.election
            /\ r.term = currentTerm[c.from]
        BY <3>5
      <4>2. currentTerm[c.from] >= currentTerm[c.from]
        BY <3>1, <1>a, RaftConstants, SMTT(30) DEF Term
      <4> QED
        BY <3>1, <3>2, <3>3, <4>1, <4>2, SMTT(30) DEF Past
    <3> QED
      BY <1>2, <3>4, <3>5 DEF RequestVote
  <2> QED
    BY <1>2, <2>1, <2>2, <2>3, <1>j, <1>k, <1>l, SMTT(30) DEF RequestVote, ElectionInv
<1>3. ASSUME NEW r \in voteReqs, HandleRequestVote(r)
      PROVE  ElectionInv'
  <2> DEFINE newer   == r.term > currentTerm[r.to]
             vote    == IF newer THEN Nil ELSE votedFor[r.to]
             granted == /\ r.term >= currentTerm[r.to]
                        /\ vote \in {Nil, r.from}
                        /\ IsLogUpToDate(log[r.to], r.lastLogIndex, r.lastLogTerm)
             term    == IF newer THEN r.term ELSE currentTerm[r.to]
             resp    == [from |-> r.from, to |-> r.to, election |-> r.election,
                         reqTerm |-> r.term, term |-> term, granted |-> granted]
  <2>1. /\ r.from \in Node /\ r.to \in Node /\ r.from # r.to
        /\ r.term \in Nat /\ currentTerm[r.to] \in Nat
    BY <1>a, <1>b, <1>e, <1>f, RaftConstants, SMTT(30) DEF ReqsCurrent, Term
  <2>2. /\ state' = [state EXCEPT ![r.to] = IF newer THEN "Follower" ELSE @]
        /\ currentTerm' = [currentTerm EXCEPT ![r.to] = term]
        /\ votedFor' = [votedFor EXCEPT ![r.to] = IF granted THEN r.from ELSE vote]
        /\ voteResps' = voteResps \union {resp}
        /\ voteReqs' = voteReqs \ {r}
        /\ UNCHANGED <<leaderVars, votesReceived, voteCalls>>
    BY <1>3, Zenon DEF HandleRequestVote
  <2>3. granted => newer \/ state[r.to] = "Follower"
    <3>1. state[r.to] # "Follower" => votedFor[r.to] = r.to
      BY <2>1, <1>e, SMTT(30) DEF OwnVote
    <3> QED
      BY <2>1, <3>1, <1>b
  <2>4. Settled \/ ~newer
    <3> SUFFICES ASSUME newer, NEW n \in Node
                 PROVE  \/ state'[n] = "Follower"
                        \/ /\ state[n] # "Follower"
                           /\ currentTerm'[n] = currentTerm[n]
                           /\ votedFor'[n] = votedFor[n]
      BY DEF Settled
    <3> QED
      BY <2>1, <2>2, <1>a
  <2>5. Settled
    <3>1. ASSUME ~newer PROVE Settled
      <4>1. state[r.to] # "Follower" => ~granted
        BY <2>3, <3>1
      <4> HIDE DEF granted
      <4> QED
        BY <2>1, <2>2, <3>1, <4>1, <1>a, SMTT(30) DEF Settled
    <3> QED
      BY <2>4, <3>1, SMTT(30)
  <2>6. RespsCurrent'
    <3>1. granted => Past(r.to, r.term)'
      <4>a. granted => r.term >= currentTerm[r.to]
        BY SMTT(30)
      <4> HIDE DEF granted
      <4>b. /\ state'[r.to] = IF newer THEN "Follower" ELSE state[r.to]
            /\ currentTerm'[r.to] = term
        BY <2>1, <2>2, <1>a
      <4>c. granted => state'[r.to] = "Follower"
        BY <2>3, <4>b
      <4>d. granted => currentTerm'[r.to] = r.term
        BY <2>1, <4>a, <4>b, <1>a
      <4>1. granted => state'[r.to] = "Follower" /\ currentTerm'[r.to] = r.term
        BY <4>c, <4>d
      <4> QED
        BY <2>1, <4>1 DEF Past
    <3>2. r.term # r.election => Past(r.from, r.term)'
      BY <1>c, <1>e, <1>f DEF ReqsCurrent
    <3>3. r.to \in Peers[r.from]
      BY <1>e, SMTT(30) DEF ReqsCurrent
    <3>4. /\ resp.from = r.from /\ resp.to = r.to /\ resp.election = r.election
          /\ resp.reqTerm = r.term /\ resp.granted = granted
      BY Zenon
    <3> HIDE DEF resp, granted
    <3> SUFFICES ASSUME NEW q \in voteResps'
                 PROVE  /\ q.to \in Peers[q.from]
                        /\ q.reqTerm # q.election => Past(q.from, q.reqTerm)'
                        /\ q.granted => Past(q.to, q.reqTerm)'
      BY DEF RespsCurrent, Past
    <3>5. CASE q \in voteResps
      BY <3>5, <1>c, <1>e, <1>f, SMTT(30) DEF RespsCurrent
    <3>6. CASE q = resp
      BY <3>1, <3>2, <3>3, <3>4, <3>6, SMTT(30) DEF Past
    <3> QED
      BY <2>2, <3>5, <3>6
  <2> QED
    BY <2>2, <2>5, <2>6, <1>g, <1>h, <1>i, <1>k, <1>l DEF ElectionInv
<1>4. ASSUME NEW r \in voteResps, CountVote(r)
      PROVE  ElectionInv'
  <2> DEFINE n == r.from
             votes == votesReceived[n][r.election] \union {r.to}
  <2>1. /\ n \in Node /\ r.to \in Node /\ r.to \in Peers[n]
        /\ r.election \in Term /\ r.reqTerm \in Term
    BY <1>e, <1>f DEF RespsCurrent
  <2>2. /\ voteResps' \subseteq voteResps
        /\ UNCHANGED <<voteCalls, voteReqs>>
    BY <1>4 DEF CountVote
  <2>3. CASE UNCHANGED <<termVars, leaderVars, votesReceived>>
    <3>1. OwnVote' /\ CallsCurrent'
      BY <2>2, <2>3, <1>e DEF OwnVote, CallsCurrent
    <3> QED
      BY <2>2, <2>3, <3>1, <1>i, <1>j, <1>k, <1>l DEF ElectionInv
  <2>4. CASE BecomeFollower(n, r.term) /\ UNCHANGED <<leaderVars, votesReceived>>
    <3>1. OwnVote' /\ CallsCurrent'
      BY <2>1, <2>2, <2>4, <1>a, <1>e, <1>f, SMTT(30)
         DEF OwnVote, CallsCurrent, BecomeFollower
    <3> QED
      BY <2>2, <2>4, <3>1, <1>i, <1>j, <1>k, <1>l, SMTT(30) DEF ElectionInv
  <2>5. CASE /\ state[n] = "Candidate"
             /\ currentTerm[n] = r.reqTerm
             /\ r.granted
             /\ votesReceived' = [votesReceived EXCEPT ![n][r.election] = votes]
             /\ IF HasMajority(n, 1 + Cardinality(votes))
                  THEN BecomeLeader(n)
                  ELSE UNCHANGED <<state, leaderVars>>
             /\ UNCHANGED <<currentTerm, votedFor>>
    <3>1. r.reqTerm = r.election
      BY <2>5, <1>e DEF RespsCurrent, Past
    <3>2. /\ votes \subseteq Peers[n]
          /\ \A p \in votes : Past(p, r.election)
      BY <2>1, <2>5, <3>1, <1>e, SMTT(30) DEF RespsCurrent, TalliesPast
    <3>3. \A p \in votes : Past(p, r.election)'
      BY <2>1, <3>2, <1>b, <1>c, SMTT(30)
    <3> HIDE DEF votes
    <3>4. TalliesPast'
      <4>1. \A m \in Node : \A e \in Term :
              votesReceived'[m][e] = IF m = n /\ e = r.election THEN votes
                                                             ELSE votesReceived[m][e]
        BY <2>1, <2>5, <1>d, SMTT(30)
      <4>2. \A m \in Node : \A e \in Term :
              /\ votesReceived[m][e] \subseteq Peers[m]
              /\ \A p \in votesReceived[m][e] : Past(p, e)'
        BY <1>b, <1>c, <1>e, SMTT(30) DEF TalliesPast
      <4> QED
        BY <3>2, <3>3, <4>1, <4>2, SMTT(30) DEF TalliesPast, Past
    <3>5. OwnVote' /\ CallsCurrent'
      BY <2>1, <2>2, <2>5, <1>a, <1>e, <1>f DEF OwnVote, CallsCurrent, BecomeLeader
    <3>6. CASE UNCHANGED elected
      BY <2>2, <3>4, <3>5, <3>6, <1>i, <1>j, <1>l, SMTT(30) DEF ElectionInv
    <3>7. CASE HasMajority(n, 1 + Cardinality(votes)) /\ BecomeLeader(n)
      <4>1. votes = Node \ {n}
        BY <2>1, <3>2, <3>7, Unanimous, SMTT(30)
      <4>2. elected' = elected \union {<<r.election, n>>}
        BY <2>5, <3>1, <3>7 DEF BecomeLeader
      <4>3. \A e \in elected : e[1] \in Term /\ e[2] \in Node
        BY <1>d
      <4>4. ElectedPast'
        <5>1. \A e \in elected : \A p \in Node \ {e[2]} : Past(p, e[1])'
          BY <4>3, <1>c, <1>e DEF ElectedPast
        <5>2. \A p \in Node \ {n} : Past(p, r.election)'
          BY <3>3, <4>1
        <5> SUFFICES ASSUME NEW e \in elected', NEW p \in Node \ {e[2]}
                     PROVE  Past(p, e[1])'
          BY DEF ElectedPast, Past
        <5>3. CASE e \in elected
          BY <5>1, <5>3
        <5>4. CASE e = <<r.election, n>>
          <6>1. e[1] = r.election /\ e[2] = n
            BY <5>4
          <6> QED
            BY <5>2, <6>1 DEF Past
        <5> QED
          BY <4>2, <5>3, <5>4
      <4>5. \A e \in elected : e[1] = r.election => e[2] = n
        <5> SUFFICES ASSUME NEW e \in elected, e[1] = r.election, e[2] # n
                     PROVE  FALSE
          OBVIOUS
        <5>1. Past(n, e[1])
          BY <2>1, <1>e DEF ElectedPast
        <5> QED
          BY <2>5, <3>1, <5>1 DEF Past
      <4>6. ElectionSafety'
        <5>1. <<r.election, n>>[1] = r.election /\ <<r.election, n>>[2] = n
          OBVIOUS
        <5> QED
          BY <4>2, <4>5, <5>1, <1>e DEF ElectionSafety
      <4> QED
        BY <2>2, <3>4, <3>5, <4>4, <4>6, <1>i, <1>j, SMTT(30) DEF ElectionInv
    <3> QED
      BY <2>5, <3>6, <3>7
  <2> QED
    BY <1>4, <2>3, <2>4, <2>5, SMTT(30) DEF CountVote
<1>5. ASSUME NEW n \in Node, NEW c \in Command, Propose(n, c)
      PROVE  ElectionInv'
  <2>1. OwnVote' /\ CallsCurrent'
    BY <1>5, <1>e DEF Propose, OwnVote, CallsCurrent
  <2> QED
    BY <1>5, <2>1, <1>i, <1>j, <1>k, <1>l, SMTT(30) DEF Propose, ElectionInv
<1>6. ASSUME NEW n \in Node, NEW p \in Peers[n], SendAppendEntries(n, p)
      PROVE  ElectionInv'
  <2>1. OwnVote' /\ CallsCurrent'
    BY <1>6, <1>e DEF SendAppendEntries, OwnVote, CallsCurrent
  <2> QED
    BY <1>6, <2>1, <1>i, <1>j, <1>k, <1>l, SMTT(30) DEF SendAppendEntries, ElectionInv
<1>7. ASSUME NEW r \in appendReqs, HandleAppendEntries(r)
      PROVE  ElectionInv'
  <2>1. UNCHANGED termVars \/ BecomeFollower(r.to, r.term)
    BY <1>7, Zenon DEF HandleAppendEntries
  <2>2. UNCHANGED <<leaderVars, voteVars>>
    BY <1>7 DEF HandleAppendEntries
  <2>3. r.to \in Node
    BY DEF TypeInv, TypeOK, AppendRequest
  <2>4. OwnVote' /\ CallsCurrent'
    BY <2>1, <2>2, <2>3, <1>a, <1>e, <1>f DEF OwnVote, CallsCurrent, BecomeFollower
  <2> QED
    BY <2>2, <2>4, <1>i, <1>j, <1>k, <1>l, SMTT(30) DEF ElectionInv
<1>8. ASSUME NEW r \in appendResps, HandleAppendResponse(r)
      PROVE  ElectionInv'
  <2>1. UNCHANGED termVars \/ BecomeFollower(r.from, r.term)
    BY <1>8 DEF HandleAppendResponse
  <2>2. UNCHANGED <<elected, voteVars>>
    BY <1>8 DEF HandleAppendResponse
  <2>3. r.from \in Node
    BY DEF TypeInv, TypeOK, AppendResponse
  <2>4. OwnVote' /\ CallsCurrent'
    BY <2>1, <2>2, <2>3, <1>a, <1>e, <1>f, SMTT(30)
       DEF OwnVote, CallsCurrent, BecomeFollower
  <2> QED
    BY <2>2, <2>4, <1>i, <1>j, <1>k, <1>l, SMTT(30) DEF ElectionInv
<1>9. ASSUME NEW n \in Node, TakeApplied(n)
      PROVE  ElectionInv'
  <2>1. OwnVote' /\ CallsCurrent'
    BY <1>9, <1>e DEF TakeApplied, OwnVote, CallsCurrent
  <2> QED
    BY <1>9, <2>1, <1>i, <1>j, <1>k, <1>l DEF TakeApplied, ElectionInv
<1> QED
  BY <1>1, <1>2, <1>3, <1>4, <1>5, <1>6, <1>7, <1>8, <1>9 DEF Next

\* In a cluster of at most three nodes, whatever is lost, delayed or reordered,
\* becomeLeader runs for at most one node per term, although HandleAppendEntries
\* lets a node vote twice in a term: a node that granted a vote in a term never
\* stands in it, and an election needs everyone's vote.
THEOREM AtMostOneLeader ==
    ASSUME SmallCluster, ~LateReads
    PROVE  Spec => []ElectionSafety
<1>1. Init => ElectionInv
  BY DEF Init, ElectionInv, OwnVote, CallsCurrent, ReqsCurrent, RespsCurrent,
         TalliesPast, ElectedPast, ElectionSafety
<1>2. TypeInv /\ ElectionInv /\ [Next]_vars => TypeInv' /\ ElectionInv'
  <2>1. ASSUME TypeInv, ElectionInv, UNCHANGED vars PROVE ElectionInv'
    BY <2>1
       DEF vars, termVars, leaderVars, voteVars, ElectionInv, OwnVote, CallsCurrent,
                ReqsCurrent, RespsCurrent, TalliesPast, ElectedPast, ElectionSafety, Past
  <2> QED
    BY <2>1, TypeInvStep, ElectionInvStep, SMTT(30)
<1>3. ElectionInv => ElectionSafety
  BY DEF ElectionInv
<1> QED
  BY <1>1, <1>2, <1>3, TypeInvInit, PTL DEF Spec

-----------------------------------------------------------------------------
(* Replication.                                                            *)

\* Node n stands for election in term t.
Standing(n, t) == state[n] = "Candidate" /\ currentTerm[n] = t

-----------------------------------------------------------------------------
(* The inductive invariant.                                                *)

\* Nobody is behind a term that was won, and nobody stands in one.
ElectedBehind ==
    \A e \in elected : \A m \in Node :
        /\ e[1] <= currentTerm[m]
        /\ state[m] = "Candidate" => e[1] < currentTerm[m]

LeadersElected ==
    \A n \in Node : state[n] = "Leader" => <<currentTerm[n], n>> \in elected

LogsAgree ==
    \A n, m \in Node : \A i \in 1 .. Len(log[n]) :
        i <= Len(log[m]) => log[n][i] = log[m][i]

LeaderLongest ==
    \A n, m \in Node : state[n] = "Leader" => Len(log[m]) <= Len(log[n])

TermsOrdered ==
    \A n \in Node : \A j \in 1 .. Len(log[n]) : \A i \in 1 .. j :
        log[n][i].term <= log[n][j].term

TermsPast ==
    \A n, m \in Node : \A i \in 1 .. Len(log[n]) : log[n][i].term <= currentTerm[m]

LogsInv ==
    /\ ElectedBehind
    /\ LeadersElected
    /\ LogsAgree
    /\ LeaderLongest
    /\ TermsOrdered
    /\ TermsPast

\* A request tells the log of its candidate, as long as the vote can count.
ReqLogs ==
    \A r \in voteReqs :
        /\ r.term <= currentTerm[r.from]
        /\ Standing(r.from, r.term) =>
              /\ r.lastLogIndex = Len(log[r.from])
              /\ r.lastLogTerm = LastLogTerm(log[r.from])

\* A vote that can count is one for a log at least as long as the voter's.
RespLogs ==
    \A r \in voteResps :
        /\ r.reqTerm <= currentTerm[r.from]
        /\ r.granted /\ Standing(r.from, r.reqTerm) => Len(log[r.to]) <= Len(log[r.from])

TallyLogs ==
    \A n \in Node : \A e \in Term : \A p \in votesReceived[n][e] :
        /\ e <= currentTerm[n]
        /\ Standing(n, e) => Len(log[p]) <= Len(log[n])

VotesInv == ReqLogs /\ RespLogs /\ TallyLogs

\* A request carries a slice of a log that has not shrunk since, and a commit
\* index that every log has reached and that is within the slice.
RequestsCopied ==
    \A r \in appendReqs :
        /\ <<r.term, r.from>> \in elected
        /\ r.prevLogIndex + Len(r.entries) <= Len(log[r.from])
        /\ \A i \in 1 .. Len(r.entries) : r.entries[i] = log[r.from][r.prevLogIndex + i]
        /\ r.leaderCommit <= r.prevLogIndex + Len(r.entries)
        /\ \A m \in Node : r.leaderCommit <= Len(log[m])

AnswersTrue ==
    \A r \in appendResps : r.matched <= Len(log[r.to]) /\ r.matched <= Len(log[r.from])

NextBound == \A n, m \in Node : nextIndex[n][m] <= Len(log[n]) + 1

MatchBound ==
    \A n, m \in Node : matchIndex[n][m] <= Len(log[m]) /\ matchIndex[n][m] <= Len(log[n])

AppliedBound == \A n, m \in Node : lastApplied[n] <= Len(log[m])

ReplicationInv ==
    /\ RequestsCopied
    /\ AnswersTrue
    /\ NextBound
    /\ MatchBound
    /\ AppliedBound

LogInv == TypeInv /\ ElectionInv /\ LogsInv /\ VotesInv /\ ReplicationInv

-----------------------------------------------------------------------------
(* Steps.                                                                  *)

\* The append loop of HandleAppendEntries, given a slice of a log that agrees
\* with xlog: xlog is kept, and extended by entries of that log.
LEMMA MergeExtends ==
    ASSUME NEW xlog \in Seq(Entry), NEW ylog \in Seq(Entry), NEW entries \in Seq(Entry),
           NEW prev \in Nat, prev <= Len(xlog),
           prev + Len(entries) <= Len(ylog),
           \A i \in 1 .. Len(entries) : entries[i] = ylog[prev + i],
           \A i \in 1 .. Len(xlog) : i <= Len(ylog) => xlog[i] = ylog[i]
    PROVE  LET merged == MergeEntries(xlog, prev, entries)
           IN  /\ merged \in Seq(Entry)
               /\ Len(xlog) <= Len(merged)
               /\ prev + Len(entries) <= Len(merged)
               /\ Len(merged) <= Len(xlog) \/ Len(merged) <= Len(ylog)
               /\ \A i \in 1 .. Len(xlog) : merged[i] = xlog[i]
               /\ \A i \in 1 .. Len(merged) : i > Len(xlog) => merged[i] = ylog[i]
<1> DEFINE merged     == MergeEntries(xlog, prev, entries)
           Differs(i) == \/ prev + i > Len(xlog)
                         \/ xlog[prev + i].term # entries[i].term
           First(i)   == Differs(i) /\ \A j \in 1 .. i - 1 : ~Differs(j)
           k          == Len(xlog) - prev + 1
<1>1. /\ Len(xlog) \in Nat /\ Len(ylog) \in Nat /\ Len(entries) \in Nat
      /\ merged \in Seq(Entry)
  BY LenProperties, MergeType
<1>2. \A i \in 1 .. Len(entries) : Differs(i) <=> prev + i > Len(xlog)
  <2>1. ASSUME NEW i \in 1 .. Len(entries), ~(prev + i > Len(xlog))
        PROVE  xlog[prev + i].term = entries[i].term
    <3>1. prev + i \in 1 .. Len(xlog) /\ prev + i <= Len(ylog)
      BY <1>1, <2>1
    <3>2. xlog[prev + i] = ylog[prev + i] /\ entries[i] = ylog[prev + i]
      BY <3>1, Zenon
    <3> QED
      BY <3>2, Zenon
  <2> QED
    BY <2>1, Zenon
<1>3. CASE prev + Len(entries) <= Len(xlog)
  <2> HIDE DEF Differs
  <2>1. ~\E i \in 1 .. Len(entries) : First(i)
    BY <1>1, <1>2, <1>3
  <2>2. merged = xlog
    BY <2>1 DEF MergeEntries, First, Differs
  <2> QED
    BY <1>1, <1>3, <2>2
<1>4. CASE ~(prev + Len(entries) <= Len(xlog))
  <2> HIDE DEF Differs
  <2>0. k \in 1 .. Len(entries) /\ prev + k = Len(xlog) + 1
    BY <1>1, <1>4
  <2>1. k \in 1 .. Len(entries) /\ First(k)
    <3> HIDE DEF k
    <3>1. Differs(k)
      BY <1>1, <1>2, <2>0
    <3>2. ASSUME NEW j \in 1 .. k - 1 PROVE ~Differs(j)
      BY <1>1, <1>2, <2>0
    <3> QED
      BY <2>0, <3>1, <3>2
  <2>2. ASSUME NEW i \in 1 .. Len(entries), First(i) PROVE i = k
    <3> HIDE DEF k
    <3>1. prev + i > Len(xlog)
      BY <1>2, <2>2
    <3>2. i > k => k \in 1 .. i - 1
      BY <2>0
    <3>3. i > k => ~Differs(k)
      BY <2>2, <3>2
    <3>4. Differs(k)
      BY <2>1
    <3> QED
      BY <1>1, <2>0, <3>1, <3>3, <3>4
  <2> HIDE DEF First
  <2>3. k = CHOOSE i \in 1 .. Len(entries) : First(i)
    BY <2>1, <2>2
  <2>4. merged = SubSeq(xlog, 1, prev + k - 1) \o SubSeq(entries, k, Len(entries))
    <3> HIDE DEF k
    <3> QED
      BY <2>1, <2>3, Zenon DEF MergeEntries, First, Differs
  <2> DEFINE tail == SubSeq(entries, k, Len(entries))
  <2>5. SubSeq(xlog, 1, prev + k - 1) = xlog
    <3>1. prev + k - 1 = Len(xlog)
      BY <1>1
    <3> QED
      BY <3>1, SubSeqFull
  <2>6. /\ tail \in Seq(Entry) /\ Len(tail) = prev + Len(entries) - Len(xlog)
        /\ \A i \in 1 .. Len(tail) : tail[i] = entries[k + i - 1]
    BY <1>1, <2>1, SubSeqProperties
  <2> HIDE DEF tail, merged
  <2>7. merged = xlog \o tail
    BY <2>4, <2>5, Zenon DEF tail
  <2>8. /\ Len(merged) = Len(xlog) + Len(tail)
        /\ \A i \in 1 .. Len(merged) :
             merged[i] = IF i <= Len(xlog) THEN xlog[i] ELSE tail[i - Len(xlog)]
    BY <2>6, <2>7, ConcatProperties
  <2>9. ASSUME NEW i \in 1 .. Len(merged), i > Len(xlog) PROVE merged[i] = ylog[i]
    <3>1. /\ merged[i] = tail[i - Len(xlog)]
          /\ i - Len(xlog) \in 1 .. Len(tail)
      BY <1>1, <2>6, <2>8, <2>9
    <3>2. tail[i - Len(xlog)] = entries[i - prev]
      <4>1. k + (i - Len(xlog)) - 1 = i - prev
        BY <1>1
      <4> QED
        BY <2>6, <3>1, <4>1, Zenon
    <3>3. i - prev \in 1 .. Len(entries) /\ prev + (i - prev) = i
      BY <1>1, <2>6, <2>8, <2>9
    <3>4. entries[i - prev] = ylog[prev + (i - prev)]
      BY <3>3
    <3> QED
      BY <3>1, <3>2, <3>3, <3>4
  <2>10. \A i \in 1 .. Len(xlog) : merged[i] = xlog[i]
    BY <1>1, <2>6, <2>8
  <2>11. Len(merged) = prev + Len(entries)
    BY <1>1, <2>6, <2>8
  <2> QED
    BY <1>1, <1>4, <2>9, <2>10, <2>11 DEF merged
<1> QED
  BY <1>3, <1>4

\* How a step moves a node's term and role, whatever the node does.
LEMMA TermStep ==
    ASSUME TypeInv, Next, NEW p \in Node
    PROVE  /\ currentTerm[p] <= currentTerm'[p]
           /\ state'[p] = "Candidate" =>
                 \/ state[p] = "Candidate" /\ currentTerm'[p] = currentTerm[p]
                 \/ currentTerm[p] < currentTerm'[p]
           /\ state'[p] = "Leader" =>
                 \/ state[p] = "Leader" /\ currentTerm'[p] = currentTerm[p]
                 \/ <<currentTerm'[p], p>> \in elected'
<1> DEFINE Moves == /\ currentTerm[p] <= currentTerm'[p]
                    /\ state'[p] = "Candidate" =>
                          \/ state[p] = "Candidate" /\ currentTerm'[p] = currentTerm[p]
                          \/ currentTerm[p] < currentTerm'[p]
                    /\ state'[p] = "Leader" =>
                          \/ state[p] = "Leader" /\ currentTerm'[p] = currentTerm[p]
                          \/ <<currentTerm'[p], p>> \in elected'
<1> USE DEF termVars
<1>a. /\ state \in [Node -> {"Follower", "Candidate", "Leader"}]
      /\ currentTerm \in [Node -> Term]
  BY DEF TypeInv, TypeOK
<1>b. currentTerm[p] \in Nat
  BY <1>a, RaftConstants DEF Term
<1>c. ASSUME currentTerm'[p] = currentTerm[p], state'[p] = state[p] PROVE Moves
  BY <1>b, <1>c
<1>d. ASSUME state'[p] = "Follower", currentTerm'[p] >= currentTerm[p] PROVE Moves
  BY <1>b, <1>d
<1>e. ASSUME UNCHANGED termVars PROVE Moves
  BY <1>c, <1>e
<1>f. ASSUME NEW n \in Node, NEW t, BecomeFollower(n, t), t >= currentTerm[n] PROVE Moves
  <2>1. CASE p = n
    BY <1>a, <1>d, <1>f, <2>1 DEF BecomeFollower
  <2>2. CASE p # n
    BY <1>a, <1>c, <1>f, <2>2 DEF BecomeFollower
  <2> QED
    BY <2>1, <2>2
<1> HIDE DEF Moves
<1>1. ASSUME NEW n \in Node, StartElection(n) PROVE Moves
  <2>1. CASE p = n
    <3>1. currentTerm'[p] = currentTerm[p] + 1 /\ state'[p] = "Candidate"
      BY <1>1, <1>a, <2>1 DEF StartElection
    <3> QED
      BY <1>b, <3>1 DEF Moves
  <2>2. CASE p # n
    BY <1>1, <1>a, <1>c, <2>2 DEF StartElection
  <2> QED
    BY <2>1, <2>2
<1>2. ASSUME NEW c \in voteCalls, RequestVote(c) PROVE Moves
  BY <1>2, <1>e DEF RequestVote
<1>3. ASSUME NEW r \in voteReqs, HandleRequestVote(r) PROVE Moves
  <2>1. r.to \in Node /\ r.term \in Nat
    <3>1. r \in VoteRequest
      BY DEF TypeInv, TypeOK
    <3> QED
      BY <3>1, RaftConstants DEF VoteRequest, Term
  <2>2. CASE p = r.to
    <3>1. CASE r.term > currentTerm[p]
      <4>1. state'[p] = "Follower" /\ currentTerm'[p] = r.term
        BY <1>3, <1>a, <2>1, <2>2, <3>1 DEF HandleRequestVote
      <4> QED
        BY <1>b, <1>d, <2>1, <3>1, <4>1
    <3>2. CASE ~(r.term > currentTerm[p])
      <4>1. state'[p] = state[p] /\ currentTerm'[p] = currentTerm[p]
        BY <1>3, <1>a, <2>1, <2>2, <3>2 DEF HandleRequestVote
      <4> QED
        BY <1>c, <4>1
    <3> QED
      BY <3>1, <3>2
  <2>3. CASE p # r.to
    BY <1>3, <1>a, <1>c, <2>1, <2>3 DEF HandleRequestVote
  <2> QED
    BY <2>2, <2>3
<1>4. ASSUME NEW r \in voteResps, CountVote(r) PROVE Moves
  <2>1. r.from \in Node /\ r.term \in Nat
    <3>1. r \in VoteResponse
      BY DEF TypeInv, TypeOK
    <3> QED
      BY <3>1, RaftConstants DEF VoteResponse, Term
  <2>2. CASE UNCHANGED termVars
    BY <1>e, <2>2
  <2>3. CASE r.term > currentTerm[r.from] /\ BecomeFollower(r.from, r.term)
    <3>1. currentTerm[r.from] \in Nat
      BY <2>1, <1>a, RaftConstants DEF Term
    <3>2. r.term >= currentTerm[r.from]
      BY <2>1, <2>3, <3>1
    <3> QED
      BY <1>f, <2>1, <2>3, <3>2, Zenon
  <2>4. CASE BecomeLeader(r.from) /\ UNCHANGED currentTerm
    <3>1. CASE p = r.from
      <4>1. /\ currentTerm'[p] = currentTerm[p] /\ state'[p] = "Leader"
            /\ <<currentTerm[p], p>> \in elected'
        BY <1>a, <2>1, <2>4, <3>1 DEF BecomeLeader
      <4> QED
        BY <1>b, <4>1 DEF Moves
    <3>2. CASE p # r.from
      BY <1>a, <1>c, <2>1, <2>4, <3>2 DEF BecomeLeader
    <3> QED
      BY <3>1, <3>2
  <2> QED
    BY <1>4, <2>2, <2>3, <2>4, Zenon DEF CountVote
<1>5. ASSUME NEW n \in Node, NEW c \in Command, Propose(n, c) PROVE Moves
  BY <1>5, <1>e DEF Propose
<1>6. ASSUME NEW n \in Node, NEW q \in Peers[n], SendAppendEntries(n, q) PROVE Moves
  BY <1>6, <1>e DEF SendAppendEntries
<1>7. ASSUME NEW r \in appendReqs, HandleAppendEntries(r) PROVE Moves
  <2>1. r.to \in Node
    BY DEF TypeInv, TypeOK, AppendRequest
  <2> QED
    BY <1>7, <1>e, <1>f, <2>1, Zenon DEF HandleAppendEntries
<1>8. ASSUME NEW r \in appendResps, HandleAppendResponse(r) PROVE Moves
  <2>1. r.from \in Node /\ r.term \in Nat /\ currentTerm[r.from] \in Nat
    <3>1. r \in AppendResponse
      BY DEF TypeInv, TypeOK
    <3> QED
      BY <3>1, <1>a, RaftConstants DEF AppendResponse, Term
  <2>2. CASE r.term > currentTerm[r.from] /\ BecomeFollower(r.from, r.term)
    BY <1>f, <2>1, <2>2
  <2> QED
    BY <1>8, <1>e, <2>2 DEF HandleAppendResponse
<1>9. ASSUME NEW n \in Node, TakeApplied(n) PROVE Moves
  BY <1>9, <1>e DEF TakeApplied
<1>10. Moves
  BY <1>1, <1>2, <1>3, <1>4, <1>5, <1>6, <1>7, <1>8, <1>9 DEF Next
<1> QED
  BY <1>10 DEF Moves

\* becomeLeader runs in one place, for a candidate whose log stays as it is.
LEMMA WinStep ==
    ASSUME TypeInv, Next
    PROVE  /\ elected \subseteq elected'
           /\ \A e \in elected' \ elected :
                 /\ e[2] \in Node
                 /\ e[1] = currentTerm'[e[2]]
                 /\ state'[e[2]] = "Leader"
<1> USE DEF leaderVars
<1>a. state \in [Node -> {"Follower", "Candidate", "Leader"}]
  BY DEF TypeInv, TypeOK
<1>1. UNCHANGED elected \/ \E r \in voteResps : CountVote(r) /\ BecomeLeader(r.from)
  <2>1. ASSUME NEW n \in Node, StartElection(n) PROVE UNCHANGED elected
    BY <2>1 DEF StartElection
  <2>2. ASSUME NEW c \in voteCalls, RequestVote(c) PROVE UNCHANGED elected
    BY <2>2 DEF RequestVote
  <2>3. ASSUME NEW r \in voteReqs, HandleRequestVote(r) PROVE UNCHANGED elected
    BY <2>3 DEF HandleRequestVote
  <2>4. ASSUME NEW r \in voteResps, CountVote(r)
        PROVE  UNCHANGED elected \/ BecomeLeader(r.from)
    BY <2>4, Zenon DEF CountVote
  <2>5. ASSUME NEW n \in Node, NEW c \in Command, Propose(n, c) PROVE UNCHANGED elected
    BY <2>5 DEF Propose
  <2>6. ASSUME NEW n \in Node, NEW p \in Peers[n], SendAppendEntries(n, p)
        PROVE  UNCHANGED elected
    BY <2>6 DEF SendAppendEntries
  <2>7. ASSUME NEW r \in appendReqs, HandleAppendEntries(r) PROVE UNCHANGED elected
    BY <2>7 DEF HandleAppendEntries
  <2>8. ASSUME NEW r \in appendResps, HandleAppendResponse(r) PROVE UNCHANGED elected
    BY <2>8, Zenon DEF HandleAppendResponse
  <2>9. ASSUME NEW n \in Node, TakeApplied(n) PROVE UNCHANGED elected
    BY <2>9 DEF TakeApplied
  <2> QED
    BY <2>1, <2>2, <2>3, <2>4, <2>5, <2>6, <2>7, <2>8, <2>9 DEF Next
<1>2. ASSUME NEW r \in voteResps, CountVote(r), BecomeLeader(r.from)
      PROVE  /\ elected \subseteq elected'
             /\ \A e \in elected' \ elected :
                   /\ e[2] \in Node
                   /\ e[1] = currentTerm'[e[2]]
                   /\ state'[e[2]] = "Leader"
  <2>1. r.from \in Node
    BY DEF TypeInv, TypeOK, VoteResponse
  <2>2. state'[r.from] = "Leader"
    BY <1>2, <1>a, <2>1 DEF BecomeLeader
  <2>3. elected' = elected \union {<<currentTerm[r.from], r.from>>}
    BY <1>2 DEF BecomeLeader
  <2>4. currentTerm' = currentTerm
    <3>1. ~BecomeFollower(r.from, r.term)
      BY <2>1, <2>2, <1>a DEF BecomeFollower
    <3> QED
      BY <1>2, <3>1 DEF CountVote, termVars
  <2> QED
    BY <2>1, <2>2, <2>3, <2>4
<1> QED
  BY <1>1, <1>2

\* A step only adds to the log of n.
Grows(n) ==
    /\ Len(log[n]) <= Len(log'[n])
    /\ \A i \in 1 .. Len(log[n]) : log'[n][i] = log[n][i]

\* HandleAppendEntries got past its checks.
Accepts(r) ==
    /\ r.term >= currentTerm[r.to]
    /\ MatchesPrev(log[r.to], r)
    /\ BecomeFollower(r.to, r.term)
    /\ log' = [log EXCEPT ![r.to] = MergeEntries(log[r.to], r.prevLogIndex, r.entries)]

\* A request that is accepted is of the follower's own term, and leaves it with a
\* prefix of a log that was there before: its own, or the sender's.
LEMMA AcceptedLog ==
    ASSUME LogInv, NEW r \in appendReqs, Accepts(r)
    PROVE  /\ r.from \in Node /\ r.to \in Node /\ r.term \in Term
           /\ r.term = currentTerm[r.to]
           /\ \A m \in Node \ {r.to} : log'[m] = log[m]
           /\ Grows(r.to)
           /\ r.prevLogIndex + Len(r.entries) <= Len(log'[r.to])
           /\ \E m \in Node :
                 /\ Len(log'[r.to]) <= Len(log[m])
                 /\ \A i \in 1 .. Len(log'[r.to]) : log'[r.to][i] = log[m][i]
<1> DEFINE merged == MergeEntries(log[r.to], r.prevLogIndex, r.entries)
<1>1. /\ r.from \in Node /\ r.to \in Node /\ r.term \in Term
      /\ r.prevLogIndex \in Nat /\ r.entries \in Seq(Entry)
  BY Zenon DEF AppendRequest, LogInv, TypeInv, TypeOK
<1>2. log \in [Node -> Seq(Entry)] /\ currentTerm \in [Node -> Term]
  BY DEF LogInv, TypeInv, TypeOK
<1>3. log[r.to] \in Seq(Entry) /\ log[r.from] \in Seq(Entry)
  BY <1>1, <1>2
<1>4. Len(log[r.to]) \in Nat /\ Len(log[r.from]) \in Nat /\ Len(r.entries) \in Nat
  BY <1>1, <1>3, LenProperties
<1>5. /\ <<r.term, r.from>> \in elected
      /\ r.prevLogIndex + Len(r.entries) <= Len(log[r.from])
      /\ \A i \in 1 .. Len(r.entries) : r.entries[i] = log[r.from][r.prevLogIndex + i]
  BY DEF LogInv, ReplicationInv, RequestsCopied
<1>6. r.term = currentTerm[r.to]
  <2>1. \A m \in Node : <<r.term, r.from>>[1] <= currentTerm[m]
    BY <1>5 DEF LogInv, LogsInv, ElectedBehind
  <2>2. r.term <= currentTerm[r.to]
    BY <1>1, <2>1
  <2>3. r.term \in Nat /\ currentTerm[r.to] \in Nat
    BY <1>1, <1>2, RaftConstants DEF Term
  <2> QED
    BY <2>2, <2>3 DEF Accepts
<1>7. r.prevLogIndex <= Len(log[r.to])
  BY <1>1, <1>4 DEF Accepts, MatchesPrev
<1>8. \A i \in 1 .. Len(log[r.to]) :
        i <= Len(log[r.from]) => log[r.to][i] = log[r.from][i]
  BY <1>1 DEF LogInv, LogsInv, LogsAgree
<1>9. /\ merged \in Seq(Entry)
      /\ Len(log[r.to]) <= Len(merged)
      /\ r.prevLogIndex + Len(r.entries) <= Len(merged)
      /\ Len(merged) <= Len(log[r.to]) \/ Len(merged) <= Len(log[r.from])
      /\ \A i \in 1 .. Len(log[r.to]) : merged[i] = log[r.to][i]
      /\ \A i \in 1 .. Len(merged) : i > Len(log[r.to]) => merged[i] = log[r.from][i]
  <2> DEFINE xlog == log[r.to]
             ylog == log[r.from]
             entries == r.entries
             prev == r.prevLogIndex
  <2>1. /\ xlog \in Seq(Entry) /\ ylog \in Seq(Entry) /\ entries \in Seq(Entry)
        /\ prev \in Nat /\ prev <= Len(xlog)
        /\ prev + Len(entries) <= Len(ylog)
        /\ \A i \in 1 .. Len(entries) : entries[i] = ylog[prev + i]
        /\ \A i \in 1 .. Len(xlog) : i <= Len(ylog) => xlog[i] = ylog[i]
    BY <1>1, <1>3, <1>5, <1>7, <1>8
  <2>2. merged = MergeEntries(xlog, prev, entries)
    OBVIOUS
  <2> HIDE DEF xlog, ylog, entries, prev, merged
  <2>3. /\ merged \in Seq(Entry)
        /\ Len(xlog) <= Len(merged)
        /\ prev + Len(entries) <= Len(merged)
        /\ Len(merged) <= Len(xlog) \/ Len(merged) <= Len(ylog)
        /\ \A i \in 1 .. Len(xlog) : merged[i] = xlog[i]
        /\ \A i \in 1 .. Len(merged) : i > Len(xlog) => merged[i] = ylog[i]
    BY <2>1, <2>2, MergeExtends, SMTT(30)
  <2> QED
    BY <2>3 DEF xlog, ylog, entries, prev
<1>10. log'[r.to] = merged /\ \A m \in Node \ {r.to} : log'[m] = log[m]
  BY <1>1, <1>2 DEF Accepts
<1> HIDE DEF merged
<1>11. Grows(r.to)
  BY <1>9, <1>10 DEF Grows
<1>12. Len(merged) \in Nat
  BY <1>9, LenProperties
<1>13. \E m \in Node : /\ Len(merged) <= Len(log[m])
                       /\ \A i \in 1 .. Len(merged) : merged[i] = log[m][i]
  <2>1. CASE Len(merged) <= Len(log[r.to])
    BY <1>1, <1>4, <1>9, <1>12, <2>1
  <2>2. CASE Len(merged) <= Len(log[r.from])
    <3>1. ASSUME NEW i \in 1 .. Len(merged) PROVE merged[i] = log[r.from][i]
      BY <1>4, <1>8, <1>9, <1>12, <2>2
    <3> QED
      BY <1>1, <2>2, <3>1
  <2> QED
    BY <1>9, <2>1, <2>2
<1> QED
  BY <1>1, <1>6, <1>9, <1>10, <1>11, <1>13

\* Only Propose and HandleAppendEntries touch a log.
LEMMA LogChange ==
    ASSUME Next
    PROVE  \/ UNCHANGED log
           \/ \E n \in Node, c \in Command : Propose(n, c)
           \/ \E r \in appendReqs : HandleAppendEntries(r) /\ Accepts(r)
<1>1. ASSUME NEW n \in Node, StartElection(n) PROVE UNCHANGED log
  BY <1>1 DEF StartElection
<1>2. ASSUME NEW c \in voteCalls, RequestVote(c) PROVE UNCHANGED log
  BY <1>2 DEF RequestVote
<1>3. ASSUME NEW r \in voteReqs, HandleRequestVote(r) PROVE UNCHANGED log
  BY <1>3 DEF HandleRequestVote
<1>4. ASSUME NEW r \in voteResps, CountVote(r) PROVE UNCHANGED log
  BY <1>4 DEF CountVote
<1>5. ASSUME NEW n \in Node, NEW p \in Peers[n], SendAppendEntries(n, p)
      PROVE  UNCHANGED log
  BY <1>5 DEF SendAppendEntries
<1>6. ASSUME NEW r \in appendReqs, HandleAppendEntries(r)
      PROVE  UNCHANGED log \/ Accepts(r)
  BY <1>6, Zenon DEF HandleAppendEntries, Accepts
<1>7. ASSUME NEW r \in appendResps, HandleAppendResponse(r) PROVE UNCHANGED log
  BY <1>7 DEF HandleAppendResponse
<1>8. ASSUME NEW n \in Node, TakeApplied(n) PROVE UNCHANGED log
  BY <1>8 DEF TakeApplied
<1> QED
  BY <1>1, <1>2, <1>3, <1>4, <1>5, <1>6, <1>7, <1>8 DEF Next

\* No step shortens or rewrites a log.
LEMMA LogsGrow ==
    ASSUME LogInv, Next, NEW n \in Node
    PROVE  Grows(n)
<1>1. log \in [Node -> Seq(Entry)]
  BY DEF LogInv, TypeInv, TypeOK
<1>2. Len(log[n]) \in Nat
  BY <1>1, LenProperties
<1>3. CASE log'[n] = log[n]
  BY <1>2, <1>3 DEF Grows
<1>4. ASSUME NEW m \in Node, NEW c \in Command, Propose(m, c) PROVE Grows(n)
  <2>1. CASE n = m
    <3> DEFINE e == [term |-> currentTerm[n], command |-> c]
    <3>1. log'[n] = Append(log[n], e)
      BY <1>1, <1>4, <2>1 DEF Propose
    <3>2. e \in Entry
      BY DEF LogInv, TypeInv, TypeOK, Entry
    <3>3. /\ Len(log'[n]) = Len(log[n]) + 1
          /\ \A i \in 1 .. Len(log[n]) : log'[n][i] = log[n][i]
      BY <1>1, <1>2, <3>1, <3>2, AppendProperties
    <3> QED
      BY <1>2, <3>3 DEF Grows
  <2>2. CASE n # m
    BY <1>1, <1>3, <1>4, <2>2 DEF Propose
  <2> QED
    BY <2>1, <2>2
<1>5. ASSUME NEW r \in appendReqs, Accepts(r) PROVE Grows(n)
  <2>1. Grows(r.to) /\ \A m \in Node \ {r.to} : log'[m] = log[m]
    BY <1>5, AcceptedLog
  <2> QED
    BY <1>3, <2>1
<1> QED
  BY <1>3, <1>4, <1>5, LogChange

\* Two nodes never lead at the same time, not even in different terms.
LEMMA OneLeader ==
    ASSUME LogInv, NEW n \in Node, NEW m \in Node,
           state[n] = "Leader", state[m] = "Leader"
    PROVE  n = m
<1>1. <<currentTerm[n], n>> \in elected /\ <<currentTerm[m], m>> \in elected
  BY DEF LogInv, LogsInv, LeadersElected
<1>2. currentTerm[n] \in Nat /\ currentTerm[m] \in Nat
  BY RaftConstants DEF LogInv, TypeInv, TypeOK, Term
<1>3. /\ <<currentTerm[n], n>>[1] <= currentTerm[m]
      /\ <<currentTerm[m], m>>[1] <= currentTerm[n]
  BY <1>1 DEF LogInv, LogsInv, ElectedBehind
<1>4. currentTerm[n] = currentTerm[m]
  BY <1>2, <1>3
<1>5. <<currentTerm[n], n>>[2] = <<currentTerm[m], m>>[2]
  <2>1. <<currentTerm[n], n>>[1] = <<currentTerm[m], m>>[1]
    BY <1>4
  <2> QED
    BY <1>1, <2>1 DEF LogInv, ElectionInv, ElectionSafety
<1> QED
  BY <1>5

=============================================================================
