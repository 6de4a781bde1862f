----------------------- MODULE RaftReplicationProofs ------------------------
(***************************************************************************)
(* Theorems about replication by the consensus node of node/raft/node.go,  *)
(* in clusters of at most three nodes: the invariant of RaftProofs is      *)
(* inductive, and what follows from it. The last part is state machine     *)
(* safety: what applyCommitted queues on applyCh are entries of the log in *)
(* order of their index, some left out when the channel is full, and the   *)
(* logs agree on them.                                                     *)
(***************************************************************************)
EXTENDS RaftProofs

-----------------------------------------------------------------------------
(* Votes.                                                                  *)

\* isLogUpToDate grants a vote only to a log at least as long as the voter's.
LEMMA UpToDateIsLonger ==
    ASSUME LogInv, NEW n \in Node, NEW m \in Node,
           IsLogUpToDate(log[m], Len(log[n]), LastLogTerm(log[n]))
    PROVE  Len(log[m]) <= Len(log[n])
<1>1. log[n] \in Seq(Entry) /\ log[m] \in Seq(Entry)
  BY DEF LogInv, TypeInv, TypeOK
<1>2. /\ Len(log[n]) \in Nat /\ Len(log[m]) \in Nat
      /\ log[n] # << >> => Len(log[n]) >= 1
      /\ log[m] # << >> => Len(log[m]) >= 1
  BY <1>1, EmptySeq, LenProperties
<1> SUFFICES ASSUME Len(log[m]) > Len(log[n]) PROVE FALSE
  BY <1>2
<1>3. LastLogTerm(log[n]) > LastLogTerm(log[m])
  BY <1>2 DEF IsLogUpToDate
<1>4. LastLogTerm(log[n]) \in Nat /\ LastLogTerm(log[m]) \in Nat
  BY <1>1, LastLogType, RaftConstants DEF Term
<1>5. log[n] # << >>
  BY <1>3, <1>4 DEF LastLogTerm
<1>6. Len(log[n]) \in 1 .. Len(log[n]) /\ Len(log[n]) \in 1 .. Len(log[m])
  BY <1>2, <1>5
<1>7. log[n][Len(log[n])] = log[m][Len(log[n])]
  BY <1>2, <1>6 DEF LogInv, LogsInv, LogsAgree
<1>8. log[m][Len(log[n])].term <= log[m][Len(log[m])].term
  <2>1. Len(log[m]) \in 1 .. Len(log[m])
    BY <1>2
  <2> QED
    BY <1>6, <2>1 DEF LogInv, LogsInv, TermsOrdered
<1>9. log[m] # << >>
  BY <1>2, EmptySeq
<1> QED
  BY <1>3, <1>4, <1>5, <1>7, <1>8, <1>9 DEF LastLogTerm

\* While a node stands for election its log stays as it is.
LEMMA StandingStep ==
    ASSUME LogInv, Next, NEW n \in Node, NEW t \in Term,
           t <= currentTerm[n], Standing(n, t)'
    PROVE  Standing(n, t) /\ log'[n] = log[n]
<1>1. /\ state \in [Node -> {"Follower", "Candidate", "Leader"}]
      /\ currentTerm \in [Node -> Term] /\ log \in [Node -> Seq(Entry)]
  BY DEF LogInv, TypeInv, TypeOK
<1>2. state'[n] = "Candidate" /\ currentTerm'[n] = t
  BY DEF Standing
<1>3. currentTerm[n] \in Nat /\ t \in Nat
  BY <1>1, RaftConstants DEF Term
<1>4. state[n] = "Candidate" /\ currentTerm[n] = t
  <2>1. TypeInv
    BY DEF LogInv
  <2>2. \/ state[n] = "Candidate" /\ currentTerm'[n] = currentTerm[n]
        \/ currentTerm[n] < currentTerm'[n]
    BY <1>2, <2>1, TermStep, ZenonT(60)
  <2> QED
    BY <1>2, <1>3, <2>2
<1>5. ASSUME NEW m \in Node, NEW c \in Command, Propose(m, c) PROVE log'[n] = log[n]
  BY <1>1, <1>4, <1>5 DEF Propose
<1>6. ASSUME NEW r \in appendReqs, Accepts(r) PROVE log'[n] = log[n]
  <2>1. r.to \in Node /\ \A m \in Node \ {r.to} : log'[m] = log[m]
    BY <1>6, AcceptedLog
  <2>2. r.to # n
    BY <1>1, <1>2, <1>6 DEF Accepts, BecomeFollower
  <2> QED
    BY <2>1, <2>2
<1> QED
  BY <1>4, <1>5, <1>6, LogChange DEF Standing

\* A voter's log stays as it is while the node it voted for stands for election:
\* whoever could extend it was elected in a term that this node has not reached.
LEMMA VoterStep ==
    ASSUME LogInv, Next, NEW n \in Node, NEW p \in Node, NEW t \in Term,
           Standing(n, t), Past(p, t)
    PROVE  log'[p] = log[p]
<1>1. currentTerm \in [Node -> Term] /\ log \in [Node -> Seq(Entry)]
  BY Zenon DEF LogInv, TypeInv, TypeOK
<1>2. t \in Nat /\ currentTerm[n] = t /\ currentTerm[p] \in Nat /\ currentTerm[p] >= t
  BY <1>1, RaftConstants DEF Term, Standing, Past
<1>3. ASSUME NEW e \in elected PROVE e[1] < t
  BY <1>2, <1>3 DEF LogInv, LogsInv, ElectedBehind, Standing
<1>4. ASSUME NEW q, <<currentTerm[p], q>> \in elected PROVE FALSE
  <2>1. <<currentTerm[p], q>>[1] < t
    BY <1>3, <1>4
  <2> QED
    BY <1>2, <2>1
<1>5. ASSUME NEW m \in Node, NEW c \in Command, Propose(m, c) PROVE log'[p] = log[p]
  <2>1. m # p
    BY <1>4, <1>5, Zenon DEF Propose, LogInv, LogsInv, LeadersElected
  <2> QED
    BY <1>1, <1>5, <2>1 DEF Propose
<1>6. ASSUME NEW r \in appendReqs, Accepts(r) PROVE log'[p] = log[p]
  <2>1. /\ r.to \in Node /\ r.term = currentTerm[r.to]
        /\ \A m \in Node \ {r.to} : log'[m] = log[m]
    BY <1>6, AcceptedLog
  <2>2. <<r.term, r.from>> \in elected
    BY DEF LogInv, ReplicationInv, RequestsCopied
  <2>3. r.to # p
    BY <1>4, <2>1, <2>2
  <2> QED
    BY <2>1, <2>3
<1> QED
  BY <1>5, <1>6, LogChange

\* A step keeps what votes in flight and votes counted say about logs.
LEMMA VotesInvStep ==
    ASSUME SmallCluster, LogInv, Next
    PROVE  VotesInv'
<1>a. TypeInv /\ ElectionInv /\ ReqLogs /\ RespLogs /\ TallyLogs
  BY DEF LogInv, VotesInv
<1>b. /\ \A c \in voteCalls : c.from \in Node
      /\ \A r \in voteReqs : r.from \in Node /\ r.to \in Node /\ r.term \in Term
      /\ \A r \in voteResps : r.from \in Node /\ r.to \in Node /\ r.reqTerm \in Term
  BY <1>a, Zenon DEF TypeInv, TypeOK, VoteCall, VoteRequest, VoteResponse
<1>c. /\ currentTerm \in [Node -> Term] /\ votesReceived \in [Node -> [Term -> SUBSET Node]]
      /\ state \in [Node -> {"Follower", "Candidate", "Leader"}]
      /\ log \in [Node -> Seq(Entry)]
  BY <1>a DEF TypeInv, TypeOK
<1>d. \A n \in Node : \A t \in Term :
        t <= currentTerm[n] => t <= currentTerm'[n]
  <2> SUFFICES ASSUME NEW n \in Node, NEW t \in Term, t <= currentTerm[n]
               PROVE  t <= currentTerm'[n]
    OBVIOUS
  <2>1. currentTerm[n] <= currentTerm'[n]
    BY <1>a, TermStep, Zenon
  <2>2. currentTerm'[n] \in Term
    BY <1>a, TypeInvStep, Zenon DEF TypeInv, TypeOK
  <2> QED
    BY <1>c, <2>1, <2>2, RaftConstants DEF Term
<1>e. \A n \in Node : \A t \in Term :
        t <= currentTerm[n] /\ Standing(n, t)' => Standing(n, t) /\ log'[n] = log[n]
  BY StandingStep
<1>f. \A n, p \in Node : \A t \in Term :
        Standing(n, t) /\ Past(p, t) => log'[p] = log[p]
  BY VoterStep
<1>g. ASSUME NEW r \in voteReqs
      PROVE  /\ r.term <= currentTerm'[r.from]
             /\ Standing(r.from, r.term)' =>
                   /\ r.lastLogIndex = Len(log'[r.from])
                   /\ r.lastLogTerm = LastLogTerm(log'[r.from])
  <2>1. r.from \in Node /\ r.term \in Term /\ r.term <= currentTerm[r.from]
    BY <1>a, <1>b DEF ReqLogs
  <2>2. r.term <= currentTerm'[r.from]
    BY <1>d, <2>1
  <2>3. ASSUME Standing(r.from, r.term)'
        PROVE  /\ r.lastLogIndex = Len(log'[r.from])
               /\ r.lastLogTerm = LastLogTerm(log'[r.from])
    <3>1. Standing(r.from, r.term) /\ log'[r.from] = log[r.from]
      BY <1>e, <2>1, <2>3
    <3> QED
      BY <1>a, <3>1 DEF ReqLogs
  <2> QED
    BY <2>2, <2>3
<1>h. ASSUME NEW r \in voteResps
      PROVE  /\ r.reqTerm <= currentTerm'[r.from]
             /\ r.granted /\ Standing(r.from, r.reqTerm)' =>
                   Len(log'[r.to]) <= Len(log'[r.from])
  <2>1. /\ r.from \in Node /\ r.to \in Node /\ r.reqTerm \in Term
        /\ r.reqTerm <= currentTerm[r.from]
    BY <1>a, <1>b DEF RespLogs
  <2>2. r.reqTerm <= currentTerm'[r.from]
    BY <1>d, <2>1
  <2>3. ASSUME r.granted, Standing(r.from, r.reqTerm)'
        PROVE  Len(log'[r.to]) <= Len(log'[r.from])
    <3>1. Standing(r.from, r.reqTerm) /\ log'[r.from] = log[r.from]
      BY <1>e, <2>1, <2>3
    <3>2. Past(r.to, r.reqTerm)
      BY <1>a, <2>3 DEF ElectionInv, RespsCurrent
    <3>3. log'[r.to] = log[r.to]
      BY <1>f, <2>1, <3>1, <3>2
    <3>4. Len(log[r.to]) <= Len(log[r.from])
      BY <1>a, <2>3, <3>1 DEF RespLogs
    <3> QED
      BY <3>1, <3>3, <3>4
  <2> QED
    BY <2>2, <2>3
<1>i. ASSUME NEW n \in Node, NEW e \in Term, NEW p \in votesReceived[n][e]
      PROVE  /\ e <= currentTerm'[n]
             /\ Standing(n, e)' => Len(log'[p]) <= Len(log'[n])
  <2>1. p \in Node /\ e <= currentTerm[n] /\ Past(p, e)
    BY <1>a, <1>c DEF TallyLogs, ElectionInv, TalliesPast
  <2>2. e <= currentTerm'[n]
    BY <1>d, <2>1
  <2>3. ASSUME Standing(n, e)' PROVE Len(log'[p]) <= Len(log'[n])
    <3>1. Standing(n, e) /\ log'[n] = log[n]
      BY <1>e, <2>1, <2>3
    <3>2. log'[p] = log[p]
      BY <1>f, <2>1, <3>1
    <3>3. Len(log[p]) <= Len(log[n])
      BY <1>a, <3>1 DEF TallyLogs
    <3> QED
      BY <3>1, <3>2, <3>3
  <2> QED
    BY <2>2, <2>3
<1>j. ASSUME voteReqs' \subseteq voteReqs PROVE ReqLogs'
  BY <1>g, <1>j DEF ReqLogs, Standing
<1>k. ASSUME voteResps' \subseteq voteResps PROVE RespLogs'
  BY <1>h, <1>k DEF RespLogs, Standing
<1>l. ASSUME UNCHANGED votesReceived PROVE TallyLogs'
  BY <1>i, <1>l DEF TallyLogs, Standing
<1> USE DEF voteVars
<1>1. ASSUME NEW n \in Node, StartElection(n) PROVE VotesInv'
  BY <1>1, <1>j, <1>k, <1>l, SMTT(30) DEF StartElection, VotesInv
<1>2. ASSUME NEW c \in voteCalls, RequestVote(c) PROVE VotesInv'
  <2> DEFINE req == [from |-> c.from, to |-> c.to, election |-> c.election,
                     term |-> currentTerm[c.from],
                     lastLogIndex |-> Len(log[c.from]),
                     lastLogTerm |-> LastLogTerm(log[c.from])]
  <2>1. /\ voteReqs' = voteReqs \union {req}
        /\ UNCHANGED <<state, currentTerm, log, voteResps, votesReceived>>
    BY <1>2 DEF RequestVote, termVars
  <2>2. currentTerm[c.from] \in Nat
    BY <1>b, <1>c, RaftConstants, SMTT(30) DEF Term
  <2>3. /\ req.from = c.from /\ req.term = currentTerm[c.from]
        /\ req.lastLogIndex = Len(log[c.from])
        /\ req.lastLogTerm = LastLogTerm(log[c.from])
    OBVIOUS
  <2> HIDE DEF req
  <2>4. ReqLogs'
    <3> SUFFICES ASSUME NEW r \in voteReqs'
                 PROVE  /\ r.term <= currentTerm'[r.from]
                        /\ Standing(r.from, r.term)' =>
                              /\ r.lastLogIndex = Len(log'[r.from])
                              /\ r.lastLogTerm = LastLogTerm(log'[r.from])
      BY DEF ReqLogs, Standing
    <3>1. CASE r \in voteReqs
      BY <1>g, <3>1
    <3>2. CASE r = req
      BY <2>1, <2>2, <2>3, <3>2, SMTT(30)
    <3> QED
      BY <2>1, <3>1, <3>2, SMTT(30)
  <2> QED
    BY <2>1, <2>4, <1>k, <1>l, SMTT(30) DEF VotesInv
<1>3. ASSUME NEW r \in voteReqs, HandleRequestVote(r) PROVE VotesInv'
  <2>1. PICK t, g :
          /\ voteResps' = voteResps \union
               {[from |-> r.from, to |-> r.to, election |-> r.election,
                 reqTerm |-> r.term, term |-> t, granted |-> g]}
          /\ g => IsLogUpToDate(log[r.to], r.lastLogIndex, r.lastLogTerm)
    BY <1>3, Zenon DEF HandleRequestVote
  <2>2. voteReqs' \subseteq voteReqs /\ UNCHANGED <<log, votesReceived>>
    BY <1>3 DEF HandleRequestVote
  <2> DEFINE resp == [from |-> r.from, to |-> r.to, election |-> r.election,
                      reqTerm |-> r.term, term |-> t, granted |-> g]
  <2>3. /\ resp.from = r.from /\ resp.to = r.to /\ resp.reqTerm = r.term
        /\ resp.granted = g
    OBVIOUS
  <2>4. voteResps' = voteResps \union {resp}
    BY <2>1
  <2> HIDE DEF resp
  <2>5. /\ r.from \in Node /\ r.to \in Node /\ r.term \in Term
        /\ r.term <= currentTerm[r.from]
    BY <1>a, <1>b DEF ReqLogs
  <2>6. ASSUME g, Standing(r.from, r.term)' PROVE Len(log'[r.to]) <= Len(log'[r.from])
    <3>1. Standing(r.from, r.term)
      BY <1>e, <2>5, <2>6, SMTT(30)
    <3>2. /\ r.lastLogIndex = Len(log[r.from])
          /\ r.lastLogTerm = LastLogTerm(log[r.from])
      BY <1>a, <3>1, SMTT(30) DEF ReqLogs
    <3>3. Len(log[r.to]) <= Len(log[r.from])
      BY <2>1, <2>5, <2>6, <3>2, UpToDateIsLonger, SMTT(30)
    <3> QED
      BY <2>2, <3>3
  <2>7. RespLogs'
    <3> SUFFICES ASSUME NEW q \in voteResps'
                 PROVE  /\ q.reqTerm <= currentTerm'[q.from]
                        /\ q.granted /\ Standing(q.from, q.reqTerm)' =>
                              Len(log'[q.to]) <= Len(log'[q.from])
      BY DEF RespLogs, Standing
    <3>1. CASE q \in voteResps
      BY <1>h, <3>1
    <3>2. CASE q = resp
      <4>1. q.reqTerm <= currentTerm'[q.from]
        BY <1>d, <2>3, <2>5, <3>2, SMTT(30)
      <4>2. ASSUME q.granted, Standing(q.from, q.reqTerm)'
            PROVE  Len(log'[q.to]) <= Len(log'[q.from])
        <5>1. g /\ Standing(r.from, r.term)'
          BY <2>3, <3>2, <4>2 DEF Standing
        <5> QED
          BY <2>3, <2>6, <3>2, <5>1, SMTT(30)
      <4> QED
        BY <4>1, <4>2
    <3> QED
      BY <2>4, <3>1, <3>2, SMTT(30)
  <2> QED
    BY <2>2, <2>7, <1>j, <1>l, SMTT(30) DEF VotesInv
<1>4. ASSUME NEW r \in voteResps, CountVote(r) PROVE VotesInv'
  <2>1. voteReqs' \subseteq voteReqs /\ voteResps' \subseteq voteResps /\ UNCHANGED log
    BY <1>4 DEF CountVote
  <2>2. CASE UNCHANGED votesReceived
    BY <1>j, <1>k, <1>l, <2>1, <2>2, SMTT(30) DEF VotesInv
  <2>3. CASE /\ state[r.from] = "Candidate" /\ currentTerm[r.from] = r.reqTerm /\ r.granted
             /\ votesReceived' = [votesReceived EXCEPT ![r.from][r.election] =
                                     votesReceived[r.from][r.election] \union {r.to}]
             /\ UNCHANGED currentTerm
    <3>1. r.from \in Node /\ r.reqTerm \in Term /\ r.election \in Term
      BY <1>a, SMTT(30) DEF TypeInv, TypeOK, VoteResponse
    <3>2. r.election = r.reqTerm
      BY <1>a, <2>3 DEF ElectionInv, RespsCurrent, Past
    <3>3. Len(log[r.to]) <= Len(log[r.from])
      BY <1>a, <2>3 DEF RespLogs, Standing
    <3>4. r.election <= currentTerm'[r.from]
      BY <1>c, <2>3, <3>1, <3>2, RaftConstants, SMTT(30) DEF Term
    <3>5. ASSUME NEW n \in Node, NEW e \in Term, NEW p \in votesReceived'[n][e]
          PROVE  /\ e <= currentTerm'[n]
                 /\ Standing(n, e)' => Len(log'[p]) <= Len(log'[n])
      <4>1. p \in votesReceived[n][e] \/ (n = r.from /\ e = r.election /\ p = r.to)
        BY <1>c, <2>3, <3>1
      <4> QED
        BY <1>i, <2>1, <3>3, <3>4, <4>1, SMTT(30)
    <3>6. TallyLogs'
      BY <3>5 DEF TallyLogs, Standing
    <3> QED
      BY <1>j, <1>k, <2>1, <3>6, SMTT(30) DEF VotesInv
  <2> QED
    BY <1>4, <2>2, <2>3, Zenon DEF CountVote
<1>5. ASSUME NEW n \in Node, NEW c \in Command, Propose(n, c) PROVE VotesInv'
  BY <1>5, <1>j, <1>k, <1>l, SMTT(30) DEF Propose, VotesInv
<1>6. ASSUME NEW n \in Node, NEW p \in Peers[n], SendAppendEntries(n, p) PROVE VotesInv'
  BY <1>6, <1>j, <1>k, <1>l, SMTT(30) DEF SendAppendEntries, VotesInv
<1>7. ASSUME NEW r \in appendReqs, HandleAppendEntries(r) PROVE VotesInv'
  BY <1>7, <1>j, <1>k, <1>l, SMTT(30) DEF HandleAppendEntries, VotesInv
<1>8. ASSUME NEW r \in appendResps, HandleAppendResponse(r) PROVE VotesInv'
  BY <1>8, <1>j, <1>k, <1>l DEF HandleAppendResponse, VotesInv
<1>9. ASSUME NEW n \in Node, TakeApplied(n) PROVE VotesInv'
  BY <1>9, <1>j, <1>k, <1>l DEF TakeApplied, VotesInv
<1> QED
  BY <1>1, <1>2, <1>3, <1>4, <1>5, <1>6, <1>7, <1>8, <1>9, SMTT(30) DEF Next

-----------------------------------------------------------------------------
(* Logs.                                                                   *)

\* A candidate that becomes leader has collected the votes of all, so that no
\* log is longer than its own.
LEMMA WinnerLongest ==
    ASSUME SmallCluster, LogInv, NEW r \in voteResps, CountVote(r),
           NEW n \in Node, state'[n] = "Leader", state[n] # "Leader"
    PROVE  \A m \in Node : Len(log[m]) <= Len(log[n])
<1> DEFINE votes == votesReceived[r.from][r.election] \union {r.to}
<1>a. TypeInv /\ ElectionInv /\ RespLogs /\ TallyLogs
  BY DEF LogInv, VotesInv
<1>b. /\ state \in [Node -> {"Follower", "Candidate", "Leader"}]
      /\ votesReceived \in [Node -> [Term -> SUBSET Node]]
      /\ log \in [Node -> Seq(Entry)]
  BY <1>a DEF TypeInv, TypeOK
<1>c. /\ r.from \in Node /\ r.to \in Node /\ r.election \in Term /\ r.reqTerm \in Term
      /\ r.to \in Peers[r.from]
  BY <1>a, Zenon DEF TypeInv, TypeOK, VoteResponse, ElectionInv, RespsCurrent
<1>1. /\ state[r.from] = "Candidate" /\ currentTerm[r.from] = r.reqTerm /\ r.granted
      /\ HasMajority(r.from, 1 + Cardinality(votes))
      /\ BecomeLeader(r.from)
  <2>1. ~UNCHANGED state
    OBVIOUS
  <2>2. ~BecomeFollower(r.from, r.term)
    BY <1>b, <1>c DEF BecomeFollower
  <2> QED
    BY <2>1, <2>2, Zenon DEF CountVote, termVars
<1>2. n = r.from
  BY <1>1, <1>b, <1>c DEF BecomeLeader
<1>3. r.election = r.reqTerm
  BY <1>1, <1>a DEF ElectionInv, RespsCurrent, Past
<1>4. votes \subseteq Peers[n]
  BY <1>2, <1>a, <1>c DEF ElectionInv, TalliesPast
<1>5. votes = Node \ {n}
  <2> HIDE DEF votes
  <2> QED
    BY <1>1, <1>2, <1>4, Unanimous, SMTT(30)
<1>6. ASSUME NEW m \in votes PROVE Len(log[m]) <= Len(log[n])
  <2>1. CASE m \in votesReceived[r.from][r.election]
    BY <1>1, <1>2, <1>3, <1>a, <1>c, <2>1, SMTT(30) DEF TallyLogs, Standing
  <2>2. CASE m = r.to
    BY <1>1, <1>2, <1>a, <2>2 DEF RespLogs, Standing
  <2> QED
    BY <1>6, <2>1, <2>2
<1>7. Len(log[n]) \in Nat
  BY <1>b, LenProperties
<1> QED
  BY <1>5, <1>6, <1>7

\* Only CountVote makes a leader.
LEMMA NewLeader ==
    ASSUME TypeInv, Next, NEW n \in Node, state'[n] = "Leader", state[n] # "Leader"
    PROVE  \E r \in voteResps : CountVote(r)
<1> USE DEF termVars
<1>a. state \in [Node -> {"Follower", "Candidate", "Leader"}]
  BY DEF TypeInv, TypeOK
<1>b. \A m \in Node : \A t : ~BecomeFollower(m, t)
  BY <1>a DEF BecomeFollower
<1>1. ASSUME NEW m \in Node, StartElection(m) PROVE FALSE
  BY <1>1, <1>a DEF StartElection
<1>2. ASSUME NEW c \in voteCalls, RequestVote(c) PROVE FALSE
  BY <1>2 DEF RequestVote
<1>3. ASSUME NEW r \in voteReqs, HandleRequestVote(r) PROVE FALSE
  <2>1. r.to \in Node
    BY DEF TypeInv, TypeOK, VoteRequest
  <2> QED
    BY <1>3, <1>a, <2>1 DEF HandleRequestVote
<1>4. ASSUME NEW m \in Node, NEW c \in Command, Propose(m, c) PROVE FALSE
  BY <1>4 DEF Propose
<1>5. ASSUME NEW m \in Node, NEW p \in Peers[m], SendAppendEntries(m, p) PROVE FALSE
  BY <1>5 DEF SendAppendEntries
<1>6. ASSUME NEW r \in appendReqs, HandleAppendEntries(r) PROVE FALSE
  <2>1. r.to \in Node
    BY DEF TypeInv, TypeOK, AppendRequest
  <2> QED
    BY <1>6, <1>b, <2>1, Zenon DEF HandleAppendEntries
<1>7. ASSUME NEW r \in appendResps, HandleAppendResponse(r) PROVE FALSE
  <2>1. r.from \in Node
    BY DEF TypeInv, TypeOK, AppendResponse
  <2> QED
    BY <1>7, <1>b, <2>1, Zenon DEF HandleAppendResponse
<1>8. ASSUME NEW m \in Node, TakeApplied(m) PROVE FALSE
  BY <1>8 DEF TakeApplied
<1> QED
  BY <1>1, <1>2, <1>3, <1>4, <1>5, <1>6, <1>7, <1>8, SMTT(30) DEF Next

\* A step keeps every log a prefix of the leader's.
LEMMA LogsInvStep ==
    ASSUME SmallCluster, ~LateReads, LogInv, Next
    PROVE  LogsInv'
<1>a. TypeInv /\ ElectionInv /\ TypeInv' /\ ElectionInv'
  BY TypeInvStep, ElectionInvStep DEF LogInv
<1>b. /\ ElectedBehind /\ LeadersElected /\ LogsAgree /\ LeaderLongest
      /\ TermsOrdered /\ TermsPast
  BY DEF LogInv, LogsInv
<1>c. /\ currentTerm \in [Node -> Term] /\ currentTerm' \in [Node -> Term]
      /\ log \in [Node -> Seq(Entry)] /\ log' \in [Node -> Seq(Entry)]
      /\ elected \subseteq Term \X Node /\ elected' \subseteq Term \X Node
      /\ state \in [Node -> {"Follower", "Candidate", "Leader"}]
  BY <1>a, Zenon DEF TypeInv, TypeOK
<1>d. \A n \in Node : currentTerm[n] \in Nat /\ currentTerm'[n] \in Nat
  BY <1>c, RaftConstants DEF Term
<1>e. \A n \in Node : Len(log[n]) \in Nat /\ Len(log'[n]) \in Nat
  BY <1>c, LenProperties
<1>f. \A n \in Node : currentTerm[n] <= currentTerm'[n]
  BY <1>a, TermStep, Zenon
<1>1. ElectedBehind'
  <2> SUFFICES ASSUME NEW e \in elected', NEW m \in Node
               PROVE  /\ e[1] <= currentTerm'[m]
                      /\ state'[m] = "Candidate" => e[1] < currentTerm'[m]
    BY DEF ElectedBehind
  <2>1. e[1] \in Nat /\ e[2] \in Node
    BY <1>c, RaftConstants DEF Term
  <2>2. CASE m # e[2]
    <3>1. Past(m, e[1])'
      BY <1>a, <2>2 DEF ElectionInv, ElectedPast, Past
    <3> QED
      BY <1>d, <2>1, <3>1 DEF Past
  <2>3. CASE m = e[2] /\ e \in elected
    <3>1. e[1] <= currentTerm[m] /\ (state[m] = "Candidate" => e[1] < currentTerm[m])
      BY <1>b, <2>3 DEF ElectedBehind
    <3>2. state'[m] = "Candidate" =>
             \/ state[m] = "Candidate" /\ currentTerm'[m] = currentTerm[m]
             \/ currentTerm[m] < currentTerm'[m]
      BY <1>a, TermStep, Zenon
    <3> QED
      BY <1>d, <1>f, <2>1, <3>1, <3>2
  <2>4. CASE m = e[2] /\ e \notin elected
    <3>1. e[1] = currentTerm'[m] /\ state'[m] = "Leader"
      BY <1>a, <2>4, WinStep
    <3> QED
      BY <1>d, <3>1
  <2> QED
    BY <2>2, <2>3, <2>4
<1>2. LeadersElected'
  <2> SUFFICES ASSUME NEW n \in Node, state'[n] = "Leader"
               PROVE  <<currentTerm'[n], n>> \in elected'
    BY DEF LeadersElected
  <2>1. \/ state[n] = "Leader" /\ currentTerm'[n] = currentTerm[n]
        \/ <<currentTerm'[n], n>> \in elected'
    BY <1>a, TermStep
  <2>2. elected \subseteq elected'
    BY <1>a, WinStep
  <2> QED
    BY <1>b, <2>1, <2>2 DEF LeadersElected
<1>3. CASE UNCHANGED log
  <2>1. LogsAgree' /\ TermsOrdered'
    BY <1>3, <1>b DEF LogsAgree, TermsOrdered
  <2>2. TermsPast'
    <3> SUFFICES ASSUME NEW n \in Node, NEW m \in Node, NEW i \in 1 .. Len(log[n])
                 PROVE  log[n][i].term <= currentTerm'[m]
      BY <1>3 DEF TermsPast
    <3>1. log[n][i] \in Entry
      BY <1>c, ElementOfSeq
    <3>2. log[n][i].term \in Nat
      BY <3>1, RaftConstants DEF Entry, Term
    <3>3. log[n][i].term <= currentTerm[m]
      BY <1>b DEF TermsPast
    <3> QED
      BY <1>d, <1>f, <3>2, <3>3
  <2>3. LeaderLongest'
    <3> SUFFICES ASSUME NEW n \in Node, NEW m \in Node, state'[n] = "Leader"
                 PROVE  Len(log[m]) <= Len(log[n])
      BY <1>3 DEF LeaderLongest
    <3>1. CASE state[n] = "Leader"
      BY <1>b, <3>1 DEF LeaderLongest
    <3>2. CASE state[n] # "Leader"
      <4>1. PICK r \in voteResps : CountVote(r)
        BY <1>a, <3>2, NewLeader
      <4> QED
        BY <3>2, <4>1, WinnerLongest
    <3> QED
      BY <3>1, <3>2
  <2> QED
    BY <1>1, <1>2, <2>1, <2>2, <2>3 DEF LogsInv
<1>4. ASSUME NEW n \in Node, NEW c \in Command, Propose(n, c) PROVE LogsInv'
  <2> DEFINE e == [term |-> currentTerm[n], command |-> c]
  <2>1. /\ state[n] = "Leader" /\ log'[n] = Append(log[n], e)
        /\ UNCHANGED <<state, currentTerm>>
        /\ \A m \in Node \ {n} : log'[m] = log[m]
    BY <1>4, <1>c DEF Propose, termVars
  <2>2. e \in Entry /\ e.term = currentTerm[n]
    BY <1>c DEF Entry
  <2>3. /\ Len(log'[n]) = Len(log[n]) + 1
        /\ \A i \in 1 .. Len(log[n]) : log'[n][i] = log[n][i]
        /\ log'[n][Len(log[n]) + 1] = e
    BY <1>c, <1>e, <2>1, <2>2, AppendProperties, SMTT(30)
  <2> HIDE DEF e
  <2>4. \A m \in Node : currentTerm[n] <= currentTerm[m]
    <3>1. <<currentTerm[n], n>> \in elected
      BY <1>b, <2>1 DEF LeadersElected
    <3>2. \A m \in Node : <<currentTerm[n], n>>[1] <= currentTerm[m]
      BY <1>b, <3>1 DEF ElectedBehind
    <3> QED
      BY <3>2
  <2>5. \A m \in Node : Len(log[m]) <= Len(log[n])
    BY <1>b, <2>1 DEF LeaderLongest
  <2>6. LogsAgree'
    <3> SUFFICES ASSUME NEW p \in Node, NEW q \in Node, NEW i \in 1 .. Len(log'[p]),
                        i <= Len(log'[q])
                 PROVE  log'[p][i] = log'[q][i]
      BY DEF LogsAgree
    <3>1. CASE i <= Len(log[p]) /\ i <= Len(log[q])
      <4>0. i \in 1 .. Len(log[p]) /\ i \in 1 .. Len(log[q])
        BY <1>e, <3>1
      <4>1. log'[p][i] = log[p][i] /\ log'[q][i] = log[q][i]
        BY <2>1, <2>3, <4>0, SMTT(30)
      <4>2. log[p][i] = log[q][i]
        BY <1>b, <1>e, <3>1 DEF LogsAgree
      <4> QED
        BY <4>1, <4>2
    <3>2. CASE ~(i <= Len(log[p]) /\ i <= Len(log[q]))
      <4>1. p = q
        BY <1>e, <2>1, <2>3, <2>5, <3>2, SMTT(30)
      <4> QED
        BY <4>1
    <3> QED
      BY <3>1, <3>2
  <2>7. LeaderLongest'
    <3> SUFFICES ASSUME NEW p \in Node, NEW q \in Node, state[p] = "Leader"
                 PROVE  Len(log'[q]) <= Len(log'[p])
      BY <2>1 DEF LeaderLongest
    <3>1. p = n
      BY <2>1, OneLeader
    <3> QED
      BY <1>e, <2>1, <2>3, <2>5, <3>1, SMTT(30)
  <2>8. \A p \in Node : \A i \in 1 .. Len(log'[p]) :
          \/ i <= Len(log[p]) /\ log'[p][i] = log[p][i]
          \/ p = n /\ i = Len(log[n]) + 1 /\ log'[p][i].term = currentTerm[n]
    BY <1>e, <2>1, <2>2, <2>3, SMTT(30)
  <2>9. TermsPast'
    <3> SUFFICES ASSUME NEW p \in Node, NEW q \in Node, NEW i \in 1 .. Len(log'[p])
                 PROVE  log'[p][i].term <= currentTerm[q]
      BY <2>1 DEF TermsPast
    <3> QED
      BY <1>b, <1>e, <2>4, <2>8, SMTT(30) DEF TermsPast
  <2>10. TermsOrdered'
    <3> SUFFICES ASSUME NEW p \in Node, NEW j \in 1 .. Len(log'[p]), NEW i \in 1 .. j
                 PROVE  log'[p][i].term <= log'[p][j].term
      BY DEF TermsOrdered
    <3>1. i \in 1 .. Len(log'[p])
      BY <1>e
    <3>2. CASE j <= Len(log[p]) /\ log'[p][j] = log[p][j]
      <4>1. log'[p][i] = log[p][i]
        BY <1>e, <2>8, <3>1, <3>2, SMTT(30)
      <4> QED
        BY <1>b, <1>e, <3>2, <4>1, SMTT(30) DEF TermsOrdered
    <3>3. CASE p = n /\ j = Len(log[n]) + 1 /\ log'[p][j].term = currentTerm[n]
      BY <2>1, <2>9, <3>1, <3>3, SMTT(30) DEF TermsPast
    <3> QED
      BY <2>8, <3>2, <3>3
  <2> QED
    BY <1>1, <1>2, <2>6, <2>7, <2>9, <2>10, SMTT(30) DEF LogsInv
<1>5. ASSUME NEW r \in appendReqs, HandleAppendEntries(r), Accepts(r) PROVE LogsInv'
  <2>1. r.to \in Node /\ \A m \in Node \ {r.to} : log'[m] = log[m]
    BY <1>5, AcceptedLog
  <2>2. PICK s \in Node :
          /\ Len(log'[r.to]) <= Len(log[s])
          /\ \A i \in 1 .. Len(log'[r.to]) : log'[r.to][i] = log[s][i]
    BY <1>5, AcceptedLog
  <2>3. \A p \in Node : \E q \in Node :
          /\ Len(log'[p]) <= Len(log[q])
          /\ \A i \in 1 .. Len(log'[p]) : log'[p][i] = log[q][i]
    <3> SUFFICES ASSUME NEW p \in Node
                 PROVE  \E q \in Node :
                           /\ Len(log'[p]) <= Len(log[q])
                           /\ \A i \in 1 .. Len(log'[p]) : log'[p][i] = log[q][i]
      OBVIOUS
    <3>1. CASE p = r.to
      BY <2>2, <3>1
    <3>2. CASE p # r.to
      BY <1>e, <2>1, <3>2
    <3> QED
      BY <3>1, <3>2
  <2>4. \A p \in Node : \A i \in 1 .. Len(log'[p]) :
          \E q \in Node : i <= Len(log[q]) /\ log'[p][i] = log[q][i]
    <3> SUFFICES ASSUME NEW p \in Node, NEW i \in 1 .. Len(log'[p])
                 PROVE  \E q \in Node : i <= Len(log[q]) /\ log'[p][i] = log[q][i]
      OBVIOUS
    <3>1. PICK q \in Node : /\ Len(log'[p]) <= Len(log[q])
                            /\ \A k \in 1 .. Len(log'[p]) : log'[p][k] = log[q][k]
      BY <2>3
    <3>2. i <= Len(log[q])
      BY <1>e, <3>1
    <3> QED
      BY <3>1, <3>2
  <2>8. LogsAgree'
    <3> SUFFICES ASSUME NEW p \in Node, NEW q \in Node, NEW i \in 1 .. Len(log'[p]),
                        i <= Len(log'[q])
                 PROVE  log'[p][i] = log'[q][i]
      BY DEF LogsAgree
    <3>0. i \in 1 .. Len(log'[q])
      BY <1>e
    <3>1. PICK s1 \in Node : i <= Len(log[s1]) /\ log'[p][i] = log[s1][i]
      BY <2>4
    <3>2. PICK s2 \in Node : i <= Len(log[s2]) /\ log'[q][i] = log[s2][i]
      BY <2>4, <3>0, SMTT(30)
    <3>3. log[s1][i] = log[s2][i]
      BY <1>b, <1>e, <3>1, <3>2 DEF LogsAgree
    <3> QED
      BY <3>1, <3>2, <3>3
  <2>5. TermsOrdered'
    <3> SUFFICES ASSUME NEW p \in Node, NEW j \in 1 .. Len(log'[p]), NEW i \in 1 .. j
                 PROVE  log'[p][i].term <= log'[p][j].term
      BY DEF TermsOrdered
    <3>1. PICK q \in Node : /\ Len(log'[p]) <= Len(log[q])
                            /\ \A k \in 1 .. Len(log'[p]) : log'[p][k] = log[q][k]
      BY <2>3
    <3>2. log'[p][i] = log[q][i] /\ log'[p][j] = log[q][j] /\ j \in 1 .. Len(log[q])
      BY <1>e, <3>1
    <3> QED
      BY <1>b, <3>2 DEF TermsOrdered
  <2>6. TermsPast'
    <3> SUFFICES ASSUME NEW p \in Node, NEW m \in Node, NEW i \in 1 .. Len(log'[p])
                 PROVE  log'[p][i].term <= currentTerm'[m]
      BY DEF TermsPast
    <3>0. PICK q \in Node : i <= Len(log[q]) /\ log'[p][i] = log[q][i]
      BY <2>4
    <3>1. i \in 1 .. Len(log[q]) /\ log'[p][i] = log[q][i]
      BY <1>e, <3>0
    <3>2. log[q][i] \in Entry
      BY <1>c, <3>1, ElementOfSeq
    <3>3. log[q][i].term \in Nat
      BY <3>2, RaftConstants DEF Entry, Term
    <3>4. log[q][i].term <= currentTerm[m]
      BY <1>b, <3>1, SMTT(30) DEF TermsPast
    <3> QED
      BY <1>d, <1>f, <3>1, <3>3, <3>4
  <2>7. LeaderLongest'
    <3> SUFFICES ASSUME NEW n \in Node, NEW m \in Node, state'[n] = "Leader"
                 PROVE  Len(log'[m]) <= Len(log'[n])
      BY DEF LeaderLongest
    <3>1. n # r.to /\ state[n] = "Leader"
      BY <1>5, <1>c, <2>1 DEF Accepts, BecomeFollower
    <3>2. PICK q \in Node : Len(log'[m]) <= Len(log[q])
      BY <2>3
    <3>3. Len(log[q]) <= Len(log[n]) /\ log'[n] = log[n]
      BY <1>b, <2>1, <3>1 DEF LeaderLongest
    <3> QED
      BY <1>e, <3>2, <3>3
  <2> QED
    BY <1>1, <1>2, <2>5, <2>6, <2>7, <2>8, SMTT(30) DEF LogsInv
<1> QED
  BY <1>3, <1>4, <1>5, LogChange

-----------------------------------------------------------------------------
(* Replication.                                                            *)

\* updateCommitIndex moves commitIndex only to entries that every log has.
LEMMA CommitReplicated ==
    ASSUME SmallCluster, LogInv, NEW n \in Node, NEW match \in [Node -> Nat],
           \A p \in Node : match[p] <= Len(log[p])
    PROVE  /\ UpdatedCommitIndex(n, match) \in Nat
           /\ \A m \in Node : UpdatedCommitIndex(n, match) <= Len(log[m])
<1> DEFINE ready      == {i \in commitIndex[n] + 1 .. Len(log[n]) :
                            /\ log[n][i].term = currentTerm[n]
                            /\ Replicated(n, match, i)}
           Highest(i) == \A j \in ready : j <= i
           top        == CHOOSE i \in ready : Highest(i)
<1>1. /\ commitIndex[n] \in Nat /\ lastApplied[n] \in Nat
      /\ log \in [Node -> Seq(Entry)]
      /\ commitIndex[n] <= lastApplied[n]
  BY DEF LogInv, TypeInv, TypeOK, AppliedAhead
<1>2. \A m \in Node : Len(log[m]) \in Nat
  BY <1>1, LenProperties
<1>3. \A m \in Node : commitIndex[n] <= Len(log[m])
  <2>1. \A m \in Node : lastApplied[n] <= Len(log[m])
    BY DEF LogInv, ReplicationInv, AppliedBound
  <2> QED
    BY <1>1, <1>2, <2>1
<1>4. ASSUME NEW i \in ready PROVE i \in Nat /\ \A m \in Node : i <= Len(log[m])
  <2>1. i \in Nat /\ i <= Len(log[n]) /\ Replicated(n, match, i)
    BY <1>1, <1>2
  <2> DEFINE V == {p \in Peers[n] : match[p] >= i}
  <2>2. HasMajority(n, 1 + Cardinality(V)) /\ V \in SUBSET Peers[n]
    BY <2>1 DEF Replicated
  <2> HIDE DEF V
  <2>3. V = Node \ {n}
    BY <2>2, Unanimous
  <2>4. \A p \in V : match[p] >= i
    BY DEF V
  <2> QED
    BY <1>2, <2>1, <2>3, <2>4
<1>5. UpdatedCommitIndex(n, match)
        = IF \E i \in ready : Highest(i) THEN top ELSE commitIndex[n]
  BY DEF UpdatedCommitIndex
<1> HIDE DEF ready
<1>6. (\E i \in ready : Highest(i)) => top \in ready
  OBVIOUS
<1> HIDE DEF Highest, top
<1> QED
  BY <1>1, <1>3, <1>4, <1>5, <1>6, SMTT(30)

\* applyCommitted, when all logs have reached the commit index.
LEMMA AppliedBoundKept ==
    ASSUME LogInv, NEW n \in Node, NEW xlog, NEW c \in Nat,
           \A m \in Node : c <= Len(log[m]),
           ApplyCommitted(n, xlog, c)
    PROVE  \A p, m \in Node : lastApplied'[p] <= Len(log[m])
<1>1. lastApplied \in [Node -> Nat]
  BY DEF LogInv, TypeInv, TypeOK
<1>2. \A p, m \in Node : lastApplied[p] <= Len(log[m])
  BY DEF LogInv, ReplicationInv, AppliedBound
<1>3. lastApplied' = lastApplied \/ lastApplied' = [lastApplied EXCEPT ![n] = c]
  BY SMTT(30) DEF ApplyCommitted
<1> QED
  BY <1>1, <1>2, <1>3

\* A step keeps what requests, answers and a leader's indexes say about logs.
LEMMA ReplicationInvStep ==
    ASSUME SmallCluster, LogInv, Next
    PROVE  ReplicationInv'
<1>a. /\ TypeInv /\ LogsInv
      /\ RequestsCopied /\ AnswersTrue /\ NextBound /\ MatchBound /\ AppliedBound
  BY DEF LogInv, ReplicationInv
<1>t. TypeInv'
  BY <1>a, TypeInvStep
<1>b. /\ log \in [Node -> Seq(Entry)] /\ log' \in [Node -> Seq(Entry)]
      /\ nextIndex \in [Node -> [Node -> Nat]] /\ matchIndex \in [Node -> [Node -> Nat]]
      /\ lastApplied \in [Node -> Nat] /\ commitIndex \in [Node -> Nat]
      /\ state \in [Node -> {"Follower", "Candidate", "Leader"}]
  BY <1>a, <1>t DEF TypeInv, TypeOK
<1>c. /\ \A r \in appendReqs : /\ r.from \in Node /\ r.to \in Node
                               /\ r.prevLogIndex \in Nat /\ r.entries \in Seq(Entry)
                               /\ r.leaderCommit \in Nat
      /\ \A r \in appendResps : r.from \in Node /\ r.to \in Node /\ r.matched \in Nat
  BY <1>a, Zenon DEF TypeInv, TypeOK, AppendRequest, AppendResponse
<1>d. \A n \in Node : Len(log[n]) \in Nat /\ Len(log'[n]) \in Nat
  BY <1>b, LenProperties
<1>e. \A n \in Node : Grows(n)
  BY LogsGrow
<1>f. \A n \in Node : Len(log[n]) <= Len(log'[n])
  BY <1>e DEF Grows
<1>g. elected \subseteq elected'
  BY <1>a, WinStep
<1>h. ASSUME NEW r \in appendReqs
      PROVE  /\ <<r.term, r.from>> \in elected'
             /\ r.prevLogIndex + Len(r.entries) <= Len(log'[r.from])
             /\ \A i \in 1 .. Len(r.entries) :
                   r.entries[i] = log'[r.from][r.prevLogIndex + i]
             /\ r.leaderCommit <= r.prevLogIndex + Len(r.entries)
             /\ \A m \in Node : r.leaderCommit <= Len(log'[m])
  <2>1. /\ r.from \in Node /\ r.prevLogIndex \in Nat /\ r.leaderCommit \in Nat
        /\ Len(r.entries) \in Nat
    BY <1>c, LenProperties
  <2>2. /\ <<r.term, r.from>> \in elected
        /\ r.prevLogIndex + Len(r.entries) <= Len(log[r.from])
        /\ \A i \in 1 .. Len(r.entries) : r.entries[i] = log[r.from][r.prevLogIndex + i]
        /\ r.leaderCommit <= r.prevLogIndex + Len(r.entries)
        /\ \A m \in Node : r.leaderCommit <= Len(log[m])
    BY <1>a DEF RequestsCopied
  <2>3. ASSUME NEW i \in 1 .. Len(r.entries)
        PROVE  r.entries[i] = log'[r.from][r.prevLogIndex + i]
    <3>1. r.prevLogIndex + i \in 1 .. Len(log[r.from])
      BY <1>d, <2>1, <2>2
    <3>2. log'[r.from][r.prevLogIndex + i] = log[r.from][r.prevLogIndex + i]
      BY <1>e, <2>1, <3>1 DEF Grows
    <3> QED
      BY <2>2, <3>2
  <2>4. /\ r.prevLogIndex + Len(r.entries) <= Len(log'[r.from])
        /\ \A m \in Node : r.leaderCommit <= Len(log'[m])
    BY <1>d, <1>f, <2>1, <2>2, SMTT(30)
  <2> QED
    BY <1>g, <2>2, <2>3, <2>4
<1>i. ASSUME UNCHANGED appendReqs PROVE RequestsCopied'
  BY <1>h, <1>i, Zenon DEF RequestsCopied
<1>j. ASSUME NEW r \in appendResps
      PROVE  r.matched <= Len(log'[r.to]) /\ r.matched <= Len(log'[r.from])
  <2>1. r.matched <= Len(log[r.to]) /\ r.matched <= Len(log[r.from])
    BY <1>a DEF AnswersTrue
  <2> QED
    BY <1>c, <1>d, <1>f, <2>1
<1>k. ASSUME UNCHANGED appendResps PROVE AnswersTrue'
  BY <1>j, <1>k DEF AnswersTrue
<1>l. ASSUME NEW n \in Node, NEW m \in Node
      PROVE  /\ nextIndex[n][m] <= Len(log'[n]) + 1
             /\ matchIndex[n][m] <= Len(log'[m]) /\ matchIndex[n][m] <= Len(log'[n])
             /\ lastApplied[n] <= Len(log'[m])
  <2>1. /\ nextIndex[n][m] <= Len(log[n]) + 1
        /\ matchIndex[n][m] <= Len(log[m]) /\ matchIndex[n][m] <= Len(log[n])
        /\ lastApplied[n] <= Len(log[m])
    BY <1>a DEF NextBound, MatchBound, AppliedBound
  <2>2. nextIndex[n][m] \in Nat /\ matchIndex[n][m] \in Nat /\ lastApplied[n] \in Nat
    BY <1>b
  <2>3. /\ Len(log[n]) \in Nat /\ Len(log'[n]) \in Nat /\ Len(log[n]) <= Len(log'[n])
        /\ Len(log[m]) \in Nat /\ Len(log'[m]) \in Nat /\ Len(log[m]) <= Len(log'[m])
    BY <1>d, <1>f
  <2> QED
    BY <2>1, <2>2, <2>3, SMTT(30)
<1>m. ASSUME UNCHANGED nextIndex PROVE NextBound'
  BY <1>l, <1>m DEF NextBound
<1>n. ASSUME UNCHANGED matchIndex PROVE MatchBound'
  BY <1>l, <1>n DEF MatchBound
<1>o. ASSUME UNCHANGED lastApplied PROVE AppliedBound'
  BY <1>l, <1>o DEF AppliedBound
<1>p. ASSUME \A p, m \in Node : lastApplied'[p] <= Len(log[m]) PROVE AppliedBound'
  <2>1. lastApplied' \in [Node -> Nat]
    BY <1>t DEF TypeInv, TypeOK
  <2> QED
    BY <1>d, <1>f, <1>p, <2>1 DEF AppliedBound
<1> USE DEF leaderVars, commitVars
<1>1. ASSUME NEW n \in Node, StartElection(n) PROVE ReplicationInv'
  BY <1>1, <1>i, <1>k, <1>m, <1>n, <1>o, SMTT(30) DEF StartElection, ReplicationInv
<1>2. ASSUME NEW c \in voteCalls, RequestVote(c) PROVE ReplicationInv'
  BY <1>2, <1>i, <1>k, <1>m, <1>n, <1>o, SMTT(30) DEF RequestVote, ReplicationInv
<1>3. ASSUME NEW r \in voteReqs, HandleRequestVote(r) PROVE ReplicationInv'
  BY <1>3, <1>i, <1>k, <1>m, <1>n, <1>o, SMTT(30) DEF HandleRequestVote, ReplicationInv
<1>4. ASSUME NEW r \in voteResps, CountVote(r) PROVE ReplicationInv'
  <2>1. UNCHANGED <<log, lastApplied, appendReqs, appendResps>>
    BY <1>4 DEF CountVote
  <2>2. CASE UNCHANGED <<nextIndex, matchIndex>>
    BY <2>1, <2>2, <1>i, <1>k, <1>m, <1>n, <1>o, SMTT(30) DEF ReplicationInv
  <2>3. CASE BecomeLeader(r.from)
    <3>1. r.from \in Node
      BY <1>a DEF TypeInv, TypeOK, VoteResponse
    <3>2. \A n, m \in Node :
            /\ nextIndex'[n][m] = nextIndex[n][m] \/ nextIndex'[n][m] = Len(log[n]) + 1
            /\ matchIndex'[n][m] = matchIndex[n][m] \/ matchIndex'[n][m] = 0
      BY <1>b, <2>3, <3>1, Zenon DEF BecomeLeader
    <3>3. NextBound'
      BY <1>d, <1>l, <2>1, <3>2 DEF NextBound
    <3>4. MatchBound'
      BY <1>d, <1>l, <2>1, <3>2 DEF MatchBound
    <3> QED
      BY <2>1, <3>3, <3>4, <1>i, <1>k, <1>o, SMTT(30) DEF ReplicationInv
  <2> QED
    BY <1>4, <2>2, <2>3, Zenon DEF CountVote
<1>5. ASSUME NEW n \in Node, NEW c \in Command, Propose(n, c) PROVE ReplicationInv'
  BY <1>5, <1>i, <1>k, <1>m, <1>n, <1>o, SMTT(30) DEF Propose, ReplicationInv
<1>6. ASSUME NEW n \in Node, NEW p \in Peers[n], SendAppendEntries(n, p)
      PROVE  ReplicationInv'
  <2> DEFINE req  == AppendEntriesRequest(n, p)
             prev == nextIndex[n][p] - 1
  <2>1. /\ state[n] = "Leader" /\ appendReqs' = appendReqs \union {req}
        /\ UNCHANGED <<log, nextIndex, matchIndex, lastApplied, elected, appendResps>>
    BY <1>6 DEF SendAppendEntries
  <2>2. p \in Node
    BY RaftConstants
  <2>3. prev \in Nat /\ prev <= Len(log[n])
    <3>1. nextIndex[n][p] \in Nat /\ nextIndex[n][p] >= 1
      BY <1>a, <1>b, <2>1, <2>2, SMTT(30) DEF TypeInv, LeaderIndexes
    <3>2. nextIndex[n][p] <= Len(log[n]) + 1
      BY <1>a, <2>2, SMTT(30) DEF NextBound
    <3> QED
      BY <1>d, <3>1, <3>2, SMTT(30)
  <2>4. /\ req.from = n /\ req.term = currentTerm[n] /\ req.prevLogIndex = prev
        /\ req.entries = SubSeq(log[n], prev + 1, Len(log[n]))
        /\ req.leaderCommit = commitIndex[n]
    BY Zenon DEF AppendEntriesRequest
  <2> HIDE DEF req, prev
  <2>5. /\ Len(req.entries) = Len(log[n]) - prev
        /\ \A i \in 1 .. Len(req.entries) : req.entries[i] = log[n][prev + i]
    <3>1. \A i \in prev + 1 .. Len(log[n]) : log[n][i] \in Entry
      BY <1>b, <1>d, <2>3, ElementOfSeq
    <3>2. /\ Len(req.entries) = Len(log[n]) - prev
          /\ \A i \in 1 .. Len(log[n]) - (prev + 1) + 1 :
                req.entries[i] = log[n][(prev + 1) + i - 1]
      BY <1>d, <2>3, <2>4, <3>1, SubSeqProperties, SMTT(30)
    <3> QED
      BY <1>d, <2>3, <3>2
  <2>6. \A m \in Node : commitIndex[n] <= Len(log[m])
    <3>1. commitIndex[n] <= lastApplied[n]
      BY <1>a DEF TypeInv, AppliedAhead
    <3> QED
      BY <1>a, <1>b, <1>d, <3>1, SMTT(30) DEF AppliedBound
  <2>7. <<currentTerm[n], n>> \in elected
    BY <1>a, <2>1 DEF LogsInv, LeadersElected
  <2>8. RequestsCopied'
    <3> SUFFICES ASSUME NEW r \in appendReqs'
                 PROVE  /\ <<r.term, r.from>> \in elected'
                        /\ r.prevLogIndex + Len(r.entries) <= Len(log'[r.from])
                        /\ \A i \in 1 .. Len(r.entries) :
                              r.entries[i] = log'[r.from][r.prevLogIndex + i]
                        /\ r.leaderCommit <= r.prevLogIndex + Len(r.entries)
                        /\ \A m \in Node : r.leaderCommit <= Len(log'[m])
      BY Zenon DEF RequestsCopied
    <3>1. CASE r \in appendReqs
      BY <1>h, <3>1
    <3>2. CASE r = req
      <4>1. <<r.term, r.from>> \in elected'
        BY <2>1, <2>4, <2>7, <3>2, SMTT(30)
      <4>2. prev + Len(req.entries) = Len(log[n])
        BY <1>d, <2>3, <2>5, SMTT(30)
      <4>3. /\ r.prevLogIndex + Len(r.entries) <= Len(log'[r.from])
            /\ r.leaderCommit <= r.prevLogIndex + Len(r.entries)
            /\ \A m \in Node : r.leaderCommit <= Len(log'[m])
        <5>1. /\ r.prevLogIndex + Len(r.entries) = Len(log[n]) /\ r.from = n
              /\ r.leaderCommit = commitIndex[n] /\ log' = log
          BY <2>1, <2>4, <3>2, <4>2, Zenon
        <5>2. Len(log[n]) <= Len(log[n])
          BY <1>d
        <5> QED
          BY <2>6, <5>1, <5>2, Zenon
      <4>4. \A i \in 1 .. Len(r.entries) : r.entries[i] = log'[r.from][r.prevLogIndex + i]
        BY <2>1, <2>4, <2>5, <3>2, Zenon
      <4> QED
        BY <4>1, <4>3, <4>4, SMTT(30)
    <3> QED
      BY <2>1, <3>1, <3>2, SMTT(30)
  <2> QED
    BY <2>1, <2>8, <1>k, <1>m, <1>n, <1>o, SMTT(30) DEF ReplicationInv
<1>7. ASSUME NEW r \in appendReqs, HandleAppendEntries(r) PROVE ReplicationInv'
  <2>0. UNCHANGED <<nextIndex, matchIndex, appendReqs>>
    BY <1>7 DEF HandleAppendEntries
  <2>1. /\ r.from \in Node /\ r.to \in Node /\ r.prevLogIndex \in Nat
        /\ Len(r.entries) \in Nat
    BY <1>c, LenProperties
  <2>2. ASSUME NEW t, NEW ok \in BOOLEAN, Answer(r, t, ok),
               ok => r.prevLogIndex + Len(r.entries) <= Len(log'[r.to])
        PROVE  AnswersTrue'
    <3> DEFINE k    == IF ok THEN r.prevLogIndex + Len(r.entries) ELSE 0
               resp == [from |-> r.from, to |-> r.to, reqTerm |-> r.term, term |-> t,
                        success |-> ok, matched |-> k]
    <3>1. appendResps' = appendResps \union {resp}
      BY <2>2 DEF Answer
    <3>2. k <= Len(log'[r.to]) /\ k <= Len(log'[r.from])
      <4>1. r.prevLogIndex + Len(r.entries) <= Len(log'[r.from])
        BY <1>h, Zenon
      <4>2. 0 <= Len(log'[r.to]) /\ 0 <= Len(log'[r.from])
        BY <1>d, <2>1
      <4> QED
        BY <2>2, <4>1, <4>2, Zenon
    <3> HIDE DEF k
    <3>3. resp.from = r.from /\ resp.to = r.to /\ resp.matched = k
      OBVIOUS
    <3> HIDE DEF resp
    <3>4. \A q \in appendResps' :
            q.matched <= Len(log'[q.to]) /\ q.matched <= Len(log'[q.from])
      BY <1>j, <3>1, <3>2, <3>3
    <3> QED
      BY <3>4 DEF AnswersTrue
  <2>3. CASE Answer(r, currentTerm[r.to], FALSE) /\ UNCHANGED commitVars
    BY <2>0, <2>2, <2>3, <1>i, <1>m, <1>n, <1>o, Zenon DEF ReplicationInv
  <2>4. CASE /\ Accepts(r)
             /\ IF r.leaderCommit > commitIndex[r.to]
                  THEN ApplyCommitted(r.to, log'[r.to], min(r.leaderCommit, Len(log'[r.to])))
                  ELSE UNCHANGED commitVars
             /\ Answer(r, r.term, TRUE)
    <3>1. r.prevLogIndex + Len(r.entries) <= Len(log'[r.to])
      BY <2>4, AcceptedLog
    <3>2. AnswersTrue'
      BY <2>2, <2>4, <3>1, Zenon
    <3>3. AppliedBound'
      <4>1. CASE UNCHANGED commitVars
        BY <1>o, <4>1
      <4>2. CASE ApplyCommitted(r.to, log'[r.to], min(r.leaderCommit, Len(log'[r.to])))
        <5> DEFINE c == min(r.leaderCommit, Len(log'[r.to]))
        <5>1. c \in Nat /\ c <= r.leaderCommit
          BY <1>c, <1>d, <2>1, SMTT(30) DEF min
        <5>2. \A m \in Node : r.leaderCommit <= Len(log[m])
          BY <1>a, Zenon DEF RequestsCopied
        <5>3. \A m \in Node : c <= Len(log[m])
          <6> HIDE DEF c
          <6> QED
            BY <1>c, <1>d, <5>1, <5>2
        <5> HIDE DEF c
        <5>4. ApplyCommitted(r.to, log'[r.to], c)
          BY <4>2 DEF c
        <5>5. \A p, m \in Node : lastApplied'[p] <= Len(log[m])
          BY <2>1, <5>1, <5>3, <5>4, AppliedBoundKept, SMTT(30)
        <5> QED
          BY <1>p, <5>5
      <4> QED
        BY <2>4, <4>1, <4>2
    <3> QED
      BY <2>0, <3>2, <3>3, <1>i, <1>m, <1>n, SMTT(30) DEF ReplicationInv
  <2>5. ASSUME log' = [log EXCEPT ![r.to] =
                         MergeEntries(log[r.to], r.prevLogIndex, r.entries)]
        PROVE  log'[r.to] = MergeEntries(log[r.to], r.prevLogIndex, r.entries)
    BY <1>b, <2>1, <2>5, SMTT(30)
  <2> QED
    BY <1>7, <2>3, <2>4, <2>5, Zenon DEF HandleAppendEntries, Accepts
<1>8. ASSUME NEW r \in appendResps, HandleAppendResponse(r) PROVE ReplicationInv'
  <2> DEFINE n == r.from
             match == [matchIndex[n] EXCEPT ![r.to] = r.matched]
  <2>0. UNCHANGED <<log, appendReqs, appendResps>>
    BY <1>8 DEF HandleAppendResponse
  <2>1. n \in Node /\ r.to \in Node /\ r.matched \in Nat
    BY <1>c
  <2>2. CASE UNCHANGED <<commitVars, leaderVars>>
    BY <2>0, <2>2, <1>i, <1>k, <1>m, <1>n, <1>o, SMTT(30) DEF ReplicationInv
  <2>3. CASE /\ matchIndex' = [matchIndex EXCEPT ![n] = match]
             /\ nextIndex' = [nextIndex EXCEPT ![n][r.to] = match[r.to] + 1]
             /\ ApplyCommitted(n, log[n], UpdatedCommitIndex(n, match))
    <3>1. match \in [Node -> Nat] /\ match[r.to] = r.matched
      BY <2>1, <1>b, Zenon
    <3>2. r.matched <= Len(log[r.to]) /\ r.matched <= Len(log[n])
      BY <1>a DEF AnswersTrue
    <3>3. \A p \in Node : match[p] <= Len(log[p]) /\ match[p] <= Len(log[n])
      BY <1>a, <1>b, <2>1, <3>2, ZenonT(60) DEF MatchBound
    <3> HIDE DEF match, n
    <3>4. NextBound'
      <4>1. \A q, m \in Node :
              \/ nextIndex'[q][m] = nextIndex[q][m]
              \/ q = n /\ nextIndex'[q][m] = r.matched + 1
        BY <1>b, <2>1, <2>3, <3>1, SMTT(30)
      <4> QED
        BY <1>d, <1>l, <2>0, <2>1, <3>2, <4>1 DEF NextBound
    <3>5. MatchBound'
      <4>1. \A q, m \in Node :
              matchIndex'[q][m] = IF q = n THEN match[m] ELSE matchIndex[q][m]
        BY <1>b, <2>1, <2>3
      <4> QED
        BY <1>a, <2>0, <3>3, <4>1, SMTT(30) DEF MatchBound
    <3>6. /\ UpdatedCommitIndex(n, match) \in Nat
          /\ \A m \in Node : UpdatedCommitIndex(n, match) <= Len(log[m])
      BY <2>1, <3>1, <3>3, CommitReplicated, SMTT(30)
    <3>7. \A p, m \in Node : lastApplied'[p] <= Len(log[m])
      BY <2>1, <2>3, <3>6, AppliedBoundKept, SMTT(30)
    <3> QED
      BY <2>0, <3>4, <3>5, <3>7, <1>i, <1>k, <1>p, SMTT(30) DEF ReplicationInv
  <2>4. CASE /\ nextIndex[n][r.to] > 1
             /\ nextIndex' = [nextIndex EXCEPT ![n][r.to] = @ - 1]
             /\ UNCHANGED <<commitVars, matchIndex>>
    <3>1. \A q, m \in Node : nextIndex'[q][m] <= nextIndex[q][m] /\ nextIndex'[q][m] \in Int
      <4>1. \A q, m \in Node :
              \/ nextIndex'[q][m] = nextIndex[q][m]
              \/ nextIndex'[q][m] = nextIndex[q][m] - 1
        BY <1>b, <2>1, <2>4, Zenon
      <4>2. \A q, m \in Node : nextIndex[q][m] \in Nat
        BY <1>b
      <4> QED
        BY <4>1, <4>2
    <3>2. NextBound'
      BY <1>b, <1>d, <1>l, <3>1, SMTT(30) DEF NextBound
    <3> QED
      BY <2>0, <2>4, <3>2, <1>i, <1>k, <1>n, <1>o, SMTT(30) DEF ReplicationInv
  <2> QED
    BY <1>8, <2>2, <2>3, <2>4, Zenon DEF HandleAppendResponse
<1>9. ASSUME NEW n \in Node, TakeApplied(n) PROVE ReplicationInv'
  BY <1>9, <1>i, <1>k, <1>m, <1>n, <1>o, SMTT(30) DEF TakeApplied, ReplicationInv
<1> QED
  BY <1>1, <1>2, <1>3, <1>4, <1>5, <1>6, <1>7, <1>8, <1>9 DEF Next

-----------------------------------------------------------------------------
(* Theorems.                                                               *)

\* LogInv holds initially.
LEMMA LogInvInit == Init => LogInv
<1> SUFFICES ASSUME Init PROVE LogInv
  OBVIOUS
<1>1. \A n \in Node : Len(log[n]) = 0 /\ 1 .. Len(log[n]) = {}
  BY DEF Init
<1>2. ElectionInv
  BY DEF Init, ElectionInv, OwnVote, CallsCurrent, ReqsCurrent, RespsCurrent,
         TalliesPast, ElectedPast, ElectionSafety
<1>3. LogsInv
  BY <1>1 DEF Init, LogsInv, ElectedBehind, LeadersElected, LogsAgree, LeaderLongest,
              TermsOrdered, TermsPast
<1>4. VotesInv
  BY DEF Init, VotesInv, ReqLogs, RespLogs, TallyLogs
<1>5. ReplicationInv
  BY <1>1 DEF Init, ReplicationInv, RequestsCopied, AnswersTrue, NextBound, MatchBound,
              AppliedBound
<1> QED
  BY <1>2, <1>3, <1>4, <1>5, TypeInvInit DEF LogInv

\* LogInv is inductive.
LEMMA LogInvStep ==
    ASSUME SmallCluster, ~LateReads, LogInv, [Next]_vars
    PROVE  LogInv'
<1>1. TypeInv /\ ElectionInv /\ LogsInv /\ VotesInv /\ ReplicationInv
  BY DEF LogInv
<1>2. TypeInv'
  BY <1>1, TypeInvStep
<1>3. CASE Next
  <2>1. ElectionInv'
    BY <1>1, <1>3, ElectionInvStep
  <2>2. LogsInv'
    BY <1>3, LogsInvStep
  <2>3. VotesInv'
    BY <1>3, VotesInvStep
  <2>4. ReplicationInv'
    BY <1>3, ReplicationInvStep
  <2> QED
    BY <1>2, <2>1, <2>2, <2>3, <2>4 DEF LogInv
<1>4. CASE UNCHANGED vars
  <2> USE <1>1, <1>4 DEF vars, termVars, leaderVars, commitVars, voteVars
  <2>1. ElectionInv'
    BY DEF ElectionInv, OwnVote, CallsCurrent, ReqsCurrent, RespsCurrent, TalliesPast,
           ElectedPast, ElectionSafety, Past
  <2>2. LogsInv'
    BY DEF LogsInv, ElectedBehind, LeadersElected, LogsAgree, LeaderLongest,
           TermsOrdered, TermsPast
  <2>3. VotesInv'
    BY DEF VotesInv, ReqLogs, RespLogs, TallyLogs, Standing
  <2>4. ReplicationInv'
    BY DEF ReplicationInv, RequestsCopied, AnswersTrue, NextBound, MatchBound,
           AppliedBound
  <2> QED
    BY <1>2, <2>1, <2>2, <2>3, <2>4, SMTT(30) DEF LogInv
<1> QED
  BY <1>3, <1>4

\* LogInv is an invariant.
LEMMA LogInvariant ==
    ASSUME SmallCluster, ~LateReads
    PROVE  Spec => []LogInv
<1>1. LogInv /\ [Next]_vars => LogInv'
  BY LogInvStep
<1> QED
  BY <1>1, LogInvInit, PTL DEF Spec

\* In a cluster of at most three nodes an entry at or below a node's commit
\* index is in every node's log, at the same index (updateCommitIndex waits
\* for a majority of the peers, which is all of them).
THEOREM CommittedEntriesSafe ==
    ASSUME SmallCluster, ~LateReads
    PROVE  Spec => []CommittedEverywhere
<1>1. ASSUME LogInv PROVE CommittedEverywhere
  <2>1. /\ log \in [Node -> Seq(Entry)]
        /\ commitIndex \in [Node -> Nat] /\ lastApplied \in [Node -> Nat]
        /\ \A n \in Node : commitIndex[n] <= lastApplied[n]
    BY <1>1 DEF LogInv, TypeInv, TypeOK, AppliedAhead
  <2>2. \A n \in Node : Len(log[n]) \in Nat
    BY <2>1, LenProperties
  <2>3. AppliedBound /\ LogsAgree
    BY <1>1 DEF LogInv, ReplicationInv, LogsInv
  <2> SUFFICES ASSUME NEW n \in Node, NEW m \in Node, NEW i \in 1 .. commitIndex[n]
               PROVE  i <= Len(log[m]) /\ log[m][i] = log[n][i]
    BY DEF CommittedEverywhere
  <2>4. lastApplied[n] <= Len(log[m]) /\ lastApplied[n] <= Len(log[n])
    BY <2>3 DEF AppliedBound
  <2>5. i \in 1 .. Len(log[n]) /\ i <= Len(log[m])
    BY <2>1, <2>2, <2>4, SMTT(30)
  <2> QED
    BY <2>3, <2>5 DEF LogsAgree
<1> QED
  BY <1>1, LogInvariant, PTL

\* In a cluster of at most three nodes a leader's matchIndex, which
\* sendAppendEntries sets on an answer to an earlier request, never claims an
\* entry that the peer does not have.
THEOREM MatchIndexCorrect ==
    ASSUME SmallCluster, ~LateReads
    PROVE  Spec => []MatchIndexSound
<1>1. ASSUME LogInv PROVE MatchIndexSound
  <2>1. log \in [Node -> Seq(Entry)] /\ matchIndex \in [Node -> [Node -> Nat]]
    BY <1>1 DEF LogInv, TypeInv, TypeOK
  <2>2. \A n \in Node : Len(log[n]) \in Nat
    BY <2>1, LenProperties
  <2>3. MatchBound /\ LogsAgree
    BY <1>1 DEF LogInv, ReplicationInv, LogsInv
  <2> SUFFICES ASSUME NEW n \in Node, NEW p \in Peers[n], NEW i \in 1 .. matchIndex[n][p]
               PROVE  i <= Len(log[p]) /\ i <= Len(log[n]) /\ log[p][i] = log[n][i]
    BY DEF MatchIndexSound
  <2>4. p \in Node
    BY RaftConstants
  <2>5. matchIndex[n][p] <= Len(log[p]) /\ matchIndex[n][p] <= Len(log[n])
    BY <2>3, <2>4 DEF MatchBound
  <2>6. i \in 1 .. Len(log[p]) /\ i <= Len(log[n]) /\ i <= Len(log[p])
    BY <2>1, <2>2, <2>4, <2>5
  <2> QED
    BY <2>3, <2>4, <2>6 DEF LogsAgree
<1> QED
  BY <1>1, LogInvariant, PTL

\* In a cluster of at most three nodes no AppendEntries request carries a
\* commit index beyond the entries it lets its receiver check, so taking
\* min(LeaderCommit, len(log)) in HandleAppendEntries commits checked entries.
THEOREM CommitIsChecked ==
    ASSUME SmallCluster, ~LateReads
    PROVE  Spec => []CommitWithinRequest
<1>1. LogInv => CommitWithinRequest
  BY Zenon DEF LogInv, ReplicationInv, RequestsCopied, CommitWithinRequest
<1> QED
  BY <1>1, LogInvariant, PTL

\* In a cluster of at most three nodes HandleAppendEntries never cuts entries
\* off a log, although its loop has a branch that does.
THEOREM LogsOnlyGrow ==
    ASSUME SmallCluster, ~LateReads
    PROVE  Spec => LogsNeverTruncated
<1>1. ASSUME LogInv, LogInv', [Next]_vars
      PROVE  [\A n \in Node : \A i \in 1 .. Len(log[n]) :
                i <= Len(log'[n]) /\ log'[n][i] = log[n][i]]_vars
  <2> SUFFICES ASSUME Next, NEW n \in Node, NEW i \in 1 .. Len(log[n])
               PROVE  i <= Len(log'[n]) /\ log'[n][i] = log[n][i]
    BY <1>1
  <2>1. log[n] \in Seq(Entry) /\ log'[n] \in Seq(Entry)
    BY <1>1 DEF LogInv, TypeInv, TypeOK
  <2>2. Len(log[n]) <= Len(log'[n]) /\ log'[n][i] = log[n][i]
    BY <1>1, LogsGrow DEF Grows
  <2> QED
    BY <2>1, <2>2, LenProperties
<1> QED
  BY <1>1, LogInvariant, PTL DEF Spec, LogsNeverTruncated

-----------------------------------------------------------------------------
(* State machine safety.                                                   *)

\* Everything a node sent is an entry of its log that it has applied, and
\* indexes go up.
SentInv ==
    \A n \in Node : \A i \in 1 .. Len(Sent(n)) :
        /\ Sent(n)[i].index \in 1 .. lastApplied[n]
        /\ Sent(n)[i].command = log[n][Sent(n)[i].index].command
        /\ \A j \in 1 .. i - 1 : Sent(n)[j].index < Sent(n)[i].index

-----------------------------------------------------------------------------
(* What the channel holds.                                                 *)

\* applyCommitted appends the first few of the entries after lastApplied.
LEMMA DeliverAppends ==
    ASSUME NEW ch \in Seq(ApplyMsg), NEW xlog \in Seq(Entry),
           NEW from \in Nat, NEW to \in Nat, from < to, to <= Len(xlog)
    PROVE  \E new \in Seq(ApplyMsg) :
              /\ Deliver(ch, xlog, from, to) = ch \o new
              /\ Len(new) <= to - from
              /\ \A i \in 1 .. Len(new) :
                    /\ new[i].index = from + i
                    /\ new[i].command = xlog[from + i].command
<1> DEFINE msgs == [i \in 1 .. to - from |->
                      [index |-> from + i, command |-> xlog[from + i].command]]
           room == ApplyCap - Len(ch)
           k    == min(to - from, room)
           new  == SubSeq(msgs, 1, k)
<1>1. Len(ch) \in Nat /\ Len(xlog) \in Nat /\ ApplyCap \in Nat
  BY LenProperties, RaftConstants
<1>2. \A i \in 1 .. to - from :
        /\ msgs[i] \in ApplyMsg
        /\ msgs[i].index = from + i /\ msgs[i].command = xlog[from + i].command
  <2> SUFFICES ASSUME NEW i \in 1 .. to - from
               PROVE  /\ msgs[i] \in ApplyMsg
                      /\ msgs[i].index = from + i
                      /\ msgs[i].command = xlog[from + i].command
    OBVIOUS
  <2>1. xlog[from + i] \in Entry
    BY <1>1, ElementOfSeq
  <2> QED
    BY <2>1 DEF Entry, ApplyMsg
<1>3. Deliver(ch, xlog, from, to) = ch \o new
  BY DEF Deliver
<1> HIDE DEF msgs
<1>4. k \in Int /\ k <= to - from
  BY <1>1 DEF min
<1> HIDE DEF k
<1>5. \A i \in 1 .. k : msgs[i] \in ApplyMsg
  BY <1>2, <1>4
<1>6. /\ new \in Seq(ApplyMsg)
      /\ Len(new) = IF 1 <= k THEN k - 1 + 1 ELSE 0
      /\ \A i \in 1 .. k - 1 + 1 : new[i] = msgs[1 + i - 1]
  BY <1>4, <1>5, SubSeqProperties
<1> HIDE DEF new
<1>7. Len(new) <= to - from /\ \A i \in 1 .. Len(new) : i \in 1 .. k /\ new[i] = msgs[i]
  BY <1>4, <1>6
<1>8. \A i \in 1 .. Len(new) :
        new[i].index = from + i /\ new[i].command = xlog[from + i].command
  BY <1>2, <1>4, <1>7, SMTT(30)
<1> QED
  BY <1>3, <1>6, <1>7, <1>8, Zenon

\* The reader of applyCh moves a message; it sends none.
LEMMA TakenStaysSent ==
    ASSUME TypeInv, NEW n \in Node, TakeApplied(n), NEW p \in Node
    PROVE  applied'[p] \o applyCh'[p] = applied[p] \o applyCh[p]
<1> DEFINE a == applied[n]  ch == applyCh[n]
<1>1. a \in Seq(ApplyMsg) /\ ch \in Seq(ApplyMsg) /\ ch # << >>
  BY DEF TypeInv, TypeOK, TakeApplied
<1>2. /\ applied' = [applied EXCEPT ![n] = Append(a, Head(ch))]
      /\ applyCh' = [applyCh EXCEPT ![n] = Tail(ch)]
      /\ applied \in [Node -> Seq(ApplyMsg)] /\ applyCh \in [Node -> Seq(ApplyMsg)]
  BY Zenon DEF TypeInv, TypeOK, TakeApplied
<1> HIDE DEF a, ch
<1>3. Append(a, Head(ch)) \o Tail(ch) = a \o ch
  <2>1. Append(a, Head(ch)) = a \o <<Head(ch)>> /\ <<Head(ch)>> \in Seq(ApplyMsg)
    BY <1>1, HeadTailProperties, AppendIsConcat
  <2>2. ch = <<Head(ch)>> \o Tail(ch) /\ Tail(ch) \in Seq(ApplyMsg)
    <3>1. Head(ch) \in ApplyMsg /\ Tail(ch) \in Seq(ApplyMsg)
      BY <1>1, HeadTailProperties
    <3> QED
      BY <1>1, <3>1
  <2>3. (a \o <<Head(ch)>>) \o Tail(ch) = a \o (<<Head(ch)>> \o Tail(ch))
    BY <1>1, <2>1, <2>2, ConcatAssociative, SMTT(30)
  <2> QED
    BY <2>1, <2>2, <2>3
<1>4. CASE p = n
  <2>1. applied'[p] = Append(a, Head(ch)) /\ applyCh'[p] = Tail(ch)
    BY <1>2, <1>4
  <2> QED
    BY <1>3, <1>4, <2>1, Zenon DEF a, ch
<1>5. CASE p # n
  BY <1>2, <1>5
<1> QED
  BY <1>4, <1>5, Zenon

\* A step applies nothing, or takes a message, or runs applyCommitted once,
\* with the log it leaves behind.
LEMMA CommitStep ==
    ASSUME TypeInv, Next
    PROVE  \/ UNCHANGED <<lastApplied, applyCh, applied>>
           \/ \E n \in Node : TakeApplied(n)
           \/ \E n \in Node, c \in Nat :
                 /\ c <= Len(log'[n]) \/ c <= lastApplied[n]
                 /\ ApplyCommitted(n, log'[n], c)
<1> DEFINE Goal == \/ UNCHANGED <<lastApplied, applyCh, applied>>
                   \/ \E n \in Node : TakeApplied(n)
                   \/ \E n \in Node, c \in Nat :
                         /\ c <= Len(log'[n]) \/ c <= lastApplied[n]
                         /\ ApplyCommitted(n, log'[n], c)
<1>1. ASSUME NEW n \in Node, StartElection(n) PROVE Goal
  BY <1>1, Zenon DEF StartElection, commitVars
<1>2. ASSUME NEW c \in voteCalls, RequestVote(c) PROVE Goal
  BY <1>2, Zenon DEF RequestVote, commitVars
<1>3. ASSUME NEW r \in voteReqs, HandleRequestVote(r) PROVE Goal
  BY <1>3, Zenon DEF HandleRequestVote, commitVars
<1>4. ASSUME NEW r \in voteResps, CountVote(r) PROVE Goal
  BY <1>4, Zenon DEF CountVote, commitVars
<1>5. ASSUME NEW n \in Node, NEW c \in Command, Propose(n, c) PROVE Goal
  BY <1>5, Zenon DEF Propose, commitVars
<1>6. ASSUME NEW n \in Node, NEW p \in Peers[n], SendAppendEntries(n, p) PROVE Goal
  BY <1>6, Zenon DEF SendAppendEntries, commitVars
<1>7. ASSUME NEW r \in appendReqs, HandleAppendEntries(r) PROVE Goal
  <2>1. /\ r.to \in Node /\ r.leaderCommit \in Nat /\ log \in [Node -> Seq(Entry)]
        /\ log' \in [Node -> Seq(Entry)]
    BY TypeInvStep, Zenon DEF TypeInv, TypeOK, AppendRequest
  <2> DEFINE merged == MergeEntries(log[r.to], r.prevLogIndex, r.entries)
             c      == min(r.leaderCommit, Len(merged))
  <2>2. CASE UNCHANGED commitVars
    BY <2>2, Zenon DEF commitVars
  <2>3. CASE log' = [log EXCEPT ![r.to] = merged] /\ ApplyCommitted(r.to, merged, c)
    <3>1. log'[r.to] = merged
      BY <2>1, <2>3, Zenon
    <3>2. Len(merged) \in Nat
      BY <2>1, <3>1, LenProperties
    <3> HIDE DEF merged
    <3>3. c \in Nat /\ c <= Len(log'[r.to])
      BY <2>1, <3>1, <3>2 DEF min
    <3> HIDE DEF c
    <3>4. ApplyCommitted(r.to, log'[r.to], c)
      BY <2>3, <3>1, Zenon
    <3> QED
      BY <2>1, <3>3, <3>4, Zenon
  <2> QED
    BY <1>7, <2>2, <2>3, Zenon DEF HandleAppendEntries
<1>8. ASSUME NEW r \in appendResps, HandleAppendResponse(r) PROVE Goal
  <2> DEFINE match == [matchIndex[r.from] EXCEPT ![r.to] = r.matched]
             c     == UpdatedCommitIndex(r.from, match)
  <2>1. /\ r.from \in Node /\ commitIndex[r.from] \in Nat /\ lastApplied[r.from] \in Nat
        /\ commitIndex[r.from] <= lastApplied[r.from]
    BY SMTT(30) DEF TypeInv, TypeOK, AppliedAhead, AppendResponse
  <2>2. log' = log
    BY <1>8, Zenon DEF HandleAppendResponse
  <2>3. CASE UNCHANGED commitVars
    BY <2>3, Zenon DEF commitVars
  <2>4. CASE ApplyCommitted(r.from, log[r.from], c)
    <3>1. c \in Nat /\ (c <= Len(log[r.from]) \/ c = commitIndex[r.from])
      BY <2>1, UpdatedCommitIndexType
    <3> HIDE DEF c
    <3>2. c <= Len(log[r.from]) \/ c <= lastApplied[r.from]
      BY <2>1, <3>1
    <3> QED
      BY <2>1, <2>2, <2>4, <3>1, <3>2, Zenon
  <2> QED
    BY <1>8, <2>3, <2>4, Zenon DEF HandleAppendResponse
<1>9. ASSUME NEW n \in Node, TakeApplied(n) PROVE Goal
  BY <1>9, Zenon
<1> QED
  BY <1>1, <1>2, <1>3, <1>4, <1>5, <1>6, <1>7, <1>8, <1>9, Zenon DEF Next

\* A step adds to what a node sent only entries right after lastApplied, in
\* the order of its log, and moves lastApplied past them.  (In any cluster.)
LEMMA SentGrows ==
    ASSUME TypeInv, Next, NEW p \in Node
    PROVE  \E new \in Seq(ApplyMsg) :
              /\ applied'[p] \o applyCh'[p] = (applied[p] \o applyCh[p]) \o new
              /\ lastApplied[p] + Len(new) <= lastApplied'[p]
              /\ \A i \in 1 .. Len(new) :
                    /\ new[i].index = lastApplied[p] + i
                    /\ new[i].command = log'[p][lastApplied[p] + i].command
<1> DEFINE sent == applied[p] \o applyCh[p]
           Adds(new) == /\ applied'[p] \o applyCh'[p] = sent \o new
                        /\ lastApplied[p] + Len(new) <= lastApplied'[p]
                        /\ \A i \in 1 .. Len(new) :
                              /\ new[i].index = lastApplied[p] + i
                              /\ new[i].command = log'[p][lastApplied[p] + i].command
<1>1. TypeInv'
  BY TypeInvStep
<1>2. /\ applied \in [Node -> Seq(ApplyMsg)] /\ applyCh \in [Node -> Seq(ApplyMsg)]
      /\ lastApplied \in [Node -> Nat] /\ log' \in [Node -> Seq(Entry)]
      /\ applied[p] \in Seq(ApplyMsg) /\ applyCh[p] \in Seq(ApplyMsg)
  BY <1>1 DEF TypeInv, TypeOK
<1>3. sent \in Seq(ApplyMsg)
  BY <1>2, ConcatProperties
<1>4. ASSUME applied'[p] \o applyCh'[p] = sent, lastApplied'[p] = lastApplied[p]
      PROVE  \E new \in Seq(ApplyMsg) : Adds(new)
  <2> HIDE DEF sent
  <2>1. sent \o << >> = sent /\ << >> \in Seq(ApplyMsg) /\ Len(<< >>) = 0
    BY <1>3, ConcatEmptySeq
  <2>2. lastApplied[p] + 0 <= lastApplied[p] /\ 1 .. 0 = {}
    BY <1>2
  <2>3. Adds(<< >>)
    BY <1>4, <2>1, <2>2, Zenon
  <2> QED
    BY <2>1, <2>3, Zenon
<1>5. CASE UNCHANGED <<lastApplied, applyCh, applied>>
  BY <1>4, <1>5, Zenon
<1>6. ASSUME NEW n \in Node, TakeApplied(n) PROVE \E new \in Seq(ApplyMsg) : Adds(new)
  <2>1. lastApplied' = lastApplied
    BY <1>6, Zenon DEF TakeApplied
  <2>2. applied'[p] \o applyCh'[p] = sent
    BY <1>6, TakenStaysSent, Zenon
  <2> QED
    BY <1>4, <2>1, <2>2, Zenon
<1>7. ASSUME NEW n \in Node, NEW c \in Nat, c <= Len(log'[n]) \/ c <= lastApplied[n],
             ApplyCommitted(n, log'[n], c)
      PROVE  \E new \in Seq(ApplyMsg) : Adds(new)
  <2>1. CASE n # p \/ ~(lastApplied[n] < c)
    <3>1. /\ applied' = applied /\ lastApplied'[p] = lastApplied[p]
          /\ applyCh'[p] = applyCh[p]
      BY <1>2, <1>7, <2>1, Zenon DEF ApplyCommitted
    <3> QED
      BY <1>4, <3>1, Zenon
  <2>2. CASE n = p /\ lastApplied[n] < c
    <3>1. c <= Len(log'[p]) /\ lastApplied[p] < c /\ log'[p] \in Seq(Entry)
      BY <1>2, <1>7, <2>2
    <3>2. /\ applied' = applied /\ lastApplied'[p] = c
          /\ applyCh'[p] = Deliver(applyCh[p], log'[p], lastApplied[p], c)
      BY <1>2, <1>7, <2>2, Zenon DEF ApplyCommitted
    <3> DEFINE a == applied[p]  ch == applyCh[p]  from == lastApplied[p]  xlog == log'[p]
    <3>a. /\ a \in Seq(ApplyMsg) /\ ch \in Seq(ApplyMsg) /\ xlog \in Seq(Entry)
          /\ from \in Nat /\ from < c /\ c <= Len(xlog)
      BY <1>2, <3>1
    <3> HIDE DEF a, ch, from, xlog
    <3>b. PICK new \in Seq(ApplyMsg) :
            /\ Deliver(ch, xlog, from, c) = ch \o new
            /\ Len(new) <= c - from
            /\ \A i \in 1 .. Len(new) :
                  new[i].index = from + i /\ new[i].command = xlog[from + i].command
      BY <3>a, DeliverAppends, Zenon
    <3>c. (a \o ch) \o new = a \o (ch \o new)
      BY <3>a, ConcatAssociative, SMTT(30)
    <3>3. /\ Len(new) <= c - lastApplied[p]
          /\ \A i \in 1 .. Len(new) :
                /\ new[i].index = lastApplied[p] + i
                /\ new[i].command = log'[p][lastApplied[p] + i].command
      BY <3>b, Zenon DEF from, xlog
    <3>4. applied'[p] \o applyCh'[p] = sent \o new
      BY <3>2, <3>b, <3>c, Zenon DEF a, ch, from, xlog
    <3>5. lastApplied[p] + Len(new) <= lastApplied'[p]
      BY <1>2, <1>7, <3>2, <3>3, LenProperties, SMTT(30)
    <3> QED
      BY <3>3, <3>4, <3>5, Zenon
  <2> QED
    BY <2>1, <2>2, Zenon
<1> QED
  BY <1>5, <1>6, <1>7, CommitStep, Zenon

-----------------------------------------------------------------------------
(* The invariant and the theorem.                                          *)

\* SentInv is inductive with LogInv.
LEMMA SentInvStep ==
    ASSUME LogInv, SentInv, Next
    PROVE  SentInv'
<1> SUFFICES ASSUME NEW n \in Node
             PROVE  \A i \in 1 .. Len(applied'[n] \o applyCh'[n]) :
                      LET s == applied'[n] \o applyCh'[n]
                      IN  /\ s[i].index \in 1 .. lastApplied'[n]
                          /\ s[i].command = log'[n][s[i].index].command
                          /\ \A j \in 1 .. i - 1 : s[j].index < s[i].index
  BY Zenon DEF SentInv, Sent
<1> DEFINE old  == applied[n] \o applyCh[n]
           now  == applied'[n] \o applyCh'[n]
           done == lastApplied[n]
           xlog == log[n]
           ylog == log'[n]
<1>1. TypeInv /\ TypeInv'
  BY TypeInvStep DEF LogInv
<1>2. /\ old \in Seq(ApplyMsg) /\ done \in Nat /\ lastApplied'[n] \in Nat
      /\ Len(xlog) \in Nat /\ Len(ylog) \in Nat
  <2>1. applied[n] \in Seq(ApplyMsg) /\ applyCh[n] \in Seq(ApplyMsg)
    BY <1>1 DEF TypeInv, TypeOK
  <2>2. log[n] \in Seq(Entry) /\ log'[n] \in Seq(Entry)
    BY <1>1 DEF TypeInv, TypeOK
  <2>3. lastApplied[n] \in Nat /\ lastApplied'[n] \in Nat
    BY <1>1 DEF TypeInv, TypeOK
  <2> QED
    BY <2>1, <2>2, <2>3, ConcatProperties, LenProperties
<1>3. done <= Len(xlog) /\ \A i \in 1 .. Len(xlog) : ylog[i] = xlog[i]
  <2>1. done <= Len(xlog)
    BY DEF LogInv, ReplicationInv, AppliedBound
  <2>2. Grows(n)
    BY LogsGrow
  <2> QED
    BY <2>1, <2>2 DEF Grows
<1>4. \A i \in 1 .. Len(old) :
        /\ old[i].index \in 1 .. done
        /\ old[i].command = xlog[old[i].index].command
        /\ \A j \in 1 .. i - 1 : old[j].index < old[i].index
  BY Zenon DEF SentInv, Sent
<1>5. PICK new \in Seq(ApplyMsg) :
        /\ now = old \o new
        /\ done + Len(new) <= lastApplied'[n]
        /\ \A i \in 1 .. Len(new) :
              new[i].index = done + i /\ new[i].command = ylog[done + i].command
  BY <1>1, SentGrows, Zenon
<1> HIDE DEF old, now, done, xlog, ylog
<1>6. /\ Len(old) \in Nat /\ Len(new) \in Nat /\ Len(now) = Len(old) + Len(new)
      /\ \A i \in 1 .. Len(old) : now[i] = old[i]
      /\ \A i \in 1 .. Len(new) : now[Len(old) + i] = new[i]
  <2>1. /\ Len(old \o new) = Len(old) + Len(new)
        /\ \A i \in 1 .. Len(old) + Len(new) :
              (old \o new)[i] = IF i <= Len(old) THEN old[i] ELSE new[i - Len(old)]
    BY <1>2, ConcatProperties
  <2>2. Len(old) \in Nat /\ Len(new) \in Nat
    BY <1>2, LenProperties
  <2>3. /\ Len(now) = Len(old) + Len(new)
        /\ \A i \in 1 .. Len(old) + Len(new) :
              now[i] = IF i <= Len(old) THEN old[i] ELSE new[i - Len(old)]
    BY <1>5, <2>1, Zenon
  <2>4. ASSUME NEW i \in 1 .. Len(new) PROVE now[Len(old) + i] = new[i]
    <3>1. /\ Len(old) + i \in 1 .. Len(old) + Len(new)
          /\ ~(Len(old) + i <= Len(old)) /\ (Len(old) + i) - Len(old) = i
      BY <2>2
    <3> QED
      BY <2>3, <3>1, Zenon
  <2>5. \A i \in 1 .. Len(old) : now[i] = old[i]
    BY <2>2, <2>3
  <2> QED
    BY <2>2, <2>3, <2>4, <2>5, SMTT(30)
<1>7. ASSUME NEW i \in 1 .. Len(now)
      PROVE  \/ i \in 1 .. Len(old)
             \/ \E k \in 1 .. Len(new) : i = Len(old) + k
  <2>1. CASE i > Len(old)
    <3>1. i - Len(old) \in 1 .. Len(new) /\ i = Len(old) + (i - Len(old))
      BY <1>6, <2>1
    <3> QED
      BY <3>1, Zenon
  <2>2. CASE ~(i > Len(old))
    BY <1>6, <2>2
  <2> QED
    BY <2>1, <2>2
<1>8. ASSUME NEW i \in 1 .. Len(now)
      PROVE  /\ now[i].index \in 1 .. lastApplied'[n]
             /\ now[i].command = ylog[now[i].index].command
             /\ \A j \in 1 .. i - 1 : now[j].index < now[i].index
  <2>1. CASE i \in 1 .. Len(old)
    <3>1. /\ old[i].index \in 1 .. done /\ old[i].command = xlog[old[i].index].command
          /\ now[i] = old[i]
      BY <1>4, <1>6, <2>1, SMTT(30)
    <3>2. old[i].index \in 1 .. Len(xlog) /\ old[i].index \in 1 .. lastApplied'[n]
      BY <1>2, <1>3, <1>5, <1>6, <3>1, SMTT(30)
    <3>3. \A j \in 1 .. i - 1 : j \in 1 .. Len(old)
      BY <1>6, <2>1
    <3>4. \A j \in 1 .. i - 1 : now[j].index < now[i].index
      BY <1>4, <1>6, <2>1, <3>1, <3>3, Zenon
    <3> QED
      BY <1>3, <3>1, <3>2, <3>4, SMTT(30)
  <2>2. ASSUME NEW k \in 1 .. Len(new), i = Len(old) + k
        PROVE  /\ now[i].index \in 1 .. lastApplied'[n]
               /\ now[i].command = ylog[now[i].index].command
               /\ \A j \in 1 .. i - 1 : now[j].index < now[i].index
    <3>1. /\ now[i].index = done + k /\ now[i].command = ylog[done + k].command
      BY <1>5, <1>6, <2>2
    <3>2. done + k \in 1 .. lastApplied'[n]
      BY <1>2, <1>5, <1>6
    <3>3. ASSUME NEW j \in 1 .. i - 1 PROVE now[j].index < done + k
      <4>1. j \in 1 .. Len(now)
        BY <1>6
      <4>2. CASE j \in 1 .. Len(old)
        <5>1. now[j].index \in 1 .. done
          BY <1>4, <1>6, <4>2
        <5> QED
          BY <1>2, <1>6, <5>1, SMTT(30)
      <4>3. ASSUME NEW l \in 1 .. Len(new), j = Len(old) + l
            PROVE  now[j].index < done + k
        <5>1. now[j].index = done + l
          BY <1>5, <1>6, <4>3
        <5>2. l < k
          BY <1>6, <2>2, <4>3, SMTT(30)
        <5> QED
          BY <1>2, <1>6, <5>1, <5>2, SMTT(30)
      <4> QED
        BY <1>7, <4>1, <4>2, <4>3, SMTT(30)
    <3> QED
      BY <3>1, <3>2, <3>3
  <2> QED
    BY <1>7, <2>1, <2>2
<1> QED
  BY <1>8, ZenonT(60) DEF now, ylog

\* In a cluster of at most three nodes no two nodes ever send different
\* commands for the same index to their state machines, and each sends indexes
\* in increasing order, whatever applyCommitted drops when applyCh is full.
THEOREM StateMachinesAgree ==
    ASSUME SmallCluster, ~LateReads
    PROVE  Spec => []StateMachineSafety
<1>1. ASSUME Init PROVE SentInv
  <2>1. \A n \in Node : Sent(n) = << >>
    BY <1>1 DEF Init, Sent
  <2>2. \A n \in Node : 1 .. Len(Sent(n)) = {}
    BY <2>1
  <2> QED
    BY <2>2, Zenon DEF SentInv
<1>2. ASSUME LogInv, SentInv, [Next]_vars PROVE SentInv'
  <2>1. CASE UNCHANGED vars
    <3>1. UNCHANGED <<log, lastApplied, applied, applyCh>>
      BY <2>1, Zenon DEF vars, commitVars
    <3>2. \A n : (Sent(n))' = Sent(n)
      BY <3>1, Zenon DEF Sent
    <3> QED
      BY <1>2, <3>1, <3>2, Zenon DEF SentInv
  <2> QED
    BY <1>2, <2>1, SentInvStep, SMTT(30)
<1>3. ASSUME LogInv, SentInv PROVE StateMachineSafety
  <2>1. ASSUME NEW n \in Node PROVE Sent(n) \in Seq(ApplyMsg)
    <3>1. applied[n] \in Seq(ApplyMsg) /\ applyCh[n] \in Seq(ApplyMsg)
      BY <1>3 DEF LogInv, TypeInv, TypeOK
    <3> QED
      BY <3>1, ConcatProperties DEF Sent
  <2>2. ASSUME NEW n \in Node, NEW i \in DOMAIN Sent(n)
        PROVE  i \in 1 .. Len(Sent(n)) /\ Sent(n)[i] \in ApplyMsg
    BY <2>1, ElementOfSeq, LenProperties
  <2>3. \A n \in Node : Len(log[n]) \in Nat /\ lastApplied[n] \in Nat
    BY <1>3, LenProperties DEF LogInv, TypeInv, TypeOK
  <2> SUFFICES ASSUME NEW n \in Node, NEW m \in Node,
                      NEW i \in DOMAIN Sent(n), NEW j \in DOMAIN Sent(m)
               PROVE  /\ Sent(n)[i].index = Sent(m)[j].index => Sent(n)[i] = Sent(m)[j]
                      /\ n = m /\ i < j => Sent(n)[i].index < Sent(n)[j].index
    BY Zenon DEF StateMachineSafety
  <2> DEFINE x == Sent(n)[i]  y == Sent(m)[j]
  <2>4. /\ x \in ApplyMsg /\ x.index \in 1 .. lastApplied[n]
        /\ x.command = log[n][x.index].command
    BY <1>3, <2>2, Zenon DEF SentInv
  <2>5. /\ y \in ApplyMsg /\ y.index \in 1 .. lastApplied[m]
        /\ y.command = log[m][y.index].command
    BY <1>3, <2>2, Zenon DEF SentInv
  <2>6. ASSUME x.index = y.index PROVE x = y
    <3> HIDE DEF x, y
    <3>1. lastApplied[n] <= Len(log[n]) /\ lastApplied[n] <= Len(log[m])
      BY <1>3 DEF LogInv, ReplicationInv, AppliedBound
    <3>2. x.index \in 1 .. Len(log[n]) /\ x.index <= Len(log[m])
      BY <2>3, <2>4, <3>1, SMTT(30)
    <3>3. log[n][x.index] = log[m][x.index]
      BY <1>3, <3>2 DEF LogInv, LogsInv, LogsAgree
    <3> QED
      BY <2>4, <2>5, <2>6, <3>3, SMTT(30) DEF ApplyMsg
  <2>7. ASSUME n = m, i < j PROVE Sent(n)[i].index < Sent(n)[j].index
    <3>1. j \in 1 .. Len(Sent(n)) /\ i \in 1 .. j - 1
      BY <2>1, <2>2, <2>7, LenProperties
    <3> QED
      BY <1>3, <3>1, Zenon DEF SentInv
  <2> QED
    BY <2>6, <2>7, Zenon
<1> QED
  BY <1>1, <1>2, <1>3, LogInvariant, PTL DEF Spec

=============================================================================
