------------------------------- MODULE RaftMC -------------------------------
EXTENDS Raft, TLC

\* NewCluster gives every node all the others as peers.
AllOthers == [n \in Node |-> Node \ {n}]

NodeSymmetry == Permutations(Timers) \cup Permutations(Node \ Timers)
DataSymmetry == NodeSymmetry \cup Permutations(Command)

Awaits(n, st, term) == state[n] = st /\ currentTerm[n] = term

LiveVoteReqs ==
    {r \in voteReqs : \/ r.term >= currentTerm[r.to]
                       \/ Awaits(r.from, "Candidate", r.term)}

LiveVoteResps == {r \in voteResps : Awaits(r.from, "Candidate", r.reqTerm)}

LiveTallies ==
    {<<c.from, c.election, votesReceived[c.from][c.election]>> :
        c \in voteCalls \union LiveVoteResps \union
             {r \in voteReqs : Awaits(r.from, "Candidate", r.term)}}

LiveState ==
    <<termVars, log, commitVars, elected, voteCalls,
      LiveVoteReqs, LiveVoteResps, LiveTallies,
      [n \in Node |-> IF state[n] = "Leader" THEN <<nextIndex[n], matchIndex[n]>>
                                             ELSE << >>],
      {r \in appendReqs : \/ r.term >= currentTerm[r.to]
                          \/ Awaits(r.from, "Leader", r.term)},
      {r \in appendResps : Awaits(r.from, "Leader", r.reqTerm)}>>

Unsent == {<<n, p>> \in Node \X Node :
             /\ state[n] = "Leader" /\ p \in Peers[n]
             /\ AppendEntriesRequest(n, p) \notin appendReqs}
EagerSend == Unsent # {} => appendReqs' # appendReqs
=============================================================================
