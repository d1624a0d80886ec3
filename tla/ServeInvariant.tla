---------------------------- MODULE ServeInvariant ----------------------------
(***************************************************************************)
(* The inductive invariant from which ServeProofs derives the properties   *)
(* of ServeProperties.  It is checked with TLC as an invariant too.        *)
(***************************************************************************)
EXTENDS ServeProperties, PeerInvariant

MessagesOK ==
    /\ \A c \in proposeCalls : ProposalOK(c.arg)
    /\ \A p \in Node : \A m \in state[p].proposalBuffer : ProposalOK(m)
    /\ \A c \in chainReplies : ChainOK(c.blockchain)

\* A vote of peer p is for a hash of its round, and lies behind p.
VoteOK(x, s) ==
    /\ x.vote.value \in Hash => OfRound(x.vote.value, x.vote.round, x.vote.period)
    /\ x.vote.voteType = "soft" => x.vote.step = 2
    /\ Reached(s, x.vote.round, x.vote.period, x.vote.step)
    /\ x.vote.round = s.round /\ x.vote.period = s.period /\ x.vote.step = 5
          => x.vote.peer \in s.periodState.haveNextVotedStep5

\* The voters behind each count, among those marked as having voted.
CountsOK(s, votes) ==
    \A v \in Value :
        /\ s.periodState.softVotes[v] <= Cardinality(
              s.periodState.haveSoftVoted \cap SignersIn(votes, "soft", v, s.round, s.period))
        /\ s.periodState.certVotes[v] <= Cardinality(
              s.periodState.haveCertVoted \cap SignersIn(votes, "cert", v, s.round, s.period))

IndInv ==
    /\ TypeOK
    /\ \A p \in Node : PeerOK(state[p], blockchain[p])
    /\ MessagesOK
    /\ \A x \in signed : VoteOK(x, state[x.vote.peer])
    /\ OneVotePerStep
    /\ \A p \in Node : CountsOK(state[p], signed)
    /\ CertsBacked

=============================================================================
