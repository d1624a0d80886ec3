---------------------------- MODULE DeliverProofs ----------------------------
(***************************************************************************)
(* The actions that receive a call or a response, the client's and the     *)
(* transport's keep the inductive invariant.                               *)
(***************************************************************************)
EXTENDS StepProofs

\* A call with its flag set or reset is a call with the same argument.
LEMMA CallFlag ==
    /\ \A c \in ProposeCall : /\ Failed(c) \in ProposeCall /\ Failed(c).arg = c.arg
                              /\ [c EXCEPT !.failed = FALSE] \in ProposeCall
                              /\ [c EXCEPT !.failed = FALSE].arg = c.arg
    /\ \A c \in VoteCall : Failed(c) \in VoteCall /\ [c EXCEPT !.failed = FALSE] \in VoteCall
    /\ \A c \in NoticeCall : Failed(c) \in NoticeCall
<1>1. ASSUME NEW c \in ProposeCall
      PROVE  /\ Failed(c) \in ProposeCall /\ Failed(c).arg = c.arg
             /\ [c EXCEPT !.failed = FALSE] \in ProposeCall
             /\ [c EXCEPT !.failed = FALSE].arg = c.arg
  BY Zenon DEF ProposeCall, Failed
<1>2. ASSUME NEW c \in VoteCall
      PROVE  Failed(c) \in VoteCall /\ [c EXCEPT !.failed = FALSE] \in VoteCall
  BY Zenon DEF VoteCall, Failed
<1>3. ASSUME NEW c \in NoticeCall PROVE Failed(c) \in NoticeCall
  BY Zenon DEF NoticeCall, Failed
<1> QED BY <1>1, <1>2, <1>3

\* What is left of the calls when one of them has been handled.
LEMMA HandledCalls ==
    ASSUME CallsOK, NEW cs, NEW c, NEW refused, NEW h \in Handled(cs, c, refused)
    PROVE  h.calls \subseteq cs \cup {Failed(c)} /\ h.errors \in 0 .. MaxErrors
<1>1. errors \in 0 .. MaxErrors /\ MaxErrors \in Nat
  BY ServeAssumption DEF CallsOK
<1> QED BY <1>1 DEF Handled

\* The same for each kind of call.
LEMMA HandledPropose ==
    ASSUME CallsOK, NEW c \in proposeCalls, NEW refused,
           \E h \in Handled(proposeCalls, c, refused) : proposeCalls' = h.calls /\ errors' = h.errors
    PROVE  /\ proposeCalls' \subseteq ProposeCall /\ errors' \in 0 .. MaxErrors
           /\ \A x \in proposeCalls' : ProposalOK(x.arg)
<1>1. /\ proposeCalls' \subseteq proposeCalls \cup {Failed(c)} /\ errors' \in 0 .. MaxErrors
  BY HandledCalls
<1>2. Failed(c) \in ProposeCall /\ ProposalOK(Failed(c).arg)
  BY CallFlag, Zenon DEF CallsOK
<1> QED BY <1>1, <1>2 DEF CallsOK

\* The same for votes.
LEMMA HandledVote ==
    ASSUME CallsOK, NEW c \in voteCalls, NEW refused,
           \E h \in Handled(voteCalls, c, refused) : voteCalls' = h.calls /\ errors' = h.errors
    PROVE  voteCalls' \subseteq VoteCall /\ errors' \in 0 .. MaxErrors
<1>1. /\ voteCalls' \subseteq voteCalls \cup {Failed(c)} /\ errors' \in 0 .. MaxErrors
  BY HandledCalls
<1>2. Failed(c) \in VoteCall
  BY CallFlag, Zenon DEF CallsOK
<1> QED BY <1>1, <1>2 DEF CallsOK

\* The same for notices.
LEMMA HandledNotice ==
    ASSUME CallsOK, NEW c \in noticeCalls, NEW refused,
           \E h \in Handled(noticeCalls, c, refused) : noticeCalls' = h.calls /\ errors' = h.errors
    PROVE  noticeCalls' \subseteq NoticeCall /\ errors' \in 0 .. MaxErrors
<1>1. /\ noticeCalls' \subseteq noticeCalls \cup {Failed(c)} /\ errors' \in 0 .. MaxErrors
  BY HandledCalls
<1>2. Failed(c) \in NoticeCall
  BY CallFlag DEF CallsOK
<1> QED BY <1>1, <1>2 DEF CallsOK

-----------------------------------------------------------------------------
\* Receiving a proposal, and its response, keeps the invariant.
LEMMA ReceiveProposalAheadOK ==
    ASSUME PeersOK, VotesOK, CallsOK, NEW p \in Node, NEW c \in proposeCalls,
           ReceiveProposalAhead(p, c)
    PROVE  Kept
<1>1. /\ UNCHANGED <<state, blockchain, signed>>
      /\ \E h \in Handled(proposeCalls, c, TRUE) : proposeCalls' = h.calls /\ errors' = h.errors
      /\ UNCHANGED <<voteCalls, noticeCalls, chainReplies, txCalls, unsent, panicked>>
      /\ chainRequests' \subseteq chainRequests \cup {[from |-> p, to |-> k] : k \in Node}
  BY Zenon DEF ReceiveProposalAhead
<1>2. PeersOK' /\ VotesOK' /\ Ahead
  BY <1>1, NoPeerStep
<1>3. /\ proposeCalls' \subseteq ProposeCall /\ errors' \in 0 .. MaxErrors
      /\ \A x \in proposeCalls' : ProposalOK(x.arg)
  BY <1>1, HandledPropose, ZenonT(30)
<1>4. chainRequests' \subseteq [from : Node, to : Node]
  BY <1>1 DEF CallsOK
<1>5. CallsOK'
  BY <1>1, <1>3, <1>4, SMTT(30) DEF CallsOK
<1> QED BY <1>2, <1>5, SMTT(30) DEF Kept

\* A proposal kept for later is one of those the invariant speaks of.
LEMMA ReceiveProposalEarlyOK ==
    ASSUME Sizes, PeersOK, VotesOK, CallsOK, NEW p \in Node, NEW c \in proposeCalls,
           ReceiveProposalEarly(p, c)
    PROVE  Kept
<1> DEFINE s == state[p]
           buffer == s.proposalBuffer \cup {c.arg}
           r == [s EXCEPT !.proposalBuffer = buffer]
<1>1. /\ state' = [state EXCEPT ![p] = r]
      /\ \E h \in Handled(proposeCalls, c, FALSE) : proposeCalls' = h.calls /\ errors' = h.errors
      /\ UNCHANGED <<blockchain, voteCalls, noticeCalls, chainRequests, chainReplies, txCalls,
                     unsent, panicked, signed>>
  BY ZenonT(30) DEF ReceiveProposalEarly
<1>2. s \in ServerState /\ \A m \in s.proposalBuffer : ProposalOK(m)
  BY DEF PeersOK
<1>3. c.arg \in Proposal /\ ProposalOK(c.arg)
  BY DEF CallsOK, ProposeCall
<1>4. buffer \in SUBSET Proposal /\ \A m \in buffer : ProposalOK(m)
  BY <1>2, <1>3, ServerStateElim
<1> HIDE DEF buffer
<1>5. /\ r \in ServerState /\ r.proposalBuffer = buffer
      /\ r.round = s.round /\ r.period = s.period /\ r.step = s.step
      /\ r.periodState = s.periodState /\ r.lastPeriodState = s.lastPeriodState
      /\ r.requiredVotes = s.requiredVotes
      /\ r.readyForNextRound = s.readyForNextRound
  BY <1>2, <1>4, SMTT(30) DEF ServerState
<1> HIDE DEF r
<1>6. PeersOK' /\ VotesOK' /\ Ahead
  BY <1>1, <1>4, <1>5, SamePeer, ZenonT(30)
<1>7. /\ proposeCalls' \subseteq ProposeCall /\ errors' \in 0 .. MaxErrors
      /\ \A x \in proposeCalls' : ProposalOK(x.arg)
  BY <1>1, HandledPropose, ZenonT(30)
<1>8. CallsOK'
  BY <1>1, <1>7 DEF CallsOK
<1> QED BY <1>6, <1>8, SMTT(30) DEF Kept

\* A proposal executed now, accepted or denied.
LEMMA ReceiveProposalOK ==
    ASSUME Sizes, PeersOK, VotesOK, CallsOK, NEW p \in Node, NEW c \in proposeCalls,
           ReceiveProposal(p, c)
    PROVE  Kept
<1> DEFINE s == state[p]
           chain == blockchain[p]
           A == {m \in {c.arg} : accepts(s, chain, m)}
<1>1. CASE Panic
  BY <1>1, PanicOK, SMTT(30)
<1>2. CASE ~Panic
  <2>1. /\ Last(chain) # Nil \/ s.periodState.idToBlock[c.arg.peer] # Nil
        /\ \E w \in LastWriters(A) : state' = [state EXCEPT ![p] = executeProposal(s, A, w)]
        /\ \E h \in Handled(proposeCalls, c, FALSE) :
              proposeCalls' = h.calls /\ errors' = h.errors
        /\ UNCHANGED <<blockchain, voteCalls, noticeCalls, chainRequests, chainReplies,
                       txCalls, unsent, panicked, signed>>
    BY <1>2, ZenonT(30) DEF ReceiveProposal
  <2>2. PICK w \in LastWriters(A) : state' = [state EXCEPT ![p] = executeProposal(s, A, w)]
    BY <2>1, ZenonT(30)
  <2>3. s \in ServerState /\ PeerOK(s, chain) /\ \A m \in s.proposalBuffer : ProposalOK(m)
    BY DEF PeersOK
  <2>4. A \in SUBSET Proposal /\ \A m \in A : ProposalOK(m) /\ accepts(s, chain, m)
    BY SMTT(30) DEF CallsOK, ProposeCall
  <2>5. A = {} \/ Last(chain) # Nil
    BY <2>1, ZenonT(30) DEF accepts
  <2> DEFINE e == executeProposal(s, A, w)
  <2> HIDE DEF A
  <2>6. /\ e \in ServerState /\ PeerOK(e, chain) /\ e.proposalBuffer = s.proposalBuffer
        /\ e.round = s.round /\ e.period = s.period /\ e.step = s.step
        /\ e.periodState.softVotes = s.periodState.softVotes
        /\ e.periodState.haveSoftVoted = s.periodState.haveSoftVoted
        /\ e.periodState.certVotes = s.periodState.certVotes
        /\ e.periodState.haveCertVoted = s.periodState.haveCertVoted
        /\ e.periodState.haveNextVotedStep5 = s.periodState.haveNextVotedStep5
    BY <2>3, <2>4, <2>5, ExecuteProposalOK, ZenonT(30)
  <2>7. state' = [state EXCEPT ![p] = e] /\ UNCHANGED <<blockchain, signed>>
    BY <2>1, <2>2, ZenonT(30)
  <2> HIDE DEF e
  <2>8. PeersOK' /\ VotesOK' /\ Ahead
    BY <2>3, <2>6, <2>7, SameVotes, ZenonT(30)
  <2>9. /\ proposeCalls' \subseteq ProposeCall /\ errors' \in 0 .. MaxErrors
        /\ \A x \in proposeCalls' : ProposalOK(x.arg)
    BY <2>1, HandledPropose, ZenonT(30)
  <2>10. CallsOK'
    BY <2>1, <2>9, SMTT(30) DEF CallsOK
  <2> QED BY <2>8, <2>10, SMTT(30) DEF Kept
<1> QED BY <1>1, <1>2, SMTT(30)

\* The response to a proposal.
LEMMA ProposeResponseOK ==
    ASSUME PeersOK, VotesOK, CallsOK, NEW p \in Node, NEW c \in proposeCalls,
           ProposeResponse(p, c)
    PROVE  Kept
<1>1. /\ proposeCalls' \subseteq proposeCalls \cup {[c EXCEPT !.failed = FALSE]}
      /\ UNCHANGED <<state, blockchain, voteCalls, noticeCalls, chainRequests, chainReplies,
                     txCalls, unsent, errors, panicked, signed>>
  BY SMTT(30) DEF ProposeResponse, Responded
<1>2. PeersOK' /\ VotesOK' /\ Ahead
  BY <1>1, NoPeerStep, SMTT(30)
<1>3. [c EXCEPT !.failed = FALSE] \in ProposeCall /\ ProposalOK([c EXCEPT !.failed = FALSE].arg)
  BY CallFlag, SMTT(30) DEF CallsOK
<1>4. CallsOK'
  BY <1>1, <1>3, ZenonT(30) DEF CallsOK
<1> QED BY <1>2, <1>4 DEF Kept

-----------------------------------------------------------------------------
\* A call for a vote that is refused, or not answered, or answered.
LEMMA VoteNotCountedOK ==
    ASSUME PeersOK, VotesOK, CallsOK, NEW p \in Node, NEW c \in voteCalls,
           \/ ReceiveVoteAhead(p, c) \/ ReceiveVoteInvalid(p, c) \/ ReceiveVoteKnown(p, c)
           \/ VoteResponse(p, c)
    PROVE  Kept
<1>1. /\ UNCHANGED <<state, blockchain, signed>>
      /\ UNCHANGED <<proposeCalls, noticeCalls, chainReplies, txCalls, unsent, panicked>>
      /\ chainRequests' \subseteq chainRequests \cup {[from |-> p, to |-> k] : k \in Node}
  BY ZenonT(30) DEF ReceiveVoteAhead, ReceiveVoteInvalid, ReceiveVoteKnown, VoteResponse
<1>2. voteCalls' \subseteq VoteCall /\ errors' \in 0 .. MaxErrors
  <2>1. CASE VoteResponse(p, c)
    <3>1. voteCalls' \subseteq voteCalls \cup {[c EXCEPT !.failed = FALSE]} /\ errors' = errors
      BY <2>1, SMTT(30) DEF VoteResponse, Responded
    <3> QED BY <3>1, CallFlag, SMTT(30) DEF CallsOK
  <2>2. CASE ReceiveVoteAhead(p, c)
    BY <2>2, HandledVote, Zenon DEF ReceiveVoteAhead
  <2>3. CASE ReceiveVoteInvalid(p, c)
    BY <2>3, HandledVote, ZenonT(30) DEF ReceiveVoteInvalid
  <2>4. CASE ReceiveVoteKnown(p, c)
    BY <2>4, HandledVote, ZenonT(30) DEF ReceiveVoteKnown
  <2> QED BY <2>1, <2>2, <2>3, <2>4
<1>3. PeersOK' /\ VotesOK' /\ Ahead
  BY <1>1, NoPeerStep, SMTT(30)
<1>4. chainRequests' \subseteq [from : Node, to : Node]
  BY <1>1, SMTT(30) DEF CallsOK
<1>5. CallsOK'
  BY <1>1, <1>2, <1>4, ZenonT(30) DEF CallsOK
<1> QED BY <1>3, <1>5 DEF Kept

\* A vote that verifies was signed by its sender, here and now, for a value of the round.
LEMMA VerifiedVote ==
    ASSUME PeersOK, VotesOK, CallsOK, NEW p \in Node, NEW c \in voteCalls,
           verifyVote(state[p], c.arg)
    PROVE  /\ c.arg.peer \in Node /\ c.arg.value \in Value
           /\ c.arg.value \in Hash => OfRound(c.arg.value, state[p].round, state[p].period)
           /\ state[p].round <= MaxRound /\ state[p].period <= MaxPeriod
           /\ c.arg.peer \in SignersIn(signed, c.arg.voteType, c.arg.value,
                                       state[p].round, state[p].period)
           /\ state[p] \in ServerState /\ PeerOK(state[p], blockchain[p])
           /\ CountsOK(state[p], signed) /\ signed \in SUBSET SignedVote
           /\ \A m \in state[p].proposalBuffer : ProposalOK(m)
<1>1. /\ state[p] \in ServerState /\ PeerOK(state[p], blockchain[p])
      /\ CountsOK(state[p], signed) /\ signed \in SUBSET SignedVote
      /\ \A m \in state[p].proposalBuffer : ProposalOK(m)
  BY ZenonT(30) DEF PeersOK, VotesOK
<1>2. c.arg \in Vote
  BY SMTT(30) DEF CallsOK, VoteCall
<1>3. /\ c.arg.peer \in Node /\ c.arg.value \in Value
      /\ c.arg.round <= MaxRound /\ c.arg.period <= MaxPeriod
  BY <1>2, BoundAssumption, SMTT(30) DEF Vote, Rounds, Periods
<1>4. PICK x \in signed : x.vote = c.arg
  BY SMTT(30) DEF verifyVote
<1>5. c.arg.round = state[p].round /\ c.arg.period = state[p].period
  BY SMTT(30) DEF verifyVote
<1>6. c.arg.value \in Hash => OfRound(c.arg.value, c.arg.round, c.arg.period)
  BY <1>4, SMTT(30) DEF VotesOK, VoteOK
<1>7. c.arg.peer \in SignersIn(signed, c.arg.voteType, c.arg.value, c.arg.round, c.arg.period)
  BY <1>4, SMTT(30) DEF SignersIn
<1> QED BY <1>1, <1>3, <1>5, <1>6, <1>7, ZenonT(30)

\* Counting a soft-vote keeps the invariant.
LEMMA ReceiveSoftVoteOK ==
    ASSUME Sizes, PeersOK, VotesOK, CallsOK, NEW p \in Node, NEW c \in voteCalls,
           ReceiveSoftVote(p, c)
    PROVE  Kept
<1> DEFINE s == state[p]
           q == c.arg.peer
           v == c.arg.value
           t == countSoft(s, q, v)
<1>1. /\ c.arg.voteType = "soft" /\ verifyVote(s, c.arg) /\ ~Known(s, c.arg)
      /\ state' = [state EXCEPT ![p] = t]
      /\ \E h \in Handled(voteCalls, c, FALSE) : voteCalls' = h.calls /\ errors' = h.errors
      /\ UNCHANGED <<blockchain, proposeCalls, noticeCalls, chainRequests, chainReplies,
                     txCalls, unsent, panicked, signed>>
  BY Zenon DEF ReceiveSoftVote
<1>2. /\ q \in Node /\ v \in Value /\ (v \in Hash => OfRound(v, s.round, s.period))
      /\ q \in SignersIn(signed, "soft", v, s.round, s.period)
      /\ s \in ServerState /\ PeerOK(s, blockchain[p])
      /\ CountsOK(s, signed) /\ signed \in SUBSET SignedVote
      /\ \A m \in s.proposalBuffer : ProposalOK(m)
  BY <1>1, VerifiedVote, ZenonT(30)
<1>3. q \notin s.periodState.haveSoftVoted
  BY <1>1, SMTT(30) DEF Known
<1>4. CountsOK(t, signed)
  BY <1>2, <1>3, CountsSoft, ZenonT(30)
<1>5. PeerOK(t, blockchain[p])
  BY <1>2, CountSoftOK, ZenonT(30)
<1>6. /\ t \in ServerState /\ Unchanged(t, s)
      /\ t.periodState.haveNextVotedStep5 = s.periodState.haveNextVotedStep5
  BY <1>2, CountSoft, ZenonT(30)
<1> HIDE DEF t, q, v
<1>7. StepOK(p, t, blockchain[p], {})
  <2>1. /\ t.round = s.round /\ t.period = s.period /\ t.step >= s.step
        /\ t.proposalBuffer = s.proposalBuffer
    BY <1>2, <1>6, PlaceType, SMTT(30) DEF Unchanged
  <2> QED BY <1>2, <1>4, <1>5, <1>6, <2>1, QuietStep, ZenonT(30)
<1>8. blockchain' = [blockchain EXCEPT ![p] = blockchain[p]] /\ signed' = signed \cup {}
  BY <1>1, ZenonT(30) DEF PeersOK
<1>9. PeersOK' /\ VotesOK' /\ Ahead
  BY <1>1, <1>7, <1>8, PeerStep, ZenonT(30)
<1>10. voteCalls' \subseteq VoteCall /\ errors' \in 0 .. MaxErrors
  BY <1>1, HandledVote, ZenonT(30)
<1>11. CallsOK'
  BY <1>1, <1>10, ZenonT(30) DEF CallsOK
<1> QED BY <1>9, <1>11 DEF Kept

\* Counting a cert-vote, and halting if it was the last one needed, does too.
LEMMA ReceiveCertVoteOK ==
    ASSUME Sizes, PeersOK, VotesOK, CallsOK, NEW p \in Node, NEW c \in voteCalls,
           ReceiveCertVote(p, c)
    PROVE  Kept
<1> DEFINE s == state[p]
           q == c.arg.peer
           v == c.arg.value
           t == countCert(s, q, v)
<1>1. /\ c.arg.voteType = "cert" /\ verifyVote(s, c.arg) /\ ~Known(s, c.arg)
      /\ HaltOrNot(p, t)
      /\ \E h \in Handled(voteCalls, c, FALSE) : voteCalls' = h.calls /\ errors' = h.errors
      /\ UNCHANGED <<proposeCalls, chainRequests, chainReplies, txCalls, unsent, panicked, signed>>
  BY ZenonT(30) DEF ReceiveCertVote
<1>2. /\ q \in Node /\ v \in Value /\ (v \in Hash => OfRound(v, s.round, s.period))
      /\ q \in SignersIn(signed, "cert", v, s.round, s.period) /\ s.round <= MaxRound
      /\ s \in ServerState /\ PeerOK(s, blockchain[p])
      /\ CountsOK(s, signed) /\ signed \in SUBSET SignedVote
      /\ \A m \in s.proposalBuffer : ProposalOK(m)
  BY <1>1, VerifiedVote, ZenonT(30)
<1>3. q \notin s.periodState.haveCertVoted
  BY <1>1, SMTT(30) DEF Known
<1>4. CountsOK(t, signed)
  BY <1>2, <1>3, CountsCert, ZenonT(30)
<1>5. PeerOK(t, blockchain[p])
  BY <1>2, CountCertOK, ZenonT(30)
<1>6. /\ t \in ServerState /\ Unchanged(t, s)
      /\ t.periodState.haveNextVotedStep5 = s.periodState.haveNextVotedStep5
  BY <1>2, CountCert, ZenonT(30)
<1> HIDE DEF t, q, v
<1>7. /\ t.round = s.round /\ t.period = s.period /\ t.step >= s.step
      /\ t.proposalBuffer = s.proposalBuffer /\ t.round <= MaxRound
  BY <1>2, <1>6, PlaceType, SMTT(30) DEF Unchanged
<1>8. StepOK(p, t, blockchain[p], {})
  BY <1>2, <1>4, <1>5, <1>6, <1>7, QuietStep, ZenonT(30)
<1>9. signed' = signed \cup {}
  BY <1>1, ZenonT(30)
<1>10. PeersOK' /\ VotesOK' /\ Ahead /\ noticeCalls' \subseteq NoticeCall
  BY <1>1, <1>7, <1>8, <1>9, HaltOrNotOK, ZenonT(30)
<1>11. voteCalls' \subseteq VoteCall /\ errors' \in 0 .. MaxErrors
  BY <1>1, HandledVote, ZenonT(30)
<1>12. CallsOK'
  BY <1>1, <1>10, <1>11, ZenonT(30) DEF CallsOK
<1> QED BY <1>10, <1>12, SMTT(30) DEF Kept

\* So does counting a next-vote, and going to the next period.
LEMMA ReceiveNextVoteOK ==
    ASSUME Sizes, PeersOK, VotesOK, CallsOK, NEW p \in Node, NEW c \in voteCalls,
           ReceiveNextVote(p, c)
    PROVE  Kept
<1> DEFINE s == state[p]
           q == c.arg.peer
           v == c.arg.value
           t == countNext(s, q, v, c.arg.step)
<1>1. /\ verifyVote(s, c.arg) /\ NextPeriodOrNot(p, t)
      /\ \E h \in Handled(voteCalls, c, FALSE) : voteCalls' = h.calls /\ errors' = h.errors
      /\ UNCHANGED <<blockchain, proposeCalls, noticeCalls, chainRequests, chainReplies,
                     txCalls, unsent, panicked, signed>>
  BY ZenonT(30) DEF ReceiveNextVote
<1>2. /\ q \in Node /\ v \in Value /\ (v \in Hash => OfRound(v, s.round, s.period))
      /\ s.period <= MaxPeriod
      /\ s \in ServerState /\ PeerOK(s, blockchain[p])
      /\ CountsOK(s, signed) /\ signed \in SUBSET SignedVote
      /\ \A m \in s.proposalBuffer : ProposalOK(m)
  BY <1>1, VerifiedVote, ZenonT(30)
<1>3. PeerOK(t, blockchain[p])
  BY <1>2, CountNextOK, ZenonT(30)
<1>4. /\ t \in ServerState /\ Unchanged(t, s)
      /\ s.periodState.haveNextVotedStep5 \subseteq t.periodState.haveNextVotedStep5
      /\ t.periodState.softVotes = s.periodState.softVotes
      /\ t.periodState.haveSoftVoted = s.periodState.haveSoftVoted
      /\ t.periodState.certVotes = s.periodState.certVotes
      /\ t.periodState.haveCertVoted = s.periodState.haveCertVoted
  BY <1>2, CountNext, SMTT(30)
<1> HIDE DEF t, q, v
<1>5. /\ t.round = s.round /\ t.period = s.period /\ t.step >= s.step
      /\ t.proposalBuffer = s.proposalBuffer /\ t.period <= MaxPeriod
  BY <1>2, <1>4, PlaceType, SMTT(30) DEF Unchanged
<1>6. CountsOK(t, signed)
  BY <1>2, <1>4, <1>5, CountsSame, ZenonT(30)
<1>7. StepOK(p, t, blockchain[p], {})
  BY <1>2, <1>3, <1>4, <1>5, <1>6, QuietStep, ZenonT(30)
<1>8. signed' = signed \cup {} /\ blockchain' = blockchain
  BY <1>1, SMTT(30)
<1>9. PeersOK' /\ VotesOK' /\ Ahead
  BY <1>1, <1>5, <1>7, <1>8, NextPeriodOrNotOK, ZenonT(30)
<1>10. voteCalls' \subseteq VoteCall /\ errors' \in 0 .. MaxErrors
  BY <1>1, HandledVote, ZenonT(30)
<1>11. CallsOK'
  BY <1>1, <1>10, ZenonT(30) DEF CallsOK
<1> QED BY <1>9, <1>11 DEF Kept

-----------------------------------------------------------------------------
\* A peer as it is, as the start of a longer step.
LEMMA Standing ==
    ASSUME PeersOK, VotesOK, NEW p \in Node
    PROVE  /\ StepOK(p, state[p], blockchain[p], {})
           /\ state[p] \in ServerState /\ blockchain[p] \in Chain /\ PeerOK(state[p], blockchain[p])
<1>1. /\ state[p] \in ServerState /\ blockchain[p] \in Chain /\ PeerOK(state[p], blockchain[p])
      /\ CountsOK(state[p], signed) /\ \A m \in state[p].proposalBuffer : ProposalOK(m)
  BY ZenonT(30) DEF PeersOK
<1>2. state[p].step >= state[p].step
  BY <1>1, PlaceType, SMTT(30)
<1> QED BY <1>1, <1>2, QuietStep, ZenonT(30)

\* A notice of the leader makes the peer halt: the peer is in the middle of a round.
LEMMA ReceiveNoticeOK ==
    ASSUME Sizes, PeersOK, VotesOK, CallsOK, NEW p \in Node, NEW c \in noticeCalls,
           ReceiveNotice(p, c)
    PROVE  Kept
<1> DEFINE s == state[p]
           v == c.arg.value
           r == handleHalt(s, v)
           d == Append(blockchain[p], valueToBlock(s.periodState, v))
<1>1. /\ IF c.arg.peer # s.periodState.leader THEN UNCHANGED <<state, blockchain>>
         ELSE state' = [state EXCEPT ![p] = r] /\ blockchain' = [blockchain EXCEPT ![p] = d]
      /\ \E h \in Handled(noticeCalls, c, FALSE) : noticeCalls' = h.calls /\ errors' = h.errors
      /\ UNCHANGED <<proposeCalls, voteCalls, chainRequests, chainReplies, txCalls, unsent,
                     panicked, signed>>
  BY ZenonT(30) DEF ReceiveNotice
<1>2. noticeCalls' \subseteq NoticeCall /\ errors' \in 0 .. MaxErrors
  BY <1>1, HandledNotice, ZenonT(30)
<1>3. CallsOK'
  BY <1>1, <1>2, ZenonT(30) DEF CallsOK
<1>4. CASE c.arg.peer # s.periodState.leader
  BY <1>1, <1>3, <1>4, NoPeerStep, ZenonT(30) DEF Kept
<1>5. CASE c.arg.peer = s.periodState.leader
  <2>1. s.periodState.leader # Empty
    BY <1>5, Reserved, ZenonT(30) DEF CallsOK, NoticeCall
  <2>2. StepOK(p, s, blockchain[p], {}) /\ s.round <= MaxRound
    BY <2>1, Standing DEF PeerOK
  <2>3. StepOK(p, r, d, {})
    BY <2>2, HaltStep
  <2>4. state' = [state EXCEPT ![p] = r] /\ blockchain' = [blockchain EXCEPT ![p] = d]
        /\ signed' = signed \cup {}
    BY <1>1, <1>5
  <2> HIDE DEF r, d
  <2>5. PeersOK' /\ VotesOK' /\ Ahead
    BY <2>3, <2>4, PeerStep
  <2> QED BY <1>3, <2>5, SMTT(30) DEF Kept
<1> QED BY <1>4, <1>5, SMTT(30)

\* Handing out a chain keeps the invariant.
LEMMA ReceiveChainRequestOK ==
    ASSUME PeersOK, VotesOK, CallsOK, NEW p \in Node, NEW c \in chainRequests,
           ReceiveChainRequest(p, c)
    PROVE  Kept
<1> DEFINE x == [to |-> c.from, blockchain |-> blockchain[p], Q |-> state[p].Q]
<1>1. /\ chainRequests' \subseteq chainRequests /\ chainReplies' \subseteq chainReplies \cup {x}
      /\ UNCHANGED <<state, blockchain, proposeCalls, voteCalls, noticeCalls, txCalls, unsent,
                     errors, panicked, signed>>
  BY DEF ReceiveChainRequest
<1>2. PeersOK' /\ VotesOK' /\ Ahead
  BY <1>1, NoPeerStep
<1>3. c.from \in Node /\ state[p].Q \in Seed /\ blockchain[p] \in Chain /\ ChainOK(blockchain[p])
  BY ServerStateElim DEF CallsOK, PeersOK, PeerOK
<1>4. x \in [to : Node, blockchain : Chain, Q : Seed] /\ ChainOK(x.blockchain)
  BY <1>3
<1> HIDE DEF x
<1>5. CallsOK'
  BY <1>1, <1>4 DEF CallsOK
<1> QED BY <1>2, <1>5 DEF Kept

\* Taking over a longer chain keeps the invariant: chains in flight are linked too.
LEMMA ReceiveChainOK ==
    ASSUME Sizes, PeersOK, VotesOK, CallsOK, NEW p \in Node, NEW c \in chainReplies,
           ReceiveChain(p, c)
    PROVE  Kept
<1> DEFINE s == state[p]
           d == c.blockchain
           r == adoptChain(s, d, c.Q)
<1>1. /\ IF Len(d) > Len(blockchain[p])
         THEN state' = [state EXCEPT ![p] = r] /\ blockchain' = [blockchain EXCEPT ![p] = d]
         ELSE UNCHANGED <<state, blockchain>>
      /\ chainReplies' \subseteq chainReplies
      /\ UNCHANGED <<proposeCalls, voteCalls, noticeCalls, chainRequests, txCalls, unsent,
                     errors, panicked, signed>>
  BY DEF ReceiveChain
<1>2. CallsOK'
  BY <1>1 DEF CallsOK
<1>3. CASE ~(Len(d) > Len(blockchain[p]))
  BY <1>1, <1>2, <1>3, NoPeerStep DEF Kept
<1>4. CASE Len(d) > Len(blockchain[p])
  <2>1. d \in Chain /\ ChainOK(d) /\ c.Q \in Seed
    BY DEF CallsOK
  <2>2. /\ StepOK(p, s, blockchain[p], {}) /\ s \in ServerState
        /\ blockchain[p] \in Chain /\ Len(blockchain[p]) = s.round
    BY Standing DEF PeerOK
  <2>3. r \in ServerState /\ PeerOK(r, d)
    BY <2>1, <2>2, AdoptChainOK
  <2>4. /\ r.round = Len(d) /\ r.proposalBuffer = s.proposalBuffer
        /\ r.periodState = initPeriodState(Bottom)
    <3>1. Len(d) \in 1 .. MaxRound + 1
      BY <2>1 DEF ChainOK
    <3>2. s \in ServerState /\ c.Q \in Seed
      BY <2>1, <2>2
    <3> HIDE DEF s, d
    <3> QED BY <3>1, <3>2, AdoptChain, Zenon
  <2>5. state' = [state EXCEPT ![p] = r] /\ blockchain' = [blockchain EXCEPT ![p] = d]
        /\ signed' = signed \cup {}
    BY <1>1, <1>4
  <2> HIDE DEF r, d
  <2>6. r.round > s.round /\ Len(d) >= Len(blockchain[p])
    <3>1. Len(d) \in Nat /\ Len(blockchain[p]) \in Nat
      BY <2>1, <2>2 DEF Chain
    <3> QED BY <1>4, <2>2, <2>4, <3>1
  <2>7. StepOK(p, r, d, {})
    BY <2>1, <2>2, <2>3, <2>4, <2>6, StepFurther
  <2>8. PeersOK' /\ VotesOK' /\ Ahead
    BY <2>5, <2>7, PeerStep
  <2> QED BY <1>2, <2>8 DEF Kept
<1> QED BY <1>3, <1>4

-----------------------------------------------------------------------------
\* A transaction added to a pool.
LEMMA PoolOK ==
    ASSUME Sizes, PeersOK, VotesOK, NEW p \in Node, NEW t \in Tx,
           state' = [state EXCEPT ![p].transactionPool = @ \cup {t}],
           UNCHANGED <<blockchain, signed>>
    PROVE  PeersOK' /\ VotesOK' /\ Ahead
<1> DEFINE s == state[p]
           pool == s.transactionPool \cup {t}
           r == [s EXCEPT !.transactionPool = pool]
<1>1. s \in ServerState /\ \A m \in s.proposalBuffer : ProposalOK(m)
  BY DEF PeersOK
<1>2. pool \in SUBSET Tx
  BY <1>1, ServerStateElim
<1>3. state' = [state EXCEPT ![p] = r]
  OBVIOUS
<1> HIDE DEF pool
<1>4. /\ r \in ServerState /\ r.proposalBuffer = s.proposalBuffer
      /\ r.round = s.round /\ r.period = s.period /\ r.step = s.step
      /\ r.periodState = s.periodState /\ r.lastPeriodState = s.lastPeriodState
      /\ r.requiredVotes = s.requiredVotes
      /\ r.readyForNextRound = s.readyForNextRound
  BY <1>1, <1>2 DEF ServerState
<1> HIDE DEF r
<1> QED BY <1>1, <1>3, <1>4, SamePeer

\* A client's transaction, at the peer it is sent to and at the others.
LEMMA ClientSendOK ==
    ASSUME Sizes, PeersOK, VotesOK, CallsOK, NEW p \in Node, NEW t \in Tx, ClientSend(p, t)
    PROVE  Kept
<1>1. /\ state' = [state EXCEPT ![p].transactionPool = @ \cup {t}]
      /\ unsent' \subseteq unsent
      /\ txCalls' \subseteq txCalls \cup {[to |-> q, tx |-> t] : q \in Node}
      /\ UNCHANGED <<blockchain, signed>>
      /\ UNCHANGED <<proposeCalls, voteCalls, noticeCalls, chainRequests,
                     chainReplies, errors, panicked>>
  BY DEF ClientSend
<1>2. PeersOK' /\ VotesOK' /\ Ahead
  BY <1>1, PoolOK
<1>3. CallsOK'
  BY <1>1 DEF CallsOK
<1> QED BY <1>2, <1>3 DEF Kept

\* The same at another peer.
LEMMA AppendTransactionOK ==
    ASSUME Sizes, PeersOK, VotesOK, CallsOK, NEW p \in Node, NEW c \in txCalls, AppendTransaction(p, c)
    PROVE  Kept
<1>1. /\ state' = [state EXCEPT ![p].transactionPool = @ \cup {c.tx}]
      /\ txCalls' \subseteq txCalls
      /\ UNCHANGED <<blockchain, signed>>
      /\ UNCHANGED <<proposeCalls, voteCalls, noticeCalls, chainRequests,
                     chainReplies, unsent, errors, panicked>>
  BY DEF AppendTransaction
<1>2. c.tx \in Tx
  BY DEF CallsOK
<1>3. PeersOK' /\ VotesOK' /\ Ahead
  BY <1>1, <1>2, PoolOK
<1>4. CallsOK'
  BY <1>1 DEF CallsOK
<1> QED BY <1>3, <1>4 DEF Kept

\* A transport error keeps the invariant.
LEMMA TransportErrorOK ==
    ASSUME PeersOK, VotesOK, CallsOK, TransportError
    PROVE  Kept
<1>1. UNCHANGED <<state, blockchain, signed>> /\ UNCHANGED <<unsent, panicked>>
      /\ errors < MaxErrors /\ errors' = errors + 1
  BY DEF TransportError
<1>2. PeersOK' /\ VotesOK' /\ Ahead
  BY <1>1, NoPeerStep
<1>3. errors' \in 0 .. MaxErrors
  BY <1>1, ServeAssumption DEF CallsOK
<1>4. /\ proposeCalls' \subseteq proposeCalls \cup {Failed(c) : c \in proposeCalls}
      /\ voteCalls' \subseteq voteCalls \cup {Failed(c) : c \in voteCalls}
      /\ noticeCalls' \subseteq noticeCalls \cup {Failed(c) : c \in noticeCalls}
      /\ chainRequests' \subseteq chainRequests /\ chainReplies' \subseteq chainReplies
      /\ txCalls' \subseteq txCalls
  BY DEF TransportError
<1>5. /\ \A c \in proposeCalls' : c \in ProposeCall /\ ProposalOK(c.arg)
      /\ voteCalls' \subseteq VoteCall /\ noticeCalls' \subseteq NoticeCall
  <2>1. \A c \in proposeCalls : /\ c \in ProposeCall /\ ProposalOK(c.arg)
                                /\ Failed(c) \in ProposeCall /\ ProposalOK(Failed(c).arg)
    BY CallFlag DEF CallsOK
  <2>2. \A c \in voteCalls : c \in VoteCall /\ Failed(c) \in VoteCall
    BY CallFlag DEF CallsOK
  <2>3. \A c \in noticeCalls : c \in NoticeCall /\ Failed(c) \in NoticeCall
    BY CallFlag DEF CallsOK
  <2> QED BY <1>4, <2>1, <2>2, <2>3
<1>6. CallsOK'
  BY <1>1, <1>3, <1>4, <1>5 DEF CallsOK
<1> QED BY <1>2, <1>6 DEF Kept

\* Receiving any call or response keeps the invariant.
LEMMA DeliverOK ==
    ASSUME Sizes, PeersOK, VotesOK, CallsOK, NEW p \in Node, Deliver(p)
    PROVE  Kept
<1>1. CASE \E c \in proposeCalls : \/ ReceiveProposalAhead(p, c) \/ ReceiveProposalEarly(p, c)
                                   \/ ReceiveProposal(p, c) \/ ProposeResponse(p, c)
  BY <1>1, ReceiveProposalAheadOK, ReceiveProposalEarlyOK, ReceiveProposalOK, ProposeResponseOK
<1>2. CASE \E c \in voteCalls : \/ ReceiveVoteAhead(p, c) \/ ReceiveVoteInvalid(p, c)
                                \/ ReceiveSoftVote(p, c) \/ ReceiveCertVote(p, c)
                                \/ ReceiveNextVote(p, c) \/ VoteResponse(p, c)
  BY <1>2, VoteNotCountedOK, ReceiveSoftVoteOK, ReceiveCertVoteOK, ReceiveNextVoteOK
<1>3. CASE \E c \in noticeCalls : ReceiveNotice(p, c) \/ NoticeResponse(p, c)
  BY <1>3, ReceiveNoticeOK, PanicOK DEF NoticeResponse
<1>4. CASE \/ \E c \in chainRequests : ReceiveChainRequest(p, c)
           \/ \E c \in chainReplies : ReceiveChain(p, c)
           \/ \E c \in txCalls : AppendTransaction(p, c)
  BY <1>4, ReceiveChainRequestOK, ReceiveChainOK, AppendTransactionOK
<1> QED BY <1>1, <1>2, <1>3, <1>4 DEF Deliver

=============================================================================
