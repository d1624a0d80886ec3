----------------------------- MODULE StepProofs -----------------------------
(***************************************************************************)
(* What every action has in common: a step of one peer that satisfies      *)
(* StepOK keeps the inductive invariant, and so does halting or going to   *)
(* the next period on top of it.                                           *)
(***************************************************************************)
EXTENDS VoteProofs, PeerProofs

\* What the invariant says of one peer.
LEMMA PeerFacts ==
    ASSUME PeersOK, NEW p \in Node
    PROVE  /\ state[p] \in ServerState /\ blockchain[p] \in Chain
           /\ PeerOK(state[p], blockchain[p]) /\ CountsOK(state[p], signed)
           /\ \A m \in state[p].proposalBuffer : ProposalOK(m)
BY DEF PeersOK

\* A step that, on top of StepOK, takes the peer to a later round or period.
LEMMA StepFurther ==
    ASSUME Sizes, PeersOK, VotesOK, NEW p \in Node, NEW s, NEW c, NEW cast, StepOK(p, s, c, cast),
           NEW r \in ServerState, NEW d \in Chain, PeerOK(r, d), Len(d) >= Len(c),
           r.proposalBuffer = s.proposalBuffer,
           NEW start, r.periodState = initPeriodState(start),
           r.round > s.round \/ (r.round = s.round /\ r.period > s.period)
    PROVE  StepOK(p, r, d, cast)
<1>1. s \in ServerState /\ c \in Chain /\ state[p] \in ServerState /\ blockchain[p] \in Chain
      /\ signed \cup cast \subseteq SignedVote
  BY DEF StepOK, PeersOK, VotesOK
<1>2. s.round \in Nat /\ s.period \in Nat /\ s.step \in Nat
  BY <1>1, PlaceType
<1>3. r.round \in Nat /\ r.period \in Nat /\ r.step \in Nat
  BY PlaceType
<1>4. state[p].round \in Nat /\ state[p].period \in Nat /\ state[p].step \in Nat
  BY <1>1, PlaceType
<1>5. NotBefore(r, s)
  BY <1>2, <1>3 DEF NotBefore, Reached
<1>6. /\ NotBefore(r, state[p])
      /\ ~ (r.round = state[p].round /\ r.period = state[p].period)
  <2>1. NotBefore(s, state[p])
    BY DEF StepOK
  <2> QED BY <1>2, <1>3, <1>4, <2>1, SMTT(30) DEF NotBefore, Reached
<1>7. Len(d) >= Len(blockchain[p])
  <2>1. Len(c) >= Len(blockchain[p])
    BY DEF StepOK
  <2>2. Len(c) \in Nat /\ Len(d) \in Nat /\ Len(blockchain[p]) \in Nat
    BY <1>1 DEF Chain
  <2> QED BY <2>1, <2>2
<1>8. CountsOK(r, signed \cup cast)
  BY <1>1, CountsReset
<1>9. ASSUME NEW x \in cast PROVE VoteOK(x, r)
  <2>1. x \in SignedVote /\ VoteOK(x, s)
    BY DEF StepOK
  <2>2. ~ (r.round = s.round /\ r.period = s.period)
    BY <1>2, <1>3
  <2> QED BY <1>1, <1>5, <2>1, <2>2, VoteForward
<1> QED BY <1>6, <1>7, <1>8, <1>9 DEF StepOK

\* Halting on top of a step.
LEMMA HaltStep ==
    ASSUME Sizes, PeersOK, VotesOK, NEW p \in Node, NEW s, NEW cast, StepOK(p, s, blockchain[p], cast),
           s.round <= MaxRound, NEW v
    PROVE  StepOK(p, handleHalt(s, v), Append(blockchain[p], valueToBlock(s.periodState, v)), cast)
<1> DEFINE r == handleHalt(s, v)
           d == Append(blockchain[p], valueToBlock(s.periodState, v))
<1>1. s \in ServerState /\ blockchain[p] \in Chain /\ PeerOK(s, blockchain[p])
  BY DEF StepOK
<1>2. d \in Chain /\ PeerOK(r, d) /\ Len(d) = Len(blockchain[p]) + 1
  BY <1>1, HandleHaltOK
<1>3. /\ r \in ServerState /\ r.round = s.round + 1 /\ r.proposalBuffer = s.proposalBuffer
      /\ r.periodState = initPeriodState(Bottom)
  BY <1>1, HandleHalt, Zenon
<1> HIDE DEF r, d
<1>4. Len(d) >= Len(blockchain[p])
  BY <1>1, <1>2 DEF Chain
<1>5. r.round > s.round
  BY <1>1, <1>3, PlaceType
<1>6. StepOK(p, r, d, cast)
  BY <1>2, <1>3, <1>4, <1>5, StepFurther
<1> QED BY <1>6 DEF r, d

\* Going to the next period on top of a step.
LEMMA NextPeriodStep ==
    ASSUME Sizes, PeersOK, VotesOK, NEW p \in Node, NEW s, NEW cast, StepOK(p, s, blockchain[p], cast),
           s.period <= MaxPeriod, NEW v \in MostVoted(s.periodState.nextVotes),
           s.periodState.nextVotes[v] >= s.requiredVotes
    PROVE  StepOK(p, handleNextPeriod(s, v), blockchain[p], cast)
<1> DEFINE r == handleNextPeriod(s, v)
<1>1. s \in ServerState /\ blockchain[p] \in Chain /\ PeerOK(s, blockchain[p])
  BY DEF StepOK
<1>2. v \in Value
  BY <1>1, ServerStateElim, PeriodStateElim, MostVotedResult
<1>3. PeerOK(r, blockchain[p])
  BY <1>1, HandleNextPeriodOK
<1>4. /\ r \in ServerState /\ r.round = s.round /\ r.period = s.period + 1
      /\ r.proposalBuffer = s.proposalBuffer
      /\ r.periodState = initPeriodState(IF v # Bottom THEN v ELSE Empty)
  BY <1>1, <1>2, HandleNextPeriod, ZenonT(30)
<1> HIDE DEF r
<1>5. Len(blockchain[p]) >= Len(blockchain[p])
  BY <1>1 DEF Chain
<1>6. r.period > s.period
  BY <1>1, <1>4, PlaceType
<1>7. StepOK(p, r, blockchain[p], cast)
  BY <1>1, <1>3, <1>4, <1>5, <1>6, StepFurther
<1> QED BY <1>7 DEF r

\* A call of checkHaltingCondition, and of handleHalt if it finds a value.
LEMMA HaltOrNotOK ==
    ASSUME Sizes, PeersOK, VotesOK, CallsOK, NEW p \in Node, NEW s, NEW cast,
           StepOK(p, s, blockchain[p], cast), s.round <= MaxRound, HaltOrNot(p, s),
           signed' = signed \cup cast
    PROVE  PeersOK' /\ VotesOK' /\ Ahead /\ noticeCalls' \subseteq NoticeCall
<1>1. s \in ServerState /\ blockchain[p] \in Chain
  BY DEF StepOK
<1>2. s.periodState.certVotes \in Tally
  BY <1>1, ServerStateElim, PeriodStateElim
<1>3. PICK v \in checkHaltingCondition(s.periodState.certVotes, s.requiredVotes) :
        \/ /\ v = Empty
           /\ state' = [state EXCEPT ![p] = s]
           /\ UNCHANGED <<blockchain, noticeCalls>>
        \/ /\ v # Empty
           /\ state' = [state EXCEPT ![p] = handleHalt(s, v)]
           /\ blockchain' = [blockchain EXCEPT ![p] =
                                Append(@, valueToBlock(s.periodState, v))]
           /\ noticeCalls' = noticeCalls \cup Notices(p, s, v)
  BY DEF HaltOrNot
<1>4. CASE v = Empty
  <2>1. blockchain' = [blockchain EXCEPT ![p] = blockchain[p]]
    BY <1>3, <1>4 DEF PeersOK
  <2>2. state' = [state EXCEPT ![p] = s] /\ noticeCalls' = noticeCalls
    BY <1>3, <1>4
  <2> QED BY <2>1, <2>2, PeerStep, Zenon DEF CallsOK
<1>5. CASE v # Empty
  <2> DEFINE r == handleHalt(s, v)
             d == Append(blockchain[p], valueToBlock(s.periodState, v))
  <2>1. StepOK(p, r, d, cast)
    BY HaltStep, Zenon
  <2>2. state' = [state EXCEPT ![p] = r] /\ blockchain' = [blockchain EXCEPT ![p] = d]
    BY <1>3, <1>5
  <2>3. noticeCalls' \subseteq NoticeCall
    <3>1. v \in Value
      BY <1>2, CheckHalting
    <3>2. Notices(p, s, v) \subseteq NoticeCall
      <4> SUFFICES ASSUME NEW x \in Notices(p, s, v) PROVE x \in NoticeCall
        OBVIOUS
      <4>1. PICK i \in Node : x = [to |-> i, failed |-> FALSE, arg |-> [peer |-> p, value |-> v]]
        BY DEF Notices
      <4> QED BY <3>1, <4>1 DEF NoticeCall
    <3> QED BY <1>3, <1>5, <3>2, SMTT(30) DEF CallsOK
  <2> HIDE DEF r, d
  <2> QED BY <2>1, <2>2, <2>3, PeerStep, Zenon
<1> QED BY <1>4, <1>5

\* A call of checkNextPeridCondition, and of handleNextPeriod if it finds a value.
LEMMA NextPeriodOrNotOK ==
    ASSUME Sizes, PeersOK, VotesOK, NEW p \in Node, NEW s, NEW cast,
           StepOK(p, s, blockchain[p], cast), s.period <= MaxPeriod, NextPeriodOrNot(p, s),
           signed' = signed \cup cast, blockchain' = blockchain
    PROVE  PeersOK' /\ VotesOK' /\ Ahead
<1>1. s \in ServerState /\ blockchain[p] \in Chain
  BY DEF StepOK
<1>2. s.periodState.nextVotes \in Tally
  BY <1>1, ServerStateElim, PeriodStateElim
<1>3. PICK v \in checkNextPeridCondition(s.periodState.nextVotes, s.requiredVotes) :
        state' = [state EXCEPT ![p] = IF v = Empty THEN s ELSE handleNextPeriod(s, v)]
  BY Zenon DEF NextPeriodOrNot
<1>4. blockchain' = [blockchain EXCEPT ![p] = blockchain[p]]
  BY DEF PeersOK
<1>5. CASE v = Empty
  BY <1>3, <1>4, <1>5, PeerStep, Zenon
<1>6. CASE v # Empty
  <2>1. v \in MostVoted(s.periodState.nextVotes)
        /\ s.periodState.nextVotes[v] >= s.requiredVotes
    BY <1>2, <1>6, CheckNextPeriod
  <2>2. StepOK(p, handleNextPeriod(s, v), blockchain[p], cast)
    BY <2>1, NextPeriodStep
  <2>3. state' = [state EXCEPT ![p] = handleNextPeriod(s, v)]
    BY <1>3, <1>6
  <2> QED BY <1>4, <2>2, <2>3, PeerStep, Zenon
<1> QED BY <1>5, <1>6, SMTT(30)

\* A step that casts no vote and leaves the chain alone.
LEMMA QuietStep ==
    ASSUME PeersOK, VotesOK, NEW p \in Node, NEW r \in ServerState, PeerOK(r, blockchain[p]),
           \A m \in r.proposalBuffer : ProposalOK(m), CountsOK(r, signed),
           r.round = state[p].round, r.period = state[p].period, r.step >= state[p].step,
           state[p].periodState.haveNextVotedStep5 \subseteq r.periodState.haveNextVotedStep5
    PROVE  StepOK(p, r, blockchain[p], {})
<1>1. blockchain[p] \in Chain /\ signed \cup {} = signed
  BY DEF PeersOK
<1>2. Len(blockchain[p]) >= Len(blockchain[p])
  BY <1>1 DEF Chain
<1>3. NotBefore(r, state[p])
  BY DEF NotBefore, Reached
<1> QED BY <1>1, <1>2, <1>3, SMTT(30) DEF StepOK

\* The panic of any goroutine.
LEMMA PanicOK ==
    ASSUME PeersOK, VotesOK, CallsOK, Panic
    PROVE  Kept
<1>1. PeersOK' /\ VotesOK' /\ Ahead
  BY NoPeerStep DEF Panic
<1>2. CallsOK'
  BY SMTT(30) DEF Panic, CallsOK, calls
<1> QED BY <1>1, <1>2 DEF Kept

\* A step that touches neither the place of the peer nor what it has counted.
LEMMA SameVotes ==
    ASSUME Sizes, PeersOK, VotesOK, NEW p \in Node, NEW r \in ServerState, PeerOK(r, blockchain[p]),
           \A m \in r.proposalBuffer : ProposalOK(m),
           r.round = state[p].round, r.period = state[p].period, r.step = state[p].step,
           r.periodState.softVotes = state[p].periodState.softVotes,
           r.periodState.haveSoftVoted = state[p].periodState.haveSoftVoted,
           r.periodState.certVotes = state[p].periodState.certVotes,
           r.periodState.haveCertVoted = state[p].periodState.haveCertVoted,
           r.periodState.haveNextVotedStep5 = state[p].periodState.haveNextVotedStep5,
           state' = [state EXCEPT ![p] = r], UNCHANGED <<blockchain, signed>>
    PROVE  PeersOK' /\ VotesOK' /\ Ahead
<1>1. CountsOK(r, signed)
  BY ZenonT(30) DEF PeersOK, CountsOK
<1>2. r.step >= state[p].step
  BY PlaceType
<1>3. StepOK(p, r, blockchain[p], {})
  BY <1>1, <1>2, QuietStep, ZenonT(30)
<1>4. blockchain' = [blockchain EXCEPT ![p] = blockchain[p]] /\ signed' = signed \cup {}
  BY DEF PeersOK
<1> QED BY <1>3, <1>4, PeerStep, ZenonT(30)

\* A step that, of the parts of the state in the invariant, changes none.
LEMMA SamePeer ==
    ASSUME Sizes, PeersOK, VotesOK, NEW p \in Node, NEW r \in ServerState,
           \A m \in r.proposalBuffer : ProposalOK(m),
           r.round = state[p].round, r.period = state[p].period, r.step = state[p].step,
           r.periodState = state[p].periodState, r.lastPeriodState = state[p].lastPeriodState,
           r.requiredVotes = state[p].requiredVotes,
           r.readyForNextRound = state[p].readyForNextRound,
           state' = [state EXCEPT ![p] = r], UNCHANGED <<blockchain, signed>>
    PROVE  PeersOK' /\ VotesOK' /\ Ahead
<1>1. state[p] \in ServerState /\ PeerOK(state[p], blockchain[p])
  BY SMTT(30) DEF PeersOK
<1>2. PeriodOK(r.periodState, blockchain[p], state[p].period)
  BY <1>1 DEF PeerOK
<1>3. r.periodState.leader # Empty => ~state[p].readyForNextRound
  BY <1>1, Zenon DEF PeerOK
<1>4. PeerOK(r, blockchain[p])
  BY <1>1, <1>2, <1>3, PeerOKStep, ZenonT(30)
<1> QED BY <1>4, SameVotes, ZenonT(30)

-----------------------------------------------------------------------------
\* What a tick of the agreement timer starts from.
LEMMA AtStepFacts ==
    ASSUME PeersOK, NEW p \in Node, NEW step \in 2 .. 5, AtStep(p, step)
    PROVE  /\ state[p] \in ServerState /\ blockchain[p] \in Chain
           /\ PeerOK(state[p], blockchain[p]) /\ CountsOK(state[p], signed)
           /\ ~state[p].readyForNextRound
           /\ state[p].round \in Rounds /\ state[p].period \in Periods
           /\ state[p].step <= step /\ (state[p].step = step => step = 5)
<1>1. /\ state[p] \in ServerState /\ blockchain[p] \in Chain
      /\ PeerOK(state[p], blockchain[p]) /\ CountsOK(state[p], signed)
  BY DEF PeersOK
<1>2. ~state[p].readyForNextRound /\ state[p].step \in {step - 1, step}
      /\ (state[p].step = step => step = 5)
  BY DEF AtStep
<1>3. state[p].round <= MaxRound /\ state[p].period <= MaxPeriod
  BY <1>1, <1>2 DEF PeerOK
<1>4. state[p].round \in Rounds /\ state[p].period \in Periods
  BY <1>1, <1>3, ServerStateElim, SMTT(30) DEF Rounds, Periods
<1> QED BY <1>1, <1>2, <1>4

\* The vote a peer signs in a step, with its requiredVotes.
Ballot(p, s, v, type, step) ==
    [vote |-> [peer |-> p, value |-> v, round |-> s.round, period |-> s.period,
               voteType |-> type, step |-> step],
     required |-> s.requiredVotes]

\* What SendVote does.
LEMMA SendVoteOK ==
    ASSUME CallsOK, NEW p \in Node, NEW s \in ServerState, s.round \in Rounds, s.period \in Periods,
           NEW v \in Value, NEW type \in {"soft", "cert", "next"}, NEW step \in 2 .. 5,
           SendVote(p, s, v, type, step)
    PROVE  /\ signed' = signed \cup {Ballot(p, s, v, type, step)}
           /\ Ballot(p, s, v, type, step) \in SignedVote
           /\ voteCalls' \subseteq VoteCall
<1> DEFINE a == [peer |-> p, value |-> v, round |-> s.round, period |-> s.period,
                 voteType |-> type, step |-> step]
<1>1. a \in Vote
  BY DEF Vote
<1>2. s.requiredVotes \in Nat /\ s.committeeMember \subseteq Slot
  BY ServerStateElim, SMTT(30)
<1>3. /\ signed' = signed \cup {[vote |-> a, required |-> s.requiredVotes]}
      /\ voteCalls' = voteCalls \cup
            {[entry |-> e, failed |-> FALSE, arg |-> a] : e \in s.committeeMember}
  BY DEF SendVote
<1>4. Ballot(p, s, v, type, step) = [vote |-> a, required |-> s.requiredVotes]
  BY DEF Ballot
<1> HIDE DEF a
<1>5. ASSUME NEW e \in Slot PROVE [entry |-> e, failed |-> FALSE, arg |-> a] \in VoteCall
  BY <1>1, SMTT(30) DEF VoteCall
<1>6. voteCalls' \subseteq VoteCall
  BY <1>2, <1>3, <1>5, SMTT(30) DEF CallsOK
<1> QED BY <1>1, <1>2, <1>3, <1>4, <1>6, SMTT(30) DEF SignedVote

\* A step that casts a vote: it is the peer's first in this step of the period.
LEMMA Cast ==
    ASSUME PeersOK, VotesOK, NEW p \in Node, NEW step \in 2 .. 5, AtStep(p, step),
           NEW r \in ServerState, PeerOK(r, blockchain[p]),
           r.round = state[p].round, r.period = state[p].period, r.step = step,
           r.proposalBuffer = state[p].proposalBuffer,
           state[p].periodState.haveNextVotedStep5 \subseteq r.periodState.haveNextVotedStep5,
           step = 5 => /\ p \notin state[p].periodState.haveNextVotedStep5
                       /\ p \in r.periodState.haveNextVotedStep5,
           NEW s, s.round = state[p].round, s.period = state[p].period,
           NEW v \in Value, v \in Hash => OfRound(v, s.round, s.period),
           NEW type, type = "soft" => step = 2,
           Ballot(p, s, v, type, step) \in SignedVote,
           type = "cert" => Cardinality(Signers("soft", v, s.round, s.period)) >= s.requiredVotes,
           CountsOK(r, signed \cup {Ballot(p, s, v, type, step)})
    PROVE  StepOK(p, r, blockchain[p], {Ballot(p, s, v, type, step)})
<1> DEFINE x == Ballot(p, s, v, type, step)
<1>1. /\ x.vote.peer = p /\ x.vote.value = v /\ x.vote.round = s.round
      /\ x.vote.period = s.period /\ x.vote.voteType = type /\ x.vote.step = step
      /\ x.required = s.requiredVotes
  BY SMTT(30) DEF Ballot
<1> HIDE DEF x
<1>2. /\ state[p] \in ServerState /\ blockchain[p] \in Chain
      /\ state[p].step <= step /\ (state[p].step = step => step = 5)
  BY AtStepFacts, SMTT(30)
<1>3. state[p].round \in Nat /\ state[p].period \in Nat /\ state[p].step \in Nat
  BY <1>2, PlaceType, SMTT(30)
<1>4. VoteOK(x, r)
  BY <1>1, <1>3, SMTT(30) DEF VoteOK, NotBefore, Reached
<1>5. NotBefore(r, state[p])
  BY <1>2, <1>3, SMTT(30) DEF NotBefore, Reached
<1>6. ASSUME NEW y \in signed, y.vote.peer = p, y.vote.round = x.vote.round,
             y.vote.period = x.vote.period, y.vote.step = x.vote.step
      PROVE  FALSE
  <2>1. VoteOK(y, state[p])
    BY <1>6, SMTT(30) DEF VotesOK
  <2>2. state[p].step = step
    BY <1>1, <1>2, <1>3, <1>6, <2>1, SMTT(30) DEF VoteOK, NotBefore, Reached
  <2> QED BY <1>1, <1>2, <1>6, <2>1, <2>2, SMTT(30) DEF VoteOK
<1>7. \A m \in r.proposalBuffer : ProposalOK(m)
  BY SMTT(30) DEF PeersOK
<1>8. Len(blockchain[p]) >= Len(blockchain[p])
  BY <1>2, SMTT(30) DEF Chain
<1>9. MayCast(p, x)
  <2>1. x.vote.step >= state[p].step
    BY <1>1, <1>2, <1>3, SMTT(30)
  <2> QED BY <1>1, <1>6, <2>1, ZenonT(30) DEF MayCast
<1>10. StepOK(p, r, blockchain[p], {x})
  BY <1>2, <1>4, <1>5, <1>7, <1>8, <1>9, ZenonT(30) DEF StepOK, x
<1> QED BY <1>10, SMTT(30) DEF x

\* s is peer p's state, moved to a step (and with a new requiredVotes).
Stands(p, s, step) ==
    /\ s \in ServerState /\ PeerOK(s, blockchain[p]) /\ CountsOK(s, signed)
    /\ s.round = state[p].round /\ s.period = state[p].period /\ s.step = step
    /\ s.round \in Rounds /\ s.period \in Periods
    /\ s.periodState = state[p].periodState /\ s.lastPeriodState = state[p].lastPeriodState
    /\ s.proposalBuffer = state[p].proposalBuffer
    /\ ~s.readyForNextRound

\* Setting the step, as the agreement timer does first.
LEMMA Stepped ==
    ASSUME PeersOK, NEW p \in Node, NEW step \in 2 .. 5, AtStep(p, step), NEW n \in Nat
    PROVE  /\ Stands(p, [state[p] EXCEPT !.step = step], step)
           /\ Stands(p, [state[p] EXCEPT !.step = step, !.requiredVotes = n], step)
<1> DEFINE a == [state[p] EXCEPT !.step = step]
           b == [state[p] EXCEPT !.step = step, !.requiredVotes = n]
<1>1. /\ state[p] \in ServerState /\ PeerOK(state[p], blockchain[p])
      /\ CountsOK(state[p], signed) /\ ~state[p].readyForNextRound
      /\ state[p].round \in Rounds /\ state[p].period \in Periods
  BY AtStepFacts
<1>2. /\ a \in ServerState /\ PeerOK(a, blockchain[p])
      /\ b \in ServerState /\ PeerOK(b, blockchain[p])
  <2>1. step \in 1 .. 5
    OBVIOUS
  <2> QED BY <1>1, <2>1, NewStep, ZenonT(30)
<1>3. /\ a.round = state[p].round /\ a.period = state[p].period /\ a.step = step
      /\ a.periodState = state[p].periodState /\ a.lastPeriodState = state[p].lastPeriodState
      /\ a.proposalBuffer = state[p].proposalBuffer
      /\ a.readyForNextRound = state[p].readyForNextRound
  BY <1>1 DEF ServerState
<1>4. /\ b.round = state[p].round /\ b.period = state[p].period /\ b.step = step
      /\ b.periodState = state[p].periodState /\ b.lastPeriodState = state[p].lastPeriodState
      /\ b.proposalBuffer = state[p].proposalBuffer
      /\ b.readyForNextRound = state[p].readyForNextRound
  BY <1>1, SMTT(30) DEF ServerState
<1> HIDE DEF a, b
<1>5. CountsOK(a, signed) /\ CountsOK(b, signed)
  BY <1>3, <1>4, <1>1, ZenonT(30) DEF CountsOK
<1>6. Stands(p, a, step)
  BY <1>1, <1>2, <1>3, <1>5 DEF Stands
<1>7. Stands(p, b, step)
  BY <1>1, <1>2, <1>4, <1>5 DEF Stands
<1> QED BY <1>6, <1>7 DEF a, b

\* The signer of a vote is among its signers.
LEMMA Signer ==
    ASSUME NEW p, NEW s, NEW v, NEW type, NEW step
    PROVE  p \in SignersIn(signed \cup {Ballot(p, s, v, type, step)}, type, v, s.round, s.period)
<1> DEFINE x == Ballot(p, s, v, type, step)
<1>1. /\ x.vote.peer = p /\ x.vote.value = v /\ x.vote.round = s.round
      /\ x.vote.period = s.period /\ x.vote.voteType = type
  BY DEF Ballot
<1> HIDE DEF x
<1>2. x \in {y \in signed \cup {x} : /\ y.vote.voteType = type /\ y.vote.value = v
                                     /\ y.vote.round = s.round /\ y.vote.period = s.period}
  BY <1>1
<1>3. p \in SignersIn(signed \cup {x}, type, v, s.round, s.period)
  BY <1>1, <1>2 DEF SignersIn
<1> QED BY <1>3 DEF x

\* A committee has a size.
LEMMA CommitteeSize ==
    ASSUME Sizes, NEW S \in SUBSET Slot
    PROVE  RequiredVotes(Cardinality(S) + 1) \in Nat
<1>1. Cardinality(S) \in Nat
  BY DEF Sizes
<1> QED BY <1>1 DEF RequiredVotes

\* A tick that sets the step and casts no vote.
LEMMA StandsQuiet ==
    ASSUME PeersOK, VotesOK, NEW p \in Node, NEW step \in 2 .. 5, AtStep(p, step),
           NEW s, Stands(p, s, step)
    PROVE  StepOK(p, s, blockchain[p], {})
<1>1. /\ state[p] \in ServerState /\ state[p].step <= step
      /\ \A m \in state[p].proposalBuffer : ProposalOK(m)
  BY AtStepFacts, SMTT(30) DEF PeersOK
<1>2. s.step >= state[p].step
  BY <1>1, PlaceType, SMTT(30) DEF Stands
<1>3. state[p].periodState.haveNextVotedStep5 \subseteq s.periodState.haveNextVotedStep5
  BY SMTT(30) DEF Stands
<1> QED BY <1>1, <1>2, <1>3, QuietStep, ZenonT(30) DEF Stands

=============================================================================
