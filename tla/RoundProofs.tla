----------------------------- MODULE RoundProofs -----------------------------
(***************************************************************************)
(* The round timer, the ticks of the agreement timer in which nothing is   *)
(* voted, and step 2, the soft-vote, keep the inductive invariant.         *)
(***************************************************************************)
EXTENDS StepProofs

\* A timer that is not armed again.
LEMMA TimerStopped ==
    ASSUME NEW s \in ServerState
    PROVE  LET r == [s EXCEPT !.agreementTimer = FALSE]
           IN /\ r \in ServerState
              /\ r.round = s.round /\ r.period = s.period /\ r.step = s.step
              /\ r.periodState = s.periodState /\ r.lastPeriodState = s.lastPeriodState
              /\ r.requiredVotes = s.requiredVotes /\ r.proposalBuffer = s.proposalBuffer
              /\ r.readyForNextRound = s.readyForNextRound
BY Zenon DEF ServerState

\* The agreement timer of a peer that is ready keeps the invariant.
LEMMA AgreementTimerIdleOK ==
    ASSUME Sizes, PeersOK, VotesOK, CallsOK, NEW p \in Node, AgreementTimerIdle(p)
    PROVE  Kept
<1> DEFINE r == [state[p] EXCEPT !.agreementTimer = FALSE]
<1>1. state[p] \in ServerState /\ \A m \in state[p].proposalBuffer : ProposalOK(m)
  BY Zenon DEF PeersOK
<1>2. /\ r \in ServerState
      /\ r.round = state[p].round /\ r.period = state[p].period /\ r.step = state[p].step
      /\ r.periodState = state[p].periodState /\ r.lastPeriodState = state[p].lastPeriodState
      /\ r.requiredVotes = state[p].requiredVotes /\ r.proposalBuffer = state[p].proposalBuffer
      /\ r.readyForNextRound = state[p].readyForNextRound
  BY <1>1, TimerStopped
<1>3. state' = [state EXCEPT ![p] = r]
      /\ UNCHANGED <<blockchain, calls, unsent, errors, panicked, signed>>
  BY SMTT(30) DEF AgreementTimerIdle
<1> HIDE DEF r
<1>4. PeersOK' /\ VotesOK' /\ Ahead
  BY <1>1, <1>2, <1>3, SamePeer, ZenonT(30)
<1>5. CallsOK'
  BY <1>3 DEF CallsOK, calls
<1> QED BY <1>4, <1>5 DEF Kept

\* The agreement timer of a peer off the committee keeps the invariant.
LEMMA AgreementTimerNonMemberOK ==
    ASSUME Sizes, PeersOK, VotesOK, CallsOK, NEW p \in Node, AgreementTimerNonMember(p)
    PROVE  Kept
<1> DEFINE q == selectLeader(state[p])
           w == withLeader(state[p], q)
           r == [w EXCEPT !.agreementTimer = FALSE]
<1>1. /\ state[p] \in ServerState /\ PeerOK(state[p], blockchain[p])
      /\ \A m \in state[p].proposalBuffer : ProposalOK(m)
  BY DEF PeersOK
<1>2. /\ ~state[p].readyForNextRound /\ state' = [state EXCEPT ![p] = r]
      /\ UNCHANGED <<blockchain, calls, unsent, errors, panicked, signed>>
  BY DEF AgreementTimerNonMember
<1>3. q \in Node \cup {Empty}
  BY <1>1, <1>2, SelectLeader, SMTT(30) DEF PeerOK
<1> HIDE DEF q
<1>4. /\ w \in ServerState /\ Unchanged(w, state[p])
      /\ w.periodState = [state[p].periodState EXCEPT !.leader = q]
  BY <1>1, <1>3, WithLeader, SMTT(30)
<1>5. PeerOK(w, blockchain[p])
  BY <1>1, <1>2, <1>3, WithLeaderOK, ZenonT(30)
<1> HIDE DEF w
<1>6. /\ r \in ServerState /\ r.round = w.round /\ r.period = w.period /\ r.step = w.step
      /\ r.periodState = w.periodState /\ r.lastPeriodState = w.lastPeriodState
      /\ r.requiredVotes = w.requiredVotes /\ r.proposalBuffer = w.proposalBuffer
      /\ r.readyForNextRound = w.readyForNextRound
  BY <1>4, TimerStopped
<1> HIDE DEF r
<1>7. PeerOK(r, blockchain[p])
  <2>1. PeriodOK(r.periodState, blockchain[p], w.period)
    BY <1>5, <1>6, SMTT(30) DEF PeerOK
  <2>2. r.periodState.leader # Empty => ~w.readyForNextRound
    BY <1>5, <1>6, ZenonT(30) DEF PeerOK
  <2> QED BY <1>4, <1>5, <1>6, <2>1, <2>2, PeerOKStep, ZenonT(30)
<1>8. /\ r.periodState.softVotes = state[p].periodState.softVotes
      /\ r.periodState.haveSoftVoted = state[p].periodState.haveSoftVoted
      /\ r.periodState.certVotes = state[p].periodState.certVotes
      /\ r.periodState.haveCertVoted = state[p].periodState.haveCertVoted
      /\ r.periodState.haveNextVotedStep5 = state[p].periodState.haveNextVotedStep5
  BY <1>1, <1>4, <1>6, ServerStateElim, SMTT(30) DEF PeriodState
<1>9. /\ r.round = state[p].round /\ r.period = state[p].period /\ r.step = state[p].step
      /\ r.proposalBuffer = state[p].proposalBuffer
  BY <1>4, <1>6, SMTT(30) DEF Unchanged
<1>10. PeersOK' /\ VotesOK' /\ Ahead
  BY <1>1, <1>2, <1>6, <1>7, <1>8, <1>9, SameVotes, ZenonT(30)
<1>11. CallsOK'
  BY <1>2, SMTT(30) DEF CallsOK, calls
<1> QED BY <1>10, <1>11 DEF Kept

\* The round timer keeps the invariant.
LEMMA RoundTimerOK ==
    ASSUME Sizes, PeersOK, VotesOK, CallsOK, NEW p \in Node, RoundTimer(p)
    PROVE  Kept
<1> DEFINE s == state[p]
           chain == blockchain[p]
           A == {m \in s.proposalBuffer : accepts(s, chain, m)}
           old(v) == IF v \in Hash THEN valueToBlock(s.lastPeriodState, v) ELSE Nil
           pool(v) == IF v = Empty THEN prunedPool(s, chain) ELSE s.transactionPool
           start(v, w) == startRound(executeProposal(s, A, w), pool(v))
           m(b) == ownProposal(s, p, chain, b)
<1>1. s.round <= MaxRound /\ s.period <= MaxPeriod
  BY Zenon DEF RoundTimer
<1>2. PICK v \in runStep1(s.period, s.lastPeriodState.nextVotes, s.requiredVotes) :
        \/ Panic
        \/ /\ Last(chain) # Nil /\ (v = Empty \/ old(v) # Nil)
           /\ \E w \in LastWriters(A), elected \in Elected[<<p, s.round, s.period>>],
                 b \in IF v = Empty THEN prepareBlock(p, s, chain) ELSE {old(v)} :
                /\ state' = [state EXCEPT ![p] = IF elected THEN becomeMember(start(v, w), p, m(b))
                                                 ELSE start(v, w)]
                /\ proposeCalls' = proposeCalls \cup
                      {[to |-> q, failed |-> FALSE, arg |-> m(b)] :
                          q \in {x \in Node \ {p} : elected}}
           /\ UNCHANGED <<blockchain, voteCalls, noticeCalls, chainRequests, chainReplies,
                          txCalls, unsent, errors, panicked, signed>>
  BY ZenonT(30) DEF RoundTimer
<1>3. /\ s \in ServerState /\ chain \in Chain /\ PeerOK(s, chain)
      /\ \A x \in s.proposalBuffer : ProposalOK(x)
  BY PeerFacts, Zenon
<1>4. s.round \in Rounds /\ s.period \in Periods
  BY <1>1, <1>3, ServerStateElim, SMTT(30) DEF Rounds, Periods
<1>5. CASE Panic
  BY <1>5, PanicOK, SMTT(30)
<1>6. CASE ~Panic
  <2>1. PICK w \in LastWriters(A), elected \in Elected[<<p, s.round, s.period>>],
             b \in IF v = Empty THEN prepareBlock(p, s, chain) ELSE {old(v)} :
                /\ state' = [state EXCEPT ![p] = IF elected THEN becomeMember(start(v, w), p, m(b))
                                                 ELSE start(v, w)]
                /\ proposeCalls' = proposeCalls \cup
                      {[to |-> q, failed |-> FALSE, arg |-> m(b)] :
                          q \in {x \in Node \ {p} : elected}}
    BY <1>2, <1>6, ZenonT(30)
  <2>2. /\ Last(chain) # Nil /\ (v = Empty \/ old(v) # Nil)
        /\ UNCHANGED <<blockchain, voteCalls, noticeCalls, chainRequests, chainReplies,
                       txCalls, unsent, errors, panicked, signed>>
    BY <1>2, <1>6, ZenonT(30)
  <2>3. b \in Block /\ BlockFits(b, chain, s.period)
    BY <1>3, <1>4, <2>2, OwnBlock, ZenonT(30)
  <2>4. m(b) \in Proposal /\ ProposalOK(m(b)) /\ m(b).block = b
    <3>1. Last(chain) # Nil
      BY <2>2, Zenon
    <3> QED BY <1>3, <1>4, <2>3, <3>1, OwnProposal, ZenonT(30)
  <2> DEFINE mm == m(b)
             e == executeProposal(s, A, w)
             s1 == startRound(e, pool(v))
             r == IF elected THEN becomeMember(s1, p, mm) ELSE s1
  <2>5. /\ state' = [state EXCEPT ![p] = r]
        /\ proposeCalls' \subseteq proposeCalls \cup
              {[to |-> q, failed |-> FALSE, arg |-> mm] : q \in Node}
    BY <2>1, ZenonT(30)
  <2>5a. mm \in Proposal /\ ProposalOK(mm) /\ BlockFits(mm.block, chain, s.period)
    BY <2>3, <2>4, Zenon
  <2>6. pool(v) \in SUBSET Tx
    BY <1>3, ServerStateElim, ZenonT(30) DEF prunedPool
  <2>7. A \in SUBSET Proposal /\ \A x \in A : ProposalOK(x) /\ accepts(s, chain, x)
    BY <1>3, ServerStateElim, Zenon
  <2> HIDE DEF mm, pool, A
  <2>8. /\ e \in ServerState /\ PeerOK(e, chain)
        /\ e.round = s.round /\ e.period = s.period /\ e.step = s.step
        /\ e.periodState.softVotes = s.periodState.softVotes
        /\ e.periodState.haveSoftVoted = s.periodState.haveSoftVoted
        /\ e.periodState.certVotes = s.periodState.certVotes
        /\ e.periodState.haveCertVoted = s.periodState.haveCertVoted
        /\ e.periodState.haveNextVotedStep5 = s.periodState.haveNextVotedStep5
    BY <1>3, <2>2, <2>7, ExecuteProposalOK, ZenonT(30)
  <2> HIDE DEF e
  <2>9. /\ s1 \in ServerState /\ PeerOK(s1, chain)
        /\ s1.round = s.round /\ s1.period = s.period /\ s1.step = s.step
        /\ s1.proposalBuffer = {} /\ s1.periodState = e.periodState
    BY <1>1, <2>6, <2>8, StartRoundOK, ZenonT(30)
  <2> HIDE DEF s1
  <2>10. /\ r \in ServerState /\ PeerOK(r, chain)
         /\ r.round = s.round /\ r.period = s.period /\ r.step = s.step
         /\ r.proposalBuffer = {}
         /\ r.periodState.softVotes = s.periodState.softVotes
         /\ r.periodState.haveSoftVoted = s.periodState.haveSoftVoted
         /\ r.periodState.certVotes = s.periodState.certVotes
         /\ r.periodState.haveCertVoted = s.periodState.haveCertVoted
         /\ r.periodState.haveNextVotedStep5 = s.periodState.haveNextVotedStep5
    <3>1. CASE ~elected
      BY <2>8, <2>9, <3>1, ZenonT(30)
    <3>2. CASE elected
      <4>1. mm \in Proposal /\ BlockFits(mm.block, chain, s1.period)
        BY <2>5a, <2>9, Zenon
      <4>2. r = becomeMember(s1, p, mm)
        BY <3>2, Zenon
      <4>2a. s1 \in ServerState /\ PeerOK(s1, chain)
        BY <2>9, Zenon
      <4> HIDE DEF r
      <4>3. /\ r \in ServerState /\ PeerOK(r, chain)
            /\ r.round = s1.round /\ r.period = s1.period /\ r.step = s1.step
            /\ r.proposalBuffer = s1.proposalBuffer
            /\ r.periodState.softVotes = s1.periodState.softVotes
            /\ r.periodState.haveSoftVoted = s1.periodState.haveSoftVoted
            /\ r.periodState.certVotes = s1.periodState.certVotes
            /\ r.periodState.haveCertVoted = s1.periodState.haveCertVoted
            /\ r.periodState.haveNextVotedStep5 = s1.periodState.haveNextVotedStep5
        BY <4>1, <4>2, <4>2a, BecomeMemberOK, ZenonT(60)
      <4> QED BY <2>8, <2>9, <4>3, ZenonT(30)
    <3> QED BY <3>1, <3>2, ZenonT(30)
  <2> HIDE DEF r
  <2>11. PeersOK' /\ VotesOK' /\ Ahead
    BY <2>2, <2>5, <2>10, SameVotes, Zenon
  <2>12. \A c \in proposeCalls' : c \in ProposeCall /\ ProposalOK(c.arg)
    <3>1. ASSUME NEW q \in Node
          PROVE  LET c == [to |-> q, failed |-> FALSE, arg |-> mm]
                 IN c \in ProposeCall /\ ProposalOK(c.arg)
      BY <2>5a, ZenonT(30) DEF ProposeCall
    <3> QED BY <2>5, <3>1, SMTT(30) DEF CallsOK
  <2>13. CallsOK'
    BY <2>2, <2>12, ZenonT(30) DEF CallsOK
  <2> QED BY <2>11, <2>13 DEF Kept
<1> QED BY <1>5, <1>6, SMTT(30)

-----------------------------------------------------------------------------
\* What a peer may soft-vote for: a value of this round.
LEMMA SoftVoteValue ==
    ASSUME Sizes, NEW s \in ServerState, NEW chain, PeerOK(s, chain), s.round \in Rounds, s.period \in Periods,
           NEW h, h = (IF selectLeader(s) = Empty THEN Nil
                       ELSE s.periodState.idToBlock[selectLeader(s)].hash),
           NEW r \in runStep2(s.period, s.lastPeriodState.nextVotes, s.requiredVotes, h),
           r.value # Nil
    PROVE  /\ r.value \in Value
           /\ r.value \in Hash => OfRound(r.value, s.round, s.period)
           /\ r.led => selectLeader(s) \in Node
<1>1. /\ s.periodState \in PeriodState /\ s.lastPeriodState \in PeriodState
      /\ s.periodState.idToBlock \in [Node -> Block \cup {Nil}]
      /\ s.lastPeriodState.nextVotes \in Tally
  BY ServerStateElim, PeriodStateElim, SMTT(30)
<1>2. /\ PeriodOK(s.periodState, chain, s.period) /\ PeriodOK(s.lastPeriodState, chain, s.period)
      /\ Len(chain) = s.round
  BY DEF PeerOK
<1>3. CASE r.led /\ r.value = h
  <2>1. selectLeader(s) # Empty
    BY <1>3
  <2>2. s.round <= MaxRound /\ s.period <= MaxPeriod
    BY BoundAssumption, SMTT(30) DEF Rounds, Periods
  <2>3. selectLeader(s) \in Node /\ s.periodState.idToBlock[selectLeader(s)] # Nil
    BY <2>1, <2>2, SelectLeader, SMTT(30)
  <2>4. OfRound(r.value, s.round, s.period)
    BY <1>2, <1>3, <2>1, <2>3, SMTT(30) DEF PeriodOK, BlockFits
  <2> QED BY <2>3, <2>4, Reserved, SMTT(30) DEF OfRound
<1>4. CASE ~r.led /\ r.value \in Value
           /\ (r.value \in Hash => s.lastPeriodState.nextVotes[r.value] > 0)
  BY <1>2, <1>4 DEF PeriodOK
<1> QED BY <1>1, <1>3, <1>4, RunStep2, SMTT(30)

\* Step 2 keeps the invariant.
LEMMA Step2OK ==
    ASSUME Sizes, PeersOK, VotesOK, CallsOK, NEW p \in Node, Step2(p)
    PROVE  Kept
<1> DEFINE n == RequiredVotes(Cardinality(state[p].committeeMember) + 1)
           s == [state[p] EXCEPT !.step = 2, !.requiredVotes = n]
           h == IF selectLeader(s) = Empty THEN Nil
                ELSE s.periodState.idToBlock[selectLeader(s)].hash
<1>1. AtStep(p, 2) /\ p \notin s.periodState.haveSoftVoted
  BY DEF Step2
<1>2. n \in Nat
  BY ServerStateElim, CommitteeSize DEF PeersOK
<1>3. PICK r \in runStep2(s.period, s.lastPeriodState.nextVotes, s.requiredVotes, h) :
        \/ r.value = Nil /\ Panic
        \/ /\ r.value # Nil
           /\ LET s1 == IF r.led THEN withLeader(s, selectLeader(s)) ELSE s
              IN IF r.value = Empty
                 THEN state' = [state EXCEPT ![p] = s1] /\ SendNoVote
                 ELSE /\ state' = [state EXCEPT ![p] = countSoft(s1, p, r.value)]
                      /\ SendVote(p, s, r.value, "soft", 2)
           /\ UNCHANGED <<blockchain, proposeCalls, noticeCalls, chainRequests,
                          chainReplies, txCalls, unsent, errors, panicked>>
  BY Zenon DEF Step2
<1> HIDE DEF n
<1>4. Stands(p, s, 2)
  <2>1. 2 \in 2 .. 5
    OBVIOUS
  <2> QED BY <1>1, <1>2, <2>1, Stepped, ZenonT(30)
<1> HIDE DEF s
<1> DEFINE hash == h
<1>5. hash = (IF selectLeader(s) = Empty THEN Nil
              ELSE s.periodState.idToBlock[selectLeader(s)].hash)
  BY SMTT(30)
<1>6. r \in runStep2(s.period, s.lastPeriodState.nextVotes, s.requiredVotes, hash)
  BY <1>3, SMTT(30)
<1> HIDE DEF hash
<1>7. CASE r.value = Nil
  BY <1>3, <1>7, PanicOK, SMTT(30)
<1>8. CASE r.value # Nil
  <2> DEFINE v == r.value
             s1 == IF r.led THEN withLeader(s, selectLeader(s)) ELSE s
             x == Ballot(p, s, v, "soft", 2)
  <2>1. v \in Value /\ (v \in Hash => OfRound(v, s.round, s.period))
        /\ (r.led => selectLeader(s) \in Node)
    BY <1>4, <1>5, <1>6, <1>8, SoftVoteValue, ZenonT(30) DEF Stands
  <2>2. /\ s1 \in ServerState /\ PeerOK(s1, blockchain[p])
        /\ s1.round = s.round /\ s1.period = s.period /\ s1.step = 2
        /\ s1.proposalBuffer = s.proposalBuffer
        /\ s1.periodState.softVotes = s.periodState.softVotes
        /\ s1.periodState.haveSoftVoted = s.periodState.haveSoftVoted
        /\ s1.periodState.certVotes = s.periodState.certVotes
        /\ s1.periodState.haveCertVoted = s.periodState.haveCertVoted
        /\ s1.periodState.haveNextVotedStep5 = s.periodState.haveNextVotedStep5
    <3>1. CASE ~r.led
      BY <1>4, <3>1 DEF Stands
    <3>2. CASE r.led
      <4> DEFINE w == withLeader(s, selectLeader(s))
      <4>1. /\ w \in ServerState /\ Unchanged(w, s)
            /\ w.periodState = [s.periodState EXCEPT !.leader = selectLeader(s)]
        BY <1>4, <2>1, <3>2, WithLeader, SMTT(30) DEF Stands
      <4>2. PeerOK(w, blockchain[p])
        BY <1>4, <2>1, <3>2, WithLeaderOK, ZenonT(30) DEF Stands
      <4>3. s1 = w
        BY <3>2, SMTT(30)
      <4>4. s.periodState \in PeriodState /\ s.step = 2
        BY <1>4, ServerStateElim, SMTT(30) DEF Stands
      <4> HIDE DEF w, s1
      <4> QED BY <4>1, <4>2, <4>3, <4>4, SMTT(30) DEF Unchanged, PeriodState
    <3> QED BY <3>1, <3>2, SMTT(30)
  <2>3. /\ IF v = Empty
           THEN state' = [state EXCEPT ![p] = s1] /\ SendNoVote
           ELSE /\ state' = [state EXCEPT ![p] = countSoft(s1, p, v)]
                /\ SendVote(p, s, v, "soft", 2)
        /\ UNCHANGED <<blockchain, proposeCalls, noticeCalls, chainRequests,
                       chainReplies, txCalls, unsent, errors, panicked>>
    BY <1>3, <1>8, SMTT(30)
  <2> HIDE DEF v, s1, x
  <2>4. blockchain' = [blockchain EXCEPT ![p] = blockchain[p]]
    BY <2>3, SMTT(30) DEF PeersOK
  <2>5. /\ state[p] \in ServerState /\ state[p].step <= 2
        /\ \A m \in state[p].proposalBuffer : ProposalOK(m)
    BY <1>1, AtStepFacts, SMTT(30) DEF PeersOK
  <2>6. CASE v = Empty
    <3>1. CountsOK(s1, signed)
      BY <1>4, <2>2, ZenonT(30) DEF Stands, CountsOK
    <3>2. StepOK(p, s1, blockchain[p], {})
      <4>1. s1.step >= state[p].step
        BY <2>2, <2>5, PlaceType, SMTT(30)
      <4> QED BY <1>4, <2>2, <2>5, <3>1, <4>1, QuietStep, ZenonT(30) DEF Stands
    <3>3. state' = [state EXCEPT ![p] = s1] /\ signed' = signed \cup {} /\ voteCalls' = voteCalls
      BY <2>3, <2>6, SMTT(30) DEF SendNoVote
    <3>4. PeersOK' /\ VotesOK' /\ Ahead
      BY <2>4, <3>2, <3>3, PeerStep, ZenonT(30)
    <3>5. CallsOK'
      BY <2>3, <3>3 DEF CallsOK
    <3> QED BY <3>4, <3>5 DEF Kept
  <2>7. CASE v # Empty
    <3> DEFINE t == countSoft(s1, p, v)
    <3>1. /\ signed' = signed \cup {x} /\ x \in SignedVote /\ voteCalls' \subseteq VoteCall
      BY <1>4, <2>1, <2>3, <2>7, SendVoteOK, SMTT(30) DEF Stands, x
    <3>2. CountsOK(t, signed \cup {x})
      <4>1. signed \cup {x} \in SUBSET SignedVote
        BY <3>1, SMTT(30) DEF VotesOK
      <4>2. CountsOK(s1, signed \cup {x})
        BY <1>4, <2>2, <4>1, CountsSame, ZenonT(30) DEF Stands
      <4>3. p \in SignersIn(signed \cup {x}, "soft", v, s1.round, s1.period)
        BY <2>2, Signer, SMTT(30) DEF x
      <4> QED BY <1>1, <2>1, <2>2, <4>1, <4>2, <4>3, CountsSoft, ZenonT(30)
    <3>3. PeerOK(t, blockchain[p])
      BY <2>1, <2>2, CountSoftOK, SMTT(30)
    <3>4. /\ t \in ServerState /\ Unchanged(t, s1)
          /\ t.periodState.haveNextVotedStep5 = s1.periodState.haveNextVotedStep5
      BY <2>1, <2>2, CountSoft, ZenonT(30)
    <3>5. state' = [state EXCEPT ![p] = t]
      BY <2>3, <2>7
    <3> HIDE DEF t
    <3>6. StepOK(p, t, blockchain[p], {x})
      <4>1. /\ t.round = state[p].round /\ t.period = state[p].period /\ t.step = 2
            /\ t.proposalBuffer = state[p].proposalBuffer
            /\ t.periodState.haveNextVotedStep5 = state[p].periodState.haveNextVotedStep5
        BY <1>4, <2>2, <3>4, ZenonT(30) DEF Stands, Unchanged
      <4>2. s.round = state[p].round /\ s.period = state[p].period
        BY <1>4 DEF Stands
      <4>3. 2 \in 2 .. 5 /\ 2 # 5 /\ "soft" # "cert"
        OBVIOUS
      <4> QED BY <1>1, <2>1, <3>1, <3>2, <3>3, <3>4, <4>1, <4>2, <4>3, Cast, ZenonT(30) DEF x
    <3>7. PeersOK' /\ VotesOK' /\ Ahead
      BY <2>4, <3>1, <3>5, <3>6, PeerStep, Zenon
    <3>8. CallsOK'
      BY <2>3, <3>1 DEF CallsOK
    <3> QED BY <3>7, <3>8 DEF Kept
  <2> QED BY <2>6, <2>7, SMTT(30)
<1> QED BY <1>7, <1>8

=============================================================================
