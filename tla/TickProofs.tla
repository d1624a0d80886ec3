----------------------------- MODULE TickProofs -----------------------------
(***************************************************************************)
(* Steps 3 to 5, the ticks of the agreement timer in which a member of the *)
(* committee may certify a value or ask for the next period, keep the      *)
(* inductive invariant.                                                    *)
(***************************************************************************)
EXTENDS StepProofs

\* The soft-votes behind a cert-vote.
LEMMA CertBacked ==
    ASSUME Sizes, NEW s \in ServerState, signed \subseteq SignedVote, CountsOK(s, signed),
           NEW v \in Hash, s.periodState.softVotes[v] >= s.requiredVotes
    PROVE  Cardinality(Signers("soft", v, s.round, s.period)) >= s.requiredVotes
<1> DEFINE a == Cardinality(s.periodState.haveSoftVoted \cap
                              SignersIn(signed, "soft", v, s.round, s.period))
           b == Cardinality(SignersIn(signed, "soft", v, s.round, s.period))
<1>1. a \in Nat /\ a <= b
  BY SignersFinite, Zenon
<1>2. b \in Nat
  BY SignersFinite
<1>3. s.periodState.softVotes[v] <= a
  BY Reserved, ZenonT(30) DEF CountsOK
<1>4. s.periodState.softVotes[v] \in Nat /\ s.requiredVotes \in Nat
  BY ServerStateElim, PeriodStateElim, Reserved DEF Tally
<1> HIDE DEF a, b
<1>5. b >= s.requiredVotes
  BY <1>1, <1>2, <1>3, <1>4, SMTT(30)
<1> QED BY <1>5, SMTT(30) DEF b, Signers

\* Step 3 keeps the invariant.
LEMMA Step3OK ==
    ASSUME Sizes, PeersOK, VotesOK, CallsOK, NEW p \in Node, Step3(p)
    PROVE  Kept
<1> DEFINE s == [state[p] EXCEPT !.step = 3]
<1>1. /\ AtStep(p, 3) /\ p \notin s.periodState.haveCertVoted
      /\ UNCHANGED <<proposeCalls, chainRequests, chainReplies, txCalls, unsent, errors, panicked>>
  BY DEF Step3
<1>2. PICK v \in runStep3(s.periodState.softVotes, s.requiredVotes) :
        IF v = Empty THEN HaltOrNot(p, s) /\ SendNoVote
        ELSE HaltOrNot(p, certify(s, p, v)) /\ SendVote(p, s, v, "cert", 3)
  BY Zenon DEF Step3
<1>3. 3 \in 2 .. 5 /\ 3 # 5 /\ "cert" # "soft" /\ 0 \in Nat
  OBVIOUS
<1>4. Stands(p, s, 3)
  BY <1>1, <1>3, Stepped, ZenonT(30)
<1> HIDE DEF s
<1>5. s \in ServerState /\ s.round \in Rounds /\ s.period \in Periods /\ s.round <= MaxRound
  BY <1>4, BoundAssumption DEF Stands, Rounds
<1>6. CASE v = Empty
  <2>1. HaltOrNot(p, s) /\ signed' = signed \cup {} /\ voteCalls' = voteCalls
    BY <1>2, <1>6, SMTT(30) DEF SendNoVote
  <2>2. StepOK(p, s, blockchain[p], {})
    BY <1>1, <1>3, <1>4, StandsQuiet
  <2>3. PeersOK' /\ VotesOK' /\ Ahead /\ noticeCalls' \subseteq NoticeCall
    BY <1>5, <2>1, <2>2, HaltOrNotOK, ZenonT(30)
  <2>4. CallsOK'
    BY <1>1, <2>1, <2>3, SMTT(30) DEF CallsOK
  <2> QED BY <2>3, <2>4 DEF Kept
<1>7. CASE v # Empty
  <2> DEFINE x == Ballot(p, s, v, "cert", 3)
             t == certify(s, p, v)
  <2>1. s.periodState \in PeriodState /\ s.periodState.softVotes \in Tally
    BY <1>5, ServerStateElim, PeriodStateElim, SMTT(30)
  <2>2. v \in Hash /\ s.periodState.softVotes[v] > 0
        /\ s.periodState.softVotes[v] >= s.requiredVotes
    BY <1>2, <1>7, <2>1, RunStep3, SMTT(30)
  <2>3. v \in Value /\ OfRound(v, s.round, s.period)
    BY <1>4, <2>2, Reserved, ZenonT(30) DEF Stands, PeerOK, PeriodOK
  <2>4. /\ signed' = signed \cup {x} /\ x \in SignedVote /\ voteCalls' \subseteq VoteCall
    BY <1>2, <1>3, <1>5, <1>7, <2>3, SendVoteOK, SMTT(30)
  <2>5. Cardinality(Signers("soft", v, s.round, s.period)) >= s.requiredVotes
    BY <1>4, <2>2, CertBacked, ZenonT(30) DEF Stands, VotesOK
  <2>6. CountsOK(t, signed \cup {x})
    <3>1. signed \cup {x} \in SUBSET SignedVote
      BY <2>4, SMTT(30) DEF VotesOK
    <3>2. CountsOK(s, signed \cup {x})
      BY <1>4, <3>1, CountsSame, SMTT(30) DEF Stands
    <3>3. p \in SignersIn(signed \cup {x}, "cert", v, s.round, s.period)
      BY Signer, SMTT(30)
    <3> QED BY <1>1, <1>5, <2>2, <3>1, <3>2, <3>3, CountsCertify, ZenonT(30)
  <2>7. PeerOK(t, blockchain[p])
    BY <1>4, <2>2, <2>3, CertifyOK, SMTT(30) DEF Stands
  <2>8. /\ t \in ServerState /\ Unchanged(t, s)
        /\ t.periodState.haveNextVotedStep5 = s.periodState.haveNextVotedStep5
    <3>1. /\ t \in ServerState /\ Unchanged(t, s)
          /\ t.periodState = [countCert(s, p, v).periodState EXCEPT !.myCertVote = v]
      BY <1>5, <2>2, Certify, SMTT(30)
    <3>2. /\ countCert(s, p, v).periodState \in PeriodState
          /\ countCert(s, p, v).periodState.haveNextVotedStep5 = s.periodState.haveNextVotedStep5
      BY <1>5, <2>3, CountCert, ServerStateElim, ZenonT(30)
    <3> HIDE DEF t
    <3> QED BY <3>1, <3>2 DEF PeriodState
  <2>9. HaltOrNot(p, t)
    BY <1>2, <1>7, SMTT(30)
  <2> HIDE DEF t, x
  <2>10. /\ t.round = state[p].round /\ t.period = state[p].period /\ t.step = 3
         /\ t.proposalBuffer = state[p].proposalBuffer /\ t.round <= MaxRound
         /\ t.periodState.haveNextVotedStep5 = state[p].periodState.haveNextVotedStep5
         /\ s.round = state[p].round /\ s.period = state[p].period
    BY <1>4, <1>5, <2>8 DEF Stands, Unchanged
  <2>11. StepOK(p, t, blockchain[p], {x})
    BY <1>1, <1>3, <2>3, <2>4, <2>5, <2>6, <2>7, <2>8, <2>10, Cast, ZenonT(30) DEF x
  <2>12. PeersOK' /\ VotesOK' /\ Ahead /\ noticeCalls' \subseteq NoticeCall
    BY <2>4, <2>9, <2>10, <2>11, HaltOrNotOK, ZenonT(30)
  <2>13. CallsOK'
    BY <1>1, <2>4, <2>12, ZenonT(30) DEF CallsOK
  <2> QED BY <2>12, <2>13 DEF Kept
<1> QED BY <1>6, <1>7

\* The state of a peer that has counted its own next-vote.
LEMMA NextCounted ==
    ASSUME NEW p \in Node, NEW step \in {4, 5}, NEW s, Stands(p, s, step), NEW v \in Value,
           v \in Hash => OfRound(v, s.round, s.period)
    PROVE  LET t == countNext(s, p, v, step)
           IN /\ t \in ServerState /\ PeerOK(t, blockchain[p])
              /\ t.round = state[p].round /\ t.period = state[p].period /\ t.step = step
              /\ t.proposalBuffer = state[p].proposalBuffer /\ t.period <= MaxPeriod
              /\ t.periodState.softVotes = s.periodState.softVotes
              /\ t.periodState.haveSoftVoted = s.periodState.haveSoftVoted
              /\ t.periodState.certVotes = s.periodState.certVotes
              /\ t.periodState.haveCertVoted = s.periodState.haveCertVoted
              /\ state[p].periodState.haveNextVotedStep5 \subseteq t.periodState.haveNextVotedStep5
              /\ step = 5 => p \in t.periodState.haveNextVotedStep5
<1> DEFINE t == countNext(s, p, v, step)
<1>1. /\ s \in ServerState /\ PeerOK(s, blockchain[p]) /\ s.period <= MaxPeriod
      /\ s.round = state[p].round /\ s.period = state[p].period /\ s.step = step
      /\ s.proposalBuffer = state[p].proposalBuffer /\ s.periodState = state[p].periodState
  BY BoundAssumption DEF Stands, Periods
<1>2. /\ t \in ServerState /\ Unchanged(t, s)
      /\ t.periodState.haveNextVotedStep5
           = s.periodState.haveNextVotedStep5 \cup (IF step = 4 THEN {} ELSE {p})
      /\ t.periodState.softVotes = s.periodState.softVotes
      /\ t.periodState.haveSoftVoted = s.periodState.haveSoftVoted
      /\ t.periodState.certVotes = s.periodState.certVotes
      /\ t.periodState.haveCertVoted = s.periodState.haveCertVoted
  <2>1. s \in ServerState
    BY <1>1, Zenon
  <2> QED BY <2>1, CountNext
<1>3. PeerOK(t, blockchain[p])
  BY <1>1, CountNextOK
<1> HIDE DEF t
<1>4. /\ t.round = s.round /\ t.period = s.period /\ t.step = s.step
      /\ t.proposalBuffer = s.proposalBuffer
  BY <1>2 DEF Unchanged
<1>5. /\ s.periodState.haveNextVotedStep5 \subseteq t.periodState.haveNextVotedStep5
      /\ step = 5 => p \in t.periodState.haveNextVotedStep5
  BY <1>2
<1> QED BY <1>1, <1>2, <1>3, <1>4, <1>5 DEF t

\* A next-vote, and the next period if there are enough of them.
LEMMA NextVoteOK ==
    ASSUME Sizes, PeersOK, VotesOK, CallsOK, NEW p \in Node, NEW step \in {4, 5}, AtStep(p, step),
           step = 5 => p \notin state[p].periodState.haveNextVotedStep5,
           NEW s, Stands(p, s, step), NEW v \in Value, v \in Hash => OfRound(v, s.round, s.period)
    PROVE  /\ NextPeriodOrNot(p, countNext(s, p, v, step)) /\ SendVote(p, s, v, "next", step)
           /\ UNCHANGED <<blockchain, proposeCalls, noticeCalls, chainRequests, chainReplies,
                          txCalls, unsent, errors, panicked>>
           => Kept
<1>1. step \in 2 .. 5 /\ step # 2
  OBVIOUS
<1>2. s \in ServerState /\ s.round \in Rounds /\ s.period \in Periods /\ CountsOK(s, signed)
      /\ s.round = state[p].round /\ s.period = state[p].period
  BY DEF Stands
<1> DEFINE x == Ballot(p, s, v, "next", step)
           t == countNext(s, p, v, step)
<1>3. /\ t \in ServerState /\ PeerOK(t, blockchain[p])
      /\ t.round = state[p].round /\ t.period = state[p].period /\ t.step = step
      /\ t.proposalBuffer = state[p].proposalBuffer /\ t.period <= MaxPeriod
      /\ t.periodState.softVotes = s.periodState.softVotes
      /\ t.periodState.haveSoftVoted = s.periodState.haveSoftVoted
      /\ t.periodState.certVotes = s.periodState.certVotes
      /\ t.periodState.haveCertVoted = s.periodState.haveCertVoted
      /\ state[p].periodState.haveNextVotedStep5 \subseteq t.periodState.haveNextVotedStep5
      /\ step = 5 => p \in t.periodState.haveNextVotedStep5
  BY NextCounted, Zenon
<1>4. SUFFICES ASSUME NextPeriodOrNot(p, t), SendVote(p, s, v, "next", step),
                      UNCHANGED <<blockchain, proposeCalls, noticeCalls, chainRequests,
                                  chainReplies, txCalls, unsent, errors, panicked>>
               PROVE  Kept
  BY Zenon
<1>5. /\ signed' = signed \cup {x} /\ x \in SignedVote /\ voteCalls' \subseteq VoteCall
  BY <1>1, <1>2, <1>4, SendVoteOK, Zenon
<1> HIDE DEF t, x
<1>6. CountsOK(t, signed \cup {x})
  <2>1. signed \cup {x} \in SUBSET SignedVote
    BY <1>5 DEF VotesOK
  <2> QED BY <1>2, <1>3, <1>5, <2>1, CountsSame, Zenon
<1>7. StepOK(p, t, blockchain[p], {x})
  BY <1>1, <1>2, <1>3, <1>5, <1>6, Cast, ZenonT(30) DEF x
<1>8. PeersOK' /\ VotesOK' /\ Ahead
  BY <1>3, <1>4, <1>5, <1>7, NextPeriodOrNotOK, ZenonT(30)
<1>9. CallsOK'
  BY <1>4, <1>5, Zenon DEF CallsOK
<1> QED BY <1>8, <1>9, Zenon DEF Kept

\* Step 4 keeps the invariant.
LEMMA Step4OK ==
    ASSUME Sizes, PeersOK, VotesOK, CallsOK, NEW p \in Node, Step4(p)
    PROVE  Kept
<1> DEFINE s == [state[p] EXCEPT !.step = 4]
<1>1. /\ AtStep(p, 4)
      /\ UNCHANGED <<blockchain, proposeCalls, noticeCalls, chainRequests, chainReplies,
                     txCalls, unsent, errors, panicked>>
  BY DEF Step4
<1>2. PICK v \in runStep4(s.period, s.periodState.myCertVote, s.periodState.startingValue,
                          s.lastPeriodState.nextVotes, s.requiredVotes) :
        /\ NextPeriodOrNot(p, countNext(s, p, v, 4))
        /\ SendVote(p, s, v, "next", 4)
  BY Zenon DEF Step4
<1>3. 4 \in 2 .. 5 /\ 4 \in {4, 5} /\ 4 # 5 /\ 0 \in Nat
  OBVIOUS
<1>4. Stands(p, s, 4)
  BY <1>1, <1>3, Stepped, ZenonT(30)
<1> HIDE DEF s
<1>5. v = s.periodState.myCertVote \/ v = Bottom \/ v = s.periodState.startingValue
  BY <1>2, RunStep4, SMTT(30)
<1>6. s.periodState.myCertVote \in Value /\ s.periodState.startingValue \in Value
  BY <1>4, ServerStateElim, PeriodStateElim, Reserved, ZenonT(30) DEF Stands
<1>7. PeriodOK(s.periodState, blockchain[p], s.period) /\ Len(blockchain[p]) = s.round
  BY <1>4, ZenonT(30) DEF Stands, PeerOK
<1>8. v \in Value /\ (v \in Hash => OfRound(v, s.round, s.period))
  BY <1>5, <1>6, <1>7, Reserved, SMTT(30) DEF PeriodOK
<1> QED BY <1>1, <1>2, <1>3, <1>4, <1>8, NextVoteOK, ZenonT(30)

\* Step 5 keeps the invariant.
LEMMA Step5OK ==
    ASSUME Sizes, PeersOK, VotesOK, CallsOK, NEW p \in Node, Step5(p)
    PROVE  Kept
<1> DEFINE s == [state[p] EXCEPT !.step = 5]
<1>1. /\ AtStep(p, 5) /\ p \notin s.periodState.haveNextVotedStep5
      /\ UNCHANGED <<blockchain, proposeCalls, noticeCalls, chainRequests, chainReplies,
                     txCalls, unsent, errors, panicked>>
  BY DEF Step5
<1>2. PICK v \in runStep5(s.period, s.periodState.softVotes, s.periodState.myCertVote,
                          s.lastPeriodState.nextVotes, s.requiredVotes) :
        IF v = Empty THEN NextPeriodOrNot(p, s) /\ SendNoVote
        ELSE NextPeriodOrNot(p, countNext(s, p, v, 5)) /\ SendVote(p, s, v, "next", 5)
  BY Zenon DEF Step5
<1>3. 5 \in 2 .. 5 /\ 5 \in {4, 5} /\ 0 \in Nat
  OBVIOUS
<1>4. Stands(p, s, 5)
  BY <1>1, <1>3, Stepped, ZenonT(30)
<1> HIDE DEF s
<1>5. s \in ServerState /\ s.period <= MaxPeriod /\ s.periodState = state[p].periodState
  BY <1>4, BoundAssumption DEF Stands, Periods
<1>6. CASE v = Empty
  <2>1. NextPeriodOrNot(p, s) /\ signed' = signed \cup {} /\ voteCalls' = voteCalls
        /\ blockchain' = blockchain
    BY <1>1, <1>2, <1>6, SMTT(30) DEF SendNoVote
  <2>2. StepOK(p, s, blockchain[p], {})
    BY <1>1, <1>3, <1>4, StandsQuiet, SMTT(30)
  <2>3. PeersOK' /\ VotesOK' /\ Ahead
    BY <1>5, <2>1, <2>2, NextPeriodOrNotOK, ZenonT(30)
  <2>4. CallsOK'
    BY <1>1, <2>1, Zenon DEF CallsOK
  <2> QED BY <2>3, <2>4, SMTT(30) DEF Kept
<1>7. CASE v # Empty
  <2>1. s.periodState.softVotes \in Tally
    BY <1>5, ServerStateElim, PeriodStateElim, ZenonT(30)
  <2>2. v = Bottom \/ (v \in Hash /\ s.periodState.softVotes[v] > 0)
    BY <1>2, <1>7, <2>1, RunStep5, SMTT(30)
  <2>3. PeriodOK(s.periodState, blockchain[p], s.period) /\ Len(blockchain[p]) = s.round
    BY <1>4, ZenonT(30) DEF Stands, PeerOK
  <2>4. v \in Value /\ (v \in Hash => OfRound(v, s.round, s.period))
    BY <2>2, <2>3, Reserved, SMTT(30) DEF PeriodOK
  <2>5. p \notin state[p].periodState.haveNextVotedStep5
    BY <1>1, <1>5
  <2> QED BY <1>1, <1>2, <1>3, <1>4, <1>7, <2>4, <2>5, NextVoteOK, ZenonT(30)
<1> QED BY <1>6, <1>7

=============================================================================
