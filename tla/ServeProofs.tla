----------------------------- MODULE ServeProofs -----------------------------
(***************************************************************************)
(* The theorems about the asynchronous system, for any number of peers (at *)
(* least 4), rounds and periods, any outcome of the lotteries and any      *)
(* number of transport errors.                                             *)
(***************************************************************************)
EXTENDS TickProofs, RoundProofs, DeliverProofs, FiniteSetTheorems

\* A nonempty set of naturals has a least element.
LEMMA LeastNat ==
    ASSUME NEW T \in SUBSET Nat, T # {}
    PROVE  \E x \in T : \A y \in T : x <= y
<1> DEFINE R == OpToRel(<, Nat)
<1>1. IsWellFoundedOn(R, Nat)
  BY NatLessThanWellFounded, Zenon
<1>2. \A x, y \in Nat : x < y => <<x, y>> \in R
  BY DEF OpToRel
<1> HIDE DEF R
<1>3. PICK x \in T : \A y \in T : ~ (<<y, x>> \in R)
  BY <1>1, WFMin
<1>4. ASSUME NEW y \in T PROVE x <= y
  <2>1. x \in Nat /\ y \in Nat
    OBVIOUS
  <2>2. ~ (y < x)
    BY <1>2, <1>3, <2>1
  <2> QED BY <2>1, <2>2
<1> QED BY <1>4

\* The facts about sizes hold, since peers, rounds and periods are finitely many.
LEMMA SizesHold == Sizes
<1> DEFINE P == Node \X (Rounds \X Periods)
           f == [x \in P |-> <<x[1], x[2][1], x[2][2]>>]
<1>1. IsFiniteSet(Rounds) /\ IsFiniteSet(Periods)
  BY FS_Interval, BoundAssumption DEF Rounds, Periods
<1>2. IsFiniteSet(Rounds \X Periods)
  BY <1>1, FS_Product
<1>3. IsFiniteSet(P)
  BY <1>2, NodeAssumption, FS_Product
<1>4. f \in [P -> Slot]
  BY DEF Slot
<1>5. ASSUME NEW y \in Slot PROVE \E x \in P : f[x] = y
  <2>1. PICK a \in Node, b \in Rounds, c \in Periods : y = <<a, b, c>>
    BY DEF Slot
  <2>2. <<a, <<b, c>>>> \in P /\ f[<<a, <<b, c>>>>] = y
    BY <2>1
  <2> QED BY <2>2
<1>6. f \in Surjection(P, Slot)
  BY <1>4, <1>5, Zenon DEF Surjection
<1> HIDE DEF P, f
<1>7. IsFiniteSet(Slot)
  BY <1>3, <1>6, FS_Surjection
<1>8. \A S \in SUBSET Slot : Cardinality(S) \in Nat
  BY <1>7, FS_Subset, FS_CardinalityType
<1>9. ASSUME NEW T \in SUBSET Node
      PROVE  /\ Cardinality(T) \in Nat
             /\ \A S \in SUBSET T : Cardinality(S) <= Cardinality(T)
             /\ \A q \in Node \ T : Cardinality(T \cup {q}) = Cardinality(T) + 1
  <2>1. IsFiniteSet(T)
    BY NodeAssumption, FS_Subset
  <2> QED BY <2>1, FS_Subset, FS_CardinalityType, FS_AddElement
<1> QED BY <1>8, <1>9, LeastNat DEF Sizes

\* The peers start in a state of the invariant.
LEMMA InitOK == Init => IndInv
<1> SUFFICES ASSUME Init PROVE IndInv
  OBVIOUS
<1>1. /\ state = [p \in Node |-> InitialState] /\ blockchain = [p \in Node |-> <<GenesisBlock>>]
      /\ signed = {}
  BY DEF Init
<1>2. InitialState \in ServerState /\ PeerOK(InitialState, <<GenesisBlock>>)
  BY InitialPeerOK
<1>3. <<GenesisBlock>> \in Chain
  <2>1. GenesisBlock \in Block
    BY DEF GenesisBlock, Block
  <2> QED BY <2>1 DEF Chain
<1>4. InitialState.proposalBuffer = {} /\ InitialState.periodState = initPeriodState(Bottom)
  BY DEF InitialState
<1>5. CountsOK(InitialState, signed)
  BY <1>1, <1>4, CountsReset, SizesHold
<1>6. PeersOK
  BY <1>1, <1>2, <1>3, <1>4, <1>5 DEF PeersOK
<1>7. VotesOK
  BY <1>1 DEF VotesOK, OneVotePerStep, CertsBacked, CertVotes
<1>8. CallsOK
  <2>1. errors \in 0 .. MaxErrors
    BY ServeAssumption DEF Init
  <2>2. panicked \in BOOLEAN
    BY Zenon DEF Init
  <2> QED BY <2>1, <2>2 DEF Init, CallsOK
<1> QED BY <1>6, <1>7, <1>8, IndInvParts

\* Every tick of a timer keeps the invariant.
LEMMA TickOK ==
    ASSUME Sizes, PeersOK, VotesOK, CallsOK, NEW p \in Node, Tick(p)
    PROVE  Kept
BY RoundTimerOK, AgreementTimerIdleOK, AgreementTimerNonMemberOK, Step2OK, Step3OK, Step4OK,
   Step5OK, SMTT(30) DEF Tick

\* Every step of the specification keeps the invariant.
LEMMA NextOK ==
    ASSUME Sizes, PeersOK, VotesOK, CallsOK, Next
    PROVE  Kept
<1>1. ASSUME NEW p \in Node, Refuse(p) PROVE Kept
  BY <1>1, VoteNotCountedOK DEF Refuse
<1> QED BY <1>1, TickOK, DeliverOK, ClientSendOK, TransportErrorOK DEF Next

\* Every step leads to a state of the invariant, and takes no peer back.
LEMMA StepKeeps == IndInv /\ [Next]_vars => IndInv' /\ Ahead
<1> SUFFICES ASSUME IndInv, [Next]_vars PROVE IndInv' /\ Ahead
  OBVIOUS
<1>1. PeersOK /\ VotesOK /\ CallsOK
  BY IndInvParts
<1>2. CASE Next
  <2>1. PeersOK' /\ VotesOK' /\ CallsOK' /\ Ahead
    BY <1>1, <1>2, NextOK, SizesHold DEF Kept
  <2>2. IndInv'
    BY <2>1 DEF IndInv, TypeOK, MessagesOK, PeersOK, VotesOK, CallsOK
  <2> QED BY <2>1, <2>2
<1>3. CASE UNCHANGED vars
  <2>1. UNCHANGED <<state, blockchain, signed>>
    BY <1>3 DEF vars
  <2>2. PeersOK' /\ VotesOK' /\ Ahead
    BY <1>1, <2>1, NoPeerStep
  <2>3. CallsOK'
    BY <1>1, <1>3 DEF CallsOK, vars
  <2>4. IndInv'
    BY <2>2, <2>3 DEF IndInv, TypeOK, MessagesOK, PeersOK, VotesOK, CallsOK
  <2> QED BY <2>2, <2>4
<1> QED BY <1>2, <1>3

\* The inductive invariant holds in every execution of the system.
THEOREM Invariance == Spec => []IndInv
<1>1. Init => IndInv
  BY InitOK
<1>2. IndInv /\ [Next]_vars => IndInv'
  BY StepKeeps
<1> QED BY <1>1, <1>2, PTL DEF Spec

(***************************************************************************)
(* The state of every peer, and every call in flight, has its type: the    *)
(* structs and maps of serve.go hold what they are declared for.           *)
(***************************************************************************)
THEOREM TypeCorrect == Spec => []TypeOK
<1>1. IndInv => TypeOK
  BY DEF IndInv
<1> QED BY <1>1, Invariance, PTL

(***************************************************************************)
(* Chains are linked and as long as the round says, whatever value a peer  *)
(* halts on (handleHalt) and whichever chain it takes over unchecked.      *)
(***************************************************************************)
THEOREM Linked == Spec => []ChainsLinked
<1>1. IndInv => ChainsLinked
  BY DEF IndInv, PeerOK, ChainOK, ChainsLinked
<1> QED BY <1>1, Invariance, PTL

(***************************************************************************)
(* The round timer never meets "err" from runStep1, so the panic "no bug,  *)
(* no here" of serve is never reached.                                     *)
(***************************************************************************)
THEOREM NoErr == Spec => []Step1NeverErr
<1>1. IndInv => Step1NeverErr
  <2> SUFFICES ASSUME IndInv, NEW p \in Node, state[p].readyForNextRound
               PROVE  Err \notin runStep1(state[p].period, state[p].lastPeriodState.nextVotes,
                                          state[p].requiredVotes)
    BY DEF Step1NeverErr
  <2> DEFINE s == state[p]
  <2>1. s \in ServerState /\ PeerOK(s, blockchain[p])
    BY DEF IndInv, TypeOK
  <2>2. /\ s.lastPeriodState.nextVotes \in Tally /\ s.requiredVotes \in Nat
        /\ s.period \in Nat /\ s.period >= 1
    BY <2>1, ServerStateElim, PeriodStateElim
  <2>3. s.period > 1 => \E v \in MostVoted(s.lastPeriodState.nextVotes) :
                           s.lastPeriodState.nextVotes[v] >= s.requiredVotes
    BY <2>1, Zenon DEF PeerOK
  <2> HIDE DEF s
  <2>4. Err \notin runStep1(s.period, s.lastPeriodState.nextVotes, s.requiredVotes)
    BY <2>2, <2>3, RunStep1NotErr
  <2> QED BY <2>4 DEF s
<1> QED BY <1>1, Invariance, PTL

(***************************************************************************)
(* A peer signs at most one vote in a step of a period, through all the    *)
(* retries, late messages and changes of round of serve.                   *)
(***************************************************************************)
THEOREM NoEquivocation == Spec => []OneVotePerStep
<1>1. IndInv => OneVotePerStep
  BY DEF IndInv
<1> QED BY <1>1, Invariance, PTL

(***************************************************************************)
(* What a peer has counted for a value, soft-votes or cert-votes, is never *)
(* more than the number of peers that signed such a vote.                  *)
(***************************************************************************)
THEOREM HonestCounts == Spec => []TalliesBacked
<1>1. IndInv => TalliesBacked
  <2> SUFFICES ASSUME IndInv, NEW p \in Node, NEW v \in Value
               PROVE  LET s == state[p]
                      IN /\ s.periodState.softVotes[v]
                              <= Cardinality(Signers("soft", v, s.round, s.period))
                         /\ s.periodState.certVotes[v]
                              <= Cardinality(Signers("cert", v, s.round, s.period))
    BY DEF TalliesBacked
  <2>1. state[p] \in ServerState /\ signed \in SUBSET SignedVote /\ CountsOK(state[p], signed)
    BY DEF IndInv, TypeOK
  <2>2. state[p].periodState.softVotes[v] \in Nat /\ state[p].periodState.certVotes[v] \in Nat
    BY <2>1, ServerStateElim, PeriodStateElim DEF Tally
  <2>3. ASSUME NEW n \in Nat, NEW S, NEW type,
               n <= Cardinality(S \cap SignersIn(signed, type, v, state[p].round, state[p].period))
        PROVE  n <= Cardinality(SignersIn(signed, type, v, state[p].round, state[p].period))
    <3> DEFINE a == Cardinality(S \cap SignersIn(signed, type, v, state[p].round, state[p].period))
               b == Cardinality(SignersIn(signed, type, v, state[p].round, state[p].period))
    <3>1. a \in Nat /\ a <= b
      BY <2>1, SignersFinite, SizesHold
    <3>2. b \in Nat
      BY <2>1, SignersFinite, SizesHold
    <3> HIDE DEF a, b
    <3>3. n <= a
      BY <2>3 DEF a
    <3>4. n <= b
      BY <3>1, <3>2, <3>3
    <3> QED BY <3>4 DEF b
  <2>4. /\ state[p].periodState.softVotes[v] <= Cardinality(
              SignersIn(signed, "soft", v, state[p].round, state[p].period))
        /\ state[p].periodState.certVotes[v] <= Cardinality(
              SignersIn(signed, "cert", v, state[p].round, state[p].period))
    BY <2>1, <2>2, <2>3 DEF CountsOK
  <2> QED BY <2>4 DEF Signers
<1> QED BY <1>1, Invariance, PTL

(***************************************************************************)
(* What is voted for and what is appended in a round was proposed in it.   *)
(***************************************************************************)
THEOREM RoundsApart == Spec => []ValuesOfRound
<1>1. IndInv => ValuesOfRound
  <2> SUFFICES ASSUME IndInv PROVE ValuesOfRound
    OBVIOUS
  <2>1. \A x \in signed : x.vote.value \in Hash =>
           x.vote.value[2] = x.vote.round /\ x.vote.value[3] <= x.vote.period
    BY DEF IndInv, VoteOK, OfRound
  <2>2. \A p \in Node : ChainOK(blockchain[p])
    BY DEF IndInv, PeerOK
  <2>3. \A p \in Node : \A i \in 2 .. Len(blockchain[p]) :
           blockchain[p][i] # Nil => blockchain[p][i].hash[2] = i - 1
    BY <2>2 DEF ChainOK
  <2> QED BY <2>1, <2>3 DEF ValuesOfRound
<1> QED BY <1>1, Invariance, PTL

(***************************************************************************)
(* Behind every cert-vote are as many soft-votes of different peers as its *)
(* signer required in step 3.                                              *)
(***************************************************************************)
THEOREM CertsHaveQuorum == Spec => []CertsBacked
<1>1. IndInv => CertsBacked
  BY DEF IndInv
<1> QED BY <1>1, Invariance, PTL

(***************************************************************************)
(* No step of serve takes a peer back, or makes its chain shorter.         *)
(***************************************************************************)
THEOREM OnlyForward == Spec => Forward
<1>1. IndInv /\ [Next]_vars
      => [\A p \in Node : /\ NotBefore(state'[p], state[p])
                          /\ Len(blockchain'[p]) >= Len(blockchain[p])]_vars
  BY StepKeeps DEF Ahead
<1> QED BY <1>1, Invariance, PTL DEF Spec, Forward

-----------------------------------------------------------------------------
\* 2t+1 of n is a majority, but for n = 2.
LEMMA QuorumMajority ==
    ASSUME NEW n \in Nat, n # 2
    PROVE  RequiredVotes(n) \in Nat /\ RequiredVotes(n) + RequiredVotes(n) > n
<1> DEFINE k == n \div 3
<1>1. k \in Nat /\ n - 3 * k \in {0, 1, 2}
  OBVIOUS
<1>2. RequiredVotes(n) = 2 * k + 1
  BY DEF RequiredVotes
<1> HIDE DEF k
<1> QED BY <1>1, <1>2

\* Nobody signs soft-votes for two values in the same round and period.
LEMMA SoftSignersDisjoint ==
    ASSUME IndInv, NEW u, NEW v, u # v, NEW round, NEW period
    PROVE  Signers("soft", u, round, period) \cap Signers("soft", v, round, period) = {}
<1> SUFFICES ASSUME NEW q, q \in Signers("soft", u, round, period),
                    q \in Signers("soft", v, round, period)
             PROVE  FALSE
  OBVIOUS
<1>1. PICK x \in signed : /\ x.vote.peer = q /\ x.vote.voteType = "soft" /\ x.vote.value = u
                          /\ x.vote.round = round /\ x.vote.period = period
  BY DEF Signers, SignersIn
<1>2. PICK y \in signed : /\ y.vote.peer = q /\ y.vote.voteType = "soft" /\ y.vote.value = v
                          /\ y.vote.round = round /\ y.vote.period = period
  BY DEF Signers, SignersIn
<1>3. x.vote.step = 2 /\ y.vote.step = 2
  BY <1>1, <1>2 DEF IndInv, VoteOK
<1>4. x = y
  BY <1>1, <1>2, <1>3 DEF IndInv, OneVotePerStep
<1> QED BY <1>1, <1>2, <1>4

(***************************************************************************)
(* Two peers that certify in the same round and period, each with at least *)
(* the 2t+1 of the peers that soft-voted, certify the same value: their    *)
(* quorums of soft-votes share a peer, and a peer soft-votes only once.    *)
(***************************************************************************)
THEOREM Agreed == Spec => []CertAgreement
<1>1. IndInv => CertAgreement
  <2> SUFFICES ASSUME IndInv, NEW x \in CertVotes, NEW y \in CertVotes,
                      x.vote.round = y.vote.round, x.vote.period = y.vote.period,
                      Cardinality(SoftVoters(x.vote.round, x.vote.period)) # 2,
                      x.required >= RequiredVotes(
                          Cardinality(SoftVoters(x.vote.round, x.vote.period))),
                      y.required >= RequiredVotes(
                          Cardinality(SoftVoters(x.vote.round, x.vote.period))),
                      x.vote.value # y.vote.value
               PROVE  FALSE
    BY DEF CertAgreement
  <2> DEFINE U == SoftVoters(x.vote.round, x.vote.period)
             S == Signers("soft", x.vote.value, x.vote.round, x.vote.period)
             T == Signers("soft", y.vote.value, x.vote.round, x.vote.period)
             n == Cardinality(U)
  <2>1. signed \in SUBSET SignedVote /\ x \in SignedVote /\ y \in SignedVote
    BY DEF IndInv, TypeOK, CertVotes
  <2>2. x.required \in Nat /\ y.required \in Nat
    BY <2>1 DEF SignedVote
  <2>3. U \subseteq Node /\ S \subseteq U /\ T \subseteq U
    BY <2>1 DEF SoftVoters, Signers, SignersIn, SignedVote, Vote
  <2>4. IsFiniteSet(U) /\ IsFiniteSet(S) /\ IsFiniteSet(T)
    BY <2>3, NodeAssumption, FS_Subset
  <2>5. n \in Nat /\ Cardinality(S) \in Nat /\ Cardinality(T) \in Nat
    BY <2>4, FS_CardinalityType
  <2>6. Cardinality(S) >= x.required /\ Cardinality(T) >= y.required
    BY DEF IndInv, CertsBacked
  <2>7. n # 2 /\ x.required >= RequiredVotes(n) /\ y.required >= RequiredVotes(n)
    OBVIOUS
  <2>8. S \cap T = {}
    BY SoftSignersDisjoint
  <2> HIDE DEF U, S, T, n
  <2>9. RequiredVotes(n) \in Nat /\ RequiredVotes(n) + RequiredVotes(n) > n
    BY <2>5, <2>7, QuorumMajority
  <2>10. Cardinality(S) + Cardinality(T) > n
    BY <2>2, <2>5, <2>6, <2>7, <2>9
  <2>11. Cardinality(S) + Cardinality(T) > Cardinality(U)
    BY <2>10 DEF n
  <2> QED BY <2>3, <2>4, <2>8, <2>11, FS_MajoritiesIntersect
<1> QED BY <1>1, Invariance, PTL

-----------------------------------------------------------------------------
\* A step in which one peer acts is a step of Ballots.
LEMMA PromiseStep ==
    ASSUME Ahead, NEW p \in Node, \A q \in Node \ {p} : state'[q] = state[q],
           \/ signed' = signed
           \/ \E x : /\ signed' = signed \cup {x} /\ MayCast(p, x)
                    /\ Reached(state'[p], x.vote.round, x.vote.period, x.vote.step),
           state[p] \in ServerState
    PROVE  Promise!Next
<1>1. Promise!Move(p)
  <2>1. Places' = [Places EXCEPT ![p] = Places'[p]]
    BY DEF Places
  <2>2. Promise!AtOrAfter(Places'[p], Places[p])
    <3>1. NotBefore(state'[p], state[p])
      BY DEF Ahead
    <3> QED BY <3>1 DEF NotBefore, Reached, Places, Promise!AtOrAfter
  <2> QED BY <2>1, <2>2 DEF Promise!Move
<1>2. CASE signed' = signed
  BY <1>1, <1>2 DEF Promise!Next
<1>3. ASSUME NEW x, signed' = signed \cup {x}, MayCast(p, x),
             Reached(state'[p], x.vote.round, x.vote.period, x.vote.step)
      PROVE  Promise!Next
  <2>1. Promise!AtOrAfter(x.vote, Places[p])
    BY <1>3 DEF MayCast, Places, Promise!AtOrAfter
  <2>2. Promise!AtOrAfter(Places'[p], x.vote)
    BY <1>3 DEF Reached, Places, Promise!AtOrAfter
  <2>3. Promise!SoftVoters(x.vote) =
           Signers("soft", x.vote.value, x.vote.round, x.vote.period)
    BY DEF Promise!SoftVoters, Signers, SignersIn
  <2>4. Promise!Allowed(p, x)
    <3>1. \A y \in signed : ~(y.vote.peer = p /\ Promise!SameStep(x.vote, y.vote))
      BY <1>3 DEF MayCast, Promise!SameStep
    <3>2. x.vote.voteType = "cert" => Cardinality(Promise!SoftVoters(x.vote)) >= x.required
      BY <1>3, <2>3 DEF MayCast
    <3>3. x.vote.peer = p
      BY <1>3 DEF MayCast
    <3> QED BY <2>1, <3>1, <3>2, <3>3 DEF Promise!Allowed, Promise!Cardinality, Cardinality
  <2>5. x \in signed'
    BY <1>3
  <2>6. Promise!Cast(p)
    BY <1>1, <1>3, <2>2, <2>4, <2>5, Zenon DEF Promise!Cast
  <2> QED BY <2>6 DEF Promise!Next
<1> QED BY <1>2, <1>3

(***************************************************************************)
(* The service loops implement Ballots: whatever is delayed, repeated or   *)
(* lost, a peer votes once in a step, as it passes it, and certifies only  *)
(* what as many peers as it requires have soft-voted for.                  *)
(***************************************************************************)
THEOREM Promised == Spec => KeepsPromise
<1>1. Init => Promise!Init
  BY DEF Init, InitialState, Places, Promise!Init
<1>2. IndInv /\ [Next]_vars => [Promise!Next]_<<Places, signed>>
  <2> SUFFICES ASSUME IndInv, [Next]_vars
               PROVE  Promise!Next \/ UNCHANGED <<Places, signed>>
    OBVIOUS
  <2>1. Ahead /\ OneActor
    BY StepKeeps DEF Ahead
  <2>2. \A p \in Node : state[p] \in ServerState
    BY DEF IndInv, TypeOK
  <2>3. CASE UNCHANGED <<state, signed>>
    BY <2>3 DEF Places
  <2> QED BY <2>1, <2>2, <2>3, PromiseStep, Zenon DEF OneActor
<1> QED BY <1>1, <1>2, Invariance, PTL DEF Spec, KeepsPromise, Promise!Spec

=============================================================================
