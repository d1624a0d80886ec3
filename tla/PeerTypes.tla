------------------------------ MODULE PeerTypes ------------------------------
(***************************************************************************)
(* What the functions of Peer do to each field of a peer's state, and that *)
(* they return a ServerState again.                                        *)
(***************************************************************************)
EXTENDS Peer, TLAPS

(***************************************************************************)
(* What the proofs need to know of the sizes of sets and of the order of   *)
(* the naturals.  ServeProofs derives it from the library's theorems; the  *)
(* lemmas in between take it as a hypothesis.                              *)
(***************************************************************************)
Sizes ==
    /\ \A S \in SUBSET Slot : Cardinality(S) \in Nat
    /\ \A S \in SUBSET Node : Cardinality(S) \in Nat
    /\ \A T \in SUBSET Node : \A S \in SUBSET T : Cardinality(S) <= Cardinality(T)
    /\ \A S \in SUBSET Node : \A q \in Node \ S : Cardinality(S \cup {q}) = Cardinality(S) + 1
    /\ \A T \in SUBSET Nat : T # {} => \E x \in T : \A y \in T : x <= y

ServerFields == {"round", "period", "step", "readyForNextRound", "committeeMember",
    "isCommitteeMember", "Q", "transactionPool", "periodState", "lastPeriodState",
    "requiredVotes", "proposalBuffer", "agreementTimer"}

PeriodFields == {"idToBlock", "valueToQ", "nextVotes", "softVotes", "certVotes",
    "haveNextVotedStep4", "haveNextVotedStep5", "haveSoftVoted", "haveCertVoted",
    "myCertVote", "leader", "startingValue"}

(***************************************************************************)
(* A record whose fields have the right types is a ServerState, and every  *)
(* ServerState is such a record: the way around EXCEPT of several fields.  *)
(***************************************************************************)
LEMMA ServerStateRecord ==
    ASSUME NEW s \in ServerState
    PROVE  s = [f \in ServerFields |-> s[f]]
BY DEF ServerState, ServerFields

\* The converse of ServerStateRecord.
LEMMA ServerStateIntro ==
    ASSUME NEW r, r = [f \in ServerFields |-> r[f]],
           r.round \in 1 .. MaxRound + 1, r.period \in 1 .. MaxPeriod + 1, r.step \in 1 .. 5,
           r.readyForNextRound \in BOOLEAN, r.committeeMember \in SUBSET Slot,
           r.isCommitteeMember \in BOOLEAN, r.Q \in Seed, r.transactionPool \in SUBSET Tx,
           r.periodState \in PeriodState, r.lastPeriodState \in PeriodState,
           r.requiredVotes \in Nat, r.proposalBuffer \in SUBSET Proposal,
           r.agreementTimer \in BOOLEAN
    PROVE  r \in ServerState
BY DEF ServerState, ServerFields

\* The fields of a ServerState.
LEMMA ServerStateElim ==
    ASSUME NEW r \in ServerState
    PROVE  /\ r.round \in 1 .. MaxRound + 1 /\ r.period \in 1 .. MaxPeriod + 1
           /\ r.step \in 1 .. 5
           /\ r.readyForNextRound \in BOOLEAN /\ r.committeeMember \in SUBSET Slot
           /\ r.isCommitteeMember \in BOOLEAN /\ r.Q \in Seed
           /\ r.transactionPool \in SUBSET Tx
           /\ r.periodState \in PeriodState /\ r.lastPeriodState \in PeriodState
           /\ r.requiredVotes \in Nat /\ r.proposalBuffer \in SUBSET Proposal
           /\ r.agreementTimer \in BOOLEAN
BY DEF ServerState

\* The same three facts for the state of a period.
LEMMA PeriodStateRecord ==
    ASSUME NEW s \in PeriodState
    PROVE  s = [f \in PeriodFields |-> s[f]]
BY DEF PeriodState, PeriodFields

\* The converse of PeriodStateRecord.
LEMMA PeriodStateIntro ==
    ASSUME NEW r, r = [f \in PeriodFields |-> r[f]],
           r.idToBlock \in [Node -> Block \cup {Nil}], r.valueToQ \in [Hash -> Seed],
           r.nextVotes \in Tally, r.softVotes \in Tally, r.certVotes \in Tally,
           r.haveNextVotedStep4 \in SUBSET Node, r.haveNextVotedStep5 \in SUBSET Node,
           r.haveSoftVoted \in SUBSET Node, r.haveCertVoted \in SUBSET Node,
           r.myCertVote \in Hash \cup {Empty}, r.leader \in Node \cup {Empty},
           r.startingValue \in Value
    PROVE  r \in PeriodState
BY DEF PeriodState, PeriodFields

\* The fields of a PeriodState.
LEMMA PeriodStateElim ==
    ASSUME NEW r \in PeriodState
    PROVE  /\ r.idToBlock \in [Node -> Block \cup {Nil}] /\ r.valueToQ \in [Hash -> Seed]
           /\ r.nextVotes \in Tally /\ r.softVotes \in Tally /\ r.certVotes \in Tally
           /\ r.haveNextVotedStep4 \in SUBSET Node /\ r.haveNextVotedStep5 \in SUBSET Node
           /\ r.haveSoftVoted \in SUBSET Node /\ r.haveCertVoted \in SUBSET Node
           /\ r.myCertVote \in Hash \cup {Empty} /\ r.leader \in Node \cup {Empty}
           /\ r.startingValue \in Value
BY DEF PeriodState

-----------------------------------------------------------------------------
\* initPeriodState returns a PeriodState, about which there is nothing wrong.
LEMMA InitPeriodStateType ==
    ASSUME NEW v \in Value
    PROVE  initPeriodState(v) \in PeriodState
BY DEF initPeriodState, PeriodState, NoVotes, Tally, Seed, Value

\* The reserved values are values, and no hashes.
LEMMA Reserved ==
    /\ Bottom \in Value /\ Empty \in Value /\ Err \notin Value
    /\ Bottom \notin Hash /\ Empty \notin Hash /\ Nil \notin Hash /\ Nil \notin Value
    /\ Empty \notin Node /\ Nil \notin Block
    /\ Hash \subseteq Value
BY SentinelAssumption, ReservedAssumption DEF Value, Hash

-----------------------------------------------------------------------------
\* Nothing but the state of the period differs.
Unchanged(r, s) ==
    /\ r.round = s.round /\ r.period = s.period /\ r.step = s.step
    /\ r.readyForNextRound = s.readyForNextRound /\ r.committeeMember = s.committeeMember
    /\ r.isCommitteeMember = s.isCommitteeMember /\ r.Q = s.Q
    /\ r.transactionPool = s.transactionPool /\ r.lastPeriodState = s.lastPeriodState
    /\ r.requiredVotes = s.requiredVotes /\ r.proposalBuffer = s.proposalBuffer
    /\ r.agreementTimer = s.agreementTimer

\* Counting one more vote.
LEMMA AddVoteType ==
    ASSUME NEW votes \in Tally, NEW v \in Value
    PROVE  /\ AddVote(votes, v) \in Tally
           /\ AddVote(votes, v)[v] = votes[v] + 1
           /\ \A u \in Value \ {v} : AddVote(votes, v)[u] = votes[u]
BY DEF AddVote, Tally

\* A value with a vote after AddVote is the new one or had one before.
LEMMA AddVotePositive ==
    ASSUME NEW votes \in Tally, NEW v \in Value
    PROVE  \A u \in Hash : AddVote(votes, v)[u] > 0 => u = v \/ votes[u] > 0
<1> SUFFICES ASSUME NEW u \in Hash, AddVote(votes, v)[u] > 0, u # v PROVE votes[u] > 0
  OBVIOUS
<1>1. u \in Value \ {v}
  BY Reserved
<1>2. AddVote(votes, v)[u] = votes[u]
  BY <1>1, AddVoteType
<1> QED BY <1>2

\* Replacing the state of the period.
LEMMA SetPeriodState ==
    ASSUME NEW s \in ServerState, NEW ps \in PeriodState
    PROVE  LET r == withPeriod(s, ps)
           IN r \in ServerState /\ Unchanged(r, s) /\ r.periodState = ps
BY DEF ServerState, Unchanged, withPeriod

\* countSoft counts v and marks q.
LEMMA CountSoft ==
    ASSUME NEW s \in ServerState, NEW q \in Node, NEW v \in Value
    PROVE  LET r == countSoft(s, q, v)
               ps == s.periodState
           IN /\ r \in ServerState /\ Unchanged(r, s)
              /\ r.periodState.softVotes = AddVote(ps.softVotes, v)
              /\ r.periodState.haveSoftVoted = ps.haveSoftVoted \cup {q}
              /\ r.periodState.idToBlock = ps.idToBlock
              /\ r.periodState.valueToQ = ps.valueToQ
              /\ r.periodState.nextVotes = ps.nextVotes
              /\ r.periodState.certVotes = ps.certVotes
              /\ r.periodState.haveNextVotedStep4 = ps.haveNextVotedStep4
              /\ r.periodState.haveNextVotedStep5 = ps.haveNextVotedStep5
              /\ r.periodState.haveCertVoted = ps.haveCertVoted
              /\ r.periodState.myCertVote = ps.myCertVote
              /\ r.periodState.leader = ps.leader
              /\ r.periodState.startingValue = ps.startingValue
<1> DEFINE ps == s.periodState
           new == [ps EXCEPT !.softVotes = AddVote(@, v),
                             !.haveSoftVoted = @ \cup {q}]
<1>1. ps \in PeriodState
  BY ServerStateElim
<1>2. new = [f \in PeriodFields |-> new[f]]
  BY <1>1, PeriodStateRecord, Zenon
<1>3. /\ new.softVotes = AddVote(ps.softVotes, v)
      /\ new.haveSoftVoted = ps.haveSoftVoted \cup {q}
      /\ new.idToBlock = ps.idToBlock
      /\ new.valueToQ = ps.valueToQ
      /\ new.nextVotes = ps.nextVotes
      /\ new.certVotes = ps.certVotes
      /\ new.haveNextVotedStep4 = ps.haveNextVotedStep4
      /\ new.haveNextVotedStep5 = ps.haveNextVotedStep5
      /\ new.haveCertVoted = ps.haveCertVoted
      /\ new.myCertVote = ps.myCertVote
      /\ new.leader = ps.leader
      /\ new.startingValue = ps.startingValue
  BY <1>1 DEF PeriodState
<1>4. countSoft(s, q, v) = withPeriod(s, new)
  BY DEF countSoft
<1> HIDE DEF new
<1>5. new \in PeriodState
  <2>1. \A t \in Tally : AddVote(t, v) \in Tally
    BY AddVoteType
  <2> QED BY <1>1, <1>2, <1>3, <2>1, PeriodStateIntro, PeriodStateElim, SMTT(30)
<1> QED BY <1>3, <1>4, <1>5, SetPeriodState

\* countCert counts v and marks q.
LEMMA CountCert ==
    ASSUME NEW s \in ServerState, NEW q \in Node, NEW v \in Value
    PROVE  LET r == countCert(s, q, v)
               ps == s.periodState
           IN /\ r \in ServerState /\ Unchanged(r, s)
              /\ r.periodState.certVotes = AddVote(ps.certVotes, v)
              /\ r.periodState.haveCertVoted = ps.haveCertVoted \cup {q}
              /\ r.periodState.idToBlock = ps.idToBlock
              /\ r.periodState.valueToQ = ps.valueToQ
              /\ r.periodState.nextVotes = ps.nextVotes
              /\ r.periodState.softVotes = ps.softVotes
              /\ r.periodState.haveNextVotedStep4 = ps.haveNextVotedStep4
              /\ r.periodState.haveNextVotedStep5 = ps.haveNextVotedStep5
              /\ r.periodState.haveSoftVoted = ps.haveSoftVoted
              /\ r.periodState.myCertVote = ps.myCertVote
              /\ r.periodState.leader = ps.leader
              /\ r.periodState.startingValue = ps.startingValue
<1> DEFINE ps == s.periodState
           new == [ps EXCEPT !.certVotes = AddVote(@, v),
                             !.haveCertVoted = @ \cup {q}]
<1>1. ps \in PeriodState
  BY ServerStateElim
<1>2. new = [f \in PeriodFields |-> new[f]]
  BY <1>1, PeriodStateRecord, Zenon
<1>3. /\ new.certVotes = AddVote(ps.certVotes, v)
      /\ new.haveCertVoted = ps.haveCertVoted \cup {q}
      /\ new.idToBlock = ps.idToBlock
      /\ new.valueToQ = ps.valueToQ
      /\ new.nextVotes = ps.nextVotes
      /\ new.softVotes = ps.softVotes
      /\ new.haveNextVotedStep4 = ps.haveNextVotedStep4
      /\ new.haveNextVotedStep5 = ps.haveNextVotedStep5
      /\ new.haveSoftVoted = ps.haveSoftVoted
      /\ new.myCertVote = ps.myCertVote
      /\ new.leader = ps.leader
      /\ new.startingValue = ps.startingValue
  BY <1>1 DEF PeriodState
<1>4. countCert(s, q, v) = withPeriod(s, new)
  BY DEF countCert
<1> HIDE DEF new
<1>5. new \in PeriodState
  <2>1. \A t \in Tally : AddVote(t, v) \in Tally
    BY AddVoteType
  <2> QED BY <1>1, <1>2, <1>3, <2>1, PeriodStateIntro, PeriodStateElim
<1> QED BY <1>3, <1>4, <1>5, SetPeriodState

\* countNext counts v and marks q.
LEMMA CountNext ==
    ASSUME NEW s \in ServerState, NEW q \in Node, NEW v \in Value, NEW step
    PROVE  LET r == countNext(s, q, v, step)
               ps == s.periodState
           IN /\ r \in ServerState /\ Unchanged(r, s)
              /\ r.periodState.nextVotes = AddVote(ps.nextVotes, v)
              /\ r.periodState.haveNextVotedStep4 = ps.haveNextVotedStep4 \cup (IF step = 4 THEN {q} ELSE {})
              /\ r.periodState.haveNextVotedStep5 = ps.haveNextVotedStep5 \cup (IF step = 4 THEN {} ELSE {q})
              /\ r.periodState.idToBlock = ps.idToBlock
              /\ r.periodState.valueToQ = ps.valueToQ
              /\ r.periodState.softVotes = ps.softVotes
              /\ r.periodState.certVotes = ps.certVotes
              /\ r.periodState.haveSoftVoted = ps.haveSoftVoted
              /\ r.periodState.haveCertVoted = ps.haveCertVoted
              /\ r.periodState.myCertVote = ps.myCertVote
              /\ r.periodState.leader = ps.leader
              /\ r.periodState.startingValue = ps.startingValue
<1> DEFINE ps == s.periodState
           new == [ps EXCEPT !.nextVotes = AddVote(@, v),
                             !.haveNextVotedStep4 = @ \cup (IF step = 4 THEN {q} ELSE {}), !.haveNextVotedStep5 = @ \cup (IF step = 4 THEN {} ELSE {q})]
<1>1. ps \in PeriodState
  BY ServerStateElim
<1>2. new = [f \in PeriodFields |-> new[f]]
  BY <1>1, PeriodStateRecord, Zenon
<1>3. /\ new.nextVotes = AddVote(ps.nextVotes, v)
      /\ new.haveNextVotedStep4 = ps.haveNextVotedStep4 \cup (IF step = 4 THEN {q} ELSE {})
      /\ new.haveNextVotedStep5 = ps.haveNextVotedStep5 \cup (IF step = 4 THEN {} ELSE {q})
      /\ new.idToBlock = ps.idToBlock
      /\ new.valueToQ = ps.valueToQ
      /\ new.softVotes = ps.softVotes
      /\ new.certVotes = ps.certVotes
      /\ new.haveSoftVoted = ps.haveSoftVoted
      /\ new.haveCertVoted = ps.haveCertVoted
      /\ new.myCertVote = ps.myCertVote
      /\ new.leader = ps.leader
      /\ new.startingValue = ps.startingValue
  BY <1>1 DEF PeriodState
<1>4. countNext(s, q, v, step) = withPeriod(s, new)
  BY DEF countNext
<1> HIDE DEF new
<1>5. new \in PeriodState
  <2>1. \A t \in Tally : AddVote(t, v) \in Tally
    BY AddVoteType
  <2> QED BY <1>1, <1>2, <1>3, <2>1, PeriodStateIntro, PeriodStateElim, SMTT(30)
<1> QED BY <1>3, <1>4, <1>5, SetPeriodState

\* withLeader changes the leader only.
LEMMA WithLeader ==
    ASSUME NEW s \in ServerState, NEW q \in Node \cup {Empty}
    PROVE  LET r == withLeader(s, q)
               ps == s.periodState
           IN /\ r \in ServerState /\ Unchanged(r, s)
              /\ r.periodState = [ps EXCEPT !.leader = q]
<1> DEFINE ps == s.periodState
           new == [ps EXCEPT !.leader = q]
<1>1. ps \in PeriodState
  BY ServerStateElim
<1>2. new \in PeriodState
  BY <1>1 DEF PeriodState
<1>3. withLeader(s, q) = withPeriod(s, new)
  BY DEF withLeader
<1> QED BY <1>2, <1>3, SetPeriodState

\* certify counts the peer's own cert-vote and remembers it.
LEMMA Certify ==
    ASSUME NEW s \in ServerState, NEW p \in Node, NEW v \in Hash
    PROVE  LET r == certify(s, p, v)
               c == countCert(s, p, v)
           IN /\ r \in ServerState /\ Unchanged(r, s)
              /\ r.periodState = [c.periodState EXCEPT !.myCertVote = v]
<1> DEFINE c == countCert(s, p, v)
           new == [c.periodState EXCEPT !.myCertVote = v]
<1>1. c \in ServerState /\ Unchanged(c, s)
  BY CountCert, Reserved
<1> HIDE DEF c
<1>2. c.periodState \in PeriodState
  BY <1>1, ServerStateElim
<1>3. new \in PeriodState
  BY <1>2 DEF PeriodState
<1>4. certify(s, p, v) = withPeriod(c, new)
  BY DEF certify, c
<1> HIDE DEF new
<1>5. LET r == withPeriod(c, new)
      IN r \in ServerState /\ Unchanged(r, c) /\ r.periodState = new
  BY <1>1, <1>3, SetPeriodState
<1> QED BY <1>1, <1>4, <1>5 DEF Unchanged, new, c

\* The fields of the state after handleHalt.
LEMMA HandleHalt ==
    ASSUME NEW s \in ServerState, NEW v, s.round <= MaxRound
    PROVE  LET r == handleHalt(s, v)
           IN /\ r \in ServerState
              /\ r.round = s.round + 1 /\ r.period = 1 /\ r.step = 1
              /\ r.readyForNextRound = TRUE
              /\ r.periodState = initPeriodState(Bottom)
              /\ r.lastPeriodState = initPeriodState(Empty)
              /\ r.proposalBuffer = s.proposalBuffer
<1> DEFINE r == handleHalt(s, v)
<1>1. r = [f \in ServerFields |-> r[f]]
  BY ServerStateRecord, ZenonT(30) DEF handleHalt
<1>2. /\ r.round = s.round + 1 /\ r.period = 1 /\ r.step = 1
      /\ r.readyForNextRound = TRUE /\ r.committeeMember = {} /\ r.isCommitteeMember = FALSE
      /\ r.Q = (IF v \in Hash THEN s.periodState.valueToQ[v] ELSE Nil)
      /\ r.transactionPool = s.transactionPool
      /\ r.periodState = initPeriodState(Bottom) /\ r.lastPeriodState = initPeriodState(Empty)
      /\ r.requiredVotes = s.requiredVotes /\ r.proposalBuffer = s.proposalBuffer
      /\ r.agreementTimer = s.agreementTimer
  BY DEF ServerState, handleHalt
<1> HIDE DEF r
<1>3. r.Q \in Seed
  BY <1>2 DEF ServerState, PeriodState, Seed
<1>4. r.round \in 1 .. MaxRound + 1
  BY <1>2, ServerStateElim, BoundAssumption
<1>5. 1 \in 1 .. MaxPeriod + 1
  BY BoundAssumption
<1>6. r.periodState \in PeriodState /\ r.lastPeriodState \in PeriodState
  BY <1>2, InitPeriodStateType, Reserved
<1>7. /\ r.round \in 1 .. MaxRound + 1 /\ r.period \in 1 .. MaxPeriod + 1 /\ r.step \in 1 .. 5
      /\ r.committeeMember \in SUBSET Slot /\ r.Q \in Seed /\ r.transactionPool \in SUBSET Tx
      /\ r.requiredVotes \in Nat /\ r.proposalBuffer \in SUBSET Proposal
  BY <1>2, <1>3, <1>4, <1>5, ServerStateElim
<1>7a. /\ r.readyForNextRound \in BOOLEAN /\ r.isCommitteeMember \in BOOLEAN
       /\ r.agreementTimer \in BOOLEAN
  BY <1>2, ServerStateElim, Zenon
<1>8. r \in ServerState
  BY <1>1, <1>6, <1>7, <1>7a, ServerStateIntro
<1> QED BY <1>2, <1>8 DEF r

\* The fields of the state after handleNextPeriod.
LEMMA HandleNextPeriod ==
    ASSUME NEW s \in ServerState, NEW v \in Value, s.period <= MaxPeriod
    PROVE  LET r == handleNextPeriod(s, v)
           IN /\ r \in ServerState
              /\ r.round = s.round /\ r.period = s.period + 1 /\ r.step = 1
              /\ r.readyForNextRound = TRUE
              /\ r.periodState = initPeriodState(IF v # Bottom THEN v ELSE Empty)
              /\ r.lastPeriodState = s.periodState
              /\ r.requiredVotes = s.requiredVotes
              /\ r.proposalBuffer = s.proposalBuffer
<1> DEFINE r == handleNextPeriod(s, v)
<1>1. r = [f \in ServerFields |-> r[f]]
  BY ServerStateRecord, Zenon DEF handleNextPeriod
<1>2. /\ r.round = s.round /\ r.period = s.period + 1 /\ r.step = 1
      /\ r.readyForNextRound = TRUE /\ r.committeeMember = s.committeeMember
      /\ r.isCommitteeMember = s.isCommitteeMember /\ r.Q = s.Q
      /\ r.transactionPool = s.transactionPool
      /\ r.periodState = initPeriodState(IF v # Bottom THEN v ELSE Empty)
      /\ r.lastPeriodState = s.periodState
      /\ r.requiredVotes = s.requiredVotes /\ r.proposalBuffer = s.proposalBuffer
      /\ r.agreementTimer = s.agreementTimer
  BY DEF ServerState, handleNextPeriod
<1> HIDE DEF r
<1>3. r.period \in 1 .. MaxPeriod + 1
  BY <1>2, ServerStateElim, BoundAssumption
<1>4. (IF v # Bottom THEN v ELSE Empty) \in Value
  BY Reserved
<1>5. r.periodState \in PeriodState /\ r.lastPeriodState \in PeriodState
  BY <1>2, <1>4, InitPeriodStateType, ServerStateElim
<1>6. /\ r.round \in 1 .. MaxRound + 1 /\ r.period \in 1 .. MaxPeriod + 1 /\ r.step \in 1 .. 5
      /\ r.committeeMember \in SUBSET Slot /\ r.Q \in Seed /\ r.transactionPool \in SUBSET Tx
      /\ r.requiredVotes \in Nat /\ r.proposalBuffer \in SUBSET Proposal
  BY <1>2, <1>3, ServerStateElim
<1>6a. /\ r.readyForNextRound \in BOOLEAN /\ r.isCommitteeMember \in BOOLEAN
       /\ r.agreementTimer \in BOOLEAN
  BY <1>2, ServerStateElim, Zenon
<1>7. r \in ServerState
  BY <1>1, <1>5, <1>6, <1>6a, ServerStateIntro
<1> QED BY <1>2, <1>7 DEF r

\* The fields of the state after adopting a chain.
LEMMA AdoptChain ==
    ASSUME NEW s \in ServerState, NEW chain, NEW Q \in Seed, Len(chain) \in 1 .. MaxRound + 1
    PROVE  LET r == adoptChain(s, chain, Q)
           IN /\ r \in ServerState
              /\ r.round = Len(chain) /\ r.period = 1 /\ r.step = 1
              /\ r.readyForNextRound = TRUE
              /\ r.periodState = initPeriodState(Bottom)
              /\ r.lastPeriodState = initPeriodState(Empty)
              /\ r.proposalBuffer = s.proposalBuffer
<1> DEFINE r == adoptChain(s, chain, Q)
<1>1. r = [f \in ServerFields |-> r[f]]
  BY ServerStateRecord, Zenon DEF adoptChain
<1>2. /\ r.round = Len(chain) /\ r.period = 1 /\ r.step = 1
      /\ r.readyForNextRound = TRUE /\ r.committeeMember = s.committeeMember
      /\ r.isCommitteeMember = s.isCommitteeMember /\ r.Q = Q
      /\ r.transactionPool = s.transactionPool
      /\ r.periodState = initPeriodState(Bottom) /\ r.lastPeriodState = initPeriodState(Empty)
      /\ r.requiredVotes = s.requiredVotes /\ r.proposalBuffer = s.proposalBuffer
      /\ r.agreementTimer = s.agreementTimer
  BY DEF ServerState, adoptChain
<1> HIDE DEF r
<1>3. 1 \in 1 .. MaxPeriod + 1
  BY BoundAssumption
<1>4. r.periodState \in PeriodState /\ r.lastPeriodState \in PeriodState
  BY <1>2, InitPeriodStateType, Reserved
<1>5. /\ r.round \in 1 .. MaxRound + 1 /\ r.period \in 1 .. MaxPeriod + 1 /\ r.step \in 1 .. 5
      /\ r.committeeMember \in SUBSET Slot /\ r.Q \in Seed /\ r.transactionPool \in SUBSET Tx
      /\ r.requiredVotes \in Nat /\ r.proposalBuffer \in SUBSET Proposal
  BY <1>2, <1>3, ServerStateElim
<1>5a. /\ r.readyForNextRound \in BOOLEAN /\ r.isCommitteeMember \in BOOLEAN
       /\ r.agreementTimer \in BOOLEAN
  BY <1>2, ServerStateElim, Zenon
<1>6. r \in ServerState
  BY <1>1, <1>4, <1>5, <1>5a, ServerStateIntro
<1> QED BY <1>2, <1>6 DEF r

\* The coordinates of a place.
LEMMA PlaceType ==
    ASSUME NEW s \in ServerState
    PROVE  s.round \in Nat /\ s.period \in Nat /\ s.step \in Nat
BY ServerStateElim, SMTT(30)

=============================================================================
