------------------------------ MODULE VoteProofs ------------------------------
(***************************************************************************)
(* What is signed, what is counted, and how both grow.                     *)
(***************************************************************************)
EXTENDS ServeInvariant, PeerTypes

\* The signers of some vote are peers; their number, and that of a part of them.
LEMMA SignersFinite ==
    ASSUME Sizes, NEW votes \in SUBSET SignedVote, NEW type, NEW v, NEW round, NEW period
    PROVE  LET T == SignersIn(votes, type, v, round, period)
           IN /\ T \subseteq Node /\ Cardinality(T) \in Nat
              /\ \A S : Cardinality(S \cap T) \in Nat /\ Cardinality(S \cap T) <= Cardinality(T)
<1> DEFINE T == SignersIn(votes, type, v, round, period)
<1>1. T \subseteq Node
  BY DEF SignersIn, SignedVote, Vote
<1> HIDE DEF T
<1>2. Cardinality(T) \in Nat
  BY <1>1 DEF Sizes
<1>3. ASSUME NEW S
      PROVE  Cardinality(S \cap T) \in Nat /\ Cardinality(S \cap T) <= Cardinality(T)
  <2>1. S \cap T \in SUBSET Node /\ S \cap T \in SUBSET T /\ T \in SUBSET Node
    BY <1>1
  <2> QED BY <2>1 DEF Sizes
<1> QED BY <1>1, <1>2, <1>3 DEF T

\* More votes have more signers.
LEMMA SignersGrow ==
    ASSUME NEW votes, NEW more, votes \subseteq more, NEW type, NEW v, NEW round, NEW period
    PROVE  SignersIn(votes, type, v, round, period) \subseteq SignersIn(more, type, v, round, period)
BY DEF SignersIn

\* The cardinality of a larger part of the signers.
LEMMA CardinalityGrow ==
    ASSUME Sizes, NEW votes, NEW more \in SUBSET SignedVote, votes \subseteq more,
           NEW type, NEW v, NEW round, NEW period, NEW S, NEW T, S \subseteq T
    PROVE  LET a == Cardinality(S \cap SignersIn(votes, type, v, round, period))
               b == Cardinality(T \cap SignersIn(more, type, v, round, period))
           IN a \in Nat /\ b \in Nat /\ a <= b
<1> DEFINE A == S \cap SignersIn(votes, type, v, round, period)
           B == T \cap SignersIn(more, type, v, round, period)
<1>1. A \subseteq B
  BY SignersGrow
<1>2. B \subseteq Node
  BY SignersFinite
<1> HIDE DEF A, B
<1>3. A \in SUBSET B /\ A \in SUBSET Node /\ B \in SUBSET Node
  BY <1>1, <1>2
<1>4. Cardinality(A) \in Nat /\ Cardinality(B) \in Nat /\ Cardinality(A) <= Cardinality(B)
  BY <1>3 DEF Sizes
<1> QED BY <1>4 DEF A, B

\* One more signer that was not marked before.
LEMMA CardinalityAdd ==
    ASSUME Sizes, NEW votes \in SUBSET SignedVote, NEW type, NEW v, NEW round, NEW period,
           NEW S, NEW q \in SignersIn(votes, type, v, round, period), q \notin S
    PROVE  Cardinality((S \cup {q}) \cap SignersIn(votes, type, v, round, period))
             = Cardinality(S \cap SignersIn(votes, type, v, round, period)) + 1
<1> DEFINE T == SignersIn(votes, type, v, round, period)
<1>1. S \cap T \in SUBSET Node /\ q \in Node
  BY SignersFinite
<1>2. (S \cup {q}) \cap T = (S \cap T) \cup {q}
  OBVIOUS
<1>3. q \notin S \cap T
  OBVIOUS
<1> HIDE DEF T
<1>4. Cardinality((S \cap T) \cup {q}) = Cardinality(S \cap T) + 1
  BY <1>1, <1>3, SMTT(30) DEF Sizes
<1> QED BY <1>2, <1>4 DEF T

-----------------------------------------------------------------------------
\* Counts that did not change are backed by the votes signed since.
LEMMA CountsSame ==
    ASSUME Sizes, NEW s \in ServerState, NEW r, NEW votes, NEW more \in SUBSET SignedVote,
           votes \subseteq more, CountsOK(s, votes),
           r.round = s.round, r.period = s.period,
           r.periodState.softVotes = s.periodState.softVotes,
           r.periodState.haveSoftVoted = s.periodState.haveSoftVoted,
           r.periodState.certVotes = s.periodState.certVotes,
           r.periodState.haveCertVoted = s.periodState.haveCertVoted
    PROVE  CountsOK(r, more)
<1> DEFINE ps == s.periodState
<1>1. ps.softVotes \in Tally /\ ps.certVotes \in Tally
  BY ServerStateElim, PeriodStateElim
<1> SUFFICES ASSUME NEW v \in Value
             PROVE /\ ps.softVotes[v] <= Cardinality(
                         ps.haveSoftVoted \cap SignersIn(more, "soft", v, s.round, s.period))
                   /\ ps.certVotes[v] <= Cardinality(
                         ps.haveCertVoted \cap SignersIn(more, "cert", v, s.round, s.period))
  BY DEF CountsOK
<1>2. ps.softVotes[v] \in Nat /\ ps.certVotes[v] \in Nat
  BY <1>1 DEF Tally
<1>3. /\ ps.softVotes[v] <= Cardinality(
            ps.haveSoftVoted \cap SignersIn(votes, "soft", v, s.round, s.period))
      /\ ps.certVotes[v] <= Cardinality(
            ps.haveCertVoted \cap SignersIn(votes, "cert", v, s.round, s.period))
  BY DEF CountsOK
<1> DEFINE a == Cardinality(ps.haveSoftVoted \cap SignersIn(votes, "soft", v, s.round, s.period))
           b == Cardinality(ps.haveSoftVoted \cap SignersIn(more, "soft", v, s.round, s.period))
           c == Cardinality(ps.haveCertVoted \cap SignersIn(votes, "cert", v, s.round, s.period))
           d == Cardinality(ps.haveCertVoted \cap SignersIn(more, "cert", v, s.round, s.period))
<1>4. a \in Nat /\ b \in Nat /\ a <= b
  BY CardinalityGrow, Zenon
<1>5. c \in Nat /\ d \in Nat /\ c <= d
  BY CardinalityGrow, Zenon
<1> HIDE DEF a, b, c, d
<1>6. ps.softVotes[v] <= a /\ ps.certVotes[v] <= c
  BY <1>3 DEF a, c
<1>7. ps.softVotes[v] <= b /\ ps.certVotes[v] <= d
  BY <1>2, <1>4, <1>5, <1>6
<1> QED BY <1>7 DEF b, d

\* A new period starts with no counts.
LEMMA CountsReset ==
    ASSUME Sizes, NEW r, NEW votes \in SUBSET SignedVote, NEW start,
           r.periodState = initPeriodState(start)
    PROVE  CountsOK(r, votes)
<1>1. \A v \in Value : r.periodState.softVotes[v] = 0 /\ r.periodState.certVotes[v] = 0
  BY DEF initPeriodState, NoVotes
<1> SUFFICES ASSUME NEW v \in Value
             PROVE /\ 0 <= Cardinality(r.periodState.haveSoftVoted
                                \cap SignersIn(votes, "soft", v, r.round, r.period))
                   /\ 0 <= Cardinality(r.periodState.haveCertVoted
                                \cap SignersIn(votes, "cert", v, r.round, r.period))
  BY <1>1 DEF CountsOK
<1>2. Cardinality(r.periodState.haveSoftVoted
                     \cap SignersIn(votes, "soft", v, r.round, r.period)) \in Nat
  BY SignersFinite, Zenon
<1>3. Cardinality(r.periodState.haveCertVoted
                     \cap SignersIn(votes, "cert", v, r.round, r.period)) \in Nat
  BY SignersFinite, Zenon
<1> QED BY <1>2, <1>3

\* Counting the soft-vote of a peer that signed it and was not counted yet.
LEMMA CountsSoft ==
    ASSUME Sizes, NEW s \in ServerState, NEW votes \in SUBSET SignedVote, CountsOK(s, votes),
           NEW q \in Node, NEW v \in Value, q \notin s.periodState.haveSoftVoted,
           q \in SignersIn(votes, "soft", v, s.round, s.period)
    PROVE  CountsOK(countSoft(s, q, v), votes)
<1> DEFINE ps == s.periodState
           r == countSoft(s, q, v)
           S(u) == SignersIn(votes, "soft", u, s.round, s.period)
<1>1. ps.softVotes \in Tally
  BY ServerStateElim, PeriodStateElim
<1>2. /\ Unchanged(r, s)
      /\ r.periodState.softVotes = AddVote(ps.softVotes, v)
      /\ r.periodState.haveSoftVoted = ps.haveSoftVoted \cup {q}
      /\ r.periodState.certVotes = ps.certVotes
      /\ r.periodState.haveCertVoted = ps.haveCertVoted
  BY CountSoft
<1> HIDE DEF r
<1>0. r.round = s.round /\ r.period = s.period
  BY <1>2 DEF Unchanged
<1>3. ASSUME NEW u \in Value
      PROVE  AddVote(ps.softVotes, v)[u] <= Cardinality((ps.haveSoftVoted \cup {q}) \cap S(u))
  <2>1. ps.softVotes[u] \in Nat /\ ps.softVotes[u] <= Cardinality(ps.haveSoftVoted \cap S(u))
    BY <1>1, Zenon DEF CountsOK, Tally
  <2>2. CASE u = v
    <3>1. AddVote(ps.softVotes, v)[u] = ps.softVotes[u] + 1
      BY <1>1, <2>2, AddVoteType
    <3>2. Cardinality((ps.haveSoftVoted \cup {q}) \cap S(u))
            = Cardinality(ps.haveSoftVoted \cap S(u)) + 1
      BY <2>2, CardinalityAdd
    <3>3. Cardinality(ps.haveSoftVoted \cap S(u)) \in Nat
      BY SignersFinite, Zenon
    <3> DEFINE a == Cardinality(ps.haveSoftVoted \cap S(u))
               b == Cardinality((ps.haveSoftVoted \cup {q}) \cap S(u))
               m == ps.softVotes[u]
               n == AddVote(ps.softVotes, v)[u]
    <3>a. m \in Nat /\ m <= a
      BY <2>1
    <3>b. n = m + 1 /\ b = a + 1 /\ a \in Nat
      BY <3>1, <3>2, <3>3
    <3> HIDE DEF a, b, m, n
    <3>c. n <= b
      BY <3>a, <3>b, SMTT(30)
    <3> QED BY <3>c DEF b, n
  <2>3. CASE u # v
    <3>1. AddVote(ps.softVotes, v)[u] = ps.softVotes[u]
      BY <1>1, <2>3, AddVoteType, SMTT(30)
    <3>2. /\ Cardinality(ps.haveSoftVoted \cap S(u)) \in Nat
          /\ Cardinality((ps.haveSoftVoted \cup {q}) \cap S(u)) \in Nat
          /\ Cardinality(ps.haveSoftVoted \cap S(u))
               <= Cardinality((ps.haveSoftVoted \cup {q}) \cap S(u))
      BY CardinalityGrow, ZenonT(30)
    <3> DEFINE a == Cardinality(ps.haveSoftVoted \cap S(u))
               b == Cardinality((ps.haveSoftVoted \cup {q}) \cap S(u))
               m == ps.softVotes[u]
               n == AddVote(ps.softVotes, v)[u]
    <3>a. m \in Nat /\ m <= a
      BY <2>1
    <3>b. n = m /\ a \in Nat /\ b \in Nat /\ a <= b
      BY <3>1, <3>2
    <3> HIDE DEF a, b, m, n
    <3>c. n <= b
      BY <3>a, <3>b
    <3> QED BY <3>c DEF b, n
  <2> QED BY <2>2, <2>3
<1>4. CountsOK(r, votes)
  BY <1>0, <1>2, <1>3, ZenonT(30) DEF CountsOK
<1> QED BY <1>4 DEF r

\* Counting the cert-vote of a peer that signed it and was not counted yet.
LEMMA CountsCert ==
    ASSUME Sizes, NEW s \in ServerState, NEW votes \in SUBSET SignedVote, CountsOK(s, votes),
           NEW q \in Node, NEW v \in Value, q \notin s.periodState.haveCertVoted,
           q \in SignersIn(votes, "cert", v, s.round, s.period)
    PROVE  CountsOK(countCert(s, q, v), votes)
<1> DEFINE ps == s.periodState
           r == countCert(s, q, v)
           S(u) == SignersIn(votes, "cert", u, s.round, s.period)
<1>1. ps.certVotes \in Tally
  BY ServerStateElim, PeriodStateElim
<1>2. /\ Unchanged(r, s)
      /\ r.periodState.certVotes = AddVote(ps.certVotes, v)
      /\ r.periodState.haveCertVoted = ps.haveCertVoted \cup {q}
      /\ r.periodState.softVotes = ps.softVotes
      /\ r.periodState.haveSoftVoted = ps.haveSoftVoted
  BY CountCert, SMTT(30)
<1> HIDE DEF r
<1>0. r.round = s.round /\ r.period = s.period
  BY <1>2, SMTT(30) DEF Unchanged
<1>3. ASSUME NEW u \in Value
      PROVE  AddVote(ps.certVotes, v)[u] <= Cardinality((ps.haveCertVoted \cup {q}) \cap S(u))
  <2>1. ps.certVotes[u] \in Nat /\ ps.certVotes[u] <= Cardinality(ps.haveCertVoted \cap S(u))
    BY <1>1, ZenonT(30) DEF CountsOK, Tally
  <2>2. CASE u = v
    <3>1. AddVote(ps.certVotes, v)[u] = ps.certVotes[u] + 1
      BY <1>1, <2>2, AddVoteType
    <3>2. Cardinality((ps.haveCertVoted \cup {q}) \cap S(u))
            = Cardinality(ps.haveCertVoted \cap S(u)) + 1
      BY <2>2, CardinalityAdd, SMTT(30)
    <3>3. Cardinality(ps.haveCertVoted \cap S(u)) \in Nat
      BY SignersFinite, ZenonT(30)
    <3> DEFINE a == Cardinality(ps.haveCertVoted \cap S(u))
               b == Cardinality((ps.haveCertVoted \cup {q}) \cap S(u))
               m == ps.certVotes[u]
               n == AddVote(ps.certVotes, v)[u]
    <3>a. m \in Nat /\ m <= a
      BY <2>1
    <3>b. n = m + 1 /\ b = a + 1 /\ a \in Nat
      BY <3>1, <3>2, <3>3
    <3> HIDE DEF a, b, m, n
    <3>c. n <= b
      BY <3>a, <3>b, SMTT(30)
    <3> QED BY <3>c DEF b, n
  <2>3. CASE u # v
    <3>1. AddVote(ps.certVotes, v)[u] = ps.certVotes[u]
      BY <1>1, <2>3, AddVoteType, SMTT(30)
    <3>2. /\ Cardinality(ps.haveCertVoted \cap S(u)) \in Nat
          /\ Cardinality((ps.haveCertVoted \cup {q}) \cap S(u)) \in Nat
          /\ Cardinality(ps.haveCertVoted \cap S(u))
               <= Cardinality((ps.haveCertVoted \cup {q}) \cap S(u))
      BY CardinalityGrow, ZenonT(30)
    <3> DEFINE a == Cardinality(ps.haveCertVoted \cap S(u))
               b == Cardinality((ps.haveCertVoted \cup {q}) \cap S(u))
               m == ps.certVotes[u]
               n == AddVote(ps.certVotes, v)[u]
    <3>a. m \in Nat /\ m <= a
      BY <2>1
    <3>b. n = m /\ a \in Nat /\ b \in Nat /\ a <= b
      BY <3>1, <3>2
    <3> HIDE DEF a, b, m, n
    <3>c. n <= b
      BY <3>a, <3>b, SMTT(30)
    <3> QED BY <3>c DEF b, n
  <2> QED BY <2>2, <2>3, SMTT(30)
<1>4. CountsOK(r, votes)
  BY <1>0, <1>2, <1>3, ZenonT(30) DEF CountsOK
<1> QED BY <1>4 DEF r

\* The peer's own cert-vote.
LEMMA CountsCertify ==
    ASSUME Sizes, NEW s \in ServerState, NEW votes \in SUBSET SignedVote, CountsOK(s, votes),
           NEW p \in Node, NEW v \in Hash, p \notin s.periodState.haveCertVoted,
           p \in SignersIn(votes, "cert", v, s.round, s.period)
    PROVE  CountsOK(certify(s, p, v), votes)
<1> DEFINE c == countCert(s, p, v)
           r == certify(s, p, v)
<1>1. v \in Value
  BY Reserved
<1>2. c \in ServerState /\ Unchanged(c, s) /\ CountsOK(c, votes)
  BY <1>1, CountCert, CountsCert, ZenonT(30)
<1>3. Unchanged(r, s) /\ r.periodState = [c.periodState EXCEPT !.myCertVote = v]
  BY Certify, SMTT(30)
<1> HIDE DEF c, r
<1>4. c.periodState \in PeriodState
  BY <1>2, ServerStateElim, SMTT(30)
<1>5. /\ r.periodState.softVotes = c.periodState.softVotes
      /\ r.periodState.haveSoftVoted = c.periodState.haveSoftVoted
      /\ r.periodState.certVotes = c.periodState.certVotes
      /\ r.periodState.haveCertVoted = c.periodState.haveCertVoted
  BY <1>3, <1>4, SMTT(30) DEF PeriodState
<1>6. r.round = c.round /\ r.period = c.period
  BY <1>2, <1>3, SMTT(30) DEF Unchanged
<1>7. CountsOK(r, votes)
  BY <1>2, <1>5, <1>6, CountsSame, SMTT(30)
<1> QED BY <1>7 DEF r

\* A vote that lies behind a peer still does so when the peer has moved on.
LEMMA VoteForward ==
    ASSUME NEW s \in ServerState, NEW r \in ServerState, NEW x \in SignedVote, VoteOK(x, s),
           NotBefore(r, s),
           r.round = s.round /\ r.period = s.period
              => s.periodState.haveNextVotedStep5 \subseteq r.periodState.haveNextVotedStep5
    PROVE  VoteOK(x, r)
<1>1. s.round \in Nat /\ s.period \in Nat /\ s.step \in Nat
  BY PlaceType
<1>2. r.round \in Nat /\ r.period \in Nat /\ r.step \in Nat
  BY PlaceType, SMTT(30)
<1>3. x.vote.round \in Nat /\ x.vote.period \in Nat /\ x.vote.step \in Nat
  BY SMTT(30) DEF SignedVote, Vote, Rounds, Periods
<1>4. Reached(r, x.vote.round, x.vote.period, x.vote.step)
  BY <1>1, <1>2, <1>3, SMTT(30) DEF VoteOK, NotBefore, Reached
<1>5. ASSUME x.vote.round = r.round, x.vote.period = r.period
      PROVE  r.round = s.round /\ r.period = s.period
  BY <1>1, <1>2, <1>3, <1>5, SMTT(30) DEF VoteOK, NotBefore, Reached
<1> QED BY <1>4, <1>5, SMTT(30) DEF VoteOK

-----------------------------------------------------------------------------
\* The three parts of the inductive invariant.
PeersOK ==
    /\ state \in [Node -> ServerState]
    /\ blockchain \in [Node -> Chain]
    /\ \A p \in Node : /\ PeerOK(state[p], blockchain[p])
                       /\ \A m \in state[p].proposalBuffer : ProposalOK(m)
                       /\ CountsOK(state[p], signed)

VotesOK ==
    /\ signed \subseteq SignedVote
    /\ \A x \in signed : VoteOK(x, state[x.vote.peer])
    /\ OneVotePerStep
    /\ CertsBacked

CallsOK ==
    /\ proposeCalls \subseteq ProposeCall
    /\ voteCalls \subseteq VoteCall
    /\ noticeCalls \subseteq NoticeCall
    /\ chainRequests \subseteq [from : Node, to : Node]
    /\ chainReplies \subseteq [to : Node, blockchain : Chain, Q : Seed]
    /\ txCalls \subseteq [to : Node, tx : Tx]
    /\ unsent \subseteq Tx
    /\ errors \in 0 .. MaxErrors
    /\ panicked \in BOOLEAN
    /\ \A c \in proposeCalls : ProposalOK(c.arg)
    /\ \A c \in chainReplies : ChainOK(c.blockchain)

\* A ballot that p, and no one else, may cast where it is.
MayCast(p, x) ==
    /\ x.vote.peer = p
    /\ x.vote.round = state[p].round /\ x.vote.period = state[p].period
    /\ x.vote.step >= state[p].step
    /\ \A y \in signed : ~ (/\ y.vote.peer = p /\ y.vote.round = x.vote.round
                            /\ y.vote.period = x.vote.period /\ y.vote.step = x.vote.step)
    /\ x.vote.voteType = "cert" =>
          Cardinality(Signers("soft", x.vote.value, x.vote.round, x.vote.period)) >= x.required

\* One peer acts in a step; it casts no vote, or one that it may cast, and passes it.
OneActor ==
    \/ UNCHANGED <<state, signed>>
    \/ \E p \in Node :
          /\ \A q \in Node \ {p} : state'[q] = state[q]
          /\ \/ signed' = signed
             \/ \E x : /\ signed' = signed \cup {x} /\ MayCast(p, x)
                      /\ Reached(state'[p], x.vote.round, x.vote.period, x.vote.step)

\* No peer goes back in a step, and only one acts.
Ahead ==
    /\ \A p \in Node : /\ NotBefore(state'[p], state[p])
                       /\ Len(blockchain'[p]) >= Len(blockchain[p])
    /\ OneActor

\* What the proof of each action shows.
Kept == PeersOK' /\ VotesOK' /\ CallsOK' /\ Ahead

\* The three parts are the invariant.
LEMMA IndInvParts == IndInv <=> PeersOK /\ VotesOK /\ CallsOK
BY DEF IndInv, TypeOK, MessagesOK, PeersOK, VotesOK, CallsOK

\* A step that leaves peers, chains and votes alone.
LEMMA NoPeerStep ==
    ASSUME PeersOK, VotesOK, UNCHANGED <<state, blockchain, signed>>
    PROVE  PeersOK' /\ VotesOK' /\ Ahead
<1>1. PeersOK' /\ VotesOK'
  BY SMTT(30) DEF PeersOK, VotesOK, OneVotePerStep, CertsBacked, CertVotes, Signers
<1>2. \A p \in Node : NotBefore(state[p], state[p])
  BY PlaceType, SMTT(30) DEF PeersOK, NotBefore, Reached
<1>3. \A p \in Node : Len(blockchain[p]) >= Len(blockchain[p])
  BY DEF PeersOK, Chain
<1>4. OneActor
  BY Zenon DEF OneActor
<1> QED BY <1>1, <1>2, <1>3, <1>4, SMTT(30) DEF Ahead

(***************************************************************************)
(* A step of peer p to state r and chain c, with the new votes "cast" (at  *)
(* most one): what the step has to provide.                                *)
(***************************************************************************)
StepOK(p, r, c, cast) ==
    /\ r \in ServerState /\ c \in Chain
    /\ PeerOK(r, c)
    /\ \A m \in r.proposalBuffer : ProposalOK(m)
    /\ CountsOK(r, signed \cup cast)
    /\ NotBefore(r, state[p]) /\ Len(c) >= Len(blockchain[p])
    /\ r.round = state[p].round /\ r.period = state[p].period
          => state[p].periodState.haveNextVotedStep5 \subseteq r.periodState.haveNextVotedStep5
    /\ cast \subseteq SignedVote
    /\ \A x, y \in cast : x = y
    /\ \A x \in cast :
          VoteOK(x, r) /\ MayCast(p, x)

\* Such a step keeps the invariant, as far as it is about peers and votes.
LEMMA PeerStep ==
    ASSUME Sizes, PeersOK, VotesOK, NEW p \in Node, NEW r, NEW c, NEW cast, StepOK(p, r, c, cast),
           state' = [state EXCEPT ![p] = r], blockchain' = [blockchain EXCEPT ![p] = c],
           signed' = signed \cup cast
    PROVE  PeersOK' /\ VotesOK' /\ Ahead
<1>1. /\ state \in [Node -> ServerState] /\ blockchain \in [Node -> Chain]
      /\ signed \subseteq SignedVote
  BY SMTT(30) DEF PeersOK, VotesOK
<1>2. /\ state'[p] = r /\ blockchain'[p] = c
      /\ \A q \in Node \ {p} : state'[q] = state[q] /\ blockchain'[q] = blockchain[q]
      /\ state' \in [Node -> ServerState] /\ blockchain' \in [Node -> Chain]
  BY <1>1, SMTT(30) DEF StepOK
<1>3. signed' \subseteq SignedVote
  BY <1>1, SMTT(30) DEF StepOK
<1>4. PeersOK'
  <2>1. ASSUME NEW q \in Node
        PROVE  /\ PeerOK(state'[q], blockchain'[q])
               /\ \A m \in state'[q].proposalBuffer : ProposalOK(m)
               /\ CountsOK(state'[q], signed')
    <3>1. CASE q = p
      BY <1>2, <3>1, SMTT(30) DEF StepOK
    <3>2. CASE q # p
      <4>1. state'[q] = state[q] /\ blockchain'[q] = blockchain[q] /\ state[q] \in ServerState
        BY <1>1, <1>2, <3>2, SMTT(30)
      <4>2. CountsOK(state[q], signed) /\ signed \subseteq signed'
        BY SMTT(30) DEF PeersOK
      <4>3. CountsOK(state[q], signed')
        BY <1>3, <4>1, <4>2, CountsSame, SMTT(30)
      <4> QED BY <4>1, <4>3, SMTT(30) DEF PeersOK
    <3> QED BY <3>1, <3>2
  <2> QED BY <1>2, <2>1, ZenonT(30) DEF PeersOK
<1>5. ASSUME NEW x \in signed' PROVE VoteOK(x, state'[x.vote.peer])
  <2>1. CASE x \in cast
    BY <1>2, <2>1, ZenonT(30) DEF StepOK, MayCast
  <2>2. CASE x \in signed /\ x.vote.peer = p
    <3>1. VoteOK(x, state[p]) /\ x \in SignedVote /\ state[p] \in ServerState
      BY <1>1, <2>2, SMTT(30) DEF VotesOK
    <3>2. VoteOK(x, r)
      BY <3>1, VoteForward, ZenonT(30) DEF StepOK
    <3> QED BY <1>2, <2>2, <3>2
  <2>3. CASE x \in signed /\ x.vote.peer # p
    <3>1. x.vote.peer \in Node \ {p}
      BY <1>1, <2>3, SMTT(30) DEF SignedVote, Vote
    <3> QED BY <1>2, <2>3, <3>1, SMTT(30) DEF VotesOK
  <2> QED BY <2>1, <2>2, <2>3, SMTT(30)
<1>6. OneVotePerStep'
  <2> SUFFICES ASSUME NEW x \in signed', NEW y \in signed',
                      x.vote.peer = y.vote.peer, x.vote.round = y.vote.round,
                      x.vote.period = y.vote.period, x.vote.step = y.vote.step
               PROVE  x = y
    BY SMTT(30) DEF OneVotePerStep
  <2>1. CASE x \in signed /\ y \in signed
    BY <2>1, SMTT(30) DEF VotesOK, OneVotePerStep
  <2>2. CASE x \in cast /\ y \in cast
    BY <2>2, ZenonT(30) DEF StepOK
  <2>3. CASE (x \in cast /\ y \in signed) \/ (x \in signed /\ y \in cast)
    BY <2>3, ZenonT(30) DEF StepOK, MayCast
  <2> QED BY <2>1, <2>2, <2>3, SMTT(30)
<1>7. CertsBacked'
  <2> SUFFICES ASSUME NEW x \in signed', x.vote.voteType = "cert"
               PROVE  Cardinality(SignersIn(signed', "soft", x.vote.value, x.vote.round,
                                            x.vote.period)) >= x.required
    BY ZenonT(30) DEF CertsBacked, CertVotes, Signers
  <2> DEFINE A == SignersIn(signed, "soft", x.vote.value, x.vote.round, x.vote.period)
             B == SignersIn(signed', "soft", x.vote.value, x.vote.round, x.vote.period)
  <2>1. Cardinality(A) >= x.required
    BY Zenon DEF StepOK, MayCast, VotesOK, CertsBacked, CertVotes, Signers
  <2>2. A \subseteq B
    BY SignersGrow, ZenonT(30)
  <2>3. B \subseteq Node
    BY <1>3, SignersFinite, ZenonT(30)
  <2> HIDE DEF A, B
  <2>4. A \in SUBSET B /\ A \in SUBSET Node /\ B \in SUBSET Node
    BY <2>2, <2>3, SMTT(30)
  <2>5. Cardinality(A) \in Nat /\ Cardinality(B) \in Nat /\ Cardinality(A) <= Cardinality(B)
    BY <2>4, ZenonT(30) DEF Sizes
  <2>6. x.required \in Nat
    BY <1>3, SMTT(30) DEF SignedVote
  <2>7. Cardinality(B) >= x.required
    BY <2>1, <2>5, <2>6, SMTT(30)
  <2> QED BY <2>7, SMTT(30) DEF B
<1>8. Ahead
  <2>1. ASSUME NEW q \in Node \ {p}
        PROVE  /\ NotBefore(state[q], state[q])
               /\ Len(blockchain[q]) >= Len(blockchain[q])
    <3>1. state[q] \in ServerState /\ blockchain[q] \in Chain
      BY <1>1, SMTT(30)
    <3>2. NotBefore(state[q], state[q])
      BY <3>1, PlaceType DEF NotBefore, Reached
    <3> QED BY <3>1, <3>2, SMTT(30) DEF Chain
  <2>2. OneActor
    <3>1. CASE cast = {}
      BY <1>2, <3>1, Zenon DEF OneActor
    <3>2. CASE cast # {}
      <4>1. PICK x \in cast : TRUE
        BY <3>2, Zenon
      <4>2. cast = {x} /\ MayCast(p, x) /\ VoteOK(x, r)
        BY <4>1, Zenon DEF StepOK
      <4>3. Reached(state'[p], x.vote.round, x.vote.period, x.vote.step)
        BY <1>2, <4>2, Zenon DEF VoteOK
      <4> QED BY <1>2, <4>2, <4>3, Zenon DEF OneActor
    <3> QED BY <3>1, <3>2
  <2> QED BY <1>2, <2>1, <2>2, ZenonT(30) DEF Ahead, StepOK
<1> QED BY <1>3, <1>4, <1>5, <1>6, <1>7, <1>8, SMTT(30) DEF VotesOK

=============================================================================
