------------------------------ MODULE PeerProofs ------------------------------
(***************************************************************************)
(* The functions of Peer keep the invariant PeerOK of a peer taken alone.  *)
(***************************************************************************)
EXTENDS PeerInvariant, PeerTypes

\* An empty period state is fine with any chain, if its starting value is.
LEMMA InitPeriodOK ==
    ASSUME NEW v \in Value, NEW chain, NEW d,
           v \in Hash => OfRound(v, Len(chain), d)
    PROVE  PeriodOK(initPeriodState(v), chain, d)
BY SentinelAssumption DEF PeriodOK, initPeriodState, NoVotes, Value, Hash

\* The state every peer starts in.
LEMMA InitialPeerOK ==
    /\ InitialState \in ServerState
    /\ PeerOK(InitialState, <<GenesisBlock>>)
<1>1. InitialState \in ServerState
  BY InitPeriodStateType, Reserved, BoundAssumption DEF InitialState, ServerState, Seed
<1>2. ChainOK(<<GenesisBlock>>)
  BY BoundAssumption DEF ChainOK
<1>3. /\ PeriodOK(initPeriodState(Bottom), <<GenesisBlock>>, 1)
      /\ PeriodOK(initPeriodState(Empty), <<GenesisBlock>>, 1)
  BY InitPeriodOK, Reserved
<1>4. initPeriodState(Bottom).leader = Empty
  BY DEF initPeriodState
<1> QED BY <1>1, <1>2, <1>3, <1>4 DEF PeerOK, InitialState

-----------------------------------------------------------------------------
\* A step inside a period keeps PeerOK if the new state of the period is fine.
LEMMA PeerOKStep ==
    ASSUME NEW s \in ServerState, NEW r \in ServerState, NEW chain, PeerOK(s, chain),
           r.round = s.round, r.period = s.period, r.lastPeriodState = s.lastPeriodState,
           r.readyForNextRound = s.readyForNextRound,
           s.readyForNextRound => r.requiredVotes = s.requiredVotes,
           PeriodOK(r.periodState, chain, s.period),
           r.periodState.leader # Empty => ~s.readyForNextRound
    PROVE  PeerOK(r, chain)
BY DEF PeerOK

\* PeriodOK if each vote was there before or is for a value of the round.
LEMMA PeriodOKVotes ==
    ASSUME NEW ps, NEW ns, NEW chain, NEW d, PeriodOK(ps, chain, d),
           ns.idToBlock = ps.idToBlock,
           \A u \in Hash : ns.softVotes[u] > 0 => ps.softVotes[u] > 0 \/ OfRound(u, Len(chain), d),
           \A u \in Hash : ns.certVotes[u] > 0 => ps.certVotes[u] > 0 \/ OfRound(u, Len(chain), d),
           \A u \in Hash : ns.nextVotes[u] > 0 => ps.nextVotes[u] > 0 \/ OfRound(u, Len(chain), d),
           \A u \in Hash : ns.myCertVote = u => ps.myCertVote = u \/ OfRound(u, Len(chain), d),
           ns.startingValue = ps.startingValue
    PROVE  PeriodOK(ns, chain, d)
<1> USE DEF PeriodOK
<1>1. ASSUME NEW q \in Node, ns.idToBlock[q] # Nil PROVE BlockFits(ns.idToBlock[q], chain, d)
  BY <1>1
<1>2. ASSUME NEW v \in Hash,
             \/ ns.softVotes[v] > 0 \/ ns.certVotes[v] > 0 \/ ns.nextVotes[v] > 0
             \/ ns.myCertVote = v \/ ns.startingValue = v
      PROVE  OfRound(v, Len(chain), d)
  BY <1>2
<1> QED BY <1>1, <1>2

\* Counting a soft-vote for a value of the round.
LEMMA CountSoftOK ==
    ASSUME NEW s \in ServerState, NEW chain, PeerOK(s, chain), NEW q \in Node, NEW v \in Value,
           v \in Hash => OfRound(v, s.round, s.period)
    PROVE  PeerOK(countSoft(s, q, v), chain)
<1> DEFINE r == countSoft(s, q, v)
           ps == s.periodState
<1>1. r \in ServerState /\ Unchanged(r, s)
  BY CountSoft
<1>2. /\ r.periodState.softVotes = AddVote(ps.softVotes, v)
      /\ r.periodState.certVotes = ps.certVotes /\ r.periodState.nextVotes = ps.nextVotes
      /\ r.periodState.myCertVote = ps.myCertVote /\ r.periodState.leader = ps.leader
      /\ r.periodState.startingValue = ps.startingValue
      /\ r.periodState.idToBlock = ps.idToBlock
  BY CountSoft
<1> HIDE DEF r
<1>3. ps.softVotes \in Tally
  BY ServerStateElim, PeriodStateElim
<1>4. \A u \in Hash : AddVote(ps.softVotes, v)[u] > 0 => u = v \/ ps.softVotes[u] > 0
  BY <1>3, AddVotePositive
<1>5. PeriodOK(r.periodState, chain, s.period)
  <2>1. PeriodOK(ps, chain, s.period) /\ Len(chain) = s.round
    BY DEF PeerOK
  <2> QED BY <1>2, <1>4, <2>1, PeriodOKVotes
<1>6. r.periodState.leader # Empty => ~s.readyForNextRound
  BY <1>2 DEF PeerOK
<1>7. PeerOK(r, chain)
  BY <1>1, <1>5, <1>6, PeerOKStep, Zenon DEF Unchanged
<1> QED BY <1>7 DEF r

\* Counting a cert-vote for a value of the round.
LEMMA CountCertOK ==
    ASSUME NEW s \in ServerState, NEW chain, PeerOK(s, chain), NEW q \in Node, NEW v \in Value,
           v \in Hash => OfRound(v, s.round, s.period)
    PROVE  PeerOK(countCert(s, q, v), chain)
<1> DEFINE r == countCert(s, q, v)
           ps == s.periodState
<1>1. r \in ServerState /\ Unchanged(r, s)
  BY CountCert
<1>2. /\ r.periodState.certVotes = AddVote(ps.certVotes, v)
      /\ r.periodState.softVotes = ps.softVotes /\ r.periodState.nextVotes = ps.nextVotes
      /\ r.periodState.myCertVote = ps.myCertVote /\ r.periodState.leader = ps.leader
      /\ r.periodState.startingValue = ps.startingValue
      /\ r.periodState.idToBlock = ps.idToBlock
  BY CountCert
<1> HIDE DEF r
<1>3. ps.certVotes \in Tally
  BY ServerStateElim, PeriodStateElim
<1>4. \A u \in Hash : AddVote(ps.certVotes, v)[u] > 0 => u = v \/ ps.certVotes[u] > 0
  BY <1>3, AddVotePositive
<1>5. PeriodOK(r.periodState, chain, s.period)
  <2>1. PeriodOK(ps, chain, s.period) /\ Len(chain) = s.round
    BY DEF PeerOK
  <2> QED BY <1>2, <1>4, <2>1, PeriodOKVotes
<1>6. r.periodState.leader # Empty => ~s.readyForNextRound
  BY <1>2 DEF PeerOK
<1>7. PeerOK(r, chain)
  BY <1>1, <1>5, <1>6, PeerOKStep, Zenon DEF Unchanged
<1> QED BY <1>7 DEF r

\* Counting a next-vote for a value of the round.
LEMMA CountNextOK ==
    ASSUME NEW s \in ServerState, NEW chain, PeerOK(s, chain), NEW q \in Node, NEW v \in Value,
           NEW step, v \in Hash => OfRound(v, s.round, s.period)
    PROVE  PeerOK(countNext(s, q, v, step), chain)
<1> DEFINE r == countNext(s, q, v, step)
           ps == s.periodState
<1>1. r \in ServerState /\ Unchanged(r, s)
  BY CountNext
<1>2. /\ r.periodState.nextVotes = AddVote(ps.nextVotes, v)
      /\ r.periodState.softVotes = ps.softVotes /\ r.periodState.certVotes = ps.certVotes
      /\ r.periodState.myCertVote = ps.myCertVote /\ r.periodState.leader = ps.leader
      /\ r.periodState.startingValue = ps.startingValue
      /\ r.periodState.idToBlock = ps.idToBlock
  BY CountNext
<1> HIDE DEF r
<1>3. ps.nextVotes \in Tally
  BY ServerStateElim, PeriodStateElim
<1>4. \A u \in Hash : AddVote(ps.nextVotes, v)[u] > 0 => u = v \/ ps.nextVotes[u] > 0
  BY <1>3, AddVotePositive
<1>5. PeriodOK(r.periodState, chain, s.period)
  <2>1. PeriodOK(ps, chain, s.period) /\ Len(chain) = s.round
    BY DEF PeerOK
  <2> QED BY <1>2, <1>4, <2>1, PeriodOKVotes
<1>6. r.periodState.leader # Empty => ~s.readyForNextRound
  BY <1>2 DEF PeerOK
<1>7. PeerOK(r, chain)
  BY <1>1, <1>5, <1>6, PeerOKStep, Zenon DEF Unchanged
<1> QED BY <1>7 DEF r

\* The peer's own cert-vote.
LEMMA CertifyOK ==
    ASSUME NEW s \in ServerState, NEW chain, PeerOK(s, chain), NEW p \in Node, NEW v \in Hash,
           OfRound(v, s.round, s.period)
    PROVE  PeerOK(certify(s, p, v), chain)
<1> DEFINE r == certify(s, p, v)
           c == countCert(s, p, v)
<1>0. v \in Value
  BY Reserved
<1>1. r \in ServerState /\ Unchanged(r, s) /\ r.periodState = [c.periodState EXCEPT !.myCertVote = v]
  BY Certify
<1>2. PeerOK(c, chain) /\ c \in ServerState /\ Unchanged(c, s)
  BY <1>0, CountCert, CountCertOK
<1> HIDE DEF r, c
<1>3. c.periodState \in PeriodState
  BY <1>2, ServerStateElim
<1>4. /\ r.periodState.softVotes = c.periodState.softVotes
      /\ r.periodState.certVotes = c.periodState.certVotes
      /\ r.periodState.nextVotes = c.periodState.nextVotes
      /\ r.periodState.myCertVote = v /\ r.periodState.leader = c.periodState.leader
      /\ r.periodState.startingValue = c.periodState.startingValue
      /\ r.periodState.idToBlock = c.periodState.idToBlock
  BY <1>1, <1>3 DEF PeriodState
<1>5. PeriodOK(c.periodState, chain, s.period) /\ Len(chain) = s.round
  BY <1>2 DEF PeerOK, Unchanged
<1>6. PeriodOK(r.periodState, chain, s.period)
  BY <1>4, <1>5, PeriodOKVotes
<1>7. r.periodState.leader # Empty => ~s.readyForNextRound
  BY <1>2, <1>4 DEF PeerOK, Unchanged
<1>8. PeerOK(r, chain)
  BY <1>1, <1>6, <1>7, PeerOKStep, Zenon DEF Unchanged
<1> QED BY <1>8 DEF r

\* Recording a leader, which only happens after the round timer.
LEMMA WithLeaderOK ==
    ASSUME NEW s \in ServerState, NEW chain, PeerOK(s, chain), ~s.readyForNextRound,
           NEW q \in Node \cup {Empty}
    PROVE  PeerOK(withLeader(s, q), chain)
<1> DEFINE r == withLeader(s, q)
           ps == s.periodState
<1>1. r \in ServerState /\ Unchanged(r, s) /\ r.periodState = [ps EXCEPT !.leader = q]
  BY WithLeader
<1> HIDE DEF r
<1>2. ps \in PeriodState
  BY ServerStateElim
<1>3. /\ r.periodState.softVotes = ps.softVotes
      /\ r.periodState.certVotes = ps.certVotes
      /\ r.periodState.nextVotes = ps.nextVotes
      /\ r.periodState.myCertVote = ps.myCertVote
      /\ r.periodState.startingValue = ps.startingValue
      /\ r.periodState.idToBlock = ps.idToBlock
  BY <1>1, <1>2 DEF PeriodState
<1>4. PeriodOK(ps, chain, s.period)
  BY DEF PeerOK
<1>5. PeriodOK(r.periodState, chain, s.period)
  BY <1>3, <1>4, PeriodOKVotes
<1>6. PeerOK(r, chain)
  BY <1>1, <1>5, PeerOKStep, Zenon DEF Unchanged
<1> QED BY <1>6 DEF r

\* A block stored for a period fits the chain.
LEMMA ValueToBlock ==
    ASSUME NEW ps \in PeriodState, NEW chain, NEW d, PeriodOK(ps, chain, d), NEW v
    PROVE  LET b == valueToBlock(ps, v)
           IN b = Nil \/ (b \in Block /\ BlockFits(b, chain, d) /\ b.hash = v)
<1>1. CASE \E q \in proposers(ps) : ps.idToBlock[q].hash = v
  <2> DEFINE q == CHOOSE x \in proposers(ps) : ps.idToBlock[x].hash = v
  <2>1. q \in proposers(ps) /\ ps.idToBlock[q].hash = v
    BY <1>1
  <2>2. valueToBlock(ps, v) = ps.idToBlock[q]
    BY <1>1 DEF valueToBlock
  <2> HIDE DEF q
  <2>3. ps.idToBlock[q] # Nil /\ q \in Node
    BY <2>1 DEF proposers
  <2>4. ps.idToBlock[q] \in Block
    BY <2>3, PeriodStateElim
  <2>5. BlockFits(ps.idToBlock[q], chain, d)
    BY <2>3 DEF PeriodOK
  <2> QED BY <2>1, <2>2, <2>4, <2>5
<1>2. CASE ~ \E q \in proposers(ps) : ps.idToBlock[q].hash = v
  BY <1>2 DEF valueToBlock
<1> QED BY <1>1, <1>2

\* A chain stays linked when a block that fits, or nil, is appended.
LEMMA AppendOK ==
    ASSUME NEW chain \in Chain, ChainOK(chain), NEW b \in Block \cup {Nil}, NEW d,
           b # Nil => BlockFits(b, chain, d), Len(chain) <= MaxRound
    PROVE  /\ Append(chain, b) \in Chain
           /\ ChainOK(Append(chain, b))
           /\ Len(Append(chain, b)) = Len(chain) + 1
<1> DEFINE n == Len(chain)
           c == Append(chain, b)
<1>1. chain \in Seq(Block \cup {Nil}) /\ n \in Nat /\ n >= 1
  BY DEF Chain, ChainOK
<1>2. c \in Seq(Block \cup {Nil}) /\ Len(c) = n + 1 /\ c[n + 1] = b
      /\ \A i \in 1 .. n : c[i] = chain[i]
  BY <1>1
<1> HIDE DEF c
<1>3. ASSUME NEW i \in 2 .. n + 1, c[i] # Nil
      PROVE  /\ c[i - 1] # Nil
             /\ c[i].id = i - 1
             /\ c[i].prevHash = c[i - 1].hash
             /\ c[i].hash \in Hash /\ c[i].hash[2] = i - 1
  <2>1. CASE i = n + 1
    <3>1. BlockFits(b, chain, d) /\ c[i] = b /\ c[i - 1] = chain[n]
      BY <1>1, <1>2, <1>3, <2>1
    <3> QED BY <2>1, <3>1, <1>1 DEF BlockFits, OfRound, Last
  <2>2. CASE i # n + 1
    <3>1. i \in 2 .. n /\ i \in 1 .. n /\ i - 1 \in 1 .. n
      BY <2>2, <1>1
    <3>2. c[i] = chain[i] /\ c[i - 1] = chain[i - 1]
      BY <1>2, <3>1
    <3> QED BY <1>3, <3>1, <3>2 DEF ChainOK
  <2> QED BY <2>1, <2>2
<1>4. c[1] = GenesisBlock
  BY <1>1, <1>2 DEF ChainOK
<1>5. Len(c) \in 1 .. MaxRound + 1
  BY <1>1, <1>2, BoundAssumption
<1>6. ChainOK(c)
  BY <1>2, <1>3, <1>4, <1>5 DEF ChainOK
<1> QED BY <1>2, <1>6 DEF Chain, c

\* Halting: the round's block goes to the chain, and the peer is in a new round.
LEMMA HandleHaltOK ==
    ASSUME NEW s \in ServerState, NEW chain \in Chain, PeerOK(s, chain), s.round <= MaxRound, NEW v
    PROVE  LET c == Append(chain, valueToBlock(s.periodState, v))
           IN c \in Chain /\ PeerOK(handleHalt(s, v), c) /\ Len(c) = Len(chain) + 1
<1> DEFINE b == valueToBlock(s.periodState, v)
           c == Append(chain, b)
           r == handleHalt(s, v)
<1>1. PeriodOK(s.periodState, chain, s.period) /\ ChainOK(chain) /\ Len(chain) = s.round
  BY DEF PeerOK
<1>2. s.periodState \in PeriodState
  BY ServerStateElim
<1>3. b \in Block \cup {Nil} /\ (b # Nil => BlockFits(b, chain, s.period))
  BY <1>1, <1>2, ValueToBlock
<1> HIDE DEF b
<1>4. c \in Chain /\ ChainOK(c) /\ Len(c) = Len(chain) + 1
  BY <1>1, <1>3, AppendOK
<1>5. /\ r.round = s.round + 1 /\ r.period = 1 /\ r.readyForNextRound = TRUE
      /\ r.periodState = initPeriodState(Bottom)
      /\ r.lastPeriodState = initPeriodState(Empty)
  BY HandleHalt, Zenon
<1> HIDE DEF r, c
<1>6. PeriodOK(r.periodState, c, r.period) /\ PeriodOK(r.lastPeriodState, c, r.period)
  BY <1>5, InitPeriodOK, Reserved
<1>7. r.periodState.leader = Empty
  BY <1>5 DEF initPeriodState
<1>8. PeerOK(r, c)
  BY <1>1, <1>4, <1>5, <1>6, <1>7 DEF PeerOK
<1> QED BY <1>4, <1>8 DEF r, c, b

\* What is fine in a period is fine in the next one.
LEMMA PeriodOKLater ==
    ASSUME NEW ps, NEW chain, NEW d \in Nat, PeriodOK(ps, chain, d)
    PROVE  PeriodOK(ps, chain, d + 1)
<1>1. \A v : OfRound(v, Len(chain), d) => OfRound(v, Len(chain), d + 1)
  BY DEF OfRound, Hash, Slot, Periods
<1>2. \A b : BlockFits(b, chain, d) => BlockFits(b, chain, d + 1)
  BY <1>1 DEF BlockFits
<1> QED BY <1>1, <1>2 DEF PeriodOK

\* Going to the next period with a value that has enough next-votes.
LEMMA HandleNextPeriodOK ==
    ASSUME NEW s \in ServerState, NEW chain, PeerOK(s, chain), s.period <= MaxPeriod,
           NEW v \in MostVoted(s.periodState.nextVotes),
           s.periodState.nextVotes[v] >= s.requiredVotes
    PROVE  PeerOK(handleNextPeriod(s, v), chain)
<1> DEFINE r == handleNextPeriod(s, v)
           start == IF v # Bottom THEN v ELSE Empty
<1>1. s.periodState.nextVotes \in Tally
  BY ServerStateElim, PeriodStateElim
<1>2. v \in Value /\ s.periodState.nextVotes[v] > 0
  BY <1>1 DEF MostVoted, Tally
<1>3. /\ r.round = s.round /\ r.period = s.period + 1 /\ r.readyForNextRound = TRUE
      /\ r.periodState = initPeriodState(start) /\ r.lastPeriodState = s.periodState
      /\ r.requiredVotes = s.requiredVotes
  BY <1>2, HandleNextPeriod, Zenon
<1>4. start \in Value /\ (start \in Hash => start = v)
  BY <1>2, Reserved
<1>5. s.period \in Nat /\ PeriodOK(s.periodState, chain, s.period)
  BY ServerStateElim DEF PeerOK
<1>6. PeriodOK(s.periodState, chain, s.period + 1)
  BY <1>5, PeriodOKLater
<1>7. v \in Hash => OfRound(v, Len(chain), s.period + 1)
  BY <1>2, <1>6 DEF PeriodOK
<1> HIDE DEF start, r
<1>8. PeriodOK(initPeriodState(start), chain, s.period + 1)
  BY <1>4, <1>7, InitPeriodOK
<1>9. r.periodState.leader = Empty
  BY <1>3 DEF initPeriodState
<1>10. PeerOK(r, chain)
  BY <1>3, <1>6, <1>8, <1>9 DEF PeerOK
<1> QED BY <1>10 DEF r

\* Taking over a chain.
LEMMA AdoptChainOK ==
    ASSUME NEW s \in ServerState, NEW chain, ChainOK(chain), NEW Q \in Seed
    PROVE  adoptChain(s, chain, Q) \in ServerState /\ PeerOK(adoptChain(s, chain, Q), chain)
<1> DEFINE r == adoptChain(s, chain, Q)
<1>1. /\ r \in ServerState /\ r.round = Len(chain) /\ r.period = 1
      /\ r.readyForNextRound = TRUE /\ r.periodState = initPeriodState(Bottom)
      /\ r.lastPeriodState = initPeriodState(Empty)
  BY AdoptChain, ZenonT(30) DEF ChainOK
<1> HIDE DEF r
<1>2. PeriodOK(r.periodState, chain, r.period) /\ PeriodOK(r.lastPeriodState, chain, r.period)
  BY <1>1, InitPeriodOK, Reserved
<1>3. r.periodState.leader = Empty
  BY <1>1 DEF initPeriodState
<1>4. PeerOK(r, chain)
  BY <1>1, <1>2, <1>3 DEF PeerOK
<1> QED BY <1>1, <1>4 DEF r

\* Coming to a step: step 2 also computes requiredVotes.
LEMMA NewStep ==
    ASSUME NEW s \in ServerState, NEW chain, PeerOK(s, chain), ~s.readyForNextRound,
           NEW step \in 1 .. 5, NEW n \in Nat
    PROVE  /\ [s EXCEPT !.step = step] \in ServerState
           /\ PeerOK([s EXCEPT !.step = step], chain)
           /\ [s EXCEPT !.step = step, !.requiredVotes = n] \in ServerState
           /\ PeerOK([s EXCEPT !.step = step, !.requiredVotes = n], chain)
<1> DEFINE r == [s EXCEPT !.step = step]
           t == [r EXCEPT !.requiredVotes = n]
<1>1. /\ r \in ServerState /\ r.round = s.round /\ r.period = s.period
      /\ r.lastPeriodState = s.lastPeriodState /\ r.periodState = s.periodState
  BY DEF ServerState
<1>2. r.readyForNextRound = s.readyForNextRound
  BY DEF ServerState
<1>3. PeriodOK(s.periodState, chain, s.period)
  BY DEF PeerOK
<1> HIDE DEF r
<1>4. PeerOK(r, chain)
  BY <1>1, <1>2, <1>3, PeerOKStep
<1>5. /\ t \in ServerState /\ t.round = r.round /\ t.period = r.period
      /\ t.lastPeriodState = r.lastPeriodState /\ t.periodState = r.periodState
  BY <1>1 DEF ServerState
<1>6. t.readyForNextRound = r.readyForNextRound
  BY <1>1 DEF ServerState
<1>7. t = [s EXCEPT !.step = step, !.requiredVotes = n]
  BY DEF r, ServerState
<1> HIDE DEF t
<1>8. PeerOK(t, chain)
  BY <1>1, <1>2, <1>3, <1>4, <1>5, <1>6, PeerOKStep
<1> QED BY <1>1, <1>4, <1>5, <1>7, <1>8 DEF r

\* The state of a period with other blocks and seeds, all of them fine.
LEMMA NewBlocks ==
    ASSUME NEW ps \in PeriodState, NEW chain, NEW d, PeriodOK(ps, chain, d),
           NEW blocks \in [Node -> Block \cup {Nil}], NEW seeds \in [Hash -> Seed],
           \A q \in Node : blocks[q] # Nil => BlockFits(blocks[q], chain, d)
    PROVE  LET r == withBlocks(ps, blocks, seeds)
           IN /\ r \in PeriodState /\ PeriodOK(r, chain, d)
              /\ r.leader = ps.leader
              /\ r.softVotes = ps.softVotes /\ r.haveSoftVoted = ps.haveSoftVoted
              /\ r.certVotes = ps.certVotes /\ r.haveCertVoted = ps.haveCertVoted
              /\ r.haveNextVotedStep5 = ps.haveNextVotedStep5
<1> DEFINE r == withBlocks(ps, blocks, seeds)
<1>1. r = [f \in PeriodFields |-> r[f]]
  BY PeriodStateRecord, Zenon DEF withBlocks
<1>2. /\ r.idToBlock = blocks /\ r.valueToQ = seeds
      /\ r.nextVotes = ps.nextVotes /\ r.softVotes = ps.softVotes /\ r.certVotes = ps.certVotes
      /\ r.haveNextVotedStep4 = ps.haveNextVotedStep4
      /\ r.haveNextVotedStep5 = ps.haveNextVotedStep5
      /\ r.haveSoftVoted = ps.haveSoftVoted /\ r.haveCertVoted = ps.haveCertVoted
      /\ r.myCertVote = ps.myCertVote /\ r.leader = ps.leader
      /\ r.startingValue = ps.startingValue
  BY DEF PeriodState, withBlocks
<1> HIDE DEF r
<1>3. r \in PeriodState
  BY <1>1, <1>2, PeriodStateElim, PeriodStateIntro
<1>4. PeriodOK(r, chain, d)
  BY <1>2 DEF PeriodOK
<1> QED BY <1>2, <1>3, <1>4 DEF r

\* What executeProposal stores for accepted proposals.
LEMMA AcceptedBlocks ==
    ASSUME NEW s \in ServerState, NEW chain, PeerOK(s, chain), NEW A \in SUBSET Proposal,
           \A m \in A : ProposalOK(m) /\ accepts(s, chain, m), A = {} \/ Last(chain) # Nil
    PROVE  LET blocks == blocksOf(s.periodState.idToBlock, A)
           IN /\ blocks \in [Node -> Block \cup {Nil}]
              /\ \A q \in Node : blocks[q] # Nil => BlockFits(blocks[q], chain, s.period)
              /\ {<<m.peer, s.round, s.period>> : m \in A} \subseteq Slot
<1> DEFINE old == s.periodState.idToBlock
<1>1. old \in [Node -> Block \cup {Nil}]
  BY ServerStateElim, PeriodStateElim
<1>2. \A q \in Node : old[q] # Nil => BlockFits(old[q], chain, s.period)
  BY DEF PeerOK, PeriodOK
<1>3. ASSUME NEW m \in A
      PROVE  /\ m.block \in Block /\ BlockFits(m.block, chain, s.period)
             /\ <<m.peer, s.round, s.period>> \in Slot
  <2>1. m \in Proposal /\ ProposalOK(m) /\ m.round = s.round /\ m.period = s.period
        /\ m.lastHash = Last(chain).hash /\ Last(chain) # Nil /\ Len(chain) = s.round
    BY DEF accepts, verifyProposal, PeerOK
  <2>2. m.block \in Block /\ m.peer \in Node /\ m.round \in Rounds /\ m.period \in Periods
    BY <2>1 DEF Proposal
  <2> QED BY <2>1, <2>2 DEF ProposalOK, BlockFits, Slot
<1>4. ASSUME NEW q \in Node
      PROVE  LET b == IF \E m \in A : m.peer = q
                      THEN (CHOOSE m \in A : m.peer = q).block ELSE old[q]
             IN b \in Block \cup {Nil} /\ (b # Nil => BlockFits(b, chain, s.period))
  <2>1. CASE \E m \in A : m.peer = q
    <3> DEFINE m == CHOOSE x \in A : x.peer = q
    <3>1. m \in A
      BY <2>1
    <3> QED BY <2>1, <3>1, <1>3, Zenon
  <2>2. CASE ~ \E m \in A : m.peer = q
    BY <2>2, <1>1, <1>2
  <2> QED BY <2>1, <2>2
<1> QED BY <1>3, <1>4 DEF blocksOf

\* The seeds executeProposal stores.
LEMMA AcceptedSeeds ==
    ASSUME NEW old \in [Hash -> Seed], NEW A \in SUBSET Proposal, NEW w \in LastWriters(A)
    PROVE  seedsOf(old, w) \in [Hash -> Seed]
<1>1. w \in [{m.block.hash : m \in A} -> A]
  BY DEF LastWriters
<1>2. \A v \in DOMAIN w : w[v] \in A
  BY <1>1
<1>3. \A v \in DOMAIN w : w[v].nextQ \in Seed
  BY <1>2 DEF Proposal, Seed
<1> QED BY <1>3 DEF seedsOf

\* Executing accepted proposals.
LEMMA ExecuteProposalOK ==
    ASSUME NEW s \in ServerState, NEW chain, PeerOK(s, chain), NEW A \in SUBSET Proposal,
           \A m \in A : ProposalOK(m) /\ accepts(s, chain, m), A = {} \/ Last(chain) # Nil,
           NEW w \in LastWriters(A)
    PROVE  LET r == executeProposal(s, A, w)
           IN /\ r \in ServerState /\ PeerOK(r, chain)
              /\ r.round = s.round /\ r.period = s.period /\ r.step = s.step
              /\ r.readyForNextRound = s.readyForNextRound
              /\ r.requiredVotes = s.requiredVotes /\ r.proposalBuffer = s.proposalBuffer
              /\ r.periodState.softVotes = s.periodState.softVotes
              /\ r.periodState.haveSoftVoted = s.periodState.haveSoftVoted
              /\ r.periodState.certVotes = s.periodState.certVotes
              /\ r.periodState.haveCertVoted = s.periodState.haveCertVoted
              /\ r.periodState.haveNextVotedStep5 = s.periodState.haveNextVotedStep5
<1> DEFINE ps == s.periodState
           blocks == blocksOf(ps.idToBlock, A)
           seeds == seedsOf(ps.valueToQ, w)
           new == withBlocks(ps, blocks, seeds)
           com == s.committeeMember \cup {<<m.peer, s.round, s.period>> : m \in A}
           t == [s EXCEPT !.committeeMember = com]
           r == executeProposal(s, A, w)
<1>1. ps \in PeriodState /\ PeriodOK(ps, chain, s.period)
  BY ServerStateElim, SMTT(30) DEF PeerOK
<1>2. /\ blocks \in [Node -> Block \cup {Nil}]
      /\ \A q \in Node : blocks[q] # Nil => BlockFits(blocks[q], chain, s.period)
      /\ {<<m.peer, s.round, s.period>> : m \in A} \subseteq Slot
  BY AcceptedBlocks, ZenonT(30)
<1>3. ps.valueToQ \in [Hash -> Seed]
  BY <1>1, PeriodStateElim
<1>4. seeds \in [Hash -> Seed]
  BY <1>3, AcceptedSeeds, SMTT(30)
<1>5. com \in SUBSET Slot
  BY <1>2, ServerStateElim
<1>6. r = withPeriod(t, new)
  BY SMTT(30) DEF executeProposal
<1> HIDE DEF blocks, seeds, com, r
<1>7. /\ new \in PeriodState /\ PeriodOK(new, chain, s.period)
      /\ new.leader = ps.leader
      /\ new.softVotes = ps.softVotes /\ new.haveSoftVoted = ps.haveSoftVoted
      /\ new.certVotes = ps.certVotes /\ new.haveCertVoted = ps.haveCertVoted
      /\ new.haveNextVotedStep5 = ps.haveNextVotedStep5
  <2>1. \A q \in Node : blocks[q] # Nil => BlockFits(blocks[q], chain, s.period)
    BY <1>2
  <2> HIDE DEF ps
  <2> QED BY <1>1, <1>2, <1>4, <2>1, NewBlocks, SMTT(30)
<1>8. /\ t \in ServerState /\ t.round = s.round /\ t.period = s.period /\ t.step = s.step
      /\ t.lastPeriodState = s.lastPeriodState
      /\ t.requiredVotes = s.requiredVotes /\ t.proposalBuffer = s.proposalBuffer
  BY <1>5 DEF ServerState
<1>9. t.readyForNextRound = s.readyForNextRound
  BY DEF ServerState
<1> HIDE DEF new, t
<1>10. r \in ServerState /\ Unchanged(r, t) /\ r.periodState = new
  BY <1>6, <1>7, <1>8, SetPeriodState, SMTT(30)
<1>11. new.leader # Empty => ~s.readyForNextRound
  BY <1>7 DEF PeerOK
<1>12. PeerOK(r, chain)
  BY <1>7, <1>8, <1>9, <1>10, <1>11, PeerOKStep, ZenonT(30) DEF Unchanged
<1>13. r.readyForNextRound = s.readyForNextRound
  BY <1>9, <1>10 DEF Unchanged
<1> QED BY <1>7, <1>8, <1>10, <1>12, <1>13, SMTT(30) DEF r, Unchanged

\* Leaving the state "ready".
LEMMA StartRoundOK ==
    ASSUME NEW s \in ServerState, NEW chain, PeerOK(s, chain), NEW pool \in SUBSET Tx,
           s.round <= MaxRound, s.period <= MaxPeriod
    PROVE  LET r == startRound(s, pool)
           IN /\ r \in ServerState /\ PeerOK(r, chain)
              /\ r.round = s.round /\ r.period = s.period /\ r.step = s.step
              /\ r.readyForNextRound = FALSE /\ r.proposalBuffer = {}
              /\ r.periodState = s.periodState
<1> DEFINE r == startRound(s, pool)
<1>1. r = [f \in ServerFields |-> r[f]]
  BY ServerStateRecord, ZenonT(30) DEF startRound
<1>2. /\ r.round = s.round /\ r.period = s.period /\ r.step = s.step
      /\ r.readyForNextRound = FALSE /\ r.committeeMember = s.committeeMember
      /\ r.isCommitteeMember = s.isCommitteeMember /\ r.Q = s.Q
      /\ r.transactionPool = pool
      /\ r.periodState = s.periodState /\ r.lastPeriodState = s.lastPeriodState
      /\ r.requiredVotes = s.requiredVotes /\ r.proposalBuffer = {}
      /\ r.agreementTimer = TRUE
  BY DEF ServerState, startRound
<1> HIDE DEF r
<1>3. /\ r.round \in 1 .. MaxRound + 1 /\ r.period \in 1 .. MaxPeriod + 1 /\ r.step \in 1 .. 5
      /\ r.committeeMember \in SUBSET Slot /\ r.Q \in Seed /\ r.transactionPool \in SUBSET Tx
      /\ r.requiredVotes \in Nat /\ r.proposalBuffer \in SUBSET Proposal
      /\ r.periodState \in PeriodState /\ r.lastPeriodState \in PeriodState
  BY <1>2, ServerStateElim
<1>4. /\ r.readyForNextRound \in BOOLEAN /\ r.isCommitteeMember \in BOOLEAN
      /\ r.agreementTimer \in BOOLEAN
  BY <1>2, ServerStateElim, Zenon
<1>5. r \in ServerState
  BY <1>1, <1>3, <1>4, ServerStateIntro
<1>6. PeerOK(r, chain)
  BY <1>2 DEF PeerOK
<1> QED BY <1>2, <1>5, <1>6 DEF r

\* Joining the committee with a proposal of one's own.
LEMMA BecomeMemberOK ==
    ASSUME NEW s \in ServerState, NEW chain, PeerOK(s, chain), NEW p \in Node,
           NEW m \in Proposal, BlockFits(m.block, chain, s.period)
    PROVE  LET r == becomeMember(s, p, m)
           IN /\ r \in ServerState /\ PeerOK(r, chain)
              /\ r.round = s.round /\ r.period = s.period /\ r.step = s.step
              /\ r.readyForNextRound = s.readyForNextRound /\ r.proposalBuffer = s.proposalBuffer
              /\ r.periodState.softVotes = s.periodState.softVotes
              /\ r.periodState.haveSoftVoted = s.periodState.haveSoftVoted
              /\ r.periodState.certVotes = s.periodState.certVotes
              /\ r.periodState.haveCertVoted = s.periodState.haveCertVoted
              /\ r.periodState.haveNextVotedStep5 = s.periodState.haveNextVotedStep5
<1> DEFINE ps == s.periodState
           blocks == [ps.idToBlock EXCEPT ![p] = m.block]
           seeds == [ps.valueToQ EXCEPT ![m.block.hash] = m.nextQ]
           new == withBlocks(ps, blocks, seeds)
           t == [s EXCEPT !.isCommitteeMember = TRUE]
           r == becomeMember(s, p, m)
<1>1. ps \in PeriodState /\ PeriodOK(ps, chain, s.period)
  BY ServerStateElim DEF PeerOK
<1>2. ps.idToBlock \in [Node -> Block \cup {Nil}] /\ ps.valueToQ \in [Hash -> Seed]
  BY <1>1, PeriodStateElim
<1>3. m.block \in Block /\ m.nextQ \in Seed /\ m.block.hash \in Hash
  BY DEF Proposal, Seed, BlockFits, OfRound
<1>4. blocks \in [Node -> Block \cup {Nil}] /\ seeds \in [Hash -> Seed]
  BY <1>2, <1>3, SMTT(30)
<1>5. \A q \in Node : blocks[q] # Nil => BlockFits(blocks[q], chain, s.period)
  BY <1>1, <1>2 DEF PeriodOK
<1>6. r = withPeriod(t, new)
  BY DEF becomeMember
<1> HIDE DEF blocks, seeds, r
<1>7. /\ new \in PeriodState /\ PeriodOK(new, chain, s.period)
      /\ new.leader = ps.leader
      /\ new.softVotes = ps.softVotes /\ new.haveSoftVoted = ps.haveSoftVoted
      /\ new.certVotes = ps.certVotes /\ new.haveCertVoted = ps.haveCertVoted
      /\ new.haveNextVotedStep5 = ps.haveNextVotedStep5
  <2> HIDE DEF ps
  <2> QED BY <1>1, <1>4, <1>5, NewBlocks
<1>8. /\ t \in ServerState /\ t.round = s.round /\ t.period = s.period /\ t.step = s.step
      /\ t.lastPeriodState = s.lastPeriodState
      /\ t.requiredVotes = s.requiredVotes /\ t.proposalBuffer = s.proposalBuffer
  BY Zenon DEF ServerState
<1>9. t.readyForNextRound = s.readyForNextRound
  BY DEF ServerState
<1> HIDE DEF new, t
<1>10. r \in ServerState /\ Unchanged(r, t) /\ r.periodState = new
  BY <1>6, <1>7, <1>8, SetPeriodState
<1>11. new.leader # Empty => ~s.readyForNextRound
  BY <1>7 DEF PeerOK
<1>12. PeerOK(r, chain)
  BY <1>7, <1>8, <1>9, <1>10, <1>11, PeerOKStep, ZenonT(30) DEF Unchanged
<1>13. r.readyForNextRound = s.readyForNextRound
  BY <1>9, <1>10 DEF Unchanged
<1> QED BY <1>7, <1>8, <1>10, <1>12, <1>13, SMTT(30) DEF r, Unchanged

-----------------------------------------------------------------------------
\* The block a peer proposes, new or of the last period, fits its chain.
LEMMA OwnBlock ==
    ASSUME NEW p \in Node, NEW s \in ServerState, NEW chain \in Chain, PeerOK(s, chain),
           s.round \in Rounds, s.period \in Periods, Last(chain) # Nil, NEW v,
           NEW old, old = (IF v \in Hash THEN valueToBlock(s.lastPeriodState, v) ELSE Nil),
           v = Empty \/ old # Nil,
           NEW b \in IF v = Empty THEN prepareBlock(p, s, chain) ELSE {old}
    PROVE  b \in Block /\ BlockFits(b, chain, s.period)
<1>1. /\ ChainOK(chain) /\ Len(chain) = s.round /\ s.lastPeriodState \in PeriodState
      /\ PeriodOK(s.lastPeriodState, chain, s.period) /\ s.transactionPool \subseteq Tx
  BY ServerStateElim, SMTT(30) DEF PeerOK
<1>2. CASE v # Empty
  BY <1>1, <1>2, ValueToBlock, SMTT(30)
<1>3. CASE v = Empty
  <2> DEFINE z == Last(chain)
  <2>1. PICK t \in pickTransactions(prunedPool(s, chain)) :
          b = [id |-> z.id + 1, hash |-> <<p, s.round, s.period>>, prevHash |-> z.hash, tx |-> t]
    BY <1>3, SMTT(30) DEF prepareBlock
  <2>2. t \subseteq Tx
    BY <1>1, ZenonT(30) DEF pickTransactions, prunedPool
  <2>3. Len(chain) \in Nat \ {0} /\ z \in Block
    BY <1>1, SMTT(30) DEF ChainOK, Chain, Last
  <2>4. z.id + 1 = Len(chain)
    <3>1. CASE Len(chain) = 1
      BY <1>1, <3>1, SMTT(30) DEF ChainOK, Last, GenesisBlock
    <3>2. CASE Len(chain) # 1
      BY <1>1, <2>3, <3>2, SMTT(30) DEF ChainOK, Last
    <3> QED BY <3>1, <3>2, SMTT(30)
  <2>5. <<p, s.round, s.period>> \in Hash
    BY DEF Hash, Slot
  <2>6. z.hash \in Hash \cup {Genesis} /\ z.id \in Nat
    BY <2>3, SMTT(30) DEF Block
  <2>7. OfRound(<<p, s.round, s.period>>, Len(chain), s.period)
    BY <1>1, <2>5, PlaceType, SMTT(30) DEF OfRound
  <2> HIDE DEF z
  <2>8. b \in Block
    BY <2>1, <2>2, <2>3, <2>4, <2>5, <2>6, SMTT(30) DEF Block
  <2>9. b.id = Len(chain) /\ b.prevHash = z.hash /\ b.hash = <<p, s.round, s.period>>
    BY <2>1, <2>4, SMTT(30)
  <2> QED BY <2>7, <2>8, <2>9, ZenonT(30) DEF BlockFits, z
<1> QED BY <1>2, <1>3, SMTT(30)

\* The peer's own proposal.
LEMMA OwnProposal ==
    ASSUME NEW p \in Node, NEW s \in ServerState, NEW chain \in Chain, PeerOK(s, chain),
           s.round \in Rounds, s.period \in Periods, Last(chain) # Nil,
           NEW b \in Block, BlockFits(b, chain, s.period)
    PROVE  LET m == ownProposal(s, p, chain, b)
           IN m \in Proposal /\ ProposalOK(m) /\ m.block = b
<1>1. ChainOK(chain) /\ Len(chain) = s.round /\ s.Q \in Seed
  BY ServerStateElim, ZenonT(30) DEF PeerOK
<1>2. Last(chain).hash \in Hash \cup {Genesis}
  BY <1>1, SMTT(30) DEF ChainOK, Chain, Last, Block
<1>3. <<p, s.round, s.period>> \in Slot
  BY SMTT(30) DEF Slot
<1>4. ownProposal(s, p, chain, b) \in Proposal
  BY <1>1, <1>2, <1>3, SMTT(30) DEF ownProposal, Proposal
<1>5. b.id = s.round /\ b.prevHash = Last(chain).hash /\ OfRound(b.hash, s.round, s.period)
  BY <1>1, Zenon DEF BlockFits
<1> QED BY <1>4, <1>5, ZenonT(30) DEF ownProposal, ProposalOK

-----------------------------------------------------------------------------
(***************************************************************************)
(* What the decision functions of Agreement can return, and that           *)
(* selectLeader finds a proposer if there is one.                          *)
(***************************************************************************)
\* What scanning a tally finds: nothing, or a value with most votes.
LEMMA ScanResult ==
    ASSUME NEW votes \in Tally, NEW x \in Scan(votes)
    PROVE  \/ x.value = Empty /\ x.votes = 0
           \/ x.value \in MostVoted(votes) /\ x.votes = votes[x.value]
BY DEF Scan

\* A value with most votes is a value, and has a vote.
LEMMA MostVotedResult ==
    ASSUME NEW votes \in Tally, NEW v \in MostVoted(votes)
    PROVE  v \in Value /\ votes[v] > 0 /\ \A u \in Value : votes[u] <= votes[v]
BY DEF MostVoted, Tally

\* The same for the next-votes of the last period.
LEMMA LastPeriodResult ==
    ASSUME NEW votes \in Tally, NEW d, NEW x \in LastPeriod(d, votes)
    PROVE  \/ x.value = Empty /\ x.votes = 0
           \/ x.value \in MostVoted(votes) /\ x.votes = votes[x.value]
BY ScanResult DEF LastPeriod

\* Step 1 proposes a value the last period voted for, or a new block.
LEMMA RunStep1 ==
    ASSUME NEW votes \in Tally, NEW d, NEW n, NEW v \in runStep1(d, votes, n)
    PROVE  v \in Value \cup {Err}
<1>1. PICK x \in LastPeriod(d, votes) : v \in {Empty, x.value, Err}
  BY DEF runStep1
<1>2. x.value \in Value
  BY LastPeriodResult, MostVotedResult, Reserved
<1> QED BY <1>1, <1>2, Reserved

\* Step 1 does not return "err" when the last period had enough next-votes.
LEMMA RunStep1NotErr ==
    ASSUME NEW votes \in Tally, NEW d \in Nat, d >= 1, NEW n \in Nat,
           d > 1 => \E v \in MostVoted(votes) : votes[v] >= n
    PROVE  Err \notin runStep1(d, votes, n)
<1>1. CASE d = 1
  BY <1>1, ReservedAssumption DEF runStep1
<1>2. CASE d > 1
  <2>1. PICK v \in MostVoted(votes) : votes[v] >= n
    BY <1>2
  <2>2. v \in Value /\ \A u \in MostVoted(votes) : votes[v] <= votes[u] /\ votes[u] \in Nat
    BY MostVotedResult DEF Tally
  <2>3. ASSUME NEW x \in LastPeriod(d, votes) PROVE x.votes >= n /\ x.value # Err
    <3>1. x \in Scan(votes) /\ MostVoted(votes) # {}
      BY <1>2 DEF LastPeriod
    <3>2. x.value \in MostVoted(votes) /\ x.votes = votes[x.value]
      BY <3>1 DEF Scan
    <3> QED BY <2>1, <2>2, <3>2, MostVotedResult, Reserved DEF Tally
  <2> QED BY <2>3, ReservedAssumption DEF runStep1
<1> QED BY <1>1, <1>2

\* Step 2 votes for the leader's block or for a value the last period voted for.
LEMMA RunStep2 ==
    ASSUME NEW votes \in Tally, NEW d, NEW n, NEW h, NEW r \in runStep2(d, votes, n, h)
    PROVE  \/ r.led /\ r.value = h
           \/ ~r.led /\ r.value \in Value /\ (r.value \in Hash => votes[r.value] > 0)
<1>1. PICK x \in LastPeriod(d, votes) :
         \/ r = [led |-> TRUE, value |-> h]
         \/ r = [led |-> FALSE, value |-> x.value]
         \/ r = [led |-> FALSE, value |-> Empty]
  BY DEF runStep2
<1>2. x.value \in Value /\ (x.value \in Hash => votes[x.value] > 0)
  BY LastPeriodResult, MostVotedResult, Reserved
<1> QED BY <1>1, <1>2, Reserved

\* Step 3 certifies a block with enough soft-votes.
LEMMA RunStep3 ==
    ASSUME NEW votes \in Tally, NEW n, NEW v \in runStep3(votes, n), v # Empty
    PROVE  v \in Hash /\ votes[v] > 0 /\ votes[v] >= n
<1>1. PICK x \in Scan(votes) : v = x.value /\ x.value # Bottom /\ x.votes >= n
  BY DEF runStep3
<1>2. v \in MostVoted(votes) /\ votes[v] >= n
  BY <1>1, ScanResult
<1> QED BY <1>1, <1>2, MostVotedResult DEF Value

\* Step 4 votes for what the peer certified, for the bottom value or the starting value.
LEMMA RunStep4 ==
    ASSUME NEW votes, NEW d, NEW n, NEW my, NEW start,
           NEW v \in runStep4(d, my, start, votes, n)
    PROVE  v = my \/ v = Bottom \/ v = start
BY DEF runStep4

\* Step 5 votes for a block with a soft-vote, or for the bottom value.
LEMMA RunStep5 ==
    ASSUME NEW soft \in Tally, NEW votes, NEW d, NEW n, NEW my,
           NEW v \in runStep5(d, soft, my, votes, n), v # Empty
    PROVE  v = Bottom \/ (v \in Hash /\ soft[v] > 0)
<1>1. PICK x \in Scan(soft) : v = Bottom \/ (v = x.value /\ v # Bottom)
  BY DEF runStep5
<1> QED BY <1>1, ScanResult, MostVotedResult DEF Value

\* The peer goes to the next period with a value that has enough next-votes.
LEMMA CheckNextPeriod ==
    ASSUME NEW votes \in Tally, NEW n, NEW v \in checkNextPeridCondition(votes, n), v # Empty
    PROVE  v \in MostVoted(votes) /\ votes[v] >= n
<1>1. PICK x \in Scan(votes) : v = x.value /\ x.votes >= n
  BY DEF checkNextPeridCondition
<1> QED BY <1>1, ScanResult

\* checkHaltingCondition returns a value.
LEMMA CheckHalting ==
    ASSUME NEW votes \in Tally, NEW n, NEW v \in checkHaltingCondition(votes, n)
    PROVE  v \in Value
BY ScanResult, MostVotedResult, Reserved DEF checkHaltingCondition

-----------------------------------------------------------------------------
\* selectLeader returns a proposer, if there is one.
LEMMA SelectLeader ==
    ASSUME Sizes, NEW s \in ServerState, s.round <= MaxRound, s.period <= MaxPeriod
    PROVE  \/ selectLeader(s) = Empty
           \/ selectLeader(s) \in Node /\ s.periodState.idToBlock[selectLeader(s)] # Nil
<1> DEFINE ps == proposers(s.periodState)
           rank(q) == Rank[<<q, s.round, s.period>>]
<1>1. CASE ps = {}
  BY <1>1 DEF selectLeader
<1>2. CASE ps # {}
  <2>1. ps \subseteq Node
    BY DEF proposers
  <2>2. \A q \in Node : rank(q) \in Nat
    BY ServerStateElim, SortitionAssumption, BoundAssumption DEF Slot, Rounds, Periods
  <2>3. PICK k \in {rank(q) : q \in ps} : \A j \in {rank(q) : q \in ps} : k <= j
    <3> DEFINE K == {rank(q) : q \in ps}
    <3>1. K \in SUBSET Nat /\ K # {}
      BY <1>2, <2>1, <2>2, Zenon
    <3> HIDE DEF K
    <3>2. \E k \in K : \A j \in K : k <= j
      BY <3>1 DEF Sizes
    <3> QED BY <3>2, Zenon DEF K
  <2>4. \E q \in ps : \A x \in ps : rank(q) <= rank(x)
    BY <2>3, Zenon
  <2>5. selectLeader(s) \in ps
    BY <1>2, <2>4, Zenon DEF selectLeader
  <2> QED BY <2>1, <2>5 DEF proposers
<1> QED BY <1>1, <1>2

=============================================================================
