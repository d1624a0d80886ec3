--------------------------------- MODULE Peer ---------------------------------
(***************************************************************************)
(* The local state of one peer (type ServerState, type PeriodState and the *)
(* locals of serve in server/serve.go) and the functions that read or      *)
(* change it without talking to anybody (server/util.go, handleHalt,       *)
(* handleNextPeriod, initPeriodState).                                     *)
(*                                                                         *)
(* Cryptography is abstracted to what the code tells apart:                *)
(*  - the hash of a block is the token <<proposer, round, period>> of the  *)
(*    tick that prepared it: a hash covers a nanosecond timestamp, and a   *)
(*    peer prepares at most one block per round and period;                *)
(*  - calculateNextQ signs with a random salt (RSA-PSS), so every proposal *)
(*    carries a fresh seed, again named <<proposer, round, period>>;       *)
(*  - Rank orders the signatures selectLeader compares, Elected says       *)
(*    whether a signature can pass isPotentialLeader.                      *)
(***************************************************************************)
EXTENDS Agreement, Sequences, Integers

CONSTANTS
    Node,       \* the user ids of the peers
    Nil,        \* Go's nil
    Tx,         \* transaction ids
    BlockSize,  \* BLOCK_SIZE: a pool of this size or more is not taken whole
    BlockTake,  \* how many transactions are taken from such a pool (1000)
    Rank,       \* Rank[p, r, d]: place of p's round-r, period-d signature in
                \* the order of signatures
    Elected,    \* Elected[p, r, d]: possible results of isPotentialLeader
    MaxRound,   \* bound: no peer starts a round beyond this one
    MaxPeriod   \* bound: no peer starts a period beyond this one

Rounds  == 1 .. MaxRound
Periods == 1 .. MaxPeriod
Slot    == Node \X Rounds \X Periods    \* who proposed, and when

ASSUME NodeAssumption == IsFiniteSet(Node) /\ Cardinality(Node) >= 4
ASSUME BoundAssumption ==
    /\ MaxRound \in Nat \ {0} /\ MaxPeriod \in Nat \ {0}
    /\ BlockSize \in Nat /\ BlockTake \in 0 .. BlockSize
ASSUME SortitionAssumption ==
    /\ Elected \in [Slot -> (SUBSET BOOLEAN) \ {{}}]
    /\ Rank \in [Slot -> Nat]
    /\ \A a, b \in Slot : Rank[a] = Rank[b] => a = b

Hash == Slot
Genesis == <<Empty, 0, 0>>              \* hash of the genesis block, first seed
Seed == Slot \cup {Genesis, Nil}
Value == Hash \cup {Bottom, Empty}      \* what a vote can be for
Tally == [Value -> Nat]
NoVotes == [v \in Value |-> 0]

Block == [id : Nat, hash : Hash \cup {Genesis}, prevHash : Hash \cup {Genesis, Empty},
          tx : SUBSET Tx]
ASSUME SentinelAssumption ==
    /\ {Bottom, Empty, Err, Nil} \cap (Node \cup Slot) = {}
    /\ Nil \notin {Bottom, Empty, Err} \cup Block

GenesisBlock == [id |-> 0, hash |-> Genesis, prevHash |-> Empty, tx |-> {}]
Chain == Seq(Block \cup {Nil})
Last(chain) == chain[Len(chain)]

Proposal == [peer : Node, round : Rounds, period : Periods, Q : Seed,
             lastHash : Hash \cup {Genesis}, block : Block, nextQ : Slot]

-----------------------------------------------------------------------------
(***************************************************************************)
(* The state of a period.  Missing keys of idToBlock and valueToQ are Nil; *)
(* sigLeaderToId has an entry for exactly the proposers in idToBlock, and  *)
(* valueToBlock one for exactly the blocks in it.                          *)
(***************************************************************************)
PeriodState ==
    [idToBlock : [Node -> Block \cup {Nil}], valueToQ : [Hash -> Seed],
     nextVotes : Tally, softVotes : Tally, certVotes : Tally,
     haveNextVotedStep4 : SUBSET Node, haveNextVotedStep5 : SUBSET Node,
     haveSoftVoted : SUBSET Node, haveCertVoted : SUBSET Node,
     myCertVote : Hash \cup {Empty}, leader : Node \cup {Empty},
     startingValue : Value]

initPeriodState(start) ==
    [idToBlock |-> [q \in Node |-> Nil], valueToQ |-> [v \in Hash |-> Nil],
     nextVotes |-> NoVotes, softVotes |-> NoVotes, certVotes |-> NoVotes,
     haveNextVotedStep4 |-> {}, haveNextVotedStep5 |-> {},
     haveSoftVoted |-> {}, haveCertVoted |-> {},
     myCertVote |-> Empty, leader |-> Empty, startingValue |-> start]

withPeriod(s, ps) == [s EXCEPT !.periodState = ps]

withBlocks(ps, blocks, seeds) == [ps EXCEPT !.idToBlock = blocks, !.valueToQ = seeds]

withLeader(s, q) == withPeriod(s, [s.periodState EXCEPT !.leader = q])

proposers(ps) == {q \in Node : ps.idToBlock[q] # Nil}

valueToBlock(ps, v) ==
    IF \E q \in proposers(ps) : ps.idToBlock[q].hash = v
    THEN ps.idToBlock[CHOOSE q \in proposers(ps) : ps.idToBlock[q].hash = v]
    ELSE Nil

(***************************************************************************)
(* committeeMember is a slice to which a proposer is appended each time a  *)
(* proposal of theirs is accepted; an entry is named by the slot of that   *)
(* proposal, so that the same id can be present more than once.  The order *)
(* of the slice is never used.                                             *)
(***************************************************************************)
ServerState ==
    [round : 1 .. MaxRound + 1, period : 1 .. MaxPeriod + 1, step : 1 .. 5,
     readyForNextRound : BOOLEAN, committeeMember : SUBSET Slot,
     isCommitteeMember : BOOLEAN, Q : Seed, transactionPool : SUBSET Tx,
     periodState : PeriodState, lastPeriodState : PeriodState,
     requiredVotes : Nat, proposalBuffer : SUBSET Proposal,
     agreementTimer : BOOLEAN]      \* is the agreement timer armed?

InitialState ==
    [round |-> 1, period |-> 1, step |-> 1,
     readyForNextRound |-> TRUE, committeeMember |-> {},
     isCommitteeMember |-> FALSE, Q |-> Genesis, transactionPool |-> {},
     periodState |-> initPeriodState(Bottom), lastPeriodState |-> initPeriodState(Empty),
     requiredVotes |-> 0, proposalBuffer |-> {}, agreementTimer |-> TRUE]

members(s) == {e[1] : e \in s.committeeMember}

RequiredVotes(n) == 2 * (n \div 3) + 1      \* n counts the peer itself

-----------------------------------------------------------------------------
\* Faulty variant of selectLeader: a peer with a proposal of its own leads itself.
selectLeaderOwn(s) ==
    LET own == proposers(s.periodState) \ members(s)
        ps == IF own # {} THEN own ELSE proposers(s.periodState)
        rank(q) == Rank[<<q, s.round, s.period>>]
    IN IF ps = {} THEN Empty
       ELSE CHOOSE q \in ps : \A x \in ps : rank(q) <= rank(x)

\* The proposer with the least signature, Empty when there is no proposal.
selectLeader(s) ==
    LET ps == proposers(s.periodState)
        rank(q) == Rank[<<q, s.round, s.period>>]
    IN IF ps = {} THEN Empty
       ELSE CHOOSE q \in ps : \A x \in ps : rank(q) <= rank(x)

\* Signatures and block hashes made by peers are always right, so what is left
\* to compare is whether both sides are at the same place of the same chain.
verifyProposal(s, chain, m) ==
    /\ m.round = s.round /\ m.period = s.period
    /\ m.Q = s.Q /\ m.lastHash = Last(chain).hash

verifyTransaction(s, m) == m.block.tx \subseteq s.transactionPool

accepts(s, chain, m) ==
    /\ s.periodState.idToBlock[m.peer] = Nil
    /\ verifyProposal(s, chain, m)
    /\ verifyTransaction(s, m)

blocksOf(old, A) ==
    [q \in Node |-> IF \E m \in A : m.peer = q
                    THEN (CHOOSE m \in A : m.peer = q).block ELSE old[q]]

seedsOf(old, lastWriter) ==
    [v \in Hash |-> IF v \in DOMAIN lastWriter THEN lastWriter[v].nextQ ELSE old[v]]

(***************************************************************************)
(* executeProposal for every proposal of the set A of accepted ones.  When *)
(* several carry the same block, the seed stored for it is that of the one *)
(* executed last; lastWriter says which (see LastWriters).                 *)
(***************************************************************************)
executeProposal(s, A, lastWriter) ==
    withPeriod([s EXCEPT !.committeeMember =
                              @ \cup {<<m.peer, s.round, s.period>> : m \in A}],
               withBlocks(s.periodState, blocksOf(s.periodState.idToBlock, A),
                          seedsOf(s.periodState.valueToQ, lastWriter)))

LastWriters(A) ==
    {w \in [{m.block.hash : m \in A} -> A] : \A v \in DOMAIN w : w[v].block.hash = v}

-----------------------------------------------------------------------------
\* What prepareBlock leaves in the pool, and the blocks it may return.
prunedPool(s, chain) == s.transactionPool \ Last(chain).tx

pickTransactions(pool) ==
    IF Cardinality(pool) < BlockSize THEN {pool}
    ELSE {t \in SUBSET pool : Cardinality(t) = BlockTake}

prepareBlock(p, s, chain) ==
    {[id |-> Last(chain).id + 1, hash |-> <<p, s.round, s.period>>,
      prevHash |-> Last(chain).hash, tx |-> t] :
        t \in pickTransactions(prunedPool(s, chain))}

\* The peer's own proposal (the part of the round timer after isPotentialLeader).
ownProposal(s, p, chain, b) ==
    [peer |-> p, round |-> s.round, period |-> s.period, Q |-> s.Q,
     lastHash |-> Last(chain).hash, block |-> b,
     nextQ |-> <<p, s.round, s.period>>]

\* Faulty variants of becomeMember: the own block, or its seed, is not stored.
becomeMemberNoBlock(s, p, m) ==
    withPeriod([s EXCEPT !.isCommitteeMember = TRUE],
               [s.periodState EXCEPT !.valueToQ[m.block.hash] = m.nextQ])

becomeMemberNoSeed(s, p, m) ==
    withPeriod([s EXCEPT !.isCommitteeMember = TRUE],
               [s.periodState EXCEPT !.idToBlock[p] = m.block])

becomeMember(s, p, m) ==
    withPeriod([s EXCEPT !.isCommitteeMember = TRUE],
               withBlocks(s.periodState, [s.periodState.idToBlock EXCEPT ![p] = m.block],
                          [s.periodState.valueToQ EXCEPT ![m.block.hash] = m.nextQ]))

\* Faulty variant of startRound: prepareBlock prunes a copy of the pool.
startRoundKeepsPool(s, pool) ==
    [s EXCEPT !.readyForNextRound = FALSE, !.proposalBuffer = {}, !.agreementTimer = TRUE]

\* Leaving the state "ready": the kept proposals are used up, the timer armed.
startRound(s, pool) ==
    [s EXCEPT !.readyForNextRound = FALSE, !.proposalBuffer = {},
              !.agreementTimer = TRUE, !.transactionPool = pool]

-----------------------------------------------------------------------------
\* Counting a vote of peer q for v, the peer's own or a received one.
AddVote(votes, v) == [votes EXCEPT ![v] = @ + 1]

countSoft(s, q, v) ==
    withPeriod(s, [s.periodState EXCEPT !.softVotes = AddVote(@, v),
                                        !.haveSoftVoted = @ \cup {q}])

countCert(s, q, v) ==
    withPeriod(s, [s.periodState EXCEPT !.certVotes = AddVote(@, v),
                                        !.haveCertVoted = @ \cup {q}])

\* The peer's own cert-vote is remembered as well.
certify(s, p, v) ==
    withPeriod(countCert(s, p, v), [countCert(s, p, v).periodState EXCEPT !.myCertVote = v])

\* A next-vote is marked by the step it was cast in: 4, or else 5.
countNext(s, q, v, step) ==
    withPeriod(s, [s.periodState EXCEPT
                      !.nextVotes = AddVote(@, v),
                      !.haveNextVotedStep4 = @ \cup (IF step = 4 THEN {q} ELSE {}),
                      !.haveNextVotedStep5 = @ \cup (IF step = 4 THEN {} ELSE {q})])

\* Faulty variants of handleHalt: the period's state is kept; the step starts
\* at 0; the round stays the same.
handleHaltKeepsPeriod(s, v) ==
    [s EXCEPT !.Q = IF v \in Hash THEN s.periodState.valueToQ[v] ELSE Nil,
              !.readyForNextRound = TRUE,
              !.round = @ + 1, !.period = 1, !.step = 1,
              !.lastPeriodState = initPeriodState(Empty),
              !.committeeMember = {}, !.isCommitteeMember = FALSE]

handleHaltStepZero(s, v) ==
    [s EXCEPT !.Q = IF v \in Hash THEN s.periodState.valueToQ[v] ELSE Nil,
              !.readyForNextRound = TRUE,
              !.round = @ + 1, !.period = 1, !.step = 0,
              !.lastPeriodState = initPeriodState(Empty),
              !.periodState = initPeriodState(Bottom),
              !.committeeMember = {}, !.isCommitteeMember = FALSE]

handleHaltKeepsRound(s, v) ==
    [s EXCEPT !.Q = IF v \in Hash THEN s.periodState.valueToQ[v] ELSE Nil,
              !.readyForNextRound = TRUE, !.period = 1, !.step = 1,
              !.lastPeriodState = initPeriodState(Empty),
              !.periodState = initPeriodState(Bottom),
              !.committeeMember = {}, !.isCommitteeMember = FALSE]

\* The next round: one block further, everything about the old round dropped.
handleHalt(s, v) ==
    [s EXCEPT !.Q = IF v \in Hash THEN s.periodState.valueToQ[v] ELSE Nil,
              !.readyForNextRound = TRUE,
              !.round = @ + 1, !.period = 1, !.step = 1,
              !.lastPeriodState = initPeriodState(Empty),
              !.periodState = initPeriodState(Bottom),
              !.committeeMember = {}, !.isCommitteeMember = FALSE]

\* Faulty variant of handleNextPeriod: the finished period is forgotten.
handleNextPeriodForgets(s, v) ==
    [s EXCEPT !.period = @ + 1, !.step = 1,
              !.periodState = initPeriodState(IF v # Bottom THEN v ELSE Empty),
              !.readyForNextRound = TRUE]

\* The next period: the committee, and the peer's place in it, stay.
handleNextPeriod(s, v) ==
    [s EXCEPT !.period = @ + 1, !.step = 1,
              !.lastPeriodState = s.periodState,
              !.periodState = initPeriodState(IF v # Bottom THEN v ELSE Empty),
              !.readyForNextRound = TRUE]

\* Faulty variants of adoptChain: what the peer knows of the old round stays;
\* the round is that of the last block, not the one after it.
adoptChainKeepsPeriod(s, chain, Q) ==
    [s EXCEPT !.readyForNextRound = TRUE,
              !.round = Len(chain), !.period = 1, !.step = 1, !.Q = Q,
              !.lastPeriodState = initPeriodState(Empty)]

adoptChainOneBack(s, chain, Q) ==
    [s EXCEPT !.readyForNextRound = TRUE,
              !.round = Len(chain) - 1, !.period = 1, !.step = 1, !.Q = Q,
              !.lastPeriodState = initPeriodState(Empty),
              !.periodState = initPeriodState(Bottom)]

\* Taking over a longer chain (the RequestBlockChain response).
adoptChain(s, chain, Q) ==
    [s EXCEPT !.readyForNextRound = TRUE,
              !.round = Len(chain), !.period = 1, !.step = 1, !.Q = Q,
              !.lastPeriodState = initPeriodState(Empty),
              !.periodState = initPeriodState(Bottom)]

=============================================================================
