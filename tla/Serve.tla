-------------------------------- MODULE Serve --------------------------------
(***************************************************************************)
(* The service loop of every peer (func serve of server/serve.go) and the  *)
(* RPCs between them.                                                      *)
(*                                                                         *)
(* One goroutine per peer runs the loop and owns the peer's state, so each *)
(* case of its select is one atomic action here.  RPCs are made by other   *)
(* goroutines: a call is in flight until the callee's loop handles it, and *)
(* is handled, answered and retried in any order with all the others.  A   *)
(* call that was refused, or that ended in a transport error, is "failed"  *)
(* until the caller's loop takes the response and decides whether to retry.*)
(* All peers are goroutines of one process: a panic ends all of them.      *)
(***************************************************************************)
EXTENDS Peer

CONSTANTS
    MaxStep,    \* bound: no peer is taken beyond this step of a period (5: none)
    MaxErrors   \* bound: number of RPCs that end in a transport error

ASSUME ServeAssumption == MaxStep \in 1 .. 5 /\ MaxErrors \in Nat

VARIABLES
    state,          \* state[p]: ServerState and the locals of p's serve
    blockchain,     \* blockchain[p]: bcs.blockchain of p
    proposeCalls,   \* ProposeBlock calls
    voteCalls,      \* Vote calls
    noticeCalls,    \* NoticeFinalBlockValue calls
    chainRequests,  \* RequestBlockChain calls not handled yet
    chainReplies,   \* their results on the way back
    txCalls,        \* AppendTransaction calls
    unsent,         \* transactions the client has still to send
    errors,         \* transport errors so far
    panicked,       \* has a goroutine panicked?
    signed          \* history: every vote signed, with the signer's requiredVotes

vars == <<state, blockchain, proposeCalls, voteCalls, noticeCalls, chainRequests,
          chainReplies, txCalls, unsent, errors, panicked, signed>>
calls == <<proposeCalls, voteCalls, noticeCalls, chainRequests, chainReplies, txCalls>>

Vote == [peer : Node, value : Value, round : Rounds, period : Periods,
         voteType : {"soft", "cert", "next"}, step : 2 .. 5]
SignedVote == [vote : Vote, required : Nat]
ProposeCall == [to : Node, failed : BOOLEAN, arg : Proposal]
VoteCall    == [entry : Slot, failed : BOOLEAN, arg : Vote]    \* entry: of committeeMember
NoticeCall  == [to : Node, failed : BOOLEAN, arg : [peer : Node, value : Value]]

\* The types of the structs and maps; what the bounds of the model promise.
TypeOK ==
    /\ state \in [Node -> ServerState]
    /\ blockchain \in [Node -> Chain]
    /\ proposeCalls \subseteq ProposeCall
    /\ voteCalls \subseteq VoteCall
    /\ noticeCalls \subseteq NoticeCall
    /\ chainRequests \subseteq [from : Node, to : Node]
    /\ chainReplies \subseteq [to : Node, blockchain : Chain, Q : Seed]
    /\ txCalls \subseteq [to : Node, tx : Tx]
    /\ unsent \subseteq Tx
    /\ errors \in 0 .. MaxErrors
    /\ panicked \in BOOLEAN
    /\ signed \subseteq SignedVote

Init ==
    /\ state = [p \in Node |-> InitialState]
    /\ blockchain = [p \in Node |-> <<GenesisBlock>>]
    /\ proposeCalls = {} /\ voteCalls = {} /\ noticeCalls = {}
    /\ chainRequests = {} /\ chainReplies = {} /\ txCalls = {}
    /\ unsent = Tx
    /\ errors = 0
    /\ panicked = FALSE
    /\ signed = {}

-----------------------------------------------------------------------------
\* A nil dereference, or panic("no bug, no here").
Panic == panicked' = TRUE /\ UNCHANGED <<state, blockchain, calls, unsent, errors, signed>>

Failed(c) == [c EXCEPT !.failed = TRUE]

(***************************************************************************)
(* What becomes of call c of the set cs once its handler is done with it.  *)
(* A handler that accepts, and one that never answers, leaves nothing for  *)
(* the caller to do; one that refuses makes the call fail; and any call    *)
(* that was handled may still end in a transport error.                    *)
(***************************************************************************)
Handled(cs, c, refused) ==
    LET done == cs \ {c}
        failed == done \cup {Failed(c)}
    IN {[calls |-> IF refused THEN failed ELSE done, errors |-> errors]}
       \cup {[calls |-> failed, errors |-> n] : n \in {errors + 1} \cap 1 .. MaxErrors}

\* The caller, in state s, has the response to failed call c: it calls again
\* if it still is in the round and period of the call.
Responded(cs, c, s) ==
    IF c.arg.round = s.round /\ c.arg.period = s.period
    THEN (cs \ {c}) \cup {[c EXCEPT !.failed = FALSE]}
    ELSE cs \ {c}

\* Faulty variant of SendVote: signed for the round that the vote may lead to.
SendVoteNextRound(p, s, v, type, step) ==
    LET a == [peer |-> p, value |-> v, round |-> s.round + 1, period |-> s.period,
              voteType |-> type, step |-> step]
    IN /\ signed' = signed \cup {[vote |-> a, required |-> s.requiredVotes]}
       /\ voteCalls' = voteCalls \cup
             {[entry |-> e, failed |-> FALSE, arg |-> a] : e \in s.committeeMember}

\* Vote v of the given type for the period s is in: signed once, sent to every
\* entry of the committee.
SendVote(p, s, v, type, step) ==
    LET a == [peer |-> p, value |-> v, round |-> s.round, period |-> s.period,
              voteType |-> type, step |-> step]
    IN /\ signed' = signed \cup {[vote |-> a, required |-> s.requiredVotes]}
       /\ voteCalls' = voteCalls \cup
             {[entry |-> e, failed |-> FALSE, arg |-> a] : e \in s.committeeMember}

SendNoVote == UNCHANGED <<signed, voteCalls>>

\* Faulty variant of Notices: the condition on membership is the wrong way round.
NoticesToMembers(p, s, v) ==
    {[to |-> i, failed |-> FALSE, arg |-> [peer |-> p, value |-> v]] :
        i \in {j \in members(s) \ {p} : s.periodState.leader = p}}

\* The leader tells the peers that it does not know to be on the committee.
Notices(p, s, v) ==
    {[to |-> i, failed |-> FALSE, arg |-> [peer |-> p, value |-> v]] :
        i \in {j \in Node \ (members(s) \cup {p}) : s.periodState.leader = p}}

\* Halt if some value has enough cert-votes in s, the state p is about to have.
HaltOrNot(p, s) ==
    \E v \in checkHaltingCondition(s.periodState.certVotes, s.requiredVotes) :
        \/ /\ v = Empty
           /\ state' = [state EXCEPT ![p] = s]
           /\ UNCHANGED <<blockchain, noticeCalls>>
        \/ /\ v # Empty
           /\ state' = [state EXCEPT ![p] = handleHalt(s, v)]
           /\ blockchain' = [blockchain EXCEPT ![p] =
                                Append(@, valueToBlock(s.periodState, v))]
           /\ noticeCalls' = noticeCalls \cup Notices(p, s, v)

\* Go to the next period if some value has enough next-votes in s.
NextPeriodOrNot(p, s) ==
    \E v \in checkNextPeridCondition(s.periodState.nextVotes, s.requiredVotes) :
        state' = [state EXCEPT ![p] = IF v = Empty THEN s ELSE handleNextPeriod(s, v)]

-----------------------------------------------------------------------------
(***************************************************************************)
(* case <-roundTimer.C.  The proposals kept back for this round and period *)
(* are executed, the peer prepares its own block (or takes the one the     *)
(* last period settled on), and proposes it if its signature is elected.   *)
(* When the peer is not ready the tick does nothing.                       *)
(***************************************************************************)
RoundTimer(p) ==
    LET s == state[p]
        chain == blockchain[p]
        A == {m \in s.proposalBuffer : accepts(s, chain, m)}
    IN /\ s.readyForNextRound
       /\ s.round <= MaxRound /\ s.period <= MaxPeriod
       /\ \E v \in runStep1(s.period, s.lastPeriodState.nextVotes, s.requiredVotes) :
             LET old == IF v \in Hash THEN valueToBlock(s.lastPeriodState, v) ELSE Nil
             IN \/ /\ Last(chain) = Nil \/ (v # Empty /\ old = Nil)
                   /\ Panic
                \/ /\ Last(chain) # Nil /\ (v = Empty \/ old # Nil)
                   /\ \E w \in LastWriters(A), elected \in Elected[<<p, s.round, s.period>>],
                         b \in IF v = Empty THEN prepareBlock(p, s, chain) ELSE {old} :
                        LET s1 == startRound(executeProposal(s, A, w),
                                             IF v = Empty THEN prunedPool(s, chain)
                                             ELSE s.transactionPool)
                            m == ownProposal(s, p, chain, b)
                        IN /\ state' = [state EXCEPT ![p] =
                                            IF elected THEN becomeMember(s1, p, m) ELSE s1]
                           /\ proposeCalls' = proposeCalls \cup
                                 {[to |-> q, failed |-> FALSE, arg |-> m] :
                                     q \in {x \in Node \ {p} : elected}}
                   /\ UNCHANGED <<blockchain, voteCalls, noticeCalls, chainRequests, chainReplies,
                                  txCalls, unsent, errors, panicked, signed>>

-----------------------------------------------------------------------------
(***************************************************************************)
(* case <-agreementTimer.C.  The first two cases return without re-arming  *)
(* the timer.  A tick of a member that has already cast its step 5 vote    *)
(* changes nothing; no other vote can have been cast when its step comes.  *)
(***************************************************************************)
AgreementTimerIdle(p) ==
    /\ state[p].agreementTimer /\ state[p].readyForNextRound
    /\ state' = [state EXCEPT ![p].agreementTimer = FALSE]
    /\ UNCHANGED <<blockchain, calls, unsent, errors, panicked, signed>>

AgreementTimerNonMember(p) ==
    /\ state[p].agreementTimer /\ ~state[p].readyForNextRound /\ ~state[p].isCommitteeMember
    /\ state' = [state EXCEPT ![p] = [withLeader(@, selectLeader(@)) EXCEPT !.agreementTimer = FALSE]]
    /\ UNCHANGED <<blockchain, calls, unsent, errors, panicked, signed>>

AtStep(p, step) ==
    /\ state[p].agreementTimer /\ ~state[p].readyForNextRound /\ state[p].isCommitteeMember
    /\ state[p].step \in {step - 1, step} /\ (state[p].step = step => step = 5)
    /\ step <= MaxStep

Step2(p) ==
    LET s == [state[p] EXCEPT !.step = 2,
                 !.requiredVotes = RequiredVotes(Cardinality(state[p].committeeMember) + 1)]
        leader == selectLeader(s)
        leaderValue == IF leader = Empty THEN Nil ELSE s.periodState.idToBlock[leader].hash
    IN /\ AtStep(p, 2) /\ p \notin s.periodState.haveSoftVoted
       /\ \E r \in runStep2(s.period, s.lastPeriodState.nextVotes, s.requiredVotes, leaderValue) :
             \/ r.value = Nil /\ Panic
             \/ /\ r.value # Nil
                /\ LET s1 == IF r.led THEN withLeader(s, leader) ELSE s
                   IN IF r.value = Empty
                      THEN state' = [state EXCEPT ![p] = s1] /\ SendNoVote
                      ELSE /\ state' = [state EXCEPT ![p] = countSoft(s1, p, r.value)]
                           /\ SendVote(p, s, r.value, "soft", 2)
                /\ UNCHANGED <<blockchain, proposeCalls, noticeCalls, chainRequests,
                               chainReplies, txCalls, unsent, errors, panicked>>

Step3(p) ==
    LET s == [state[p] EXCEPT !.step = 3]
    IN /\ AtStep(p, 3) /\ p \notin s.periodState.haveCertVoted
       /\ \E v \in runStep3(s.periodState.softVotes, s.requiredVotes) :
             IF v = Empty THEN HaltOrNot(p, s) /\ SendNoVote
             ELSE /\ HaltOrNot(p, certify(s, p, v))
                  /\ SendVote(p, s, v, "cert", 3)
       /\ UNCHANGED <<proposeCalls, chainRequests, chainReplies, txCalls, unsent,
                      errors, panicked>>

Step4(p) ==
    LET s == [state[p] EXCEPT !.step = 4]
    IN /\ AtStep(p, 4) /\ p \notin s.periodState.haveNextVotedStep4
       /\ \E v \in runStep4(s.period, s.periodState.myCertVote, s.periodState.startingValue,
                            s.lastPeriodState.nextVotes, s.requiredVotes) :
             /\ NextPeriodOrNot(p, countNext(s, p, v, 4))
             /\ SendVote(p, s, v, "next", 4)
       /\ UNCHANGED <<blockchain, proposeCalls, noticeCalls, chainRequests, chainReplies,
                      txCalls, unsent, errors, panicked>>

Step5(p) ==
    LET s == [state[p] EXCEPT !.step = 5]
    IN /\ AtStep(p, 5) /\ p \notin s.periodState.haveNextVotedStep5
       /\ \E v \in runStep5(s.period, s.periodState.softVotes, s.periodState.myCertVote,
                            s.lastPeriodState.nextVotes, s.requiredVotes) :
             IF v = Empty THEN NextPeriodOrNot(p, s) /\ SendNoVote
             ELSE /\ NextPeriodOrNot(p, countNext(s, p, v, 5))
                  /\ SendVote(p, s, v, "next", 5)
       /\ UNCHANGED <<blockchain, proposeCalls, noticeCalls, chainRequests, chainReplies,
                      txCalls, unsent, errors, panicked>>

-----------------------------------------------------------------------------
(***************************************************************************)
(* case pbc := <-algorand.ProposeBlockChan and its response.               *)
(***************************************************************************)
\* The peer is far behind: ask a random peer for its chain, refuse the proposal.
ReceiveProposalAhead(p, c) ==
    /\ c.to = p /\ ~c.failed
    /\ c.arg.round > state[p].round + 1
    /\ \E k \in Node \ {p} : chainRequests' = chainRequests \cup {[from |-> p, to |-> k]}
    /\ \E h \in Handled(proposeCalls, c, TRUE) : proposeCalls' = h.calls /\ errors' = h.errors
    /\ UNCHANGED <<state, blockchain, voteCalls, noticeCalls, chainReplies, txCalls, unsent,
                   panicked, signed>>

\* For the next round or the next period: kept until the round timer.
ReceiveProposalEarly(p, c) ==
    /\ c.to = p /\ ~c.failed
    /\ c.arg.round <= state[p].round + 1
    /\ c.arg.round = state[p].round + 1 \/ c.arg.period = state[p].period + 1
    /\ state' = [state EXCEPT ![p].proposalBuffer = @ \cup {c.arg}]
    /\ \E h \in Handled(proposeCalls, c, FALSE) : proposeCalls' = h.calls /\ errors' = h.errors
    /\ UNCHANGED <<blockchain, voteCalls, noticeCalls, chainRequests, chainReplies, txCalls,
                   unsent, panicked, signed>>

\* Anything else is executed now, and acknowledged even when it is denied.
ReceiveProposal(p, c) ==
    LET s == state[p]
        A == {m \in {c.arg} : accepts(s, blockchain[p], m)}
    IN /\ c.to = p /\ ~c.failed
       /\ c.arg.round <= s.round /\ c.arg.period # s.period + 1
       /\ \/ /\ Last(blockchain[p]) = Nil /\ s.periodState.idToBlock[c.arg.peer] = Nil
             /\ Panic
          \/ /\ Last(blockchain[p]) # Nil \/ s.periodState.idToBlock[c.arg.peer] # Nil
             /\ \E w \in LastWriters(A) : state' = [state EXCEPT ![p] = executeProposal(s, A, w)]
             /\ \E h \in Handled(proposeCalls, c, FALSE) :
                   proposeCalls' = h.calls /\ errors' = h.errors
             /\ UNCHANGED <<blockchain, voteCalls, noticeCalls, chainRequests, chainReplies,
                            txCalls, unsent, panicked, signed>>

ProposeResponse(p, c) ==
    /\ c.arg.peer = p /\ c.failed
    /\ proposeCalls' = Responded(proposeCalls, c, state[p])
    /\ UNCHANGED <<state, blockchain, voteCalls, noticeCalls, chainRequests, chainReplies,
                   txCalls, unsent, errors, panicked, signed>>

-----------------------------------------------------------------------------
(***************************************************************************)
(* case vc := <-algorand.VoteChan and its response.                        *)
(***************************************************************************)
\* The peer is behind: ask a random peer for its chain, refuse the vote.
ReceiveVoteAhead(p, c) ==
    /\ c.entry[1] = p /\ ~c.failed
    /\ c.arg.round > state[p].round
    /\ \E k \in Node \ {p} : chainRequests' = chainRequests \cup {[from |-> p, to |-> k]}
    /\ \E h \in Handled(voteCalls, c, TRUE) : voteCalls' = h.calls /\ errors' = h.errors
    /\ UNCHANGED <<state, blockchain, proposeCalls, noticeCalls, chainReplies, txCalls, unsent,
                   panicked, signed>>

\* verifyVote: the place of the vote, and that the voter signed it.
verifyVote(s, a) ==
    /\ a.round = s.round /\ a.period = s.period
    /\ \E x \in signed : x.vote = a

\* A vote that does not verify is never answered: the caller waits for ever.
ReceiveVoteInvalid(p, c) ==
    /\ c.entry[1] = p /\ ~c.failed
    /\ c.arg.round <= state[p].round /\ ~verifyVote(state[p], c.arg)
    /\ \E h \in Handled(voteCalls, c, FALSE) : voteCalls' = h.calls /\ errors' = h.errors
    /\ UNCHANGED <<state, blockchain, proposeCalls, noticeCalls, chainRequests, chainReplies,
                   txCalls, unsent, panicked, signed>>

\* Faulty variant of Known: a second soft-vote of the same voter is counted.
KnownButSoft(s, a) ==
    CASE a.voteType = "soft" -> FALSE
      [] a.voteType = "cert" -> a.peer \in s.periodState.haveCertVoted
      [] a.voteType = "next" -> /\ a.peer \in s.periodState.haveNextVotedStep4
                                /\ a.peer \in s.periodState.haveNextVotedStep5

\* Has the peer already counted such a vote of this voter?
Known(s, a) ==
    CASE a.voteType = "soft" -> a.peer \in s.periodState.haveSoftVoted
      [] a.voteType = "cert" -> a.peer \in s.periodState.haveCertVoted
      [] a.voteType = "next" -> /\ a.peer \in s.periodState.haveNextVotedStep4
                                /\ a.peer \in s.periodState.haveNextVotedStep5

ReceiveVoteKnown(p, c) ==
    /\ c.entry[1] = p /\ ~c.failed
    /\ verifyVote(state[p], c.arg) /\ Known(state[p], c.arg)
    /\ \E h \in Handled(voteCalls, c, TRUE) : voteCalls' = h.calls /\ errors' = h.errors
    /\ UNCHANGED <<state, blockchain, proposeCalls, noticeCalls, chainRequests, chainReplies,
                   txCalls, unsent, panicked, signed>>

\* A vote that counts.
ReceiveSoftVote(p, c) ==
    /\ c.entry[1] = p /\ ~c.failed /\ c.arg.voteType = "soft"
    /\ verifyVote(state[p], c.arg) /\ ~Known(state[p], c.arg)
    /\ state' = [state EXCEPT ![p] = countSoft(@, c.arg.peer, c.arg.value)]
    /\ \E h \in Handled(voteCalls, c, FALSE) : voteCalls' = h.calls /\ errors' = h.errors
    /\ UNCHANGED <<blockchain, proposeCalls, noticeCalls, chainRequests, chainReplies,
                   txCalls, unsent, panicked, signed>>

ReceiveCertVote(p, c) ==
    /\ c.entry[1] = p /\ ~c.failed /\ c.arg.voteType = "cert"
    /\ verifyVote(state[p], c.arg) /\ ~Known(state[p], c.arg)
    /\ HaltOrNot(p, countCert(state[p], c.arg.peer, c.arg.value))
    /\ \E h \in Handled(voteCalls, c, FALSE) : voteCalls' = h.calls /\ errors' = h.errors
    /\ UNCHANGED <<proposeCalls, chainRequests, chainReplies, txCalls, unsent, panicked, signed>>

ReceiveNextVote(p, c) ==
    /\ c.entry[1] = p /\ ~c.failed /\ c.arg.voteType = "next"
    /\ verifyVote(state[p], c.arg) /\ ~Known(state[p], c.arg)
    /\ NextPeriodOrNot(p, countNext(state[p], c.arg.peer, c.arg.value, c.arg.step))
    /\ \E h \in Handled(voteCalls, c, FALSE) : voteCalls' = h.calls /\ errors' = h.errors
    /\ UNCHANGED <<blockchain, proposeCalls, noticeCalls, chainRequests, chainReplies,
                   txCalls, unsent, panicked, signed>>

VoteResponse(p, c) ==
    /\ c.arg.peer = p /\ c.failed
    /\ voteCalls' = Responded(voteCalls, c, state[p])
    /\ UNCHANGED <<state, blockchain, proposeCalls, noticeCalls, chainRequests, chainReplies,
                   txCalls, unsent, errors, panicked, signed>>

-----------------------------------------------------------------------------
(***************************************************************************)
(* case nfbv := <-algorand.NoticeFinalBlockValueChan and its response.     *)
(***************************************************************************)
\* A notice from anyone but the leader is never answered.
ReceiveNotice(p, c) ==
    LET s == state[p]
    IN /\ c.to = p /\ ~c.failed
       /\ IF c.arg.peer # s.periodState.leader THEN UNCHANGED <<state, blockchain>>
          ELSE /\ state' = [state EXCEPT ![p] = handleHalt(s, c.arg.value)]
               /\ blockchain' = [blockchain EXCEPT ![p] =
                                    Append(@, valueToBlock(s.periodState, c.arg.value))]
       /\ \E h \in Handled(noticeCalls, c, FALSE) : noticeCalls' = h.calls /\ errors' = h.errors
       /\ UNCHANGED <<proposeCalls, voteCalls, chainRequests, chainReplies, txCalls, unsent,
                      panicked, signed>>

\* The retry looks up the peer's own id in peerClients, which has no such key,
\* and calls a method of the nil it gets.
NoticeResponse(p, c) == c.arg.peer = p /\ c.failed /\ Panic

-----------------------------------------------------------------------------
(***************************************************************************)
(* case bcc := <-algorand.RequestBlockChainChan and its response.  A chain *)
(* with a nil block cannot be marshalled: the caller gets an error, which  *)
(* it ignores.                                                             *)
(***************************************************************************)
ReceiveChainRequest(p, c) ==
    /\ c.to = p
    /\ chainRequests' = chainRequests \ {c}
    /\ chainReplies' = chainReplies \cup
          {[to |-> c.from, blockchain |-> ch, Q |-> state[p].Q] :
              ch \in {x \in {blockchain[p]} : \A i \in DOMAIN x : x[i] # Nil}}
    /\ UNCHANGED <<state, blockchain, proposeCalls, voteCalls, noticeCalls, txCalls, unsent,
                   errors, panicked, signed>>

\* Faulty variant of ReceiveChain: the length of the chain is not compared.
ReceiveChainAnyLength(p, c) ==
    /\ c.to = p
    /\ chainReplies' = chainReplies \ {c}
    /\ state' = [state EXCEPT ![p] = adoptChain(@, c.blockchain, c.Q)]
    /\ blockchain' = [blockchain EXCEPT ![p] = c.blockchain]
    /\ UNCHANGED <<proposeCalls, voteCalls, noticeCalls, chainRequests, txCalls, unsent,
                   errors, panicked, signed>>

ReceiveChain(p, c) ==
    /\ c.to = p
    /\ chainReplies' = chainReplies \ {c}
    /\ IF Len(c.blockchain) > Len(blockchain[p])
       THEN /\ state' = [state EXCEPT ![p] = adoptChain(@, c.blockchain, c.Q)]
            /\ blockchain' = [blockchain EXCEPT ![p] = c.blockchain]
       ELSE UNCHANGED <<state, blockchain>>
    /\ UNCHANGED <<proposeCalls, voteCalls, noticeCalls, chainRequests, txCalls, unsent,
                   errors, panicked, signed>>

-----------------------------------------------------------------------------
(***************************************************************************)
(* case op := <-bcs.C (a client's Send) and AppendTransactionChan.         *)
(***************************************************************************)
ClientSend(p, t) ==
    /\ t \in unsent
    /\ unsent' = unsent \ {t}
    /\ state' = [state EXCEPT ![p].transactionPool = @ \cup {t}]
    /\ txCalls' = txCalls \cup {[to |-> q, tx |-> t] : q \in Node \ {p}}
    /\ UNCHANGED <<blockchain, proposeCalls, voteCalls, noticeCalls, chainRequests,
                   chainReplies, errors, panicked, signed>>

AppendTransaction(p, c) ==
    /\ c.to = p
    /\ txCalls' = txCalls \ {c}
    /\ state' = [state EXCEPT ![p].transactionPool = @ \cup {c.tx}]
    /\ UNCHANGED <<blockchain, proposeCalls, voteCalls, noticeCalls, chainRequests,
                   chainReplies, unsent, errors, panicked, signed>>

-----------------------------------------------------------------------------
(***************************************************************************)
(* The transport: a call that ends in an error without being handled.      *)
(* Nobody retries AppendTransaction or RequestBlockChain.                  *)
(***************************************************************************)
TransportError ==
    /\ errors < MaxErrors
    /\ errors' = errors + 1
    /\ \/ /\ \E c \in proposeCalls : ~c.failed /\ proposeCalls' = (proposeCalls \ {c}) \cup {Failed(c)}
          /\ UNCHANGED <<voteCalls, noticeCalls, chainRequests, chainReplies, txCalls>>
       \/ /\ \E c \in voteCalls : ~c.failed /\ voteCalls' = (voteCalls \ {c}) \cup {Failed(c)}
          /\ UNCHANGED <<proposeCalls, noticeCalls, chainRequests, chainReplies, txCalls>>
       \/ /\ \E c \in noticeCalls : ~c.failed /\ noticeCalls' = (noticeCalls \ {c}) \cup {Failed(c)}
          /\ UNCHANGED <<proposeCalls, voteCalls, chainRequests, chainReplies, txCalls>>
       \/ /\ \E c \in chainRequests : chainRequests' = chainRequests \ {c}
          /\ UNCHANGED <<proposeCalls, voteCalls, noticeCalls, chainReplies, txCalls>>
       \/ /\ \E c \in chainReplies : chainReplies' = chainReplies \ {c}
          /\ UNCHANGED <<proposeCalls, voteCalls, noticeCalls, chainRequests, txCalls>>
       \/ /\ \E c \in txCalls : txCalls' = txCalls \ {c}
          /\ UNCHANGED <<proposeCalls, voteCalls, noticeCalls, chainRequests, chainReplies>>
    /\ UNCHANGED <<state, blockchain, unsent, panicked, signed>>

Tick(p) ==
    \/ RoundTimer(p) \/ AgreementTimerIdle(p) \/ AgreementTimerNonMember(p)
    \/ Step2(p) \/ Step3(p) \/ Step4(p) \/ Step5(p)

Deliver(p) ==
    \/ \E c \in proposeCalls : \/ ReceiveProposalAhead(p, c) \/ ReceiveProposalEarly(p, c)
                               \/ ReceiveProposal(p, c) \/ ProposeResponse(p, c)
    \/ \E c \in voteCalls : \/ ReceiveVoteAhead(p, c) \/ ReceiveVoteInvalid(p, c)
                            \/ ReceiveSoftVote(p, c) \/ ReceiveCertVote(p, c)
                            \/ ReceiveNextVote(p, c) \/ VoteResponse(p, c)
    \/ \E c \in noticeCalls : ReceiveNotice(p, c) \/ NoticeResponse(p, c)
    \/ \E c \in chainRequests : ReceiveChainRequest(p, c)
    \/ \E c \in chainReplies : ReceiveChain(p, c)
    \/ \E c \in txCalls : AppendTransaction(p, c)

\* A vote refused because it was counted before; its caller will call again.
Refuse(p) == \E c \in voteCalls : ReceiveVoteKnown(p, c)

Next ==
    /\ ~panicked
    /\ \/ \E p \in Node : Tick(p) \/ Deliver(p) \/ Refuse(p)
       \/ \E p \in Node, t \in Tx : ClientSend(p, t)
       \/ TransportError

Spec == Init /\ [][Next]_vars

=============================================================================
