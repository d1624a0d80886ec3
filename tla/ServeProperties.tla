--------------------------- MODULE ServeProperties ---------------------------
(***************************************************************************)
(* What should be true of Serve.  The safety properties are stated for the *)
(* asynchronous system: any delay, any order, retries and transport errors.*)
(***************************************************************************)
EXTENDS Serve

\* The signers of a vote of the given type for value v in a round and period.
SignersIn(votes, type, v, round, period) ==
    {x.vote.peer : x \in {y \in votes : /\ y.vote.voteType = type /\ y.vote.value = v
                                        /\ y.vote.round = round /\ y.vote.period = period}}

Signers(type, v, round, period) == SignersIn(signed, type, v, round, period)

\* Everyone who signed a soft-vote in a round and period.
SoftVoters(round, period) ==
    {x.vote.peer : x \in {y \in signed : /\ y.vote.voteType = "soft"
                                         /\ y.vote.round = round /\ y.vote.period = period}}

CertVotes == {x \in signed : x.vote.voteType = "cert"}

(***************************************************************************)
(* Chains.  A peer in round r has r blocks, and every block follows the    *)
(* one before it: it has the next id and names its hash.  The halting      *)
(* code looks a block up by the value voted for, and a peer that was       *)
(* behind takes over a whole chain unchecked ("verified := true"), so this *)
(* rests on what executeProposal let in.                                   *)
(***************************************************************************)
ChainsLinked ==
    \A p \in Node :
        /\ Len(blockchain[p]) = state[p].round
        /\ \A i \in 2 .. Len(blockchain[p]) :
              blockchain[p][i] # Nil =>
                 /\ blockchain[p][i - 1] # Nil
                 /\ blockchain[p][i].id = i - 1
                 /\ blockchain[p][i].prevHash = blockchain[p][i - 1].hash

(***************************************************************************)
(* runStep1 never returns "err" when the round timer calls it: serve       *)
(* panics with "no bug, no here" if it does.  A peer that has left a       *)
(* period still sees the votes that took it out of it, against the same    *)
(* requiredVotes, whatever arrived in between.                             *)
(***************************************************************************)
Step1NeverErr ==
    \A p \in Node :
        state[p].readyForNextRound =>
            Err \notin runStep1(state[p].period, state[p].lastPeriodState.nextVotes,
                                state[p].requiredVotes)

(***************************************************************************)
(* A peer signs one soft-vote and one cert-vote per round and period, and  *)
(* one next-vote per step: no retry, late message or return to an earlier  *)
(* place makes it vote again for something else.                           *)
(***************************************************************************)
OneVotePerStep ==
    \A x, y \in signed :
        /\ x.vote.peer = y.vote.peer /\ x.vote.round = y.vote.round
        /\ x.vote.period = y.vote.period /\ x.vote.step = y.vote.step
        => x = y

(***************************************************************************)
(* Every soft-vote and cert-vote a peer has counted for a value was signed *)
(* by a different peer for that value in this round and period.  Calls are *)
(* retried, and sent once per entry of committeeMember.                    *)
(***************************************************************************)
TalliesBacked ==
    \A p \in Node, v \in Value :
        LET s == state[p]
        IN /\ s.periodState.softVotes[v] <= Cardinality(Signers("soft", v, s.round, s.period))
           /\ s.periodState.certVotes[v] <= Cardinality(Signers("cert", v, s.round, s.period))

(***************************************************************************)
(* A value never outlives its round: what is voted for in round r, and the *)
(* block appended for it, was proposed in round r, in this or an earlier   *)
(* period.                                                                 *)
(***************************************************************************)
ValuesOfRound ==
    /\ \A x \in signed : x.vote.value \in Hash =>
          x.vote.value[2] = x.vote.round /\ x.vote.value[3] <= x.vote.period
    /\ \A p \in Node : \A i \in 2 .. Len(blockchain[p]) :
          blockchain[p][i] # Nil => blockchain[p][i].hash[2] = i - 1

(***************************************************************************)
(* A cert-vote for a value was signed after as many different peers as its *)
(* signer required had signed a soft-vote for it.                          *)
(***************************************************************************)
CertsBacked ==
    \A x \in CertVotes :
        Cardinality(Signers("soft", x.vote.value, x.vote.round, x.vote.period)) >= x.required

(***************************************************************************)
(* Two peers that certify in the same round and period certify the same    *)
(* value, if each of them required what 2t+1 is for the n peers that       *)
(* soft-voted there.  For n = 2, 2t+1 is 1, which is no majority.          *)
(***************************************************************************)
CertAgreement ==
    \A x, y \in CertVotes :
        LET n == Cardinality(SoftVoters(x.vote.round, x.vote.period))
        IN /\ x.vote.round = y.vote.round /\ x.vote.period = y.vote.period
           /\ n # 2 /\ x.required >= RequiredVotes(n) /\ y.required >= RequiredVotes(n)
           => x.vote.value = y.vote.value

(***************************************************************************)
(* No step takes a peer back: its (round, period, step) never decreases in *)
(* the lexicographic order, and its chain never gets shorter.              *)
(***************************************************************************)
Reached(s, round, period, step) ==
    \/ s.round > round
    \/ s.round = round /\ s.period > period
    \/ s.round = round /\ s.period = period /\ s.step >= step

NotBefore(r, s) == Reached(r, s.round, s.period, s.step)

Forward ==
    [][\A p \in Node : /\ NotBefore(state'[p], state[p])
                       /\ Len(blockchain'[p]) >= Len(blockchain[p])]_vars

\* Where each peer is, which is all that Ballots knows of its state.
Places == [p \in Node |-> [round |-> state[p].round, period |-> state[p].period,
                           step |-> state[p].step]]

Promise == INSTANCE Ballots WITH place <- Places, ballots <- signed

(***************************************************************************)
(* The service loops keep the promise of Ballots: a peer votes only in the *)
(* round, period and step it is passing, once, and certifies only what     *)
(* enough peers have voted for, whichever message, retry or chain taken    *)
(* over comes in between; and no message moves or signs for another peer.  *)
(***************************************************************************)
KeepsPromise == Promise!Spec

-----------------------------------------------------------------------------
(***************************************************************************)
(* Agreement: two peers that have an i-th block have the same i-th block.  *)
(* Nothing in serve compares chains; this rests on peers seeing the same   *)
(* proposals before they vote, so it is stated for paced executions.       *)
(***************************************************************************)
SameChain ==
    \A p, q \in Node : \A i \in 1 .. Len(blockchain[p]) :
        i <= Len(blockchain[q]) => blockchain[p][i] = blockchain[q][i]

(***************************************************************************)
(* No goroutine panics: the values voted on are those of stored blocks, so *)
(* that handleHalt never appends nil, which the next prepareBlock would    *)
(* dereference, and runStep2 always finds the leader's block.              *)
(***************************************************************************)
NoPanic == ~panicked

(***************************************************************************)
(* A transaction is in at most one block of a chain.  prepareBlock prunes  *)
(* the pool of the last block's transactions only, and nothing else prunes *)
(* it: a peer that proposes in a later round relies on having pruned its   *)
(* pool at every round timer before.  Stated for executions in which calls *)
(* are in time.  A peer that takes over a chain prunes its last block only *)
(* (serve.go:1063, "TODO:delete transcation here").                        *)
(***************************************************************************)
TransactionsOnce ==
    \A p \in Node : \A i, j \in DOMAIN blockchain[p] :
        i < j /\ blockchain[p][i] # Nil /\ blockchain[p][j] # Nil
        => blockchain[p][i].tx \cap blockchain[p][j].tx = {}

-----------------------------------------------------------------------------
(***************************************************************************)
(* serve.go:64: haveNextVotedStep4 is "A map to determine whether the peer *)
(* has received the next vote that sent by a same peer in STEP 4", so a    *)
(* peer counts each next-vote once.                                        *)
(***************************************************************************)
NextVotesBacked ==
    \A p \in Node, v \in Value :
        LET s == state[p]
        IN s.periodState.nextVotes[v] <=
              Cardinality({x \in signed : /\ x.vote.voteType = "next" /\ x.vote.value = v
                                          /\ x.vote.round = s.round /\ x.vote.period = s.period})

(***************************************************************************)
(* serve.go:468: "each server needs exact same seed per round so they all  *)
(* see the same selection".                                                *)
(***************************************************************************)
SameSeed ==
    \A p, q \in Node : blockchain[p] = blockchain[q] => state[p].Q = state[q].Q

(***************************************************************************)
(* serve.go:540-541 and 327: a block is agreed on with 2t+1 cert-votes,    *)
(* "the required minimum vote number".  Here: a peer whose chain grows by  *)
(* one block of the round it is in has at least 2t+1 signed cert-votes for *)
(* it, for the n peers it knows to be on the committee, itself included.   *)
(* requiredVotes is computed at the peer's step 2; with four members it is *)
(* 3 whether three or four proposals are known, so no late proposal but    *)
(* only a halt before step 2 can be at odds with this.                     *)
(***************************************************************************)
HaltsOnQuorum ==
    [][\A p \in Node :
          /\ state[p].isCommitteeMember /\ Len(blockchain'[p]) = Len(blockchain[p]) + 1
          /\ Last(blockchain'[p]) # Nil
          => Cardinality(SignersIn(signed', "cert", Last(blockchain'[p]).hash,
                                   state[p].round, state[p].period))
                >= RequiredVotes(Cardinality(state[p].committeeMember) + 1)]_vars

=============================================================================
