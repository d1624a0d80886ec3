# A TLA+ model of the Algorand implementation

The repository is a Go implementation of Algorand's agreement protocol: one
process starts all peers (`server/main.go`), each peer runs a service loop
(`serve` in `server/serve.go`), the peers call each other over gRPC, and a client
program sends transactions and watches blocks through a probe.

This directory models the agreement protocol, the peers' state, the calls between
them and the client program; states what should be true of them; checks it with TLC on small
instances; and proves the safety part with TLAPS for any number of peers, rounds
and periods.

## The system

In every *round* the peers agree on one block. A round consists of *periods*, a
period of five *steps*:

1. (round timer) a peer prepares a block and, if its signature wins a lottery,
   joins the committee and proposes the block to everybody;
2. (agreement timer) a member soft-votes for the block of the proposer with the
   least signature, or for what the last period settled on;
3. a member certifies a value with `requiredVotes` soft-votes;
4. a member next-votes for its certified value or the period's starting value;
5. a member next-votes for a value with enough soft-votes, on every tick until it
   has done so once.

`requiredVotes` cert-votes for a value append its block and start the next round
(`handleHalt`); the leader then tells the peers outside the committee. As many
next-votes start the next period (`handleNextPeriod`). A peer that gets a message
from a later round asks a random peer for its chain and takes it over if it is
longer. A call that fails is made again one second later, as long as the caller
is still in the round and period of the call.

## Modules

| module | models | content |
|---|---|---|
| `Agreement` | `server/agreement.go` | the step functions and the halting and next-period conditions |
| `Peer` | `server/util.go`, the types and helpers of `server/serve.go` | one peer's state and the functions on it |
| `Serve` | `serve`, the RPC handlers, the client API | all peers' loops and the calls between them |
| `ServeProperties` | | the properties |
| `Ballots` | | the abstract specification of voting that `Serve` implements |
| `Client` | `client/main.go`, `probe/probe.go`, their side of `serve` | the client program, the probe and the peers they talk to |
| `Sortition` | `find`, `hashByteTo01`, `isPotentialLeader` | the lottery's arithmetic |
| `PeerInvariant`, `ServeInvariant` | | the inductive invariant |
| `Paced` | the timers' lengths | the executions of `Serve` in which calls are faster than timers |
| `MCServe`, `MCPaced` | | instances for TLC |
| `PeerTypes`, `PeerProofs`, `VoteProofs`, `StepProofs`, `RoundProofs`, `TickProofs`, `DeliverProofs`, `ServeProofs` | | the proofs |

### Agreement

Each function scans a tally, a Go map from values to vote counts, for the value
with most votes. Go's map order is unspecified, so with a tie the result is: each
operator is the *set* of values the function may return.

### Peer

The record `ServerState` has the fields of `ServerState` and the locals of
`serve` (`requiredVotes`, `proposalBuffer`, whether the agreement timer is armed).
`PeriodState` is `PeriodState`. A key that a Go map lacks is `Nil` or count 0;
`sigToId` and `valueToBlock` are derived from `idToBlock`, with which the code
always writes them together. `lastPeriodState = PeriodState{}` (nil maps, which
are only read) is `initPeriodState(Empty)`.

A block's hash is the slot `<<proposer, round, period>>` it was prepared in: the
hash covers a nanosecond timestamp and a peer prepares one block per round timer.
Seeds are named in the same way, since `calculateNextQ` signs with a random salt.
`Rank` is the order of the signatures that `selectLeader` compares; `Elected` is
what the lottery may return for each peer, round and period. A transaction is a
model value.

### Serve

One goroutine per peer owns its state and handles one case of its `select` at a
time, so each case is one atomic action, whole: a step 3 tick certifies, sends
the votes, checks the halting condition, appends the block, and sends the leader's
notices.

| action | case of the loop |
|---|---|
| `RoundTimer` | `<-roundTimer.C` |
| `AgreementTimerIdle`, `AgreementTimerNonMember`, `Step2` to `Step5` | `<-agreementTimer.C` |
| `ReceiveProposalAhead`, `ReceiveProposalEarly`, `ReceiveProposal` | `<-algorand.ProposeBlockChan` |
| `ReceiveVoteAhead`, `ReceiveVoteInvalid`, `ReceiveVoteKnown`, `ReceiveSoftVote`, `ReceiveCertVote`, `ReceiveNextVote` | `<-algorand.VoteChan` |
| `ReceiveNotice` | `<-algorand.NoticeFinalBlockValueChan` |
| `ReceiveChainRequest`, `ReceiveChain` | `<-algorand.RequestBlockChainChan` and its response |
| `ProposeResponse`, `VoteResponse`, `NoticeResponse` | the responses |
| `ClientSend`, `AppendTransaction` | `<-bcs.C`, `<-algorand.AppendTransactionChan` |
| `TransportError` | a call that gRPC ends with an error |

Calls are made by other goroutines. A call in flight is an element of a set: it is
delivered at any time and in any order. The callee accepts it, refuses it (`failed`
until the caller's loop reads the response and decides whether to call again) or
never answers (a vote of another round or period, a notice from a peer that is not
the leader), and any call, handled or not, may end in a transport error. A call
that was handled and then failed is the source of duplicates. Calls that are equal
merge; a vote is sent once per entry of `committeeMember`, and these copies are
kept apart. The second that a retry waits is part of its delay. A panic
(`"no bug, no here"`, a nil block) ends the process, that is, all peers:
`panicked`. `signed` is a history variable: every vote signed, with the
`requiredVotes` of its signer.

### Paced

`Serve` assumes nothing about time. Agreement on whole chains does need it: the
code relies on a tick being much longer than a call (12 s against milliseconds)
and on the peers, goroutines of one process, being started together. `Paced` adds
ticks that begin when the calls and the peers of the last one are done, the round
timer first. `Slack` is the number of calls or peers that may still be late when
a tick begins, over the whole execution; 0 is lock step. Refusals of a vote
already counted change nothing but the call, which comes back as it was; `Paced`
leaves them out.

### Ballots

The abstract specification of voting: peers that move forward through rounds,
periods and steps, and the votes they cast on the way. A peer casts a vote only as
it passes the vote's step, at most one per step, and certifies only what enough
peers have soft-voted for. `ServeProperties` instantiates it with the peers' places
and with `signed`; `KeepsPromise` says that `Serve` implements it.

### Client

The client program (`client/main.go`), the probe it serves (`probe/probe.go`) and
two peers: "first" is `ubuntu:8000`, the only one that dials the probe. What is
atomic here is what one goroutine does between two points at which it waits:

| action | code |
|---|---|
| `DialTimer`, `DialFails`, `DialSets` | the probe's dial timer and its goroutine, which sets `probe` and then `probeConnected` |
| `HandleHalt`, `ProbeReturns`, `ProbeFails` | `handleHalt` up to its call of the probe, and the end of that call |
| `CatchUp` | a longer chain is taken over, of which the probe is not told |
| `HandleSend`, `AppendTransaction` | the endpoint's loop takes a transaction, and passes it on |
| `Start`, `SendTransactions`, `SendReturns`, `SendFails`, `TakeBlocks` | the client's main loop |

The service loop of the first peer stands still while `SendBlockChain` waits on the
channel of the client program, and the client program does not look at that channel
while it sends. With the first peer as its endpoint both can wait for ever;
`NobodyStuck` is therefore stated for any other endpoint (the repository's README
uses the port of another peer). `Start` happens once: a second run of the client
program would send the same transaction ids again and is not modelled. Agreement is
abstracted: a peer that halts appends
the next block, the same at both. `probe` and `probeConnected` are written and read
without synchronisation; the model takes the order of writes and reads of an amd64
build.

### Sortition

The conversion of the first eight bytes of a hash to `float64`, the loop of `find`,
which scales the result into [0.1, 1), and the comparison with 0.15. The conversion
rounds 64 bits to 53, to the nearest float and to even in a tie. These widths are
beyond TLC's integers; they are the constants `Width` and `Precision`, which the run
sets to 14 and 12. All hashes of 14 bits are checked. They have up to five digits, and
those above 4096 are rounded to multiples of 2 or 4, so that a power of ten (10000)
and a bound (15000) lie where rounding can reach them, as 10^16 to 10^19 and
15 * 10^15 to 15 * 10^18 do in the code. A hash is elected on its leading digits,
except for the few just below such a number that are rounded up to it. The powers
of ten themselves must be floats; this is an `ASSUME`, true of 53 bits up to 10^22.
Quotients are exact fractions in the model. The code rounds them, but not across 1
or 0.15.

## Runs

The runs of `Serve` and `Paced` have four peers, the fewest the program accepts. A
run's committee is chosen by `Elected`; a tie-free `Rank` rotates the leader. The
named bounds `MaxRound`, `MaxPeriod`, `MaxStep` and `MaxErrors` stop a peer from
starting a further round, period or step and limit the transport errors.

| run | instance | properties | shows |
|---|---|---|---|
| `lockstep` | `FairPacedSpec`, `ElectAnyThenTwo`, rounds 2, periods 1, step 3, errors 0, slack 0 | `SameChain`, `NoPanic`, `SameSeed`, `DecidedUnlessUnelected`, `KeepsPromise` | With all calls in time, and any outcome of the lottery in the first round, all peers get the same blocks and the same seeds, nobody panics, and every round is decided unless nobody is elected in it. Every step is one that the abstract voting rules of Ballots allow. |
| `late` | `PacedSpec`, `ElectThree`, rounds 1, periods 1, step 5, errors 1, slack 1 | `CertsBacked`, `OneVotePerStep` | One call or peer late and one transport error: no peer signs two votes of one step, and every cert-vote has the soft-votes its signer required. |
| `periods` | `InOrderSpec`, `ElectAll`, rounds 1, periods 2, step 5, errors 0, slack 2 | `Step1NeverErr`, `CertAgreement` | Four proposers, two late calls or peers: peers see different proposals when they soft-vote, yet no two values are certified; peers leave period 1 through next-votes, and step 1 of period 2 still sees the votes that took them there. |
| `outrun` | `RunAheadSpec`, `ElectThree`, rounds 3, periods 1, step 3, errors 1 | `ChainsLinked`, `ValuesOfRound`, `Forward` | A peer that decides two rounds alone while the others are in the first: the chains the others take over are linked and longer, never take a peer back, and leave nothing of the old round behind to be voted for. |
| `inductive` | `InOrderSpec`, `ElectThree`, rounds 2, periods 2, step 5, errors 0, slack 1 | `TypeOK`, `IndInv` | The invariant on which the proofs rest, in executions with a late call or peer that go through all five steps: periods that end with next-votes, re-proposals in period 2, peers that decide in period 2, and a second round after that. |
| `async` | `Spec`, `ElectTwo`, rounds 1, periods 1, step 2, errors 1 | `TalliesBacked` | Any order of calls, ticks, retries and a transport error, with no assumption on time, up to step 2: a soft-vote is counted once. |
| `transactions` | `InOrderSpec`, `ElectInTurn`, rounds 3, periods 1, step 3, errors 1, slack 0 | `TransactionsOnce` | A client sends two transactions to any peers at any time, one call fails, all others are in time; each of three rounds has another proposer: no transaction is in two blocks. |
| `client` | `Client`: 2 transactions, 3 blocks, 1 failed dial | `BeginsBeforeEnd`, `NobodyStuck`, `ShownGrows` | The client program, its probe, the peer that reports to it and another one: blocks, transactions and failing calls in any order. Unless the client's endpoint is the reporting peer, neither waits for ever; every chain the client takes is longer than the one before; a transaction's end is never before its begin. |
| `sortition` | `Sortition`: hashes of 14 bits, floats of 12 | `ElectedOnLeadingDigits` | The conversion of a hash to a float and the loop that scales it to [0.1, 1), against the leading digits of the hash, for every hash of a scaled-down width. |
| `counted_twice` (violation) | `PacedSpec`, `ElectThree`, rounds 1, periods 1, step 5, errors 1, slack 1 | `NextVotesBacked` | A next-vote whose call ended in an error after it was counted is counted again when it is sent again. |
| `early_halt` (violation) | `InOrderSpec`, `ElectAll`, rounds 1, periods 1, step 3, errors 0, slack 1 | `HaltsOnQuorum` | A committee of four, of which every member knows all proposals; the one that is late for its first step 2 appends the block on the first cert-vote it receives. |
| `two_seeds` (violation) | `InTurnSpec`, `ElectThreeThenTwo`, rounds 1, periods 2, step 5, errors 0, slack 1 | `SameSeed` | Two peers that re-propose the block of the last period end up with the same chain and different seeds. |

`CHECK_DEADLOCK FALSE`: the bounds stop every execution, and so does the program
itself when a round elects nobody or has panicked; the client waits for chains that
need not come, and `find` returns. Between them the passing runs take every action
and every alternative in it.

The bounds are small because four peers exchange twelve copies of each vote. Three
rounds are the fewest in which a peer can be two rounds behind; two periods are
the fewest with a re-proposal; three members are the fewest with a quorum that is
not a single vote, and with four the quorum is smaller than the committee, so two
values could compete. `inductive` handles calls in a fixed order but for the late one;
its executions go on to step 5, end periods with next-votes, decide in period 2 and
start a second round. `transactions` needs a third round: with two, the block that
is pruned is always the only one that could be repeated. `BlockSize = 2` and `BlockTake = 1` make a pool of two
transactions overflow a block.

### Fairness

`lockstep` also checks progress. `FairPacedSpec` assumes weak fairness of the whole
next-state relation: as long as something can happen, something does. Timers fire,
goroutines are scheduled and calls arrive; nothing is assumed about which of
several possible steps is taken first.

`Client` assumes weak fairness of four actions: a service loop in its `select` takes
a waiting Send, a finished `SendBlockChain` returns, the client takes the answer to
its Send, and a client in its `select` takes a waiting chain. Each is a goroutine
that the Go scheduler will run, or a reply on a working connection; blocks, dials and
failures need not happen.

### Violations

Three runs show the code disagreeing with what its comments say:

- `counted_twice`: a next-vote is accepted while *either* of its signer's two
  marks is missing, so a second copy of a step 4 vote counts again.
- `early_halt`: `requiredVotes` is set at a peer's own step 2. Cert-votes that
  arrive earlier are compared with 0. In the run four members know all proposals, and
  the one whose step 2 tick is late halts on the first cert-vote instead of the third.
  (With four members 2t+1 is 3 for the three or four that a peer knows, so a late
  proposal is not what the run finds.)
- `two_seeds`: peers that propose the last period's block again attach a new seed
  each, and each peer keeps the seed it executed last. Same chain, different seeds:
  from then on they refuse each other's proposals.

## Proofs

`ServeProofs` proves, from the `ASSUME`s of `Agreement`, `Peer` and `Serve` only
(at least four peers, distinct signatures, distinct reserved values), for every
execution of the asynchronous `Spec`:

- `Invariance` (`IndInv`): The inductive invariant holds in every reachable state, for any number of peers, rounds and periods.
- `TypeCorrect` (`TypeOK`): Type correctness.
- `Linked` (`ChainsLinked`): A peer in round r has r blocks, each linked to the one before.
- `NoErr` (`Step1NeverErr`): The panic "no bug, no here" is not reached.
- `NoEquivocation` (`OneVotePerStep`): A peer signs at most one vote per step.
- `HonestCounts` (`TalliesBacked`): Soft and cert tallies count different signers.
- `RoundsApart` (`ValuesOfRound`): A value is voted for, and appended, in the round it was proposed in.
- `CertsHaveQuorum` (`CertsBacked`): A cert-vote has the soft-votes its signer required.
- `OnlyForward` (`Forward`): No step takes a peer back or shortens its chain.
- `Agreed` (`CertAgreement`): Two certifications of a round and period that required 2t+1 of its soft-voters are for the same value.
- `Promised` (`KeepsPromise`): Serve implements the abstract specification Ballots: the voters' places and signatures take only its steps.

The inductive invariant `IndInv` says, beyond types:

- `PeerOK`: the chain is linked and as long as the round number; every block and
  every counted value a peer keeps was proposed in this round and fits its chain;
  a peer that is ready in a later period still holds the next-votes that took it
  there, against its present `requiredVotes`; only a peer in a period has a leader.
- `MessagesOK`: a proposal in flight, or kept for later, extends the block it
  names, and a chain in flight is linked.
- `VoteOK`: a signed vote lies behind its signer, strictly so but for step 5, where
  the signer's own mark says that it was cast. This is what makes `OneVotePerStep`
  inductive: a vote is signed only when the peer arrives at its step.
- `CountsOK`: a tally counts only signers marked as having voted. `TalliesBacked`
  alone is not inductive: it would not exclude counting a signer again.
- `CertsBacked`, `OneVotePerStep` themselves.

`CertAgreement` then follows by counting: two sets of at least 2t+1 soft-voters out
of n, n not 2, meet, and a common member would have signed two soft-votes.

`PeerTypes` and `PeerProofs` are about the functions of `Peer` and `Agreement`,
`VoteProofs` about signatures and tallies, `StepProofs` about what all actions
share (`StepOK`: a step of one peer that keeps the invariant); `RoundProofs`,
`TickProofs` and `DeliverProofs` have a lemma per action. The few facts on finite
sets are gathered in `Sizes`, a hypothesis of the lemmas that `ServeProofs`
discharges from the library.

`Promised` proves the refinement. `Ahead`, which the lemmas establish for every
action, says that each step moves or signs for one peer at most, that this peer does
not go back, and that a vote it signs is of a step it had not voted in, between its
place before and its place after. With `CertsBacked` for the quorum behind a
cert-vote, every such step is a `Move` or a `Cast` of `Ballots`.

Only model-checked: the properties of paced executions (`SameChain`, `SameSeed`,
`NoPanic`, `TransactionsOnce`), which are false without the assumption on time,
and everything about liveness, which this prover does not do. `TransactionsOnce` is
limited further to peers that are in every round: a peer that takes over several
blocks at once prunes only the last one's transactions from its pool (the code has a
TODO there, `server/serve.go:1063`) and may propose the others again.

## Not modelled

- Formatting, logging, flags, listeners, key files, dialling peers.
- `AppendBlock` (no peer calls it) and `Get` (it changes nothing).
- The bytes of hashes and signatures. That a peer's signature verifies, and that
  nobody else can make it, is built in: all peers run this code.
- Crashes: nothing is stored, and all peers live and die with one process.
- `restartTimer`'s draining of the timer's channel.
- The vendored `golang.org/x` packages, the generated protobuf code and the launch
  script. They are by far the most lines under `src/`, so the modelled part, though
  it is most of the server, is a small share of all lines: the repository's own
  program has about two thousand.
- The probe's `SendRPState` and `SendSLState`, which print and return, and the
  client's statistics on its times.
