-------------------------------- MODULE Client --------------------------------
(***************************************************************************)
(* The client program, the probe it serves and the peers it talks to.      *)
(*                                                                         *)
(* The client's main loop (client/main.go) takes a chain that the probe    *)
(* got, or sends all its transactions, one call after the other, to the    *)
(* peer at its endpoint.  The "first" peer (user id ubuntu:8000) calls the *)
(* probe each time it appends a block, and its service loop waits until    *)
(* the client's loop has taken the chain from an unbuffered channel.       *)
(* How the peers agree on blocks is left to Serve: here a peer that halts  *)
(* appends the next block, the same at both peers.  Chains have no genesis *)
(* block here.  The client program runs once: started again, it would send *)
(* transactions with the same ids, which is not modelled.                  *)
(***************************************************************************)
EXTENDS Integers, Sequences

CONSTANTS
    Number,     \* TRANSACTION_NUMBER
    MaxBlocks,  \* bound: blocks in a chain
    MaxDials    \* bound: dials of the probe that fail

ASSUME ClientAssumption == Number \in Nat \ {0} /\ MaxBlocks \in Nat /\ MaxDials \in Nat

Peer == {"first", "second"}
NoCall == [tx |-> Number, answered |-> FALSE]

VARIABLES
    endpoint,   \* the peer whose port the client was given
    running,    \* is the client program running?
    timer,      \* is its sendTransactionsTimer armed?
    client,     \* its main loop: in "select", or "sending"
    begin, end, \* the transactions in these maps
    shown,      \* the last chain that it took
    call,       \* its Send call, NoCall when there is none
    offers,     \* chains that SendBlockChain handlers wait to hand over, in order
    loop,       \* the first peer's loop: in "select", "waiting" for the probe, or "crashed"
    dial,       \* "timer", "dialling", or "done"
    dials,      \* dials that failed
    probe, probeConnected, \* are these fields of the first peer's state set?
    chain,      \* chain[p]: the blocks of peer p, each a set of transactions
    pool,       \* pool[p]: transactionPool of peer p
    gossip      \* AppendTransaction calls

mainVars == <<endpoint, running, timer, client, begin, end, shown>>
probeVars == <<offers, loop>>
dialVars == <<dial, dials, probe, probeConnected>>
sendVars == <<call, pool, gossip>>
vars == <<mainVars, probeVars, dialVars, sendVars, chain>>

Init ==
    /\ endpoint \in Peer /\ running = FALSE /\ timer = TRUE /\ client = "select"
    /\ begin = {} /\ end = {} /\ shown = <<>>
    /\ offers = <<>> /\ loop = "select"
    /\ dial = "timer" /\ dials = 0 /\ probe = FALSE /\ probeConnected = FALSE
    /\ call = NoCall /\ pool = [p \in Peer |-> {}] /\ gossip = {}
    /\ chain = [p \in Peer |-> <<>>]

Free(p) == p = "first" => loop = "select"       \* is p's service loop in its select?

-----------------------------------------------------------------------------
(***************************************************************************)
(* case <-probeGrpcDialTimer.C: a goroutine dials, and sets two fields of  *)
(* the state of the loop, one after the other, while the loop goes on.  A  *)
(* build for amd64 keeps the order of both the writes and the reads, so    *)
(* that the race has the outcomes of the interleavings below.              *)
(***************************************************************************)
DialTimer ==
    /\ dial = "timer" /\ Free("first")
    /\ dial' = "dialling"
    /\ UNCHANGED <<mainVars, probeVars, dials, probe, probeConnected, sendVars, chain>>

DialFails ==
    /\ dial = "dialling" /\ ~probe /\ dials < MaxDials
    /\ dial' = "timer" /\ dials' = dials + 1
    /\ UNCHANGED <<mainVars, probeVars, probe, probeConnected, sendVars, chain>>

\* Faulty variant of DialSets: the flag is set before the client of the probe.
DialSetsFlagFirst ==
    /\ dial = "dialling"
    /\ probeConnected' = TRUE /\ probe' = probeConnected
    /\ dial' = IF probeConnected THEN "done" ELSE dial
    /\ UNCHANGED <<mainVars, probeVars, dials, sendVars, chain>>

\* Once for each of the two assignments.
DialSets ==
    /\ dial = "dialling"
    /\ probe' = TRUE /\ probeConnected' = probe
    /\ dial' = IF probe THEN "done" ELSE dial
    /\ UNCHANGED <<mainVars, probeVars, dials, sendVars, chain>>

-----------------------------------------------------------------------------
\* The block that peer p appends: the one another peer has there, or a new one.
NextBlocks(p) ==
    LET n == Len(chain[p]) + 1
        known == {chain[q][n] : q \in {q \in Peer : Len(chain[q]) >= n}}
        included == UNION {chain[p][i] : i \in DOMAIN chain[p]}
    IN IF known # {} THEN known ELSE SUBSET (pool[p] \ included)

\* handleHalt: the first peer reports its chain, if the probe is connected, and
\* waits.  The call may fail at once (the client is not there, or gRPC has not
\* connected to it again yet), which is only logged.  A nil probe is dereferenced.
HandleHalt(p) ==
    /\ Free(p) /\ Len(chain[p]) < MaxBlocks
    /\ \E b \in NextBlocks(p) : chain' = [chain EXCEPT ![p] = Append(@, b)]
    /\ \/ /\ p = "first" /\ probeConnected /\ (probe => running)
          /\ offers' = IF probe THEN Append(offers, chain'[p]) ELSE offers
          /\ loop' = IF probe THEN "waiting" ELSE "crashed"
       \/ /\ p = "first" /\ probeConnected => probe
          /\ UNCHANGED probeVars
    /\ UNCHANGED <<mainVars, dialVars, sendVars>>

\* The response to RequestBlockChain holds the chain as it was when the other
\* peer answered.  The probe is told nothing.
CatchUp(p) ==
    /\ Free(p)
    /\ \E q \in Peer : \E n \in Len(chain[p]) + 1 .. Len(chain[q]) :
          chain' = [chain EXCEPT ![p] = SubSeq(chain[q], 1, n)]
    /\ UNCHANGED <<mainVars, probeVars, dialVars, sendVars>>

\* The response of SendBlockChain, or its error when the client has ended.
ProbeReturns ==
    /\ loop = "waiting" /\ offers = <<>>
    /\ loop' = "select"
    /\ UNCHANGED <<mainVars, offers, dialVars, sendVars, chain>>

\* Faulty variant of ProbeFails: the chain is sent once more.
ProbeFailsRetries ==
    /\ loop = "waiting" /\ running /\ Len(offers) < MaxBlocks
    /\ offers' = Append(offers, chain["first"])
    /\ UNCHANGED <<mainVars, loop, dialVars, sendVars, chain>>

\* Its failure on the way: the handler goes on waiting, the loop does not.
ProbeFails ==
    /\ loop = "waiting"
    /\ loop' = "select"
    /\ UNCHANGED <<mainVars, offers, dialVars, sendVars, chain>>

-----------------------------------------------------------------------------
HandleCommand(c) == [c EXCEPT !.answered = TRUE]

\* case op := <-bcs.C at the endpoint.
HandleSend ==
    /\ call # NoCall /\ ~call.answered /\ Free(endpoint)
    /\ pool' = [pool EXCEPT ![endpoint] = @ \cup {call.tx}]
    /\ gossip' = gossip \cup {[to |-> p, tx |-> call.tx] : p \in Peer \ {endpoint}}
    /\ call' = HandleCommand(call)
    /\ UNCHANGED <<mainVars, probeVars, dialVars, chain>>

AppendTransaction ==
    /\ \E c \in gossip : /\ Free(c.to)
                         /\ gossip' = gossip \ {c}
                         /\ pool' = [pool EXCEPT ![c.to] = @ \cup {c.tx}]
    /\ UNCHANGED <<mainVars, probeVars, dialVars, call, chain>>

-----------------------------------------------------------------------------
\* The client's main, up to its loop.
Start ==
    /\ ~running /\ timer
    /\ running' = TRUE
    /\ UNCHANGED <<endpoint, timer, client, begin, end, shown, probeVars, dialVars, sendVars, chain>>

\* case <-sendTransactionsTimer.C, up to its first call.
SendTransactions ==
    /\ running /\ timer /\ client = "select"
    /\ timer' = FALSE /\ client' = "sending" /\ call' = [tx |-> 0, answered |-> FALSE]
    /\ UNCHANGED <<endpoint, running, begin, end, shown, probeVars, dialVars, pool, gossip, chain>>

\* The call returns; the next one follows, or the loop goes back to its select.
SendReturns ==
    /\ running /\ client = "sending" /\ call.answered
    /\ begin' = begin \cup {call.tx}
    /\ call' = [tx |-> call.tx + 1, answered |-> FALSE]
    /\ client' = IF call' = NoCall THEN "select" ELSE client
    /\ UNCHANGED <<endpoint, running, timer, end, shown, probeVars, dialVars, pool, gossip, chain>>

\* The call fails, handled or not: log.Fatalln ends the program, and with it the
\* handlers of the probe.
SendFails ==
    /\ running /\ client = "sending"
    /\ running' = FALSE /\ offers' = <<>>
    /\ UNCHANGED <<endpoint, timer, client, begin, end, shown, loop, dialVars, sendVars, chain>>

updateEndTimeMap(blocks) == end \cup blocks[Len(blocks)]

\* Faulty variant of TakeBlocks: the chains are read by a goroutine of their own.
TakeBlocksAnyTime ==
    /\ running /\ offers # <<>>
    /\ offers' = Tail(offers) /\ shown' = Head(offers) /\ end' = updateEndTimeMap(Head(offers))
    /\ UNCHANGED <<endpoint, running, timer, client, begin, loop, dialVars, sendVars, chain>>

\* case blocks := <-bc.
TakeBlocks ==
    /\ running /\ client = "select" /\ offers # <<>>
    /\ offers' = Tail(offers) /\ shown' = Head(offers) /\ end' = updateEndTimeMap(Head(offers))
    /\ UNCHANGED <<endpoint, running, timer, client, begin, loop, dialVars, sendVars, chain>>

-----------------------------------------------------------------------------
Next ==
    \/ DialTimer \/ DialFails \/ DialSets
    \/ \E p \in Peer : HandleHalt(p) \/ CatchUp(p)
    \/ ProbeReturns \/ ProbeFails \/ HandleSend \/ AppendTransaction
    \/ Start \/ SendTransactions \/ SendReturns \/ SendFails \/ TakeBlocks

\* A goroutine that can go on does, and so does a call that can be answered.
Spec ==
    /\ Init /\ [][Next]_vars
    /\ WF_vars(HandleSend) /\ WF_vars(ProbeReturns) /\ WF_vars(SendReturns) /\ WF_vars(TakeBlocks)

-----------------------------------------------------------------------------
(***************************************************************************)
(* If the client's endpoint is not the peer that reports to it, nobody     *)
(* waits for ever: the client gets through the loop that sends its         *)
(* transactions (or ends with "send error"), and the first peer's service  *)
(* loop always comes back from handleHalt's call of the probe.  With the   *)
(* first peer as the endpoint, its loop may wait for the client to take a  *)
(* chain while the client waits for the same loop to answer its Send.      *)
(***************************************************************************)
NobodyStuck ==
    endpoint = "second" =>
        /\ client = "sending" ~> client = "select" \/ ~running
        /\ []<>(loop = "select")

(***************************************************************************)
(* The client takes chains in the order in which they grew, though calls   *)
(* of the probe fail and the first peer takes chains over.  Each chain     *)
(* that a handler hands over to the running program is longer than the one *)
(* taken before it, so none comes twice either, not even in succession.    *)
(***************************************************************************)
ShownGrows ==
    [][running' /\ Len(offers') < Len(offers) => Len(shown') > Len(shown)]_vars

(***************************************************************************)
(* The durations that getTimeDurationMap computes are differences between  *)
(* the time a block was taken and the time that Send returned: every       *)
(* transaction that has an end has had its begin before.                   *)
(***************************************************************************)
BeginsBeforeEnd == end \subseteq begin

=============================================================================
