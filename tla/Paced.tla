-------------------------------- MODULE Paced --------------------------------
(***************************************************************************)
(* The executions of Serve in which the timers do what their lengths are   *)
(* chosen for: an RPC takes milliseconds and a tick of the agreement timer *)
(* 12 seconds, so the calls of one tick are handled before the next tick,  *)
(* and all peers, started together by one process, tick together.  The     *)
(* round timer (2 or 6 seconds) fires before the agreement timer does.     *)
(*                                                                         *)
(* Slack says how far an execution may stray from this: a tick that begins *)
(* while k calls or peers are late takes k from a budget of Slack.  With   *)
(* Slack = 0 the peers are in lock step; a larger Slack is a larger part   *)
(* of the asynchronous executions.                                         *)
(***************************************************************************)
EXTENDS ServeInvariant

CONSTANT Slack

ASSUME PacedAssumption == Slack \in Nat

VARIABLES
    timer,      \* which timer fires in this tick: "round" or "agreement"
    due,        \* the peers for which it has still to fire
    slack       \* what is left of Slack

pacedVars == <<vars, timer, due, slack>>

(***************************************************************************)
(* A vote that was counted before is refused and sent again every second   *)
(* until either side moves on (action Refuse).  The callee never changes   *)
(* and the call comes back as it was, so these steps are left out and such *)
(* calls are not late.                                                     *)
(***************************************************************************)
Refused(c) ==
    LET s == state[c.entry[1]]
    IN c.arg.round = s.round /\ c.arg.period = s.period /\ Known(s, c.arg)

InFlight ==
    Cardinality(proposeCalls) + Cardinality({c \in voteCalls : ~Refused(c)}) + Cardinality(noticeCalls)
    + Cardinality(chainRequests) + Cardinality(chainReplies) + Cardinality(txCalls)

\* The peers whose round timer, and whose agreement timer, has something to do.
Starting == {p \in Node : /\ state[p].readyForNextRound
                          /\ state[p].round <= MaxRound /\ state[p].period <= MaxPeriod}
Stepping == {p \in Node : /\ state[p].agreementTimer /\ ~state[p].readyForNextRound
                          /\ state[p].isCommitteeMember =>
                                /\ state[p].step < MaxStep \/ (state[p].step = 5 /\ MaxStep = 5)
                                /\ p \notin state[p].periodState.haveNextVotedStep5}

\* What has not happened yet in this tick.
Late == InFlight + Cardinality(due \cap (IF timer = "round" THEN Starting ELSE Stepping))

PacedInit == Init /\ timer = "round" /\ due = {} /\ slack = Slack

BeginTick ==
    /\ slack' = slack - Late /\ slack' >= 0
    /\ timer' = IF Starting # {} THEN "round" ELSE "agreement"
    /\ due' = (IF Starting # {} THEN Starting ELSE Stepping)
    /\ due' # {}
    /\ UNCHANGED vars

PacedTick(p) ==
    /\ p \in due /\ due' = due \ {p} /\ UNCHANGED <<timer, slack>>
    /\ IF timer = "round" THEN RoundTimer(p)
       ELSE \/ AgreementTimerIdle(p) \/ AgreementTimerNonMember(p)
            \/ Step2(p) \/ Step3(p) \/ Step4(p) \/ Step5(p)

PacedNext ==
    /\ ~panicked
    /\ \/ BeginTick
       \/ \E p \in Node : PacedTick(p)
       \/ /\ \/ \E p \in Node : Deliver(p)
             \/ \E p \in Node, t \in Tx : ClientSend(p, t)
             \/ TransportError
          /\ UNCHANGED <<timer, due, slack>>

PacedSpec == PacedInit /\ [][PacedNext]_pacedVars

\* Timers fire and goroutines run: while anything can happen, something does.
FairPacedSpec == PacedSpec /\ WF_pacedVars(PacedNext)

\* The round nobody is elected in: all peers have begun it, and no one is a member.
Unelected ==
    \E r \in Rounds : \A p \in Node :
        state[p].round = r /\ ~state[p].readyForNextRound /\ ~state[p].isCommitteeMember

(***************************************************************************)
(* Every peer gets the block of every round, members by the cert-votes and *)
(* the others by the leader's notice, which is sent once and accepted only *)
(* from the peer they took for the leader themselves.  The one thing that  *)
(* stops the peers is a round in which nobody wins the lottery: nobody     *)
(* proposes, no agreement timer is armed again, and no timer retries.      *)
(***************************************************************************)
DecidedUnlessUnelected == <>((\A p \in Node : Len(blockchain[p]) = MaxRound + 1) \/ Unelected)

=============================================================================
