------------------------------- MODULE MCPaced -------------------------------
(* Paced executions of Serve for TLC: four peers, and who wins each lottery.  *)
EXTENDS Paced, TLC

CONSTANTS p1, p2, p3, p4

Peers == {p1, p2, p3, p4}
NodeNumber == (p1 :> 0) @@ (p2 :> 1) @@ (p3 :> 2) @@ (p4 :> 3)

\* Signatures: the order of the peers rotates from period to period.
MCRank == [x \in Slot |-> (100 * (10 * x[2] + x[3])) + ((NodeNumber[x[1]] + x[2] + x[3]) % 4)]

\* The lottery: exactly the given peers are elected, in every round and period.
Committee(C) == [x \in Slot |-> {x[1] \in C}]
ElectThree == Committee({p1, p2, p3})
ElectAnyThenTwo == [x \in Slot |-> IF x[2] = 1 THEN BOOLEAN ELSE {x[1] \in {p1, p2}}]
ElectThreeThenTwo == [x \in Slot |-> {x[1] \in (IF x[3] = 1 THEN {p1, p2, p3} ELSE {p1, p2})}]
ElectAll   == Committee(Peers)

\* One proposer per round, another one in each.
ElectInTurn == [x \in Slot |-> {NodeNumber[x[1]] + 1 = x[2]}]

(***************************************************************************)
(* Fewer interleavings, for the instances that look for one execution: the *)
(* peers tick in the order of their numbers, each once the calls of the    *)
(* one before it, up to Slack of them, are handled.  Transactions are      *)
(* passed on at any time in a tick.                                        *)
(***************************************************************************)
InTurn ==
    due' # due /\ due # {} /\ ~(due \subseteq due') =>
        /\ InFlight - Cardinality(txCalls) <= Slack
        /\ \A p \in due \ due', q \in due : NodeNumber[p] <= NodeNumber[q]

InTurnSpec == PacedInit /\ [][PacedNext /\ InTurn]_pacedVars

\* Fewer still: proposals and votes are handled in the order of callee and
\* caller, but for those that are passed over to be late: up to slack of them.
Order(callee, caller) == 4 * NodeNumber[callee] + NodeNumber[caller]

InOrder ==
    /\ \A c \in proposeCalls \ proposeCalls' :
          Cardinality({d \in proposeCalls : Order(d.to, d.arg.peer) < Order(c.to, c.arg.peer)}) <= slack
    /\ \A c \in voteCalls \ voteCalls' :
          Cardinality({d \in voteCalls :
              /\ ~Refused(d)
              /\ Order(d.entry[1], d.arg.peer) < Order(c.entry[1], c.arg.peer)}) <= slack

InOrderSpec == PacedInit /\ [][PacedNext /\ InTurn /\ InOrder]_pacedVars
=============================================================================
