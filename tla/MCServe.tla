------------------------------- MODULE MCServe -------------------------------
(* Serve without any assumption on time, for TLC.                            *)
EXTENDS ServeInvariant, TLC

CONSTANTS p1, p2, p3, p4

Peers == {p1, p2, p3, p4}
NodeNumber == (p1 :> 0) @@ (p2 :> 1) @@ (p3 :> 2) @@ (p4 :> 3)

\* Signatures: the order of the peers rotates from period to period.
MCRank == [x \in Slot |-> (100 * (10 * x[2] + x[3])) + ((NodeNumber[x[1]] + x[2] + x[3] + 2) % 4)]

\* The lottery: exactly the given peers are elected, in every round and period.
Committee(C) == [x \in Slot |-> {x[1] \in C}]
ElectOne   == Committee({p1})
ElectTwo   == Committee({p1, p2})
ElectThree == Committee({p1, p2, p3})

(***************************************************************************)
(* Executions in which p2 runs ahead.  It hears nobody, and so decides     *)
(* rounds 1 and 2 alone, after p1 and p3 have begun round 1 with all its   *)
(* proposals and before they go on; then it proposes in round 3 and only   *)
(* answers requests for its chain, one at a time.  From then on p1 runs,   *)
(* p3 only takes calls and chains, and all notices are late; p4 never runs.*)
(* Only the calls for a chain may fail.                                    *)
(***************************************************************************)
Resting == state[p2].round = 3 /\ ~state[p2].readyForNextRound
Begun   == /\ \A p \in {p1, p2, p3} : ~state[p].readyForNextRound
           /\ \A c \in proposeCalls : c.to \notin {p1, p3}
Running == ~Resting /\ (state[p2].round > 1 \/ state[p2].step > 1)

\* The calls to p that were made before are still there.
Deaf(p) ==
    /\ {c \in proposeCalls : c.to = p} \subseteq proposeCalls'
    /\ {c \in voteCalls : c.entry[1] = p} \subseteq voteCalls'
    /\ noticeCalls \subseteq noticeCalls'

RunAhead ==
    /\ Deaf(p2) /\ Deaf(p4) /\ state'[p4] = state[p4]
    /\ \A p \in Node : state'[p].agreementTimer
    /\ ~Resting /\ ~Running =>
          \A p \in {p1, p2, p3} : state'[p].step = 1 \/ (p = p2 /\ Begun)
    /\ Running => \A p \in {p1, p3} : Deaf(p) /\ state'[p] = state[p]
    /\ Resting => state'[p2] = state[p2] /\ state'[p3].step = 1
    /\ Cardinality(chainRequests') + Cardinality(chainReplies') <= 1
    /\ errors' # errors => UNCHANGED <<proposeCalls, voteCalls>>

RunAheadSpec == Init /\ [][Next /\ RunAhead]_vars
=============================================================================
