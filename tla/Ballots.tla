------------------------------- MODULE Ballots -------------------------------
(***************************************************************************)
(* What the peers promise about their votes, without how they vote.  Each  *)
(* peer moves forward through rounds, periods and steps.  On its way it    *)
(* may cast one vote in a step, and only as it passes that step; it        *)
(* certifies a value only when as many peers as it requires have cast a    *)
(* soft-vote for it.  Serve implements this (see ServeProperties).         *)
(***************************************************************************)
EXTENDS Naturals, FiniteSets

CONSTANT Node

VARIABLES
    place,      \* place[p]: the round, period and step that p is in
    ballots     \* the votes cast, each with the number of votes its peer requires

AtOrAfter(a, b) ==
    \/ a.round > b.round
    \/ a.round = b.round /\ a.period > b.period
    \/ a.round = b.round /\ a.period = b.period /\ a.step >= b.step

SameStep(a, b) == a.round = b.round /\ a.period = b.period /\ a.step = b.step

SoftVoters(v) ==
    {x.vote.peer : x \in {y \in ballots :
        /\ y.vote.voteType = "soft" /\ y.vote.value = v.value
        /\ y.vote.round = v.round /\ y.vote.period = v.period}}

Init ==
    /\ place = [p \in Node |-> [round |-> 1, period |-> 1, step |-> 1]]
    /\ ballots = {}

\* Peer p goes from a place to a later one, or stays.
Move(p) ==
    /\ place' = [place EXCEPT ![p] = place'[p]]
    /\ AtOrAfter(place'[p], place[p])

\* A ballot of p that is allowed where p is.
Allowed(p, x) ==
    /\ x.vote.peer = p
    /\ AtOrAfter(x.vote, place[p])
    /\ \A y \in ballots : ~(y.vote.peer = p /\ SameStep(x.vote, y.vote))
    /\ x.vote.voteType = "cert" => Cardinality(SoftVoters(x.vote)) >= x.required

Cast(p) ==
    /\ Move(p)
    /\ \E x \in ballots' :
          /\ Allowed(p, x) /\ AtOrAfter(place'[p], x.vote)
          /\ ballots' = ballots \cup {x}

Next == \E p \in Node : (Move(p) /\ UNCHANGED ballots) \/ Cast(p)

Spec == Init /\ [][Next]_<<place, ballots>>

=============================================================================
