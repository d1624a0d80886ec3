------------------------------ MODULE Agreement ------------------------------
(***************************************************************************)
(* The decision functions of server/agreement.go.  Each of them scans a    *)
(* tally (a Go map from a value to its number of votes) for the value with *)
(* most votes, and compares that number with requiredVotes.                *)
(*                                                                         *)
(* A tally is a function from values to naturals; a key absent from the Go *)
(* map has count 0.  Go visits the keys of a map in an unspecified order,  *)
(* so a tie is broken arbitrarily: every function below returns the SET of *)
(* values the Go function may return.                                      *)
(***************************************************************************)
EXTENDS Naturals, FiniteSets

CONSTANTS
    Bottom,     \* the reserved value "_|_"
    Empty,      \* the empty string, Go's "no value"
    Err         \* the string "err" that runStep1 returns

ASSUME ReservedAssumption ==
    Bottom # Empty /\ Err # Bottom /\ Err # Empty

(***************************************************************************)
(* The loop "find max value": numVotes > votes starting from ("", 0).      *)
(***************************************************************************)
MostVoted(votes) ==
    {v \in DOMAIN votes : /\ votes[v] > 0
                          /\ \A w \in DOMAIN votes : votes[w] <= votes[v]}

Scan(votes) ==
    IF MostVoted(votes) = {}
    THEN {[value |-> Empty, votes |-> 0]}
    ELSE {[value |-> v, votes |-> votes[v]] : v \in MostVoted(votes)}

\* What the next-votes of the previous period say; there is none before period 2.
LastPeriod(period, lastNextVotes) ==
    IF period > 1 THEN Scan(lastNextVotes) ELSE {[value |-> Empty, votes |-> 0]}

\* Step 1: Empty means "propose a new block", a value means "propose it again".
runStep1(period, lastNextVotes, requiredVotes) ==
    {IF period = 1 \/ (s.value = Bottom /\ s.votes >= requiredVotes) THEN Empty
     ELSE IF s.votes >= requiredVotes THEN s.value
     ELSE Err : s \in LastPeriod(period, lastNextVotes)}

\* Step 2: the soft-vote.  "led" says that the vote follows the leader, whose
\* block has hash leaderValue; then the caller also records the leader.
runStep2(period, lastNextVotes, requiredVotes, leaderValue) ==
    {IF period = 1 \/ (s.value = Bottom /\ s.votes >= requiredVotes)
     THEN [led |-> TRUE, value |-> leaderValue]
     ELSE [led |-> FALSE,
           value |-> IF s.votes >= requiredVotes THEN s.value ELSE Empty] :
        s \in LastPeriod(period, lastNextVotes)}

\* Faulty variants of runStep3: one vote too few is enough; the loop keeps the
\* last value it sees, without comparing counts.
runStep3OneLess(softVotes, requiredVotes) ==
    {IF s.value # Bottom /\ s.votes + 1 >= requiredVotes THEN s.value ELSE Empty :
        s \in Scan(softVotes)}

runStep3LastSeen(softVotes, requiredVotes) ==
    LET seen == {v \in DOMAIN softVotes \ {Bottom} : softVotes[v] > 0}
    IN IF seen = {} THEN {Empty} ELSE seen

\* Step 3: the cert-vote.
runStep3(softVotes, requiredVotes) ==
    {IF s.value # Bottom /\ s.votes >= requiredVotes THEN s.value ELSE Empty :
        s \in Scan(softVotes)}

\* Step 4: the first next-vote.
runStep4(period, myCertVote, startingValue, lastNextVotes, requiredVotes) ==
    {IF myCertVote # Empty THEN myCertVote
     ELSE IF period >= 2 /\ s.value = Bottom /\ s.votes >= requiredVotes THEN Bottom
     ELSE startingValue : s \in LastPeriod(period, lastNextVotes)}

\* Step 5: the second next-vote, tried again on every tick until it is cast.
runStep5(period, softVotes, myCertVote, lastNextVotes, requiredVotes) ==
    {IF s.value # Bottom /\ s.votes >= requiredVotes THEN s.value
     ELSE IF /\ period > 1
             /\ l.value = Bottom /\ l.votes >= requiredVotes
             /\ myCertVote = Empty
          THEN Bottom
     ELSE Empty : s \in Scan(softVotes), l \in LastPeriod(period, lastNextVotes)}

\* The value with requiredVotes cert-votes, if there is one.
checkHaltingCondition(certVotes, requiredVotes) ==
    {IF s.votes >= requiredVotes THEN s.value ELSE Empty : s \in Scan(certVotes)}

\* The value with requiredVotes next-votes, if there is one.
checkNextPeridCondition(nextVotes, requiredVotes) ==
    {IF s.votes >= requiredVotes THEN s.value ELSE Empty : s \in Scan(nextVotes)}

=============================================================================
