------------------------------ MODULE Sortition ------------------------------
(***************************************************************************)
(* The lottery that makes a peer a potential leader: hashByteTo01, find    *)
(* and isPotentialLeader of util.go.                                       *)
(*                                                                         *)
(* The first eight bytes of the hash are a number of Width = 64 bits.  Its *)
(* conversion to a float64 keeps Precision = 53 significant bits, rounding *)
(* to the nearest float64; TLC's integers are too short for these widths,  *)
(* so an instance scales both down.  A quotient x is the fraction <<n, d>> *)
(* = n / d.  The code rounds quotients too, which changes the answers to   *)
(* neither x < 1 nor h < 0.15: the powers of ten are exact, and quotients  *)
(* of a float64 on different sides of 1, or of 0.15, stay there.           *)
(***************************************************************************)
EXTENDS Naturals

CONSTANTS
    Width,      \* bits of the hash that are used
    Precision   \* significant bits of a float

VARIABLES
    hash,   \* the number in the hash
    data,   \* hash as a float
    i,      \* the loop variable of find
    x       \* the result of find, or Running

vars == <<hash, data, i, x>>
Running == <<>>

\* The distance between floats around n: a power of two, 1 for small numbers.
Unit(n) ==
    IF n < 2^Precision THEN 1
    ELSE 2^(CHOOSE e \in 1 .. Width : n \div 2^e \in 2^(Precision - 1) .. 2^Precision - 1)

\* float64(n): the nearest multiple of the unit, the even one of two.
float64(n) ==
    LET u == Unit(n)
        low == n \div u
        up == 2 * (n % u) > u \/ (2 * (n % u) = u /\ low % 2 = 1)
    IN (IF up THEN low + 1 ELSE low) * u

\* Exponents of ten: 10^k is above all numbers of Width bits for the last one.
Exponents == 0 .. Width \div 3 + 1

\* The powers of ten that find divides by are floats.
ASSUME SortitionAssumption ==
    /\ Width \in Nat /\ Precision \in Nat \ {0}
    /\ \A k \in Exponents : float64(10^k) = 10^k

\* hashByteTo01: the conversion, and the call of find.
Init ==
    /\ hash \in 0 .. 2^Width - 1 /\ data = float64(hash)
    /\ i = 10 /\ x = Running

\* Faulty variant of Iterate: a quotient of 1 is returned too.
IterateUpToOne ==
    /\ x = Running
    /\ \/ data <= i /\ x' = <<data, i>> /\ UNCHANGED i
       \/ data > i /\ i' = i * 10 /\ UNCHANGED x
    /\ UNCHANGED <<hash, data>>

\* An iteration of the loop of find.
Iterate ==
    /\ x = Running
    /\ \/ data < i /\ x' = <<data, i>> /\ UNCHANGED i
       \/ data >= i /\ i' = i * 10 /\ UNCHANGED x
    /\ UNCHANGED <<hash, data>>

Next == Iterate

Spec == Init /\ [][Next]_vars

isPotentialLeader(h) == h[1] > 0 /\ 100 * h[1] < 15 * h[2]

-----------------------------------------------------------------------------
\* The digits of n begin with 1, but not with 15 to 19.
LeadingDigits(n) == \E k \in Exponents : 10^k <= n /\ 2 * n < 3 * 10^k

(***************************************************************************)
(* A peer is elected on the leading digits of its hash, whatever its       *)
(* length: 1, or 10 to 14 followed by any digits.  A quotient below the    *)
(* bound 0.15 can have no other form because find is never below 0.1 but   *)
(* for zero, which isPotentialLeader excludes.  The exception are hashes   *)
(* just below 10...0, which are elected, and just below 15...0, which are  *)
(* not, if the float next to them, at most half a unit away, is that       *)
(* number itself.                                                          *)
(***************************************************************************)
ElectedOnLeadingDigits ==
    x # Running =>
        \/ isPotentialLeader(x) <=> LeadingDigits(hash)
        \/ \E k \in Exponents :
              /\ hash < data /\ 2 * (data - hash) <= Unit(hash)
              /\ \/ data = 10^k /\ isPotentialLeader(x)
                 \/ 2 * data = 3 * 10^k /\ ~isPotentialLeader(x)

=============================================================================
