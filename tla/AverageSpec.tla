----------------------------- MODULE AverageSpec -----------------------------
(***************************************************************************)
(* What an AverageValueCounter promises its users: it accumulates pushed   *)
(* values and the number of pushes, and a reset hands both over at once    *)
(* and starts again from nothing.  The sum and the count have no width     *)
(* here; AverageValueCounter packs them into one machine word.             *)
(***************************************************************************)
EXTENDS Integers

CONSTANT Values     \* the values that may be pushed

VARIABLES
    sum,            \* sum of the values pushed since the last reset
    count,          \* number of pushes since the last reset
    out             \* what the last reset returned

vars == <<sum, count, out>>

\* The average is kept as its numerator and denominator; a reset of a counter
\* nothing was pushed to returns no average.
NoAverage == [total |-> 0, samples |-> 0]
Average(total, samples) == [total |-> total, samples |-> samples]

Init ==
    /\ \/ sum = 0 /\ count = 0
       \/ sum \in Values /\ count = 1
    /\ out = NoAverage

Push(v) ==
    /\ sum' = sum + v
    /\ count' = count + 1
    /\ UNCHANGED out

Reset ==
    /\ out' = IF count > 0 THEN Average(sum, count) ELSE NoAverage
    /\ sum' = 0
    /\ count' = 0

Next == Reset \/ \E v \in Values : Push(v)

Spec == Init /\ [][Next]_vars
=============================================================================
