----------------------------- MODULE VersionTally -----------------------------
(***************************************************************************)
(* What the software version metrics promise: every block of a version is  *)
(* counted once, and the values exported for a version add up to the       *)
(* blocks counted so far.                                                  *)
(***************************************************************************)
EXTENDS Naturals

CONSTANT Versions

VARIABLES
    handled,        \* blocks counted for each version
    exported        \* sum of the values exported for each version

vars == <<handled, exported>>

Init ==
    /\ handled = [v \in Versions |-> 0]
    /\ exported = [v \in Versions |-> 0]

HandleVersion(v) ==
    /\ handled' = [handled EXCEPT ![v] = @ + 1]
    /\ UNCHANGED exported

\* An export catches up with everything counted.
ExportVersion(v) ==
    /\ exported' = [exported EXCEPT ![v] = handled[v]]
    /\ UNCHANGED handled

Next == \E v \in Versions : HandleVersion(v) \/ ExportVersion(v)

Spec == Init /\ [][Next]_vars
=============================================================================
