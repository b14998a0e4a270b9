----------------------------- MODULE LocationCache -----------------------------
(***************************************************************************)
(* Nodes whose addresses have the same coordinates are moved apart, on the *)
(* cells of a square spiral around their place: LocationCache and spiral   *)
(* of src/geoip-resolver/src/geo_data.rs.  Coordinates are offsets from    *)
(* the place in units of the step.                                         *)
(***************************************************************************)
EXTENDS Integers, Sequences

CONSTANTS
    Places,     \* canonical coordinates, as convert_f64 makes them
    MaxNodes    \* bound: nodes at one place

ASSUME LocationCacheAssumption == MaxNodes \in Nat

VARIABLES
    counter,    \* nodes located at each place; the cache has no entry for none
    adjusted    \* history: the cells given out at each place, in order

vars == <<counter, adjusted>>

-----------------------------------------------------------------------------
Square(x) == x * x

\* The square of side 2k + 1 around the place is the least that holds n cells:
\* what rounding (sqrt(n) - 1) / 2 up computes.
InRing(n, k) == n <= Square(2*k + 1) /\ (k = 0 \/ Square(2*k - 1) < n)

\* Mutant: rounded down and one added, a ring is left one cell early.
RingTooEarly(n) ==
    CHOOSE k \in 0..n : n < Square(2*k + 1) /\ (k = 0 \/ Square(2*k - 1) <= n)

Ring(n) == CHOOSE k \in 0..n : InRing(n, k)

\* Mutant: the side's length is not lessened by one.
SpiralLongSides(n) ==
    LET k == Ring(n)
        t == 2*k + 1
        m == Square(2*k + 1)
    IN  IF n >= m - t THEN <<k - (m - n), -k>>
        ELSE IF n >= m - 2*t THEN <<-k, -k + (m - t - n)>>
        ELSE IF n >= m - 3*t THEN <<-k + (m - 2*t - n), k>>
        ELSE <<k, k - (m - 3*t - n)>>

\* The n-th cell, on one of the four sides of ring k, each of t cells; m is the
\* last cell of the ring.
spiral(n) ==
    LET k == Ring(n)
        t == 2*k
        m == Square(2*k + 1)
    IN  IF n >= m - t THEN <<k - (m - n), -k>>
        ELSE IF n >= m - 2*t THEN <<-k, -k + (m - t - n)>>
        ELSE IF n >= m - 3*t THEN <<-k + (m - 2*t - n), k>>
        ELSE <<k, k - (m - 3*t - n)>>

-----------------------------------------------------------------------------
Init ==
    /\ counter = [p \in Places |-> 0]
    /\ adjusted = [p \in Places |-> <<>>]

adjust(p) ==
    /\ counter[p] < MaxNodes
    /\ counter' = [counter EXCEPT ![p] = @ + 1]
    /\ adjusted' = [adjusted EXCEPT ![p] = Append(@, spiral(counter'[p]))]

Next == \E p \in Places : adjust(p)

-----------------------------------------------------------------------------
TypeOK ==
    /\ counter \in [Places -> Nat]
    /\ adjusted \in [Places -> Seq(Int \X Int)]
    /\ \A p \in Places : Len(adjusted[p]) = counter[p]

\* No two nodes of one place get the same cell, however many there are, across
\* the corners and from one ring to the next (geo_data.rs:283-322).
DistinctCells ==
    \A p \in Places : \A i, j \in 1..counter[p] :
        adjusted[p][i] = adjusted[p][j] => i = j

Within(cell, k) == cell[1] \in -k..k /\ cell[2] \in -k..k

\* The nodes of a place stay in the smallest square around it that has a cell
\* for each of them, so that the first is not moved at all (geo_data.rs:300,
\* 305-321).
SmallestSquare ==
    \A p \in Places : \A k \in 0..counter[p] :
        counter[p] <= Square(2*k + 1) =>
            \A i \in 1..counter[p] : Within(adjusted[p][i], k)
=============================================================================
