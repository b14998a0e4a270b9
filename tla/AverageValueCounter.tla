------------------------- MODULE AverageValueCounter -------------------------
(***************************************************************************)
(* src/src/utils/mod.rs: an average kept in one AtomicU64, the sum of the  *)
(* pushed values in its high half and the number of pushes in its low      *)
(* half.  A push is one fetch_add and a reset is one swap, so any number   *)
(* of threads may call them: every step below is atomic in the code too.   *)
(* fetch_add wraps and nothing stops the low half from carrying into the   *)
(* high one; callers must reset often enough.                              *)
(***************************************************************************)
EXTENDS Integers

CONSTANTS
    Half,           \* 2^32 in the code: the modulus of one half of the word
    Values,         \* the u32 values that are pushed
    MaxValue,       \* an upper bound of Values
    MaxPushes       \* bound: pushes between two resets

\* A reset comes before either half of the word is full.  The exporter resets
\* the counters on every export of a ready node, so for 2^32 and per-block
\* transaction counts this holds by a wide margin.
ASSUME WidthAssumption ==
    /\ Half \in Nat \ {0} /\ MaxValue \in Nat /\ MaxPushes \in Nat \ {0}
    /\ Values \subseteq 0..MaxValue
    /\ MaxPushes < Half
    /\ MaxPushes * MaxValue < Half

VARIABLES
    word,           \* the AtomicU64
    out,            \* what the last reset returned
    pushes          \* history: pushes since the last reset

vars == <<word, out, pushes>>

Sum(w) == w \div Half       \* value >> 32
Count(w) == w % Half        \* value as u32

\* (value << 32) | 1: what with_value stores and push adds
Packed(v) == v * Half + 1

NoAverage == [total |-> 0, samples |-> 0]

\* Default is the zero word, with_value starts with one sample.
Init ==
    /\ \/ word = 0 /\ pushes = 0
       \/ /\ \E v \in Values : word = Packed(v)
          /\ pushes = 1
    /\ out = NoAverage

Push(v) ==
    /\ pushes < MaxPushes
    /\ word' = (word + Packed(v)) % (Half * Half)
    /\ pushes' = pushes + 1
    /\ UNCHANGED out

\* Mutant: only the low half is cleared.
ResetCountOnly ==
    /\ out' = [total |-> Sum(word), samples |-> Count(word)]
    /\ word' = word - Count(word)
    /\ pushes' = 0

Reset ==
    /\ out' = IF Count(word) > 0
                THEN [total |-> Sum(word), samples |-> Count(word)]
                ELSE NoAverage
    /\ word' = 0
    /\ pushes' = 0

Next == Reset \/ \E v \in Values : Push(v)

Spec == Init /\ [][Next]_vars

-----------------------------------------------------------------------------
\* The word is a 64-bit word, and no reset returns more than the pushes between
\* two resets can have put there.
TypeOK ==
    /\ word \in 0..(Half * Half - 1)
    /\ out \in [total : 0..(MaxPushes * MaxValue), samples : 0..MaxPushes]
    /\ pushes \in 0..MaxPushes

\* Neither half spills: the low half still is the number of pushes and the
\* high half could still take the remaining pushes (src/src/utils/mod.rs:11-14).
HalvesApart ==
    /\ Count(word) = pushes
    /\ Sum(word) <= pushes * MaxValue

Abstract == INSTANCE AverageSpec
                WITH sum <- Sum(word), count <- Count(word)

\* The packed word behaves as the pair of an unbounded sum and an unbounded
\* count: no push is lost or counted twice, and no count leaks into the sum.
ImplementsAverage == Abstract!Spec
=============================================================================
