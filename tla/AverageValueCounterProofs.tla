---------------------- MODULE AverageValueCounterProofs ----------------------
(***************************************************************************)
(* The packed counter of src/utils/mod.rs implements the pair of a sum and *)
(* a count, for every width of a half, every set of values and every bound *)
(* on the pushes between two resets that satisfy WidthAssumption.          *)
(***************************************************************************)
EXTENDS AverageValueCounter, TLAPS

\* A word is its two halves, and only those: division and remainder are read
\* off any decomposition whose low part fits in a half.
LEMMA Halves ==
    ASSUME NEW s \in Nat, NEW c \in 0..(Half - 1)
    PROVE  /\ Sum(s * Half + c) = s
           /\ Count(s * Half + c) = c
  BY WidthAssumption DEF Sum, Count

\* Every word is made of its halves.
LEMMA WordIsHalves ==
    ASSUME NEW w \in Nat
    PROVE  /\ Sum(w) \in Nat
           /\ Count(w) \in 0..(Half - 1)
           /\ w = Sum(w) * Half + Count(w)
  BY WidthAssumption DEF Sum, Count

\* A push adds the value to the high half and one to the low half, and the
\* 64-bit wrap-around of fetch_add does nothing, as long as neither is full.
LEMMA PushAddsToHalves ==
    ASSUME NEW w \in Nat, NEW v \in Nat,
           Sum(w) + v < Half, Count(w) + 1 < Half
    PROVE  LET x == (w + Packed(v)) % (Half * Half)
           IN  /\ x \in 0..(Half * Half - 1)
               /\ Sum(x) = Sum(w) + v
               /\ Count(x) = Count(w) + 1
  <1> DEFINE s == Sum(w) + v
             c == Count(w) + 1
             x == (w + Packed(v)) % (Half * Half)
  <1>1. s \in 0..(Half - 1) /\ c \in 0..(Half - 1)
    <2>1. Sum(w) \in Nat /\ Count(w) \in 0..(Half - 1)
      BY WordIsHalves
    <2> QED
      BY <2>1, WidthAssumption
  <1>2. w + Packed(v) = s * Half + c
    <2>1. w = Sum(w) * Half + Count(w) /\ Sum(w) \in Nat /\ Count(w) \in Nat
      BY WordIsHalves, WidthAssumption
    <2>2. (Sum(w) + v) * Half = Sum(w) * Half + v * Half
      BY <2>1, WidthAssumption
    <2> QED
      BY <2>1, <2>2, WidthAssumption DEF Packed
  <1>3. s * Half + c \in 0..(Half * Half - 1)
    <2>1. s * Half <= (Half - 1) * Half
      BY <1>1, WidthAssumption
    <2>2. (Half - 1) * Half = Half * Half - Half
      BY WidthAssumption
    <2>3. s * Half \in Nat /\ Half * Half \in Nat
      BY <1>1, WidthAssumption
    <2> QED
      BY <1>1, <2>1, <2>2, <2>3, WidthAssumption
  <1>4. x = s * Half + c
    <2> HIDE DEF s, c
    <2>1. \A m \in Nat \ {0} : \A n \in 0..(m - 1) : n % m = n
      OBVIOUS
    <2>2. Half * Half \in Nat \ {0}
      BY WidthAssumption
    <2> QED
      BY <1>2, <1>3, <2>1, <2>2
  <1> HIDE DEF s, c, x
  <1>5. Sum(x) = s /\ Count(x) = c
    BY <1>1, <1>4, Halves
  <1> QED
    BY <1>3, <1>4, <1>5 DEF s, c, x

-----------------------------------------------------------------------------
\* The inductive invariant: the type invariant and the separation of the two
\* halves need each other.
IInv == TypeOK /\ HalvesApart

\* One more value still fits in the high half while pushes remain.
LEMMA RoomForOne ==
    ASSUME IInv, pushes < MaxPushes, NEW v \in Values
    PROVE  /\ v \in 0..MaxValue
           /\ Sum(word) + v <= (pushes + 1) * MaxValue
           /\ Sum(word) + v < Half
           /\ Count(word) + 1 < Half
  <1>1. v \in 0..MaxValue /\ pushes \in Nat /\ word \in Nat
    BY WidthAssumption DEF IInv, TypeOK
  <1>2. (pushes + 1) * MaxValue = pushes * MaxValue + MaxValue
    BY <1>1, WidthAssumption
  <1>3. (pushes + 1) * MaxValue <= MaxPushes * MaxValue
    BY <1>1, WidthAssumption
  <1>4. pushes * MaxValue \in Nat /\ MaxPushes * MaxValue \in Nat
    BY <1>1, WidthAssumption
  <1>5. Sum(word) \in Nat
    BY <1>1, WordIsHalves
  <1> QED
    BY <1>1, <1>2, <1>3, <1>4, <1>5, WidthAssumption DEF IInv, HalvesApart

\* The initial states satisfy it, with and without a first sample.
LEMMA InitIInv == Init => IInv
  <1> SUFFICES ASSUME Init PROVE IInv
    OBVIOUS
  <1>1. CASE word = 0 /\ pushes = 0
    <2>1. Sum(0) = 0 /\ Count(0) = 0
      BY WidthAssumption DEF Sum, Count
    <2>2. 0 \in 0..(Half * Half - 1)
      BY WidthAssumption
    <2> QED
      BY <1>1, <2>1, <2>2, WidthAssumption
         DEF Init, IInv, TypeOK, HalvesApart, NoAverage
  <1>2. CASE pushes = 1 /\ \E v \in Values : word = Packed(v)
    <2>1. PICK v \in Values : word = v * Half + 1
      BY <1>2 DEF Packed
    <2>2. v \in 0..MaxValue /\ v <= MaxPushes * MaxValue
      BY WidthAssumption
    <2>3. v < Half /\ 1 < Half
      BY <2>2, WidthAssumption
    <2>4. Sum(word) = v /\ Count(word) = 1
      BY <2>1, <2>2, <2>3, Halves, WidthAssumption
    <2>5. word \in 0..(Half * Half - 1)
      <3>1. v * Half <= (Half - 1) * Half
        BY <2>2, <2>3, WidthAssumption
      <3>2. (Half - 1) * Half = Half * Half - Half
        BY WidthAssumption
      <3> QED
        BY <2>1, <2>2, <2>3, <3>1, <3>2, WidthAssumption
    <2> QED
      BY <1>2, <2>2, <2>4, <2>5, WidthAssumption
         DEF Init, IInv, TypeOK, HalvesApart, NoAverage
  <1> QED
    BY <1>1, <1>2 DEF Init

\* A reset empties both halves, a push leaves room for the pushes still to come.
LEMMA StepIInv == IInv /\ [Next]_vars => IInv'
  <1> SUFFICES ASSUME IInv, [Next]_vars PROVE IInv'
    OBVIOUS
  <1>1. word \in Nat /\ Half * Half \in Nat
    BY WidthAssumption DEF IInv, TypeOK
  <1>2. CASE Reset
    <2>1. Sum(word) \in Nat /\ Count(word) \in Nat
      BY <1>1, WordIsHalves, WidthAssumption
    <2>2. Sum(0) = 0 /\ Count(0) = 0 /\ 0 \in 0..(Half * Half - 1)
      BY WidthAssumption DEF Sum, Count
    <2> QED
      BY <1>2, <2>1, <2>2, WidthAssumption
         DEF Reset, IInv, TypeOK, HalvesApart, NoAverage, Sum, Count
  <1>3. ASSUME NEW v \in Values, Push(v)
        PROVE  IInv'
    <2>1. /\ v \in 0..MaxValue
          /\ Sum(word) + v <= (pushes + 1) * MaxValue
          /\ Sum(word) + v < Half
          /\ Count(word) + 1 < Half
      BY <1>3, RoomForOne DEF Push
    <2>2. /\ word' \in 0..(Half * Half - 1)
          /\ Sum(word') = Sum(word) + v
          /\ Count(word') = Count(word) + 1
      BY <1>1, <1>3, <2>1, PushAddsToHalves DEF Push
    <2> QED
      BY <1>3, <2>1, <2>2, WidthAssumption
         DEF Push, IInv, TypeOK, HalvesApart, Sum, Count
  <1>4. CASE UNCHANGED vars
    BY <1>4 DEF vars, IInv, TypeOK, HalvesApart, Sum, Count
  <1> QED
    BY <1>2, <1>3, <1>4 DEF Next

\* The counter stays within its word and a push never carries from the count
\* into the sum (src/src/utils/mod.rs:11-14).
THEOREM HalvesStayApart == Spec => [](TypeOK /\ HalvesApart)
  <1>1. Spec => []IInv
    BY InitIInv, StepIInv, PTL DEF Spec
  <1> QED
    BY <1>1, PTL DEF IInv

-----------------------------------------------------------------------------
\* A fresh counter is a fresh sum and count.
LEMMA InitImplements == Init => Abstract!Init
  <1> SUFFICES ASSUME Init PROVE Abstract!Init
    OBVIOUS
  <1>1. CASE word = 0
    BY <1>1, WidthAssumption
       DEF Init, Abstract!Init, Abstract!NoAverage, NoAverage, Sum, Count
  <1>2. CASE pushes = 1 /\ \E v \in Values : word = Packed(v)
    <2>1. PICK v \in Values : word = v * Half + 1
      BY <1>2 DEF Packed
    <2>2. v \in Nat /\ 1 \in 0..(Half - 1)
      BY WidthAssumption
    <2>3. Sum(word) = v /\ Count(word) = 1
      BY <2>1, <2>2, Halves
    <2> QED
      BY <2>3 DEF Init, Abstract!Init, Abstract!NoAverage, NoAverage
  <1> QED
    BY <1>1, <1>2 DEF Init

\* A push is a push and a reset is a reset.
LEMMA StepImplements == IInv /\ [Next]_vars => [Abstract!Next]_(Abstract!vars)
  <1> SUFFICES ASSUME IInv, [Next]_vars
               PROVE  [Abstract!Next]_(Abstract!vars)
    OBVIOUS
  <1>1. word \in Nat
    BY WidthAssumption DEF IInv, TypeOK
  <1>2. CASE Reset
    BY <1>2, WidthAssumption
       DEF Reset, Abstract!Next, Abstract!Reset, Abstract!Average,
           Abstract!NoAverage, NoAverage, Sum, Count
  <1>3. ASSUME NEW v \in Values, Push(v)
        PROVE  Abstract!Next
    <2>1. Sum(word) + v < Half /\ Count(word) + 1 < Half /\ v \in Nat
      BY <1>3, RoomForOne DEF Push
    <2>2. Sum(word') = Sum(word) + v /\ Count(word') = Count(word) + 1
      BY <1>1, <1>3, <2>1, PushAddsToHalves DEF Push
    <2> QED
      BY <1>3, <2>2 DEF Push, Abstract!Next, Abstract!Push, Sum, Count
  <1>4. CASE UNCHANGED vars
    BY <1>4 DEF vars, Abstract!vars
  <1> QED
    BY <1>2, <1>3, <1>4 DEF Next

\* The packed word refines the unbounded pair, whatever the interleaving of
\* pushes and resets: no push is lost, counted twice or spilled.
THEOREM Implements == Spec => ImplementsAverage
  <1>1. Spec => []IInv
    BY InitIInv, StepIInv, PTL DEF Spec
  <1> QED
    BY <1>1, InitImplements, StepImplements, PTL
       DEF Spec, Abstract!Spec, ImplementsAverage
=============================================================================
