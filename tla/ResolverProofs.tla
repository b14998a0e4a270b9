---------------------------- MODULE ResolverProofs ----------------------------
(***************************************************************************)
(* The resolver, for any set of validators and any number of permits.      *)
(***************************************************************************)
EXTENDS Resolver, FiniteSetTheorems, TLAPS

\* Lookups exist in a round only, and a first round starts from nothing.
RoundsApart ==
    /\ pc # "lookup" => futures = {}
    /\ pc = "round" => validator_ips = {} /\ remaining = validator_set.keys

IInv == TypeOK /\ RoundsApart /\ IpsOfTheSet /\ NobodyForgotten

-----------------------------------------------------------------------------
\* The set the channel is made with is a validator set.
LEMMA DefaultSetType == DefaultSet \in ValidatorSet /\ DefaultSet.adnl = {}
  BY DEF DefaultSet, ValidatorSet

\* What a validator set consists of.
LEMMA ValidatorSetType ==
    ASSUME NEW s \in ValidatorSet
    PROVE  s.keys \subseteq Validators /\ s.adnl \subseteq s.keys
  BY DEF ValidatorSet

\* One more permit is handed out only below the limit.
LEMMA PermitAdded ==
    ASSUME NEW P \in SUBSET Validators, NEW v \in Validators \ P, Cardinality(P) < MaxParallel
    PROVE  Cardinality(P \cup {v}) <= MaxParallel
  <1>1. IsFiniteSet(P)
    BY ResolverAssumption, FS_Subset
  <1>2. Cardinality(P) \in Nat /\ Cardinality(P \cup {v}) = Cardinality(P) + 1
    BY <1>1, FS_CardinalityType, FS_AddElement
  <1> QED
    BY <1>2, ResolverAssumption

\* Permits that are given back leave room.
LEMMA PermitsDropped ==
    ASSUME NEW P \in SUBSET Validators, NEW Q \in SUBSET P, Cardinality(P) <= MaxParallel
    PROVE  Cardinality(Q) <= MaxParallel
  <1>1. IsFiniteSet(P)
    BY ResolverAssumption, FS_Subset
  <1>2. IsFiniteSet(Q) /\ Cardinality(Q) <= Cardinality(P)
    BY <1>1, FS_Subset
  <1>3. Cardinality(P) \in Nat /\ Cardinality(Q) \in Nat
    BY <1>1, <1>2, FS_CardinalityType
  <1> QED
    BY <1>2, <1>3, ResolverAssumption

\* The task starts with nothing shown and nothing looked for.
LEMMA InitIInv == Init => IInv
  <1> SUFFICES ASSUME Init PROVE IInv
    OBVIOUS
  <1>1. Cardinality({}) <= MaxParallel
    BY FS_EmptySet, ResolverAssumption
  <1>2. TypeOK
    BY <1>1, DefaultSetType DEF Init, Chan!Subscribed, TypeOK
  <1> QED
    BY <1>2, DefaultSetType DEF Init, IInv, RoundsApart, IpsOfTheSet, NobodyForgotten

\* The invariant survives a step of the lookups of a round.
LEMMA LookupIInv ==
    ASSUME IInv, NEW v \in Validators, Acquire(v) \/ Answer(v)
    PROVE  IInv'
  <1> USE DEF IInv, TypeOK, RoundsApart, IpsOfTheSet, NobodyForgotten, channel, lookups
  <1>1. CASE Acquire(v)
    <2>1. Cardinality(permits \cup {v}) <= MaxParallel
      BY <1>1, PermitAdded DEF Acquire
    <2> QED
      BY <1>1, <2>1 DEF Acquire
  <1>2. CASE Answer(v)
    <2>1. Complete(v)
      BY <1>2 DEF Answer, Found, NotFound
    <2>2. Cardinality(permits \ {v}) <= MaxParallel
      BY PermitsDropped
    <2>3. CASE Found(v)
      BY <2>1, <2>2, <2>3 DEF Found, Complete
    <2>4. CASE NotFound(v)
      BY <2>1, <2>2, <2>4 DEF NotFound, Complete
    <2> QED
      BY <1>2, <2>3, <2>4 DEF Answer
  <1> QED
    BY <1>1, <1>2

\* The invariant survives every step of the task, the subscriber and shutdown.
LEMMA StepIInv == IInv /\ [Next]_vars => IInv'
  <1> SUFFICES ASSUME IInv, [Next]_vars PROVE IInv'
    OBVIOUS
  <1>0. Cardinality({}) <= MaxParallel
    BY FS_EmptySet, ResolverAssumption
  <1>1. ASSUME NEW v \in Validators, Acquire(v) \/ Answer(v) PROVE IInv'
    BY <1>1, LookupIInv
  <1> USE DEF IInv, TypeOK, RoundsApart, IpsOfTheSet, NobodyForgotten, channel, lookups
  <1>2. ASSUME NEW s \in ValidatorSet, Send(s) PROVE IInv'
    BY <1>2 DEF Send, Chan!SendReplace
  <1>3. CASE Shutdown
    BY <1>3 DEF Shutdown, Chan!DropSender
  <1>4. CASE Borrow
    BY <1>4 DEF Borrow, Chan!BorrowAndUpdate
  <1>5. CASE Clear
    BY <1>5, ValidatorSetType DEF Clear
  <1>6. CASE StartRound
    BY <1>6, ValidatorSetType DEF StartRound
  <1>7. CASE EndRound
    BY <1>7 DEF EndRound
  <1>8. CASE Changed
    BY <1>0, <1>8 DEF Changed, Chan!ChangedOk, Chan!BorrowAndUpdate
  <1>9. CASE Stop
    BY <1>0, <1>9 DEF Stop, Chan!ChangedErr, Chan!channel
  <1>10. CASE UNCHANGED vars
    BY <1>10 DEF vars
  <1> QED
    BY <1>1, <1>2, <1>3, <1>4, <1>5, <1>6, <1>7, <1>8, <1>9, <1>10 DEF Next, Advance

\* IInv is an invariant of the resolver.
LEMMA Invariant == Spec => []IInv
  BY InitIInv, StepIInv, PTL DEF Spec

\* The number of lookups in flight never exceeds the semaphore's permits, and a
\* cancelled round gives all of its permits back.
THEOREM TypeCorrect == Spec => []TypeOK
  BY Invariant, PTL DEF IInv

\* No address of a set that was replaced is shown once the new set's lookups
\* have begun.
THEOREM NoLateAddress == Spec => []IpsOfTheSet
  BY Invariant, PTL DEF IInv

\* Every validator with an adnl address is shown or still looked for.
THEOREM AllAccountedFor == Spec => []NobodyForgotten
  BY Invariant, PTL DEF IInv

-----------------------------------------------------------------------------
\* The task works on the newest set unless there is a notification that it has
\* not seen, or it is about to look at the channel; it never waits, or ends, with
\* an older one.
WorksOnNewest == ~fresh /\ pc # "borrow" => validator_set = value

\* Where nothing is left to do the addresses shown are those of the newest set.
SettledOnNewest == WorksOnNewest /\ (~fresh /\ pc = "wait" => validator_ips = value.adnl)

LEMMA StepNewest == WorksOnNewest /\ [Next]_vars => WorksOnNewest'
  <1> SUFFICES ASSUME WorksOnNewest, [Next]_vars PROVE WorksOnNewest'
    OBVIOUS
  <1> USE DEF WorksOnNewest, channel
  <1>1. ASSUME NEW s \in ValidatorSet, Send(s) PROVE WorksOnNewest'
    BY <1>1 DEF Send, Chan!SendReplace
  <1>2. CASE Borrow \/ Changed \/ Stop
    BY <1>2 DEF Borrow, Changed, Stop, Chan!BorrowAndUpdate, Chan!ChangedOk, Chan!ChangedErr,
                Chan!channel
  <1>3. ASSUME UNCHANGED <<value, fresh, validator_set>>, pc # "borrow" PROVE WorksOnNewest'
    BY <1>3
  <1>4. ASSUME UNCHANGED <<value, fresh, validator_set, pc>> PROVE WorksOnNewest'
    BY <1>4
  <1> QED
    BY <1>1, <1>2, <1>3, <1>4
       DEF Next, Advance, Shutdown, Clear, StartRound, EndRound, Acquire, Answer, Found, NotFound,
           Complete, vars, Chan!DropSender

\* No set is missed, whenever it is sent: a set that replaced another in the
\* channel, one sent between a look at the channel and the wait for a change, and
\* one sent just before the sender was dropped (ton_subscriber.rs:412, 471-486).
THEOREM NoSetMissed == Spec => []SettledOnNewest
  <1>1. Init => WorksOnNewest
    BY DEF Init, WorksOnNewest
  <1>2. IInv /\ WorksOnNewest => SettledOnNewest
    BY DEF IInv, WorksOnNewest, SettledOnNewest, NobodyForgotten
  <1> QED
    BY <1>1, <1>2, Invariant, StepNewest, PTL DEF Spec
=============================================================================
