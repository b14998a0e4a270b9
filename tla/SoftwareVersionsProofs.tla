------------------------ MODULE SoftwareVersionsProofs ------------------------
(***************************************************************************)
(* For any number of handlers, versions and blocks: the lock discipline of *)
(* SoftwareVersions, that it implements VersionTally, that every block is  *)
(* counted once, and that nobody is stuck at the lock.                     *)
(***************************************************************************)
EXTENDS SoftwareVersions, FiniteSetTheorems, TLAPS

\* What a count in the map becomes, whether or not the version was there.
LEMMA CountedAddsOne ==
    ASSUME TypeOK, NEW v \in Versions
    PROVE  LET m == Counted(versions, v)
           IN  /\ DOMAIN m = DOMAIN versions \cup {v}
               /\ m[v] = Pending[v] + 1
               /\ \A w \in DOMAIN versions \ {v} : m[w] = versions[w]
               /\ \A w \in DOMAIN m : m[w] \in Nat
  BY DEF TypeOK, Counted, Pending

\* The terms of the balance are numbers.
LEMMA PendingType ==
    ASSUME TypeOK
    PROVE  \A v \in Versions : Pending[v] \in Nat /\ exported[v] \in Nat /\ started[v] \in Nat
  BY DEF TypeOK, Pending

-----------------------------------------------------------------------------
\* The map starts empty and the lock free.
LEMMA InitTypeOK == Init => TypeOK
  BY DEF Init, TypeOK, Lock!Free, Lock!LockTypeOK

\* The type invariant is inductive: nothing is removed from the map, so the
\* exporter's walk stays within it.
LEMMA StepTypeOK == TypeOK /\ [Next]_vars => TypeOK'
  <1> SUFFICES ASSUME TypeOK, [Next]_vars PROVE TypeOK'
    OBVIOUS
  <1> USE DEF TypeOK, Lock!LockTypeOK, lock
  <1>1. ASSUME NEW h \in Handlers, NEW v \in Versions, Begin(h, v) PROVE TypeOK'
    BY <1>1 DEF Begin, Goto
  <1>2. ASSUME NEW h \in Handlers, LockRead(h) PROVE TypeOK'
    BY <1>2 DEF LockRead, Goto, Lock!AcquireRead
  <1>3. ASSUME NEW h \in Handlers, CountKnown(h) PROVE TypeOK'
    BY <1>3 DEF CountKnown, Goto, Lock!ReleaseRead
  <1>4. ASSUME NEW h \in Handlers, LookupMiss(h) PROVE TypeOK'
    BY <1>4 DEF LookupMiss, Goto, Lock!ReleaseRead
  <1>5. ASSUME NEW h \in Handlers, LockWrite(h) PROVE TypeOK'
    BY <1>5 DEF LockWrite, Lock!RequestWrite
  <1>6. ASSUME NEW h \in Handlers, CountNew(h) PROVE TypeOK'
    <2>1. version[h] \in Versions
      OBVIOUS
    <2>2. /\ DOMAIN versions' = DOMAIN versions \cup {version[h]}
          /\ \A w \in DOMAIN versions' : versions'[w] \in Nat
      BY <1>6, <2>1, CountedAddsOne DEF CountNew
    <2> QED
      BY <1>6, <2>1, <2>2 DEF CountNew, Goto, Lock!ReleaseWrite, Lock!HoldsWrite
  <1>7. CASE BeginWalk
    BY <1>7, VersionsAssumption DEF BeginWalk, Lock!AcquireRead
  <1>8. ASSUME NEW v \in Versions, Swap(v) PROVE TypeOK'
    BY <1>8 DEF Swap
  <1>9. CASE EndWalk
    BY <1>9, VersionsAssumption DEF EndWalk, Lock!ReleaseRead
  <1>10. CASE UNCHANGED vars
    BY <1>10 DEF vars
  <1> QED
    BY <1>1, <1>2, <1>3, <1>4, <1>5, <1>6, <1>7, <1>8, <1>9, <1>10
       DEF Next, Lookup, Export

\* Counts, lock and walk are what they should be, at any time.
THEOREM TypeCorrect == Spec => []TypeOK
  BY InitTypeOK, StepTypeOK, PTL DEF Spec

-----------------------------------------------------------------------------
\* A handler that counts its block is done with it, and one more is pending.
LEMMA CountStep ==
    ASSUME TypeOK, NEW h \in Handlers, CountKnown(h) \/ CountNew(h)
    PROVE  /\ pc[h] # "idle" /\ pc' = [pc EXCEPT ![h] = "idle"]
           /\ Pending' = [Pending EXCEPT ![version[h]] = @ + 1]
           /\ UNCHANGED <<version, started, exported>>
  <1>1. version[h] \in Versions
    BY DEF TypeOK
  <1>2. CASE CountKnown(h)
    BY <1>1, <1>2 DEF CountKnown, Goto, TypeOK, Pending
  <1>3. CASE CountNew(h)
    <2>1. /\ DOMAIN versions' = DOMAIN versions \cup {version[h]}
          /\ versions'[version[h]] = Pending[version[h]] + 1
          /\ \A w \in DOMAIN versions \ {version[h]} : versions'[w] = versions[w]
      BY <1>1, <1>3, CountedAddsOne DEF CountNew
    <2> QED
      BY <1>1, <1>3, <2>1 DEF CountNew, Goto, Pending
  <1> QED
    BY <1>2, <1>3

\* A swap moves all that is pending for a version to the export.
LEMMA SwapStep ==
    ASSUME TypeOK, NEW v \in Versions, Swap(v)
    PROVE  /\ exported' = [exported EXCEPT ![v] = @ + Pending[v]]
           /\ Pending' = [Pending EXCEPT ![v] = 0]
           /\ UNCHANGED <<pc, version, started>>
  BY DEF Swap, TypeOK, Pending

\* Nothing is counted at first.
LEMMA InitTally == Init => Tally!Init
  BY DEF Init, Tally!Init, Handled, Pending

\* Counting and swapping are the steps of the tally, all others are hidden.
LEMMA StepTally == TypeOK /\ [Next]_vars => [Tally!Next]_(Tally!vars)
  <1> SUFFICES ASSUME TypeOK, [Next]_vars PROVE [Tally!Next]_(Tally!vars)
    OBVIOUS
  <1> USE PendingType
  <1>1. exported \in [Versions -> Nat] /\ Pending \in [Versions -> Nat]
    BY DEF TypeOK, Pending
  <1>2. ASSUME NEW v \in Versions, UNCHANGED exported,
               Pending' = [Pending EXCEPT ![v] = @ + 1]
        PROVE  Tally!HandleVersion(v)
    <2>1. /\ Handled' = [w \in Versions |-> exported'[w] + Pending'[w]]
          /\ Handled \in [Versions -> Nat]
      BY <1>1 DEF Handled
    <2>2. \A w \in Versions : exported'[w] + Pending'[w]
                               = IF w = v THEN Handled[v] + 1 ELSE Handled[w]
      BY <1>1, <1>2 DEF Handled
    <2>3. Handled' = [Handled EXCEPT ![v] = @ + 1]
      BY <2>1, <2>2
    <2> QED
      BY <1>2, <2>3 DEF Tally!HandleVersion
  <1>3. ASSUME NEW v \in Versions, Pending' = [Pending EXCEPT ![v] = 0],
               exported' = [exported EXCEPT ![v] = @ + Pending[v]]
        PROVE  Tally!ExportVersion(v)
    <2>1. /\ Handled' = [w \in Versions |-> exported'[w] + Pending'[w]]
          /\ Handled \in [Versions -> Nat]
      BY <1>1 DEF Handled
    <2>2. \A w \in Versions : exported'[w] + Pending'[w] = Handled[w]
      BY <1>1, <1>3 DEF Handled
    <2>3. Handled' = Handled
      BY <2>1, <2>2
    <2>4. exported' = [exported EXCEPT ![v] = Handled[v]]
      BY <1>1, <1>3 DEF Handled
    <2> QED
      BY <2>3, <2>4 DEF Tally!ExportVersion
  <1>4. ASSUME UNCHANGED <<versions, exported>>
        PROVE  UNCHANGED Tally!vars
    BY <1>4 DEF Tally!vars, Handled, Pending
  <1>5. ASSUME NEW h \in Handlers, CountKnown(h) \/ CountNew(h)
        PROVE  Tally!HandleVersion(version[h]) /\ version[h] \in Versions
    <2>1. version[h] \in Versions
      BY DEF TypeOK
    <2> QED
      BY <1>2, <1>5, <2>1, CountStep
  <1>6. ASSUME NEW v \in Versions, Swap(v)
        PROVE  Tally!ExportVersion(v)
    BY <1>3, <1>6, SwapStep
  <1>7. ASSUME ~(\E v \in Versions : Swap(v)),
               ~(\E h \in Handlers : CountKnown(h) \/ CountNew(h))
        PROVE  UNCHANGED <<versions, exported>>
    BY <1>7 DEF Next, Export, Lookup, Begin, LockRead, LookupMiss, LockWrite,
                BeginWalk, EndWalk, vars
  <1>8. CASE \E v \in Versions : Swap(v)
    BY <1>6, <1>8 DEF Tally!Next
  <1>9. CASE \E h \in Handlers : CountKnown(h) \/ CountNew(h)
    <2>1. PICK h \in Handlers : CountKnown(h) \/ CountNew(h)
      BY <1>9
    <2> QED
      BY <1>5, <2>1 DEF Tally!Next
  <1> QED
    BY <1>4, <1>7, <1>8, <1>9

\* The map of atomics under its lock refines the tally: nothing counted is lost
\* to a race for a new entry or to the exporter's swap.
THEOREM Implements == Spec => ImplementsTally
  BY InitTally, StepTally, TypeCorrect, PTL DEF Spec, Tally!Spec, ImplementsTally

-----------------------------------------------------------------------------
InHandSet(v) == {h \in Handlers : pc[h] # "idle" /\ version[h] = v}

\* The blocks in hand are as many as the handlers that have one.
LEMMA InHandIsCard ==
    ASSUME NEW v \in Versions
    PROVE  /\ IsFiniteSet(InHandSet(v)) /\ Cardinality(InHandSet(v)) \in Nat
           /\ InHand(v) = Cardinality(InHandSet(v))
  BY VersionsAssumption, FS_Subset, FS_CardinalityType DEF InHandSet, InHand

\* No handler has a block at first.
LEMMA InitCounted == Init => BlocksCountedOnce
  <1> SUFFICES ASSUME Init, NEW v \in Versions
               PROVE  started[v] = InHand(v) + Pending[v] + exported[v]
    BY DEF BlocksCountedOnce
  <1>1. InHandSet(v) = {}
    BY DEF Init, InHandSet
  <1> QED
    BY <1>1, InHandIsCard, FS_EmptySet DEF Init, Pending

\* A block goes from its handler to the map and from there to the export.
LEMMA StepCounted == TypeOK /\ BlocksCountedOnce /\ [Next]_vars => BlocksCountedOnce'
  <1> SUFFICES ASSUME TypeOK, BlocksCountedOnce, [Next]_vars, NEW v \in Versions
               PROVE  (started[v] = InHand(v) + Pending[v] + exported[v])'
    BY DEF BlocksCountedOnce
  <1>1. /\ started[v] = InHand(v) + Pending[v] + exported[v]
        /\ Pending[v] \in Nat /\ exported[v] \in Nat /\ InHand(v) \in Nat
    BY InHandIsCard, PendingType DEF BlocksCountedOnce
  <1>2. InHand(v)' = Cardinality(InHandSet(v)')
    BY DEF InHand, InHandSet
  <1>3. ASSUME NEW h \in Handlers, NEW w \in Versions, Begin(h, w)
        PROVE  (started[v] = InHand(v) + Pending[v] + exported[v])'
    <2>1. Pending' = Pending /\ UNCHANGED exported
      BY <1>3 DEF Begin, Pending
    <2>2. CASE v = w
      <3>1. InHandSet(v)' = InHandSet(v) \cup {h} /\ h \notin InHandSet(v)
        BY <1>3, <2>2 DEF Begin, Goto, InHandSet, TypeOK
      <3>2. InHand(v)' = InHand(v) + 1
        BY <1>2, <3>1, InHandIsCard, FS_AddElement
      <3>3. started'[v] = started[v] + 1
        BY <1>3, <2>2 DEF Begin, TypeOK
      <3> QED
        BY <1>1, <2>1, <3>2, <3>3
    <2>3. CASE v # w
      <3>1. InHandSet(v)' = InHandSet(v)
        BY <1>3, <2>3 DEF Begin, Goto, InHandSet, TypeOK
      <3>2. started'[v] = started[v]
        BY <1>3, <2>3 DEF Begin, TypeOK
      <3> QED
        BY <1>1, <1>2, <2>1, <3>1, <3>2, InHandIsCard
    <2> QED
      BY <2>2, <2>3
  <1>4. ASSUME NEW h \in Handlers, CountKnown(h) \/ CountNew(h)
        PROVE  (started[v] = InHand(v) + Pending[v] + exported[v])'
    <2> /\ pc[h] # "idle" /\ pc' = [pc EXCEPT ![h] = "idle"]
        /\ Pending' = [Pending EXCEPT ![version[h]] = @ + 1]
        /\ UNCHANGED <<version, started, exported>>
      BY <1>4, CountStep
    <2>1. CASE v = version[h]
      <3>1. InHandSet(v)' = InHandSet(v) \ {h} /\ h \in InHandSet(v)
        BY <2>1 DEF InHandSet, TypeOK
      <3>2. InHand(v)' = InHand(v) - 1
        BY <1>2, <3>1, InHandIsCard, FS_RemoveElement
      <3>3. Pending'[v] = Pending[v] + 1
        BY <2>1 DEF Pending
      <3> QED
        BY <1>1, <3>2, <3>3
    <2>2. CASE v # version[h]
      <3>1. InHandSet(v)' = InHandSet(v)
        BY <2>2 DEF InHandSet, TypeOK
      <3>2. Pending'[v] = Pending[v]
        BY <2>2 DEF Pending
      <3> QED
        BY <1>1, <1>2, <3>1, <3>2, InHandIsCard
    <2> QED
      BY <2>1, <2>2
  <1>5. ASSUME NEW w \in Versions, Swap(w)
        PROVE  (started[v] = InHand(v) + Pending[v] + exported[v])'
    <2>1. /\ exported' = [exported EXCEPT ![w] = @ + Pending[w]]
          /\ Pending' = [Pending EXCEPT ![w] = 0]
          /\ UNCHANGED <<pc, version, started>>
      BY <1>5, SwapStep
    <2>2. exported \in [Versions -> Nat] /\ Pending \in [Versions -> Nat]
      BY DEF TypeOK, Pending
    <2>3. exported'[v] + Pending'[v] = exported[v] + Pending[v]
      BY <2>1, <2>2
    <2>4. exported'[v] \in Nat /\ Pending'[v] \in Nat
      BY <2>1, <2>2
    <2>5. InHandSet(v)' = InHandSet(v)
      BY <2>1 DEF InHandSet
    <2> QED
      BY <1>1, <1>2, <2>1, <2>3, <2>4, <2>5, InHandIsCard
  <1>6. ASSUME Pending' = Pending, UNCHANGED <<exported, started>>,
               InHandSet(v)' = InHandSet(v)
        PROVE  (started[v] = InHand(v) + Pending[v] + exported[v])'
    BY <1>1, <1>2, <1>6, InHandIsCard
  <1>7. ASSUME NEW h \in Handlers, LockRead(h) \/ LookupMiss(h)
        PROVE  (started[v] = InHand(v) + Pending[v] + exported[v])'
    <2>1. InHandSet(v)' = InHandSet(v)
      BY <1>7 DEF LockRead, LookupMiss, Goto, InHandSet, TypeOK
    <2>2. Pending' = Pending /\ UNCHANGED <<exported, started>>
      BY <1>7 DEF LockRead, LookupMiss, Pending
    <2> QED
      BY <1>6, <2>1, <2>2
  <1>8. ASSUME UNCHANGED <<versions, pc, version, started, exported>>
        PROVE  (started[v] = InHand(v) + Pending[v] + exported[v])'
    BY <1>6, <1>8 DEF Pending, InHandSet
  <1>9. CASE UNCHANGED vars
    BY <1>8, <1>9 DEF vars
  <1>10. ASSUME (\E h \in Handlers : LockWrite(h)) \/ BeginWalk \/ EndWalk
         PROVE  UNCHANGED <<versions, pc, version, started, exported>>
    BY <1>10 DEF LockWrite, BeginWalk, EndWalk
  <1> QED
    BY <1>3, <1>4, <1>5, <1>7, <1>8, <1>9, <1>10 DEF Next, Lookup, Export

\* No block of a software version is lost, and none is counted twice.
THEOREM CountedOnce == Spec => []BlocksCountedOnce
  BY InitTypeOK, StepTypeOK, InitCounted, StepCounted, PTL DEF Spec

-----------------------------------------------------------------------------
\* Only a handler with a new version to count asks to write.
WriterHasVersionToAdd == \A t \in writer : t \in Handlers /\ pc[t] = "insert"

\* A thread has nothing to wait for: it looks its version up, or the lock is
\* free for what it wants to do next.
GoesOn(h) ==
    \/ pc[h] = "reading"
    \/ pc[h] = "lookup" /\ writer = {}
    \/ pc[h] = "insert" /\ (writer = {} \/ Lock!HoldsWrite(h))
LockMovesOn ==
    (\E h \in Handlers : pc[h] # "idle") =>
        Exporter \in readers \/ \E h \in Handlers : GoesOn(h)

\* A writer stays where it is until it writes, and nobody else becomes one.
LEMMA StepWriter == TypeOK /\ WriterHasVersionToAdd /\ [Next]_vars => WriterHasVersionToAdd'
  <1> SUFFICES ASSUME TypeOK, WriterHasVersionToAdd, [Next]_vars PROVE WriterHasVersionToAdd'
    OBVIOUS
  <1> USE DEF TypeOK, WriterHasVersionToAdd, lock
  <1>1. CASE UNCHANGED <<writer, pc>>
    BY <1>1
  <1>2. ASSUME NEW h \in Handlers, NEW v \in Versions, Begin(h, v) PROVE WriterHasVersionToAdd'
    BY <1>2 DEF Begin, Goto
  <1>3. ASSUME NEW h \in Handlers, LockRead(h) \/ Lookup(h) PROVE WriterHasVersionToAdd'
    BY <1>3 DEF LockRead, Lookup, CountKnown, LookupMiss, Goto, Lock!AcquireRead, Lock!ReleaseRead
  <1>4. ASSUME NEW h \in Handlers, LockWrite(h) PROVE WriterHasVersionToAdd'
    BY <1>4 DEF LockWrite, Lock!RequestWrite
  <1>5. ASSUME NEW h \in Handlers, CountNew(h) PROVE WriterHasVersionToAdd'
    BY <1>5 DEF CountNew, Goto, Lock!ReleaseWrite
  <1> QED
    BY <1>1, <1>2, <1>3, <1>4, <1>5
       DEF Next, Export, BeginWalk, Swap, EndWalk, Lock!AcquireRead, Lock!ReleaseRead, vars

\* While a block is to be counted, some thread of those around the lock has
\* nothing to wait for: none asks for the write lock with its read lock in hand
\* (drop(versions), metrics.rs:151), for any number of threads and versions.
THEOREM NeverStuck == Spec => []LockMovesOn
  <1>1. Init => WriterHasVersionToAdd
    BY DEF Init, WriterHasVersionToAdd, Lock!Free
  <1>2. TypeOK /\ WriterHasVersionToAdd => LockMovesOn
    <2> SUFFICES ASSUME TypeOK, WriterHasVersionToAdd, NEW h \in Handlers, pc[h] # "idle",
                        Exporter \notin readers
                 PROVE  \E g \in Handlers : GoesOn(g)
      BY DEF LockMovesOn
    <2>1. /\ pc[h] \in {"lookup", "reading", "insert"}
          /\ \A g \in readers : g \in Handlers /\ pc[g] = "reading"
          /\ writer = {} \/ \E t \in Handlers \cup {Exporter} : writer = {t}
      BY DEF TypeOK, Lock!LockTypeOK
    <2>2. CASE readers # {}
      BY <2>1, <2>2 DEF GoesOn
    <2>3. CASE writer = {}
      BY <2>1, <2>3 DEF GoesOn
    <2>4. CASE readers = {} /\ writer # {}
      BY <2>1, <2>4 DEF GoesOn, WriterHasVersionToAdd, Lock!HoldsWrite
    <2> QED
      BY <2>2, <2>3, <2>4
  <1> QED
    BY <1>1, <1>2, InitTypeOK, StepTypeOK, StepWriter, PTL DEF Spec
=============================================================================
