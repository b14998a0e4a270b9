---------------------------- MODULE ShardMapProofs ----------------------------
(***************************************************************************)
(* For any number of handlers and any depth of splits: the lock discipline *)
(* around the shards map, that nobody is stuck at it, that no sample is    *)
(* lost in the races to create an entry, that a part of the workchain with *)
(* an entry keeps one, and which entries of outdated shards there can be.  *)
(***************************************************************************)
EXTENDS ShardMap, SequenceTheorems, TLAPS

\* Shards are sequences of split decisions.
LEMMA ShardIsSeq ==
    ASSUME NEW s \in Shard
    PROVE  s \in Seq({0, 1}) /\ Len(s) \in 0..MaxDepth
  BY MapAssumption DEF Shard

\* A path of halves of bounded length is a shard.
LEMMA SeqIsShard ==
    ASSUME NEW s \in Seq({0, 1}), Len(s) <= MaxDepth
    PROVE  s \in Shard
  <1>1. s \in [1..Len(s) -> {0, 1}] /\ Len(s) \in 0..MaxDepth
    BY MapAssumption
  <1> QED
    BY <1>1 DEF Shard

\* The halves of a shard that may be split are shards.
LEMMA ChildrenAreShards ==
    ASSUME NEW s \in Shard, Len(s) < MaxDepth
    PROVE  Children(s) \subseteq Shard
  <1>1. \A b \in {0, 1} : Append(s, b) \in Seq({0, 1}) /\ Len(Append(s, b)) = Len(s) + 1
    BY ShardIsSeq
  <1>2. ASSUME NEW b \in {0, 1} PROVE Append(s, b) \in Shard
    <2>1. Append(s, b) \in Seq({0, 1}) /\ Len(Append(s, b)) <= MaxDepth
      BY <1>1, ShardIsSeq, MapAssumption
    <2> QED
      BY <2>1, SeqIsShard
  <1> QED
    BY <1>2 DEF Children, Left, Right

\* The type invariant alone is not inductive: a writer may remove the entry the
\* exporter is about to visit, unless a walk in progress holds the read lock.
WalkHoldsLock == scraping # {} => Exporter \in readers

IInv == TypeOK /\ WalkHoldsLock

\* An update adds one sample to its shard's entry and touches no other.
LEMMA EntryAddsOne ==
    ASSUME TypeOK, NEW s \in Shard
    PROVE  LET m == Entry(map, s)
           IN  /\ DOMAIN m = DOMAIN map \cup {s}
               /\ m[s] = (IF s \in DOMAIN map THEN map[s] ELSE 0) + 1
               /\ \A t \in DOMAIN map \ {s} : m[t] = map[t]
               /\ \A t \in DOMAIN m : m[t] \in Nat
  BY DEF TypeOK, Entry

\* An entry that is made or updated is an entry.
LEMMA EntryType ==
    ASSUME TypeOK, NEW s \in Shard
    PROVE  /\ DOMAIN Entry(map, s) \subseteq Shard
           /\ \A t \in DOMAIN Entry(map, s) : Entry(map, s)[t] \in Nat
  BY DEF TypeOK, Entry

\* The forced update leaves what is not outdated.
LEMMA ForceUpdateKeeps ==
    ASSUME TypeOK, NEW h \in Handlers, ForceUpdate(h)
    PROVE  LET updated == Entry(map, task[h].shard)
               gone == Outdated(updated, task[h])
           IN  /\ DOMAIN map' = DOMAIN updated \ gone
               /\ \A s \in DOMAIN map' : map'[s] = updated[s]
  BY DEF ForceUpdate, Restrict

-----------------------------------------------------------------------------
\* A handler without a block is well typed.
LEMMA NoTaskIsTask == Workchain \in Shard /\ NoTask \in Task /\ NoTask.at = "idle"
  <1>1. Workchain \in Seq({0, 1}) /\ Len(Workchain) <= MaxDepth
    BY MapAssumption DEF Workchain
  <1>2. Workchain \in Shard
    BY <1>1, SeqIsShard
  <1> QED
    BY <1>2 DEF NoTask, Task

\* The map starts empty and the lock free.
LEMMA InitIInv == Init => IInv
  <1> SUFFICES ASSUME Init PROVE IInv
    OBVIOUS
  <1>1. live \subseteq Shard /\ task \in [Handlers -> Task]
    BY NoTaskIsTask DEF Init
  <1>2. \A h \in Handlers : ~At(h, "reading")
    BY NoTaskIsTask DEF Init, At
  <1>3. DOMAIN map = {}
    BY DEF Init, NoEntries
  <1> QED
    BY <1>1, <1>2, <1>3, MapAssumption
       DEF Init, IInv, TypeOK, WalkHoldsLock, Lock!Free, Lock!LockTypeOK

\* IInv survives every step, action by action.
LEMMA StepIInv == IInv /\ [Next]_vars => IInv'
  <1> SUFFICES ASSUME IInv, [Next]_vars PROVE IInv'
    OBVIOUS
  <1> USE DEF IInv, TypeOK, WalkHoldsLock, Lock!LockTypeOK
  <1> USE DEF history
  <1>1. ASSUME NEW s \in Shard, SplitShard(s) PROVE IInv'
    <2>1. Children(s) \subseteq Shard
      BY <1>1, ChildrenAreShards DEF SplitShard
    <2>2. live' \subseteq Shard /\ first' \in [Shard -> {"none", "split", "merge"}]
      BY <1>1, <2>1 DEF SplitShard
    <2> QED
      BY <1>1, <2>2 DEF SplitShard, lock, At
  <1>2. ASSUME NEW s \in Shard, MergeShards(s) PROVE IInv'
    BY <1>2 DEF MergeShards, lock, At
  <1>3. CASE Restart
    <2>1. first' \in [Shard -> {"none", "split", "merge"}]
      <3>1. PICK again \in SUBSET {h \in Handlers : At(h, "force")} :
              first' = [s \in Shard |->
                     IF \E h \in again : task[h].shard = s
                       THEN (CHOOSE b \in {task[h] : h \in again} : b.shard = s).kind
                       ELSE first[s]]
        BY <1>3 DEF Restart
      <3>2. ASSUME NEW s \in Shard, \E h \in again : task[h].shard = s
            PROVE  (CHOOSE b \in {task[h] : h \in again} : b.shard = s).kind
                      \in {"split", "merge"}
        <4>1. \A b \in {task[h] : h \in again} : b.kind \in {"split", "merge"}
          BY DEF At, Task
        <4>2. \E b \in {task[h] : h \in again} : b.shard = s
          BY <3>2
        <4> QED
          BY <4>1, <4>2
      <3> QED
        BY <3>1, <3>2
    <2>2. task' \in [Handlers -> Task] /\ \A h \in Handlers : ~At(h, "reading")'
      BY <1>3, NoTaskIsTask DEF Restart, At
    <2> QED
      BY <1>3, <2>1, <2>2, MapAssumption DEF Restart, NoEntries
  <1>4. ASSUME NEW h \in Handlers, NEW s \in Shard, BeginNormal(h, s) PROVE IInv'
    BY <1>4, NoTaskIsTask DEF BeginNormal, Idle, lock, At, chainVars, Task
  <1>5. ASSUME NEW h \in Handlers, NEW s \in Shard, BeginFirst(h, s) PROVE IInv'
    BY <1>5, NoTaskIsTask DEF BeginFirst, Idle, lock, At, Task
  <1>16. ASSUME NEW s \in Shard, SkipFirst(s) PROVE IInv'
    BY <1>16, MapAssumption DEF SkipFirst, lock, At
  <1>0. \A h \in Handlers, pos \in {"reading", "insert"} :
          ~At(h, "force") => [task[h] EXCEPT !.at = pos] \in Task
    BY DEF At, Task
  <1>6. ASSUME NEW h \in Handlers, LockRead(h) PROVE IInv'
    BY <1>0, <1>6, MapAssumption DEF LockRead, Goto, At, chainVars, Task, Lock!AcquireRead
  <1>7. ASSUME NEW h \in Handlers, LookupHit(h) PROVE IInv'
    BY <1>7, NoTaskIsTask, MapAssumption DEF LookupHit, Finish, At, chainVars, Task, Lock!ReleaseRead
  <1>8. ASSUME NEW h \in Handlers, LookupMiss(h) PROVE IInv'
    BY <1>0, <1>8, MapAssumption DEF LookupMiss, Goto, At, chainVars, Task, Lock!ReleaseRead
  <1>9. ASSUME NEW h \in Handlers, LockWrite(h) PROVE IInv'
    BY <1>9 DEF LockWrite, At, chainVars, Lock!RequestWrite
  <1>10. ASSUME NEW h \in Handlers, Insert(h) PROVE IInv'
    <2>1. task[h].shard \in Shard
      BY DEF Task
    <2>2. /\ DOMAIN map' = DOMAIN map \cup {task[h].shard}
          /\ \A s \in DOMAIN map' : map'[s] \in Nat
      BY <1>10, <2>1, EntryAddsOne DEF Insert
    <2> QED
      BY <1>10, <2>1, <2>2, NoTaskIsTask
         DEF Insert, Finish, At, chainVars, Lock!ReleaseWrite, Lock!HoldsWrite
  <1>11. ASSUME NEW h \in Handlers, ForceUpdate(h) PROVE IInv'
    <2>1. task[h].shard \in Shard
      BY DEF Task
    <2>2. DOMAIN map' \subseteq Shard /\ \A s \in DOMAIN map' : map'[s] \in Nat
      <3> DEFINE updated == Entry(map, task[h].shard)
      <3>1. DOMAIN map' \subseteq DOMAIN updated /\ \A s \in DOMAIN map' : map'[s] = updated[s]
        BY <1>11, ForceUpdateKeeps
      <3>2. DOMAIN updated \subseteq Shard /\ \A s \in DOMAIN updated : updated[s] \in Nat
        BY <2>1, EntryType
      <3> HIDE DEF updated
      <3> QED
        BY <3>1, <3>2
    <2>3. scraping = {} /\ readers = {}
      BY <1>11, MapAssumption DEF ForceUpdate, Lock!ReleaseWrite, Lock!HoldsWrite
    <2>4. due' \in [Shard -> Nat]
      BY <1>11, <2>1 DEF ForceUpdate
    <2>5. missed' \in 0..MaxMissed /\ left' \subseteq DOMAIN map'
      <3> DEFINE updated == Entry(map, task[h].shard)
                 gone == Outdated(updated, task[h])
      <3>1. /\ DOMAIN map' = DOMAIN updated \ gone
            /\ left' = left \ (gone \cup {task[h].shard}) /\ missed' = missed
        BY <1>11, ForceUpdateKeeps DEF ForceUpdate
      <3>2. DOMAIN map \subseteq DOMAIN updated
        BY <2>1, EntryAddsOne
      <3> HIDE DEF updated, gone
      <3> QED
        BY <3>1, <3>2
    <2> QED
      BY <1>11, <2>2, <2>3, <2>4, <2>5, NoTaskIsTask
         DEF ForceUpdate, Finish, At, chainVars, Lock!ReleaseWrite
  <1>12. CASE BeginWalk
    BY <1>12, MapAssumption DEF BeginWalk, Lock!AcquireRead, chainVars, At
  <1>13. ASSUME NEW s \in Shard, Visit(s) PROVE IInv'
    BY <1>13 DEF Visit, lock, chainVars, At
  <1>14. CASE EndWalk
    BY <1>14, MapAssumption DEF EndWalk, Lock!ReleaseRead, chainVars, At
  <1>15. CASE UNCHANGED vars
    BY <1>15 DEF vars, lock, chainVars, At
  <1> QED
    BY <1>1, <1>2, <1>3, <1>4, <1>5, <1>6, <1>7, <1>8, <1>9, <1>10, <1>11,
       <1>12, <1>13, <1>14, <1>15, <1>16 DEF Next, Lookup, Write, Export

\* Entries, tasks and the lock are what they should be, the exporter's walk stays
\* within the map.
THEOREM TypeCorrect == Spec => []TypeOK
  <1>1. Spec => []IInv
    BY InitIInv, StepIInv, PTL DEF Spec
  <1> QED
    BY <1>1, PTL DEF IInv

-----------------------------------------------------------------------------
\* The sample that is counted is added to the entry of its shard.
LEMMA StepSamplesDue == IInv /\ SamplesDue /\ [Next]_vars => SamplesDue'
  <1> SUFFICES ASSUME IInv, SamplesDue, [Next]_vars PROVE SamplesDue'
    OBVIOUS
  <1> USE DEF SamplesDue
  <1>1. TypeOK /\ due \in [Shard -> Nat] /\ \A h \in Handlers : task[h].shard \in Shard
    BY DEF IInv, TypeOK, Task
  <1>2. ASSUME NEW h \in Handlers, LookupHit(h) PROVE SamplesDue'
    <2>1. /\ map' = [map EXCEPT ![task[h].shard] = @ + 1]
          /\ due' = [due EXCEPT ![task[h].shard] = @ + 1]
          /\ task[h].shard \in DOMAIN map
      BY <1>2 DEF LookupHit
    <2>2. DOMAIN map' = DOMAIN map
      BY <2>1
    <2> QED
      BY <1>1, <2>1, <2>2
  <1>3. ASSUME NEW h \in Handlers, Insert(h) PROVE SamplesDue'
    <2>1. /\ map' = Entry(map, task[h].shard)
          /\ due' = [due EXCEPT ![task[h].shard] = @ + 1]
      BY <1>3 DEF Insert
    <2>2. /\ DOMAIN map' = DOMAIN map \cup {task[h].shard}
          /\ map'[task[h].shard] = due[task[h].shard] + 1
          /\ \A t \in DOMAIN map \ {task[h].shard} : map'[t] = map[t]
      BY <1>1, <2>1, EntryAddsOne
    <2> QED
      BY <1>1, <2>1, <2>2
  <1>4. ASSUME NEW h \in Handlers, ForceUpdate(h) PROVE SamplesDue'
    <2> DEFINE updated == Entry(map, task[h].shard)
               gone == Outdated(updated, task[h])
    <2>1. /\ DOMAIN map' = DOMAIN updated \ gone
          /\ \A s \in DOMAIN map' : map'[s] = updated[s]
      BY <1>1, <1>4, ForceUpdateKeeps
    <2>2. due' = [s \in Shard |-> IF s \in gone THEN 0
                                  ELSE due[s] + (IF s = task[h].shard THEN 1 ELSE 0)]
      BY <1>4 DEF ForceUpdate
    <2>3. /\ DOMAIN updated = DOMAIN map \cup {task[h].shard}
          /\ updated[task[h].shard] = due[task[h].shard] + 1
          /\ \A t \in DOMAIN map \ {task[h].shard} : updated[t] = map[t]
      BY <1>1, EntryAddsOne
    <2> HIDE DEF updated, gone
    <2> QED
      BY <1>1, <2>1, <2>2, <2>3
  <1>5. ASSUME NEW s \in Shard, Visit(s) PROVE SamplesDue'
    BY <1>1, <1>5 DEF Visit, IInv, TypeOK
  <1>6. CASE Restart
    BY <1>6 DEF Restart, NoEntries
  <1>7. CASE UNCHANGED <<map, due>>
    BY <1>7
  <1> QED
    BY <1>2, <1>3, <1>4, <1>5, <1>6, <1>7
       DEF Next, Lookup, Write, Export, SplitShard, MergeShards, BeginNormal,
           BeginFirst, SkipFirst, LockRead, LookupMiss, LockWrite, BeginWalk, EndWalk, vars

\* Whichever thread wins the race to create an entry, the samples of both are in
\* it (metrics.rs:199-212).
THEOREM NoSampleLost == Spec => []SamplesDue
  <1>1. Init => SamplesDue
    BY DEF Init, SamplesDue, NoEntries
  <1> QED
    BY <1>1, InitIInv, StepIInv, StepSamplesDue, PTL DEF Spec

-----------------------------------------------------------------------------
\* Only a handler with an entry to make asks to write, and a handler that is
\* somewhere has a block.
WriterHasEntryToMake ==
    /\ \A t \in writer : t \in Handlers /\ (At(t, "insert") \/ At(t, "force"))
    /\ \A h \in Handlers : At(h, "idle") => Idle(h)

\* A thread has nothing to wait for: it looks its shard up, or the lock is free
\* for what it wants to do next, or it walks through the map.
GoesOn(h) ==
    \/ At(h, "reading")
    \/ At(h, "lookup") /\ writer = {}
    \/ (At(h, "insert") \/ At(h, "force")) /\ (writer = {} \/ Lock!HoldsWrite(h))
LockMovesOn ==
    (\E h \in Handlers : ~Idle(h)) => Exporter \in readers \/ \E h \in Handlers : GoesOn(h)

\* A writer stays where it is until it writes, and nobody else becomes one.
LEMMA StepWriter == IInv /\ WriterHasEntryToMake /\ [Next]_vars => WriterHasEntryToMake'
  <1> SUFFICES ASSUME IInv, WriterHasEntryToMake, [Next]_vars PROVE WriterHasEntryToMake'
    OBVIOUS
  <1>0. /\ task \in [Handlers -> Task] /\ Exporter \notin Handlers
        /\ NoTask.at = "idle" /\ Lock!LockTypeOK
    BY NoTaskIsTask, MapAssumption DEF IInv, TypeOK
  <1> USE <1>0 DEF WriterHasEntryToMake, At, Idle
  <1>1. CASE UNCHANGED <<writer, task>>
    BY <1>1
  <1>2. CASE Restart
    BY <1>2 DEF Restart
  <1>3. ASSUME NEW h \in Handlers, NEW s \in Shard, BeginNormal(h, s) \/ BeginFirst(h, s)
        PROVE  WriterHasEntryToMake'
    BY <1>3 DEF BeginNormal, BeginFirst, lock
  <1>4. ASSUME NEW h \in Handlers, LockRead(h) \/ LookupMiss(h) PROVE WriterHasEntryToMake'
    <2>1. PICK pos \in {"reading", "insert"} : task' = [task EXCEPT ![h].at = pos]
      BY <1>4 DEF LockRead, LookupMiss, Goto
    <2>2. task'[h].at = pos /\ \A g \in Handlers \ {h} : task'[g] = task[g]
      BY <2>1 DEF Task
    <2>3. writer' = writer /\ h \notin writer
      BY <1>4 DEF LockRead, LookupMiss, Lock!AcquireRead, Lock!ReleaseRead
    <2> QED
      BY <2>2, <2>3
  <1>5. ASSUME NEW h \in Handlers, LookupHit(h) PROVE WriterHasEntryToMake'
    BY <1>5 DEF LookupHit, Finish, Lock!ReleaseRead
  <1>6. ASSUME NEW h \in Handlers, LockWrite(h) PROVE WriterHasEntryToMake'
    BY <1>6 DEF LockWrite, Lock!RequestWrite
  <1>7. ASSUME NEW h \in Handlers, Write(h) PROVE WriterHasEntryToMake'
    BY <1>7 DEF Write, Insert, ForceUpdate, Finish, Lock!ReleaseWrite
  <1> QED
    BY <1>1, <1>2, <1>3, <1>4, <1>5, <1>6, <1>7
       DEF Next, Lookup, Export, SplitShard, MergeShards, SkipFirst, BeginWalk, Visit, EndWalk,
           Lock!AcquireRead, Lock!ReleaseRead, lock, vars

\* While a thread has a block, some thread of those around the lock has nothing
\* to wait for: none asks for the write lock with its read lock in hand
\* (drop(shards), metrics.rs:204-205), so writers and readers never wait for each
\* other, for any number of threads.
THEOREM NeverStuck == Spec => []LockMovesOn
  <1>1. Init => WriterHasEntryToMake
    BY NoTaskIsTask DEF Init, WriterHasEntryToMake, Lock!Free, At, Idle
  <1>2. IInv /\ WriterHasEntryToMake => LockMovesOn
    <2> SUFFICES ASSUME IInv, WriterHasEntryToMake, NEW h \in Handlers, ~Idle(h),
                        Exporter \notin readers
                 PROVE  \E g \in Handlers : GoesOn(g)
      BY DEF LockMovesOn
    <2>1. /\ task[h] \in Task /\ ~At(h, "idle")
          /\ readers \subseteq Handlers
          /\ \A g \in readers : At(g, "reading")
          /\ writer = {} \/ \E t \in Handlers \cup {Exporter} : writer = {t}
      BY DEF IInv, TypeOK, Lock!LockTypeOK, WriterHasEntryToMake
    <2>2. CASE readers # {}
      BY <2>1, <2>2 DEF GoesOn
    <2>3. CASE writer = {}
      BY <2>1, <2>3 DEF GoesOn, At, Task
    <2>4. CASE readers = {} /\ writer # {}
      BY <2>1, <2>4 DEF GoesOn, WriterHasEntryToMake, Lock!HoldsWrite
    <2> QED
      BY <2>2, <2>3, <2>4
  <1> QED
    BY <1>1, <1>2, InitIInv, StepIInv, StepWriter, PTL DEF Spec

-----------------------------------------------------------------------------
\* A prefix agrees with the sequence on all its positions.
LEMMA PrefixPointwise ==
    ASSUME NEW s \in Seq({0, 1}), NEW t \in Seq({0, 1})
    PROVE  IsPrefix(s, t) <=> Len(s) <= Len(t) /\ \A i \in 1..Len(s) : s[i] = t[i]
  BY DEF IsPrefix

\* A part of the workchain is a sequence of halves, of full depth.
LEMMA PartIsSeq ==
    ASSUME NEW p \in Part
    PROVE  p \in Seq({0, 1}) /\ Len(p) = MaxDepth
  BY MapAssumption DEF Part

\* A part of a shard that is split is in one of the halves.
LEMMA PartOfSplit ==
    ASSUME NEW s \in Shard, Len(s) < MaxDepth, NEW p \in Part, IsPrefix(s, p)
    PROVE  \E c \in Children(s) : IsPrefix(c, p)
  <1>1. s \in Seq({0, 1}) /\ p \in Seq({0, 1}) /\ Len(p) = MaxDepth
    BY ShardIsSeq, PartIsSeq
  <1> DEFINE b == p[Len(s) + 1]
             c == Append(s, b)
  <1>2. b \in {0, 1}
    BY <1>1, MapAssumption
  <1>3. /\ c \in Seq({0, 1}) /\ Len(c) = Len(s) + 1
        /\ c[Len(s) + 1] = b /\ \A i \in 1..Len(s) : c[i] = s[i]
    BY <1>1, <1>2
  <1>4. \A i \in 1..Len(s) : s[i] = p[i]
    BY <1>1, PrefixPointwise
  <1>5. \A i \in 1..Len(c) : c[i] = p[i]
    BY <1>1, <1>3, <1>4
  <1>6. c \in Children(s)
    BY <1>2 DEF Children, Left, Right
  <1> HIDE DEF b, c
  <1>7. IsPrefix(c, p)
    <2>1. c \in Seq({0, 1}) /\ Len(c) <= Len(p)
      BY <1>1, <1>3, MapAssumption
    <2> QED
      BY <1>1, <1>5, <2>1, PrefixPointwise
  <1> QED
    BY <1>6, <1>7

\* A part of a half is a part of the whole.
LEMMA PartOfMerge ==
    ASSUME NEW s \in Shard, NEW c \in Children(s), NEW p \in Part, IsPrefix(c, p)
    PROVE  IsPrefix(s, p)
  <1>1. s \in Seq({0, 1}) /\ p \in Seq({0, 1})
    BY ShardIsSeq, PartIsSeq
  <1>2. PICK b \in {0, 1} : c = Append(s, b)
    BY DEF Children, Left, Right
  <1>3. /\ c \in Seq({0, 1}) /\ Len(c) = Len(s) + 1
        /\ \A i \in 1..Len(s) : c[i] = s[i]
    BY <1>1, <1>2
  <1>4. Len(c) <= Len(p) /\ \A i \in 1..Len(c) : c[i] = p[i]
    BY <1>1, <1>3, PrefixPointwise
  <1> QED
    BY <1>1, <1>3, <1>4, PrefixPointwise

\* The halves of a shard are longer than the shard.
LEMMA ChildrenAreLonger ==
    ASSUME NEW s \in Shard, NEW c \in Children(s)
    PROVE  Len(c) = Len(s) + 1 /\ c # s
  <1>1. s \in Seq({0, 1})
    BY ShardIsSeq
  <1> QED
    BY <1>1 DEF Children, Left, Right

\* What the forced update removes is still covered by what it leaves.
LEMMA StepCoverage ==
    ASSUME IInv, [Next]_vars, ~Restart, NEW p \in Part, Covered(p, map)
    PROVE  Covered(p, map')
  <1>1. PICK s \in DOMAIN map : IsPrefix(s, p)
    BY DEF Covered
  <1>2. TypeOK /\ DOMAIN map \subseteq Shard /\ \A h \in Handlers : task[h] \in Task /\ task[h].shard \in Shard
    BY DEF IInv, TypeOK, Task
  <1>3. CASE DOMAIN map \subseteq DOMAIN map'
    BY <1>1, <1>3 DEF Covered
  <1>4. ASSUME NEW h \in Handlers, Insert(h) PROVE DOMAIN map \subseteq DOMAIN map'
    BY <1>2, <1>4, EntryAddsOne DEF Insert
  <1>5. ASSUME NEW h \in Handlers, ForceUpdate(h) PROVE Covered(p, map')
    <2> DEFINE b == task[h].shard
               updated == Entry(map, b)
    <2>1. /\ DOMAIN map' = DOMAIN updated \ Outdated(updated, task[h])
          /\ DOMAIN updated = DOMAIN map \cup {b}
      BY <1>2, <1>5, ForceUpdateKeeps, EntryAddsOne
    <2>2. DOMAIN updated \subseteq Shard /\ b \in Shard
      BY <1>2, <2>1
    <2> HIDE DEF b, updated
    <2>3. CASE s \notin Outdated(updated, task[h])
      BY <1>1, <2>1, <2>3 DEF Covered
    <2>4. CASE s \in Outdated(updated, task[h]) /\ task[h].kind = "split"
      <3>1. Children(s) \subseteq DOMAIN updated /\ Outdated(updated, task[h]) \subseteq {s}
        BY <2>4 DEF Outdated
      <3>2. Left(s) \in Shard
        BY <2>2, <3>1 DEF Children
      <3>3. Len(s) < MaxDepth
        <4>1. Len(Left(s)) = Len(s) + 1 /\ Len(Left(s)) <= MaxDepth /\ Len(s) \in Nat
          BY <1>2, <3>2, ShardIsSeq, ChildrenAreLonger, MapAssumption DEF Children
        <4> QED
          BY <4>1, MapAssumption
      <3>4. PICK c \in Children(s) : IsPrefix(c, p)
        BY <1>1, <1>2, <3>3, PartOfSplit
      <3>5. c \in DOMAIN map'
        BY <1>2, <2>1, <3>1, ChildrenAreLonger
      <3> QED
        BY <3>4, <3>5 DEF Covered
    <2>5. CASE s \in Outdated(updated, task[h]) /\ task[h].kind # "split"
      <3>1. s \in Children(b) /\ Outdated(updated, task[h]) = Children(b)
        BY <2>5 DEF Outdated, b
      <3>2. IsPrefix(b, p)
        BY <1>1, <2>2, <3>1, PartOfMerge
      <3>3. b \in DOMAIN map'
        BY <2>1, <2>2, <3>1, ChildrenAreLonger
      <3> QED
        BY <3>2, <3>3 DEF Covered
    <2> QED
      BY <2>3, <2>4, <2>5
  <1>6. ASSUME NEW t \in Shard, Visit(t)
        PROVE  DOMAIN map \subseteq DOMAIN map'
    BY <1>6 DEF Visit
  <1>7. ASSUME NEW h \in Handlers, LookupHit(h)
        PROVE  DOMAIN map \subseteq DOMAIN map'
    BY <1>7 DEF LookupHit
  <1> QED
    BY <1>3, <1>4, <1>5, <1>6, <1>7
       DEF Next, Lookup, Write, Export, SplitShard, MergeShards, BeginNormal,
           BeginFirst, SkipFirst, LockRead, LookupMiss, LockWrite, BeginWalk, EndWalk, vars

\* While shards split and merge, no part of the workchain that has an entry is
\* left without one (metrics.rs:228-245).
THEOREM CoverageKept == Spec => CoverageStays
  <1>1. ASSUME IInv, [Next]_vars, ~Restart,
               NEW s \in DOMAIN map \ DOMAIN map', NEW p \in Part, IsPrefix(s, p)
        PROVE  Covered(p, map')
    <2>1. Covered(p, map)
      BY <1>1 DEF Covered
    <2> QED
      BY <1>1, <2>1, StepCoverage
  <1>2. IInv /\ [Next]_vars =>
          [(\A s \in DOMAIN map \ DOMAIN map', p \in Part : IsPrefix(s, p) => Covered(p, map'))
           \/ Restart]_vars
    BY <1>1
  <1> QED
    BY <1>2, InitIInv, StepIInv, PTL DEF Spec, CoverageStays

-----------------------------------------------------------------------------
(* What lies above and below a shard.                                      *)

\* Two paths with the same decisions are one path.
LEMMA SamePath ==
    ASSUME NEW s \in Seq({0, 1}), NEW t \in Seq({0, 1}),
           Len(s) = Len(t), \A i \in 1..Len(s) : s[i] = t[i]
    PROVE  s = t
  BY Len(s) \in Nat, Len(t) \in Nat

\* A strict prefix is shorter and agrees on all its positions.
LEMMA StrictPointwise ==
    ASSUME NEW s \in Seq({0, 1}), NEW t \in Seq({0, 1})
    PROVE  IsStrictPrefix(s, t) <=> Len(s) < Len(t) /\ \A i \in 1..Len(s) : s[i] = t[i]
  <1>1. Len(s) \in Nat /\ Len(t) \in Nat
    OBVIOUS
  <1>2. Len(s) < Len(t) => s # t
    BY <1>1
  <1> QED
    BY <1>1, <1>2, PrefixPointwise, SamePath DEF IsStrictPrefix

\* The decisions of a half.
LEMMA ChildPath ==
    ASSUME NEW s \in Seq({0, 1}), NEW c \in Children(s)
    PROVE  /\ c \in Seq({0, 1}) /\ Len(c) = Len(s) + 1
           /\ \A i \in 1..Len(s) : c[i] = s[i]
  BY DEF Children, Left, Right

\* A half lies below the whole.
LEMMA ChildIsBelow ==
    ASSUME NEW s \in Shard, NEW c \in Children(s)
    PROVE  IsStrictPrefix(s, c) /\ c \in Seq({0, 1})
  <1>1. s \in Seq({0, 1}) /\ Len(s) \in Nat
    BY ShardIsSeq
  <1> QED
    BY <1>1, ChildPath, StrictPointwise

\* The whole is the parent of its halves.
LEMMA ParentOfChild ==
    ASSUME NEW s \in Shard, NEW c \in Children(s)
    PROVE  Parent(c) = s /\ c # Workchain
  <1>1. s \in Seq({0, 1}) /\ Len(s) \in Nat
    BY ShardIsSeq
  <1>2. PICK b \in {0, 1} : c = Append(s, b)
    BY DEF Children, Left, Right
  <1>3. Front(c) = s
    BY <1>1, <1>2 DEF Front
  <1> QED
    BY <1>1, <1>2, <1>3 DEF Parent, Workchain

\* Every shard but the workchain is a half of its parent.
LEMMA ChildOfParent ==
    ASSUME NEW s \in Shard
    PROVE  \/ s = Workchain /\ Parent(s) = Workchain
           \/ Parent(s) \in Shard /\ s \in Children(Parent(s))
  <1>1. s \in Seq({0, 1}) /\ Len(s) \in 0..MaxDepth
    BY ShardIsSeq
  <1>2. CASE Len(s) = 0
    <2>1. s = <<>>
      BY <1>1, <1>2, EmptySeq
    <2>2. SubSeq(s, 1, Len(s) - 1) = <<>>
      BY <1>2, SubSeqEmpty
    <2> QED
      BY <2>1, <2>2 DEF Parent, Front, Workchain
  <1>3. CASE Len(s) # 0
    <2> DEFINE r == SubSeq(s, 1, Len(s) - 1)
    <2>1. r \in Seq({0, 1}) /\ Len(r) = Len(s) - 1 /\ \A i \in 1..Len(r) : r[i] = s[i]
      <3>1. Len(s) \in Nat \ {0} /\ Len(s) - 1 \in Nat /\ \A i \in 1..(Len(s) - 1) : s[i] \in {0, 1}
        BY <1>1, <1>3, ElementOfSeq
      <3>2. r \in Seq({0, 1}) /\ Len(r) = Len(s) - 1
        <4>1. r \in Seq({0, 1})
          BY <3>1, SubSeqProperties
        <4>2. Len(r) = IF 1 <= Len(s) - 1 THEN Len(s) - 1 - 1 + 1 ELSE 0
          BY <3>1, SubSeqProperties
        <4>3. \A n \in Nat : (IF 1 <= n THEN n - 1 + 1 ELSE 0) = n
          OBVIOUS
        <4> QED
          BY <3>1, <4>1, <4>2, <4>3, Zenon
      <3>3. \A i \in 1..(Len(s) - 1 - 1 + 1) : r[i] = s[1 + i - 1]
        BY <3>1, SubSeqProperties
      <3> QED
        BY <3>1, <3>2, <3>3
    <2>2. Parent(s) = r
      BY DEF Parent, Front
    <2>3. r \in Shard
      <3>1. Len(r) <= MaxDepth
        BY <1>1, <2>1, MapAssumption
      <3> QED
        BY <2>1, <3>1, SeqIsShard
    <2>4. s[Len(s)] \in {0, 1}
      BY <1>1, <1>3
    <2> HIDE DEF r
    <2>5. s = Append(r, s[Len(s)])
      <3> DEFINE a == Append(r, s[Len(s)])
      <3>1. a \in Seq({0, 1}) /\ Len(a) = Len(s) /\ \A i \in 1..Len(s) : a[i] = s[i]
        BY <1>1, <1>3, <2>1, <2>4
      <3> HIDE DEF a
      <3>2. s = a
        BY <1>1, <3>1, SamePath
      <3> QED
        BY <3>2 DEF a
    <2> QED
      BY <2>2, <2>3, <2>4, <2>5 DEF Children, Left, Right
  <1> QED
    BY <1>2, <1>3

\* What lies below lies below what is above.
LEMMA BelowBelow ==
    ASSUME NEW r \in Seq({0, 1}), NEW s \in Seq({0, 1}), NEW t \in Seq({0, 1}),
           IsStrictPrefix(r, s), IsStrictPrefix(s, t)
    PROVE  IsStrictPrefix(r, t)
  BY StrictPointwise

\* Below a shard are its halves and what lies below them.
LEMMA BelowChild ==
    ASSUME NEW s \in Shard, NEW t \in Shard, IsStrictPrefix(s, t)
    PROVE  \E c \in Children(s) : c = t \/ IsStrictPrefix(c, t)
  <1>1. s \in Seq({0, 1}) /\ t \in Seq({0, 1}) /\ Len(s) \in Nat /\ Len(t) \in Nat
    BY ShardIsSeq
  <1>2. Len(s) < Len(t) /\ \A i \in 1..Len(s) : s[i] = t[i]
    BY <1>1, StrictPointwise
  <1> DEFINE b == t[Len(s) + 1]
             c == Append(s, b)
  <1>3. b \in {0, 1}
    BY <1>1, <1>2
  <1>4. c \in Children(s)
    BY <1>3 DEF Children, Left, Right
  <1>5. /\ c \in Seq({0, 1}) /\ Len(c) = Len(s) + 1 /\ c[Len(s) + 1] = b
        /\ \A i \in 1..Len(s) : c[i] = s[i]
    BY <1>1, <1>3
  <1>6. \A i \in 1..Len(c) : c[i] = t[i]
    BY <1>1, <1>2, <1>5
  <1> HIDE DEF b, c
  <1>7. CASE Len(t) = Len(c)
    BY <1>1, <1>4, <1>5, <1>6, <1>7, SamePath
  <1>8. CASE Len(t) # Len(c)
    BY <1>1, <1>2, <1>4, <1>5, <1>6, <1>8, StrictPointwise
  <1> QED
    BY <1>7, <1>8

\* Above a half are the whole and what lies above it.
LEMMA AboveChild ==
    ASSUME NEW s \in Shard, NEW t \in Shard, NEW c \in Children(s), IsStrictPrefix(t, c)
    PROVE  t = s \/ IsStrictPrefix(t, s)
  <1>1. s \in Seq({0, 1}) /\ t \in Seq({0, 1}) /\ Len(s) \in Nat /\ Len(t) \in Nat
    BY ShardIsSeq
  <1>2. c \in Seq({0, 1}) /\ Len(c) = Len(s) + 1 /\ \A i \in 1..Len(s) : c[i] = s[i]
    BY <1>1, ChildPath
  <1>3. Len(t) < Len(c) /\ \A i \in 1..Len(t) : t[i] = c[i]
    BY <1>1, <1>2, StrictPointwise
  <1>4. \A i \in 1..Len(t) : t[i] = s[i]
    BY <1>1, <1>2, <1>3
  <1>5. CASE Len(t) = Len(s)
    BY <1>1, <1>4, <1>5, SamePath
  <1>6. CASE Len(t) # Len(s)
    BY <1>1, <1>2, <1>3, <1>4, <1>6, StrictPointwise
  <1> QED
    BY <1>5, <1>6

-----------------------------------------------------------------------------
(* Which entries there are.                                                *)

\* The first block of shard s after a change of a kind was not handled yet.
Coming(s, kind) ==
    \/ first[s] = kind
    \/ \E h \in Handlers : At(h, "force") /\ task[h].shard = s /\ task[h].kind = kind

Antichain == \A s, t \in live : ~IsStrictPrefix(s, t)

\* Blocks are handled of live shards, a first block before the others.
TasksLive ==
    /\ \A h \in Handlers : ~Idle(h) => task[h].shard \in live /\ first[task[h].shard] = "none"
    /\ \A s \in Shard : first[s] # "none" => s \in live
    /\ \A g, h \in Handlers :
            At(g, "force") /\ At(h, "force") /\ task[g].shard = task[h].shard => g = h

\* A shard that was split, one half of it still without its first block.
Halved(s) ==
    /\ Children(s) \subseteq live
    /\ \E c \in Children(s) : ~Settled(c)
    /\ \A c \in Children(s) : ~Coming(c, "merge") /\ (Settled(c) => c \in DOMAIN map)

\* A shard that was merged, the whole still without its first block.
Joined(s) == \E p \in live : s \in Children(p) /\ Coming(p, "merge")

EntriesExplained == \A s \in DOMAIN map \ left : s \in live \/ Halved(s) \/ Joined(s)

\* Without overlapping blocks, the first block of a shard makes its entry, unless
\* it was missed, or an old entry of the shard was left behind.
FirstMakesEntry ==
    /\ \A s \in (DOMAIN map \cap live) \ left : Settled(s)
    /\ \A g, h \in Handlers : ~Idle(g) /\ ~Idle(h) /\ task[g].shard = task[h].shard => g = h

MapInv == Antichain /\ TasksLive /\ EntriesExplained /\ (~Overlap => FirstMakesEntry)

-----------------------------------------------------------------------------
\* A shard is settled when no first block of it is to come.
LEMMA SettledMeans ==
    ASSUME TypeOK, NEW s \in Shard
    PROVE  Settled(s) <=> ~Coming(s, "split") /\ ~Coming(s, "merge")
  <1>1. first[s] \in {"none", "split", "merge"}
    BY DEF TypeOK
  <1>2. \A h \in Handlers : At(h, "force") => task[h].kind \in {"split", "merge"}
    BY DEF TypeOK, At, Task
  <1> QED
    BY <1>1, <1>2 DEF Settled, FirstInFlight, Coming

\* The same after a step.
LEMMA SettledMeansNext ==
    ASSUME TypeOK', NEW s \in Shard
    PROVE  Settled(s)' <=> ~Coming(s, "split")' /\ ~Coming(s, "merge")'
  <1>1. first'[s] \in {"none", "split", "merge"}
    BY DEF TypeOK
  <1>2. \A h \in Handlers : At(h, "force")' => task'[h].kind \in {"split", "merge"}
    BY DEF TypeOK, At, Task
  <1> QED
    BY <1>1, <1>2 DEF Settled, FirstInFlight, Coming

\* A handler that is not idle is somewhere.
LEMMA IdleIsAt ==
    ASSUME TypeOK, NEW h \in Handlers
    PROVE  /\ task[h].shard \in Shard
           /\ At(h, "lookup") \/ At(h, "reading") \/ At(h, "insert") \/ At(h, "force") => ~Idle(h)
           /\ At(h, "force") => task[h].kind \in {"split", "merge"}
  BY DEF TypeOK, Task, At, Idle, NoTask

\* Where the chain, the first blocks to come and the removal of entries stand
\* still, every entry keeps its explanation.
LEMMA ExplainedStays ==
    ASSUME IInv, IInv', MapInv, live' = live, left' = left, DOMAIN map \subseteq DOMAIN map',
           DOMAIN map' \subseteq DOMAIN map \cup live,
           \A s \in Shard, kind \in {"split", "merge"} : Coming(s, kind)' <=> Coming(s, kind)
    PROVE  EntriesExplained' /\ Antichain'
  <1>1. TypeOK /\ TypeOK' /\ live \subseteq Shard
    BY DEF IInv, TypeOK
  <1>2. \A s \in Shard : Settled(s)' <=> Settled(s)
    BY <1>1, SettledMeans, SettledMeansNext
  <1>3. ASSUME NEW s \in DOMAIN map' \ left, s \notin live PROVE Halved(s)' \/ Joined(s)'
    <2>1. s \in DOMAIN map
      BY <1>3
    <2>2. CASE Halved(s)
      <3>1. Children(s) \subseteq Shard
        BY <1>1, <2>2 DEF Halved
      <3> QED
        BY <1>2, <2>2, <3>1 DEF Halved
    <2>3. CASE Joined(s)
      BY <1>1, <2>3 DEF Joined
    <2> QED
      BY <1>3, <2>1, <2>2, <2>3 DEF MapInv, EntriesExplained
  <1> QED
    BY <1>3 DEF EntriesExplained, MapInv, Antichain

LEMMA InitMapInv == Init => MapInv
  <1> SUFFICES ASSUME Init PROVE MapInv
    OBVIOUS
  <1>1. \A h \in Handlers : Idle(h) /\ ~At(h, "force")
    BY NoTaskIsTask DEF Init, Idle, At
  <1>2. Antichain
    BY DEF Init, Antichain, IsStrictPrefix
  <1>3. TasksLive /\ EntriesExplained /\ FirstMakesEntry
    BY <1>1 DEF Init, TasksLive, EntriesExplained, FirstMakesEntry, NoEntries
  <1> QED
    BY <1>2, <1>3 DEF MapInv

\* The exporter, and whatever leaves tasks, chain and entries alone.
LEMMA StillSteps ==
    ASSUME IInv, IInv', MapInv, UNCHANGED <<live, first, task, left>>, DOMAIN map' = DOMAIN map
    PROVE  MapInv'
  <1>1. \A s \in Shard, kind \in {"split", "merge"} : Coming(s, kind)' <=> Coming(s, kind)
    BY DEF Coming, At
  <1>2. EntriesExplained' /\ Antichain'
    BY <1>1, ExplainedStays
  <1>3. TasksLive'
    BY DEF MapInv, TasksLive, Idle, At
  <1>4. FirstMakesEntry => FirstMakesEntry'
    BY DEF FirstMakesEntry, Idle, At, Settled, FirstInFlight
  <1> QED
    BY <1>2, <1>3, <1>4 DEF MapInv

\* A handler of a block that is not a first one.
LEMMA NormalSteps ==
    ASSUME IInv, IInv', MapInv, UNCHANGED <<live, first, left>>, NEW h \in Handlers,
           ~At(h, "force"), ~At(h, "force")',
           \A g \in Handlers \ {h} : task'[g] = task[g],
           \/ Idle(h)'
           \/ ~Idle(h) /\ task'[h].shard = task[h].shard
           \/ /\ task'[h].shard \in live /\ first[task'[h].shard] = "none"
              /\ Overlap \/ ~Busy(task'[h].shard),
           \/ DOMAIN map' = DOMAIN map
           \/ ~Idle(h) /\ DOMAIN map' = DOMAIN map \cup {task[h].shard}
    PROVE  MapInv'
  <1>1. \A g \in Handlers : At(g, "force")' <=> At(g, "force")
    BY DEF At
  <1>2. \A s \in Shard, kind \in {"split", "merge"} : Coming(s, kind)' <=> Coming(s, kind)
    BY <1>1 DEF Coming, At
  <1>3. TasksLive
    BY DEF MapInv
  <1>4. DOMAIN map' \subseteq DOMAIN map \cup live
    BY <1>3 DEF TasksLive
  <1>5. EntriesExplained' /\ Antichain'
    BY <1>2, <1>4, ExplainedStays
  <1>6. TasksLive'
    <2>1. ASSUME NEW g \in Handlers, ~Idle(g)'
          PROVE  (task[g].shard \in live /\ first[task[g].shard] = "none")'
      BY <1>3, <2>1 DEF TasksLive, Idle
    <2>2. \A s \in Shard : first'[s] # "none" => s \in live'
      BY <1>3 DEF TasksLive
    <2>3. \A g, i \in Handlers :
            (At(g, "force") /\ At(i, "force") /\ task[g].shard = task[i].shard)' => g = i
      BY <1>1, <1>3 DEF TasksLive, At
    <2> QED
      BY <2>1, <2>2, <2>3 DEF TasksLive
  <1>7. ASSUME ~Overlap, FirstMakesEntry PROVE FirstMakesEntry'
    <2>1. \A s : Settled(s)' <=> Settled(s)
      BY <1>1 DEF Settled, FirstInFlight, At
    <2>2. ASSUME ~Idle(h) PROVE Settled(task[h].shard)
      <3>1. ASSUME NEW g \in Handlers, At(g, "force"), task[g].shard = task[h].shard PROVE FALSE
        <4>1. ~Idle(g)
          BY <3>1, IdleIsAt DEF IInv
        <4> QED
          BY <1>7, <2>2, <3>1, <4>1 DEF FirstMakesEntry
      <3> QED
        BY <1>3, <2>2, <3>1 DEF TasksLive, Settled, FirstInFlight
    <2>3. \A s \in (DOMAIN map' \cap live') \ left' : Settled(s)'
      BY <1>7, <2>1, <2>2 DEF FirstMakesEntry
    <2>4. \A g, i \in Handlers : (~Idle(g) /\ ~Idle(i) /\ task[g].shard = task[i].shard)' => g = i
      BY <1>7 DEF FirstMakesEntry, Idle, Busy
    <2> QED
      BY <2>3, <2>4 DEF FirstMakesEntry
  <1> QED
    BY <1>5, <1>6, <1>7 DEF MapInv

\* A first block reaches its handler: it is still to come.
LEMMA BeginFirstStep ==
    ASSUME IInv, IInv', MapInv, NEW h \in Handlers, NEW s \in Shard, BeginFirst(h, s)
    PROVE  MapInv'
  <1>1. /\ task' = [task EXCEPT ![h] = [at |-> "force", shard |-> s, kind |-> first[s]]]
        /\ first' = [first EXCEPT ![s] = "none"]
        /\ live' = live /\ map' = map /\ left' = left /\ Idle(h) /\ first[s] # "none"
    BY DEF BeginFirst, history
  <1>2. /\ task \in [Handlers -> Task] /\ first \in [Shard -> {"none", "split", "merge"}]
        /\ ~At(h, "force")
    BY <1>1 DEF IInv, TypeOK, Idle, At, NoTask
  <1>3. TasksLive /\ s \in live /\ \A g \in Handlers : ~Idle(g) => task[g].shard # s
    BY <1>1 DEF MapInv, TasksLive
  <1>4. \A g \in Handlers : At(g, "force") => ~Idle(g) /\ task[g].shard # s
    BY <1>3, IdleIsAt DEF IInv
  <1>5. \A t \in Shard, kind \in {"split", "merge"} : Coming(t, kind)' <=> Coming(t, kind)
    <2> SUFFICES ASSUME NEW t \in Shard, NEW kind \in {"split", "merge"}
                 PROVE  Coming(t, kind)' <=> Coming(t, kind)
      OBVIOUS
    <2>1. CASE t = s
      <3>1. Coming(s, kind) <=> first[s] = kind
        BY <1>4 DEF Coming
      <3>2. Coming(s, kind)' <=> first[s] = kind
        BY <1>1, <1>2, <1>4 DEF Coming, At
      <3> QED
        BY <2>1, <3>1, <3>2
    <2>2. CASE t # s
      BY <1>1, <1>2, <2>2 DEF Coming, At
    <2> QED
      BY <2>1, <2>2
  <1>6. EntriesExplained' /\ Antichain'
    BY <1>1, <1>5, ExplainedStays
  <1>7. TasksLive'
    <2>1. ASSUME NEW g \in Handlers, ~Idle(g)'
          PROVE  (task[g].shard \in live /\ first[task[g].shard] = "none")'
      BY <1>1, <1>2, <1>3, <2>1, IdleIsAt DEF TasksLive, Idle, IInv
    <2>2. \A t \in Shard : first'[t] # "none" => t \in live'
      BY <1>1, <1>2, <1>3 DEF TasksLive
    <2>3. \A g, i \in Handlers :
            (At(g, "force") /\ At(i, "force") /\ task[g].shard = task[i].shard)' => g = i
      BY <1>1, <1>2, <1>3, <1>4 DEF TasksLive, At
    <2> QED
      BY <2>1, <2>2, <2>3 DEF TasksLive
  <1>8. ASSUME FirstMakesEntry PROVE FirstMakesEntry'
    <2>1. \A t \in Shard : Settled(t)' <=> Settled(t)
      BY <1>5, SettledMeans, SettledMeansNext DEF IInv
    <2>2. \A g, i \in Handlers : (~Idle(g) /\ ~Idle(i) /\ task[g].shard = task[i].shard)' => g = i
      BY <1>1, <1>2, <1>3, <1>8 DEF FirstMakesEntry, Idle
    <2>3. DOMAIN map \subseteq Shard
      BY DEF IInv, TypeOK
    <2> QED
      BY <1>1, <1>8, <2>1, <2>2, <2>3 DEF FirstMakesEntry
  <1> QED
    BY <1>6, <1>7, <1>8 DEF MapInv

\* What a missed first block should have removed is among the entries left.
LEMMA SkipFirstStep ==
    ASSUME IInv, IInv', MapInv, NEW s \in Shard, SkipFirst(s)
    PROVE  MapInv'
  <1> DEFINE outdated == IF first[s] = "split" THEN {Parent(s)} ELSE Children(s)
  <1>1. /\ first' = [first EXCEPT ![s] = "none"] /\ first[s] # "none"
        /\ live' = live /\ map' = map /\ task' = task
        /\ left' = (left \ {s}) \cup (outdated \cap DOMAIN map)
    BY DEF SkipFirst
  <1>2. /\ TypeOK /\ TypeOK' /\ TasksLive /\ Antichain /\ EntriesExplained
        /\ live \subseteq Shard /\ DOMAIN map \subseteq Shard
        /\ first \in [Shard -> {"none", "split", "merge"}]
    BY DEF IInv, TypeOK, MapInv
  <1>3. s \in live /\ \A h \in Handlers : At(h, "force") => task[h].shard # s
    BY <1>1, <1>2, IdleIsAt DEF TasksLive
  <1>4. \A kind \in {"split", "merge"} : ~Coming(s, kind)' /\ (Coming(s, kind) <=> kind = first[s])
    BY <1>1, <1>2, <1>3 DEF Coming, At
  <1>5. \A t \in Shard \ {s}, kind \in {"split", "merge"} : Coming(t, kind)' <=> Coming(t, kind)
    BY <1>1, <1>2 DEF Coming, At
  <1>6. Settled(s)' /\ \A t \in Shard \ {s} : Settled(t)' <=> Settled(t)
    BY <1>2, <1>4, <1>5, SettledMeans, SettledMeansNext
  <1> HIDE DEF outdated
  <1>7. ASSUME NEW t \in DOMAIN map' \ left', t \notin live PROVE Halved(t)' \/ Joined(t)'
    <2>1. t \in DOMAIN map \ left /\ t \in Shard /\ t \notin outdated
      BY <1>1, <1>2, <1>3, <1>7
    <2>2. CASE Halved(t)
      <3>1. s \notin Children(t)
        <4> SUFFICES ASSUME s \in Children(t) PROVE FALSE
          OBVIOUS
        <4>1. ~Coming(s, "merge")
          BY <2>2 DEF Halved
        <4>2. first[s] = "split"
          BY <1>1, <1>2, <1>4, <4>1
        <4>3. Parent(s) = t
          BY <2>1, ParentOfChild
        <4> QED
          BY <2>1, <4>2, <4>3 DEF outdated
      <3>2. Children(t) \subseteq Shard \ {s}
        BY <1>2, <2>2, <3>1 DEF Halved
      <3> QED
        BY <1>1, <1>5, <1>6, <2>2, <3>2 DEF Halved
    <2>3. CASE Joined(t)
      <3>1. PICK p \in live : t \in Children(p) /\ Coming(p, "merge")
        BY <2>3 DEF Joined
      <3>2. p # s
        BY <1>4, <2>1, <3>1 DEF outdated
      <3> QED
        BY <1>1, <1>2, <1>5, <3>1, <3>2 DEF Joined
    <2> QED
      BY <1>2, <1>7, <2>1, <2>2, <2>3 DEF EntriesExplained
  <1>8. EntriesExplained' /\ Antichain'
    BY <1>1, <1>2, <1>7 DEF EntriesExplained, Antichain
  <1>9. TasksLive'
    BY <1>1, <1>2 DEF TasksLive, Idle, At
  <1>10. ASSUME FirstMakesEntry PROVE FirstMakesEntry'
    <2>1. \A t \in (DOMAIN map' \cap live') \ left' : Settled(t)'
      BY <1>1, <1>2, <1>6, <1>10 DEF FirstMakesEntry
    <2> QED
      BY <1>1, <1>10, <2>1 DEF FirstMakesEntry, Idle
  <1> QED
    BY <1>8, <1>9, <1>10 DEF MapInv

\* A live shard is no half of a live shard.
LEMMA NoLiveHalf ==
    ASSUME IInv, Antichain, NEW s \in live, NEW c \in Children(s), c \in live
    PROVE  FALSE
  BY ChildIsBelow DEF IInv, TypeOK, Antichain

\* What a forced update removes is no half that is live.
LEMMA LiveHalfStays ==
    ASSUME IInv, Antichain, NEW h \in Handlers, task[h].shard \in live, NEW m,
           NEW t \in Shard, task[h].shard \notin Children(t), NEW c \in Children(t), c \in live
    PROVE  c \notin Outdated(m, task[h])
  <1> DEFINE s == task[h].shard
  <1> SUFFICES ASSUME c \in Outdated(m, task[h]) PROVE FALSE
    OBVIOUS
  <1>1. s \in Shard /\ c # Workchain
    BY ParentOfChild DEF IInv, TypeOK
  <1>2. CASE task[h].kind = "split"
    <2>1. c = Parent(s)
      BY <1>2 DEF Outdated
    <2>2. s \in Children(c)
      BY <1>1, <2>1, ChildOfParent
    <2> QED
      BY <2>2, NoLiveHalf
  <1>3. CASE task[h].kind # "split"
    <2>1. c \in Children(s)
      BY <1>3 DEF Outdated
    <2> QED
      BY <2>1, NoLiveHalf
  <1> QED
    BY <1>2, <1>3

\* The first block of a shard makes its entry, and what it outdates goes.
LEMMA ForceUpdateStep ==
    ASSUME IInv, IInv', MapInv, NEW h \in Handlers, ForceUpdate(h)
    PROVE  MapInv'
  <1>0. PICK s \in Shard : s = task[h].shard
    BY IdleIsAt DEF IInv
  <1> DEFINE updated == Entry(map, s)
             gone == Outdated(updated, task[h])
  <1>1. TypeOK /\ TypeOK' /\ TasksLive /\ Antichain /\ EntriesExplained /\ live \subseteq Shard
    BY DEF IInv, TypeOK, MapInv
  <1>2. /\ At(h, "force") /\ live' = live /\ first' = first /\ task' = [task EXCEPT ![h] = NoTask]
    BY DEF ForceUpdate, Finish, chainVars
  <1>3. s \in live /\ s \in Shard /\ first[s] = "none" /\ task[h].kind \in {"split", "merge"}
    BY <1>0, <1>1, <1>2, IdleIsAt DEF TasksLive
  <1>4. DOMAIN map' = DOMAIN updated \ gone /\ DOMAIN updated = DOMAIN map \cup {s}
    BY <1>0, <1>1, <1>3, ForceUpdateKeeps, EntryAddsOne
  <1> HIDE DEF updated
  <1>15. left' = left \ (gone \cup {s})
    BY <1>0 DEF ForceUpdate, updated
  <1>5. \A g \in Handlers : At(g, "force")' => g # h /\ At(g, "force") /\ task'[g] = task[g]
    BY <1>1, <1>2, NoTaskIsTask DEF At, TypeOK
  <1>6. \A g \in Handlers : At(g, "force") /\ task[g].shard = s => g = h
    BY <1>0, <1>1, <1>2 DEF TasksLive
  <1>7. \A kind \in {"split", "merge"} : ~Coming(s, kind)' /\ (Coming(s, kind) <=> kind = task[h].kind)
    BY <1>0, <1>2, <1>3, <1>5, <1>6 DEF Coming
  <1>8. \A t \in Shard \ {s}, kind \in {"split", "merge"} : Coming(t, kind)' <=> Coming(t, kind)
    <2>1. \A g \in Handlers \ {h} : task'[g] = task[g]
      BY <1>1, <1>2 DEF TypeOK
    <2> QED
      BY <1>0, <1>2, <1>5, <2>1 DEF Coming, At
  <1>9. Settled(s)' /\ ~Settled(s) /\ \A t \in Shard \ {s} : Settled(t)' <=> Settled(t)
    BY <1>1, <1>3, <1>7, <1>8, SettledMeans, SettledMeansNext
  <1>10. ASSUME NEW t \in DOMAIN map', t \notin live, Halved(t) PROVE Halved(t)'
    <2>1. Children(t) \subseteq live /\ Children(t) \subseteq Shard /\ t \in Shard /\ t # s
      BY <1>1, <1>3, <1>4, <1>10 DEF Halved, TypeOK
    <2>2. \A c \in Children(t) : ~Coming(c, "merge")' 
      BY <1>7, <1>8, <1>10, <2>1 DEF Halved
    <2>3. CASE s \in Children(t)
      <3>1. task[h].kind = "split"
        BY <1>3, <1>7, <1>10, <2>3 DEF Halved
      <3>2. gone \subseteq {t} /\ ~(Children(t) \subseteq DOMAIN updated)
        BY <1>0, <1>4, <1>10, <2>1, <2>3, <3>1, ParentOfChild DEF Outdated
      <3>3. PICK c \in Children(t) : c \notin DOMAIN updated
        BY <3>2
      <3>4. c # s /\ ~Settled(c)
        BY <1>4, <1>10, <3>3 DEF Halved
      <3>5. \A d \in Children(t) : Settled(d)' => d \in DOMAIN map'
        BY <1>4, <1>9, <1>10, <2>1, <3>2, ChildrenAreLonger DEF Halved
      <3> QED
        BY <1>2, <1>9, <2>1, <2>2, <3>4, <3>5 DEF Halved
    <2>4. CASE s \notin Children(t)
      <3>1. \A c \in Children(t) : c \notin gone
        BY <1>0, <1>1, <1>3, <2>1, <2>4, LiveHalfStays
      <3>2. \A c \in Children(t) : Settled(c)' => c \in DOMAIN map'
        BY <1>4, <1>9, <1>10, <2>1, <2>4, <3>1 DEF Halved
      <3> QED
        BY <1>2, <1>9, <1>10, <2>1, <2>2, <2>4, <3>2 DEF Halved
    <2> QED
      BY <2>3, <2>4
  <1>11. ASSUME NEW t \in DOMAIN map', t \notin live, Joined(t) PROVE Joined(t)'
    <2>1. PICK p \in live : t \in Children(p) /\ Coming(p, "merge")
      BY <1>11 DEF Joined
    <2>2. p # s
      <3> SUFFICES ASSUME p = s PROVE FALSE
        OBVIOUS
      <3>1. task[h].kind = "merge"
        BY <1>7, <2>1
      <3>2. t \in gone
        BY <1>0, <2>1, <3>1 DEF Outdated
      <3> QED
        BY <1>4, <3>2
    <2> QED
      BY <1>1, <1>2, <1>8, <2>1, <2>2 DEF Joined
  <1>12. EntriesExplained' /\ Antichain'
    <2>1. ASSUME NEW t \in DOMAIN map' \ left', t \notin live PROVE Halved(t)' \/ Joined(t)'
      <3>1. t \in DOMAIN map \ left
        BY <1>3, <1>4, <1>15, <2>1
      <3> QED
        BY <1>1, <1>10, <1>11, <2>1, <3>1 DEF EntriesExplained
    <2> QED
      BY <1>1, <1>2, <2>1 DEF EntriesExplained, Antichain
  <1>13. TasksLive'
    <2>1. \A g \in Handlers : ~Idle(g)' => ~Idle(g) /\ task'[g] = task[g]
      BY <1>1, <1>2 DEF Idle, TypeOK
    <2> QED
      BY <1>1, <1>2, <1>5, <2>1 DEF TasksLive
  <1>14. ASSUME FirstMakesEntry PROVE FirstMakesEntry'
    <2>1. \A t \in (DOMAIN map' \cap live') \ left' : Settled(t)'
      BY <1>1, <1>2, <1>4, <1>9, <1>14, <1>15 DEF FirstMakesEntry
    <2>2. \A g, i \in Handlers : (~Idle(g) /\ ~Idle(i) /\ task[g].shard = task[i].shard)' => g = i
      BY <1>1, <1>2, <1>14 DEF FirstMakesEntry, Idle, TypeOK
    <2> QED
      BY <2>1, <2>2 DEF FirstMakesEntry
  <1> QED
    BY <1>12, <1>13, <1>14 DEF MapInv

\* The chain's own changes leave tasks and entries alone.
LEMMA TasksOfSettled ==
    ASSUME MapInv, IInv, NEW s \in Shard, s \notin live
    PROVE  /\ first[s] = "none"
           /\ \A h \in Handlers : ~Idle(h) => task[h].shard # s
           /\ \A h \in Handlers : At(h, "force") => task[h].shard # s
           /\ Settled(s)
  BY IdleIsAt DEF MapInv, TasksLive, IInv, Settled, FirstInFlight

\* A split leaves the entry of the whole, explained by its halves to come.
LEMMA SplitStep ==
    ASSUME IInv, IInv', MapInv, NEW s \in Shard, SplitShard(s)
    PROVE  MapInv'
  <1>1. /\ live' = (live \ {s}) \cup Children(s)
        /\ first' = [t \in Shard |-> IF t \in Children(s) THEN "split" ELSE first[t]]
        /\ map' = map /\ task' = task /\ left' = left /\ Len(s) < MaxDepth
        /\ s \in live /\ Settled(s) /\ ~Busy(s)
        /\ s # Workchain => \A c \in Children(Parent(s)) \cap live : Settled(c)
    BY DEF SplitShard, MayChange, history
  <1>2. TypeOK /\ TypeOK' /\ TasksLive /\ Antichain /\ EntriesExplained
        /\ live \subseteq Shard /\ DOMAIN map \subseteq Shard
    BY DEF IInv, TypeOK, MapInv
  <1>3. Children(s) \subseteq Shard /\ \A c \in Children(s) : c \notin live
    BY <1>1, <1>2, ChildrenAreShards, NoLiveHalf
  <1>4. \A c \in Children(s) : Coming(c, "split")' /\ ~Coming(c, "merge")' /\ ~Settled(c)'
    <2> SUFFICES ASSUME NEW c \in Children(s)
                 PROVE  Coming(c, "split")' /\ ~Coming(c, "merge")' /\ ~Settled(c)'
      OBVIOUS
    <2>1. first'[c] = "split" /\ \A h \in Handlers : At(h, "force")' => task'[h].shard # c
      BY <1>1, <1>3, TasksOfSettled DEF At
    <2> QED
      BY <1>2, <1>3, <2>1 DEF Coming, Settled
  <1>5. \A t \in Shard \ Children(s) : /\ \A kind \in {"split", "merge"} : Coming(t, kind)' <=> Coming(t, kind)
                                       /\ Settled(t)' <=> Settled(t)
    BY <1>1 DEF Coming, At, Settled, FirstInFlight
  <1>6. Antichain'
    <2> SUFFICES ASSUME NEW a \in live', NEW b \in live', IsStrictPrefix(a, b) PROVE FALSE
      BY DEF Antichain
    <2>0. a \in Seq({0, 1}) /\ b \in Seq({0, 1}) /\ s \in Seq({0, 1}) /\ a \in Shard /\ b \in Shard
      BY <1>1, <1>2, <1>3, ShardIsSeq
    <2>1. CASE a \in live /\ b \in live
      BY <1>2, <2>1 DEF Antichain
    <2>2. CASE a \in live \ {s} /\ b \in Children(s)
      BY <1>1, <1>2, <2>0, <2>2, AboveChild DEF Antichain
    <2>3. CASE a \in Children(s) /\ b \in live
      <3>1. IsStrictPrefix(s, b)
        BY <2>0, <2>3, ChildIsBelow, BelowBelow
      <3> QED
        BY <1>1, <1>2, <2>3, <3>1 DEF Antichain
    <2>4. CASE a \in Children(s) /\ b \in Children(s)
      BY <2>0, <2>4, ChildPath, StrictPointwise
    <2> QED
      BY <1>1, <2>1, <2>2, <2>3, <2>4
  <1>7. TasksLive'
    <2>1. ASSUME NEW h \in Handlers, ~Idle(h)'
          PROVE  (task[h].shard \in live /\ first[task[h].shard] = "none")'
      <3>1. task' = task /\ task[h].shard \in live \ {s} /\ first[task[h].shard] = "none"
        BY <1>1, <1>2, <2>1 DEF TasksLive, Busy, Idle
      <3> QED
        BY <1>1, <1>2, <1>3, <3>1
    <2>2. \A t \in Shard : first'[t] # "none" => t \in live'
      BY <1>1, <1>2 DEF TasksLive, Settled
    <2>3. \A g, i \in Handlers :
            (At(g, "force") /\ At(i, "force") /\ task[g].shard = task[i].shard)' => g = i
      BY <1>1, <1>2 DEF TasksLive, At
    <2> QED
      BY <2>1, <2>2, <2>3 DEF TasksLive
  <1>8. ASSUME NEW t \in DOMAIN map' \ left', t \notin live' PROVE Halved(t)' \/ Joined(t)'
    <2>1. t \in DOMAIN map \ left /\ t \in Shard
      BY <1>1, <1>2, <1>8
    <2>2. CASE t = s
      <3>1. Left(s) \in Children(s)
        BY DEF Children
      <3>2. Halved(s)'
        BY <1>1, <1>4, <3>1 DEF Halved
      <3> QED
        BY <2>2, <3>2
    <2>3. CASE t # s /\ Halved(t)
      <3>1. s \notin Children(t)
        BY <1>1, <2>1, <2>3, ParentOfChild DEF Halved
      <3>2. Children(t) \subseteq live \ {s} /\ \A c \in Children(t) : c \in Shard \ Children(s)
        BY <1>2, <1>3, <2>3, <3>1 DEF Halved
      <3> QED
        BY <1>1, <1>5, <2>3, <3>2 DEF Halved
    <2>4. CASE t # s /\ Joined(t)
      <3>1. PICK p \in live : t \in Children(p) /\ Coming(p, "merge")
        BY <2>4 DEF Joined
      <3>2. p # s
        BY <1>1, <1>2, <3>1, SettledMeans
      <3>3. p \in live' /\ Coming(p, "merge")'
        BY <1>1, <1>2, <1>3, <1>5, <3>1, <3>2
      <3> QED
        BY <3>1, <3>3 DEF Joined
    <2> QED
      BY <1>1, <1>2, <1>8, <2>1, <2>2, <2>3, <2>4 DEF EntriesExplained
  <1>9. ASSUME FirstMakesEntry PROVE FirstMakesEntry'
    <2>1. ASSUME NEW t \in (DOMAIN map \ left) \cap Children(s) PROVE FALSE
      <3>0. t \in Shard /\ t \notin live /\ s \in Seq({0, 1})
        BY <1>3, <2>1, ShardIsSeq
      <3>1. ~Halved(t)
        <4> SUFFICES ASSUME Halved(t) PROVE FALSE
          OBVIOUS
        <4>1. Left(t) \in live /\ Left(t) \in Children(t)
          BY DEF Halved, Children
        <4>2. IsStrictPrefix(s, Left(t))
          BY <2>1, <3>0, <4>1, ChildIsBelow, BelowBelow, ShardIsSeq
        <4> QED
          BY <1>1, <1>2, <4>1, <4>2 DEF Antichain
      <3>2. ~Joined(t)
        <4> SUFFICES ASSUME NEW p \in live, t \in Children(p), Coming(p, "merge") PROVE FALSE
          BY DEF Joined
        <4>1. p = s
          BY <1>2, <2>1, ParentOfChild
        <4> QED
          BY <1>1, <1>2, <4>1, SettledMeans
      <3> QED
        BY <1>2, <2>1, <3>0, <3>1, <3>2 DEF EntriesExplained
    <2> QED
      BY <1>1, <1>2, <1>5, <1>9, <2>1 DEF FirstMakesEntry, Idle
  <1>10. EntriesExplained'
    BY <1>8 DEF EntriesExplained
  <1> QED
    BY <1>6, <1>7, <1>9, <1>10 DEF MapInv

\* A merge leaves the entries of the halves, explained by the whole to come.
LEMMA MergeStep ==
    ASSUME IInv, IInv', MapInv, NEW s \in Shard, MergeShards(s)
    PROVE  MapInv'
  <1>1. /\ live' = (live \ Children(s)) \cup {s}
        /\ first' = [first EXCEPT ![s] = "merge"]
        /\ map' = map /\ task' = task /\ left' = left
        /\ Children(s) \subseteq live /\ Children(s) \subseteq Shard
        /\ \A c \in Children(s) : Settled(c) /\ ~Busy(c)
    BY DEF MergeShards, MayChange, history
  <1>2. /\ TypeOK /\ TypeOK' /\ TasksLive /\ Antichain /\ EntriesExplained
        /\ live \subseteq Shard /\ DOMAIN map \subseteq Shard
        /\ first \in [Shard -> {"none", "split", "merge"}]
    BY DEF IInv, TypeOK, MapInv
  <1>3. Left(s) \in Children(s) /\ Left(s) \in live /\ s \notin live
    BY <1>1, <1>2, NoLiveHalf DEF Children
  <1>4. /\ first[s] = "none"
        /\ \A h \in Handlers : ~Idle(h) => task[h].shard # s
        /\ \A h \in Handlers : At(h, "force") => task[h].shard # s
    BY <1>3, TasksOfSettled
  <1>5. Coming(s, "merge")'
    BY <1>1, <1>2 DEF Coming
  <1>6. \A u \in Shard \ {s} : /\ \A kind \in {"split", "merge"} : Coming(u, kind)' <=> Coming(u, kind)
                               /\ Settled(u)' <=> Settled(u)
    BY <1>1, <1>2 DEF Coming, At, Settled, FirstInFlight
  <1>7. ASSUME NEW a \in live, IsStrictPrefix(a, s) PROVE FALSE
    <2>1. IsStrictPrefix(a, Left(s))
      BY <1>1, <1>2, <1>3, <1>7, ChildIsBelow, BelowBelow, ShardIsSeq
    <2> QED
      BY <1>2, <1>3, <2>1 DEF Antichain
  <1>8. Antichain'
    <2> SUFFICES ASSUME NEW a \in live', NEW b \in live', IsStrictPrefix(a, b) PROVE FALSE
      BY DEF Antichain
    <2>1. CASE a \in live /\ b \in live
      BY <1>2, <2>1 DEF Antichain
    <2>2. CASE a \in live /\ b = s
      BY <1>7, <2>2
    <2>3. CASE a = s /\ b \in live \ Children(s)
      <3>1. PICK c \in Children(s) : c = b \/ IsStrictPrefix(c, b)
        BY <1>2, <2>3, BelowChild
      <3> QED
        BY <1>1, <1>2, <2>3, <3>1 DEF Antichain
    <2>4. CASE a = s /\ b = s
      BY <2>4, ShardIsSeq, StrictPointwise
    <2> QED
      BY <1>1, <2>1, <2>2, <2>3, <2>4
  <1>9. TasksLive'
    <2>1. ASSUME NEW h \in Handlers, ~Idle(h)'
          PROVE  (task[h].shard \in live /\ first[task[h].shard] = "none")'
      <3>1. /\ task' = task /\ task[h].shard \in live \ Children(s)
            /\ task[h].shard # s /\ first[task[h].shard] = "none"
        BY <1>1, <1>2, <1>4, <2>1 DEF TasksLive, Busy, Idle
      <3> QED
        BY <1>1, <1>2, <3>1
    <2>2. \A t \in Shard : first'[t] # "none" => t \in live'
      BY <1>1, <1>2 DEF TasksLive, Settled
    <2>3. \A g, i \in Handlers :
            (At(g, "force") /\ At(i, "force") /\ task[g].shard = task[i].shard)' => g = i
      BY <1>1, <1>2 DEF TasksLive, At
    <2> QED
      BY <2>1, <2>2, <2>3 DEF TasksLive
  <1>10. ASSUME NEW t \in DOMAIN map' \ left', t \notin live' PROVE Halved(t)' \/ Joined(t)'
    <2>1. t \in DOMAIN map \ left /\ t \in Shard /\ t # s
      BY <1>1, <1>2, <1>10
    <2>2. CASE t \in live
      BY <1>1, <1>5, <1>10, <2>2 DEF Joined
    <2>3. CASE Halved(t)
      <3>1. \A c \in Children(t) : c \notin Children(s) /\ c # s
        BY <1>3, <2>1, <2>3, ParentOfChild DEF Halved
      <3>2. Children(t) \subseteq live' /\ Children(t) \subseteq Shard \ {s}
        BY <1>1, <1>2, <2>3, <3>1 DEF Halved
      <3>3. PICK d \in Children(t) : ~Settled(d)
        BY <2>3 DEF Halved
      <3>4. ~Settled(d)'
        BY <1>6, <3>2, <3>3
      <3>5. \A c \in Children(t) : ~Coming(c, "merge")' /\ (Settled(c)' => c \in DOMAIN map')
        BY <1>1, <1>6, <2>3, <3>2 DEF Halved
      <3> QED
        BY <3>2, <3>3, <3>4, <3>5 DEF Halved
    <2>4. CASE Joined(t)
      <3>1. PICK p \in live : t \in Children(p) /\ Coming(p, "merge")
        BY <2>4 DEF Joined
      <3>2. p \notin Children(s) /\ p # s
        BY <1>1, <1>2, <1>3, <3>1, SettledMeans
      <3>3. p \in Shard \ {s} /\ p \in live'
        BY <1>1, <1>2, <3>1, <3>2
      <3>4. Coming(p, "merge")'
        BY <1>6, <3>1, <3>3
      <3> QED
        BY <3>1, <3>3, <3>4 DEF Joined
    <2> QED
      BY <1>2, <2>1, <2>2, <2>3, <2>4 DEF EntriesExplained
  <1>11. ASSUME FirstMakesEntry PROVE FirstMakesEntry'
    <2>1. s \notin DOMAIN map \ left
      <3> SUFFICES ASSUME s \in DOMAIN map \ left PROVE FALSE
        OBVIOUS
      <3>1. ~Halved(s)
        BY <1>1 DEF Halved
      <3>2. ~Joined(s)
        <4> SUFFICES ASSUME NEW p \in live, s \in Children(p) PROVE FALSE
          BY DEF Joined
        <4> QED
          BY <1>2, <1>7, ChildIsBelow
      <3> QED
        BY <1>2, <1>3, <3>1, <3>2 DEF EntriesExplained
    <2>2. \A t \in (DOMAIN map' \cap live') \ left' : Settled(t)'
      BY <1>1, <1>2, <1>6, <1>11, <2>1 DEF FirstMakesEntry
    <2>3. \A g, i \in Handlers : (~Idle(g) /\ ~Idle(i) /\ task[g].shard = task[i].shard)' => g = i
      BY <1>1, <1>11 DEF FirstMakesEntry, Idle
    <2> QED
      BY <2>2, <2>3 DEF FirstMakesEntry
  <1>12. EntriesExplained'
    BY <1>10 DEF EntriesExplained
  <1> QED
    BY <1>8, <1>9, <1>11, <1>12 DEF MapInv

\* A restart forgets every entry; the first blocks that come again are of live
\* shards.
LEMMA RestartStep ==
    ASSUME IInv, IInv', MapInv, Restart
    PROVE  MapInv'
  <1>1. /\ map' = NoEntries /\ live' = live /\ task' = [h \in Handlers |-> NoTask]
        /\ TasksLive /\ Antichain
    BY DEF Restart, MapInv
  <1>2. \A h \in Handlers : Idle(h)' /\ ~At(h, "force")'
    BY <1>1, NoTaskIsTask DEF Idle, At
  <1>3. ASSUME NEW s \in Shard, first'[s] # "none" PROVE s \in live
    <2>1. PICK again \in SUBSET {h \in Handlers : At(h, "force")} :
            first' = [t \in Shard |->
                        IF \E h \in again : task[h].shard = t
                          THEN (CHOOSE b \in {task[h] : h \in again} : b.shard = t).kind
                          ELSE first[t]]
      BY DEF Restart
    <2>2. CASE \E h \in again : task[h].shard = s
      <3>1. PICK h \in Handlers : At(h, "force") /\ task[h].shard = s
        BY <2>2
      <3> QED
        BY <1>1, <3>1, IdleIsAt DEF TasksLive, IInv
    <2>3. CASE ~ \E h \in again : task[h].shard = s
      <3>1. first[s] # "none"
        BY <1>3, <2>1, <2>3
      <3> QED
        BY <1>1, <3>1 DEF TasksLive
    <2> QED
      BY <2>2, <2>3
  <1>4. TasksLive'
    BY <1>1, <1>2, <1>3 DEF TasksLive
  <1>5. EntriesExplained' /\ FirstMakesEntry'
    BY <1>1, <1>2 DEF EntriesExplained, FirstMakesEntry, NoEntries
  <1> QED
    BY <1>1, <1>4, <1>5 DEF MapInv, Antichain

LEMMA StepMapInv == IInv /\ MapInv /\ [Next]_vars => MapInv'
  <1> SUFFICES ASSUME IInv, MapInv, [Next]_vars PROVE MapInv'
    OBVIOUS
  <1>1. IInv'
    BY StepIInv
  <1>2. \A h \in Handlers : TypeOK /\ task \in [Handlers -> Task]
    BY DEF IInv, TypeOK
  <1>3. ASSUME NEW s \in Shard, SplitShard(s) \/ MergeShards(s) PROVE MapInv'
    BY <1>1, <1>3, SplitStep, MergeStep
  <1>4. CASE Restart
    BY <1>1, <1>4, RestartStep
  <1>5. ASSUME NEW h \in Handlers, NEW s \in Shard, BeginNormal(h, s) PROVE MapInv'
    <2>1. /\ UNCHANGED <<live, first, left>> /\ DOMAIN map' = DOMAIN map
          /\ ~At(h, "force") /\ ~At(h, "force")'
          /\ \A g \in Handlers \ {h} : task'[g] = task[g]
          /\ task'[h].shard = s /\ s \in live /\ first[s] = "none"
          /\ Overlap \/ ~Busy(s)
      BY <1>2, <1>5, NoTaskIsTask DEF BeginNormal, chainVars, history, At, Idle
    <2> QED
      BY <1>1, <2>1, NormalSteps
  <1>6. ASSUME NEW h \in Handlers, NEW s \in Shard, BeginFirst(h, s) PROVE MapInv'
    BY <1>1, <1>6, BeginFirstStep
  <1>7. ASSUME NEW h \in Handlers, LockRead(h) \/ LookupMiss(h) PROVE MapInv'
    <2>1. /\ UNCHANGED <<live, first, left>> /\ DOMAIN map' = DOMAIN map
          /\ ~At(h, "force") /\ ~At(h, "force")' /\ ~Idle(h)
          /\ \A g \in Handlers \ {h} : task'[g] = task[g]
          /\ task'[h].shard = task[h].shard
      <3>1. PICK pos \in {"reading", "insert"} : task' = [task EXCEPT ![h].at = pos]
        BY <1>7 DEF LockRead, LookupMiss, Goto
      <3>2. task'[h] = [task[h] EXCEPT !.at = pos] /\ \A g \in Handlers \ {h} : task'[g] = task[g]
        BY <1>2, <3>1
      <3>3. task[h] \in Task /\ task[h].at \in {"lookup", "reading"}
        BY <1>2, <1>7 DEF LockRead, LookupMiss, At
      <3>4. task'[h].shard = task[h].shard /\ task'[h].at = pos
        BY <3>2, <3>3 DEF Task
      <3>5. ~At(h, "force") /\ ~At(h, "force")' /\ ~Idle(h)
        BY <3>3, <3>4, NoTaskIsTask DEF At, Idle
      <3> QED
        BY <1>7, <3>2, <3>4, <3>5 DEF LockRead, LookupMiss, chainVars, history
    <2> QED
      BY <1>1, <2>1, NormalSteps
  <1>8. ASSUME NEW h \in Handlers, LookupHit(h) \/ Insert(h) PROVE MapInv'
    <2>1. /\ UNCHANGED <<live, first, left>> /\ Idle(h)'
          /\ ~At(h, "force") /\ ~At(h, "force")' /\ ~Idle(h)
          /\ \A g \in Handlers \ {h} : task'[g] = task[g]
      BY <1>2, <1>8, NoTaskIsTask DEF LookupHit, Insert, Finish, chainVars, history, At, Idle
    <2>2. DOMAIN map' = DOMAIN map \/ DOMAIN map' = DOMAIN map \cup {task[h].shard}
      BY <1>2, <1>8, IdleIsAt, EntryAddsOne DEF LookupHit, Insert
    <2> QED
      BY <1>1, <2>1, <2>2, NormalSteps
  <1>9. ASSUME NEW h \in Handlers, LockWrite(h) PROVE MapInv'
    BY <1>1, <1>9, StillSteps DEF LockWrite, chainVars, history
  <1>10. ASSUME NEW h \in Handlers, ForceUpdate(h) PROVE MapInv'
    BY <1>1, <1>10, ForceUpdateStep
  <1>11. CASE Export
    <2>1. UNCHANGED <<live, first, task, left>> /\ DOMAIN map' = DOMAIN map
      BY <1>11 DEF Export, BeginWalk, EndWalk, Visit, chainVars, history
    <2> QED
      BY <1>1, <2>1, StillSteps
  <1>12. CASE UNCHANGED vars
    BY <1>1, <1>12, StillSteps DEF vars, chainVars, history
  <1>13. ASSUME NEW s \in Shard, SkipFirst(s) PROVE MapInv'
    BY <1>1, <1>13, SkipFirstStep
  <1> QED
    BY <1>3, <1>4, <1>5, <1>6, <1>7, <1>8, <1>9, <1>10, <1>11, <1>12, <1>13 DEF Next, Lookup, Write

-----------------------------------------------------------------------------
\* While no first block is to come, every entry is of a live shard, or a first
\* block that should have removed it was missed: otherwise nobody is shown the
\* numbers of a shard that was split or merged away (metrics.rs:228-245).  Blocks
\* of one shard may be handled at the same time.
THEOREM NoOutdatedLeft == Spec => []NoOutdatedShard
  <1>1. IInv /\ MapInv => NoOutdatedShard
    <2> SUFFICES ASSUME IInv, MapInv, \A s \in live : Settled(s), NEW t \in DOMAIN map \ left, t \notin live
                 PROVE  FALSE
      BY DEF NoOutdatedShard
    <2>1. TypeOK /\ live \subseteq Shard
      BY DEF IInv, TypeOK
    <2>2. ~Halved(t)
      BY DEF Halved
    <2>3. ~Joined(t)
      BY <2>1, SettledMeans DEF Joined
    <2> QED
      BY <2>2, <2>3 DEF MapInv, EntriesExplained
  <1> QED
    BY <1>1, InitIInv, StepIInv, InitMapInv, StepMapInv, PTL DEF Spec

\* Where the blocks of one shard are handled one by one, two entries cover a
\* common part of the workchain only while a split is half done, or where a missed
\* first block left one of them behind (metrics.rs:228-245).
THEOREM OverlapOnlyInSplit == Spec => [](~Overlap => OverlapOnlyDuringSplit)
  <1>1. IInv /\ MapInv => (~Overlap => OverlapOnlyDuringSplit)
    <2> SUFFICES ASSUME IInv, MapInv, FirstMakesEntry, NEW s \in DOMAIN map \ left, NEW t \in DOMAIN map \ left,
                        IsStrictPrefix(s, t)
                 PROVE  /\ s = Parent(t)
                        /\ \A c \in Children(s) \ {t} : c \in live /\ ~Settled(c)
      BY DEF MapInv, OverlapOnlyDuringSplit
    <2>1. /\ TypeOK /\ Antichain /\ live \subseteq Shard /\ s \in Shard /\ t \in Shard
          /\ s \in live \/ Halved(s) \/ Joined(s)
          /\ t \in live \/ Halved(t) \/ Joined(t)
      BY DEF IInv, TypeOK, MapInv, EntriesExplained
    <2>2. PICK r \in live : t = r \/ IsStrictPrefix(t, r) \/ (t \in Children(r) /\ Coming(r, "merge"))
      <3>1. CASE Halved(t)
        <4>1. Left(t) \in live /\ Left(t) \in Children(t)
          BY <3>1 DEF Halved, Children
        <4> QED
          BY <2>1, <4>1, ChildIsBelow
      <3> QED
        BY <2>1, <3>1 DEF Joined
    <2>3. ASSUME NEW p \in live, p = s \/ IsStrictPrefix(p, s) PROVE FALSE
      <3>1. IsStrictPrefix(p, t)
        BY <2>1, <2>3, BelowBelow, ShardIsSeq
      <3>2. CASE t = r \/ IsStrictPrefix(t, r)
        BY <2>1, <3>1, <3>2, BelowBelow, ShardIsSeq DEF Antichain
      <3>3. CASE t \in Children(r) /\ Coming(r, "merge")
        <4>1. p = r \/ IsStrictPrefix(p, r)
          BY <2>1, <3>1, <3>3, AboveChild
        <4>2. p = r
          BY <2>1, <4>1 DEF Antichain
        <4>3. s = p \/ IsStrictPrefix(s, p)
          BY <2>1, <3>3, <4>2, AboveChild
        <4>4. s = p
          BY <2>1, <2>3, <4>3, ShardIsSeq, StrictPointwise
        <4>5. Settled(s)
          BY <4>4 DEF FirstMakesEntry
        <4> QED
          BY <2>1, <3>3, <4>2, <4>4, <4>5, SettledMeans
      <3> QED
        BY <2>2, <3>2, <3>3
    <2>4. Halved(s)
      BY <2>1, <2>3, ChildIsBelow DEF Joined
    <2>5. PICK c \in Children(s) : c = t \/ IsStrictPrefix(c, t)
      BY <2>1, BelowChild
    <2>6. c \in live /\ c \in Shard /\ ~Coming(c, "merge")
      BY <2>1, <2>4 DEF Halved
    <2>7. c = t
      <3> SUFFICES ASSUME IsStrictPrefix(c, t) PROVE FALSE
        BY <2>5
      <3>1. CASE t = r \/ IsStrictPrefix(t, r)
        BY <2>1, <2>6, <3>1, BelowBelow, ShardIsSeq DEF Antichain
      <3>2. CASE t \in Children(r) /\ Coming(r, "merge")
        <4>1. c = r \/ IsStrictPrefix(c, r)
          BY <2>1, <2>6, <3>2, AboveChild
        <4> QED
          BY <2>1, <2>6, <3>2, <4>1 DEF Antichain
      <3> QED
        BY <2>2, <3>1, <3>2
    <2>8. s = Parent(t) /\ Settled(t)
      BY <2>1, <2>6, <2>7, ParentOfChild DEF FirstMakesEntry
    <2>9. \A d \in Children(s) \ {t} : ~Settled(d)
      BY <2>4, <2>7, <2>8 DEF Halved, Children
    <2> QED
      BY <2>4, <2>8, <2>9 DEF Halved
  <1> QED
    BY <1>1, InitIInv, StepIInv, InitMapInv, StepMapInv, PTL DEF Spec
=============================================================================
