--------------------------- MODULE ShardStateProofs ---------------------------
(***************************************************************************)
(* The entry of a shard, for any number of blocks, any times below the     *)
(* dirty flag and, where the property does not say Serial, any number of   *)
(* threads inside update.                                                  *)
(***************************************************************************)
EXTENDS ShardState, TLAPS

-----------------------------------------------------------------------------
(* The inductive invariant.                                                *)

\* No two threads have the same block.
BlocksApart ==
    /\ \A h \in Handlers : block[h] < next
    /\ \A g, h \in Handlers : ~Idle(g) /\ ~Idle(h) /\ g # h => block[g] # block[h]

\* The word holds the time of the block whose seqno it holds.
WordConsistent == Masked(seqno_and_utime).low = GenUtime(seqno_and_utime.seqno)

CountInv ==
    /\ TypeOK /\ BlocksApart /\ WordConsistent
    /\ GasSamplesOnce /\ AverageSamplesOnce /\ SeqnoWithItsUtime

\* The totals that both sides pass after c.
Later(c) ==
    CASE c = "transactions"   -> {"account_blocks", "deployments", "destructions"}
      [] c = "account_blocks" -> {"deployments", "destructions"}
      [] c = "deployments"    -> {"destructions"}
      [] c = "destructions"   -> {}

\* The thread has stored its seqno when it is past the first step; the block in
\* hand is the newest.
NewestStored ==
    /\ \A h \in Handlers : ~Idle(h) => block[h] = next - 1
    /\ seqno_and_utime.seqno =
          IF \E h \in Handlers : pc[h] = "store" THEN next - 2 ELSE next - 1

\* A total lacks at most the block in hand.
TotalsComplete ==
    \A c \in Counters :
        /\ 1..(next - 2) \subseteq counters[c]
        /\ \/ next - 1 \in counters[c]
           \/ \E h \in Handlers : pc[h] \in {"store", "push"} \cup (Counters \ Later(c))

\* What r shows of total c covers the earlier blocks and what was shown before.
Covers(r, c) ==
    /\ 1..(r.seqno - 1) \subseteq r.counters[c]
    /\ last.counters[c] \subseteq r.counters[c]
    /\ r.counters[c] \subseteq counters[c]

Writing == xpc \in Counters \cup {"avg"}

\* The newest seqno the collector got or is getting.
Shown == IF Writing THEN report.seqno ELSE last.seqno

ReportsCover ==
    /\ last.seqno <= Shown /\ Shown <= seqno_and_utime.seqno
    /\ Writing => last.seqno < report.seqno
    /\ \A c \in Counters : Covers(last, c)
    /\ \A c \in Counters : xpc \in Later(c) \cup {"avg"} => Covers(report, c)

\* The flag tells whether there is something new.
FlagMeansNew ==
    IF IsDirty(seqno_and_utime)
      THEN Shown < seqno_and_utime.seqno
      ELSE /\ Shown = seqno_and_utime.seqno
           /\ ~Writing => avg \subseteq {Shown}

SerialInv == NewestStored /\ TotalsComplete /\ ReportsCover /\ FlagMeansNew

-----------------------------------------------------------------------------
(* The packed word.                                                        *)

\* Masking clears the flag and nothing else.
LEMMA MaskLemma ==
    ASSUME NEW n \in Nat, n < DirtyFlag
    PROVE  /\ n % DirtyFlag = n
           /\ (n + DirtyFlag) % DirtyFlag = n
           /\ n + DirtyFlag < 2 * DirtyFlag
  BY ShardAssumption

\* A masked time is below the flag, and masking it again changes nothing.
LEMMA MaskRange ==
    ASSUME NEW n \in Nat
    PROVE  n % DirtyFlag \in 0..(DirtyFlag - 1) /\ (n % DirtyFlag) % DirtyFlag = n % DirtyFlag
  <1>1. DirtyFlag \in Nat \ {0}
    BY ShardAssumption
  <1>2. n % DirtyFlag \in 0..(DirtyFlag - 1)
    BY <1>1
  <1> QED
    BY <1>1, <1>2

\* The word that update stores is dirty and holds the block's time.
LEMMA PackedWord ==
    ASSUME NEW n \in Block
    PROVE  /\ Packed(n) \in [seqno : Block, low : 0..(2 * DirtyFlag - 1)]
           /\ Packed(n).seqno = n
           /\ Masked(Packed(n)).low = GenUtime(n)
           /\ IsDirty(Packed(n))
  <1>1. GenUtime(n) \in Nat /\ GenUtime(n) < DirtyFlag
    BY ShardAssumption DEF Block, GenUtime
  <1>2. Packed(n) = [seqno |-> n, low |-> GenUtime(n) + DirtyFlag]
    BY <1>1 DEF Packed, WithDirty
  <1>3. Masked(Packed(n)).low = (GenUtime(n) + DirtyFlag) % DirtyFlag
    BY <1>2 DEF Masked
  <1>4. GenUtime(n) + DirtyFlag \in 0..(2 * DirtyFlag - 1)
    BY <1>1, ShardAssumption
  <1> QED
    BY <1>1, <1>2, <1>3, <1>4, MaskLemma, ShardAssumption DEF IsDirty

\* The exporter's fetch_and leaves a clean word of the same block.
LEMMA MaskedWord ==
    ASSUME TypeOK
    PROVE  LET cell == Masked(seqno_and_utime)
           IN  /\ cell \in [seqno : Block, low : 0..(2 * DirtyFlag - 1)]
               /\ cell.seqno = seqno_and_utime.seqno
               /\ cell.low \in 0..(DirtyFlag - 1)
               /\ Masked(cell).low = cell.low
               /\ ~IsDirty(cell)
  <1>1. /\ seqno_and_utime.seqno \in Block /\ seqno_and_utime.low \in Nat
        /\ seqno_and_utime = [seqno |-> seqno_and_utime.seqno, low |-> seqno_and_utime.low]
    BY ShardAssumption DEF TypeOK
  <1>2. Masked(seqno_and_utime) = [seqno |-> seqno_and_utime.seqno,
                                   low |-> seqno_and_utime.low % DirtyFlag]
    BY <1>1 DEF Masked
  <1>3. Masked(Masked(seqno_and_utime)).low = (seqno_and_utime.low % DirtyFlag) % DirtyFlag
    BY <1>2 DEF Masked
  <1>4. 0..(DirtyFlag - 1) \subseteq 0..(2 * DirtyFlag - 1)
    BY ShardAssumption
  <1> QED
    BY <1>1, <1>2, <1>3, <1>4, MaskRange, ShardAssumption DEF IsDirty

-----------------------------------------------------------------------------
(* Types.                                                                  *)

Report == [seqno : 0..MaxBlock, utime : 0..(DirtyFlag - 1), counters : [Counters -> SUBSET Block]]

\* What a report starts with.
LEMMA NewReportType ==
    ASSUME NEW n \in 0..MaxBlock, NEW u \in 0..(DirtyFlag - 1)
    PROVE  /\ NewReport(n, u) \in Report
           /\ NewReport(n, u).seqno = n /\ NewReport(n, u).utime = u
  BY DEF NewReport, Report

\* The empty report and the first block are well typed.
LEMMA NoReportType == NoReport \in Report /\ NoReport.seqno = 0 /\ 1 \in Block
  BY NewReportType, ShardAssumption DEF NoReport, Block

\* An entry is created well typed.
LEMMA InitTypeOK == Init => TypeOK
  <1> SUFFICES ASSUME Init PROVE TypeOK
    OBVIOUS
  <1>1. /\ 1 \in Block /\ {report, last} \subseteq Report
        /\ seqno_and_utime \in [seqno : Block, low : 0..(2 * DirtyFlag - 1)]
    BY NoReportType, PackedWord DEF Init
  <1> QED
    BY <1>1, ShardAssumption DEF Init, TypeOK, Report, Block

\* Types survive every step of a thread and of the exporter.
LEMMA StepTypeOK == TypeOK /\ [Next]_vars => TypeOK'
  <1> SUFFICES ASSUME TypeOK, [Next]_vars PROVE TypeOK'
    OBVIOUS
  <1> USE DEF TypeOK, entry, handlerVars, exporterVars
  <1>1. ASSUME NEW h \in Handlers, Begin(h) PROVE TypeOK'
    BY <1>1, ShardAssumption DEF Begin, Block
  <1>2. ASSUME NEW h \in Handlers, StoreSeqno(h) PROVE TypeOK'
    BY <1>2, PackedWord DEF StoreSeqno
  <1>3. ASSUME NEW h \in Handlers, PushAverage(h) PROVE TypeOK'
    BY <1>3 DEF PushAverage, FirstCounter, Counters
  <1>4. ASSUME NEW h \in Handlers, NEW c \in Counters, AddToCounter(h, c) PROVE TypeOK'
    <2>1. After(c, "temp") \in {"temp"} \cup Counters
      BY DEF After, Counters
    <2> QED
      BY <1>4, <2>1 DEF AddToCounter
  <1>5. ASSUME NEW h \in Handlers, UpdateTempState(h) PROVE TypeOK'
    BY <1>5 DEF UpdateTempState
  <1>6. CASE LoadTempState
    BY <1>6 DEF LoadTempState
  <1>7. CASE LoadSeqnoAndUtime
    <2>1. /\ Masked(seqno_and_utime) \in [seqno : Block, low : 0..(2 * DirtyFlag - 1)]
          /\ Masked(seqno_and_utime).low \in 0..(DirtyFlag - 1)
      BY MaskedWord
    <2>2. NewReport(seqno_and_utime.seqno, Masked(seqno_and_utime).low) \in Report
      BY <2>1, NewReportType, ShardAssumption DEF Block
    <2>3. report' \in Report
      BY <1>7, <2>2 DEF LoadSeqnoAndUtime, Report
    <2> QED
      BY <1>7, <2>1, <2>3 DEF LoadSeqnoAndUtime, FirstCounter, Counters, Report
  <1>8. ASSUME NEW c \in Counters, LoadCounter(c) PROVE TypeOK'
    <2>1. After(c, "avg") \in {"avg"} \cup Counters
      BY DEF After, Counters
    <2>2. report' \in Report
      BY <1>8 DEF LoadCounter, Report
    <2> QED
      BY <1>8, <2>1, <2>2 DEF LoadCounter, Report
  <1>9. CASE ResetAverage
    BY <1>9, NoReportType DEF ResetAverage, Report
  <1>10. CASE UNCHANGED vars
    BY <1>10 DEF vars
  <1> QED
    BY <1>1, <1>2, <1>3, <1>4, <1>5, <1>6, <1>7, <1>8, <1>9, <1>10
       DEF Next, Export, Update

\* The entry is well formed whatever the threads do.
THEOREM TypeCorrect == Spec => []TypeOK
  BY InitTypeOK, StepTypeOK, PTL DEF Spec

-----------------------------------------------------------------------------
(* Samples and times.                                                      *)

\* A new entry holds the samples of its one block.
LEMMA InitCountInv == Init => CountInv
  <1> SUFFICES ASSUME Init PROVE CountInv
    OBVIOUS
  <1>1. TypeOK
    BY InitTypeOK
  <1>2. BlocksApart /\ Started = {1}
    BY DEF Init, BlocksApart, Idle, Started
  <1>3. WordConsistent
    BY NoReportType, PackedWord DEF Init, WordConsistent
  <1>4. GasSamplesOnce
    BY <1>2 DEF Init, GasSamplesOnce, Sampled, Idle
  <1>5. AverageSamplesOnce
    BY <1>2 DEF Init, AverageSamplesOnce, Pushed, Before
  <1>6. SeqnoWithItsUtime
    BY NoReportType DEF Init, SeqnoWithItsUtime
  <1> QED
    BY <1>1, <1>2, <1>3, <1>4, <1>5, <1>6 DEF CountInv

\* Blocks are handed out one after another.
LEMMA StepBlocksApart == TypeOK /\ BlocksApart /\ [Next]_vars => BlocksApart'
  <1> SUFFICES ASSUME TypeOK, BlocksApart, [Next]_vars PROVE BlocksApart'
    OBVIOUS
  <1> USE DEF BlocksApart, Idle
  <1>1. ASSUME NEW h \in Handlers, Begin(h) PROVE BlocksApart'
    BY <1>1, ShardAssumption DEF Begin, TypeOK, Block
  <1>2. ASSUME NEW h \in Handlers, pc[h] # "idle", UNCHANGED <<block, next>>,
               \A g \in Handlers \ {h} : pc'[g] = pc[g]
        PROVE  BlocksApart'
    BY <1>2
  <1>3. ASSUME NEW h \in Handlers,
               \/ StoreSeqno(h) \/ PushAverage(h) \/ UpdateTempState(h)
               \/ \E c \in Counters : AddToCounter(h, c)
        PROVE  BlocksApart'
    <2>1. pc[h] # "idle" /\ UNCHANGED <<block, next>> /\ \A g \in Handlers \ {h} : pc'[g] = pc[g]
      BY <1>3 DEF StoreSeqno, PushAverage, UpdateTempState, AddToCounter, TypeOK, Counters
    <2> QED
      BY <1>2, <2>1
  <1>4. CASE UNCHANGED handlerVars
    BY <1>4 DEF handlerVars
  <1> QED
    BY <1>1, <1>3, <1>4
       DEF Next, Update, Export, LoadTempState, LoadSeqnoAndUtime, LoadCounter,
           ResetAverage, vars

\* Every word stored, and every mask, leaves the time of the block.
LEMMA StepWordConsistent == TypeOK /\ WordConsistent /\ [Next]_vars => WordConsistent'
  <1> SUFFICES ASSUME TypeOK, WordConsistent, [Next]_vars PROVE WordConsistent'
    OBVIOUS
  <1>1. ASSUME NEW h \in Handlers, StoreSeqno(h) PROVE WordConsistent'
    <2>1. seqno_and_utime' = Packed(block[h]) /\ block[h] \in Block
      BY <1>1 DEF StoreSeqno, TypeOK
    <2> QED
      BY <2>1, PackedWord DEF WordConsistent
  <1>2. CASE LoadSeqnoAndUtime
    <2>1. seqno_and_utime' = Masked(seqno_and_utime)
      BY <1>2 DEF LoadSeqnoAndUtime
    <2> QED
      BY <2>1, MaskedWord DEF WordConsistent
  <1>3. CASE UNCHANGED seqno_and_utime
    BY <1>3 DEF WordConsistent
  <1> QED
    BY <1>1, <1>2, <1>3
       DEF Next, Update, Export, Begin, PushAverage, AddToCounter, UpdateTempState,
           LoadTempState, LoadCounter, ResetAverage, vars, entry

\* A sample goes from its thread to the entry and from there to the collector.
LEMMA StepGas == TypeOK /\ BlocksApart /\ GasSamplesOnce /\ [Next]_vars => GasSamplesOnce'
  <1> SUFFICES ASSUME TypeOK, BlocksApart, GasSamplesOnce, [Next]_vars
               PROVE  GasSamplesOnce'
    OBVIOUS
  <1> USE DEF GasSamplesOnce
  <1>1. ASSUME NEW h \in Handlers, Begin(h) PROVE GasSamplesOnce'
    <2>1. Started' = Started \cup {next}
      BY <1>1, ShardAssumption DEF Begin, TypeOK, Started, Block
    <2>2. next \notin Started /\ \A g \in Handlers : block[g] \in Started
      BY ShardAssumption DEF TypeOK, BlocksApart, Started, Block
    <2>3. Sampled' = Sampled
      <3>1. \A n \in Started : (\A g \in Handlers : block'[g] = n => Idle(g)')
                                <=> (\A g \in Handlers : block[g] = n => Idle(g))
        BY <1>1, <2>2 DEF Begin, Idle, TypeOK
      <3>2. ~(\A g \in Handlers : block'[g] = next => Idle(g)')
        BY <1>1 DEF Begin, Idle, TypeOK
      <3> QED
        BY <2>1, <2>2, <3>1, <3>2 DEF Sampled
    <2> QED
      BY <1>1, <2>3 DEF Begin, entry, exporterVars
  <1>2. ASSUME NEW h \in Handlers, UpdateTempState(h) PROVE GasSamplesOnce'
    <2>1. block[h] \in Started /\ block[h] \notin Sampled /\ ~Idle(h)
      BY <1>2, ShardAssumption DEF UpdateTempState, Sampled, Started, TypeOK, BlocksApart, Block, Idle
    <2>2. Sampled' = Sampled \cup {block[h]}
      BY <1>2, <2>1 DEF UpdateTempState, Sampled, Started, TypeOK, BlocksApart, Idle
    <2> QED
      BY <1>2, <2>1, <2>2 DEF UpdateTempState, exporterVars
  <1>3. ASSUME NEW h \in Handlers,
               \/ StoreSeqno(h) \/ PushAverage(h)
               \/ \E c \in Counters : AddToCounter(h, c)
        PROVE  GasSamplesOnce'
    <2>1. \A c \in Counters : After(c, "temp") # "idle"
      BY DEF Counters, After
    <2>2. \A g \in Handlers : Idle(g)' <=> Idle(g)
      BY <1>3, <2>1 DEF StoreSeqno, PushAverage, AddToCounter, Idle, TypeOK, Counters, FirstCounter
    <2>3. UNCHANGED <<block, next, temp_state, gasExported>>
      BY <1>3 DEF StoreSeqno, PushAverage, AddToCounter, exporterVars
    <2> QED
      BY <2>2, <2>3 DEF Sampled, Started
  <1>4. CASE LoadTempState
    BY <1>4 DEF LoadTempState, Sampled, Started, Idle, handlerVars
  <1>5. CASE UNCHANGED <<handlerVars, temp_state, gasExported>>
    BY <1>5 DEF Sampled, Started, Idle, handlerVars
  <1> QED
    BY <1>1, <1>2, <1>3, <1>4, <1>5
       DEF Next, Update, Export, LoadSeqnoAndUtime, LoadCounter, ResetAverage,
           vars, entry, exporterVars

\* The same for the average, which a thread reaches earlier.
LEMMA StepAverage == TypeOK /\ BlocksApart /\ AverageSamplesOnce /\ [Next]_vars => AverageSamplesOnce'
  <1> SUFFICES ASSUME TypeOK, BlocksApart, AverageSamplesOnce, [Next]_vars
               PROVE  AverageSamplesOnce'
    OBVIOUS
  <1> USE DEF AverageSamplesOnce
  <1>1. ASSUME NEW h \in Handlers, Begin(h) PROVE AverageSamplesOnce'
    <2>1. Started' = Started \cup {next}
      BY <1>1, ShardAssumption DEF Begin, TypeOK, Started, Block
    <2>2. next \notin Started
      BY ShardAssumption DEF TypeOK, Started
    <2>3. Before({"store", "push"})' = Before({"store", "push"}) \cup {next}
      BY <1>1 DEF Begin, Before, TypeOK
    <2>4. Pushed' = Pushed
      BY <2>1, <2>2, <2>3 DEF Pushed
    <2> QED
      BY <1>1, <2>4 DEF Begin, entry, exporterVars
  <1>2. ASSUME NEW h \in Handlers, PushAverage(h) PROVE AverageSamplesOnce'
    <2>1. block[h] \in Started /\ block[h] \notin Pushed
      BY <1>2, ShardAssumption
         DEF PushAverage, Pushed, Before, Started, TypeOK, BlocksApart, Block
    <2>2. Before({"store", "push"})' = Before({"store", "push"}) \ {block[h]}
      BY <1>2 DEF PushAverage, Before, TypeOK, BlocksApart, Idle, FirstCounter
    <2>3. Pushed' = Pushed \cup {block[h]}
      BY <1>2, <2>1, <2>2 DEF PushAverage, Pushed, Started
    <2> QED
      BY <1>2, <2>1, <2>3 DEF PushAverage, exporterVars
  <1>3. ASSUME NEW h \in Handlers,
               \/ StoreSeqno(h) \/ UpdateTempState(h)
               \/ \E c \in Counters : AddToCounter(h, c)
        PROVE  AverageSamplesOnce'
    <2>1. \A c \in Counters : c \notin {"store", "push"} /\ After(c, "temp") \notin {"store", "push"}
      BY DEF Counters, After
    <2>2. \A g \in Handlers : pc'[g] \in {"store", "push"} <=> pc[g] \in {"store", "push"}
      BY <1>3, <2>1 DEF StoreSeqno, UpdateTempState, AddToCounter, TypeOK
    <2>3. UNCHANGED <<block, next, avg, avgExported>>
      BY <1>3 DEF StoreSeqno, UpdateTempState, AddToCounter, exporterVars
    <2> QED
      BY <2>2, <2>3 DEF Pushed, Started, Before
  <1>4. CASE ResetAverage
    BY <1>4 DEF ResetAverage, Pushed, Started, Before, handlerVars
  <1>5. CASE UNCHANGED <<handlerVars, avg, avgExported>>
    BY <1>5 DEF Pushed, Started, Before, handlerVars
  <1> QED
    BY <1>1, <1>2, <1>3, <1>4, <1>5
       DEF Next, Update, Export, LoadTempState, LoadSeqnoAndUtime, LoadCounter,
           vars, entry, exporterVars

\* A report starts with a seqno and the time from one word.
LEMMA StepUtime == TypeOK /\ WordConsistent /\ SeqnoWithItsUtime /\ [Next]_vars => SeqnoWithItsUtime'
  <1> SUFFICES ASSUME TypeOK, WordConsistent, SeqnoWithItsUtime, [Next]_vars
               PROVE  SeqnoWithItsUtime'
    OBVIOUS
  <1> USE DEF SeqnoWithItsUtime
  <1>1. CASE LoadSeqnoAndUtime
    <2>1. /\ seqno_and_utime.seqno \in 0..MaxBlock
          /\ Masked(seqno_and_utime).low \in 0..(DirtyFlag - 1)
      BY MaskedWord, ShardAssumption DEF TypeOK, Block
    <2>2. \/ /\ report'.seqno = seqno_and_utime.seqno
             /\ report'.utime = Masked(seqno_and_utime).low
          \/ report' = report
      BY <1>1, <2>1, NewReportType DEF LoadSeqnoAndUtime
    <2> QED
      BY <1>1, <2>2 DEF LoadSeqnoAndUtime, WordConsistent
  <1>2. ASSUME NEW c \in Counters, LoadCounter(c) PROVE SeqnoWithItsUtime'
    <2>1. report'.seqno = report.seqno /\ report'.utime = report.utime /\ last' = last
      BY <1>2 DEF LoadCounter, TypeOK
    <2> QED
      BY <2>1
  <1>3. CASE ResetAverage
    BY <1>3, NoReportType DEF ResetAverage
  <1>4. CASE UNCHANGED <<report, last>>
    BY <1>4
  <1> QED
    BY <1>1, <1>2, <1>3, <1>4
       DEF Next, Update, Export, Begin, StoreSeqno, PushAverage, AddToCounter,
           UpdateTempState, LoadTempState, vars, exporterVars

\* The parts of CountInv survive every step together.
LEMMA StepCountInv == CountInv /\ [Next]_vars => CountInv'
  BY StepTypeOK, StepBlocksApart, StepWordConsistent, StepGas, StepAverage, StepUtime
     DEF CountInv

LEMMA CountInvariant == Spec => []CountInv
  BY InitCountInv, StepCountInv, PTL DEF Spec

\* However many threads merge blocks into temp_state while the exporter takes it,
\* each gas sample is exported or still there, once (metrics.rs:761-796).
THEOREM GasOnce == Spec => []GasSamplesOnce
  <1>1. CountInv => GasSamplesOnce
    BY DEF CountInv
  <1> QED
    BY <1>1, CountInvariant, PTL

\* However many threads push while the exporter resets the average, each
\* transaction count is exported or still there, once (metrics.rs:750, 392).
THEOREM AverageOnce == Spec => []AverageSamplesOnce
  <1>1. CountInv => AverageSamplesOnce
    BY DEF CountInv
  <1> QED
    BY <1>1, CountInvariant, PTL

\* Packing them into one word keeps each seqno with its own time, whichever
\* thread stores last and whenever the flag is cleared (metrics.rs:746-749, 798-808).
THEOREM TimesMatch == Spec => []SeqnoWithItsUtime
  <1>1. CountInv => SeqnoWithItsUtime
    BY DEF CountInv
  <1> QED
    BY <1>1, CountInvariant, PTL

-----------------------------------------------------------------------------
(* What holds when one thread handles the shard's blocks in order.         *)

\* The next total is none that both sides passed.
LEMMA LaterTotals ==
    ASSUME NEW c \in Counters, NEW d \in Counters, c # d
    PROVE  /\ c \notin Later(d) => After(c, "temp") \in Counters \ Later(d)
           /\ After(c, "avg") \in Later(d) \cup {"avg"} => c \in Later(d)
  BY DEF Counters, Later, After

\* The first total is not passed at the start, and the last step is no total.
LEMMA LaterEnds ==
    ASSUME NEW c \in Counters
    PROVE  /\ FirstCounter \in Counters \ Later(c)
           /\ c \notin Later(c) /\ Later(c) \subseteq Counters
           /\ Counters \cap {"idle", "store", "push", "temp", "gas", "seqno", "avg"} = {}
           /\ After(c, "avg") \in Counters \cup {"avg"}
           /\ After(c, "temp") \in Counters \cup {"temp"}
  BY DEF FirstCounter, Counters, Later, After

\* A new entry shows its one block in every field, and nothing was reported.
LEMMA InitSerialInv == Init => SerialInv
  <1> SUFFICES ASSUME Init PROVE SerialInv
    OBVIOUS
  <1>1. seqno_and_utime.seqno = 1 /\ IsDirty(seqno_and_utime)
    BY PackedWord, NoReportType DEF Init
  <1>2. NewestStored
    BY <1>1 DEF Init, NewestStored, Idle
  <1>3. TotalsComplete
    BY DEF Init, TotalsComplete
  <1>4. ~Writing /\ Shown = 0 /\ last.seqno = 0
    BY NoReportType DEF Init, Writing, Shown, Counters
  <1>5. \A c \in Counters : last.counters[c] = {}
    BY DEF Init, NoReport, NewReport
  <1>6. \A c \in Counters : Covers(last, c)
    BY <1>4, <1>5 DEF Covers
  <1>7. ReportsCover
    BY <1>1, <1>4, <1>6, LaterEnds DEF Init, ReportsCover, Writing, Counters
  <1> QED
    BY <1>1, <1>2, <1>3, <1>4, <1>7 DEF SerialInv, FlagMeansNew

\* The seqno follows the blocks handed out.
LEMMA StepNewestStored ==
    TypeOK /\ Serial /\ NewestStored /\ [Next]_vars => NewestStored'
  <1> SUFFICES ASSUME TypeOK, Serial, NewestStored, [Next]_vars PROVE NewestStored'
    OBVIOUS
  <1> USE DEF NewestStored, Idle, Serial
  <1>1. ASSUME NEW h \in Handlers, Begin(h) PROVE NewestStored'
    <2>1. pc'[h] = "store" /\ block'[h] = next /\ next' = next + 1
      BY <1>1 DEF Begin, TypeOK
    <2>2. seqno_and_utime'.seqno = next - 1
      BY <1>1 DEF Begin, entry
    <2> QED
      BY <2>1, <2>2 DEF TypeOK
  <1>2. ASSUME NEW h \in Handlers, StoreSeqno(h) PROVE NewestStored'
    <2>1. pc'[h] = "push" /\ UNCHANGED <<block, next>> /\ block[h] = next - 1
      BY <1>2 DEF StoreSeqno, TypeOK
    <2>2. seqno_and_utime'.seqno = block[h]
      BY <1>2, PackedWord DEF StoreSeqno, TypeOK
    <2> QED
      BY <2>1, <2>2
  <1>3. ASSUME NEW h \in Handlers,
               \/ PushAverage(h) \/ UpdateTempState(h)
               \/ \E c \in Counters : AddToCounter(h, c)
        PROVE  NewestStored'
    <2>1. pc[h] \notin {"idle", "store"} /\ pc'[h] # "store"
      <3>1. CASE PushAverage(h) \/ UpdateTempState(h)
        BY <3>1 DEF PushAverage, UpdateTempState, FirstCounter, TypeOK
      <3>2. ASSUME NEW c \in Counters, AddToCounter(h, c)
            PROVE  pc[h] \notin {"idle", "store"} /\ pc'[h] # "store"
        BY <3>2, LaterEnds DEF AddToCounter, TypeOK
      <3> QED
        BY <1>3, <3>1, <3>2
    <2>2. UNCHANGED <<block, next, seqno_and_utime>>
      BY <1>3 DEF PushAverage, UpdateTempState, AddToCounter
    <2> QED
      BY <2>1, <2>2
  <1>4. CASE LoadSeqnoAndUtime
    BY <1>4, MaskedWord DEF LoadSeqnoAndUtime, handlerVars
  <1>5. CASE UNCHANGED <<handlerVars, seqno_and_utime>>
    BY <1>5 DEF handlerVars
  <1> QED
    BY <1>1, <1>2, <1>3, <1>4, <1>5
       DEF Next, Update, Export, LoadTempState, LoadCounter, ResetAverage, vars, entry

\* A block is handed out when the one before is in all totals.
LEMMA StepTotalsComplete ==
    TypeOK /\ Serial /\ NewestStored /\ TotalsComplete /\ [Next]_vars => TotalsComplete'
  <1> SUFFICES ASSUME TypeOK, Serial, NewestStored, TotalsComplete, [Next]_vars,
                      NEW d \in Counters
               PROVE  /\ 1..(next' - 2) \subseteq counters'[d]
                      /\ \/ next' - 1 \in counters'[d]
                         \/ \E h \in Handlers :
                              pc'[h] \in {"store", "push"} \cup (Counters \ Later(d))
    BY DEF TotalsComplete
  <1> DEFINE Due(h) == pc[h] \in {"store", "push"} \cup (Counters \ Later(d))
             Goal == /\ 1..(next - 2) \subseteq counters[d]
                     /\ next - 1 \in counters[d] \/ \E h \in Handlers : Due(h)
  <1> HIDE DEF Goal
  <1>0. Goal
    BY DEF TotalsComplete, Goal
  <1> SUFFICES Goal'
    BY DEF Goal
  <1> USE DEF Goal, Serial
  <1>1. ASSUME NEW h \in Handlers, Begin(h) PROVE Goal'
    <2>1. pc[h] = "idle" /\ pc'[h] = "store" /\ next' = next + 1 /\ counters' = counters
      BY <1>1 DEF Begin, TypeOK, entry
    <2>2. next - 1 \in counters[d]
      BY <1>0, <2>1, LaterEnds
    <2>3. 1..(next - 1) \subseteq counters[d]
      BY <1>0, <2>2 DEF TypeOK
    <2>4. next' - 2 = next - 1
      BY <2>1 DEF TypeOK
    <2> QED
      BY <2>1, <2>3, <2>4
  <1>2. ASSUME NEW h \in Handlers, StoreSeqno(h) \/ PushAverage(h) PROVE Goal'
    <2>1. pc'[h] \in {"push", FirstCounter} /\ UNCHANGED <<next, counters>>
      BY <1>2 DEF StoreSeqno, PushAverage, TypeOK
    <2> QED
      BY <1>0, <2>1, LaterEnds
  <1>3. ASSUME NEW h \in Handlers, NEW c \in Counters, AddToCounter(h, c) PROVE Goal'
    <2>1. /\ pc[h] = c /\ pc'[h] = After(c, "temp") /\ next' = next
          /\ counters' = [counters EXCEPT ![c] = @ \cup {block[h]}]
      BY <1>3 DEF AddToCounter, TypeOK
    <2>2. block[h] = next - 1
      BY <2>1, LaterEnds DEF NewestStored, Idle
    <2>3. CASE c = d
      <3>1. counters'[d] = counters[d] \cup {next - 1}
        BY <2>1, <2>2, <2>3 DEF TypeOK
      <3> QED
        BY <1>0, <2>1, <3>1
    <2>4. CASE c # d
      <3>1. counters'[d] = counters[d]
        BY <2>1, <2>4 DEF TypeOK
      <3>2. c \notin Later(d) => Due(h)'
        BY <2>1, <2>4, LaterTotals
      <3>3. (\E g \in Handlers : Due(g)) => c \notin Later(d)
        BY <2>1, LaterEnds
      <3> QED
        BY <1>0, <2>1, <3>1, <3>2, <3>3
    <2> QED
      BY <2>3, <2>4
  <1>4. ASSUME NEW h \in Handlers, UpdateTempState(h) PROVE Goal'
    <2>1. pc[h] = "temp" /\ UNCHANGED <<next, counters>>
      BY <1>4 DEF UpdateTempState
    <2> QED
      BY <1>0, <2>1, LaterEnds
  <1>5. CASE UNCHANGED <<handlerVars, counters>>
    BY <1>0, <1>5 DEF handlerVars
  <1> QED
    BY <1>1, <1>2, <1>3, <1>4, <1>5
       DEF Next, Update, Export, LoadTempState, LoadSeqnoAndUtime, LoadCounter,
           ResetAverage, vars, entry

\* A report takes its totals after its seqno, and totals only grow.
LEMMA StepReportsCover ==
    TypeOK /\ SerialInv /\ Serial /\ [Next]_vars => ReportsCover'
  <1> SUFFICES ASSUME TypeOK, SerialInv, Serial, [Next]_vars PROVE ReportsCover'
    OBVIOUS
  <1>0. ReportsCover /\ NewestStored /\ TotalsComplete /\ FlagMeansNew
    BY DEF SerialInv
  <1>a. /\ seqno_and_utime.seqno \in Nat /\ next \in Nat
        /\ report.seqno \in Nat /\ last.seqno \in Nat /\ Shown \in Nat
        /\ seqno_and_utime.seqno <= next - 1
    BY <1>0, ShardAssumption DEF TypeOK, Block, NewestStored, Shown
  <1>1. ASSUME NEW h \in Handlers, NEW c \in Counters, AddToCounter(h, c)
        PROVE  ReportsCover'
    <2>1. UNCHANGED <<exporterVars, seqno_and_utime>>
      BY <1>1 DEF AddToCounter
    <2>2. \A d \in Counters : counters[d] \subseteq counters'[d]
      BY <1>1 DEF AddToCounter, TypeOK
    <2>3. ASSUME NEW d \in Counters
          PROVE  /\ Covers(last, d) => Covers(last, d)'
                 /\ Covers(report, d) => Covers(report, d)'
      BY <2>1, <2>2 DEF Covers, exporterVars
    <2>4. UNCHANGED <<Writing, Shown, seqno_and_utime, xpc, report, last>>
      BY <2>1 DEF Writing, Shown, exporterVars
    <2> QED
      BY <1>0, <2>3, <2>4 DEF ReportsCover
  <1>2. ASSUME NEW h \in Handlers, StoreSeqno(h) PROVE ReportsCover'
    <2>1. UNCHANGED <<exporterVars, counters>>
      BY <1>2 DEF StoreSeqno
    <2>2. seqno_and_utime'.seqno = next - 1
      BY <1>0, <1>2, PackedWord DEF StoreSeqno, TypeOK, NewestStored, Idle
    <2>3. UNCHANGED <<Writing, Shown, xpc, report, last, counters>>
      BY <2>1 DEF Writing, Shown, exporterVars
    <2>4. Shown' <= seqno_and_utime'.seqno
      BY <1>0, <1>a, <2>2, <2>3 DEF ReportsCover
    <2> QED
      BY <1>0, <2>3, <2>4 DEF ReportsCover, Covers
  <1>3. CASE LoadSeqnoAndUtime
    <2>1. /\ xpc = "seqno" /\ UNCHANGED <<last, counters>>
          /\ seqno_and_utime'.seqno = seqno_and_utime.seqno
      BY <1>3, MaskedWord DEF LoadSeqnoAndUtime
    <2>2. ~Writing /\ Shown = last.seqno
      BY <2>1 DEF Writing, Shown, Counters
    <2>3. CASE IsDirty(seqno_and_utime)
      <3>1. report'.seqno = seqno_and_utime.seqno /\ xpc' = FirstCounter
        BY <1>3, <2>3 DEF LoadSeqnoAndUtime, NewReport
      <3>2. last.seqno < report'.seqno
        BY <1>0, <2>2, <2>3, <3>1 DEF FlagMeansNew
      <3>3. Writing' /\ Shown' = report'.seqno
        BY <3>1, LaterEnds DEF Writing, Shown, FirstCounter, Counters
      <3>4. ASSUME NEW c \in Counters
            PROVE  xpc' \notin Later(c) \cup {"avg"} /\ Covers(last, c)'
        <4>1. FirstCounter \notin Later(c) /\ FirstCounter # "avg"
          BY LaterEnds
        <4> QED
          BY <1>0, <2>1, <3>1, <4>1 DEF ReportsCover, Covers
      <3> QED
        BY <1>a, <2>1, <3>1, <3>2, <3>3, <3>4 DEF ReportsCover
    <2>4. CASE ~IsDirty(seqno_and_utime)
      <3>1. xpc' = "gas" /\ report' = report
        BY <1>3, <2>4 DEF LoadSeqnoAndUtime
      <3>2. ~Writing' /\ Shown' = Shown
        BY <2>1, <2>2, <3>1 DEF Writing, Shown, Counters
      <3>3. ASSUME NEW c \in Counters
            PROVE  xpc' \notin Later(c) \cup {"avg"} /\ Covers(last, c)'
        <4>1. "gas" \notin Later(c)
          BY LaterEnds
        <4> QED
          BY <1>0, <2>1, <3>1, <4>1 DEF ReportsCover, Covers
      <3> QED
        BY <1>0, <2>1, <3>2, <3>3 DEF ReportsCover
    <2> QED
      BY <2>3, <2>4
  <1>4. ASSUME NEW c \in Counters, LoadCounter(c) PROVE ReportsCover'
    <2>1. /\ xpc = c /\ xpc' = After(c, "avg")
          /\ UNCHANGED <<last, counters, seqno_and_utime>>
          /\ report' = [report EXCEPT !.counters[c] = counters[c]]
      BY <1>4 DEF LoadCounter, entry
    <2>2. /\ report'.seqno = report.seqno
          /\ report'.counters[c] = counters[c]
          /\ \A d \in Counters \ {c} : report'.counters[d] = report.counters[d]
      BY <2>1 DEF TypeOK
    <2>3. Writing /\ Writing' /\ Shown' = Shown /\ Shown = report.seqno
      BY <2>1, <2>2, LaterEnds DEF Writing, Shown
    <2>4. Covers(report, c)'
      <3>1. report.seqno - 1 <= next - 2
        BY <1>0, <1>a, <2>3 DEF ReportsCover
      <3>2. 1..(report.seqno - 1) \subseteq counters[c]
        BY <1>0, <1>a, <3>1 DEF TotalsComplete
      <3>3. last.counters[c] \subseteq counters[c]
        BY <1>0 DEF ReportsCover, Covers
      <3> QED
        BY <2>1, <2>2, <3>2, <3>3 DEF Covers
    <2>5. ASSUME NEW d \in Counters, xpc' \in Later(d) \cup {"avg"}
          PROVE  Covers(report, d)'
      <3>1. CASE d = c
        BY <2>4, <3>1
      <3>2. CASE d # c
        <4>1. c \in Later(d)
          BY <2>1, <2>5, <3>2, LaterTotals
        <4>2. Covers(report, d)
          BY <1>0, <2>1, <4>1 DEF ReportsCover
        <4> QED
          BY <2>1, <2>2, <3>2, <4>2 DEF Covers
      <3> QED
        BY <3>1, <3>2
    <2>6. \A d \in Counters : Covers(last, d)'
      BY <1>0, <2>1 DEF ReportsCover, Covers
    <2> QED
      BY <1>0, <2>1, <2>2, <2>3, <2>5, <2>6 DEF ReportsCover
  <1>5. CASE ResetAverage
    <2>1. xpc = "avg" /\ xpc' = "gas" /\ last' = report /\ UNCHANGED <<counters, seqno_and_utime>>
      BY <1>5 DEF ResetAverage
    <2>2. Writing /\ Shown = report.seqno
      BY <2>1 DEF Writing, Shown
    <2>3. ~Writing' /\ Shown' = last'.seqno
      BY <2>1, LaterEnds DEF Writing, Shown, Counters
    <2>4. ASSUME NEW c \in Counters
          PROVE  xpc' \notin Later(c) \cup {"avg"} /\ Covers(last, c)'
      <3>1. "gas" \notin Later(c)
        BY LaterEnds
      <3>2. Covers(report, c)
        BY <1>0, <2>1 DEF ReportsCover
      <3> QED
        BY <2>1, <3>1, <3>2 DEF Covers
    <2> QED
      BY <1>0, <1>a, <2>1, <2>2, <2>3, <2>4 DEF ReportsCover
  <1>6. CASE LoadTempState
    <2>1. xpc = "gas" /\ xpc' = "seqno" /\ UNCHANGED <<report, last, counters, seqno_and_utime>>
      BY <1>6 DEF LoadTempState
    <2>2. ~Writing /\ ~Writing' /\ Shown' = Shown
      BY <2>1 DEF Writing, Shown, Counters
    <2>3. ASSUME NEW c \in Counters
          PROVE  xpc' \notin Later(c) \cup {"avg"} /\ Covers(last, c)'
      <3>1. "seqno" \notin Later(c)
        BY LaterEnds
      <3> QED
        BY <1>0, <2>1, <3>1 DEF ReportsCover, Covers
    <2> QED
      BY <1>0, <2>1, <2>2, <2>3 DEF ReportsCover
  <1>7. CASE UNCHANGED <<exporterVars, counters, seqno_and_utime>>
    BY <1>0, <1>7 DEF ReportsCover, Covers, Writing, Shown, exporterVars
  <1> QED
    BY <1>1, <1>2, <1>3, <1>4, <1>5, <1>6, <1>7
       DEF Next, Update, Export, Begin, PushAverage, UpdateTempState, vars, entry

\* The flag is set by a newer seqno, and cleared when it is taken.
LEMMA StepFlagMeansNew ==
    TypeOK /\ SerialInv /\ Serial /\ [Next]_vars => FlagMeansNew'
  <1> SUFFICES ASSUME TypeOK, SerialInv, Serial, [Next]_vars PROVE FlagMeansNew'
    OBVIOUS
  <1>0. ReportsCover /\ NewestStored /\ FlagMeansNew
    BY DEF SerialInv
  <1>1. ASSUME NEW h \in Handlers, StoreSeqno(h) PROVE FlagMeansNew'
    <2>1. UNCHANGED exporterVars /\ pc[h] = "store"
      BY <1>1 DEF StoreSeqno
    <2>2. IsDirty(seqno_and_utime') /\ seqno_and_utime'.seqno = next - 1
      BY <1>0, <1>1, PackedWord DEF StoreSeqno, TypeOK, NewestStored, Idle
    <2>3. seqno_and_utime.seqno = next - 2
      BY <1>0, <2>1 DEF NewestStored
    <2>4. Shown' = Shown /\ Shown \in Nat
      BY <2>1, ShardAssumption DEF Writing, Shown, exporterVars, TypeOK
    <2>5. Shown <= next - 2
      BY <1>0, <2>3 DEF ReportsCover
    <2>6. Shown < next - 1
      BY <2>4, <2>5 DEF TypeOK
    <2> QED
      BY <2>2, <2>4, <2>6 DEF FlagMeansNew, IsDirty
  <1>2. ASSUME NEW h \in Handlers, PushAverage(h) PROVE FlagMeansNew'
    <2>1. /\ UNCHANGED <<exporterVars, seqno_and_utime>> /\ avg' = avg \cup {block[h]}
          /\ pc[h] = "push"
      BY <1>2 DEF PushAverage
    <2>2. block[h] = seqno_and_utime.seqno
      BY <1>0, <2>1 DEF NewestStored, Idle, Serial
    <2>3. UNCHANGED <<Writing, Shown, seqno_and_utime>>
      BY <2>1 DEF Writing, Shown, exporterVars
    <2> QED
      BY <1>0, <2>1, <2>2, <2>3 DEF FlagMeansNew, IsDirty
  <1>3. CASE LoadSeqnoAndUtime
    <2>1. /\ xpc = "seqno" /\ UNCHANGED <<last, avg>>
          /\ seqno_and_utime' = Masked(seqno_and_utime)
          /\ seqno_and_utime'.seqno = seqno_and_utime.seqno
      BY <1>3, MaskedWord DEF LoadSeqnoAndUtime
    <2>2. ~IsDirty(seqno_and_utime')
      BY <2>1, MaskedWord
    <2>3. ~Writing /\ Shown = last.seqno
      BY <2>1 DEF Writing, Shown, Counters
    <2>4. CASE IsDirty(seqno_and_utime)
      <3>1. report'.seqno = seqno_and_utime.seqno /\ xpc' = FirstCounter
        BY <1>3, <2>4 DEF LoadSeqnoAndUtime, NewReport
      <3>2. Writing' /\ Shown' = report'.seqno
        BY <3>1 DEF Writing, Shown, FirstCounter, Counters
      <3> QED
        BY <2>1, <2>2, <3>1, <3>2 DEF FlagMeansNew, IsDirty
    <2>5. CASE ~IsDirty(seqno_and_utime)
      <3>1. xpc' = "gas"
        BY <1>3, <2>5 DEF LoadSeqnoAndUtime
      <3>2. ~Writing' /\ Shown' = Shown
        BY <2>1, <2>3, <3>1 DEF Writing, Shown, Counters
      <3> QED
        BY <1>0, <2>1, <2>2, <2>3, <2>5, <3>2 DEF FlagMeansNew, IsDirty
    <2> QED
      BY <2>4, <2>5
  <1>4. ASSUME NEW c \in Counters, LoadCounter(c) PROVE FlagMeansNew'
    <2>1. /\ xpc = c /\ xpc' = After(c, "avg") /\ UNCHANGED <<avg, last, seqno_and_utime>>
          /\ report' = [report EXCEPT !.counters[c] = counters[c]]
      BY <1>4 DEF LoadCounter, entry
    <2>2. report'.seqno = report.seqno
      BY <2>1 DEF TypeOK
    <2>3. Writing /\ Writing' /\ Shown' = Shown
      BY <2>1, <2>2, LaterEnds DEF Writing, Shown
    <2> QED
      BY <1>0, <2>1, <2>3 DEF FlagMeansNew, IsDirty
  <1>5. CASE ResetAverage
    <2>1. /\ xpc = "avg" /\ xpc' = "gas" /\ last' = report /\ avg' = {}
          /\ UNCHANGED seqno_and_utime
      BY <1>5 DEF ResetAverage
    <2>2. Shown' = Shown
      BY <2>1 DEF Writing, Shown, Counters
    <2> QED
      BY <1>0, <2>1, <2>2 DEF FlagMeansNew, IsDirty
  <1>6. CASE LoadTempState
    <2>1. xpc = "gas" /\ xpc' = "seqno" /\ UNCHANGED <<report, last, avg, seqno_and_utime>>
      BY <1>6 DEF LoadTempState
    <2>2. ~Writing /\ Shown' = Shown
      BY <2>1 DEF Writing, Shown, Counters
    <2> QED
      BY <1>0, <2>1, <2>2 DEF FlagMeansNew, IsDirty
  <1>7. CASE UNCHANGED <<exporterVars, avg, seqno_and_utime>>
    BY <1>0, <1>7 DEF FlagMeansNew, Writing, Shown, exporterVars, IsDirty
  <1> QED
    BY <1>1, <1>2, <1>3, <1>4, <1>5, <1>6, <1>7
       DEF Next, Update, Export, Begin, AddToCounter, UpdateTempState, vars, entry

\* With one handler SerialInv survives every step.
LEMMA SerialInvariant == Spec => [](TypeOK /\ (Serial => SerialInv))
  <1>1. TypeOK /\ (Serial => SerialInv) /\ [Next]_vars => (Serial => SerialInv)'
    BY StepNewestStored, StepTotalsComplete, StepReportsCover, StepFlagMeansNew
       DEF SerialInv, Serial
  <1> QED
    BY <1>1, InitTypeOK, StepTypeOK, InitSerialInv, PTL DEF Spec

\* While a shard's blocks are handled in order, the totals next to a seqno count
\* every block before it.
THEOREM TotalsCover == Spec => []TotalsCoverEarlierBlocks
  <1>1. TypeOK /\ (Serial => SerialInv) => TotalsCoverEarlierBlocks
    BY DEF SerialInv, ReportsCover, Covers, TotalsCoverEarlierBlocks
  <1> QED
    BY <1>1, SerialInvariant, PTL

\* While a shard's blocks are handled in order, a clean flag means that nothing
\* but the newest block's transaction count is held back.
THEOREM NothingHeldBack == Spec => []CleanMeansExported
  <1>1. TypeOK /\ (Serial => SerialInv) => CleanMeansExported
    <2> SUFFICES ASSUME TypeOK, SerialInv, xpc = "gas", ~IsDirty(seqno_and_utime)
                 PROVE  last.seqno = seqno_and_utime.seqno /\ avg \subseteq {last.seqno}
      BY DEF CleanMeansExported
    <2>1. ~Writing /\ Shown = last.seqno
      BY DEF Writing, Shown, Counters
    <2> QED
      BY <2>1 DEF SerialInv, FlagMeansNew
  <1> QED
    BY <1>1, SerialInvariant, PTL

\* Reports of a shard move forward: no seqno is written twice, no total shrinks.
THEOREM Forward == Spec => ReportsAdvance
  <1>1. TypeOK /\ (Serial => SerialInv) /\ [Next]_vars =>
          [Serial /\ last' # last =>
             /\ last'.seqno > last.seqno
             /\ \A c \in Counters : last.counters[c] \subseteq last'.counters[c]]_vars
    <2> SUFFICES ASSUME TypeOK, SerialInv, Serial, [Next]_vars, last' # last
                 PROVE  /\ last'.seqno > last.seqno
                        /\ \A c \in Counters : last.counters[c] \subseteq last'.counters[c]
      OBVIOUS
    <2>1. ResetAverage
      BY DEF Next, Update, Export, Begin, StoreSeqno, PushAverage, AddToCounter,
             UpdateTempState, LoadTempState, LoadSeqnoAndUtime, LoadCounter,
             vars, exporterVars
    <2>2. xpc = "avg" /\ last' = report
      BY <2>1 DEF ResetAverage
    <2>3. Writing /\ ReportsCover
      BY <2>2 DEF Writing, SerialInv
    <2>4. last.seqno < report.seqno /\ \A c \in Counters : Covers(report, c)
      BY <2>2, <2>3 DEF ReportsCover
    <2> QED
      BY <2>2, <2>4 DEF Covers, TypeOK
  <1> QED
    BY <1>1, SerialInvariant, PTL DEF Spec, ReportsAdvance
=============================================================================
