----------------------------- MODULE McStatsProofs -----------------------------
(***************************************************************************)
(* Reports that say ready have a whole masterchain block behind them, and  *)
(* none goes back behind the one before, for any number of threads and     *)
(* blocks.                                                                 *)
(***************************************************************************)
EXTENDS McStats, TLAPS

Position == {"idle", "avg"} \cup Totals \cup Numbers

\* Totals that the masterchain's thread has not added its block to yet, and
\* numbers it has not stored yet.
ToAdd(position) ==
    CASE position = "blocks" -> Totals
      [] position = "messages" -> {"messages", "transactions"}
      [] position = "transactions" -> {"transactions"}
      [] OTHER -> {}
ToStore(position) ==
    CASE position \in Totals \cup {"shards"} -> Numbers
      [] position = "seqno" -> {"seqno", "utime"}
      [] position = "utime" -> {"utime"}
      [] OTHER -> {}

\* The masterchain's thread handles the newest masterchain block.
MasterHasNewest ==
    /\ \A h \in Handlers : pc[h] # "idle" => block[h] \in Block
    /\ \A h \in Others : pc[h] \in {"idle"} \cup Totals
    /\ block[Master] < next
    /\ \A n \in mc : n <= block[Master]
    /\ pc[Master] # "idle" => block[Master] \in mc \ failed

\* A number is that of the block in hand once it has stored it, and of an earlier
\* block before; the last block may have failed to store any.
NumbersInOrder ==
    \A x \in Numbers :
        IF x \in ToStore(pc[Master]) THEN numbers[x] < block[Master]
        ELSE IF pc[Master] = "idle" THEN numbers[x] <= block[Master]
        ELSE numbers[x] = block[Master]

\* A total lacks no masterchain block but the one that has still to be added.
TotalsInOrder ==
    \A t \in Totals, n \in mc :
        (n = block[Master] /\ t \in ToAdd(pc[Master])) \/ n \in totals[t]

\* What the exporter has loaded so far covers the block whose time it loaded.
Covers(r, ts, xs) ==
    /\ \A x \in xs : r.numbers[x] >= r.numbers["utime"]
    /\ \A t \in ts, n \in mc : n <= r.numbers["utime"] => n \in r.totals[t]
    /\ r.numbers["utime"] <= numbers["utime"]
LoadedTotals == Totals \ IF xpc = "utime" THEN Totals ELSE ToAdd(xpc)
LoadedNumbers ==
    CASE xpc = "seqno" -> {"shards"}
      [] xpc = "avg" -> {"shards", "seqno"}
      [] OTHER -> {}
ReportsCover == Covers(report, LoadedTotals, LoadedNumbers) /\ Covers(last, Totals, Numbers)

IInv ==
    /\ TypeOK /\ MasterHasNewest /\ NumbersInOrder /\ TotalsInOrder
    /\ ReportsCover /\ AverageSamplesOnce

-----------------------------------------------------------------------------
\* A report without anything is a report.
LEMMA NoReportType ==
    /\ NoReport \in [totals : [Totals -> SUBSET Block], numbers : [Numbers -> 0..MaxBlock]]
    /\ \A x \in Numbers : NoReport.numbers[x] = 0
  BY McAssumption DEF NoReport, Block

LEMMA InitIInv == Init => IInv
  <1> SUFFICES ASSUME Init PROVE IInv
    OBVIOUS
  <1>0. Master \in Handlers /\ "utime" \in Numbers
    BY DEF Handlers, Numbers
  <1>1. TypeOK
    BY <1>0, NoReportType, McAssumption DEF Init, TypeOK, Block, Numbers
  <1>2. MasterHasNewest /\ TotalsInOrder
    BY <1>0 DEF Init, MasterHasNewest, TotalsInOrder, Handlers
  <1>3. NumbersInOrder
    BY <1>0 DEF Init, NumbersInOrder, ToStore, Totals
  <1>4. ReportsCover
    BY <1>0, NoReportType DEF Init, ReportsCover, Covers, LoadedNumbers
  <1>5. AverageSamplesOnce
    BY DEF Init, AverageSamplesOnce, Pushed
  <1> QED
    BY <1>1, <1>2, <1>3, <1>4, <1>5 DEF IInv

\* Every step keeps every variable in its range, and the numbers in the order
\* they are stored in.
LEMMA StepTypeOK == IInv /\ [Next]_vars => TypeOK'
  <1> SUFFICES ASSUME IInv, [Next]_vars PROVE TypeOK'
    OBVIOUS
  <1>0. TypeOK /\ Master \in Handlers /\ Block \subseteq 0..MaxBlock
    BY DEF IInv, Handlers, Block
  <1> USE McAssumption DEF TypeOK, handlerVars, exporterVars, Goto
  <1>1. ASSUME NEW h \in Handlers, Begin(h) PROVE TypeOK'
    BY <1>0, <1>1 DEF Begin, Totals, Block
  <1>2. ASSUME NEW h \in Handlers, NEW t \in Totals, AddToTotal(h, t) PROVE TypeOK'
    <2>1. block[h] \in Block
      BY <1>2 DEF IInv, MasterHasNewest, AddToTotal, Totals
    <2>2. totals' \in [Totals -> SUBSET Block]
      BY <1>0, <1>2, <2>1 DEF AddToTotal
    <2>3. pc' \in [Handlers -> {"idle", "avg"} \cup Totals \cup Numbers]
      BY <1>0, <1>2 DEF AddToTotal, Totals, Numbers
    <2> QED
      BY <1>0, <1>2, <2>2, <2>3 DEF AddToTotal
  <1>3. ASSUME NEW x \in Numbers, Store(x) PROVE TypeOK'
    <2>1. block[Master] \in 0..MaxBlock /\ numbers' = [numbers EXCEPT ![x] = block[Master]]
      BY <1>0, <1>3 DEF Store
    <2>2. pc' \in [Handlers -> {"idle", "avg"} \cup Totals \cup Numbers]
      BY <1>0, <1>3 DEF Store, Totals, Numbers
    <2>3. numbers' \in [Numbers -> 0..MaxBlock]
      BY <1>0, <2>1
    <2>4. numbers'["utime"] <= numbers'["seqno"] /\ numbers'["seqno"] <= numbers'["shards"]
      <3>1. \A y \in Numbers : IF y \in ToStore(x) THEN numbers[y] < block[Master] ELSE numbers[y] = block[Master]
        BY <1>3 DEF IInv, NumbersInOrder, Store, Numbers
      <3>2. \A y \in Numbers : numbers[y] \in Nat
        BY <1>0
      <3> QED
        BY <1>0, <2>1, <3>1, <3>2 DEF Numbers, ToStore, Totals
    <2> QED
      BY <1>0, <1>3, <2>2, <2>3, <2>4 DEF Store
  <1>4. CASE PushAverage
    <2>1. block[Master] \in mc
      BY <1>4 DEF IInv, MasterHasNewest, PushAverage
    <2> QED
      BY <1>0, <1>4, <2>1 DEF PushAverage
  <1>10. CASE ReturnEarly
    <2>1. block[Master] \in mc
      BY <1>10 DEF IInv, MasterHasNewest, ReturnEarly
    <2> QED
      BY <1>0, <1>10, <2>1 DEF ReturnEarly
  <1>11. CASE Skip
    BY <1>0, <1>11 DEF Skip, Block
  <1>5. CASE LoadUtime
    <2>1. report' \in [totals : [Totals -> SUBSET Block], numbers : [Numbers -> 0..MaxBlock]]
      BY <1>0, <1>5, NoReportType DEF LoadUtime, Numbers
    <2> QED
      BY <1>0, <1>5, <2>1 DEF LoadUtime, Totals, Numbers
  <1>6. ASSUME NEW t \in Totals, LoadTotal(t) PROVE TypeOK'
    <2>1. report' \in [totals : [Totals -> SUBSET Block], numbers : [Numbers -> 0..MaxBlock]]
      BY <1>0, <1>6 DEF LoadTotal
    <2> QED
      BY <1>0, <1>6, <2>1 DEF LoadTotal, Totals, Numbers
  <1>7. ASSUME NEW x \in Numbers, LoadNumber(x) PROVE TypeOK'
    <2>1. report' \in [totals : [Totals -> SUBSET Block], numbers : [Numbers -> 0..MaxBlock]]
      BY <1>0, <1>7 DEF LoadNumber
    <2> QED
      BY <1>0, <1>7, <2>1 DEF LoadNumber, Totals, Numbers
  <1>8. CASE ResetAverage
    BY <1>0, <1>8, NoReportType DEF ResetAverage, Numbers
  <1>9. CASE UNCHANGED vars
    BY <1>0, <1>9 DEF vars
  <1> QED
    BY <1>1, <1>2, <1>3, <1>4, <1>5, <1>6, <1>7, <1>8, <1>9, <1>10, <1>11 DEF Next, Handle, Export

\* Blocks reach the masterchain's thread in order.
LEMMA StepNewest == IInv /\ [Next]_vars => MasterHasNewest'
  <1> SUFFICES ASSUME IInv, [Next]_vars PROVE MasterHasNewest'
    OBVIOUS
  <1>0. /\ TypeOK /\ MasterHasNewest /\ Master \in Handlers /\ Others \subseteq Handlers
        /\ Block \subseteq Nat /\ failed \subseteq mc
    BY DEF IInv, Handlers, Block, TypeOK
  <1>1. /\ block \in [Handlers -> Nat] /\ next \in Nat /\ mc \subseteq Nat /\ DOMAIN pc = Handlers
        /\ next \notin mc
    BY <1>0, McAssumption DEF TypeOK, MasterHasNewest
  <1> USE McAssumption DEF MasterHasNewest, handlerVars, exporterVars, Goto
  <1>2. ASSUME NEW h \in Handlers, Begin(h) PROVE MasterHasNewest'
    <2>1. CASE h = Master
      BY <1>0, <1>1, <1>2, <2>1 DEF Begin
    <2>2. CASE h # Master
      BY <1>0, <1>1, <1>2, <2>2 DEF Begin, Totals
    <2> QED
      BY <2>1, <2>2
  <1>3. ASSUME NEW h \in Handlers, NEW t \in Totals, AddToTotal(h, t) PROVE MasterHasNewest'
    BY <1>0, <1>1, <1>3 DEF AddToTotal, Totals
  <1>4. ASSUME NEW x \in Numbers, Store(x) PROVE MasterHasNewest'
    BY <1>0, <1>1, <1>4 DEF Store, Numbers
  <1>5. CASE PushAverage
    BY <1>0, <1>1, <1>5 DEF PushAverage
  <1>7. CASE ReturnEarly
    BY <1>0, <1>1, <1>7 DEF ReturnEarly
  <1>8. CASE Skip
    BY <1>0, <1>1, <1>8 DEF Skip
  <1>6. CASE Export \/ UNCHANGED vars
    BY <1>0, <1>6 DEF Export, LoadUtime, LoadTotal, LoadNumber, ResetAverage, vars
  <1> QED
    BY <1>2, <1>3, <1>4, <1>5, <1>6, <1>7, <1>8 DEF Next, Handle

\* A number falls behind when a block comes and catches up when it is stored.
LEMMA StepNumbers == IInv /\ [Next]_vars => NumbersInOrder'
  <1> SUFFICES ASSUME IInv, [Next]_vars PROVE NumbersInOrder'
    OBVIOUS
  <1>0. /\ TypeOK /\ NumbersInOrder /\ Master \in Handlers /\ block[Master] < next
    BY DEF IInv, Handlers, MasterHasNewest
  <1>1. /\ block \in [Handlers -> Nat] /\ next \in Nat /\ numbers \in [Numbers -> Nat]
        /\ DOMAIN pc = Handlers /\ pc[Master] \in Position
    BY <1>0, McAssumption DEF TypeOK, Position
  <1> USE DEF NumbersInOrder, handlerVars, exporterVars, Goto
  <1>2. ASSUME NEW h \in Handlers, Begin(h) PROVE NumbersInOrder'
    <2>1. CASE h = Master
      <3>1. /\ numbers' = numbers /\ block'[Master] = next /\ pc'[Master] = "blocks"
            /\ pc[Master] = "idle"
        BY <1>0, <1>1, <1>2, <2>1 DEF Begin
      <3> QED
        BY <1>0, <1>1, <3>1 DEF ToStore, Totals
    <2>2. CASE h # Master
      BY <1>0, <1>1, <1>2, <2>2 DEF Begin
    <2> QED
      BY <2>1, <2>2
  <1>3. ASSUME NEW h \in Handlers, NEW t \in Totals, AddToTotal(h, t) PROVE NumbersInOrder'
    <2>1. /\ ToStore(pc'[Master]) = ToStore(pc[Master])
          /\ pc'[Master] = "idle" <=> pc[Master] = "idle"
      BY <1>0, <1>1, <1>3 DEF AddToTotal, ToStore, Totals
    <2> QED
      BY <1>0, <1>3, <2>1 DEF AddToTotal
  <1>4. ASSUME NEW x \in Numbers, Store(x) PROVE NumbersInOrder'
    <2>1. /\ pc[Master] = x /\ block' = block /\ ToStore(pc'[Master]) = ToStore(x) \ {x}
          /\ pc[Master] # "idle" /\ pc'[Master] # "idle"
          /\ numbers' = [numbers EXCEPT ![x] = block[Master]]
      BY <1>0, <1>1, <1>4 DEF Store, ToStore, Totals, Numbers
    <2> QED
      BY <1>0, <1>1, <2>1
  <1>5. CASE PushAverage
    BY <1>0, <1>1, <1>5 DEF PushAverage, ToStore, Totals
  <1>7. CASE ReturnEarly \/ Skip
    BY <1>0, <1>1, <1>7 DEF ReturnEarly, Skip, ToStore, Totals
  <1>6. CASE Export \/ UNCHANGED vars
    BY <1>0, <1>6 DEF Export, LoadUtime, LoadTotal, LoadNumber, ResetAverage, vars
  <1> QED
    BY <1>2, <1>3, <1>4, <1>5, <1>6, <1>7 DEF Next, Handle

\* Every masterchain block that could be read, but the one in hand, is in every
\* total.
LEMMA StepTotals == IInv /\ [Next]_vars => TotalsInOrder'
  <1> SUFFICES ASSUME IInv, [Next]_vars PROVE TotalsInOrder'
    OBVIOUS
  <1>0. /\ TypeOK /\ TotalsInOrder /\ Master \in Handlers
        /\ DOMAIN pc = Handlers /\ DOMAIN block = Handlers /\ DOMAIN totals = Totals
    BY DEF IInv, Handlers, TypeOK
  <1> USE DEF TotalsInOrder, handlerVars, exporterVars, Goto
  <1>2. ASSUME NEW h \in Handlers, Begin(h) PROVE TotalsInOrder'
    <2>1. CASE h = Master
      <3>1. /\ totals' = totals /\ block'[Master] = next /\ pc'[Master] = "blocks" /\ pc[Master] = "idle"
            /\ mc' = mc \cup {next}
        BY <1>0, <1>2, <2>1 DEF Begin
      <3> QED
        BY <1>0, <3>1 DEF ToAdd
    <2>2. CASE h # Master
      BY <1>0, <1>2, <2>2 DEF Begin
    <2> QED
      BY <2>1, <2>2
  <1>3. ASSUME NEW h \in Handlers, NEW t \in Totals, AddToTotal(h, t) PROVE TotalsInOrder'
    <2>1. \A s \in Totals : totals[s] \subseteq totals'[s]
      BY <1>0, <1>3 DEF AddToTotal
    <2>2. CASE h = Master
      <3>1. ToAdd(pc'[Master]) = ToAdd(pc[Master]) \ {t} /\ block[Master] \in totals'[t]
        BY <1>0, <1>3, <2>2 DEF AddToTotal, ToAdd, Totals
      <3> QED
        BY <1>0, <1>3, <2>1, <3>1 DEF AddToTotal
    <2>3. CASE h # Master
      BY <1>0, <1>3, <2>1, <2>3 DEF AddToTotal
    <2> QED
      BY <2>2, <2>3
  <1>4. ASSUME NEW x \in Numbers, Store(x) PROVE TotalsInOrder'
    <2>1. ToAdd(pc[Master]) = {}
      BY <1>4 DEF Store, ToAdd, Numbers
    <2> QED
      BY <1>0, <1>4, <2>1 DEF Store
  <1>5. CASE PushAverage
    BY <1>0, <1>5 DEF PushAverage, ToAdd
  <1>7. CASE ReturnEarly \/ Skip
    BY <1>0, <1>7 DEF ReturnEarly, Skip, ToAdd
  <1>6. CASE Export \/ UNCHANGED vars
    BY <1>0, <1>6 DEF Export, LoadUtime, LoadTotal, LoadNumber, ResetAverage, vars
  <1> QED
    BY <1>2, <1>3, <1>4, <1>5, <1>6, <1>7 DEF Next, Handle

\* Transaction counts are pushed once and taken once.
LEMMA StepAverage == IInv /\ [Next]_vars => AverageSamplesOnce'
  <1> SUFFICES ASSUME IInv, [Next]_vars PROVE AverageSamplesOnce'
    OBVIOUS
  <1>0. /\ TypeOK /\ AverageSamplesOnce /\ Master \in Handlers
        /\ DOMAIN pc = Handlers /\ DOMAIN block = Handlers
        /\ next \notin mc /\ failed \subseteq mc
    BY McAssumption DEF IInv, Handlers, TypeOK, MasterHasNewest, Block
  <1> USE DEF AverageSamplesOnce, Pushed, handlerVars, exporterVars, Goto
  <1>2. ASSUME NEW h \in Handlers, Begin(h) PROVE AverageSamplesOnce'
    <2>1. CASE h = Master
      <3>1. /\ block'[Master] = next /\ pc'[Master] = "blocks" /\ pc[Master] = "idle"
            /\ mc' = mc \cup {next} /\ failed' = failed
            /\ avg' = avg /\ avgExported' = avgExported
        BY <1>0, <1>2, <2>1 DEF Begin
      <3> QED
        BY <1>0, <3>1
    <2>2. CASE h # Master
      BY <1>0, <1>2, <2>2 DEF Begin
    <2> QED
      BY <2>1, <2>2
  <1>3. ASSUME NEW h \in Handlers, NEW t \in Totals, AddToTotal(h, t) PROVE AverageSamplesOnce'
    BY <1>0, <1>3 DEF AddToTotal, Totals
  <1>4. ASSUME NEW x \in Numbers, Store(x) PROVE AverageSamplesOnce'
    BY <1>0, <1>4 DEF Store, Numbers
  <1>5. CASE PushAverage
    <2>1. block[Master] \in mc \ failed
      BY <1>5 DEF IInv, MasterHasNewest, PushAverage
    <2> QED
      BY <1>0, <1>5, <2>1 DEF PushAverage
  <1>7. CASE ReturnEarly \/ Skip
    BY <1>0, <1>7 DEF ReturnEarly, Skip
  <1>6. CASE Export \/ UNCHANGED vars
    BY <1>0, <1>6 DEF Export, LoadUtime, LoadTotal, LoadNumber, ResetAverage, vars
  <1> QED
    BY <1>2, <1>3, <1>4, <1>5, <1>6, <1>7 DEF Next, Handle

\* The time shown moves on, and only later blocks come.
LEMMA MovesOn ==
    ASSUME IInv, [Next]_vars
    PROVE  /\ numbers'["utime"] >= numbers["utime"]
           /\ \A n \in mc' : n \in mc \/ n > numbers["utime"]
  <1>0. /\ block \in [Handlers -> Nat] /\ next \in Nat /\ numbers \in [Numbers -> Nat]
        /\ Master \in Handlers /\ "utime" \in Numbers /\ block[Master] < next
        /\ numbers["utime"] <= block[Master]
    BY McAssumption DEF IInv, TypeOK, Handlers, MasterHasNewest, NumbersInOrder, Numbers
  <1> USE <1>0 DEF handlerVars, exporterVars
  <1>1. ASSUME NEW h \in Handlers, Begin(h)
        PROVE  numbers' = numbers /\ mc' \subseteq mc \cup {next}
    BY <1>1 DEF Begin
  <1>2. ASSUME NEW h \in Handlers, NEW t \in Totals, AddToTotal(h, t)
        PROVE  numbers' = numbers /\ mc' = mc
    BY <1>2 DEF AddToTotal
  <1>3. ASSUME NEW x \in Numbers, Store(x)
        PROVE  numbers'["utime"] >= numbers["utime"] /\ mc' = mc
    BY <1>3 DEF Store
  <1>4. CASE PushAverage \/ ReturnEarly \/ Skip \/ Export \/ UNCHANGED vars
    BY <1>4 DEF PushAverage, ReturnEarly, Skip, Export, LoadUtime, LoadTotal, LoadNumber, ResetAverage, vars
  <1> QED
    BY <1>1, <1>2, <1>3, <1>4 DEF Next, Handle

\* What a report covers it goes on covering.
LEMMA CoversStays ==
    ASSUME IInv, [Next]_vars, NEW r, NEW ts, NEW xs, r.numbers["utime"] \in Nat, Covers(r, ts, xs)
    PROVE  /\ \A x \in xs : r.numbers[x] >= r.numbers["utime"]
           /\ \A t \in ts, n \in mc' : n <= r.numbers["utime"] => n \in r.totals[t]
           /\ r.numbers["utime"] <= numbers'["utime"]
  <1>1. numbers["utime"] \in Nat /\ numbers'["utime"] \in Nat /\ mc' \subseteq Nat
    BY StepTypeOK, McAssumption DEF IInv, TypeOK, Numbers, Block
  <1> QED
    BY <1>1, MovesOn DEF Covers

\* The totals have every block whose time is stored.
LEMMA TimeComesLast ==
    ASSUME IInv
    PROVE  /\ \A t \in Totals, n \in mc : n <= numbers["utime"] => n \in totals[t]
           /\ \A x \in Numbers : numbers[x] >= numbers["utime"]
  <1>1. /\ Master \in Handlers /\ block \in [Handlers -> Nat] /\ numbers \in [Numbers -> Nat]
        /\ mc \subseteq Nat
    BY McAssumption DEF IInv, TypeOK, Handlers, Block
  <1>2. ASSUME NEW t \in Totals, NEW n \in mc, n <= numbers["utime"] PROVE n \in totals[t]
    <2>1. ~(n = block[Master] /\ t \in ToAdd(pc[Master]))
      <3> SUFFICES ASSUME n = block[Master], t \in ToAdd(pc[Master]) PROVE FALSE
        OBVIOUS
      <3>1. pc[Master] \in Totals
        BY DEF ToAdd, Totals
      <3>2. numbers["utime"] < block[Master]
        BY <3>1 DEF IInv, NumbersInOrder, ToStore, Numbers
      <3> QED
        BY <1>1, <1>2, <3>2 DEF Numbers
    <2> QED
      BY <2>1 DEF IInv, TotalsInOrder
  <1>3. \A x \in Numbers : numbers[x] >= numbers["utime"]
    BY <1>1 DEF IInv, TypeOK, Numbers
  <1> QED
    BY <1>2, <1>3

\* What the exporter loads later covers what it loaded first.
LEMMA StepReports == IInv /\ [Next]_vars => ReportsCover'
  <1> SUFFICES ASSUME IInv, [Next]_vars PROVE ReportsCover'
    OBVIOUS
  <1>0. /\ report.numbers \in [Numbers -> Nat] /\ last.numbers \in [Numbers -> Nat]
        /\ DOMAIN report.totals = Totals /\ numbers \in [Numbers -> Nat]
        /\ report \in [totals : [Totals -> SUBSET Block], numbers : [Numbers -> 0..MaxBlock]]
        /\ report.numbers["utime"] \in Nat /\ last.numbers["utime"] \in Nat
        /\ ReportsCover
    BY McAssumption DEF IInv, TypeOK, Numbers, Totals
  <1>1. ASSUME last' = last, report' = report, xpc' = xpc PROVE ReportsCover'
    <2>1. LoadedTotals' = LoadedTotals /\ LoadedNumbers' = LoadedNumbers
      BY <1>1 DEF LoadedTotals, LoadedNumbers
    <2>2. Covers(report, LoadedTotals, LoadedNumbers) /\ Covers(last, Totals, Numbers)
      BY <1>0 DEF ReportsCover
    <2>3. Covers(report, LoadedTotals, LoadedNumbers)'
      BY <1>0, <1>1, <2>1, <2>2, CoversStays DEF Covers
    <2>4. Covers(last, Totals, Numbers)'
      BY <1>0, <1>1, <2>2, CoversStays DEF Covers
    <2> QED
      BY <2>3, <2>4 DEF ReportsCover
  <1>2. last' = last => Covers(last, Totals, Numbers)'
    BY <1>0, CoversStays DEF ReportsCover, Covers
  <1>3. CASE LoadUtime
    <2>1. /\ report'.numbers["utime"] = numbers["utime"] /\ numbers' = numbers
          /\ xpc' \in {"utime", "blocks"} /\ last' = last
      BY <1>0, <1>3, NoReportType DEF LoadUtime, NoReport, Numbers
    <2>2. LoadedTotals' = {} /\ LoadedNumbers' = {}
      BY <2>1 DEF LoadedTotals, LoadedNumbers, ToAdd
    <2>3. Covers(report, LoadedTotals, LoadedNumbers)'
      BY <1>0, <2>1, <2>2 DEF Covers, Numbers
    <2> QED
      BY <1>2, <2>1, <2>3 DEF ReportsCover
  <1>4. ASSUME NEW t \in Totals, LoadTotal(t) PROVE ReportsCover'
    <2>1. /\ xpc = t /\ last' = last /\ report' = [report EXCEPT !.totals[t] = totals[t]]
          /\ numbers' = numbers /\ mc' = mc
      BY <1>4 DEF LoadTotal, handlerVars
    <2>2. LoadedTotals' = LoadedTotals \cup {t} /\ LoadedNumbers' = {}
      BY <1>4 DEF LoadTotal, LoadedTotals, LoadedNumbers, ToAdd, Totals
    <2>3. /\ report'.numbers = report.numbers
          /\ \A s \in Totals : report'.totals[s] = IF s = t THEN totals[t] ELSE report.totals[s]
      BY <1>0, <2>1
    <2>4. \A n \in mc : n <= report.numbers["utime"] => n \in totals[t]
      BY <1>0, TimeComesLast, McAssumption DEF ReportsCover, Covers, IInv, TypeOK, Block, Numbers
    <2>5. Covers(report, LoadedTotals, LoadedNumbers)'
      BY <1>0, <2>1, <2>2, <2>3, <2>4 DEF ReportsCover, Covers, LoadedTotals
    <2> QED
      BY <1>2, <2>1, <2>5 DEF ReportsCover
  <1>5. ASSUME NEW x \in Numbers, LoadNumber(x) PROVE ReportsCover'
    <2>1. /\ xpc = x /\ x \in {"shards", "seqno"} /\ last' = last
          /\ report' = [report EXCEPT !.numbers[x] = numbers[x]] /\ numbers' = numbers /\ mc' = mc
      BY <1>5 DEF LoadNumber, handlerVars
    <2>2. LoadedTotals' = LoadedTotals /\ LoadedNumbers' = LoadedNumbers \cup {x}
      BY <1>5 DEF LoadNumber, LoadedTotals, LoadedNumbers, ToAdd, Totals
    <2>3. /\ report'.totals = report.totals
          /\ \A y \in Numbers : report'.numbers[y] = IF y = x THEN numbers[x] ELSE report.numbers[y]
      BY <1>0, <2>1
    <2>4. numbers[x] >= report.numbers["utime"]
      BY <1>0, TimeComesLast DEF ReportsCover, Covers, Numbers
    <2>5. Covers(report, LoadedTotals, LoadedNumbers)'
      BY <1>0, <2>1, <2>2, <2>3, <2>4 DEF ReportsCover, Covers, LoadedNumbers, Numbers
    <2> QED
      BY <1>2, <2>1, <2>5 DEF ReportsCover
  <1>6. CASE ResetAverage
    <2>1. last' = report /\ report' = NoReport /\ xpc = "avg" /\ xpc' = "utime" /\ numbers' = numbers /\ mc' = mc
      BY <1>6 DEF ResetAverage, handlerVars
    <2>2. LoadedTotals = Totals /\ Numbers = LoadedNumbers \cup {"utime"}
      BY <2>1 DEF LoadedTotals, LoadedNumbers, ToAdd, Numbers
    <2>3. Covers(last, Totals, Numbers)'
      BY <1>0, <2>1, <2>2 DEF ReportsCover, Covers
    <2>4. LoadedTotals' = {} /\ LoadedNumbers' = {}
      BY <2>1 DEF LoadedTotals, LoadedNumbers
    <2>5. Covers(report, LoadedTotals, LoadedNumbers)'
      BY <1>0, <2>1, <2>4, NoReportType DEF Covers, Numbers
    <2> QED
      BY <2>3, <2>5 DEF ReportsCover
  <1>7. ASSUME NEW h \in Handlers, Begin(h) PROVE ReportsCover'
    BY <1>1, <1>7 DEF Begin, exporterVars
  <1>8. ASSUME NEW h \in Handlers, NEW t \in Totals, AddToTotal(h, t) PROVE ReportsCover'
    BY <1>1, <1>8 DEF AddToTotal, exporterVars
  <1>9. ASSUME NEW x \in Numbers, Store(x) PROVE ReportsCover'
    BY <1>1, <1>9 DEF Store, exporterVars
  <1>10. CASE PushAverage \/ ReturnEarly \/ Skip \/ UNCHANGED vars
    BY <1>1, <1>10 DEF PushAverage, ReturnEarly, Skip, vars, exporterVars
  <1> QED
    BY <1>3, <1>4, <1>5, <1>6, <1>7, <1>8, <1>9, <1>10 DEF Next, Handle, Export

-----------------------------------------------------------------------------
LEMMA Invariant == Spec => []IInv
  <1>1. IInv /\ [Next]_vars => IInv'
    BY StepTypeOK, StepNewest, StepNumbers, StepTotals, StepReports, StepAverage DEF IInv
  <1> QED
    BY <1>1, InitIInv, PTL DEF Spec

\* The numbers are in range, and the time of a block is the last of its numbers
\* to be stored (metrics.rs:180-183).
THEOREM TypeCorrect == Spec => []TypeOK
  BY Invariant, PTL DEF IInv

\* A report that says ready has a whole masterchain block behind it, for any
\* number of threads and blocks (metrics.rs:132-138, 181-184, 308-337).
THEOREM Coherent == Spec => []ReportCoherent
  <1>1. IInv => ReportCoherent
    BY DEF IInv, ReportsCover, Covers, ReportCoherent
  <1> QED
    BY <1>1, Invariant, PTL

\* The transaction count of each masterchain block that got as far as
\* update_masterchain_stats is kept or written, once, and none of a block that
\* failed before it (ton_subscriber.rs:222-246, metrics.rs:184, 340).
THEOREM SamplesOnce == Spec => []AverageSamplesOnce
  BY Invariant, PTL DEF IInv
-----------------------------------------------------------------------------
\* Numbers and totals only grow.
LEMMA OnlyGrow ==
    ASSUME IInv, [Next]_vars
    PROVE  /\ \A x \in Numbers : numbers[x] <= numbers'[x]
           /\ \A t \in Totals : totals[t] \subseteq totals'[t]
  <1>1. /\ block \in [Handlers -> Nat] /\ numbers \in [Numbers -> Nat] /\ Master \in Handlers
        /\ DOMAIN totals = Totals /\ \A x \in Numbers : numbers[x] <= block[Master]
    BY McAssumption DEF IInv, TypeOK, Handlers, NumbersInOrder
  <1>2. ASSUME NEW x \in Numbers, Store(x)
        PROVE  totals' = totals /\ \A y \in Numbers : numbers[y] <= numbers'[y]
    BY <1>1, <1>2 DEF Store
  <1>3. ASSUME NEW h \in Handlers, NEW t \in Totals, AddToTotal(h, t)
        PROVE  numbers' = numbers /\ \A s \in Totals : totals[s] \subseteq totals'[s]
    BY <1>1, <1>3 DEF AddToTotal
  <1>4. ASSUME ~(\E x \in Numbers : Store(x)), ~(\E h \in Handlers, t \in Totals : AddToTotal(h, t))
        PROVE  numbers' = numbers /\ totals' = totals
    BY <1>4 DEF Next, Handle, Export, Begin, Skip, PushAverage, ReturnEarly, LoadUtime, LoadTotal, LoadNumber,
                ResetAverage, vars
  <1> QED
    BY <1>1, <1>2, <1>3, <1>4

\* A report's part that lies between the last report's and the present state.
NumbersBetween(xs) ==
    \A x \in xs : last.numbers[x] <= report.numbers[x] /\ report.numbers[x] <= numbers[x]
TotalsBetween(ts) ==
    \A t \in ts : last.totals[t] \subseteq report.totals[t] /\ report.totals[t] \subseteq totals[t]

\* The numbers loaded, the time that comes first included.
NumbersRead == LoadedNumbers \cup IF xpc = "utime" THEN {} ELSE {"utime"}

\* What the report in hand has loaded is no older than what the last one showed.
ReportsInOrder ==
    /\ \A x \in Numbers : last.numbers[x] <= numbers[x]
    /\ \A t \in Totals : last.totals[t] \subseteq totals[t]
    /\ NumbersBetween(NumbersRead) /\ TotalsBetween(LoadedTotals)

\* The next report goes on from the one before.
Forward ==
    /\ \A x \in Numbers : last.numbers[x] <= last'.numbers[x]
    /\ \A t \in Totals : last.totals[t] \subseteq last'.totals[t]

LEMMA StepForward == IInv /\ ReportsInOrder /\ [Next]_vars => ReportsInOrder' /\ Forward
  <1> SUFFICES ASSUME IInv, ReportsInOrder, [Next]_vars PROVE ReportsInOrder' /\ Forward
    OBVIOUS
  <1>0. /\ numbers \in [Numbers -> Nat] /\ numbers' \in [Numbers -> Nat]
        /\ report.numbers \in [Numbers -> Nat] /\ last.numbers \in [Numbers -> Nat]
        /\ DOMAIN report.totals = Totals /\ DOMAIN totals = Totals
        /\ report \in [totals : [Totals -> SUBSET Block], numbers : [Numbers -> 0..MaxBlock]]
    BY StepTypeOK, McAssumption DEF IInv, TypeOK
  <1>1. /\ \A x \in Numbers : numbers[x] <= numbers'[x]
        /\ \A t \in Totals : totals[t] \subseteq totals'[t]
    BY OnlyGrow
  <1>2. NumbersRead \subseteq Numbers /\ LoadedTotals \subseteq Totals
    BY DEF NumbersRead, LoadedNumbers, LoadedTotals, Numbers
  <1>3. ASSUME last' = last
        PROVE  /\ \A x \in Numbers : last'.numbers[x] <= numbers'[x]
               /\ \A t \in Totals : last'.totals[t] \subseteq totals'[t]
               /\ Forward
    BY <1>0, <1>1, <1>3 DEF ReportsInOrder, Forward
  <1>4. ASSUME last' = last, report' = report, xpc' = xpc PROVE ReportsInOrder' /\ Forward
    <2>1. NumbersRead' = NumbersRead /\ LoadedTotals' = LoadedTotals
      BY <1>4 DEF NumbersRead, LoadedNumbers, LoadedTotals
    <2>2. NumbersBetween(NumbersRead)'
      BY <1>0, <1>1, <1>2, <1>4, <2>1 DEF ReportsInOrder, NumbersBetween
    <2>3. TotalsBetween(LoadedTotals)'
      BY <1>1, <1>2, <1>4, <2>1 DEF ReportsInOrder, TotalsBetween
    <2> QED
      BY <1>3, <1>4, <2>2, <2>3 DEF ReportsInOrder
  <1>5. CASE LoadUtime
    <2>1. /\ report'.numbers["utime"] = numbers["utime"] /\ numbers' = numbers
          /\ xpc' \in {"utime", "blocks"} /\ last' = last
      BY <1>0, <1>5, NoReportType DEF LoadUtime, NoReport, Numbers
    <2>2. NumbersRead' \subseteq {"utime"} /\ LoadedTotals' = {}
      BY <2>1 DEF NumbersRead, LoadedNumbers, LoadedTotals, ToAdd
    <2>3. "utime" \in Numbers
      BY DEF Numbers
    <2>4. NumbersBetween(NumbersRead)' /\ TotalsBetween(LoadedTotals)'
      BY <1>0, <2>1, <2>2, <2>3 DEF ReportsInOrder, NumbersBetween, TotalsBetween
    <2> QED
      BY <1>3, <2>1, <2>4 DEF ReportsInOrder
  <1>6. ASSUME NEW t \in Totals, LoadTotal(t) PROVE ReportsInOrder' /\ Forward
    <2>1. /\ xpc = t /\ last' = last /\ report' = [report EXCEPT !.totals[t] = totals[t]]
          /\ numbers' = numbers /\ totals' = totals
      BY <1>6 DEF LoadTotal
    <2>2. LoadedTotals' = LoadedTotals \cup {t} /\ NumbersRead' = {"utime"} /\ NumbersRead = {"utime"}
      BY <1>6 DEF LoadTotal, LoadedTotals, LoadedNumbers, NumbersRead, ToAdd, Totals
    <2>3. /\ report'.numbers = report.numbers
          /\ \A s \in Totals : report'.totals[s] = IF s = t THEN totals[t] ELSE report.totals[s]
      BY <1>0, <2>1
    <2>4. NumbersBetween(NumbersRead)'
      BY <2>1, <2>2, <2>3 DEF ReportsInOrder, NumbersBetween
    <2>5. TotalsBetween(LoadedTotals)'
      BY <1>2, <2>1, <2>2, <2>3 DEF ReportsInOrder, TotalsBetween
    <2> QED
      BY <1>3, <2>1, <2>4, <2>5 DEF ReportsInOrder
  <1>7. ASSUME NEW x \in Numbers, LoadNumber(x) PROVE ReportsInOrder' /\ Forward
    <2>1. /\ xpc = x /\ x \in {"shards", "seqno"} /\ last' = last
          /\ report' = [report EXCEPT !.numbers[x] = numbers[x]]
          /\ numbers' = numbers /\ totals' = totals
      BY <1>7 DEF LoadNumber
    <2>2. LoadedTotals' = LoadedTotals /\ NumbersRead' = NumbersRead \cup {x}
      BY <1>7 DEF LoadNumber, LoadedTotals, LoadedNumbers, NumbersRead, ToAdd, Totals
    <2>3. /\ report'.totals = report.totals
          /\ \A y \in Numbers : report'.numbers[y] = IF y = x THEN numbers[x] ELSE report.numbers[y]
      BY <1>0, <2>1
    <2>4. NumbersBetween(NumbersRead)'
      BY <1>0, <1>2, <2>1, <2>2, <2>3 DEF ReportsInOrder, NumbersBetween
    <2>5. TotalsBetween(LoadedTotals)'
      BY <2>1, <2>2, <2>3 DEF ReportsInOrder, TotalsBetween
    <2> QED
      BY <1>3, <2>1, <2>4, <2>5 DEF ReportsInOrder
  <1>8. CASE ResetAverage
    <2>1. last' = report /\ xpc = "avg" /\ xpc' = "utime" /\ numbers' = numbers /\ totals' = totals
      BY <1>8 DEF ResetAverage
    <2>2. LoadedTotals = Totals /\ Numbers = NumbersRead
      BY <2>1 DEF LoadedTotals, LoadedNumbers, NumbersRead, ToAdd, Numbers
    <2>3. LoadedTotals' = {} /\ NumbersRead' = {}
      BY <2>1 DEF LoadedTotals, LoadedNumbers, NumbersRead
    <2> QED
      BY <2>1, <2>2, <2>3 DEF ReportsInOrder, NumbersBetween, TotalsBetween, Forward
  <1>9. ASSUME NEW h \in Handlers, Begin(h) PROVE ReportsInOrder' /\ Forward
    BY <1>4, <1>9 DEF Begin, exporterVars
  <1>10. ASSUME NEW h \in Handlers, NEW t \in Totals, AddToTotal(h, t) PROVE ReportsInOrder' /\ Forward
    BY <1>4, <1>10 DEF AddToTotal, exporterVars
  <1>11. ASSUME NEW x \in Numbers, Store(x) PROVE ReportsInOrder' /\ Forward
    BY <1>4, <1>11 DEF Store, exporterVars
  <1>12. CASE PushAverage \/ ReturnEarly \/ Skip \/ UNCHANGED vars
    BY <1>4, <1>12 DEF PushAverage, ReturnEarly, Skip, vars, exporterVars
  <1> QED
    BY <1>5, <1>6, <1>7, <1>8, <1>9, <1>10, <1>11, <1>12 DEF Next, Handle, Export

\* No number goes back and no total shrinks from one report to the next, though
\* each is loaded at a moment of its own while blocks are being added: the
\* totals are counters to whoever reads the metrics (metrics.rs:308-337).
THEOREM ReportsAdvance == Spec => [][Forward]_vars
  <1>1. Init => ReportsInOrder
    <2> SUFFICES ASSUME Init PROVE ReportsInOrder
      OBVIOUS
    <2>1. LoadedTotals = {} /\ NumbersRead = {}
      BY DEF Init, LoadedTotals, NumbersRead, LoadedNumbers
    <2> QED
      BY <2>1 DEF Init, ReportsInOrder, NumbersBetween, TotalsBetween, NoReport
  <1> QED
    BY <1>1, Invariant, StepForward, PTL DEF Spec
=============================================================================
