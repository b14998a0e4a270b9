-------------------------------- MODULE McStats --------------------------------
(***************************************************************************)
(* The masterchain numbers and the totals over all chains of               *)
(* src/src/engine/metrics.rs: threads add their block to three totals      *)
(* (aggregate_block_info), the masterchain's thread then stores its        *)
(* block's numbers one by one (update_masterchain_stats), unless reading   *)
(* them fails in between, and the exporter reads everything one by one     *)
(* (the start of MetricsState::fmt).                                       *)
(* A number stored is represented by its block, a total by the set of      *)
(* blocks it has added up.                                                 *)
(***************************************************************************)
EXTENDS Integers

CONSTANTS
    Master,         \* the thread that handles masterchain blocks, one by one
    Others,         \* threads that handle blocks of shards
    MaxBlock        \* bound: blocks handled in a behaviour

ASSUME McAssumption == MaxBlock \in Nat /\ Master \notin Others

Handlers == {Master} \cup Others
Block == 1..MaxBlock

\* frmon_aggregate: blocks_total, messages_total, transactions_total.
Totals == {"blocks", "messages", "transactions"}
\* shard_count, mc_seq_no and mc_utime; all masterchain blocks have a time.
Numbers == {"shards", "seqno", "utime"}

VARIABLES
    totals,         \* blocks added to each total
    numbers,        \* masterchain block of each number, 0 before the first
    avg,            \* mc_avg_transaction_count: blocks pushed since its reset
    next,           \* the next block, of whatever chain
    mc,             \* history: masterchain blocks that got to the totals
    failed,         \* history: those of them that got no further
    block, pc,      \* per handler: block it handles, position
    xpc, report,    \* exporter: position in fmt, what it wrote
    last,           \* the last report that was complete
    avgExported     \* history: blocks whose transaction count was written

handlerVars == <<next, mc, failed, block, pc>>
exporterVars == <<xpc, report, last, avgExported>>
vars == <<totals, numbers, avg, handlerVars, exporterVars>>

NoReport ==
    [totals |-> [t \in Totals |-> {}], numbers |-> [x \in Numbers |-> 0]]

Init ==
    /\ totals = [t \in Totals |-> {}]
    /\ numbers = [x \in Numbers |-> 0]
    /\ avg = {}
    /\ next = 1 /\ mc = {} /\ failed = {}
    /\ block = [h \in Handlers |-> 0]
    /\ pc = [h \in Handlers |-> "idle"]
    /\ xpc = "utime"
    /\ report = NoReport
    /\ last = NoReport
    /\ avgExported = {}

Goto(h, step) == pc' = [pc EXCEPT ![h] = step]

-----------------------------------------------------------------------------
\* External: the next block reaches a handler of its chain, and can be read.
Begin(h) ==
    /\ pc[h] = "idle" /\ next \in Block
    /\ block' = [block EXCEPT ![h] = next]
    /\ next' = next + 1
    /\ mc' = IF h = Master THEN mc \cup {next} ELSE mc
    /\ Goto(h, "blocks")
    /\ UNCHANGED <<totals, numbers, avg, failed, exporterVars>>

\* The next block has no state, or reading it fails: it adds to nothing.
Skip ==
    /\ next \in Block
    /\ next' = next + 1
    /\ UNCHANGED <<totals, numbers, avg, mc, failed, block, pc, exporterVars>>

\* aggregate_block_info; only a masterchain block has more to store.
AddToTotal(h, t) ==
    /\ pc[h] = t
    /\ totals' = [totals EXCEPT ![t] = @ \cup {block[h]}]
    /\ Goto(h, CASE t = "blocks" -> "messages"
                 [] t = "messages" -> "transactions"
                 [] t = "transactions" -> IF h = Master THEN "shards" ELSE "idle")
    /\ UNCHANGED <<numbers, avg, next, mc, failed, block, exporterVars>>

\* The block is no masterchain block after all, or its list of shards cannot be
\* read: it is in the totals, and nothing else becomes of it.
ReturnEarly ==
    /\ pc[Master] = "shards"
    /\ failed' = failed \cup {block[Master]}
    /\ Goto(Master, "idle")
    /\ UNCHANGED <<totals, numbers, avg, next, mc, block, exporterVars>>

\* update_masterchain_stats stores mc_utime last.
Store(x) ==
    /\ pc[Master] = x
    /\ numbers' = [numbers EXCEPT ![x] = block[Master]]
    /\ Goto(Master, CASE x = "shards" -> "seqno"
                      [] x = "seqno" -> "utime"
                      [] x = "utime" -> "avg")
    /\ UNCHANGED <<totals, avg, next, mc, failed, block, exporterVars>>

\* Mutant: store instead of fetch_add.
PushAverageStores ==
    /\ pc[Master] = "avg"
    /\ avg' = {block[Master]}
    /\ Goto(Master, "idle")
    /\ UNCHANGED <<totals, numbers, next, mc, failed, block, exporterVars>>

PushAverage ==
    /\ pc[Master] = "avg"
    /\ avg' = avg \cup {block[Master]}
    /\ Goto(Master, "idle")
    /\ UNCHANGED <<totals, numbers, next, mc, failed, block, exporterVars>>

Handle ==
    \/ \E h \in Handlers, t \in Totals : AddToTotal(h, t)
    \/ \E x \in Numbers : Store(x)
    \/ PushAverage \/ ReturnEarly

-----------------------------------------------------------------------------
\* Mutant: the time of the last report is kept.
LoadUtimeKeeps ==
    /\ xpc = "utime"
    /\ report' = [NoReport EXCEPT !.numbers["utime"] =
          IF last.numbers["utime"] > 0 THEN last.numbers["utime"] ELSE numbers["utime"]]
    /\ xpc' = IF numbers["utime"] > 0 THEN "blocks" ELSE "utime"
    /\ UNCHANGED <<totals, numbers, avg, handlerVars, last, avgExported>>

\* mc_utime is loaded first; until it is set the report says that the exporter
\* is not ready, and nothing else.
LoadUtime ==
    /\ xpc = "utime"
    /\ report' = [NoReport EXCEPT !.numbers["utime"] = numbers["utime"]]
    /\ xpc' = IF numbers["utime"] > 0 THEN "blocks" ELSE "utime"
    /\ UNCHANGED <<totals, numbers, avg, handlerVars, last, avgExported>>

LoadTotal(t) ==
    /\ xpc = t
    /\ report' = [report EXCEPT !.totals[t] = totals[t]]
    /\ xpc' = CASE t = "blocks" -> "messages"
                [] t = "messages" -> "transactions"
                [] t = "transactions" -> "shards"
    /\ UNCHANGED <<totals, numbers, avg, handlerVars, last, avgExported>>

\* Mutant: the time is loaded once more when it is written.
LoadNumberAndUtime(x) ==
    /\ xpc = x /\ x \in {"shards", "seqno"}
    /\ report' = [report EXCEPT !.numbers[x] = numbers[x], !.numbers["utime"] = numbers["utime"]]
    /\ xpc' = IF x = "shards" THEN "seqno" ELSE "avg"
    /\ UNCHANGED <<totals, numbers, avg, handlerVars, last, avgExported>>

LoadNumber(x) ==
    /\ xpc = x /\ x \in {"shards", "seqno"}
    /\ report' = [report EXCEPT !.numbers[x] = numbers[x]]
    /\ xpc' = IF x = "shards" THEN "seqno" ELSE "avg"
    /\ UNCHANGED <<totals, numbers, avg, handlerVars, last, avgExported>>

\* The rest of the report follows; the exporter comes back in the next
\* collection.
ResetAverage ==
    /\ xpc = "avg"
    /\ avgExported' = avgExported \cup avg
    /\ avg' = {}
    /\ last' = report
    /\ report' = NoReport
    /\ xpc' = "utime"
    /\ UNCHANGED <<totals, numbers, handlerVars>>

Export ==
    \/ LoadUtime \/ ResetAverage
    \/ (\E t \in Totals : LoadTotal(t))
    \/ \E x \in Numbers : LoadNumber(x)

Next == Export \/ Handle \/ Skip \/ \E h \in Handlers : Begin(h)

\* The exporter runs once per collection, and a thread with a block goes on.
Fairness ==
    /\ WF_vars(Export)
    /\ \A h \in Handlers : WF_vars(\E t \in Totals : AddToTotal(h, t))
    /\ WF_vars((\E x \in Numbers : Store(x)) \/ PushAverage \/ ReturnEarly)

Spec == Init /\ [][Next]_vars

FairSpec == Spec /\ Fairness

-----------------------------------------------------------------------------
\* Masterchain blocks that were added to the average.
Pushed == mc \ (failed \cup IF pc[Master] = "idle" THEN {} ELSE {block[Master]})

\* The time of a masterchain block is stored when its other numbers are.
TypeOK ==
    /\ totals \in [Totals -> SUBSET Block]
    /\ numbers \in [Numbers -> 0..MaxBlock]
    /\ numbers["utime"] <= numbers["seqno"] /\ numbers["seqno"] <= numbers["shards"]
    /\ next \in 1..(MaxBlock + 1)
    /\ block \in [Handlers -> 0..MaxBlock]
    /\ pc \in [Handlers -> {"idle", "avg"} \cup Totals \cup Numbers]
    /\ xpc \in {"avg"} \cup Totals \cup Numbers
    /\ {report, last} \subseteq
          [totals : [Totals -> SUBSET Block], numbers : [Numbers -> 0..MaxBlock]]
    /\ avg \subseteq mc /\ avgExported \subseteq mc /\ failed \subseteq mc /\ mc \subseteq Block

\* A report says ready only with a whole masterchain block behind it: the seqno
\* and the number of shards it shows are not older than the block whose time it
\* shows, and every total counts that block and the masterchain blocks before
\* it that could be read, although nothing locks the numbers together
\* (metrics.rs:132-138, 181-184, 308-337).
ReportCoherent ==
    LET shown == last.numbers["utime"]
    IN  /\ \A x \in Numbers : last.numbers[x] >= shown
        /\ \A t \in Totals : {n \in mc : n <= shown} \subseteq last.totals[t]

\* The transaction count of each masterchain block that got as far as
\* update_masterchain_stats is in the average or was written, once, and no count
\* of another is; reports that are not ready take nothing out of it
\* (ton_subscriber.rs:222-246, metrics.rs:184, 315-317, 340).
AverageSamplesOnce ==
    /\ avg \cup avgExported = Pushed
    /\ avg \cap avgExported = {}

\* Each masterchain block in the totals gets shown, be it the last one that
\* comes, and though later ones fail; or it failed itself between the totals and
\* its numbers, and may then stay unshown.
BlockEventuallyShown ==
    \A n \in Block : n \in mc ~> (last.numbers["utime"] >= n \/ n \in failed)
=============================================================================
