------------------------------ MODULE ShardState ------------------------------
(***************************************************************************)
(* The metrics of one shardchain, struct ShardState of                     *)
(* src/src/engine/metrics.rs, shared without a lock between the threads    *)
(* that handle the shard's blocks (ShardState::update) and the exporter    *)
(* (the shard loop of MetricsState::fmt).  One action is one atomic        *)
(* operation, or one critical section of the temp_state mutex.             *)
(*                                                                         *)
(* An additive counter is represented by the set of blocks it has added    *)
(* up: fetch_add adds a block, swap(0) takes the set and leaves none.  A   *)
(* block is its seqno; blocks of the shard are handed out in order.        *)
(***************************************************************************)
EXTENDS Integers, FiniteSets

CONSTANTS
    Handlers,       \* threads inside process_block for a block of this shard
    MaxBlock,       \* bound: the newest block of a behaviour
    Genesis,        \* block n was generated Genesis + n seconds after 1970
    DirtyFlag       \* 2^31 in the code: bit 31 of seqno_and_utime

\* The flag takes the top bit of the 32-bit utime, so times must stay below it
\* (until 2038 for the real flag).
ASSUME ShardAssumption ==
    /\ Handlers # {}
    /\ MaxBlock \in Nat \ {0} /\ Genesis \in Nat /\ DirtyFlag \in Nat
    /\ Genesis + MaxBlock < DirtyFlag

\* With a single handler a block is handled after its predecessor, as the
\* indexer applies the blocks of one chain.
Serial == \A g, h \in Handlers : g = h

Block == 1..MaxBlock

\* total_transaction_count, account_blocks, contract_deployments and
\* contract_destructions.
Counters == {"transactions", "account_blocks", "deployments", "destructions"}
FirstCounter == "transactions"

\* Both sides go through the totals in the same order and then to their end.
After(c, end) ==
    CASE c = "transactions"   -> "account_blocks"
      [] c = "account_blocks" -> "deployments"
      [] c = "deployments"    -> "destructions"
      [] c = "destructions"   -> end

VARIABLES
    seqno_and_utime,    \* packed word: seqno, and utime with the dirty flag
    avg,                \* avg_transaction_count: blocks pushed since its reset
    counters,           \* the four totals: blocks added to each
    temp_state,         \* TempShardState: its samples; {} is None
    next,               \* the next block of the shard
    pc, block,          \* per handler: position in update, block it handles
    xpc, report,        \* exporter: position in the loop body, what it wrote
    last,               \* the last finished report that showed a seqno
    gasExported,        \* history: blocks whose gas sample was written
    avgExported         \* history: blocks whose transaction sample was written

entry == <<seqno_and_utime, avg, counters, temp_state>>
handlerVars == <<next, pc, block>>
exporterVars == <<xpc, report, last, gasExported, avgExported>>
vars == <<entry, handlerVars, exporterVars>>

GenUtime(n) == Genesis + n

\* utime | DIRTY_FLAG, and the test and mask of the flag.
WithDirty(utime) == IF utime < DirtyFlag THEN utime + DirtyFlag ELSE utime
IsDirty(cell) == cell.low >= DirtyFlag
\* Mutant: the mask takes one bit too many.
MaskedShort(cell) == [cell EXCEPT !.low = @ % (DirtyFlag \div 2)]
Masked(cell) == [cell EXCEPT !.low = @ % DirtyFlag]

Packed(n) == [seqno |-> n, low |-> WithDirty(GenUtime(n))]

\* What the exporter wrote of the shard: the totals follow seqno and utime.
NewReport(seqno, utime) ==
    [seqno |-> seqno, utime |-> utime, counters |-> [c \in Counters |-> {}]]
NoReport == NewReport(0, 0)

-----------------------------------------------------------------------------
\* ShardState::new: the entry is built from the first block seen of the shard
\* before any other thread can reach it.
Init ==
    /\ seqno_and_utime = Packed(1)
    /\ avg = {1}
    /\ counters = [c \in Counters |-> {1}]
    /\ temp_state = {1}
    /\ next = 2
    /\ pc = [h \in Handlers |-> "idle"]
    /\ block = [h \in Handlers |-> 1]
    /\ xpc = "gas"
    /\ report = NoReport
    /\ last = NoReport
    /\ gasExported = {}
    /\ avgExported = {}

\* External: the indexer hands the next block of the shard to a handler.
Begin(h) ==
    /\ pc[h] = "idle" /\ next \in Block
    /\ pc' = [pc EXCEPT ![h] = "store"]
    /\ block' = [block EXCEPT ![h] = next]
    /\ next' = next + 1
    /\ UNCHANGED <<entry, exporterVars>>

\* Mutants: the flag is forgotten; the flag is only kept.
StoreSeqnoClean(h) ==
    /\ pc[h] = "store"
    /\ seqno_and_utime' = [seqno |-> block[h], low |-> GenUtime(block[h])]
    /\ pc' = [pc EXCEPT ![h] = "push"]
    /\ UNCHANGED <<avg, counters, temp_state, next, block, exporterVars>>
StoreSeqnoKeeps(h) ==
    /\ pc[h] = "store"
    /\ seqno_and_utime' = IF IsDirty(seqno_and_utime) THEN Packed(block[h])
                          ELSE [seqno |-> block[h], low |-> GenUtime(block[h])]
    /\ pc' = [pc EXCEPT ![h] = "push"]
    /\ UNCHANGED <<avg, counters, temp_state, next, block, exporterVars>>

StoreSeqno(h) ==
    /\ pc[h] = "store"
    /\ seqno_and_utime' = Packed(block[h])
    /\ pc' = [pc EXCEPT ![h] = "push"]
    /\ UNCHANGED <<avg, counters, temp_state, next, block, exporterVars>>

PushAverage(h) ==
    /\ pc[h] = "push"
    /\ avg' = avg \cup {block[h]}
    /\ pc' = [pc EXCEPT ![h] = FirstCounter]
    /\ UNCHANGED <<seqno_and_utime, counters, temp_state, next, block, exporterVars>>

\* Mutant: store instead of fetch_add.
AddToCounterStores(h, c) ==
    /\ pc[h] = c
    /\ counters' = [counters EXCEPT ![c] = {block[h]}]
    /\ pc' = [pc EXCEPT ![h] = After(c, "temp")]
    /\ UNCHANGED <<seqno_and_utime, avg, temp_state, next, block, exporterVars>>

AddToCounter(h, c) ==
    /\ pc[h] = c
    /\ counters' = [counters EXCEPT ![c] = @ \cup {block[h]}]
    /\ pc' = [pc EXCEPT ![h] = After(c, "temp")]
    /\ UNCHANGED <<seqno_and_utime, avg, temp_state, next, block, exporterVars>>

\* Both branches, Some and None, end with the block among the samples.
UpdateTempState(h) ==
    /\ pc[h] = "temp"
    /\ temp_state' = temp_state \cup {block[h]}
    /\ pc' = [pc EXCEPT ![h] = "idle"]
    /\ UNCHANGED <<seqno_and_utime, avg, counters, next, block, exporterVars>>

Update(h) ==
    \/ Begin(h) \/ StoreSeqno(h) \/ PushAverage(h) \/ UpdateTempState(h)
    \/ \E c \in Counters : AddToCounter(h, c)

-----------------------------------------------------------------------------
\* Mutants: the samples are copied, not taken; they wait for a dirty word.
LoadTempStateCopies ==
    /\ xpc = "gas"
    /\ gasExported' = gasExported \cup temp_state
    /\ xpc' = "seqno"
    /\ UNCHANGED <<entry, handlerVars, report, last, avgExported>>
LoadTempStateIfDirty ==
    /\ xpc = "gas"
    /\ IF IsDirty(seqno_and_utime)
         THEN gasExported' = gasExported \cup temp_state /\ temp_state' = {}
         ELSE UNCHANGED <<gasExported, temp_state>>
    /\ xpc' = "seqno"
    /\ UNCHANGED <<seqno_and_utime, avg, counters, handlerVars, report, last, avgExported>>

\* load_temp_state takes the samples; they are written if there are any.
LoadTempState ==
    /\ xpc = "gas"
    /\ gasExported' = gasExported \cup temp_state
    /\ temp_state' = {}
    /\ xpc' = "seqno"
    /\ UNCHANGED <<seqno_and_utime, avg, counters, handlerVars, report, last, avgExported>>

\* Mutants: the flag is read and left set; the average is reset before the flag
\* is looked at, and lost when the word is clean.
LoadSeqnoAndUtimeKeeps ==
    /\ xpc = "seqno"
    /\ IF IsDirty(seqno_and_utime)
         THEN /\ report' = NewReport(seqno_and_utime.seqno, Masked(seqno_and_utime).low)
              /\ xpc' = FirstCounter
         ELSE xpc' = "gas" /\ UNCHANGED report
    /\ UNCHANGED <<entry, handlerVars, last, gasExported, avgExported>>
LoadSeqnoAndUtimeResets ==
    /\ xpc = "seqno"
    /\ seqno_and_utime' = Masked(seqno_and_utime)
    /\ IF IsDirty(seqno_and_utime)
         THEN /\ report' = NewReport(seqno_and_utime.seqno, Masked(seqno_and_utime).low)
              /\ xpc' = FirstCounter
              /\ UNCHANGED avg
         ELSE xpc' = "gas" /\ avg' = {} /\ UNCHANGED report
    /\ UNCHANGED <<counters, temp_state, handlerVars, last, gasExported, avgExported>>

\* load_seqno_and_utime clears the flag in one fetch_and; a clean word ends
\* the work on this shard.
LoadSeqnoAndUtime ==
    /\ xpc = "seqno"
    /\ seqno_and_utime' = Masked(seqno_and_utime)
    /\ IF IsDirty(seqno_and_utime)
         THEN /\ report' = NewReport(seqno_and_utime.seqno, Masked(seqno_and_utime).low)
              /\ xpc' = FirstCounter
         ELSE /\ xpc' = "gas"
              /\ UNCHANGED report
    /\ UNCHANGED <<avg, counters, temp_state, handlerVars, last, gasExported, avgExported>>

LoadCounter(c) ==
    /\ xpc = c
    /\ report' = [report EXCEPT !.counters[c] = counters[c]]
    /\ xpc' = After(c, "avg")
    /\ UNCHANGED <<entry, handlerVars, last, gasExported, avgExported>>

\* Resetting an average nothing was pushed to writes 0.  This was the last
\* metric of the shard; the exporter comes back in the next collection.
ResetAverage ==
    /\ xpc = "avg"
    /\ avgExported' = avgExported \cup avg
    /\ avg' = {}
    /\ last' = report
    /\ report' = NoReport
    /\ xpc' = "gas"
    /\ UNCHANGED <<seqno_and_utime, counters, temp_state, handlerVars, gasExported>>

Export ==
    \/ LoadTempState \/ LoadSeqnoAndUtime \/ ResetAverage
    \/ \E c \in Counters : LoadCounter(c)

Next == Export \/ \E h \in Handlers : Update(h)

\* The exporter runs once per collection interval for as long as the process
\* lives, and a handler that has a block is a running thread; that another
\* block arrives is not assumed.
Fairness ==
    /\ WF_vars(Export)
    /\ \A h \in Handlers : WF_vars(pc[h] # "idle" /\ Update(h))

Spec == Init /\ [][Next]_vars

FairSpec == Spec /\ Fairness

-----------------------------------------------------------------------------
Idle(h) == pc[h] = "idle"

\* Blocks whose handler has not come past the given step of update.
Before(steps) == {block[h] : h \in {g \in Handlers : pc[g] \in steps}}
Started == 1..(next - 1)
Stored == Started \ Before({"store"})
Pushed == Started \ Before({"store", "push"})
Sampled == {n \in Started : \A h \in Handlers : block[h] = n => Idle(h)}

TypeOK ==
    /\ seqno_and_utime \in [seqno : Block, low : 0..(2 * DirtyFlag - 1)]
    /\ avg \subseteq Block
    /\ counters \in [Counters -> SUBSET Block]
    /\ temp_state \subseteq Block
    /\ next \in 2..(MaxBlock + 1)
    /\ pc \in [Handlers -> {"idle", "store", "push", "temp"} \cup Counters]
    /\ block \in [Handlers -> Block]
    /\ xpc \in {"gas", "seqno", "avg"} \cup Counters
    /\ {report, last} \subseteq
          [seqno : 0..MaxBlock, utime : 0..(DirtyFlag - 1), counters : [Counters -> SUBSET Block]]
    /\ gasExported \subseteq Block
    /\ avgExported \subseteq Block

\* Whatever the threads do, the gas sample of a block handled so far is in the
\* entry or was written, never both and never neither: the exporter neither
\* loses nor repeats a sample when it takes temp_state while blocks arrive
\* (metrics.rs:762, 795).
GasSamplesOnce ==
    /\ temp_state \cup gasExported = Sampled
    /\ temp_state \cap gasExported = {}

\* The same for the transaction counts behind frmon_sc_avgtrc, although the
\* reset is a different step than the one that clears the dirty flag
\* (metrics.rs:750, 392).
AverageSamplesOnce ==
    /\ avg \cup avgExported = Pushed
    /\ avg \cap avgExported = {}

\* A report pairs a seqno with the generation time of that very block: the two
\* are never torn, and the flag is not part of the time (metrics.rs:724, 804).
SeqnoWithItsUtime ==
    \A r \in {report, last} : r.seqno # 0 => r.utime = GenUtime(r.seqno)

\* The totals written next to a seqno count every earlier block of the shard;
\* only the block of that seqno itself may be missing, because update stores
\* the seqno before it adds to the totals (metrics.rs:746-759, 365-388).
TotalsCoverEarlierBlocks ==
    Serial => \A c \in Counters : 1..(last.seqno - 1) \subseteq last.counters[c]

\* When the flag is clear and the exporter is between two shards, the newest
\* seqno has been written, and the average holds nothing back but perhaps the
\* sample of that newest block.
CleanMeansExported ==
    Serial /\ xpc = "gas" /\ ~IsDirty(seqno_and_utime) =>
        /\ last.seqno = seqno_and_utime.seqno
        /\ avg \subseteq {last.seqno}

\* One report after another moves forward: a seqno is written once, and no
\* total ever shrinks between two reports.
ReportsAdvance ==
    [][Serial /\ last' # last =>
         /\ last'.seqno > last.seqno
         /\ \A c \in Counters : last.counters[c] \subseteq last'.counters[c]]_vars

\* Every block of a shard that stays is seen by the collector: its seqno or a
\* later one is written, even if no block follows it.
SeqnoEventuallyExported ==
    \A n \in Block : Serial /\ n \in Started ~> last.seqno >= n

\* Its gas sample is written too, whether or not the flag is still set.
GasEventuallyExported ==
    \A n \in Block : n \in Started ~> n \in gasExported
=============================================================================
