---------------------------- MODULE SubscriberProofs ----------------------------
(***************************************************************************)
(* What the subscriber publishes, what a report shows of it, and how it    *)
(* goes together with the resolver in the process as a whole, for chains   *)
(* of any length, any pattern of key blocks and payments to the elector,   *)
(* any failures and any restarts.                                          *)
(***************************************************************************)
EXTENDS Report, Pipeline, FiniteSetTheorems, TLAPS

\* The newest block whose elections, and whose config, the handler is done with.
ElectionsDone == IF pc \in {"config", "validators", "send", "overlays"} THEN next ELSE next - 1
ConfigDone == IF pc \in {"validators", "send", "overlays"} THEN next ELSE next - 1

\* A process that is down keeps nothing.
DownIsEmpty ==
    pc = "down" =>
        /\ first_mc_block /\ stale = {} /\ overlays = NoOverlays
        /\ last_config = 0 /\ key_block_seqno = 0 /\ config_from = 0

\* The first block uses first_mc_block up when its elections are done, and has
\* no validators before it.
FirstBlockOnce ==
    /\ pc \in {"config", "validators", "send", "overlays"} => ~first_mc_block
    /\ pc = "config" /\ is_first_mc_block => validators = 0

ElectionsKept ==
    ~first_mc_block /\ "elections" \notin stale =>
        \A n \in 1..ElectionsDone : chain[n].key \/ chain[n].elector => elections >= n

\* Where the validators need not be published any more, or not for this block,
\* they are those of the config in force.
ValidatorsKept ==
    /\ \/ pc \in {"idle", "elections"} /\ ~first_mc_block
       \/ pc = "config" /\ ~is_first_mc_block
       \/ pc = "validators" /\ ~ValidatorsDue
       \/ pc \in {"send", "overlays"}
    /\ "validators" \notin stale
    => validators = last_config

\* The config in force is that of the newest key block of this process.
ConfigKept ==
    pc # "down" /\ "config" \notin stale =>
        \A k \in KeyBlocks(since, ConfigDone) :
            KeyBlocks(k + 1, ConfigDone) = {} => last_config = k

\* Only a block of the past, with its config not read, tears the two numbers of
\* the config metrics apart.
MetricsTogether ==
    /\ config_from <= key_block_seqno
    /\ config_from # key_block_seqno => key_block_seqno < next /\ "config" \in stale

\* Nothing published is ahead of the key block shown.
NothingAhead ==
    /\ overlays.block < next
    /\ last_config <= key_block_seqno
    /\ overlays.config <= key_block_seqno /\ validators <= key_block_seqno

IInv ==
    /\ TypeOK /\ DownIsEmpty /\ FirstBlockOnce
    /\ ElectionsKept /\ ValidatorsKept /\ ConfigKept /\ OverlaysFollowConfig
    /\ MetricsTogether /\ NothingAhead

-----------------------------------------------------------------------------
\* No overlays are overlays of no block.
LEMMA NoOverlaysType == NoOverlays \in [block : BlockOrNone, config : BlockOrNone] /\ 0 \in BlockOrNone
  BY SubscriberAssumption DEF NoOverlays, BlockOrNone

\* A new process starts with nothing published.
LEMMA InitIInv == Init => IInv
  <1> SUFFICES ASSUME Init PROVE IInv
    OBVIOUS
  <1>1. TypeOK
    <2>1. first_mc_block \in BOOLEAN /\ is_first_mc_block \in BOOLEAN /\ elector_account \in BOOLEAN
      BY DEF Init
    <2>2. next \in 1..(MaxBlock + 1) /\ since \in 1..(MaxBlock + 1)
      BY SubscriberAssumption DEF Init
    <2> QED
      BY <2>1, <2>2, NoOverlaysType DEF Init, TypeOK
  <1>2. DownIsEmpty /\ FirstBlockOnce /\ ElectionsKept /\ ValidatorsKept /\ ConfigKept
    BY DEF Init, DownIsEmpty, FirstBlockOnce, ElectionsKept, ValidatorsKept, ConfigKept
  <1>3. OverlaysFollowConfig /\ MetricsTogether /\ NothingAhead
    BY DEF Init, OverlaysFollowConfig, MetricsTogether, NothingAhead, NoOverlays
  <1> QED
    BY <1>1, <1>2, <1>3 DEF IInv

\* Every step keeps every variable in its range.
LEMMA StepTypeOK == IInv /\ [Next]_vars => TypeOK'
  <1> SUFFICES ASSUME IInv, [Next]_vars PROVE TypeOK'
    OBVIOUS
  <1> USE SubscriberAssumption
      DEF IInv, TypeOK, FirstBlockOnce, BlockOrNone, Block, config_metrics, locals,
          Goto, Return, Missed
  <1>1. CASE Crash
    <2>1. /\ chain' = chain /\ next' = next /\ since' = 1 /\ pc' = "down" /\ stale' = {}
          /\ validators' = 0 /\ elections' = 0 /\ validators_to_resolve' = 0
      BY <1>1 DEF Crash
    <2>2. overlays' \in [block : BlockOrNone, config : BlockOrNone]
      BY <1>1, NoOverlaysType DEF Crash
    <2>3. first_mc_block' \in BOOLEAN /\ is_first_mc_block' \in BOOLEAN /\ elector_account' \in BOOLEAN
      BY <1>1 DEF Crash
    <2>4. last_config' = 0 /\ key_block_seqno' = 0 /\ config_from' = 0 /\ overlays' = NoOverlays
      BY <1>1 DEF Crash
    <2> QED
      BY <2>1, <2>2, <2>3, <2>4, NoOverlaysType
  <1>2. ASSUME NEW k \in BlockOrNone, Start(k) PROVE TypeOK'
    BY <1>2 DEF Start, UpdateConfigMetrics
  <1>3. CASE Begin
    BY <1>3 DEF Begin
  <1>4. CASE UpdateElections
    BY <1>4 DEF UpdateElections, UpdateElectionsState, ElectionsDue, update_elector_state
  <1>5. CASE FailElections
    BY <1>5 DEF FailElections, update_elector_state
  <1>6. CASE UpdateLastConfig
    BY <1>6 DEF UpdateLastConfig, UpdateConfigMetrics
  <1>7. CASE FailConfig
    BY <1>7 DEF FailConfig
  <1>8. CASE LoadConfig
    BY <1>8 DEF LoadConfig
  <1>9. CASE PublishValidators
    BY <1>9 DEF PublishValidators
  <1>10. CASE SkipValidators
    BY <1>10 DEF SkipValidators
  <1>14. CASE FailValidators
    BY <1>14 DEF FailValidators
  <1>11. CASE SendValidators
    BY <1>11 DEF SendValidators
  <1>12. CASE UpdateOverlays
    BY <1>12 DEF UpdateOverlays
  <1>15. CASE FailOverlays
    BY <1>15 DEF FailOverlays
  <1>13. CASE UNCHANGED vars
    BY <1>13 DEF vars
  <1> QED
    BY <1>1, <1>2, <1>3, <1>4, <1>5, <1>6, <1>7, <1>8, <1>9, <1>10, <1>11, <1>12, <1>13,
     <1>14, <1>15
       DEF Next, UpdateMetrics

\* A crash takes everything, and first_mc_block is used once.
LEMMA StepFirst == IInv /\ [Next]_vars => DownIsEmpty' /\ FirstBlockOnce'
  <1> SUFFICES ASSUME IInv, [Next]_vars PROVE DownIsEmpty' /\ FirstBlockOnce'
    OBVIOUS
  <1> USE DEF IInv, TypeOK, DownIsEmpty, FirstBlockOnce, config_metrics, locals, Goto, Return
  <1>1. CASE Crash
    BY <1>1 DEF Crash
  <1>2. ASSUME NEW k \in BlockOrNone, Start(k) PROVE DownIsEmpty' /\ FirstBlockOnce'
    BY <1>2 DEF Start
  <1>3. CASE Begin \/ FailElections
    BY <1>3 DEF Begin, FailElections
  <1>4. CASE UpdateElections
    BY <1>4 DEF UpdateElections, ElectionsDue
  <1>5. CASE UpdateLastConfig \/ FailConfig \/ LoadConfig
    BY <1>5 DEF UpdateLastConfig, FailConfig, LoadConfig
  <1>6. CASE PublishValidators \/ SkipValidators \/ FailValidators \/ SendValidators
    BY <1>6 DEF PublishValidators, SkipValidators, FailValidators, SendValidators
  <1>7. CASE UpdateOverlays \/ FailOverlays
    BY <1>7 DEF UpdateOverlays, FailOverlays
  <1>8. CASE UNCHANGED vars
    BY <1>8 DEF vars
  <1> QED
    BY <1>1, <1>2, <1>3, <1>4, <1>5, <1>6, <1>7, <1>8 DEF Next, UpdateMetrics

-----------------------------------------------------------------------------
\* The elections shown cover every block handled, or are marked stale.
LEMMA StepElections == IInv /\ [Next]_vars => ElectionsKept'
  <1> SUFFICES ASSUME IInv, [Next]_vars PROVE ElectionsKept'
    OBVIOUS
  <1>0. /\ next \in Int /\ elections \in Int
        /\ pc \notin {"down", "idle"} => next \in Block
    BY SubscriberAssumption DEF IInv, TypeOK, BlockOrNone
  <1> USE <1>0 DEF IInv, DownIsEmpty, FirstBlockOnce, ElectionsKept, ElectionsDone, config_metrics,
                   locals, Goto, Return, Missed
  <1>1. CASE Crash
    BY <1>1 DEF Crash
  <1>2. ASSUME NEW k \in BlockOrNone, Start(k) PROVE ElectionsKept'
    BY <1>2 DEF Start
  <1>3. CASE Begin
    BY <1>3 DEF Begin
  <1>4. CASE UpdateElections
    <2>1. CASE ElectionsDue /\ elections' = next
      BY <1>4, <2>1 DEF UpdateElections
    <2>2. CASE ElectionsDue /\ elections' # next
      <3>1. "elections" \in stale'
        BY <1>4, <2>2 DEF UpdateElections, UpdateElectionsState
      <3> QED
        BY <3>1
    <2>3. CASE ~ElectionsDue
      <3>1. /\ elections' = elections /\ stale' = stale
            /\ chain' = chain /\ next' = next /\ pc = "elections" /\ pc' = "config"
            /\ ~first_mc_block /\ ~(chain[next].key \/ chain[next].elector)
        BY <1>4, <2>3 DEF UpdateElections, ElectionsDue, update_elector_state
      <3> QED
        BY <3>1
    <2> QED
      BY <2>1, <2>2, <2>3
  <1>5. CASE FailElections
    BY <1>5 DEF FailElections, update_elector_state
  <1>6. CASE UpdateLastConfig \/ FailConfig \/ LoadConfig
    BY <1>6 DEF UpdateLastConfig, FailConfig, LoadConfig
  <1>7. CASE PublishValidators \/ SkipValidators \/ FailValidators \/ SendValidators
    BY <1>7 DEF PublishValidators, SkipValidators, FailValidators, SendValidators
  <1>8. CASE UpdateOverlays \/ FailOverlays
    BY <1>8 DEF UpdateOverlays, FailOverlays
  <1>9. CASE UNCHANGED vars
    BY <1>9 DEF vars
  <1> QED
    BY <1>1, <1>2, <1>3, <1>4, <1>5, <1>6, <1>7, <1>8, <1>9 DEF Next, UpdateMetrics

\* The validators shown are those of the config, wherever they are not due.
LEMMA StepValidators == IInv /\ [Next]_vars => ValidatorsKept'
  <1> SUFFICES ASSUME IInv, [Next]_vars PROVE ValidatorsKept'
    OBVIOUS
  <1> USE DEF IInv, TypeOK, DownIsEmpty, FirstBlockOnce, ValidatorsKept, ValidatorsDue, config_metrics,
              locals, Goto, Return, Missed
  <1>1. CASE Crash
    BY <1>1 DEF Crash
  <1>2. ASSUME NEW k \in BlockOrNone, Start(k) PROVE ValidatorsKept'
    BY <1>2 DEF Start
  <1>3. CASE Begin \/ FailElections
    BY <1>3 DEF Begin, FailElections
  <1>4. CASE UpdateElections
    BY <1>4 DEF UpdateElections
  <1>5. CASE UpdateLastConfig
    BY <1>5 DEF UpdateLastConfig
  <1>6. CASE FailConfig \/ LoadConfig
    BY <1>6 DEF FailConfig, LoadConfig
  <1>7. CASE PublishValidators \/ SkipValidators \/ FailValidators \/ SendValidators
    BY <1>7 DEF PublishValidators, SkipValidators, FailValidators, SendValidators
  <1>8. CASE UpdateOverlays \/ FailOverlays
    BY <1>8 DEF UpdateOverlays, FailOverlays
  <1>9. CASE UNCHANGED vars
    BY <1>9 DEF vars
  <1> QED
    BY <1>1, <1>2, <1>3, <1>4, <1>5, <1>6, <1>7, <1>8, <1>9 DEF Next, UpdateMetrics

-----------------------------------------------------------------------------
\* What the key blocks up to a block are does not change.
LEMMA SameKeyBlocks ==
    ASSUME chain' = chain
    PROVE  \A from, to : KeyBlocks(from, to)' = KeyBlocks(from, to)
  BY DEF KeyBlocks, Block

\* A key block that was handled is the newest one, another block changes nothing.
LEMMA NextKeyBlock ==
    ASSUME next \in Block, since \in Int
    PROVE  /\ chain[next].key => \A k \in KeyBlocks(since, next) :
                KeyBlocks(k + 1, next) = {} => k = next
           /\ ~chain[next].key => \A k \in Int : KeyBlocks(k, next) = KeyBlocks(k, next - 1)
  <1> USE SubscriberAssumption DEF KeyBlocks, Block
  <1>1. CASE chain[next].key
    <2> SUFFICES ASSUME NEW k \in KeyBlocks(since, next), k # next PROVE KeyBlocks(k + 1, next) # {}
      BY <1>1
    <2>1. next \in KeyBlocks(k + 1, next)
      BY <1>1
    <2> QED
      BY <2>1
  <1>2. CASE ~chain[next].key
    BY <1>2
  <1> QED
    BY <1>1, <1>2

\* The config in force is that of the newest key block, or marked stale.
LEMMA StepConfig == IInv /\ [Next]_vars => ConfigKept'
  <1> SUFFICES ASSUME IInv, [Next]_vars PROVE ConfigKept'
    OBVIOUS
  <1>0. /\ next \in Int /\ since \in Int
        /\ pc \notin {"down", "idle"} => next \in Block
    BY SubscriberAssumption DEF IInv, TypeOK
  <1>10. ASSUME ConfigDone' = ConfigDone, UNCHANGED <<chain, since, last_config>>,
                pc # "down", "config" \notin stale' => "config" \notin stale
         PROVE  ConfigKept'
    BY <1>10, SameKeyBlocks DEF IInv, ConfigKept
  <1> USE <1>0 DEF ConfigDone, config_metrics, locals, Goto, Return, Missed
  <1>1. CASE Crash
    BY <1>1 DEF Crash, ConfigKept
  <1>2. ASSUME NEW k \in BlockOrNone, Start(k) PROVE ConfigKept'
    <2>1. ConfigDone' = next - 1 /\ since' = next
      BY <1>2 DEF Start
    <2>2. KeyBlocks(since, ConfigDone)' = {}
      BY <2>1 DEF KeyBlocks, Block
    <2> QED
      BY <2>2 DEF ConfigKept
  <1>3. CASE Begin
    BY <1>3, <1>10 DEF Begin
  <1>4. CASE UpdateElections
    BY <1>4, <1>10 DEF UpdateElections
  <1>5. CASE FailElections
    <2>1. CASE chain[next].key
      BY <1>5, <2>1 DEF FailElections, ConfigKept
    <2>2. CASE ~chain[next].key
      <3>1. /\ \A k \in Int : KeyBlocks(k, next) = KeyBlocks(k, next - 1)
            /\ ConfigDone = next - 1 /\ ConfigDone' = next /\ UNCHANGED <<chain, since, last_config>>
            /\ pc # "down" /\ ("config" \notin stale' => "config" \notin stale)
        BY <1>5, <2>2, NextKeyBlock DEF FailElections
      <3> QED
        BY <3>1, SameKeyBlocks DEF IInv, ConfigKept, KeyBlocks, Block
    <2> QED
      BY <2>1, <2>2
  <1>6. CASE UpdateLastConfig
    <2>1. /\ chain[next].key /\ next \in Block /\ last_config' = next /\ chain' = chain
          /\ since' = since /\ ConfigDone' = next
      BY <1>6 DEF UpdateLastConfig
    <2> QED
      BY <2>1, NextKeyBlock, SameKeyBlocks DEF ConfigKept
  <1>7. CASE FailConfig
    BY <1>7 DEF FailConfig, ConfigKept
  <1>8. CASE LoadConfig
    <2>1. /\ \A k \in Int : KeyBlocks(k, next) = KeyBlocks(k, next - 1)
          /\ ConfigDone = next - 1 /\ ConfigDone' = next /\ UNCHANGED <<chain, since, last_config>>
          /\ pc # "down" /\ stale' = stale
      BY <1>8, NextKeyBlock DEF LoadConfig
    <2> QED
      BY <2>1, SameKeyBlocks DEF IInv, ConfigKept, KeyBlocks, Block
  <1>9. CASE PublishValidators \/ SkipValidators \/ FailValidators \/ SendValidators
    BY <1>9, <1>10 DEF PublishValidators, SkipValidators, FailValidators, SendValidators
  <1>11. CASE UpdateOverlays \/ FailOverlays
    BY <1>11, <1>10 DEF UpdateOverlays, FailOverlays
  <1>12. CASE UNCHANGED vars
    <2>1. CASE pc = "down"
      BY <1>12, <2>1 DEF vars, ConfigKept
    <2>2. CASE pc # "down"
      BY <1>12, <2>2, <1>10 DEF vars
    <2> QED
      BY <2>1, <2>2
  <1> QED
    BY <1>1, <1>2, <1>3, <1>4, <1>5, <1>6, <1>7, <1>8, <1>9, <1>11, <1>12 DEF Next, UpdateMetrics

\* The overlays follow the config: either they are of an older block, or the
\* config did not change since they were computed.
LEMMA StepOverlays == IInv /\ [Next]_vars => OverlaysFollowConfig'
  <1> SUFFICES ASSUME IInv, [Next]_vars, pc' = "idle", overlays'.block = next' - 1, "config" \notin stale'
               PROVE  \A k \in KeyBlocks(since, overlays.block)' :
                          KeyBlocks(k + 1, overlays.block)' = {} => overlays'.config = k
    BY DEF OverlaysFollowConfig
  <1>0. next \in Int /\ since \in Int /\ overlays.block \in Int
    BY SubscriberAssumption DEF IInv, TypeOK, BlockOrNone
  <1> USE DEF config_metrics, locals, Goto, Return
  <1>1. CASE UpdateOverlays
    <2>1. /\ overlays'.block = next /\ overlays'.config = last_config /\ pc = "overlays" /\ pc # "down"
          /\ UNCHANGED <<chain, since, last_config, stale>> /\ ConfigDone = next
      BY <1>1 DEF UpdateOverlays, ConfigDone
    <2> QED
      BY <2>1, SameKeyBlocks DEF IInv, ConfigKept
  <1>2. ASSUME NEW k \in BlockOrNone, Start(k) PROVE KeyBlocks(since, overlays.block)' = {}
    <2>1. since' = next /\ overlays' = overlays /\ next' = next
      BY <1>2 DEF Start
    <2> QED
      BY <1>0, <2>1 DEF KeyBlocks, Block
  <1>3. CASE FailElections \/ FailConfig \/ LoadConfig \/ FailValidators \/ FailOverlays
    <2>1. overlays' = overlays /\ next' = next + 1
      BY <1>3 DEF FailElections, FailConfig, LoadConfig, FailValidators, FailOverlays
    <2> QED
      BY <1>0, <2>1 DEF IInv, NothingAhead
  <1>4. CASE UNCHANGED vars
    BY <1>4, SameKeyBlocks DEF vars, IInv, OverlaysFollowConfig
  <1>5. CASE Begin \/ UpdateElections \/ UpdateLastConfig \/ PublishValidators \/ SkipValidators \/ SendValidators \/ Crash
    BY <1>5 DEF Begin, UpdateElections, UpdateLastConfig, PublishValidators, SkipValidators, SendValidators, Crash
  <1> QED
    BY <1>1, <1>2, <1>3, <1>4, <1>5 DEF Next, UpdateMetrics

-----------------------------------------------------------------------------
\* The two numbers of the config metrics part only when a config cannot be
\* read, for blocks that are past, and they never go back.
LEMMA StepMetrics ==
    IInv /\ [Next]_vars =>
        /\ MetricsTogether'
        /\ pc # "down" /\ pc' # "down" => key_block_seqno' >= key_block_seqno /\ config_from' >= config_from
  <1> DEFINE Advance == pc # "down" /\ pc' # "down" =>
                            key_block_seqno' >= key_block_seqno /\ config_from' >= config_from
  <1> SUFFICES ASSUME IInv, [Next]_vars PROVE MetricsTogether' /\ Advance
    OBVIOUS
  <1>0. /\ next \in Int /\ key_block_seqno \in Int /\ config_from \in Int
        /\ MetricsTogether /\ DownIsEmpty
    BY SubscriberAssumption DEF IInv, TypeOK, BlockOrNone
  <1> USE <1>0 DEF MetricsTogether, config_metrics, locals, Goto, Return, Missed
  <1>1. CASE Crash
    BY <1>1 DEF Crash
  <1>2. ASSUME NEW k \in BlockOrNone, Start(k) PROVE MetricsTogether' /\ Advance
    BY <1>2, SubscriberAssumption DEF Start, UpdateConfigMetrics, DownIsEmpty, BlockOrNone
  <1>3. CASE Begin \/ FailElections
    BY <1>3 DEF Begin, FailElections
  <1>4. CASE UpdateElections
    BY <1>4 DEF UpdateElections
  <1>5. CASE UpdateLastConfig
    BY <1>5 DEF UpdateLastConfig, UpdateConfigMetrics
  <1>6. CASE FailConfig \/ LoadConfig
    BY <1>6 DEF FailConfig, LoadConfig
  <1>7. CASE PublishValidators \/ SkipValidators \/ FailValidators \/ SendValidators
    BY <1>7 DEF PublishValidators, SkipValidators, FailValidators, SendValidators
  <1>8. CASE UpdateOverlays \/ FailOverlays
    BY <1>8 DEF UpdateOverlays, FailOverlays
  <1>9. CASE UNCHANGED vars
    BY <1>9 DEF vars
  <1> QED
    BY <1>1, <1>2, <1>3, <1>4, <1>5, <1>6, <1>7, <1>8, <1>9 DEF Next, UpdateMetrics

\* Whatever is published is of a block handled and a config shown.
LEMMA StepNothingAhead == IInv /\ [Next]_vars => NothingAhead'
  <1> SUFFICES ASSUME IInv, [Next]_vars PROVE NothingAhead'
    OBVIOUS
  <1>0. /\ next \in Int /\ next > 0 /\ {key_block_seqno, last_config, validators} \subseteq Int
        /\ overlays.block \in Int /\ overlays.config \in Int
        /\ NothingAhead /\ DownIsEmpty
    BY SubscriberAssumption DEF IInv, TypeOK, BlockOrNone
  <1> USE <1>0 DEF NothingAhead, config_metrics, locals, Goto, Return
  <1>1. CASE Crash
    BY <1>1 DEF Crash, NoOverlays
  <1>2. ASSUME NEW k \in BlockOrNone, Start(k) PROVE NothingAhead'
    BY <1>2, SubscriberAssumption DEF Start, UpdateConfigMetrics, DownIsEmpty, BlockOrNone
  <1>3. CASE Begin \/ FailElections
    BY <1>3 DEF Begin, FailElections
  <1>4. CASE UpdateElections
    BY <1>4 DEF UpdateElections
  <1>5. CASE UpdateLastConfig
    BY <1>5 DEF UpdateLastConfig, UpdateConfigMetrics
  <1>6. CASE FailConfig \/ LoadConfig
    BY <1>6 DEF FailConfig, LoadConfig
  <1>7. CASE PublishValidators \/ SkipValidators \/ FailValidators \/ SendValidators
    BY <1>7 DEF PublishValidators, SkipValidators, FailValidators, SendValidators
  <1>8. CASE UpdateOverlays \/ FailOverlays
    BY <1>8 DEF UpdateOverlays, FailOverlays
  <1>9. CASE UNCHANGED vars
    BY <1>9 DEF vars
  <1> QED
    BY <1>1, <1>2, <1>3, <1>4, <1>5, <1>6, <1>7, <1>8, <1>9 DEF Next, UpdateMetrics

\* The invariant is inductive.
LEMMA StepIInv == IInv /\ [Next]_vars => IInv'
  BY StepTypeOK, StepFirst, StepElections, StepValidators, StepConfig, StepOverlays, StepMetrics,
     StepNothingAhead DEF IInv

LEMMA Invariant == Spec => []IInv
  BY InitIInv, StepIInv, PTL DEF Spec

\* What is published is in range, and nothing but the first block's handler
\* clears first_mc_block (ton_subscriber.rs:36-59, 262-270).
THEOREM TypeCorrect == Spec => []TypeOK
  BY Invariant, PTL DEF IInv

\* Between two blocks the elections cover every block that changed the elector
\* unless reading one failed (ton_subscriber.rs:262-270).
THEOREM ElectionsCurrent == Spec => []ElectionsUpToDate
  <1>1. IInv => ElectionsUpToDate
    BY DEF IInv, ElectionsKept, ElectionsDone, ElectionsUpToDate
  <1> QED
    BY <1>1, Invariant, PTL

\* Between two blocks the validators are those of the config in force unless
\* publishing them failed (ton_subscriber.rs:272-323).
THEOREM ValidatorsCurrent == Spec => []ValidatorsUpToDate
  <1>1. IInv => ValidatorsUpToDate
    BY DEF IInv, ValidatorsKept, ValidatorsUpToDate
  <1> QED
    BY <1>1, Invariant, PTL

\* The overlays are computed with the config of the newest key block that this
\* process has handled, unless it could not be read (ton_subscriber.rs:272-368).
THEOREM OverlaysCurrent == Spec => []OverlaysFollowConfig
  BY Invariant, PTL DEF IInv

\* The config metrics never go back while the process lives, and show values of
\* the block they name unless a config could not be read (metrics.rs:282-284).
THEOREM MetricsAdvance == Spec => ConfigMetricsAdvance
  <1>1. IInv /\ [Next]_vars => [pc # "down" /\ pc' # "down" =>
            key_block_seqno' >= key_block_seqno /\ config_from' >= config_from]_vars
    BY StepMetrics
  <1>2. IInv => ("config" \notin stale => config_from = key_block_seqno)
    BY DEF IInv, MetricsTogether
  <1> QED
    BY <1>1, <1>2, Invariant, PTL DEF Spec, ConfigMetricsAdvance

-----------------------------------------------------------------------------
\* What the report in hand has read is not ahead of the key block shown, and the
\* report is whole when the key block has been read.
ReadNotAhead ==
    /\ reading \in {"overlays", "validators", "config"}
    /\ {report.overlays, report.validators, report.config} \subseteq Int
    /\ reading \in {"validators", "config"} => report.overlays <= key_block_seqno
    /\ reading = "config" => report.validators <= key_block_seqno
    /\ ReportNotAhead

\* The exporter reads in the reverse of the order in which the subscriber writes.
LEMMA StepReport == IInv /\ ReadNotAhead /\ [ReportNext]_<<vars, reportVars>> => ReadNotAhead'
  <1> SUFFICES ASSUME IInv, ReadNotAhead, [ReportNext]_<<vars, reportVars>> PROVE ReadNotAhead'
    OBVIOUS
  <1>0. /\ {key_block_seqno, validators, overlays.config} \subseteq Int
        /\ overlays.config <= key_block_seqno /\ validators <= key_block_seqno
    BY SubscriberAssumption DEF IInv, TypeOK, BlockOrNone, NothingAhead
  <1> USE <1>0 DEF ReadNotAhead, ReportNotAhead
  <1>1. CASE ReadOverlays
    BY <1>1 DEF ReadOverlays, EmptyReport, vars, config_metrics
  <1>2. CASE ReadValidators
    BY <1>2 DEF ReadValidators, vars, config_metrics
  <1>3. CASE ReadConfig
    BY <1>3 DEF ReadConfig, vars, config_metrics
  <1>4. CASE CrashWithReport
    BY <1>4 DEF CrashWithReport, EmptyReport
  <1>5. CASE Subscribe
    <2>1. report' = report /\ reading' = reading /\ [Next]_vars
      BY <1>5 DEF Subscribe, reportVars, Next
    <2>2. key_block_seqno' \in Nat
      BY <2>1, StepTypeOK, SubscriberAssumption DEF TypeOK, BlockOrNone
    <2>3. key_block_seqno' >= key_block_seqno
      <3>1. CASE pc = "down"
        BY <2>2, <3>1 DEF IInv, DownIsEmpty
      <3>2. CASE pc # "down"
        <4>1. ASSUME NEW k \in BlockOrNone PROVE ~Start(k)
          BY <3>2 DEF Start
        <4>2. UpdateMetrics => pc' # "down"
          BY DEF UpdateMetrics, Begin, UpdateElections, FailElections, UpdateLastConfig, FailConfig,
                 LoadConfig, PublishValidators, SkipValidators, FailValidators, SendValidators,
                 UpdateOverlays, FailOverlays, Goto, Return
        <4> QED
          BY <1>5, <2>1, <3>2, <4>1, <4>2, StepMetrics DEF Subscribe
      <3> QED
        BY <3>1, <3>2
    <2> QED
      BY <2>1, <2>2, <2>3
  <1>6. CASE UNCHANGED <<vars, reportVars>>
    BY <1>6 DEF vars, reportVars, config_metrics
  <1> QED
    BY <1>1, <1>2, <1>3, <1>4, <1>5, <1>6 DEF ReportNext, Collect

\* A report shows no overlays or validators of a config newer than the key block
\* it shows, whatever happens between its reads (metrics.rs:415, 466, 572).
THEOREM NothingAheadShown == ReportSpec => []ReportNotAhead
  <1>1. ReportInit => IInv /\ ReadNotAhead
    BY InitIInv DEF ReportInit, EmptyReport, ReadNotAhead, ReportNotAhead, Init
  <1>2. IInv /\ [ReportNext]_<<vars, reportVars>> => IInv'
    <2>1. [ReportNext]_<<vars, reportVars>> => [Next]_vars
      BY DEF ReportNext, Subscribe, CrashWithReport, Collect, ReadOverlays, ReadValidators, ReadConfig, Next
    <2> QED
      BY <2>1, StepIInv
  <1>3. ReadNotAhead => ReportNotAhead
    BY DEF ReadNotAhead
  <1> QED
    BY <1>1, <1>2, <1>3, StepReport, PTL DEF ReportSpec

-----------------------------------------------------------------------------
(* The process as a whole.                                                 *)

\* The resolver, with what is proved of it.
ResP == INSTANCE ResolverProofs WITH
    Validators <- BlockOrNone, value <- SetOf(validators_to_resolve), pc <- task

\* The subscriber runs after the node and the reference to it were made, and
\* until execute has returned.
StagesInOrder ==
    /\ stage \in Proc!Steps \cup {"ending", "ended"}
    /\ pc # "down" => stage \in {"node", "running", "ending"}
    /\ stage \in {"set_ref", "compaction", "subscriber", "node", "running"} => node
    /\ stage \in {"compaction", "subscriber", "node", "running"} => engine_ref

\* The resolver's task and the subscriber come and go together.
TogetherUp ==
    /\ task = "down" <=> pc = "down"
    /\ pc = "down" => /\ validators_to_resolve = 0
                      /\ ~fresh /\ ~closed
                      /\ validator_ips = {} /\ validator_set = SetOf(0)
                      /\ remaining = {} /\ futures = {} /\ permits = {}

\* The channel holds the validators shown, but for the moment before they are
\* sent, and the resolver works on what the channel holds unless it was told.
SetPassedOn ==
    /\ pc # "send" => validators_to_resolve = validators
    /\ task \notin {"down", "borrow"} /\ ~fresh => validator_set = SetOf(validators_to_resolve)

PipelineInv ==
    /\ IInv /\ StagesInOrder /\ TogetherUp /\ SetPassedOn
    /\ task # "down" => ResP!IInv

-----------------------------------------------------------------------------
\* The blocks are finitely many, as the resolver's proofs ask of its validators.
LEMMA BlocksFinite == ResP!IsFiniteSet(BlockOrNone)
  <1>1. IsFiniteSet(BlockOrNone)
    BY FS_Interval, SubscriberAssumption DEF BlockOrNone
  <1> QED
    BY <1>1 DEF IsFiniteSet, ResP!IsFiniteSet

\* There is one notion of the number of permits.
LEMMA SameCardinality == ASSUME NEW S PROVE Res!Cardinality(S) = ResP!Cardinality(S)
  BY DEF Res!Cardinality, ResP!Cardinality

\* The sets that the subscriber sends are validator sets.
LEMMA SetsSent ==
    ASSUME NEW k \in BlockOrNone
    PROVE  SetOf(k) \in ResP!ValidatorSet /\ SetOf(0) = ResP!DefaultSet
  BY SubscriberAssumption DEF SetOf, ResP!ValidatorSet, ResP!DefaultSet, BlockOrNone

\* Steps of the process leave the subscriber and the resolver alone, or end both.
LEMMA ProcessParts ==
    ASSUME PipelineNext
    PROVE  \/ OfProcess(Proc!Step)
           \/ (Proc!DropRuntime \/ Proc!Kill) /\ Lost
           \/ \E k \in BlockOrNone : StartBoth(k)
           \/ Handle \/ SendSet
           \/ OfResolver(ResP!Advance \/ ResP!Changed
                           \/ \E v \in BlockOrNone : ResP!Acquire(v) \/ ResP!Answer(v))
  <1>2. ASSUME DropRuntime \/ Kill PROVE (Proc!DropRuntime \/ Proc!Kill) /\ Lost
    BY <1>2 DEF DropRuntime, Kill
  <1>3. ASSUME Loop PROVE OfResolver(ResP!Advance)
    BY <1>3 DEF Loop, OfResolver, Res!Advance, Res!Borrow, Res!Clear, Res!StartRound, Res!EndRound,
                Res!channel, Res!lookups, Res!Chan!BorrowAndUpdate,
                ResP!Advance, ResP!Borrow, ResP!Clear, ResP!StartRound, ResP!EndRound,
                ResP!channel, ResP!lookups, ResP!Chan!BorrowAndUpdate
  <1>4. ASSUME Changed PROVE OfResolver(ResP!Changed)
    BY <1>4 DEF Changed, OfResolver, Res!Changed, Res!Chan!ChangedOk, Res!Chan!BorrowAndUpdate,
                ResP!Changed, ResP!Chan!ChangedOk, ResP!Chan!BorrowAndUpdate
  <1>5. ASSUME Acquire PROVE \E v \in BlockOrNone : OfResolver(ResP!Acquire(v))
    BY <1>5, SameCardinality DEF Acquire, OfResolver, Res!Acquire, Res!channel, ResP!Acquire, ResP!channel
  <1>6. ASSUME NEW v \in BlockOrNone, Found(v) \/ NotFound(v) PROVE OfResolver(ResP!Answer(v))
    BY <1>6 DEF Found, NotFound, OfResolver, Res!Found, Res!NotFound, Res!Complete, Res!channel,
                ResP!Answer, ResP!Found, ResP!NotFound, ResP!Complete, ResP!channel
  <1> QED
    BY <1>2, <1>3, <1>4, <1>5, <1>6 DEF PipelineNext, OfResolver

\* What the other parts do does not change the variables of the subscriber but by
\* its own steps: the process implements it.
LEMMA SubscriberStep == [PipelineNext]_all => [Next]_vars
  <1> SUFFICES ASSUME [PipelineNext]_all PROVE [Next]_vars
    OBVIOUS
  <1>1. ASSUME NEW A, OfProcess(A) \/ OfResolver(A) PROVE UNCHANGED vars
    BY <1>1 DEF OfProcess, OfResolver
  <1>2. ASSUME Lost PROVE [Next]_vars
    BY <1>2 DEF Lost, Next
  <1>3. ASSUME NEW k \in BlockOrNone, StartBoth(k) PROVE Next
    BY <1>3 DEF StartBoth, Next
  <1>4. ASSUME Handle \/ SendSet PROVE Next
    BY <1>4 DEF Handle, SendSet, Next, UpdateMetrics
  <1>5. ASSUME UNCHANGED all PROVE UNCHANGED vars
    BY <1>5 DEF all
  <1> QED
    BY <1>1, <1>2, <1>3, <1>4, <1>5, ProcessParts

\* A handler neither starts nor ends the process, and passes no set on but by
\* sending it.
LEMMA HandlerStep ==
    ASSUME TypeOK, UpdateMetrics
    PROVE  /\ pc # "down" /\ pc' # "down"
           /\ pc # "send" => validators_to_resolve' = validators_to_resolve
           /\ pc # "send" /\ pc' # "send" => validators' = validators
           /\ pc = "send" => validators_to_resolve' = validators /\ validators' = validators
  <1> USE DEF config_metrics, locals, Goto, Return
  <1>1. CASE Begin \/ UpdateElections \/ FailElections
    BY <1>1 DEF Begin, UpdateElections, FailElections
  <1>2. CASE UpdateLastConfig \/ FailConfig \/ LoadConfig
    BY <1>2 DEF UpdateLastConfig, FailConfig, LoadConfig
  <1>3. CASE PublishValidators \/ SkipValidators \/ FailValidators \/ SendValidators
    BY <1>3 DEF PublishValidators, SkipValidators, FailValidators, SendValidators
  <1>4. CASE UpdateOverlays \/ FailOverlays
    BY <1>4 DEF UpdateOverlays, FailOverlays
  <1> QED
    BY <1>1, <1>2, <1>3, <1>4 DEF UpdateMetrics

\* What a process that is down keeps of the subscriber and of the resolver.
LEMMA LostStep ==
    ASSUME TypeOK, TogetherUp, SetPassedOn, DownIsEmpty, Lost
    PROVE  /\ pc' = "down" /\ task' = "down"
           /\ TogetherUp' /\ SetPassedOn'
  <1>1. /\ pc' = "down" /\ task' = "down"
        /\ fresh' = FALSE /\ closed' = FALSE
        /\ validator_ips' = {} /\ validator_set' = SetOf(0)
        /\ remaining' = {} /\ futures' = {} /\ permits' = {}
    BY DEF Lost, NoResolver, Crash, vars
  <1>2. validators_to_resolve' = 0 /\ validators' = 0
    BY DEF Lost, Crash, vars, TogetherUp, TypeOK, DownIsEmpty
  <1> QED
    BY <1>1, <1>2 DEF TogetherUp, SetPassedOn

-----------------------------------------------------------------------------
LEMMA PipelineInitial == PipelineInit => PipelineInv
  <1> SUFFICES ASSUME PipelineInit PROVE PipelineInv
    OBVIOUS
  <1>1. IInv
    BY InitIInv DEF PipelineInit
  <1>2. StagesInOrder /\ TogetherUp /\ SetPassedOn /\ task = "down"
    BY DEF PipelineInit, Init, Proc!Init, Proc!Steps, StagesInOrder, TogetherUp, SetPassedOn
  <1> QED
    BY <1>1, <1>2 DEF PipelineInv

\* The position in execute, and what exists by then.
LEMMA StagesKept == PipelineInv /\ [PipelineNext]_all => StagesInOrder'
  <1> SUFFICES ASSUME PipelineInv, [PipelineNext]_all PROVE StagesInOrder'
    OBVIOUS
  <1> USE DEF PipelineInv, StagesInOrder, Proc!Steps, Proc!parts, Proc!Then
  <1>1. CASE OfProcess(Proc!Step)
    <2>1. pc' = pc
      BY <1>1 DEF OfProcess, vars
    <2>2. CASE Proc!Load \/ Proc!SpawnExporter \/ Proc!BuildIndexerConfig \/ Proc!NewIndexer
      BY <2>1, <2>2 DEF Proc!Load, Proc!SpawnExporter, Proc!BuildIndexerConfig, Proc!NewIndexer
    <2>3. CASE Proc!SetEngineRef \/ Proc!TriggerCompaction \/ Proc!StartNode
      BY <2>1, <2>3 DEF Proc!SetEngineRef, Proc!AfterNew, Proc!TriggerCompaction, Proc!StartNode
    <2>4. CASE Proc!Fail \/ Proc!ReceiveSignal
      <3>1. stage' = "ending"
        BY <2>4, Zenon DEF Proc!Fail, Proc!ReceiveSignal, Proc!End
      <3> QED
        BY <2>1, <3>1
    <2>5. CASE Proc!Restart
      BY <2>1, <2>5 DEF Proc!Restart
    <2> QED
      BY <1>1, <2>2, <2>3, <2>4, <2>5 DEF OfProcess, Proc!Step
  <1>2. CASE (Proc!DropRuntime \/ Proc!Kill) /\ Lost
    BY <1>2, LostStep DEF Proc!DropRuntime, Proc!Kill, Proc!Gone, IInv
  <1>3. ASSUME NEW k \in BlockOrNone, StartBoth(k) PROVE StagesInOrder'
    BY <1>3 DEF StartBoth, Start, Proc!StartSubscriber
  <1>4. CASE Handle \/ SendSet
    <2>1. pc # "down" /\ UNCHANGED process
      BY <1>4, HandlerStep DEF Handle, SendSet, SendValidators, IInv
    <2> QED
      BY <2>1 DEF process
  <1>5. ASSUME NEW A, OfResolver(A) PROVE StagesInOrder'
    BY <1>5 DEF OfResolver, process, vars
  <1>6. CASE UNCHANGED all
    BY <1>6 DEF all, process, vars
  <1> QED
    BY <1>1, <1>2, <1>3, <1>4, <1>5, <1>6, ProcessParts

\* The subscriber and the resolver come up and go down together.
LEMMA TogetherKept == PipelineInv /\ [PipelineNext]_all => TogetherUp'
  <1> SUFFICES ASSUME PipelineInv, [PipelineNext]_all PROVE TogetherUp'
    OBVIOUS
  <1> USE DEF PipelineInv, TogetherUp
  <1>1. ASSUME NEW A, OfProcess(A) PROVE TogetherUp'
    BY <1>1 DEF OfProcess, vars, resolver
  <1>2. CASE Lost
    BY <1>2, LostStep DEF IInv
  <1>3. ASSUME NEW k \in BlockOrNone, StartBoth(k) PROVE TogetherUp'
    BY <1>3 DEF StartBoth, Start
  <1>4. CASE Handle
    BY <1>4, HandlerStep DEF Handle, resolver, IInv
  <1>5. CASE SendSet
    <2>1. pc # "down" /\ pc' # "down"
      BY <1>5 DEF SendSet, SendValidators, Goto
    <2>2. task' = task
      BY <1>5 DEF SendSet, Res!Send
    <2> QED
      BY <2>1, <2>2
  <1>6. CASE OfResolver(ResP!Advance \/ ResP!Changed
                          \/ \E v \in BlockOrNone : ResP!Acquire(v) \/ ResP!Answer(v))
    <2>1. pc' = pc
      BY <1>6 DEF OfResolver, vars
    <2>2. task # "down" /\ task' # "down"
      BY <1>6 DEF OfResolver, ResP!Advance, ResP!Borrow, ResP!Clear, ResP!StartRound, ResP!EndRound,
                  ResP!Changed, ResP!Acquire, ResP!Answer, ResP!Found, ResP!NotFound, ResP!Complete
    <2> QED
      BY <2>1, <2>2
  <1>7. CASE UNCHANGED all
    BY <1>7 DEF all, vars, resolver
  <1> QED
    BY <1>1, <1>2, <1>3, <1>4, <1>5, <1>6, <1>7, ProcessParts

\* A set that is published is sent before anything else happens to it, and the
\* resolver is told.
LEMMA PassedOnKept == PipelineInv /\ [PipelineNext]_all => SetPassedOn'
  <1> SUFFICES ASSUME PipelineInv, [PipelineNext]_all PROVE SetPassedOn'
    OBVIOUS
  <1> USE DEF PipelineInv, SetPassedOn
  <1>1. ASSUME NEW A, OfProcess(A) PROVE SetPassedOn'
    BY <1>1 DEF OfProcess, vars, resolver
  <1>2. CASE Lost
    BY <1>2, LostStep DEF IInv
  <1>3. ASSUME NEW k \in BlockOrNone, StartBoth(k) PROVE SetPassedOn'
    BY <1>3 DEF StartBoth, Start
  <1>4. CASE Handle
    <2>1. UpdateMetrics /\ pc # "send" /\ task' = task /\ fresh' = fresh /\ validator_set' = validator_set
      BY <1>4 DEF Handle, resolver
    <2>2. /\ validators_to_resolve' = validators_to_resolve
          /\ pc' # "send" => validators' = validators
      BY <2>1, HandlerStep DEF IInv
    <2> QED
      BY <2>1, <2>2
  <1>5. CASE SendSet
    <2>1. validators_to_resolve' = validators /\ validators' = validators
      BY <1>5 DEF SendSet, SendValidators
    <2>2. fresh' = TRUE
      BY <1>5 DEF SendSet, Res!Send, Res!Chan!SendReplace
    <2> QED
      BY <2>1, <2>2
  <1>6. CASE OfResolver(ResP!Advance \/ ResP!Changed
                          \/ \E v \in BlockOrNone : ResP!Acquire(v) \/ ResP!Answer(v))
    <2>1. UNCHANGED <<pc, validators, validators_to_resolve>>
      BY <1>6 DEF OfResolver, vars
    <2>2. CASE ResP!Borrow
      BY <2>1, <2>2 DEF ResP!Borrow
    <2>3. CASE ResP!Clear \/ ResP!StartRound \/ ResP!EndRound
      BY <2>1, <2>3 DEF ResP!Clear, ResP!StartRound, ResP!EndRound, ResP!channel
    <2>4. CASE ResP!Changed
      BY <2>1, <2>4 DEF ResP!Changed
    <2>5. ASSUME NEW v \in BlockOrNone, ResP!Acquire(v) \/ ResP!Answer(v) PROVE SetPassedOn'
      BY <2>1, <2>5 DEF ResP!Acquire, ResP!Answer, ResP!Found, ResP!NotFound, ResP!Complete, ResP!channel
    <2> QED
      BY <1>6, <2>2, <2>3, <2>4, <2>5 DEF OfResolver, ResP!Advance
  <1>7. CASE UNCHANGED all
    BY <1>7 DEF all, vars, resolver
  <1> QED
    BY <1>1, <1>2, <1>3, <1>4, <1>5, <1>6, <1>7, ProcessParts

\* A resolver that goes on takes a step of its own or none.
LEMMA ResolverGoesOn ==
    ASSUME PipelineInv, [PipelineNext]_all, task # "down", task' # "down"
    PROVE  [ResP!Next]_(ResP!vars)
  <1>1. ASSUME UNCHANGED <<validators_to_resolve, resolver>> PROVE UNCHANGED ResP!vars
    BY <1>1 DEF resolver, ResP!vars, ResP!channel, ResP!lookups, SetOf
  <1>2. ASSUME NEW A, OfProcess(A) PROVE UNCHANGED ResP!vars
    BY <1>1, <1>2 DEF OfProcess, vars
  <1>3. ~Lost
    BY LostStep DEF PipelineInv, IInv
  <1>4. ASSUME NEW k \in BlockOrNone PROVE ~StartBoth(k)
    BY DEF StartBoth, Start, PipelineInv, TogetherUp
  <1>5. CASE Handle
    BY <1>1, <1>5, HandlerStep DEF Handle, PipelineInv, IInv
  <1>6. CASE SendSet
    <2>1. ResP!Send(SetOf(validators))
      BY <1>6 DEF SendSet, Res!Send, Res!Chan!SendReplace, Res!lookups,
                  ResP!Send, ResP!Chan!SendReplace, ResP!lookups
    <2>2. SetOf(validators) \in ResP!ValidatorSet
      BY SetsSent DEF PipelineInv, IInv, TypeOK
    <2> QED
      BY <2>1, <2>2 DEF ResP!Next
  <1>7. CASE OfResolver(ResP!Advance \/ ResP!Changed
                          \/ \E v \in BlockOrNone : ResP!Acquire(v) \/ ResP!Answer(v))
    BY <1>7 DEF OfResolver, ResP!Next
  <1>8. CASE UNCHANGED all
    BY <1>1, <1>8 DEF all, vars
  <1> QED
    BY <1>2, <1>3, <1>4, <1>5, <1>6, <1>7, <1>8, ProcessParts

\* A resolver that comes up begins as one whose channel was just made.
LEMMA ResolverBegins ==
    ASSUME PipelineInv, NEW k \in BlockOrNone, StartBoth(k)
    PROVE  ResP!Init'
  <1>1. /\ validators_to_resolve' = 0 /\ ~fresh' /\ ~closed'
        /\ validator_ips' = {} /\ validator_set' = SetOf(0)
        /\ remaining' = {} /\ futures' = {} /\ permits' = {} /\ task' = "borrow"
    BY DEF StartBoth, Start, PipelineInv, TogetherUp
  <1>2. SetOf(0) = ResP!DefaultSet
    BY DEF SetOf, ResP!DefaultSet
  <1> QED
    BY <1>1, <1>2 DEF ResP!Init, ResP!Chan!Subscribed, SetOf, ResP!DefaultSet

LEMMA BeginsWell == (ResP!Init => ResP!IInv)'
  <1>1. ResP!Init => ResP!IInv
    BY ResP!InitIInv, BlocksFinite, PipelineAssumption
  <1> QED
    BY <1>1, PTL

LEMMA ResolverKept == PipelineInv /\ [PipelineNext]_all => (task' # "down" => ResP!IInv')
  <1> SUFFICES ASSUME PipelineInv, [PipelineNext]_all, task' # "down" PROVE ResP!IInv'
    OBVIOUS
  <1>1. CASE task # "down"
    BY <1>1, ResolverGoesOn, ResP!StepIInv, BlocksFinite, PipelineAssumption DEF PipelineInv
  <1>2. CASE \E k \in BlockOrNone : StartBoth(k)
    BY <1>2, ResolverBegins, BeginsWell
  <1>3. CASE task = "down" /\ ~(\E k \in BlockOrNone : StartBoth(k))
    <2>1. task' = "down"
      <3>1. ASSUME NEW A, OfProcess(A) PROVE task' = task
        BY <3>1 DEF OfProcess, resolver
      <3>2. ASSUME Lost PROVE task' = "down"
        BY <3>2 DEF Lost, NoResolver
      <3>3. ~Handle /\ ~SendSet
        BY <1>3, HandlerStep DEF Handle, SendSet, UpdateMetrics, PipelineInv, TogetherUp, IInv
      <3>4. CASE OfResolver(ResP!Advance \/ ResP!Changed
                              \/ \E v \in BlockOrNone : ResP!Acquire(v) \/ ResP!Answer(v))
        BY <1>3, <3>4 DEF OfResolver, ResP!Advance, ResP!Borrow, ResP!Clear, ResP!StartRound,
                  ResP!EndRound, ResP!Changed, ResP!Acquire, ResP!Answer, ResP!Found, ResP!NotFound,
                  ResP!Complete
      <3>5. CASE UNCHANGED all
        BY <1>3, <3>5 DEF all, resolver
      <3> QED
        BY <1>3, <3>1, <3>2, <3>3, <3>4, <3>5, ProcessParts
    <2> QED
      BY <2>1
  <1> QED
    BY <1>1, <1>2, <1>3

LEMMA PipelineInvariance == PipelineSpec => []PipelineInv
  <1>1. PipelineInv /\ [PipelineNext]_all => PipelineInv'
    <2>1. [PipelineNext]_all /\ IInv => IInv'
      BY SubscriberStep, StepIInv
    <2> QED
      BY <2>1, StagesKept, TogetherKept, PassedOnKept, ResolverKept DEF PipelineInv
  <1> QED
    BY <1>1, PipelineInitial, PTL DEF PipelineSpec

-----------------------------------------------------------------------------
\* The subscriber of the process, that starts late and shares its memory and its
\* end with the resolver, is the one of module Subscriber: whatever is proved of
\* that one holds of the process (main.rs:78-102; ton_subscriber.rs:62-90).
THEOREM ProcessImplementsSubscriber == PipelineSpec => Spec
  <1>1. PipelineInit => Init
    BY DEF PipelineInit
  <1> QED
    BY <1>1, SubscriberStep, PTL DEF PipelineSpec, Spec

\* A report that is ready has the node's gauges, at any step of any life of the
\* process, until execute returns (mod.rs:25-47, 61-70; metrics.rs:315, 481).
THEOREM ReportsWhole == PipelineSpec => []ReadyReportWhole
  <1>1. PipelineInv => ReadyReportWhole
    BY DEF PipelineInv, StagesInOrder, ReadyReportWhole, Ready, Proc!Steps
  <1> QED
    BY <1>1, PipelineInvariance, PTL

\* What is proved of a single resolver and its channel holds of the resolver in
\* every life of the process.
ResolverSound == task # "down" => Res!TypeOK /\ Res!IpsOfTheSet /\ Res!NobodyForgotten

THEOREM ResolverOfProcess == PipelineSpec => []ResolverSound
  <1>1. PipelineInv => ResolverSound
    BY SameCardinality
       DEF PipelineInv, ResolverSound, ResP!IInv, Res!TypeOK, ResP!TypeOK, Res!ValidatorSet,
           ResP!ValidatorSet, Res!IpsOfTheSet, ResP!IpsOfTheSet, Res!NobodyForgotten,
           ResP!NobodyForgotten
  <1> QED
    BY <1>1, PipelineInvariance, PTL

\* In every life of the process the addresses shown are those of validators
\* shown, whenever the resolver is not behind, and all of them when it has
\* finished with the set (ton_subscriber.rs:318-320, 411-482).
THEOREM AddressesAgree == PipelineSpec => []AddressesOfShown
  <1>1. PipelineInv => AddressesOfShown
    BY DEF PipelineInv, SetPassedOn, AddressesOfShown, ResP!IInv, ResP!IpsOfTheSet, ResP!NobodyForgotten
  <1> QED
    BY <1>1, PipelineInvariance, PTL
=============================================================================
