------------------------------- MODULE Subscriber -------------------------------
(***************************************************************************)
(* What TonSubscriber (src/src/engine/ton_subscriber.rs) keeps and         *)
(* publishes about the masterchain: config, elections, validators and      *)
(* overlays.  Masterchain blocks come one after another, each may be a key *)
(* block, and each of the many steps of update_metrics may fail and end    *)
(* the handling of its block.  The process may die at any time; nothing    *)
(* but the node's database survives, so that the block in hand comes       *)
(* again.  Published data is represented by the block it comes from, 0     *)
(* standing for nothing.                                                   *)
(***************************************************************************)
EXTENDS Integers

CONSTANT MaxBlock   \* bound: masterchain blocks of a behaviour

ASSUME SubscriberAssumption == MaxBlock \in Nat

Block == 1..MaxBlock
BlockOrNone == 0..MaxBlock

VARIABLES
    chain,          \* external: which blocks are key blocks, which pay the elector
    next,           \* external: the block to apply
    last_config,    \* key block of the config in force
    key_block_seqno, config_from,   \* config_metrics: the seqno, and where the values come from
    first_mc_block,
    elections, validators, overlays,    \* MetricsState
    validators_to_resolve,      \* the channel to the resolver
    is_first_mc_block, elector_account, \* locals of update_metrics
    stale,          \* history: what the newest block with news of it did not update
    since,          \* history: the first block this process applies
    pc              \* position in update_metrics, if the process is up

config_metrics == <<key_block_seqno, config_from>>
locals == <<is_first_mc_block, elector_account>>
vars == <<chain, next, last_config, config_metrics, first_mc_block, elections, validators,
          overlays, validators_to_resolve, locals, stale, since, pc>>

NoOverlays == [block |-> 0, config |-> 0]

\* TonSubscriber::new and an empty MetricsState.
Init ==
    /\ chain \in [Block -> [key : BOOLEAN, elector : BOOLEAN]]
    /\ next = 1
    /\ last_config = 0 /\ key_block_seqno = 0 /\ config_from = 0
    /\ first_mc_block = TRUE
    /\ elections = 0 /\ validators = 0 /\ overlays = NoOverlays
    /\ validators_to_resolve = 0
    /\ is_first_mc_block = FALSE /\ elector_account = FALSE
    /\ stale = {} /\ since = 1
    /\ pc = "down"

Goto(step) == pc' = step /\ UNCHANGED <<chain, next, since>>

\* The handler returns, with Ok or with an error that is logged.
Return == pc' = "idle" /\ next' = next + 1 /\ UNCHANGED <<chain, since>>

\* The process ends at any time, in start because of an error too, and is
\* started anew.
Crash ==
    /\ pc # "down"
    /\ last_config' = 0 /\ key_block_seqno' = 0 /\ config_from' = 0
    /\ first_mc_block' = TRUE
    /\ elections' = 0 /\ validators' = 0 /\ overlays' = NoOverlays
    /\ validators_to_resolve' = 0
    /\ is_first_mc_block' = FALSE /\ elector_account' = FALSE
    /\ stale' = {} /\ since' = 1
    /\ pc' = "down"
    /\ UNCHANGED <<chain, next>>

\* History: x was due and was not updated.
Missed(x, due) == IF due THEN {x} ELSE {}

\* Mutant: the guard is dropped.
UpdateConfigMetricsAlways(k) == key_block_seqno' = k /\ config_from' = k

\* update_config_metrics for the config of key block k.
UpdateConfigMetrics(k) ==
    IF k > key_block_seqno THEN key_block_seqno' = k /\ config_from' = k
    ELSE UNCHANGED config_metrics

\* start, with the last key block of the database, if one is found.  It may be
\* ahead of the blocks the indexer applies first.
Start(k) ==
    /\ pc = "down"
    /\ IF k = 0
         THEN UNCHANGED <<last_config, config_metrics>>
         ELSE chain[k].key /\ UpdateConfigMetrics(k) /\ last_config' = k
    /\ since' = next
    /\ pc' = "idle"
    /\ UNCHANGED <<chain, next, first_mc_block, elections, validators, overlays,
                   validators_to_resolve, locals, stale>>

-----------------------------------------------------------------------------
\* The block's facts are gathered: whether it is a key block or pays the
\* elector more than ELECTOR_UPDATE_THRESHOLD.
Begin ==
    /\ pc = "idle" /\ next \in Block
    /\ Goto("elections")
    /\ UNCHANGED <<last_config, config_metrics, first_mc_block, elections,
                   validators, overlays, validators_to_resolve, locals, stale>>

update_elector_state == chain[next].key \/ chain[next].elector

ElectionsDue == update_elector_state \/ first_mc_block

\* The elector's state is taken over whatever its last_trans_lt: the one to
\* compare with is never stored and stays 0 (metrics.rs:835).
UpdateElectionsState == elections' = next

UpdateElections ==
    /\ pc = "elections"
    /\ \E account \in BOOLEAN :
         /\ elector_account' = account
         /\ IF ElectionsDue /\ account THEN UpdateElectionsState ELSE UNCHANGED elections
         /\ stale' = IF ~ElectionsDue THEN stale
                     ELSE IF account THEN stale \ {"elections"} ELSE stale \cup {"elections"}
    /\ is_first_mc_block' = first_mc_block
    /\ first_mc_block' = (first_mc_block /\ ~ElectionsDue)
    /\ Goto("config")
    /\ UNCHANGED <<last_config, config_metrics, validators, overlays,
                   validators_to_resolve>>

\* Mutant: first_mc_block is cleared by a failure, too.
FailElectionsClearsFirst ==
    /\ pc = "elections"
    /\ first_mc_block' = FALSE
    /\ stale' = stale \cup Missed("elections", update_elector_state)
                     \cup Missed("config", chain[next].key)
    /\ Return
    /\ UNCHANGED <<last_config, config_metrics, elections, validators, overlays,
                   validators_to_resolve, locals>>

\* The block comes without a state; it, its shards or the elector account cannot
\* be read; or the elector's state cannot be parsed.  first_mc_block stays as it
\* is.
FailElections ==
    /\ pc = "elections"
    /\ stale' = stale \cup Missed("elections", update_elector_state)
                     \cup Missed("config", chain[next].key)
    /\ Return
    /\ UNCHANGED <<last_config, config_metrics, first_mc_block, elections,
                   validators, overlays, validators_to_resolve, locals>>

\* Mutant: the config is not kept.
UpdateLastConfigForgets ==
    /\ pc = "config" /\ chain[next].key
    /\ UpdateConfigMetrics(next)
    /\ stale' = stale \ {"config"}
    /\ Goto("validators")
    /\ UNCHANGED <<last_config, first_mc_block, elections, validators, overlays,
                   validators_to_resolve, locals>>

UpdateLastConfig ==
    /\ pc = "config" /\ chain[next].key
    /\ UpdateConfigMetrics(next)
    /\ last_config' = next
    /\ stale' = stale \ {"config"}
    /\ Goto("validators")
    /\ UNCHANGED <<first_mc_block, elections, validators, overlays,
                   validators_to_resolve, locals>>

\* ConfigMetrics::update fails: the seqno is stored already, the values and
\* last_config are not.
FailConfig ==
    /\ pc = "config" /\ chain[next].key
    /\ next > key_block_seqno
    /\ key_block_seqno' = next
    /\ stale' = stale \cup {"config"} \cup Missed("validators", is_first_mc_block)
    /\ Return
    /\ UNCHANGED <<last_config, config_from, first_mc_block, elections, validators,
                   overlays, validators_to_resolve, locals>>

\* Not a key block: the config in force is used, and without one the handler
\* returns.
LoadConfig ==
    /\ pc = "config" /\ ~chain[next].key
    /\ IF last_config = 0 THEN Return ELSE Goto("validators")
    /\ UNCHANGED <<last_config, config_metrics, first_mc_block, elections,
                   validators, overlays, validators_to_resolve, locals, stale>>

\* Mutant: validators are published for key blocks only.
ValidatorsDueLess == chain[next].key
ValidatorsDue == chain[next].key \/ is_first_mc_block

PublishValidators ==
    /\ pc = "validators" /\ ValidatorsDue /\ elector_account
    /\ validators' = last_config
    /\ stale' = stale \ {"validators"}
    /\ Goto("send")
    /\ UNCHANGED <<last_config, config_metrics, first_mc_block, elections, overlays,
                   validators_to_resolve, locals>>

\* They are not due, or there is no elector or no past election.
SkipValidators ==
    /\ pc = "validators"
    /\ stale' = stale \cup Missed("validators", ValidatorsDue)
    /\ Goto("overlays")
    /\ UNCHANGED <<last_config, config_metrics, first_mc_block, elections,
                   validators, overlays, validators_to_resolve, locals>>

\* The config lacks a part, or the elector's data cannot be parsed.
FailValidators ==
    /\ pc = "validators"
    /\ stale' = stale \cup Missed("validators", ValidatorsDue)
    /\ Return
    /\ UNCHANGED <<last_config, config_metrics, first_mc_block, elections,
                   validators, overlays, validators_to_resolve, locals>>

SendValidators ==
    /\ pc = "send"
    /\ validators_to_resolve' = validators
    /\ Goto("overlays")
    /\ UNCHANGED <<last_config, config_metrics, first_mc_block, elections,
                   validators, overlays, locals, stale>>

UpdateOverlays ==
    /\ pc = "overlays"
    /\ overlays' = [block |-> next, config |-> last_config]
    /\ Return
    /\ UNCHANGED <<last_config, config_metrics, first_mc_block, elections,
                   validators, validators_to_resolve, locals, stale>>

\* calc_subset fails for some shard: no overlay is updated.
FailOverlays ==
    /\ pc = "overlays"
    /\ Return
    /\ UNCHANGED <<last_config, config_metrics, first_mc_block, elections,
                   validators, overlays, validators_to_resolve, locals, stale>>

UpdateMetrics ==
    \/ Begin
    \/ UpdateElections \/ FailElections
    \/ UpdateLastConfig \/ FailConfig \/ LoadConfig
    \/ PublishValidators \/ SkipValidators \/ FailValidators
    \/ SendValidators
    \/ UpdateOverlays \/ FailOverlays

Next == Crash \/ (\E k \in BlockOrNone : Start(k)) \/ UpdateMetrics

Spec == Init /\ [][Next]_vars

-----------------------------------------------------------------------------
KeyBlocks(from, to) == {k \in Block : chain[k].key /\ from <= k /\ k <= to}

\* Nothing is published before the first block has used up first_mc_block.
TypeOK ==
    /\ chain \in [Block -> [key : BOOLEAN, elector : BOOLEAN]]
    /\ {next, since} \subseteq 1..(MaxBlock + 1)
    /\ pc \notin {"down", "idle"} => next \in Block
    /\ {last_config, key_block_seqno, config_from, elections, validators,
        validators_to_resolve} \subseteq BlockOrNone
    /\ overlays \in [block : BlockOrNone, config : BlockOrNone]
    /\ {first_mc_block, is_first_mc_block, elector_account} \subseteq BOOLEAN
    /\ first_mc_block => validators = 0 /\ overlays = NoOverlays
    /\ stale \subseteq {"elections", "config", "validators"}
    /\ pc \in {"down", "idle", "elections", "config", "validators", "send", "overlays"}

\* Between two blocks the elections shown are no older than any block that
\* changed the elector, before a restart or after, unless reading that block
\* failed or the first block is still to come: a failure on the first block is
\* made up for by the next one (ton_subscriber.rs:262-270).
ElectionsUpToDate ==
    pc = "idle" /\ ~first_mc_block /\ "elections" \notin stale =>
        \A n \in 1..(next - 1) : chain[n].key \/ chain[n].elector => elections >= n

\* Between two blocks the validators shown are those of the config in force,
\* although only key blocks and the first block publish them, unless publishing
\* them failed or was not possible (ton_subscriber.rs:272-323).
ValidatorsUpToDate ==
    pc = "idle" /\ ~first_mc_block /\ "validators" \notin stale => validators = last_config

\* The overlays of the block just handled were computed with the config of the
\* newest key block up to it that this process has handled, unless that block's
\* config could not be read (ton_subscriber.rs:272-293, 325-368).
OverlaysFollowConfig ==
    pc = "idle" /\ overlays.block = next - 1 /\ "config" \notin stale =>
        \A k \in KeyBlocks(since, overlays.block) :
            KeyBlocks(k + 1, overlays.block) = {} => overlays.config = k

\* The config metrics never return to an older config while the process lives,
\* although the indexer may apply key blocks older than the one that start
\* found; and the seqno shown is that of the block the values come from, unless
\* the newest config could not be read (metrics.rs:282-284).
ConfigMetricsAdvance ==
    /\ [][pc # "down" /\ pc' # "down" =>
            key_block_seqno' >= key_block_seqno /\ config_from' >= config_from]_vars
    /\ []("config" \notin stale => config_from = key_block_seqno)

\* What the comment at ton_subscriber.rs:295 has the first masterchain block do:
\* when it has been handled and nothing failed, the validators are shown.
FirstBlockPublishes ==
    pc = "idle" /\ ~first_mc_block /\ stale = {} => validators # 0
=============================================================================
