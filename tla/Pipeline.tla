-------------------------------- MODULE Pipeline --------------------------------
(***************************************************************************)
(* The process as a whole: its start and end, the masterchain subscriber   *)
(* and the resolver, which start on the way.  Validators are shown by the  *)
(* one and their addresses by the other, and nothing but the channel       *)
(* validators_to_resolve ties them together                                *)
(* (src/src/engine/ton_subscriber.rs:83-90, 318-320, 398).                 *)
(***************************************************************************)
EXTENDS Subscriber, FiniteSets

CONSTANT MaxParallel    \* MAX_PARALLEL_REQUESTS

ASSUME PipelineAssumption == MaxParallel \in Nat \ {0}

VARIABLES
    stage, exporter, node, engine_ref,  \* as in Startup
    fresh, closed, validator_ips, validator_set, remaining, futures, permits,
    task    \* the resolver's position

process == <<stage, exporter, node, engine_ref>>
resolver == <<fresh, closed, validator_ips, validator_set, remaining, futures, permits, task>>
all == <<vars, process, resolver>>

Proc == INSTANCE Startup

\* Bound: the config of key block k has validator 0, which every config has,
\* and validator k; both have an adnl address.
SetOf(k) == LET keys == IF k = 0 THEN {} ELSE {0, k} IN [keys |-> keys, adnl |-> keys]

\* The sender lives as long as the process, so closed stays FALSE.
Res == INSTANCE Resolver WITH
    Validators <- BlockOrNone, value <- SetOf(validators_to_resolve), pc <- task

NoResolver ==
    /\ fresh' = FALSE /\ closed' = FALSE
    /\ validator_ips' = {} /\ validator_set' = SetOf(0)
    /\ remaining' = {} /\ futures' = {} /\ permits' = {}
    /\ task' = "down"

PipelineInit ==
    /\ Init /\ Proc!Init
    /\ fresh = FALSE /\ closed = FALSE
    /\ validator_ips = {} /\ validator_set = SetOf(0)
    /\ remaining = {} /\ futures = {} /\ permits = {}
    /\ task = "down"

-----------------------------------------------------------------------------
OfProcess(A) == A /\ UNCHANGED <<vars, resolver>>

\* What the process had of the blocks is lost, if it had come so far.
Lost == (IF pc = "down" THEN UNCHANGED vars ELSE Crash) /\ NoResolver
DropRuntime == Proc!DropRuntime /\ Lost
Kill == Proc!Kill /\ Lost

\* The resolver's task is spawned when the config has been looked for.
StartBoth(k) ==
    /\ Proc!StartSubscriber
    /\ Start(k)
    /\ task' = "borrow"
    /\ UNCHANGED <<fresh, closed, validator_ips, validator_set, remaining, futures, permits>>

\* External: the node hands blocks over from within its start on, and until
\* it is dropped.
Applying == stage \in {"node", "running", "ending"} /\ node

\* A handler of a block goes on; a set it sends is in the channel at once.
Handle == Applying /\ UpdateMetrics /\ pc # "send" /\ UNCHANGED <<process, resolver>>

\* Mutant: the set is replaced, and a resolver that is at work is not told.
SendIfWaiting ==
    /\ Applying /\ SendValidators /\ UNCHANGED process
    /\ IF task = "lookup" THEN UNCHANGED resolver ELSE Res!Send(SetOf(validators))
SendSet == Applying /\ SendValidators /\ Res!Send(SetOf(validators)) /\ UNCHANGED process

OfResolver(A) == UNCHANGED <<vars, process>> /\ A
Found(v) == OfResolver(Res!Found(v))
NotFound(v) == OfResolver(Res!NotFound(v))
Acquire == \E v \in BlockOrNone : OfResolver(Res!Acquire(v))
Loop == OfResolver(Res!Advance)
Changed == OfResolver(Res!Changed)

PipelineNext ==
    \/ OfProcess(Proc!Step) \/ DropRuntime \/ Kill
    \/ \E k \in BlockOrNone : StartBoth(k)
    \/ Handle \/ SendSet
    \/ Loop \/ Changed \/ Acquire
    \/ \E v \in BlockOrNone : Found(v) \/ NotFound(v)

\* The indexer hands blocks over and awaits their handler; the resolver's task
\* is polled when it can go on, and a lookup returns.  Nothing says that a step
\* of the start ends, that a signal is seen or that the runtime gets dropped.
PipelineSpec ==
    /\ PipelineInit /\ [][PipelineNext]_all
    /\ WF_all(Handle \/ SendSet)
    /\ WF_all(Loop) /\ WF_all(Changed) /\ WF_all(Acquire)
    /\ \A v \in BlockOrNone : WF_all(Found(v) \/ NotFound(v))

-----------------------------------------------------------------------------
\* In a process that goes on, if the DHT finds a validator after enough attempts,
\* the addresses shown come to be those of the validators shown, after restarts,
\* failures in the middle of a block and sets that replace one another in the
\* channel.
AddressesOfShownValidators ==
    (\A v \in BlockOrNone : SF_all(Found(v))) /\ <>[](stage \in {"node", "running"}) =>
        <>[](validator_ips = SetOf(validators).adnl)

\* Once the resolver has taken up what the channel holds, addresses are shown for
\* validators shown only, and when it waits for another set, for all of them
\* that have an address: the two parts of a report agree, although a set may
\* have replaced another that nobody took up (ton_subscriber.rs:318-320, 411-482).
AddressesOfShown ==
    pc # "send" /\ ~fresh /\ task \in {"round", "lookup", "sleep", "wait"} =>
        /\ validator_ips \subseteq SetOf(validators).adnl
        /\ task = "wait" => validator_ips = SetOf(validators).adnl

\* mc_utime is stored with the first masterchain block; reports are ready then.
Ready == pc # "down" /\ (pc # "idle" \/ next > since)

\* Although the exporter starts first and the node's gauges are reached by a
\* weak reference, a report that is ready has them, in every life of the
\* process until execute returns (mod.rs:25-47, 61-70; metrics.rs:315, 481).
ReadyReportWhole ==
    exporter /\ Ready /\ stage \in Proc!Steps => engine_ref /\ node
=============================================================================
