-------------------------------- MODULE Startup --------------------------------
(***************************************************************************)
(* The start and the end of the process: CmdRun::execute of                *)
(* src/src/main.rs, Engine::new and start of src/src/engine/mod.rs, with   *)
(* the exporter that runs from the first of these steps on.  Any of them   *)
(* may take for ever, fail, or be interrupted by a termination signal; the *)
(* process is then run again.  What the parts do meanwhile is for the      *)
(* module that composes this one with them.                                *)
(***************************************************************************)

VARIABLES
    stage,          \* position in execute
    exporter,       \* the exporter's task runs
    node,           \* the indexer's engine exists
    engine_ref      \* MetricsState has a weak reference to it

parts == <<exporter, node, engine_ref>>
process == <<stage, parts>>

Steps == {"load", "exporter", "settings", "indexer", "set_ref", "compaction", "subscriber",
          "node", "running"}

Init ==
    /\ stage = "load"
    /\ exporter = FALSE /\ node = FALSE /\ engine_ref = FALSE

-----------------------------------------------------------------------------
Then(step) == stage' = step

\* Both configuration files are read and the signals are listened to.
Load == stage = "load" /\ Then("exporter") /\ UNCHANGED parts

\* create_exporter binds its address; the writer's task is spawned.
SpawnExporter ==
    /\ stage = "exporter"
    /\ exporter' = TRUE
    /\ Then("settings")
    /\ UNCHANGED <<node, engine_ref>>

\* build_indexer_config: the public address, the keys and the folder.
BuildIndexerConfig ==
    /\ stage = "settings"
    /\ Then("indexer")
    /\ UNCHANGED parts

NewIndexer ==
    /\ stage = "indexer"
    /\ node' = TRUE
    /\ Then("set_ref")
    /\ UNCHANGED <<exporter, engine_ref>>

\* The database is compacted first if --run-compaction was given.
AfterNew == \E step \in {"compaction", "subscriber"} : Then(step)

\* Mutant: the reference is not set.
SetEngineRefNever == stage = "set_ref" /\ AfterNew /\ UNCHANGED parts

SetEngineRef ==
    /\ stage = "set_ref"
    /\ engine_ref' = TRUE
    /\ AfterNew
    /\ UNCHANGED <<exporter, node>>

TriggerCompaction ==
    /\ stage = "compaction"
    /\ Then("subscriber")
    /\ UNCHANGED parts

\* TonSubscriber::start returns.
StartSubscriber == stage = "subscriber" /\ Then("node") /\ UNCHANGED parts

StartNode == stage = "node" /\ Then("running") /\ UNCHANGED parts

-----------------------------------------------------------------------------
\* execute returns.  Its future is dropped with what it holds of the node,
\* which may be all, while the spawned tasks still run.
End ==
    /\ stage' = "ending"
    /\ node' \in {FALSE, node}
    /\ UNCHANGED <<exporter, engine_ref>>

\* A step fails.
Fail == stage \in Steps \ {"set_ref", "compaction", "running"} /\ End

\* A termination signal has come and select! sees it: wherever the main loop
\* awaits something, which it does not do while it sets the reference.  While the
\* files are read nobody listens, and a signal kills the process.
ReceiveSignal == stage \in Steps \ {"load", "set_ref"} /\ End

\* All that the process has is gone.
Gone ==
    /\ stage' = "ended"
    /\ exporter' = FALSE /\ node' = FALSE /\ engine_ref' = FALSE

\* The runtime is dropped with all tasks and the process ends.
DropRuntime == stage = "ending" /\ Gone

\* It is killed, or the machine stops.
Kill == stage # "ended" /\ Gone

\* The operator runs it again.
Restart == stage = "ended" /\ Then("load") /\ UNCHANGED parts

\* What no other part of the process takes part in.
Step ==
    \/ Load \/ SpawnExporter \/ BuildIndexerConfig \/ NewIndexer \/ SetEngineRef
    \/ TriggerCompaction \/ StartNode
    \/ Fail \/ ReceiveSignal \/ Restart
=============================================================================
