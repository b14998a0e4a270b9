--------------------------------- MODULE Report ---------------------------------
(***************************************************************************)
(* The exporter's report and the masterchain subscriber: MetricsState::fmt *)
(* of src/src/engine/metrics.rs takes the lock of one part after another   *)
(* while update_metrics goes on replacing them, so that a report mixes     *)
(* parts of several moments.  Reports before the first block has its time  *)
(* are empty in the code and show nothing here.                            *)
(***************************************************************************)
EXTENDS Subscriber

VARIABLES
    report,     \* the config behind each part of the report in hand
    reading     \* the part to read

reportVars == <<report, reading>>

EmptyReport == [overlays |-> 0, validators |-> 0, config |-> 0]

ReportInit ==
    /\ Init
    /\ report = EmptyReport
    /\ reading = "overlays"

ReadOverlays ==
    /\ pc # "down" /\ reading = "overlays"
    /\ report' = [EmptyReport EXCEPT !.overlays = overlays.config]
    /\ reading' = "validators"
    /\ UNCHANGED vars

ReadValidators ==
    /\ pc # "down" /\ reading = "validators"
    /\ report' = [report EXCEPT !.validators = validators]
    /\ reading' = "config"
    /\ UNCHANGED vars

ReadConfig ==
    /\ pc # "down" /\ reading = "config"
    /\ report' = [report EXCEPT !.config = key_block_seqno]
    /\ reading' = "overlays"
    /\ UNCHANGED vars

\* Mutant: the config is read first.
CollectConfigFirst ==
    \/ /\ pc # "down" /\ reading = "overlays"
       /\ report' = [EmptyReport EXCEPT !.config = key_block_seqno]
       /\ reading' = "config"
       /\ UNCHANGED vars
    \/ /\ pc # "down" /\ reading = "config"
       /\ report' = [report EXCEPT !.overlays = overlays.config]
       /\ reading' = "validators"
       /\ UNCHANGED vars
    \/ /\ pc # "down" /\ reading = "validators"
       /\ report' = [report EXCEPT !.validators = validators]
       /\ reading' = "overlays"
       /\ UNCHANGED vars
Collect == ReadOverlays \/ ReadValidators \/ ReadConfig

\* The report in hand is lost with the process.
CrashWithReport ==
    /\ Crash
    /\ report' = EmptyReport
    /\ reading' = "overlays"

Subscribe == UNCHANGED reportVars /\ (UpdateMetrics \/ \E k \in BlockOrNone : Start(k))

ReportNext == Subscribe \/ CrashWithReport \/ Collect

ReportSpec == ReportInit /\ [][ReportNext]_<<vars, reportVars>>

-----------------------------------------------------------------------------
\* A report never shows overlays or validators of a config that is newer than
\* the key block it shows: they are read in the reverse of the order they are
\* written in, whatever fails between two writes and wherever start begins
\* (metrics.rs:415, 466, 572; ton_subscriber.rs:275, 318, 368).
ReportNotAhead ==
    reading = "overlays" =>
        report.overlays <= report.config /\ report.validators <= report.config
=============================================================================
