---------------------------- MODULE QueueMonitor ---------------------------
(***************************************************************************)
(* Monitor: when the operator is alerted about one consumer.  A ticker     *)
(* samples the lag of its reader; the consumer reports fetch errors and    *)
(* dead letters as they happen.                                            *)
(***************************************************************************)
EXTENDS Integers

CONSTANTS
    LagDuration,          \* AlertConfig.LagDuration, in ticks
    DLQThreshold,         \* AlertConfig.DLQThreshold
    FetchErrorThreshold   \* AlertConfig.FetchErrorThreshold

ASSUME MonitorAssumption ==
    /\ LagDuration \in Nat
    /\ DLQThreshold \in Nat /\ FetchErrorThreshold \in Nat

VARIABLES
    lag,           \* the reader's lag: "ok", above LagThreshold or 3 times that
    since,         \* time since lagExceededSince, or NotExceeded
    dlqCount,      \* dlqCountSnapshot
    fetchErrors,   \* fetchErrorCountSnapshot
    held,          \* history: how long every sample was above the threshold
    quiet,         \* history: time since the last lag alert
    fetchRow,      \* history: fetch errors since the last fetched message
    alert          \* the last alert fired

monitorVars == <<lag, since, dlqCount, fetchErrors, held, quiet, fetchRow, alert>>

NotExceeded == -1
Levels == {"ok", "high", "critical"}
NoAlert == [kind |-> "none"]

(* Durations count up to the first value beyond LagDuration.               *)
Limit == LagDuration + 1
Older(t) == IF t = NotExceeded \/ t = Limit THEN t ELSE t + 1

-----------------------------------------------------------------------------
LagChanges(l) ==
    /\ l # lag /\ lag' = l
    /\ UNCHANGED <<since, dlqCount, fetchErrors, held, quiet, fetchRow, alert>>

(* History: the run of samples above the threshold this sample extends.    *)
Sampled == held' = IF lag = "ok" THEN NotExceeded ELSE IF held = NotExceeded THEN 0 ELSE held

(* Mutant: the clock is not removed when the lag recovers.                 *)
CheckLagKeepsClock ==
    /\ CASE lag = "ok" -> UNCHANGED <<since, quiet, alert>>
         [] lag # "ok" /\ since = NotExceeded -> since' = 0 /\ UNCHANGED <<quiet, alert>>
         [] lag # "ok" /\ since > LagDuration ->
               /\ since' = 0 /\ quiet' = 0
               /\ alert' = [kind |-> "lag", level |-> lag, held |-> held, quiet |-> quiet]
         [] OTHER -> UNCHANGED <<since, quiet, alert>>
    /\ Sampled
    /\ UNCHANGED <<lag, dlqCount, fetchErrors, fetchRow>>

(* Mutant: every sample above the threshold starts the clock again.        *)
CheckLagRestarts ==
    /\ IF lag # "ok" /\ since > LagDuration
          THEN /\ since' = 0 /\ quiet' = 0
               /\ alert' = [kind |-> "lag", level |-> lag, held |-> held, quiet |-> quiet]
          ELSE since' = (IF lag = "ok" THEN NotExceeded ELSE 0) /\ UNCHANGED <<quiet, alert>>
    /\ Sampled
    /\ UNCHANGED <<lag, dlqCount, fetchErrors, fetchRow>>

(* collect and checkLagAlert: the first excess starts the clock, an alert  *)
(* restarts it, a sample at or below the threshold removes it.             *)
CheckLag ==
    /\ CASE lag = "ok" -> since' = NotExceeded /\ UNCHANGED <<quiet, alert>>
         [] lag # "ok" /\ since = NotExceeded -> since' = 0 /\ UNCHANGED <<quiet, alert>>
         [] lag # "ok" /\ since > LagDuration ->
               /\ since' = 0 /\ quiet' = 0
               /\ alert' = [kind |-> "lag", level |-> lag, held |-> held, quiet |-> quiet]
         [] OTHER -> UNCHANGED <<since, quiet, alert>>
    /\ Sampled
    /\ UNCHANGED <<lag, dlqCount, fetchErrors, fetchRow>>

(* RecordDLQ counts, and at the threshold alerts and starts over.          *)
RecordDLQ ==
    /\ IF dlqCount + 1 >= DLQThreshold
          THEN dlqCount' = 0 /\ alert' = [kind |-> "dlq", value |-> dlqCount + 1]
          ELSE dlqCount' = dlqCount + 1 /\ UNCHANGED alert
    /\ UNCHANGED <<lag, since, fetchErrors, held, quiet, fetchRow>>

(* RecordFetchError does the same; nothing resets it on success.           *)
RecordFetchError ==
    /\ IF fetchErrors + 1 >= FetchErrorThreshold
          THEN fetchErrors' = 0 /\ alert' = [kind |-> "fetch", value |-> fetchErrors + 1, row |-> fetchRow + 1]
          ELSE fetchErrors' = fetchErrors + 1 /\ UNCHANGED alert
    /\ fetchRow' = IF fetchRow < FetchErrorThreshold THEN fetchRow + 1 ELSE fetchRow
    /\ UNCHANGED <<lag, since, dlqCount, held, quiet>>

Fetched ==
    /\ fetchRow' = 0
    /\ UNCHANGED <<lag, since, dlqCount, fetchErrors, held, quiet, alert>>

MonitorTick ==
    /\ since' = Older(since) /\ held' = Older(held) /\ quiet' = Older(quiet)
    /\ UNCHANGED <<lag, dlqCount, fetchErrors, fetchRow, alert>>

MonitorInit ==
    /\ lag = "ok" /\ since = NotExceeded /\ held = NotExceeded /\ quiet = Limit
    /\ dlqCount = 0 /\ fetchErrors = 0 /\ fetchRow = 0 /\ alert = NoAlert

MonitorNext ==
    \/ \E l \in Levels : LagChanges(l)
    \/ CheckLag \/ RecordDLQ \/ RecordFetchError \/ Fetched

-----------------------------------------------------------------------------
(* A lag alert is fired only when every sample of more than LagDuration    *)
(* was above the threshold, and not again before that long has passed.     *)
LagAlertEarned ==
    alert.kind = "lag" => alert.held > LagDuration /\ alert.quiet > LagDuration

(* A lag that stays above the threshold is reported, by an alert that is   *)
(* fired and not only by one that was fired before.                        *)
LagReported == <>[](lag # "ok") => []<>(quiet = 0)

(* Refuted: the fetch alert counts consecutive failures ("liên tiếp",      *)
(* monitor.go:336).  A message fetched in between resets nothing.          *)
FetchErrorsInARow == alert.kind = "fetch" => alert.row >= alert.value
=============================================================================
