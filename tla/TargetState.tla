---------------------------- MODULE TargetState ----------------------------
(***************************************************************************)
(* The pure decision of one monitored target's status after one check,     *)
(* crates/core/src/db/states.rs.  A state row carries the status and the   *)
(* two consecutive counters; the thresholds belong to the target.          *)
(***************************************************************************)
EXTENDS Integers

Status == {"unknown", "up", "down"}

\* The counters after a check: a success resets the failures and conversely.
\* NewFailuresKept is a slip that forgets the reset.
NewFailuresKept(row, ok) == IF ok THEN row.fail ELSE row.fail + 1

NewSuccesses(row, ok) == IF ok THEN row.succ + 1 ELSE 0
NewFailures(row, ok)  == IF ok THEN 0 ELSE row.fail + 1

\* Slip: one failure too many is waited for.
FallsLate(row, ok, failureThreshold) ==
    NewFailures(row, ok) > failureThreshold /\ row.status # "down"

Falls(row, ok, failureThreshold) ==
    NewFailures(row, ok) >= failureThreshold /\ row.status # "down"

Rises(row, ok, successThreshold) ==
    \/ NewSuccesses(row, ok) >= successThreshold /\ row.status = "down"
    \/ ok /\ row.status = "unknown"

\* The status decide_transition gives `row` once a check has ended in `ok`.
DecideStatus(row, ok, successThreshold, failureThreshold) ==
    IF Falls(row, ok, failureThreshold) THEN "down"
    ELSE IF Rises(row, ok, successThreshold) THEN "up"
    ELSE row.status

=============================================================================
