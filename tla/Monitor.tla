------------------------------ MODULE Monitor ------------------------------
(***************************************************************************)
(* The monitoring worker: every minute a cron trigger starts an invocation *)
(* of run_scheduled_checks (crates/core/src/monitor/engine.rs), which      *)
(* takes the targets whose next check is due and, one target at a time,    *)
(* probes it, records the result, moves its state row, opens or resolves   *)
(* its incident, notifies, audits and reschedules it.                      *)
(*                                                                         *)
(* Every `await` of the code is a step of its own.  Nothing keeps one      *)
(* invocation from starting while an earlier one still runs, a worker may  *)
(* die between two awaits, and a D1 call may fail: Invocations, MaxCrashes *)
(* and Faulty say which of these a model explores.                         *)
(***************************************************************************)
EXTENDS Integers, Sequences, TargetState

CONSTANTS
    Targets,            \* the monitored targets (rows of `targets`)
    Invocations,        \* identities for the invocations alive at one time
    IncidentIds,        \* the uuids incidents::open may draw
    SuccessThreshold,   \* targets.success_threshold
    FailureThreshold,   \* targets.failure_threshold
    RetryCount,         \* targets.retry_count
    Interval,           \* targets.interval_minutes
    BatchLimit,         \* the LIMIT of the due query (50 in the code)
    MinutesPerHour,     \* nominal minutes between two retention passes
    Faulty,             \* the D1 calls that may return an error
    MaxClock,           \* bound: minutes explored
    MaxCrashes,         \* bound: workers that die
    MaxMoves,           \* bound: moves of the operator and of the windows
    NoTarget            \* the target of an incident id not drawn yet

\* The CHECKs of sql/0009 on `targets`, and that ids are not the sentinel.
ASSUME ConstantsAssumption ==
    /\ SuccessThreshold \in [Targets -> Nat \ {0}]
    /\ FailureThreshold \in [Targets -> Nat \ {0}]
    /\ RetryCount \in [Targets -> Nat]
    /\ Interval \in [Targets -> Nat \ {0}]
    /\ BatchLimit \in Nat \ {0}
    /\ MinutesPerHour \in Nat \ {0}
    /\ MaxClock \in Nat /\ MaxCrashes \in Nat /\ MaxMoves \in Nat
    /\ NoTarget \notin Targets

VARIABLES
    clock,      \* the wall clock, in minutes
    cron,       \* the nominal minute of the next cron event
    nextCheck,  \* targets.next_check_at
    disabled,   \* targets.is_disabled
    row,        \* target_states
    results,    \* check_results, as the lengths of its trailing runs
    incident,   \* incidents
    suppressed, \* is a suppressing maintenance window active for the target?
    alert,      \* what became of the current outage's down notification
    trail,      \* the last transition the audit log names for the target
    cleanup,    \* nominal minute of the last retention pass
    inv,        \* the invocations' local variables
    crashes, moves,
    overlapped  \* history: has an invocation started beside another one?

vars == <<clock, cron, nextCheck, disabled, row, results, incident,
          suppressed, alert, trail, cleanup, inv, crashes, moves, overlapped>>

\* A time column that is still NULL; the clock starts at 1.
NoTime == 0

FreshRow == [status |-> "unknown", succ |-> 0, fail |-> 0,
             since |-> NoTime, notified |-> NoTime]

\* An incident id that no incident has drawn yet.
Unborn == [target |-> NoTarget, status |-> "none", by |-> "none",
           openedAt |-> NoTime]

\* An invocation identity not in use.
Idle == [pc |-> "idle", nominal |-> NoTime, start |-> NoTime, batch |-> <<>>,
         tries |-> 0, ok |-> FALSE, seen |-> FreshRow, silenced |-> FALSE]
-----------------------------------------------------------------------------
(* What the step actions are built from.                                   *)

\* The target invocation i is working on.
Current(i) == Head(inv[i].batch)

\* The status invocation i decided from the row it read.
Verdict(i) == DecideStatus(inv[i].seen, inv[i].ok,
                  SuccessThreshold[Current(i)], FailureThreshold[Current(i)])

\* Plausible slip: a failing check of a target already down counts too.
ChangedOrStillDown(i) == Verdict(i) # inv[i].seen.status \/ Verdict(i) = "down"

\* TransitionDecision.changed.
Changed(i) == Verdict(i) # inv[i].seen.status

\* The two arms of handle_state_transition; a first `up` falls through both.
GoesDown(i) == Verdict(i) = "down"
Recovers(i) == Verdict(i) = "up" /\ inv[i].seen.status = "down"

At(i, pc) == inv[i].pc = pc
GoTo(i, pc) == inv' = [inv EXCEPT ![i].pc = pc]

MayFail(call) == call \in Faulty

HasOpenIncident(t) ==
    \E id \in IncidentIds : /\ incident[id].target = t
                            /\ incident[id].status = "open"

\* The rows of the due query; `now` was read when the invocation began.
Due(i) == {t \in Targets : ~disabled[t] /\ nextCheck[t] <= inv[i].start}

\* ORDER BY next_check_at ASC LIMIT BatchLimit: equal times in any order.
IsBatch(i, b) ==
    /\ \A j, k \in DOMAIN b : j < k => /\ b[j] # b[k]
                                       /\ nextCheck[b[j]] <= nextCheck[b[k]]
    /\ \A t \in Due(i) : \/ \E k \in DOMAIN b : b[k] = t
                         \/ /\ Len(b) = BatchLimit
                            /\ \A k \in DOMAIN b : nextCheck[b[k]] <= nextCheck[t]

OnTheHour(minute) == minute % MinutesPerHour = 0

\* Where a check goes once the windows are read.  Slip: a window that
\* silences the notification silences the incident as well.
AfterWindowSilencing(i, silenced) ==
    IF ~silenced /\ (GoesDown(i) \/ Recovers(i)) THEN "incident" ELSE "reschedule"

AfterWindow(i, silenced) ==
    IF GoesDown(i) \/ Recovers(i) THEN "incident" ELSE "reschedule"

\* The INSERT of incidents::open.  The partial unique index of sql/0009
\* refuses a second open incident; the slip is a schema without it.
InsertUnindexed(t) ==
    \E id \in IncidentIds :
        /\ incident[id] = Unborn
        /\ incident' = [incident EXCEPT ![id] =
              [target |-> t, status |-> "open", by |-> "none", openedAt |-> clock]]

\* Slip: the index covers the status alone, not the target.
InsertOnlyOne(t) ==
    \/ (\E id \in IncidentIds : incident[id].status = "open") /\ UNCHANGED incident
    \/ (\A id \in IncidentIds : incident[id].status # "open") /\ InsertUnindexed(t)

InsertIncident(t) ==
    \/ HasOpenIncident(t) /\ UNCHANGED incident
    \/ ~HasOpenIncident(t) /\ InsertUnindexed(t)

\* The UPDATE of incidents::auto_resolve: every open incident of the target.
\* Slip: its status condition is dropped.
CloseAll(t) ==
    incident' = [id \in IncidentIds |->
        IF incident[id].target = t
        THEN [incident[id] EXCEPT !.status = "resolved", !.by = "system"]
        ELSE incident[id]]

CloseOpen(t) ==
    incident' = [id \in IncidentIds |->
        IF incident[id].target = t /\ incident[id].status = "open"
        THEN [incident[id] EXCEPT !.status = "resolved", !.by = "system"]
        ELSE incident[id]]

\* next_check_at counts from the start of the invocation; the slip counts
\* from the cron event's nominal minute.
NextCheckNominal(i) == inv[i].nominal + Interval[Current(i)]
NextCheck(i) == inv[i].start + Interval[Current(i)]

\* Where an invocation goes after a target.
AfterTarget(rest) == IF rest = <<>> THEN "retention" ELSE "probe"
-----------------------------------------------------------------------------
Init ==
    /\ clock = 1 /\ cron = 1
    /\ nextCheck = [t \in Targets |-> 1]
    /\ disabled = [t \in Targets |-> FALSE]
    /\ row = [t \in Targets |-> FreshRow]
    /\ results = [t \in Targets |-> [good |-> 0, bad |-> 0]]
    /\ incident = [id \in IncidentIds |-> Unborn]
    /\ suppressed = [t \in Targets |-> FALSE]
    /\ alert = [t \in Targets |-> "none"]
    /\ trail = [t \in Targets |-> "none"]
    /\ cleanup = NoTime
    /\ inv = [i \in Invocations |-> Idle]
    /\ crashes = 0 /\ moves = 0 /\ overlapped = FALSE

(* The platform.                                                           *)

Tick ==
    /\ clock < MaxClock
    /\ clock' = clock + 1
    /\ UNCHANGED <<cron, nextCheck, disabled, row, results, incident,
                   suppressed, alert, trail, cleanup, inv, crashes, moves, overlapped>>

\* A cron event starts an invocation, at its minute or later.
Fire(i) ==
    /\ cron <= clock
    /\ At(i, "idle")
    /\ inv' = [inv EXCEPT ![i] = [Idle EXCEPT !.pc = "select", !.nominal = cron,
                                               !.start = clock]]
    /\ cron' = cron + 1
    /\ overlapped' = (overlapped \/ \E j \in Invocations : ~At(j, "idle"))
    /\ UNCHANGED <<clock, nextCheck, disabled, row, results, incident,
                   suppressed, alert, trail, cleanup, crashes, moves>>

\* The platform drops a cron event: delivery is best effort.
Miss ==
    /\ cron <= clock
    /\ cron' = cron + 1
    /\ UNCHANGED <<clock, nextCheck, disabled, row, results, incident,
                   suppressed, alert, trail, cleanup, inv, crashes, moves, overlapped>>

\* The worker dies: what it had awaited stays done, the rest never happens.
Crash(i) ==
    /\ ~At(i, "idle")
    /\ crashes < MaxCrashes
    /\ crashes' = crashes + 1
    /\ inv' = [inv EXCEPT ![i] = Idle]
    /\ UNCHANGED <<clock, cron, nextCheck, disabled, row, results, incident,
                   suppressed, alert, trail, cleanup, moves, overlapped>>
-----------------------------------------------------------------------------
(* One invocation of run_scheduled_checks.                                 *)

\* Nothing due, or an error: the early return, which leaves the retention
\* pass out too.
SelectNone(i) ==
    /\ At(i, "select")
    /\ Due(i) = {} \/ MayFail("select")
    /\ inv' = [inv EXCEPT ![i] = Idle]
    /\ UNCHANGED <<clock, cron, nextCheck, disabled, row, results, incident,
                   suppressed, alert, trail, cleanup, crashes, moves, overlapped>>

SelectDue(i) ==
    /\ At(i, "select")
    /\ Due(i) # {}
    /\ \E n \in 1..BatchLimit : \E b \in [1..n -> Due(i)] :
        /\ IsBatch(i, b)
        /\ inv' = [inv EXCEPT ![i].pc = "probe", ![i].batch = b]
    /\ UNCHANGED <<clock, cron, nextCheck, disabled, row, results, incident,
                   suppressed, alert, trail, cleanup, crashes, moves, overlapped>>

\* One attempt of execute_check; the first success ends the retries.
Attempt(i) ==
    /\ At(i, "probe")
    /\ \E good \in BOOLEAN :
        inv' = IF ~good /\ inv[i].tries < RetryCount[Current(i)]
               THEN [inv EXCEPT ![i].tries = @ + 1]
               ELSE [inv EXCEPT ![i].pc = "result", ![i].ok = good]
    /\ UNCHANGED <<clock, cron, nextCheck, disabled, row, results, incident,
                   suppressed, alert, trail, cleanup, crashes, moves, overlapped>>

\* results::insert; an error is logged and the check goes on.
InsertResult(i) ==
    /\ At(i, "result")
    /\ \/ LET t == Current(i) IN
          results' = [results EXCEPT ![t] =
                        IF inv[i].ok THEN [good |-> @.good + 1, bad |-> 0]
                                     ELSE [good |-> 0, bad |-> @.bad + 1]]
       \/ MayFail("insert") /\ UNCHANGED results
    /\ GoTo(i, "read")
    /\ UNCHANGED <<clock, cron, nextCheck, disabled, row, incident,
                   suppressed, alert, trail, cleanup, crashes, moves, overlapped>>

\* update_after_check, its SELECT; an error leaves the state row alone.
ReadState(i) ==
    /\ At(i, "read")
    /\ \/ inv' = [inv EXCEPT ![i].pc = "write", ![i].seen = row[Current(i)]]
       \/ MayFail("read") /\ GoTo(i, "reschedule")
    /\ UNCHANGED <<clock, cron, nextCheck, disabled, row, results, incident,
                   suppressed, alert, trail, cleanup, crashes, moves, overlapped>>

\* The state row decided from the row invocation i read.
NewRow(i) ==
    [status |-> Verdict(i),
     succ |-> NewSuccesses(inv[i].seen, inv[i].ok),
     fail |-> NewFailures(inv[i].seen, inv[i].ok),
     since |-> IF Changed(i) \/ inv[i].seen.since = NoTime
               THEN clock ELSE inv[i].seen.since,
     notified |-> row[Current(i)].notified]

\* update_after_check, its UPDATE: unconditional, whatever happened to the
\* row since it was read.  An outage ends when another status is stored.
WriteState(i) ==
    /\ At(i, "write")
    /\ \/ /\ row' = [row EXCEPT ![Current(i)] = NewRow(i)]
          /\ alert' = IF Verdict(i) = "down" THEN alert
                      ELSE [alert EXCEPT ![Current(i)] = "none"]
          /\ GoTo(i, IF Changed(i) THEN "window" ELSE "reschedule")
       \/ MayFail("write") /\ GoTo(i, "reschedule") /\ UNCHANGED <<row, alert>>
    /\ UNCHANGED <<clock, cron, nextCheck, disabled, results, incident,
                   suppressed, trail, cleanup, crashes, moves, overlapped>>

\* handle_state_transition reads the windows, an error counting as none.
CheckWindow(i) ==
    /\ At(i, "window")
    /\ \E silenced \in {suppressed[Current(i)]} \cup
                       (IF MayFail("window") THEN {FALSE} ELSE {}) :
        inv' = [inv EXCEPT ![i].silenced = silenced,
                           ![i].pc = AfterWindow(i, silenced)]
    /\ UNCHANGED <<clock, cron, nextCheck, disabled, row, results, incident,
                   suppressed, alert, trail, cleanup, crashes, moves, overlapped>>

\* incidents::open; any error, the index's refusal too, is logged and ignored.
OpenIncident(i) ==
    /\ At(i, "incident")
    /\ GoesDown(i)
    /\ \/ InsertIncident(Current(i))
       \/ MayFail("open") /\ UNCHANGED incident
    /\ alert' = IF inv[i].silenced THEN [alert EXCEPT ![Current(i)] = "silenced"]
                ELSE alert
    /\ GoTo(i, IF inv[i].silenced THEN "audit" ELSE "dispatch")
    /\ UNCHANGED <<clock, cron, nextCheck, disabled, row, results,
                   suppressed, trail, cleanup, crashes, moves, overlapped>>

\* incidents::auto_resolve.
AutoResolve(i) ==
    /\ At(i, "incident")
    /\ Recovers(i)
    /\ \/ CloseOpen(Current(i))
       \/ MayFail("resolve") /\ UNCHANGED incident
    /\ GoTo(i, IF inv[i].silenced THEN "audit" ELSE "dispatch")
    /\ UNCHANGED <<clock, cron, nextCheck, disabled, row, results,
                   suppressed, alert, trail, cleanup, crashes, moves, overlapped>>

\* dispatch_down or dispatch_up: a failed delivery is logged, never retried.
Dispatch(i) ==
    /\ At(i, "dispatch")
    /\ alert' = IF GoesDown(i)
                THEN [alert EXCEPT ![Current(i)] = "sent"] ELSE alert
    /\ GoTo(i, "mark")
    /\ UNCHANGED <<clock, cron, nextCheck, disabled, row, results, incident,
                   suppressed, trail, cleanup, crashes, moves, overlapped>>

MarkNotified(i) ==
    /\ At(i, "mark")
    /\ \/ row' = [row EXCEPT ![Current(i)].notified = clock]
       \/ MayFail("mark") /\ UNCHANGED row
    /\ GoTo(i, "audit")
    /\ UNCHANGED <<clock, cron, nextCheck, disabled, results, incident,
                   suppressed, alert, trail, cleanup, crashes, moves, overlapped>>

\* log_system_or_report: status_down or status_up.
AuditTransition(i) ==
    /\ At(i, "audit")
    /\ \/ trail' = [trail EXCEPT ![Current(i)] = Verdict(i)]
       \/ MayFail("audit") /\ UNCHANGED trail
    /\ GoTo(i, "reschedule")
    /\ UNCHANGED <<clock, cron, nextCheck, disabled, row, results, incident,
                   suppressed, alert, cleanup, crashes, moves, overlapped>>

\* The UPDATE of next_check_at (an error is dropped), and on to the next target.
Reschedule(i) ==
    LET rest == Tail(inv[i].batch) IN
    /\ At(i, "reschedule")
    /\ \/ nextCheck' = [nextCheck EXCEPT ![Current(i)] = NextCheck(i)]
       \/ MayFail("reschedule") /\ UNCHANGED nextCheck
    /\ inv' = [inv EXCEPT ![i] =
                 [Idle EXCEPT !.pc = AfterTarget(rest), !.nominal = inv[i].nominal,
                              !.start = inv[i].start, !.batch = rest]]
    /\ UNCHANGED <<clock, cron, disabled, row, results, incident,
                   suppressed, alert, trail, cleanup, crashes, moves, overlapped>>

\* The retention pass, decided from the event's nominal minute.
Finish(i) ==
    /\ At(i, "retention")
    /\ cleanup' = IF OnTheHour(inv[i].nominal) THEN inv[i].nominal ELSE cleanup
    /\ inv' = [inv EXCEPT ![i] = Idle]
    /\ UNCHANGED <<clock, cron, nextCheck, disabled, row, results, incident,
                   suppressed, alert, trail, crashes, moves, overlapped>>
-----------------------------------------------------------------------------
(* Operators and maintenance windows.                                      *)

\* incidents::resolve: by id, whatever the incident's status is.
ManualResolve(id) ==
    /\ moves < MaxMoves
    /\ incident[id] # Unborn
    /\ incident' = [incident EXCEPT ![id].status = "resolved",
                                    ![id].by = "admin"]
    /\ moves' = moves + 1
    /\ UNCHANGED <<clock, cron, nextCheck, disabled, row, results,
                   suppressed, alert, trail, cleanup, inv, crashes, overlapped>>

\* targets::update, of which only is_disabled is modelled: the interval, the
\* thresholds and the retries of a target are constants here.
ToggleDisabled(t) ==
    /\ moves < MaxMoves
    /\ disabled' = [disabled EXCEPT ![t] = ~@]
    /\ moves' = moves + 1
    /\ UNCHANGED <<clock, cron, nextCheck, row, results, incident,
                   suppressed, alert, trail, cleanup, inv, crashes, overlapped>>

\* A suppressing window of the target starts or ends.
ToggleWindow(t) ==
    /\ moves < MaxMoves
    /\ suppressed' = [suppressed EXCEPT ![t] = ~@]
    /\ moves' = moves + 1
    /\ UNCHANGED <<clock, cron, nextCheck, disabled, row, results, incident,
                   alert, trail, cleanup, inv, crashes, overlapped>>
-----------------------------------------------------------------------------
Step(i) ==
    \/ SelectNone(i) \/ SelectDue(i) \/ Attempt(i) \/ InsertResult(i)
    \/ ReadState(i) \/ WriteState(i) \/ CheckWindow(i)
    \/ OpenIncident(i) \/ AutoResolve(i) \/ Dispatch(i) \/ MarkNotified(i)
    \/ AuditTransition(i) \/ Reschedule(i) \/ Finish(i)

Next ==
    \/ Tick
    \/ Miss
    \/ \E i \in Invocations : Fire(i) \/ Crash(i) \/ Step(i)
    \/ \E id \in IncidentIds : ManualResolve(id)
    \/ \E t \in Targets : ToggleDisabled(t) \/ ToggleWindow(t)

Spec == Init /\ [][Next]_vars
-----------------------------------------------------------------------------
(* Properties.                                                             *)

StateRows == [status : Status, succ : Nat, fail : Nat, since : Nat, notified : Nat]

Incidents ==
    [target : Targets, status : {"open", "resolved"},
     by : {"none", "system", "admin"}, openedAt : Nat] \cup {Unborn}

\* Between two targets an invocation stands before "probe", so from there to
\* "reschedule" it has a current target.
Busy == {"probe", "result", "read", "write", "window", "incident", "dispatch",
         "mark", "audit", "reschedule"}

InvocationStates ==
    [pc : Busy \cup {"idle", "select", "retention"}, nominal : Nat, start : Nat,
     batch : Seq(Targets), tries : Nat, ok : BOOLEAN, seen : StateRows,
     silenced : BOOLEAN]

\* Every variable keeps its type, and an invocation at work on a target has
\* one at the head of its batch.
TypeOK ==
    /\ clock \in Nat /\ cron \in Nat /\ cleanup \in Nat
    /\ crashes \in Nat /\ moves \in Nat /\ overlapped \in BOOLEAN
    /\ nextCheck \in [Targets -> Nat]
    /\ disabled \in [Targets -> BOOLEAN]
    /\ row \in [Targets -> StateRows]
    /\ results \in [Targets -> [good : Nat, bad : Nat]]
    /\ incident \in [IncidentIds -> Incidents]
    /\ suppressed \in [Targets -> BOOLEAN]
    /\ alert \in [Targets -> {"none", "silenced", "sent"}]
    /\ trail \in [Targets -> Status \cup {"none"}]
    /\ inv \in [Invocations -> InvocationStates]
    /\ \A i \in Invocations : inv[i].pc \in Busy => inv[i].batch # <<>>

\* FR-INC-03: a target never has two open incidents, whatever overlaps,
\* crashes and errors there are (incidents::open and the unique index of
\* sql/0009 on open incidents).
OneOpenIncident ==
    \A a, b \in IncidentIds :
        /\ incident[a].status = "open" /\ incident[b].status = "open"
        /\ incident[a].target = incident[b].target
        => a = b

\* A row that decide_transition could have written: one of its counters is
\* zero, and neither has reached a threshold that had to change the status.
Coherent(r, t) ==
    /\ r.succ = 0 \/ r.fail = 0
    /\ r.status # "down" => r.fail < FailureThreshold[t]
    /\ r.status = "down" => r.succ < SuccessThreshold[t]
    /\ r.status = "unknown" => r.succ = 0

\* Lost updates of update_after_check mix whole rows, never halves of rows:
\* a stored row always is one that some sequence of checks produces.
RowsCoherent == \A t \in Targets : Coherent(row[t], t)

\* FR-MON-06: a stored status turns `down` only behind failure_threshold
\* failures at the end of check_results, and leaves `down` only behind
\* success_threshold successes (update_after_check, decide_transition).
Justified ==
    \A t \in Targets :
        LET was == row[t].status
            is  == row'[t].status
        IN  /\ (was # "down" /\ is = "down") => results[t].bad >= FailureThreshold[t]
            /\ (was = "down" /\ is # "down") => results[t].good >= SuccessThreshold[t]
TransitionsJustified == [][Justified]_vars

\* A step of the monitor never rewrites a resolution an administrator has
\* recorded (auto_resolve touches open incidents only).
AdminResolutionKept ==
    [][\A id \in IncidentIds :
         incident[id].by = "admin" => incident'[id] = incident[id]]_vars

\* FR-MON-08: one outage is notified once.  While no invocation has started
\* beside another, whatever crashes and errors there are, an invocation about
\* to dispatch a down notification finds none sent since the status turned
\* `down`.
AlertOncePerOutage ==
    ~overlapped => \A i \in Invocations :
        At(i, "dispatch") /\ GoesDown(i) => alert[Current(i)] # "sent"

\* No invocation is between storing the target's status and rescheduling it.
Settled(t) ==
    \A i \in Invocations :
        inv[i].pc \in {"window", "incident", "dispatch", "mark", "audit"}
            => Current(i) # t

\* Invocation i has stored t's new status and not yet dealt with its incident.
Unhandled(i, t) == inv[i].pc \in {"window", "incident"} /\ Current(i) = t
Settling(t) == \E i \in Invocations : Unhandled(i, t)

\* FR-INC-01, FR-SUP-05, FR-SUP-06: once handle_state_transition is done,
\* the status, the incidents, the notification and the audit trail agree.
\* Down: an incident was opened for this outage, the outage was notified or
\* silenced and the trail says down.  Otherwise: no incident is open.
TransitionHandled ==
    \A t \in Targets : Settled(t) =>
        IF row[t].status = "down"
        THEN /\ \E id \in IncidentIds : /\ incident[id].target = t
                                        /\ incident[id].openedAt >= row[t].since
             /\ \/ alert[t] = "silenced"
                \/ alert[t] = "sent" /\ row[t].notified >= row[t].since
             /\ trail[t] = "down"
        ELSE ~HasOpenIncident(t) /\ trail[t] # "down"

\* The promise of FR-INC-01: between the moves of an outage nothing is seen of
\* the worker's own steps.  A status counts once its incident was dealt with.
HandledStatus ==
    [t \in Targets |->
        IF Settling(t)
        THEN inv[CHOOSE i \in Invocations : Unhandled(i, t)].seen.status
        ELSE row[t].status]

Promise == INSTANCE Outage WITH
    status <- HandledStatus, open <- [t \in Targets |-> HasOpenIncident(t)]

\* The worker implements the abstract outage (one invocation, no error).
OutageImplemented == Promise!Spec

\* What keeps the LIMIT of the due query from starving a target: a target
\* that was checked goes behind every one that was due when its sweep began,
\* however late the sweep is and whatever the intervals are (an error leaves
\* the target where it was).
NoOvertaking ==
    [][\A i \in Invocations, t \in Targets :
         /\ Reschedule(i) /\ nextCheck' # nextCheck
         /\ t # Current(i) /\ nextCheck[t] <= inv[i].start
         => nextCheck'[Current(i)] > nextCheck[t]]_vars
=============================================================================
