--------------------------- MODULE MonitorProofs ---------------------------
(***************************************************************************)
(* Theorems about Monitor for every value of its constants: any number of  *)
(* targets, invocations and incidents, any thresholds, overlapping or not, *)
(* with any crashes and any failing D1 call.                               *)
(***************************************************************************)
EXTENDS Monitor, TLAPS

\* What the decision yields has the types of a state row's columns.
LEMMA DecisionType ==
    ASSUME NEW r \in StateRows, NEW ok \in BOOLEAN,
           NEW st \in Nat, NEW ft \in Nat
    PROVE  /\ DecideStatus(r, ok, st, ft) \in Status
           /\ NewSuccesses(r, ok) \in Nat
           /\ NewFailures(r, ok) \in Nat
BY DEF DecideStatus, Falls, Rises, NewSuccesses, NewFailures, StateRows, Status

\* An invocation at work on a target: its target, what it decides, the row it
\* would write and the batch left after the target.
LEMMA AtWork ==
    ASSUME TypeOK, ConstantsAssumption,
           NEW i \in Invocations, inv[i].pc \in Busy
    PROVE  /\ Current(i) \in Targets
           /\ Verdict(i) \in Status
           /\ NewRow(i) \in StateRows
           /\ NextCheck(i) \in Nat
           /\ Tail(inv[i].batch) \in Seq(Targets)
<1>1. /\ inv[i] \in InvocationStates
      /\ inv[i].batch # <<>>
      /\ row \in [Targets -> StateRows]
      /\ clock \in Nat
  BY DEF TypeOK
<1>2. /\ inv[i].batch \in Seq(Targets)
      /\ inv[i].seen \in StateRows
      /\ inv[i].ok \in BOOLEAN
      /\ inv[i].start \in Nat
  BY <1>1 DEF InvocationStates
<1>3. Head(inv[i].batch) \in Targets /\ Tail(inv[i].batch) \in Seq(Targets)
  BY <1>1, <1>2
<1>4. /\ SuccessThreshold[Current(i)] \in Nat
      /\ FailureThreshold[Current(i)] \in Nat
      /\ Interval[Current(i)] \in Nat
  BY <1>3 DEF ConstantsAssumption, Current
<1>5. /\ Verdict(i) \in Status
      /\ NewSuccesses(inv[i].seen, inv[i].ok) \in Nat
      /\ NewFailures(inv[i].seen, inv[i].ok) \in Nat
  BY <1>2, <1>4, DecisionType DEF Verdict
<1>6. inv[i].seen.since \in Nat /\ row[Current(i)].notified \in Nat
  BY <1>1, <1>2, <1>3 DEF StateRows, Current
<1>7. NewRow(i) \in StateRows
  BY <1>1, <1>5, <1>6 DEF NewRow, StateRows
<1>8. NextCheck(i) \in Nat
  BY <1>2, <1>4 DEF NextCheck
<1> QED
  BY <1>3, <1>5, <1>7, <1>8 DEF Current

\* Moving one invocation to a next state of the right type keeps inv's part of
\* TypeOK, the only part the steps share.
InvOK ==
    /\ inv \in [Invocations -> InvocationStates]
    /\ \A i \in Invocations : inv[i].pc \in Busy => inv[i].batch # <<>>

\* Replacing one invocation's variables by well-typed ones keeps them all so.
LEMMA InvStep ==
    ASSUME InvOK, NEW i \in Invocations, NEW next \in InvocationStates,
           next.pc \in Busy => next.batch # <<>>,
           inv' = [inv EXCEPT ![i] = next]
    PROVE  InvOK'
BY DEF InvOK

\* Moving one invocation to another place keeps the invocations' types.
LEMMA MoveStep ==
    ASSUME TypeOK, NEW i \in Invocations, inv[i].pc \in Busy,
           NEW next \in InvocationStates, next.batch = inv[i].batch,
           inv' = [inv EXCEPT ![i] = next]
    PROVE  InvOK'
<1>1. InvOK /\ next.batch # <<>>
  BY DEF TypeOK, InvOK
<1> QED
  BY <1>1, InvStep

\* GoTo, the move that changes nothing but the place, keeps them too.
LEMMA GoToStep ==
    ASSUME TypeOK, NEW i \in Invocations, inv[i].pc \in Busy,
           NEW pc \in Busy, GoTo(i, pc)
    PROVE  InvOK'
<1> DEFINE next == [inv[i] EXCEPT !.pc = pc]
<1>1. inv[i] \in InvocationStates /\ DOMAIN inv = Invocations
  BY DEF TypeOK
<1>2. next \in InvocationStates /\ next.batch = inv[i].batch
  BY <1>1 DEF InvocationStates
<1>3. inv' = [inv EXCEPT ![i] = next]
  BY DEF GoTo
<1> QED
  BY <1>2, <1>3, MoveStep

\* An INSERT or an UPDATE of incidents leaves rows of the table's type.
LEMMA IncidentType ==
    ASSUME TypeOK, NEW t \in Targets, InsertIncident(t) \/ CloseOpen(t)
    PROVE  incident' \in [IncidentIds -> Incidents]
<1>1. incident \in [IncidentIds -> Incidents] /\ clock \in Nat
  BY DEF TypeOK
<1>2. ASSUME NEW id \in IncidentIds, incident[id].status = "open"
      PROVE  [incident[id] EXCEPT !.status = "resolved", !.by = "system"]
               \in Incidents
  <2>1. incident[id] \in [target : Targets, status : {"open", "resolved"},
                          by : {"none", "system", "admin"}, openedAt : Nat]
    BY <1>1, <1>2 DEF Incidents, Unborn
  <2> QED
    BY <2>1 DEF Incidents
<1>3. CASE InsertIncident(t)
  BY <1>1, <1>3 DEF InsertIncident, InsertUnindexed, Incidents
<1>4. CASE CloseOpen(t)
  BY <1>1, <1>2, <1>4 DEF CloseOpen
<1> QED
  BY <1>3, <1>4

\* TypeOK is inductive as it stands.
LEMMA TypeStep == TypeOK /\ ConstantsAssumption /\ [Next]_vars => TypeOK'
<1> SUFFICES ASSUME TypeOK, ConstantsAssumption, [Next]_vars
             PROVE  TypeOK'
  OBVIOUS
<1> USE DEF NoTime
<1>0. InvOK
  BY DEF TypeOK, InvOK
<1>idle. Idle \in InvocationStates /\ Idle.pc \notin Busy
  BY DEF Idle, FreshRow, InvocationStates, StateRows, Status, Busy
<1>1. CASE Tick
  BY <1>1 DEF TypeOK, Tick
<1>2. CASE Miss
  BY <1>2 DEF TypeOK, Miss
<1>3. ASSUME NEW i \in Invocations, Fire(i) PROVE TypeOK'
  <2> DEFINE next == [Idle EXCEPT !.pc = "select", !.nominal = cron, !.start = clock]
  <2>0. cron \in Nat /\ clock \in Nat
    BY DEF TypeOK
  <2>1. next \in InvocationStates /\ next.pc \notin Busy
    BY <1>idle, <2>0 DEF InvocationStates, Busy
  <2>2. InvOK'
    BY <1>0, <1>3, <2>1, InvStep DEF Fire
  <2> QED
    BY <1>3, <2>2 DEF TypeOK, InvOK, Fire
<1>4. ASSUME NEW i \in Invocations, Crash(i) PROVE TypeOK'
  <2>1. InvOK'
    BY <1>0, <1>4, <1>idle, InvStep DEF Crash
  <2> QED
    BY <1>4, <2>1 DEF TypeOK, InvOK, Crash
<1>5. ASSUME NEW i \in Invocations, Step(i) PROVE TypeOK'
  <2>0. inv[i] \in InvocationStates /\ DOMAIN inv = Invocations
    BY DEF TypeOK
  <2>c. clock \in Nat
    BY DEF TypeOK
  <2>1. CASE SelectNone(i)
    <3>1. InvOK'
      BY <1>0, <1>idle, <2>1, InvStep DEF SelectNone
    <3> QED
      BY <2>1, <3>1 DEF TypeOK, InvOK, SelectNone
  <2>2. CASE SelectDue(i)
    <3>n. PICK n \in 1..BatchLimit : \E b \in [1..n -> Due(i)] :
            inv' = [inv EXCEPT ![i].pc = "probe", ![i].batch = b]
      BY <2>2 DEF SelectDue
    <3>1. PICK b \in [1..n -> Due(i)] :
            inv' = [inv EXCEPT ![i].pc = "probe", ![i].batch = b]
      BY <3>n
    <3>2. b \in Seq(Targets) /\ b # <<>>
      <4>1. b \in [1..n -> Targets] /\ n \in Nat /\ n # 0
        BY DEF Due, ConstantsAssumption
      <4> QED
        BY <4>1
    <3> DEFINE next == [inv[i] EXCEPT !.pc = "probe", !.batch = b]
    <3>3. next \in InvocationStates /\ next.batch = b
      BY <2>0, <2>c, <3>2 DEF InvocationStates, Busy
    <3>4. inv' = [inv EXCEPT ![i] = next]
      BY <3>1
    <3>5. InvOK'
      BY <1>0, <3>2, <3>3, <3>4, InvStep
    <3> QED
      BY <2>2, <3>5 DEF TypeOK, InvOK, SelectDue
  <2>3. CASE Attempt(i)
    <3>0. inv[i].pc \in Busy
      BY <2>3 DEF Attempt, At, Busy
    <3>1. PICK good \in BOOLEAN :
            inv' = IF ~good /\ inv[i].tries < RetryCount[Current(i)]
                   THEN [inv EXCEPT ![i].tries = @ + 1]
                   ELSE [inv EXCEPT ![i].pc = "result", ![i].ok = good]
      BY <2>3 DEF Attempt
    <3>2. ASSUME inv' = [inv EXCEPT ![i].tries = @ + 1] PROVE InvOK'
      <4> DEFINE next == [inv[i] EXCEPT !.tries = @ + 1]
      <4>0. inv[i].tries + 1 \in Nat
        BY <2>0 DEF InvocationStates
      <4>1. next \in InvocationStates /\ next.batch = inv[i].batch
        BY <2>0, <4>0 DEF InvocationStates
      <4>2. inv' = [inv EXCEPT ![i] = next]
        BY <3>2
      <4> HIDE DEF next
      <4> QED
        BY <3>0, <4>1, <4>2, MoveStep
    <3>3. ASSUME inv' = [inv EXCEPT ![i].pc = "result", ![i].ok = good] PROVE InvOK'
      <4> DEFINE next == [inv[i] EXCEPT !.pc = "result", !.ok = good]
      <4>1. next \in InvocationStates /\ next.batch = inv[i].batch
        BY <2>0 DEF InvocationStates, Busy
      <4>2. inv' = [inv EXCEPT ![i] = next]
        BY <3>3
      <4> HIDE DEF next
      <4> QED
        BY <3>0, <4>1, <4>2, MoveStep
    <3>5. InvOK'
      BY <3>1, <3>2, <3>3
    <3> QED
      BY <2>3, <3>5 DEF TypeOK, InvOK, Attempt
  <2>4. CASE InsertResult(i)
    <3>1. inv[i].pc \in Busy /\ inv[i].ok \in BOOLEAN
      BY <2>0, <2>4 DEF InsertResult, At, Busy, InvocationStates
    <3>2. InvOK'
      BY <2>4, <3>1, GoToStep DEF InsertResult, Busy
    <3>3. results \in [Targets -> [good : Nat, bad : Nat]] /\ Current(i) \in Targets
      BY <3>1, AtWork DEF TypeOK
    <3>4. results' \in [Targets -> [good : Nat, bad : Nat]]
      BY <2>4, <3>3 DEF InsertResult
    <3> QED
      BY <2>4, <3>2, <3>4 DEF TypeOK, InvOK, InsertResult
  <2>5. CASE ReadState(i)
    <3>1. inv[i].pc \in Busy
      BY <2>5 DEF ReadState, At, Busy
    <3>2. CASE GoTo(i, "reschedule")
      <4>1. InvOK'
        BY <3>1, <3>2, GoToStep DEF Busy
      <4> QED
        BY <2>5, <4>1 DEF TypeOK, InvOK, ReadState
    <3>3. CASE inv' = [inv EXCEPT ![i].pc = "write", ![i].seen = row[Current(i)]]
      <4> DEFINE next == [inv[i] EXCEPT !.pc = "write", !.seen = row[Current(i)]]
      <4>1. row[Current(i)] \in StateRows
        BY <3>1, AtWork DEF TypeOK
      <4>2. next \in InvocationStates /\ next.batch = inv[i].batch
        BY <2>0, <4>1 DEF InvocationStates, Busy
      <4>4. inv' = [inv EXCEPT ![i] = next]
        BY <3>3
      <4>5. InvOK'
        BY <3>1, <4>2, <4>4, MoveStep
      <4> QED
        BY <2>5, <4>5 DEF TypeOK, InvOK, ReadState
    <3> QED
      BY <2>5, <3>2, <3>3 DEF ReadState
  <2>6. CASE WriteState(i)
    <3>1. inv[i].pc \in Busy
      BY <2>6 DEF WriteState, At, Busy
    <3>2. InvOK'
      BY <2>6, <3>1, GoToStep DEF WriteState, Busy
    <3>3. /\ row \in [Targets -> StateRows] /\ NewRow(i) \in StateRows
          /\ alert \in [Targets -> {"none", "silenced", "sent"}]
      BY <3>1, AtWork DEF TypeOK
    <3>4. /\ row' \in [Targets -> StateRows]
          /\ alert' \in [Targets -> {"none", "silenced", "sent"}]
      BY <2>6, <3>3 DEF WriteState
    <3> QED
      BY <2>6, <3>2, <3>4 DEF TypeOK, InvOK, WriteState
  <2>7. CASE CheckWindow(i)
    <3>1. inv[i].pc \in Busy
      BY <2>7 DEF CheckWindow, At, Busy
    <3>2. suppressed[Current(i)] \in BOOLEAN
      BY <3>1, AtWork DEF TypeOK
    <3>3. PICK silenced \in {suppressed[Current(i)]} \cup
                       (IF MayFail("window") THEN {FALSE} ELSE {}) :
        inv' = [inv EXCEPT ![i].silenced = silenced,
                           ![i].pc = AfterWindow(i, silenced)]
      BY <2>7 DEF CheckWindow
    <3> DEFINE next == [inv[i] EXCEPT !.silenced = silenced,
                                      !.pc = AfterWindow(i, silenced)]
    <3>4. silenced \in BOOLEAN /\ AfterWindow(i, silenced) \in Busy
      BY <3>2 DEF AfterWindow, Busy
    <3>5. next \in InvocationStates /\ next.batch = inv[i].batch
      BY <2>0, <3>4 DEF InvocationStates
    <3>6. inv' = [inv EXCEPT ![i] = next]
      BY <3>3
    <3>7. InvOK'
      BY <3>1, <3>5, <3>6, MoveStep
    <3> QED
      BY <2>7, <3>7 DEF TypeOK, InvOK, CheckWindow
  <2>8. CASE OpenIncident(i)
    <3>1. inv[i].pc \in Busy
      BY <2>8 DEF OpenIncident, At, Busy
    <3>2. InvOK'
      BY <2>8, <3>1, GoToStep DEF OpenIncident, Busy
    <3>3. incident \in [IncidentIds -> Incidents] /\ Current(i) \in Targets
          /\ alert \in [Targets -> {"none", "silenced", "sent"}]
      BY <3>1, AtWork DEF TypeOK
    <3>4. incident' \in [IncidentIds -> Incidents]
      BY <2>8, <3>3, IncidentType DEF OpenIncident
    <3>5. alert' \in [Targets -> {"none", "silenced", "sent"}]
      BY <2>8, <3>3 DEF OpenIncident
    <3> QED
      BY <2>8, <3>2, <3>4, <3>5 DEF TypeOK, InvOK, OpenIncident
  <2>9. CASE AutoResolve(i)
    <3>1. inv[i].pc \in Busy
      BY <2>9 DEF AutoResolve, At, Busy
    <3>2. InvOK'
      BY <2>9, <3>1, GoToStep DEF AutoResolve, Busy
    <3>3. incident \in [IncidentIds -> Incidents] /\ Current(i) \in Targets
      BY <3>1, AtWork DEF TypeOK
    <3>4. incident' \in [IncidentIds -> Incidents]
      BY <2>9, <3>3, IncidentType DEF AutoResolve
    <3> QED
      BY <2>9, <3>2, <3>4 DEF TypeOK, InvOK, AutoResolve
  <2>10. CASE Dispatch(i)
    <3>1. inv[i].pc \in Busy
      BY <2>10 DEF Dispatch, At, Busy
    <3>2. InvOK'
      BY <2>10, <3>1, GoToStep DEF Dispatch, Busy
    <3>3. alert \in [Targets -> {"none", "silenced", "sent"}]
      BY DEF TypeOK
    <3>4. alert' \in [Targets -> {"none", "silenced", "sent"}]
      BY <2>10, <3>3 DEF Dispatch
    <3> QED
      BY <2>10, <3>2, <3>4 DEF TypeOK, InvOK, Dispatch
  <2>11. CASE MarkNotified(i)
    <3>1. inv[i].pc \in Busy
      BY <2>11 DEF MarkNotified, At, Busy
    <3>2. InvOK'
      BY <2>11, <3>1, GoToStep DEF MarkNotified, Busy
    <3>3. row \in [Targets -> StateRows]
      BY DEF TypeOK
    <3>4. row' \in [Targets -> StateRows]
      BY <2>c, <2>11, <3>3 DEF MarkNotified, StateRows
    <3> QED
      BY <2>11, <3>2, <3>4 DEF TypeOK, InvOK, MarkNotified
  <2>12. CASE AuditTransition(i)
    <3>1. inv[i].pc \in Busy
      BY <2>12 DEF AuditTransition, At, Busy
    <3>2. InvOK'
      BY <2>12, <3>1, GoToStep DEF AuditTransition, Busy
    <3>3. trail \in [Targets -> Status \cup {"none"}] /\ Verdict(i) \in Status
      BY <3>1, AtWork DEF TypeOK
    <3>4. trail' \in [Targets -> Status \cup {"none"}]
      BY <2>12, <3>3 DEF AuditTransition
    <3> QED
      BY <2>12, <3>2, <3>4 DEF TypeOK, InvOK, AuditTransition
  <2>13. CASE Reschedule(i)
    <3> DEFINE rest == Tail(inv[i].batch)
               next == [Idle EXCEPT !.pc = AfterTarget(rest),
                                    !.nominal = inv[i].nominal,
                                    !.start = inv[i].start, !.batch = rest]
    <3>1. inv[i].pc \in Busy
      BY <2>13 DEF Reschedule, At, Busy
    <3>2. rest \in Seq(Targets) /\ NextCheck(i) \in Nat
      BY <3>1, AtWork
    <3>3. inv[i].nominal \in Nat /\ inv[i].start \in Nat
      BY <2>0 DEF InvocationStates
    <3>5. inv' = [inv EXCEPT ![i] = next]
      BY <2>13 DEF Reschedule
    <3> HIDE DEF rest
    <3>4. AfterTarget(rest) = "retention" \/ (AfterTarget(rest) = "probe" /\ rest # <<>>)
      BY DEF AfterTarget
    <3>a. AfterTarget(rest) \in Busy \cup {"idle", "select", "retention"}
      BY <3>4 DEF Busy
    <3>b. Idle \in InvocationStates
      BY <1>idle
    <3>6. next \in InvocationStates /\ next.batch = rest /\ next.pc = AfterTarget(rest)
      BY <3>2, <3>3, <3>a, <3>b DEF InvocationStates
    <3>7. next.pc \in Busy => next.batch # <<>>
      BY <3>4, <3>6 DEF Busy
    <3> HIDE DEF next
    <3>8. InvOK'
      BY <1>0, <3>5, <3>6, <3>7, InvStep
    <3>9. nextCheck \in [Targets -> Nat]
      BY DEF TypeOK
    <3>10. nextCheck' \in [Targets -> Nat]
      BY <2>13, <3>2, <3>9 DEF Reschedule
    <3> QED
      BY <2>13, <3>8, <3>10 DEF TypeOK, InvOK, Reschedule
  <2>14. CASE Finish(i)
    <3>1. InvOK'
      BY <1>0, <1>idle, <2>14, InvStep DEF Finish
    <3>2. cleanup' \in Nat
      BY <2>0, <2>14 DEF TypeOK, Finish, InvocationStates
    <3> QED
      BY <2>14, <3>1, <3>2 DEF TypeOK, InvOK, Finish
  <2> QED
    BY <1>5, <2>1, <2>2, <2>3, <2>4, <2>5, <2>6, <2>7, <2>8, <2>9, <2>10,
       <2>11, <2>12, <2>13, <2>14 DEF Step
<1>6. ASSUME NEW id \in IncidentIds, ManualResolve(id) PROVE TypeOK'
  <2>1. incident \in [IncidentIds -> Incidents] /\ incident[id] # Unborn
    BY <1>6 DEF TypeOK, ManualResolve
  <2>2. incident[id] \in [target : Targets, status : {"open", "resolved"},
                          by : {"none", "system", "admin"}, openedAt : Nat]
    BY <2>1 DEF Incidents
  <2>3. [incident[id] EXCEPT !.status = "resolved", !.by = "admin"] \in Incidents
    BY <2>2 DEF Incidents
  <2>4. incident' = [incident EXCEPT ![id] =
            [incident[id] EXCEPT !.status = "resolved", !.by = "admin"]]
    BY <1>6 DEF ManualResolve
  <2>5. incident' \in [IncidentIds -> Incidents]
    BY <2>1, <2>3, <2>4
  <2> QED
    BY <1>6, <2>5, SMTT(60) DEF TypeOK, ManualResolve
<1>7. ASSUME NEW t \in Targets, ToggleDisabled(t) PROVE TypeOK'
  BY <1>7 DEF TypeOK, ToggleDisabled
<1>8. ASSUME NEW t \in Targets, ToggleWindow(t) PROVE TypeOK'
  BY <1>8 DEF TypeOK, ToggleWindow
<1>9. CASE UNCHANGED vars
  BY <1>9 DEF TypeOK, vars
<1> QED
  BY <1>1, <1>2, <1>3, <1>4, <1>5, <1>6, <1>7, <1>8, <1>9 DEF Next

\* The types hold at the start.
LEMMA TypeInit == ConstantsAssumption /\ Init => TypeOK
<1> SUFFICES ASSUME ConstantsAssumption, Init PROVE TypeOK
  OBVIOUS
<1>1. FreshRow \in StateRows
  BY DEF FreshRow, StateRows, Status, NoTime
<1>2. Idle \in InvocationStates /\ Idle.pc \notin Busy
  BY <1>1 DEF Idle, InvocationStates, Busy, NoTime
<1>3. Unborn \in Incidents
  BY DEF Incidents
<1>4. \A i \in Invocations : inv[i].pc \notin Busy
  BY <1>2 DEF Init
<1> QED
  BY <1>1, <1>2, <1>3, <1>4 DEF Init, TypeOK, NoTime

\* Whatever overlaps, dies or fails, every variable keeps its type, and an
\* invocation at work on a target has one.
THEOREM TypeCorrect == Spec => []TypeOK
BY TypeInit, TypeStep, ConstantsAssumption, PTL DEF Spec
-----------------------------------------------------------------------------
(* At most one open incident.  The invariant is inductive beside TypeOK:   *)
(* the unique index is all that guards the INSERT.                         *)

\* No step gives a target a second open incident: the INSERT is refused while
\* one is open, and every other write to incidents closes.
LEMMA OneOpenStep ==
    TypeOK /\ ConstantsAssumption /\ OneOpenIncident /\ [Next]_vars
        => OneOpenIncident'
<1> SUFFICES ASSUME TypeOK, ConstantsAssumption, OneOpenIncident, [Next]_vars
             PROVE  OneOpenIncident'
  OBVIOUS
<1>1. incident \in [IncidentIds -> Incidents]
  BY DEF TypeOK
<1>2. CASE UNCHANGED incident
  BY <1>2 DEF OneOpenIncident
<1>3. ASSUME NEW t \in Targets, InsertIncident(t) PROVE OneOpenIncident'
  <2>1. CASE HasOpenIncident(t)
    BY <1>3, <1>2, <2>1 DEF InsertIncident
  <2>2. CASE ~HasOpenIncident(t)
    <3>1. PICK id \in IncidentIds :
            incident' = [incident EXCEPT ![id] =
               [target |-> t, status |-> "open", by |-> "none", openedAt |-> clock]]
      BY <1>3, <2>2 DEF InsertIncident, InsertUnindexed
    <3>2. \A a \in IncidentIds :
            incident[a].status = "open" => incident[a].target # t
      BY <2>2 DEF HasOpenIncident
    <3>3. /\ incident'[id].status = "open" /\ incident'[id].target = t
          /\ \A a \in IncidentIds : a # id => incident'[a] = incident[a]
      BY <1>1, <3>1
    <3> QED
      BY <3>2, <3>3 DEF OneOpenIncident
  <2> QED
    BY <2>1, <2>2
\* Closing an incident, by either hand, opens none.
<1>4. ASSUME \A a \in IncidentIds :
               incident'[a].status = "open" => incident'[a] = incident[a]
      PROVE  OneOpenIncident'
  BY <1>4 DEF OneOpenIncident
<1>5. ASSUME NEW t \in Targets, CloseOpen(t) PROVE OneOpenIncident'
  <2>1. ASSUME NEW a \in IncidentIds
        PROVE  incident'[a].status = "open" => incident'[a] = incident[a]
    <3>1. incident'[a] = IF incident[a].target = t /\ incident[a].status = "open"
                THEN [incident[a] EXCEPT !.status = "resolved", !.by = "system"]
                ELSE incident[a]
      BY <1>5 DEF CloseOpen
    <3>2. incident[a] \in Incidents
      BY <1>1
    <3>3. [incident[a] EXCEPT !.status = "resolved", !.by = "system"].status
            = "resolved"
      BY <3>2 DEF Incidents, Unborn
    <3> QED
      BY <3>1, <3>3
  <2> QED
    BY <1>4, <2>1
<1>6. ASSUME NEW id \in IncidentIds, ManualResolve(id) PROVE OneOpenIncident'
  <2>1. incident'[id].status = "resolved"
    BY <1>1, <1>6 DEF ManualResolve, Incidents, Unborn
  <2>2. \A a \in IncidentIds : a # id => incident'[a] = incident[a]
    BY <1>1, <1>6 DEF ManualResolve
  <2> QED
    BY <1>4, <2>1, <2>2
<1>7. ASSUME NEW i \in Invocations, Step(i) PROVE OneOpenIncident'
  <2>1. CASE OpenIncident(i)
    <3>1. Current(i) \in Targets
      BY <2>1, AtWork DEF OpenIncident, At, Busy
    <3> QED
      BY <1>2, <1>3, <2>1, <3>1 DEF OpenIncident
  <2>2. CASE AutoResolve(i)
    <3>1. Current(i) \in Targets
      BY <2>2, AtWork DEF AutoResolve, At, Busy
    <3> QED
      BY <1>2, <1>5, <2>2, <3>1 DEF AutoResolve
  <2>3. CASE UNCHANGED incident
    BY <1>2, <2>3
  <2> QED
    BY <1>7, <2>1, <2>2, <2>3
    DEF Step, SelectNone, SelectDue, Attempt, InsertResult, ReadState,
        WriteState, CheckWindow, Dispatch, MarkNotified, AuditTransition,
        Reschedule, Finish
<1> QED
  BY <1>2, <1>6, <1>7
  DEF Next, Tick, Miss, Fire, Crash, ToggleDisabled, ToggleWindow, vars

\* FR-INC-03 for any number of overlapping, dying or failing invocations.
THEOREM OneOpenIncidentHolds == Spec => []OneOpenIncident
<1>1. Init => OneOpenIncident
  BY DEF Init, Unborn, OneOpenIncident
<1> QED
  BY <1>1, TypeCorrect, OneOpenStep, ConstantsAssumption, PTL DEF Spec
-----------------------------------------------------------------------------
(* Coherent rows.  A row is written from the row its invocation read, maybe *)
(* long before: what makes RowsCoherent inductive is that the row read was *)
(* coherent too.                                                           *)

SeenCoherent ==
    \A i \in Invocations : At(i, "write") => Coherent(inv[i].seen, Current(i))

RowsInv == RowsCoherent /\ SeenCoherent

\* One check leads from a coherent row to a coherent row.
LEMMA CheckCoherent ==
    ASSUME NEW r \in StateRows, NEW ok \in BOOLEAN,
           NEW st \in Nat \ {0}, NEW ft \in Nat \ {0},
           r.succ = 0 \/ r.fail = 0,
           r.status # "down" => r.fail < ft,
           r.status = "down" => r.succ < st,
           r.status = "unknown" => r.succ = 0,
           NEW status, status = DecideStatus(r, ok, st, ft),
           NEW succ, succ = NewSuccesses(r, ok),
           NEW fail, fail = NewFailures(r, ok)
    PROVE  /\ succ = 0 \/ fail = 0
           /\ status # "down" => fail < ft
           /\ status = "down" => succ < st
           /\ status = "unknown" => succ = 0
<1>1. r.succ \in Nat /\ r.fail \in Nat /\ r.status \in {"unknown", "up", "down"}
  BY DEF StateRows, Status
<1>2. CASE ok
  BY <1>1, <1>2 DEF DecideStatus, Falls, Rises, NewSuccesses, NewFailures
<1>3. CASE ~ok
  BY <1>1, <1>3 DEF DecideStatus, Falls, Rises, NewSuccesses, NewFailures
<1> QED
  BY <1>2, <1>3

\* The row an invocation is about to store is coherent if the one it read is.
LEMMA NewRowCoherent ==
    ASSUME TypeOK, ConstantsAssumption, NEW i \in Invocations, At(i, "write"),
           Coherent(inv[i].seen, Current(i))
    PROVE  Coherent(NewRow(i), Current(i))
<1>1. Current(i) \in Targets
  BY AtWork DEF At, Busy
<1>2. inv[i].seen \in StateRows /\ inv[i].ok \in BOOLEAN
  BY DEF TypeOK, InvocationStates
<1>3. /\ SuccessThreshold[Current(i)] \in Nat \ {0}
      /\ FailureThreshold[Current(i)] \in Nat \ {0}
  BY <1>1 DEF ConstantsAssumption
<1>4. /\ NewRow(i).status = Verdict(i)
      /\ NewRow(i).succ = NewSuccesses(inv[i].seen, inv[i].ok)
      /\ NewRow(i).fail = NewFailures(inv[i].seen, inv[i].ok)
  BY DEF NewRow
<1> QED
  BY <1>2, <1>3, <1>4, CheckCoherent DEF Coherent, Verdict

\* A step of one invocation leaves the other invocations alone.
LEMMA StepFrame ==
    ASSUME TypeOK, NEW i \in Invocations, Step(i) \/ Fire(i) \/ Crash(i)
    PROVE  \A j \in Invocations : j # i => inv'[j] = inv[j]
BY DEF Step, SelectNone, SelectDue, Attempt, InsertResult, ReadState,
       WriteState, CheckWindow, OpenIncident, AutoResolve, Dispatch,
       MarkNotified, AuditTransition, Reschedule, Finish, Fire, Crash, GoTo,
       TypeOK

\* The only step that leads to "write" is the one that reads the row.
LEMMA WriteFrame ==
    ASSUME TypeOK, NEW i \in Invocations,
           Step(i) \/ Fire(i) \/ Crash(i), ~ReadState(i)
    PROVE  inv'[i].pc # "write"
<1>1. inv[i] \in InvocationStates /\ DOMAIN inv = Invocations
  BY DEF TypeOK
<1>2. CASE SelectDue(i)
  <2>1. inv'[i].pc = "probe"
    BY <1>1, <1>2 DEF SelectDue, InvocationStates
  <2> QED
    BY <2>1
<1>3. CASE Attempt(i)
  BY <1>1, <1>3 DEF Attempt, At, InvocationStates
<1>4. CASE CheckWindow(i)
  BY <1>1, <1>4 DEF CheckWindow, AfterWindow, InvocationStates
<1>5. CASE Reschedule(i)
  BY <1>1, <1>5 DEF Reschedule, AfterTarget, Idle
<1>6. CASE SelectNone(i) \/ Finish(i) \/ Crash(i)
  BY <1>1, <1>6 DEF SelectNone, Finish, Crash, Idle
<1>9. CASE Fire(i)
  BY <1>1, <1>9 DEF Fire, Idle
<1>7. ASSUME NEW pc, pc # "write", GoTo(i, pc) PROVE inv'[i].pc # "write"
  BY <1>1, <1>7 DEF GoTo, InvocationStates
<1>8. CASE InsertResult(i) \/ WriteState(i) \/ OpenIncident(i)
             \/ AutoResolve(i) \/ Dispatch(i) \/ MarkNotified(i)
             \/ AuditTransition(i)
  BY <1>7, <1>8 DEF InsertResult, WriteState, OpenIncident, AutoResolve,
                    Dispatch, MarkNotified, AuditTransition
<1> QED
  BY <1>2, <1>3, <1>4, <1>5, <1>6, <1>8, <1>9 DEF Step

\* Each step keeps the stored rows, and the rows invocations have read, coherent.
LEMMA RowsStep ==
    TypeOK /\ ConstantsAssumption /\ RowsInv /\ [Next]_vars => RowsInv'
<1> SUFFICES ASSUME TypeOK, ConstantsAssumption, RowsInv, [Next]_vars
             PROVE  RowsInv'
  OBVIOUS
<1>1. row \in [Targets -> StateRows]
  BY DEF TypeOK
<1>2. CASE UNCHANGED <<row, inv>>
  BY <1>2 DEF RowsInv, RowsCoherent, SeenCoherent, Current, At
<1>3. ASSUME NEW i \in Invocations, Step(i) \/ Fire(i) \/ Crash(i)
      PROVE  RowsInv'
  <2>1. ASSUME NEW j \in Invocations, j # i, At(j, "write")'
        PROVE  Coherent(inv'[j].seen, Current(j)')
    BY <1>3, <2>1, StepFrame DEF RowsInv, SeenCoherent, Current, At
  <2>2. CASE ReadState(i)
    <3>1. Current(i) \in Targets
      BY <2>2, AtWork DEF ReadState, At, Busy
    <3>2. inv[i] \in InvocationStates /\ DOMAIN inv = Invocations
      BY DEF TypeOK
    <3>3. At(i, "write")' =>
             inv'[i].seen = row[Current(i)] /\ Current(i)' = Current(i)
      <4>1. CASE GoTo(i, "reschedule")
        BY <3>2, <4>1 DEF GoTo, At, InvocationStates
      <4>2. CASE inv' = [inv EXCEPT ![i].pc = "write", ![i].seen = row[Current(i)]]
        BY <3>2, <4>2 DEF Current, InvocationStates
      <4> QED
        BY <2>2, <4>1, <4>2 DEF ReadState
    <3>4. At(i, "write")' => Coherent(inv'[i].seen, Current(i)')
      BY <3>1, <3>3 DEF RowsInv, RowsCoherent
    <3>5. RowsCoherent'
      BY <2>2 DEF ReadState, RowsInv, RowsCoherent
    <3> QED
      BY <2>1, <3>4, <3>5 DEF RowsInv, SeenCoherent
  <2>3. CASE ~ReadState(i)
    <3>1. SeenCoherent'
      BY <1>3, <2>1, <2>3, WriteFrame DEF SeenCoherent, At
    <3>2. CASE UNCHANGED row
      BY <3>1, <3>2 DEF RowsInv, RowsCoherent
    <3>3. CASE WriteState(i)
      <4>1. Current(i) \in Targets /\ At(i, "write")
        BY <3>3, AtWork DEF WriteState, At, Busy
      <4>2. Coherent(NewRow(i), Current(i))
        BY <4>1, NewRowCoherent DEF RowsInv, SeenCoherent
      <4>3. RowsCoherent'
        BY <1>1, <3>3, <4>1, <4>2 DEF WriteState, RowsInv, RowsCoherent
      <4> QED
        BY <3>1, <4>3 DEF RowsInv
    <3>4. CASE MarkNotified(i)
      <4>1. \A t \in Targets :
              /\ row'[t].status = row[t].status
              /\ row'[t].succ = row[t].succ
              /\ row'[t].fail = row[t].fail
        BY <1>1, <3>4 DEF MarkNotified, StateRows
      <4>2. RowsCoherent'
        BY <4>1 DEF RowsInv, RowsCoherent, Coherent
      <4> QED
        BY <3>1, <4>2 DEF RowsInv
    <3> QED
      BY <1>3, <3>2, <3>3, <3>4
      DEF Step, SelectNone, SelectDue, Attempt, InsertResult, ReadState,
          CheckWindow, OpenIncident, AutoResolve, Dispatch, AuditTransition,
          Reschedule, Finish, Fire, Crash
  <2> QED
    BY <2>2, <2>3
<1> QED
  BY <1>2, <1>3
  DEF Next, Tick, Miss, ManualResolve, ToggleDisabled, ToggleWindow, vars

\* Whatever updates overlap and overwrite, the stored rows are rows that a
\* sequence of checks could have produced.
THEOREM RowsCoherentHolds == Spec => []RowsCoherent
<1>1. ConstantsAssumption /\ Init => RowsInv
  <2> SUFFICES ASSUME ConstantsAssumption, Init PROVE RowsInv
    OBVIOUS
  <2>1. \A t \in Targets : FailureThreshold[t] \in Nat \ {0}
    BY DEF ConstantsAssumption
  <2>2. RowsCoherent
    BY <2>1 DEF Init, FreshRow, RowsCoherent, Coherent
  <2>3. SeenCoherent
    BY DEF Init, Idle, At, SeenCoherent
  <2> QED
    BY <2>2, <2>3 DEF RowsInv
<1>2. RowsInv => RowsCoherent
  BY DEF RowsInv
<1> QED
  BY <1>1, <1>2, TypeCorrect, RowsStep, ConstantsAssumption, PTL DEF Spec
-----------------------------------------------------------------------------
(* One notification per outage, when invocations do not overlap.  The      *)
(* verdict of the one invocation alive is the stored status until its      *)
(* notification has gone, and no outage is announced before its time.      *)

Alone == \A i, j \in Invocations : i # j => At(i, "idle") \/ At(j, "idle")

\* An outage that is over is forgotten.
Quiet == \A t \in Targets : row[t].status # "down" => alert[t] = "none"

Announcing(i) ==
    /\ At(i, "write") => inv[i].seen.status = row[Current(i)].status
    /\ inv[i].pc \in {"window", "incident", "dispatch"} =>
         /\ row[Current(i)].status = Verdict(i)
         /\ GoesDown(i) => alert[Current(i)] = "none"

Undisturbed == Alone /\ Quiet /\ \A i \in Invocations : Announcing(i)

AlertInv == ~overlapped => Undisturbed

\* GoTo changes the place; the current target and the verdict stay.
LEMMA GoToFrame ==
    ASSUME TypeOK, NEW i \in Invocations, NEW pc, GoTo(i, pc)
    PROVE  /\ inv'[i].pc = pc
           /\ Current(i)' = Current(i)
           /\ Verdict(i)' = Verdict(i)
<1>1. inv[i] \in InvocationStates /\ DOMAIN inv = Invocations
  BY DEF TypeOK
<1>2. /\ inv'[i].pc = pc
      /\ inv'[i].batch = inv[i].batch
      /\ inv'[i].seen = inv[i].seen
      /\ inv'[i].ok = inv[i].ok
  BY <1>1 DEF GoTo, InvocationStates
<1> QED
  BY <1>2 DEF Current, Verdict

\* The invocation that moves is alone, before and after.
LEMMA AloneStep ==
    ASSUME TypeOK, Alone, ~overlapped', NEW i \in Invocations,
           Step(i) \/ Fire(i) \/ Crash(i)
    PROVE  Alone' /\ \A j \in Invocations : j # i => At(j, "idle")'
<1>1. \A j \in Invocations : j # i => inv'[j] = inv[j]
  BY StepFrame
<1>2. ASSUME ~At(i, "idle")
      PROVE  \A j \in Invocations : j # i => At(j, "idle")
  BY <1>2 DEF Alone
<1>3. \A j \in Invocations : j # i => At(j, "idle")
  BY <1>2 DEF Step, SelectNone, SelectDue, Attempt, InsertResult, ReadState,
       WriteState, CheckWindow, OpenIncident, AutoResolve, Dispatch,
       MarkNotified, AuditTransition, Reschedule, Finish, Fire, Crash, At
<1> QED
  BY <1>1, <1>3 DEF Alone, At

\* The steps that neither decide nor announce lead to none of the places
\* where Announcing says something.
Telling == {"write", "window", "incident", "dispatch"}

\* No step but WriteState brings an invocation to the notification of an outage.
LEMMA TellingFrame ==
    ASSUME TypeOK, NEW i \in Invocations,
           \/ SelectNone(i) \/ SelectDue(i) \/ Attempt(i) \/ InsertResult(i)
           \/ MarkNotified(i) \/ AuditTransition(i) \/ Reschedule(i)
           \/ Finish(i) \/ Fire(i) \/ Crash(i)
    PROVE  inv'[i].pc \notin Telling
<1>1. inv[i] \in InvocationStates /\ DOMAIN inv = Invocations
  BY DEF TypeOK
<1>2. CASE SelectDue(i)
  <2>1. inv'[i].pc = "probe"
    BY <1>1, <1>2 DEF SelectDue, InvocationStates
  <2> QED
    BY <2>1 DEF Telling
<1>3. CASE Attempt(i)
  <2>1. inv'[i].pc = "probe" \/ inv'[i].pc = "result"
    BY <1>1, <1>3, ZenonT(60) DEF Attempt, At, InvocationStates
  <2> QED
    BY <2>1 DEF Telling
<1>4. CASE Reschedule(i)
  BY <1>1, <1>4 DEF Reschedule, AfterTarget, Idle, Telling
<1>5. CASE inv' = [inv EXCEPT ![i] = Idle]
  BY <1>1, <1>5 DEF Idle, Telling
<1>6. CASE Fire(i)
  BY <1>1, <1>6 DEF Fire, Idle, Telling
<1>7. CASE InsertResult(i)
  BY <1>7, GoToFrame DEF InsertResult, Telling
<1>8. CASE MarkNotified(i)
  BY <1>8, GoToFrame DEF MarkNotified, Telling
<1>9. CASE AuditTransition(i)
  BY <1>9, GoToFrame DEF AuditTransition, Telling
<1> QED
  BY <1>2, <1>3, <1>4, <1>5, <1>6, <1>7, <1>8, <1>9
  DEF SelectNone, Finish, Crash

\* An overlap is remembered: overlapped never goes back to FALSE.
LEMMA OverlapRemembered == [Next]_vars /\ overlapped => overlapped'
BY DEF Next, vars, Tick, Miss, Fire, Crash, Step, SelectNone, SelectDue, Attempt,
     InsertResult, ReadState, WriteState, CheckWindow, OpenIncident, AutoResolve,
     Dispatch, MarkNotified, AuditTransition, Reschedule, Finish, ManualResolve,
     ToggleDisabled, ToggleWindow

\* Each step of a lone invocation keeps the outage's alert unsent until it is
\* dispatched.
LEMMA AlertStep ==
    TypeOK /\ ConstantsAssumption /\ AlertInv /\ [Next]_vars => AlertInv'
<1> SUFFICES ASSUME TypeOK, ConstantsAssumption, AlertInv, [Next]_vars, ~overlapped'
             PROVE  Undisturbed'
  BY DEF AlertInv
<1>0. Undisturbed
  BY OverlapRemembered DEF AlertInv
<1>1. /\ row \in [Targets -> StateRows]
      /\ alert \in [Targets -> {"none", "silenced", "sent"}]
  BY DEF TypeOK
<1>2. CASE UNCHANGED <<row, alert, inv>>
  BY <1>0, <1>2 DEF Undisturbed, Alone, Quiet, Announcing, At, Current, Verdict, GoesDown
<1>3. ASSUME NEW i \in Invocations, Step(i) \/ Fire(i) \/ Crash(i)
      PROVE  Undisturbed'
  <2>1. Alone' /\ \A j \in Invocations : j # i => At(j, "idle")'
    BY <1>0, <1>3, AloneStep DEF Undisturbed
  <2>2. \A j \in Invocations : j # i => Announcing(j)'
    BY <2>1 DEF Announcing, At
  <2> SUFFICES Quiet' /\ Announcing(i)'
    BY <2>1, <2>2 DEF Undisturbed
  <2>3. Quiet /\ Announcing(i)
    BY <1>0 DEF Undisturbed
  <2>4. ASSUME inv'[i].pc \notin Telling PROVE Announcing(i)'
    BY <2>4 DEF Announcing, At, Telling
  <2>5. ASSUME inv[i].pc \in Busy PROVE Current(i) \in Targets
    BY <2>5, AtWork
  <2>6. CASE \/ SelectNone(i) \/ SelectDue(i) \/ Attempt(i) \/ InsertResult(i)
             \/ MarkNotified(i) \/ AuditTransition(i) \/ Reschedule(i)
             \/ Finish(i) \/ Fire(i) \/ Crash(i)
    <3>1. Announcing(i)'
      BY <2>4, <2>6, TellingFrame
    <3>2. CASE MarkNotified(i)
      <4>1. \A t \in Targets : row'[t].status = row[t].status
        BY <1>1, <3>2 DEF MarkNotified, StateRows
      <4> QED
        BY <2>3, <3>1, <3>2, <4>1 DEF MarkNotified, Quiet
    <3>3. CASE UNCHANGED <<row, alert>>
      BY <2>3, <3>1, <3>3 DEF Quiet
    <3> QED
      BY <2>6, <3>2, <3>3
      DEF SelectNone, SelectDue, Attempt, InsertResult, AuditTransition,
          Reschedule, Finish, Fire, Crash
  <2>7. CASE ReadState(i)
    <3>1. UNCHANGED <<row, alert>>
      BY <2>7 DEF ReadState
    <3>2. CASE GoTo(i, "reschedule")
      BY <2>3, <2>4, <3>1, <3>2, GoToFrame DEF Quiet, Telling
    <3>3. CASE inv' = [inv EXCEPT ![i].pc = "write", ![i].seen = row[Current(i)]]
      <4>1. inv[i] \in InvocationStates /\ DOMAIN inv = Invocations
        BY DEF TypeOK
      <4>2. /\ inv'[i].pc = "write" /\ inv'[i].seen = row[Current(i)]
            /\ Current(i)' = Current(i)
        BY <3>3, <4>1 DEF InvocationStates, Current
      <4> QED
        BY <2>3, <3>1, <4>2 DEF Quiet, Announcing, At
    <3> QED
      BY <2>7, <3>2, <3>3 DEF ReadState
  <2>8. CASE WriteState(i)
    <3>1. Current(i) \in Targets /\ inv[i].seen.status = row[Current(i)].status
      BY <2>3, <2>5, <2>8 DEF WriteState, Announcing, At, Busy
    <3>2. CASE GoTo(i, "reschedule") /\ UNCHANGED <<row, alert>>
      BY <2>3, <2>4, <3>2, GoToFrame DEF Quiet, Telling
    <3>3. CASE /\ row' = [row EXCEPT ![Current(i)] = NewRow(i)]
               /\ alert' = IF Verdict(i) = "down" THEN alert
                           ELSE [alert EXCEPT ![Current(i)] = "none"]
               /\ GoTo(i, IF Changed(i) THEN "window" ELSE "reschedule")
      <4>1. /\ row'[Current(i)].status = Verdict(i)
            /\ \A t \in Targets : t # Current(i) => row'[t] = row[t]
        BY <1>1, <3>1, <3>3 DEF NewRow
      <4>2. Quiet'
        BY <1>1, <2>3, <3>1, <3>3, <4>1 DEF Quiet
      <4>3. CASE Changed(i)
        <5>1. /\ inv'[i].pc = "window"
              /\ Current(i)' = Current(i) /\ Verdict(i)' = Verdict(i)
          BY <3>3, <4>3, GoToFrame
        <5>2. GoesDown(i) => alert'[Current(i)] = "none"
          BY <2>3, <3>1, <3>3, <4>3 DEF Changed, GoesDown, Quiet
        <5> QED
          BY <4>1, <4>2, <5>1, <5>2 DEF Announcing, At, GoesDown
      <4>4. CASE ~Changed(i)
        BY <2>4, <3>3, <4>2, <4>4, GoToFrame DEF Telling
      <4> QED
        BY <4>3, <4>4
    <3> QED
      BY <2>8, <3>2, <3>3 DEF WriteState
  <2>9. CASE CheckWindow(i)
    <3>1. inv[i] \in InvocationStates /\ DOMAIN inv = Invocations
      BY DEF TypeOK
    <3>2. /\ inv'[i].pc \in {"incident", "reschedule"}
          /\ inv'[i].seen = inv[i].seen /\ inv'[i].ok = inv[i].ok
          /\ inv'[i].batch = inv[i].batch
      BY <2>9, <3>1 DEF CheckWindow, AfterWindow, InvocationStates
    <3>3. UNCHANGED <<row, alert>> /\ inv[i].pc = "window"
      BY <2>9 DEF CheckWindow, At
    <3> QED
      BY <2>3, <3>2, <3>3 DEF Quiet, Announcing, At, Current, Verdict, GoesDown
  <2>10. CASE OpenIncident(i)
    <3>1. /\ Current(i) \in Targets /\ GoesDown(i)
          /\ row[Current(i)].status = Verdict(i)
          /\ alert[Current(i)] = "none"
          /\ UNCHANGED row
      BY <2>3, <2>5, <2>10 DEF OpenIncident, Announcing, At, Busy
    <3>2. /\ inv'[i].pc \in {"audit", "dispatch"}
          /\ inv'[i].pc = "dispatch" => alert' = alert
          /\ Current(i)' = Current(i) /\ Verdict(i)' = Verdict(i)
      BY <2>10, GoToFrame DEF OpenIncident
    <3>3. Quiet'
      BY <1>1, <2>3, <2>10, <3>1 DEF OpenIncident, GoesDown, Quiet
    <3> QED
      BY <3>1, <3>2, <3>3 DEF Announcing, At, GoesDown
  <2>11. CASE AutoResolve(i)
    <3>1. /\ Recovers(i) /\ UNCHANGED <<row, alert>>
          /\ row[Current(i)].status = Verdict(i)
      BY <2>3, <2>11 DEF AutoResolve, Announcing, At
    <3>2. /\ inv'[i].pc \in {"audit", "dispatch"}
          /\ Current(i)' = Current(i) /\ Verdict(i)' = Verdict(i)
      BY <2>11, GoToFrame DEF AutoResolve
    <3> QED
      BY <2>3, <3>1, <3>2 DEF Announcing, At, GoesDown, Recovers, Quiet
  <2>12. CASE Dispatch(i)
    <3>1. /\ Current(i) \in Targets
          /\ row[Current(i)].status = Verdict(i)
          /\ UNCHANGED row
      BY <2>3, <2>5, <2>12 DEF Dispatch, Announcing, At, Busy
    <3>2. inv'[i].pc \notin Telling
      BY <2>12, GoToFrame DEF Dispatch, Telling
    <3>3. Quiet'
      BY <1>1, <2>3, <2>12, <3>1 DEF Dispatch, GoesDown, Quiet
    <3> QED
      BY <2>4, <3>2, <3>3
  <2> QED
    BY <1>3, <2>6, <2>7, <2>8, <2>9, <2>10, <2>11, <2>12 DEF Step
<1> QED
  BY <1>2, <1>3
  DEF Next, Tick, Miss, ManualResolve, ToggleDisabled, ToggleWindow, vars

\* FR-MON-08, for any targets and thresholds and with crashes and errors
\* anywhere, until one invocation starts before another has ended.
THEOREM AlertOnceAlone == Spec => []AlertOncePerOutage
<1>1. Init => AlertInv
  BY DEF Init, Idle, FreshRow, At, AlertInv, Undisturbed, Alone, Quiet, Announcing
<1>2. AlertInv => AlertOncePerOutage
  BY DEF AlertInv, Undisturbed, Announcing, AlertOncePerOutage, At
<1> QED
  BY <1>1, <1>2, TypeCorrect, AlertStep, ConstantsAssumption, PTL DEF Spec
-----------------------------------------------------------------------------
(* The administrator's resolutions.  That none is rewritten needs that an   *)
(* incident resolved by hand is not open: auto_resolve looks at the status. *)

ResolvedByHand ==
    \A id \in IncidentIds : incident[id].by = "admin" => incident[id].status = "resolved"

\* The statements that write to incidents.
LEMMA IncidentWrites ==
    ASSUME TypeOK, ConstantsAssumption, [Next]_vars
    PROVE  \/ UNCHANGED incident
           \/ \E t \in Targets : InsertIncident(t) \/ CloseOpen(t)
           \/ \E id \in IncidentIds : ManualResolve(id)
<1>1. ASSUME NEW i \in Invocations, Step(i)
      PROVE  \/ UNCHANGED incident
             \/ \E t \in Targets : InsertIncident(t) \/ CloseOpen(t)
  <2>1. CASE OpenIncident(i) \/ AutoResolve(i)
    <3>1. Current(i) \in Targets
      BY <2>1, AtWork DEF OpenIncident, AutoResolve, At, Busy
    <3> QED
      BY <2>1, <3>1 DEF OpenIncident, AutoResolve
  <2> QED
    BY <1>1, <2>1
    DEF Step, SelectNone, SelectDue, Attempt, InsertResult, ReadState,
        WriteState, CheckWindow, Dispatch, MarkNotified, AuditTransition,
        Reschedule, Finish
<1> QED
  BY <1>1
  DEF Next, Tick, Miss, Fire, Crash, ToggleDisabled, ToggleWindow, vars

\* No step opens an incident resolved by hand or changes what was recorded.
LEMMA ResolvedByHandStep ==
    TypeOK /\ ConstantsAssumption /\ ResolvedByHand /\ [Next]_vars
        => /\ ResolvedByHand'
           /\ \A id \in IncidentIds :
                incident[id].by = "admin" => incident'[id] = incident[id]
<1> SUFFICES ASSUME TypeOK, ConstantsAssumption, ResolvedByHand, [Next]_vars,
                    NEW id \in IncidentIds
             PROVE  /\ incident'[id].by = "admin" => incident'[id].status = "resolved"
                    /\ incident[id].by = "admin" => incident'[id] = incident[id]
  BY DEF ResolvedByHand
<1>1. /\ incident \in [IncidentIds -> Incidents]
      /\ incident[id].by = "admin" => incident[id].status = "resolved"
  BY DEF TypeOK, ResolvedByHand
<1>2. CASE UNCHANGED incident
  BY <1>1, <1>2
<1>3. ASSUME NEW t \in Targets, InsertIncident(t)
      PROVE  /\ incident'[id].by = "admin" => incident'[id].status = "resolved"
             /\ incident[id].by = "admin" => incident'[id] = incident[id]
  <2>1. CASE ~HasOpenIncident(t)
    <3>1. PICK new \in IncidentIds :
            /\ incident[new] = Unborn
            /\ incident' = [incident EXCEPT ![new] =
               [target |-> t, status |-> "open", by |-> "none", openedAt |-> clock]]
      BY <1>3, <2>1 DEF InsertIncident, InsertUnindexed
    <3> QED
      BY <1>1, <3>1 DEF Unborn
  <2> QED
    BY <1>2, <1>3, <2>1 DEF InsertIncident
<1>4. ASSUME NEW t \in Targets, CloseOpen(t)
      PROVE  /\ incident'[id].by = "admin" => incident'[id].status = "resolved"
             /\ incident[id].by = "admin" => incident'[id] = incident[id]
  <2>1. CASE incident[id].status = "open"
    <3>1. incident[id].by # "admin"
      BY <1>1, <2>1
    <3>2. [incident[id] EXCEPT !.status = "resolved", !.by = "system"].by = "system"
      BY <1>1 DEF Incidents, Unborn
    <3> QED
      BY <1>4, <3>1, <3>2 DEF CloseOpen
  <2>2. CASE incident[id].status # "open"
    BY <1>1, <1>4, <2>2 DEF CloseOpen
  <2> QED
    BY <2>1, <2>2
<1>5. ASSUME NEW a \in IncidentIds, ManualResolve(a)
      PROVE  /\ incident'[id].by = "admin" => incident'[id].status = "resolved"
             /\ incident[id].by = "admin" => incident'[id] = incident[id]
  <2>1. CASE a = id
    <3>1. incident'[id] = [incident[id] EXCEPT !.status = "resolved", !.by = "admin"]
      BY <1>1, <1>5, <2>1 DEF ManualResolve
    <3>2. incident[id] \in [target : Targets, status : {"open", "resolved"},
                            by : {"none", "system", "admin"}, openedAt : Nat]
      BY <1>1, <1>5, <2>1 DEF ManualResolve, Incidents
    <3>3. incident'[id].status = "resolved"
      BY <3>1, <3>2
    <3>4. ASSUME incident[id].by = "admin" PROVE incident'[id] = incident[id]
      <4>1. PICK stored : stored = incident[id]
        OBVIOUS
      <4>2. stored.status = "resolved" /\ stored.by = "admin"
        BY <1>1, <3>4, <4>1
      <4>3. stored \in [target : Targets, status : {"open", "resolved"},
                        by : {"none", "system", "admin"}, openedAt : Nat]
        BY <3>2, <4>1
      <4>4. stored = [target |-> stored.target, status |-> stored.status,
                      by |-> stored.by, openedAt |-> stored.openedAt]
        BY <4>3
      <4>5. PICK now : now = [stored EXCEPT !.status = "resolved", !.by = "admin"]
        OBVIOUS
      <4>6. now \in [target : Targets, status : {"open", "resolved"},
                     by : {"none", "system", "admin"}, openedAt : Nat]
        BY <4>3, <4>5
      <4>7. now = [target |-> now.target, status |-> now.status,
                   by |-> now.by, openedAt |-> now.openedAt]
        BY <4>6
      <4>8. /\ now.target = stored.target /\ now.openedAt = stored.openedAt
            /\ now.status = "resolved" /\ now.by = "admin"
        BY <4>3, <4>5
      <4>9. now = stored
        BY <4>2, <4>4, <4>7, <4>8
      <4> QED
        BY <3>1, <4>1, <4>5, <4>9
    <3> QED
      BY <3>3, <3>4
  <2>2. CASE a # id
    BY <1>1, <1>5, <2>2 DEF ManualResolve
  <2> QED
    BY <2>1, <2>2
<1> QED
  BY <1>2, <1>3, <1>4, <1>5, IncidentWrites

\* A resolution that an administrator recorded is not rewritten by a recovery,
\* whatever overlaps, dies or fails (a later resolution by hand may name
\* somebody else, which the model does not tell apart).
THEOREM AdminResolutionKeptHolds == Spec => AdminResolutionKept
<1>1. Init => ResolvedByHand
  BY DEF Init, Unborn, ResolvedByHand
<1>2. TypeOK /\ ConstantsAssumption /\ ResolvedByHand /\ [Next]_vars
        => [\A id \in IncidentIds :
              incident[id].by = "admin" => incident'[id] = incident[id]]_vars
  BY ResolvedByHandStep
<1>3. TypeOK /\ ConstantsAssumption /\ ResolvedByHand /\ [Next]_vars
        => ResolvedByHand'
  BY ResolvedByHandStep
<1> QED
  BY <1>1, <1>2, <1>3, TypeCorrect, ConstantsAssumption, PTL
  DEF Spec, AdminResolutionKept
-----------------------------------------------------------------------------
(* The order in which targets are swept.                                   *)

\* A rescheduled target goes behind every target that was due when the sweep
\* began, however many sweeps overlap: next_check_at counts from the sweep's
\* own start, and no interval is zero.
THEOREM NoOvertakingHolds == Spec => NoOvertaking
<1>1. ASSUME TypeOK, ConstantsAssumption,
             NEW i \in Invocations, NEW t \in Targets,
             Reschedule(i), nextCheck' # nextCheck, nextCheck[t] <= inv[i].start
      PROVE  nextCheck'[Current(i)] > nextCheck[t]
  <2>1. Current(i) \in Targets
    BY <1>1, AtWork DEF Reschedule, At, Busy
  <2>2. /\ inv[i].start \in Nat /\ Interval[Current(i)] \in Nat \ {0}
        /\ nextCheck \in [Targets -> Nat]
    BY <1>1, <2>1 DEF TypeOK, InvocationStates, ConstantsAssumption
  <2>3. nextCheck'[Current(i)] = inv[i].start + Interval[Current(i)]
    BY <1>1, <2>1, <2>2 DEF Reschedule, NextCheck
  <2> QED
    BY <1>1, <2>2, <2>3
<1>2. TypeOK /\ ConstantsAssumption
        => [\A i \in Invocations, t \in Targets :
              /\ Reschedule(i) /\ nextCheck' # nextCheck
              /\ t # Current(i) /\ nextCheck[t] <= inv[i].start
              => nextCheck'[Current(i)] > nextCheck[t]]_vars
  BY <1>1
<1> QED
  BY <1>2, TypeCorrect, ConstantsAssumption, PTL DEF NoOvertaking
----------------------------------------------------------------------------
(* What one sweep after another gives: transitions justified by the       *)
(* results, transitions handled to the end, and the abstract Outage       *)
(* implemented.  All of it is said of an orderly run, one in which no     *)
(* invocation has started beside another and none has died, and of the D1 *)
(* calls that the property at hand relies on answering.                   *)

Orderly == ~overlapped /\ crashes = 0

\* The places from the stored transition to the end of handle_state_transition.
Late == {"window", "incident", "dispatch", "mark", "audit"}

\* One invocation at a time, and what it read for its UPDATE is the row.
Sequential ==
    ~overlapped => /\ Alone
                   /\ \A i \in Invocations :
                        At(i, "write") => inv[i].seen = row[Current(i)]

\* The counters of the row never exceed the trailing runs of check_results;
\* while a check is between its INSERT and its UPDATE, the counters it is
\* about to store do not.
Counted(t) == row[t].succ <= results[t].good /\ row[t].fail <= results[t].bad

Counting(i, t) == inv[i].pc \in {"read", "write"} /\ Current(i) = t

CountsInv ==
    Orderly => \A t \in Targets :
        /\ (\A i \in Invocations : ~Counting(i, t)) => Counted(t)
        /\ \A i \in Invocations : Counting(i, t) =>
             /\ NewSuccesses(row[t], inv[i].ok) <= results[t].good
             /\ NewFailures(row[t], inv[i].ok) <= results[t].bad

\* A transition that was stored is the one handle_state_transition works on,
\* and no incident is open for a target that is not down, once and as long as
\* its last transition is settled.
Deciding(i) ==
    /\ inv[i].pc \in Late => row[Current(i)].status = Verdict(i) /\ Changed(i)
    /\ inv[i].pc \in Late \ {"window"} => GoesDown(i) \/ Recovers(i)

Closed(t) ==
    /\ ~Settling(t) /\ row[t].status # "down" => ~HasOpenIncident(t)
    /\ \A i \in Invocations :
         Unhandled(i, t) /\ inv[i].seen.status # "down" => ~HasOpenIncident(t)

OutageInv == Orderly => /\ \A i \in Invocations : Deciding(i)
                        /\ \A t \in Targets : Closed(t)

\* What a transition leaves behind, as far as its invocation has come.
Opened(t) ==
    \E id \in IncidentIds : /\ incident[id].target = t
                            /\ incident[id].openedAt >= row[t].since
Notified(t) ==
    \/ alert[t] = "silenced"
    \/ alert[t] = "sent" /\ row[t].notified >= row[t].since

\* Every status was stored at some time up to now.
Dated == /\ clock # NoTime
         /\ \A t \in Targets : /\ row[t].since <= clock
                               /\ row[t].status = "down" => row[t].since # NoTime

Reported(t) ==
    /\ ~Settling(t) /\ row[t].status = "down" => Opened(t)
    /\ Settled(t) /\ row[t].status = "down" => Notified(t)
    /\ Settled(t) => (trail[t] = "down" <=> row[t].status = "down")

Reporting(i) ==
    /\ At(i, "window") /\ inv[i].seen.status = "unknown" => trail[Current(i)] # "down"
    /\ At(i, "mark") /\ GoesDown(i) => alert[Current(i)] = "sent"
    /\ At(i, "audit") /\ GoesDown(i) => Notified(Current(i))

ReportInv ==
    Orderly => /\ Dated
               /\ \A t \in Targets : Reported(t)
               /\ \A i \in Invocations : Reporting(i)
-----------------------------------------------------------------------------
(* Facts about a lone invocation.                                          *)

\* A run that is orderly was so before, and nothing died on the way.
LEMMA OrderlyBefore ==
    ASSUME TypeOK, [Next]_vars, Orderly'
    PROVE  Orderly /\ \A i \in Invocations : ~Crash(i)
<1>1. ~overlapped /\ crashes' = 0 /\ crashes \in Nat
  BY OverlapRemembered DEF Orderly, TypeOK
<1>2. \A i \in Invocations : ~Crash(i)
  BY <1>1 DEF Crash
<1>3. crashes' = crashes
  BY <1>2 DEF Next, vars, Tick, Miss, Fire, Step, SelectNone, SelectDue, Attempt,
     InsertResult, ReadState, WriteState, CheckWindow, OpenIncident, AutoResolve,
     Dispatch, MarkNotified, AuditTransition, Reschedule, Finish, ManualResolve,
     ToggleDisabled, ToggleWindow
<1> QED
  BY <1>1, <1>2, <1>3 DEF Orderly

\* Beside the invocation that moves, all are idle, before and after.
LEMMA OthersIdle ==
    ASSUME TypeOK, Alone, ~overlapped', NEW i \in Invocations,
           Step(i) \/ Fire(i) \/ Crash(i)
    PROVE  \A j \in Invocations : j # i => At(j, "idle") /\ At(j, "idle")'
BY AloneStep, StepFrame DEF At

\* Each step of a lone invocation leaves the row it read as it was.
LEMMA SequentialStep ==
    TypeOK /\ ConstantsAssumption /\ Sequential /\ [Next]_vars => Sequential'
<1> SUFFICES ASSUME TypeOK, ConstantsAssumption, Sequential, [Next]_vars, ~overlapped'
             PROVE  /\ Alone'
                    /\ \A i \in Invocations :
                         At(i, "write")' => inv'[i].seen = row'[Current(i)']
  BY DEF Sequential
<1>0. Alone /\ \A i \in Invocations : At(i, "write") => inv[i].seen = row[Current(i)]
  BY OverlapRemembered DEF Sequential
<1>1. CASE UNCHANGED <<row, inv>>
  BY <1>0, <1>1 DEF Alone, At, Current
<1>2. ASSUME NEW i \in Invocations, Step(i) \/ Fire(i) \/ Crash(i)
      PROVE  /\ Alone'
             /\ \A j \in Invocations :
                  At(j, "write")' => inv'[j].seen = row'[Current(j)']
  <2>1. Alone' /\ \A j \in Invocations : j # i => At(j, "idle")'
    BY <1>0, <1>2, AloneStep
  <2>2. At(i, "write")' => inv'[i].seen = row'[Current(i)']
    <3>1. CASE ReadState(i)
      <4>1. inv[i] \in InvocationStates /\ DOMAIN inv = Invocations /\ row' = row
        BY <3>1 DEF TypeOK, ReadState
      <4>2. CASE GoTo(i, "reschedule")
        BY <4>1, <4>2 DEF GoTo, At, InvocationStates
      <4>3. CASE inv' = [inv EXCEPT ![i].pc = "write", ![i].seen = row[Current(i)]]
        BY <4>1, <4>3 DEF Current, InvocationStates
      <4> QED
        BY <3>1, <4>2, <4>3 DEF ReadState
    <3>2. CASE ~ReadState(i)
      BY <1>2, <3>2, WriteFrame DEF At
    <3> QED
      BY <3>1, <3>2
  <2> QED
    BY <2>1, <2>2 DEF At
<1> QED
  BY <1>1, <1>2
  DEF Next, Tick, Miss, ManualResolve, ToggleDisabled, ToggleWindow, vars

\* Until one invocation starts beside another, one is at work at most and what
\* it read is what is stored.
LEMMA SequentialHolds == Spec => []Sequential
<1>1. Init => Sequential
  BY DEF Init, Idle, At, Alone, Sequential
<1> QED
  BY <1>1, TypeCorrect, SequentialStep, ConstantsAssumption, PTL DEF Spec
-----------------------------------------------------------------------------
(* The counters.                                                           *)

\* No step but InsertResult and ReadState leads to "read" or "write".
LEMMA CountingFrame ==
    ASSUME TypeOK, NEW i \in Invocations, Step(i) \/ Fire(i),
           ~InsertResult(i), ~ReadState(i)
    PROVE  inv'[i].pc \notin {"read", "write"}
<1>1. inv[i] \in InvocationStates /\ DOMAIN inv = Invocations
  BY DEF TypeOK
<1>2. inv'[i].pc # "write"
  BY WriteFrame
<1> SUFFICES inv'[i].pc # "read"
  BY <1>2
<1>3. CASE SelectDue(i)
  <2>1. inv'[i].pc = "probe"
    BY <1>1, <1>3 DEF SelectDue, InvocationStates
  <2> QED
    BY <2>1
<1>4. CASE Attempt(i)
  BY <1>1, <1>4 DEF Attempt, At, InvocationStates
<1>5. CASE CheckWindow(i)
  BY <1>1, <1>5 DEF CheckWindow, AfterWindow, InvocationStates
<1>6. CASE Reschedule(i)
  BY <1>1, <1>6 DEF Reschedule, AfterTarget, Idle
<1>7. CASE SelectNone(i) \/ Finish(i)
  BY <1>1, <1>7 DEF SelectNone, Finish, Idle
<1>8. CASE Fire(i)
  BY <1>1, <1>8 DEF Fire, Idle
<1>9. ASSUME NEW pc, pc # "read", GoTo(i, pc) PROVE inv'[i].pc # "read"
  BY <1>1, <1>9 DEF GoTo, InvocationStates
<1>10. CASE WriteState(i) \/ OpenIncident(i) \/ AutoResolve(i) \/ Dispatch(i)
              \/ MarkNotified(i) \/ AuditTransition(i)
  BY <1>9, <1>10 DEF WriteState, OpenIncident, AutoResolve,
                     Dispatch, MarkNotified, AuditTransition
<1> QED
  BY <1>3, <1>4, <1>5, <1>6, <1>7, <1>8, <1>10 DEF Step

\* No step of an orderly run lets a row count more than check_results holds,
\* if the INSERT and the state's SELECT and UPDATE answer.
LEMMA CountsStep ==
    ASSUME {"insert", "read", "write"} \cap Faulty = {}
    PROVE  TypeOK /\ ConstantsAssumption /\ Sequential /\ CountsInv /\ [Next]_vars
             => CountsInv'
<1> SUFFICES ASSUME TypeOK, ConstantsAssumption, Sequential, CountsInv,
                    [Next]_vars, Orderly', NEW t \in Targets
             PROVE  /\ (\A i \in Invocations : ~Counting(i, t)') => Counted(t)'
                    /\ \A i \in Invocations : Counting(i, t)' =>
                         /\ NewSuccesses(row'[t], inv'[i].ok) <= results'[t].good
                         /\ NewFailures(row'[t], inv'[i].ok) <= results'[t].bad
  BY DEF CountsInv
<1> DEFINE Counts == /\ (\A i \in Invocations : ~Counting(i, t)) => Counted(t)
                     /\ \A i \in Invocations : Counting(i, t) =>
                          /\ NewSuccesses(row[t], inv[i].ok) <= results[t].good
                          /\ NewFailures(row[t], inv[i].ok) <= results[t].bad
<1>0. Orderly /\ Counts /\ \A i \in Invocations : ~Crash(i)
  BY OrderlyBefore DEF CountsInv
<1>1. /\ row[t] \in StateRows
      /\ row \in [Targets -> StateRows]
      /\ results \in [Targets -> [good : Nat, bad : Nat]]
  BY DEF TypeOK
<1>2. ASSUME UNCHANGED <<results, inv>>, row'[t].succ = row[t].succ,
             row'[t].fail = row[t].fail
      PROVE  Counts'
  BY <1>0, <1>2 DEF Counting, Counted, Current, NewSuccesses, NewFailures
<1>3. ASSUME NEW i \in Invocations, Step(i) \/ Fire(i)
      PROVE  Counts'
  <2>0. \A j \in Invocations : j # i => At(j, "idle") /\ At(j, "idle")'
    BY <1>0, <1>3, OthersIdle DEF Sequential, Orderly
  <2>1. /\ (\A j \in Invocations : ~Counting(j, t)) <=> ~Counting(i, t)
        /\ (\A j \in Invocations : ~Counting(j, t)') <=> ~Counting(i, t)'
        /\ \A j \in Invocations : Counting(j, t)' => j = i
    BY <2>0 DEF Counting, At
  <2> SUFFICES /\ ~Counting(i, t)' => Counted(t)'
               /\ Counting(i, t)' =>
                    /\ NewSuccesses(row'[t], inv'[i].ok) <= results'[t].good
                    /\ NewFailures(row'[t], inv'[i].ok) <= results'[t].bad
    BY <2>1
  <2>2. /\ ~Counting(i, t) => Counted(t)
        /\ Counting(i, t) =>
                    /\ NewSuccesses(row[t], inv[i].ok) <= results[t].good
                    /\ NewFailures(row[t], inv[i].ok) <= results[t].bad
    BY <1>0, <2>1
  <2>3. inv[i] \in InvocationStates /\ DOMAIN inv = Invocations
    BY DEF TypeOK
  <2>4. ~MayFail("insert") /\ ~MayFail("read") /\ ~MayFail("write")
    BY DEF MayFail
  <2>5. CASE InsertResult(i)
    <3>1. /\ inv'[i].pc = "read" /\ inv'[i].ok = inv[i].ok
          /\ Current(i)' = Current(i)
      BY <2>3, <2>5 DEF InsertResult, GoTo, Current, InvocationStates
    <3>2. Counted(t) /\ UNCHANGED row
      BY <2>2, <2>5 DEF InsertResult, Counting, At
    <3>3. CASE Current(i) = t
      <4>1. results'[t] = IF inv[i].ok THEN [good |-> results[t].good + 1, bad |-> 0]
                                       ELSE [good |-> 0, bad |-> results[t].bad + 1]
        BY <1>1, <2>4, <2>5, <3>3 DEF InsertResult
      <4> QED
        BY <1>1, <3>1, <3>2, <3>3, <4>1
        DEF Counting, Counted, NewSuccesses, NewFailures, StateRows
    <3>4. CASE Current(i) # t
      <4>1. results'[t] = results[t]
        BY <1>1, <2>5, <3>4 DEF InsertResult
      <4> QED
        BY <3>1, <3>2, <3>4, <4>1 DEF Counting, Counted
    <3> QED
      BY <3>3, <3>4
  <2>6. CASE ReadState(i)
    <3>1. /\ inv' = [inv EXCEPT ![i].pc = "write", ![i].seen = row[Current(i)]]
          /\ UNCHANGED <<row, results>> /\ inv[i].pc = "read"
      BY <2>4, <2>6 DEF ReadState, At
    <3>2. /\ inv'[i].pc = "write" /\ inv'[i].ok = inv[i].ok
          /\ inv'[i].batch = inv[i].batch
      BY <2>3, <3>1 DEF InvocationStates
    <3> QED
      BY <2>2, <3>1, <3>2 DEF Counting, Counted, Current
  <2>7. CASE WriteState(i)
    <3>1. /\ row' = [row EXCEPT ![Current(i)] = NewRow(i)]
          /\ UNCHANGED results
          /\ inv[i].pc = "write"
      BY <2>4, <2>7 DEF WriteState, At
    <3>2. inv'[i].pc \notin {"read", "write"}
      BY <1>3, <2>7, CountingFrame DEF WriteState, InsertResult, ReadState, At
    <3>3. inv[i].seen = row[Current(i)]
      BY <1>0, <3>1 DEF Sequential, Orderly, At
    <3>4. CASE Current(i) = t
      <4>1. /\ row'[t].succ = NewSuccesses(row[t], inv[i].ok)
            /\ row'[t].fail = NewFailures(row[t], inv[i].ok)
        BY <1>1, <3>1, <3>3, <3>4 DEF NewRow
      <4> QED
        BY <2>2, <3>1, <3>2, <3>4, <4>1 DEF Counting, Counted
    <3>5. CASE Current(i) # t
      BY <1>1, <2>2, <3>1, <3>2, <3>5 DEF Counting, Counted
    <3> QED
      BY <3>4, <3>5
  <2>8. CASE ~InsertResult(i) /\ ~ReadState(i) /\ ~WriteState(i)
    <3>1. inv[i].pc \notin {"read", "write"} /\ UNCHANGED results
      BY <1>3, <2>8
      DEF Step, SelectNone, SelectDue, Attempt, CheckWindow, OpenIncident,
          AutoResolve, Dispatch, MarkNotified, AuditTransition, Reschedule,
          Finish, Fire, At
    <3>2. row'[t].succ = row[t].succ /\ row'[t].fail = row[t].fail
      <4>1. CASE MarkNotified(i)
        BY <1>1, <4>1 DEF MarkNotified, StateRows
      <4> QED
        BY <1>3, <2>8, <4>1
        DEF Step, SelectNone, SelectDue, Attempt, CheckWindow, OpenIncident,
            AutoResolve, Dispatch, AuditTransition, Reschedule, Finish, Fire
    <3>3. inv'[i].pc \notin {"read", "write"}
      BY <1>3, <2>8, CountingFrame
    <3> QED
      BY <2>2, <3>1, <3>2, <3>3 DEF Counting, Counted
  <2> QED
    BY <2>5, <2>6, <2>7, <2>8
<1> QED
  BY <1>0, <1>2, <1>3
  DEF Next, Tick, Miss, ManualResolve, ToggleDisabled, ToggleWindow, vars

\* The one step that moves a status finds the results that justify it.
LEMMA JustifiedStep ==
    ASSUME TypeOK, ConstantsAssumption, Sequential, CountsInv, Orderly, [Next]_vars
    PROVE  Justified
<1> SUFFICES ASSUME NEW t \in Targets, row'[t].status # row[t].status
             PROVE  /\ row'[t].status = "down" => results[t].bad >= FailureThreshold[t]
                    /\ row[t].status = "down" => results[t].good >= SuccessThreshold[t]
  BY DEF Justified
<1>1. row \in [Targets -> StateRows]
  BY DEF TypeOK
<1>2. PICK i \in Invocations : WriteState(i)
  <2>1. ASSUME NEW i \in Invocations, MarkNotified(i) PROVE FALSE
    BY <1>1, <2>1 DEF MarkNotified, StateRows
  <2> QED
    BY <2>1
    DEF Next, vars, Tick, Miss, Fire, Crash, Step, SelectNone, SelectDue, Attempt,
        InsertResult, ReadState, CheckWindow, OpenIncident, AutoResolve,
        Dispatch, AuditTransition, Reschedule, Finish, ManualResolve,
        ToggleDisabled, ToggleWindow
<1>3. /\ Current(i) = t /\ row'[t].status = Verdict(i)
      /\ inv[i].pc = "write" /\ inv[i].seen = row[t]
  BY <1>1, <1>2 DEF WriteState, NewRow, Sequential, Orderly, At
<1>4. /\ NewSuccesses(row[t], inv[i].ok) <= results[t].good
      /\ NewFailures(row[t], inv[i].ok) <= results[t].bad
  BY <1>3 DEF CountsInv, Counting
<1>5. /\ Verdict(i) = DecideStatus(row[t], inv[i].ok,
                                   SuccessThreshold[t], FailureThreshold[t])
      /\ row[t] \in StateRows /\ inv[i].ok \in BOOLEAN
      /\ SuccessThreshold[t] \in Nat /\ FailureThreshold[t] \in Nat
      /\ results[t].good \in Nat /\ results[t].bad \in Nat
  BY <1>3 DEF Verdict, TypeOK, InvocationStates, ConstantsAssumption
<1>6. /\ NewSuccesses(row[t], inv[i].ok) \in Nat
      /\ NewFailures(row[t], inv[i].ok) \in Nat
  BY <1>5, DecisionType
<1> QED
  BY <1>3, <1>4, <1>5, <1>6 DEF DecideStatus, Falls, Rises

\* FR-MON-06 for any targets, thresholds and sweeps of an orderly run in which
\* the result, the SELECT and the UPDATE of the state row do not fail (each of
\* these leaves counters behind that skip a check).
THEOREM TransitionsJustifiedHolds ==
    ASSUME {"insert", "read", "write"} \cap Faulty = {}
    PROVE  Spec /\ []Orderly => TransitionsJustified
<1>1. Init => CountsInv
  BY DEF Init, Idle, FreshRow, CountsInv, Counting, Counted
<1>2. TypeOK /\ ConstantsAssumption /\ Sequential /\ CountsInv /\ [Next]_vars
        => CountsInv'
  BY CountsStep
<1>3. TypeOK /\ ConstantsAssumption /\ Sequential /\ CountsInv /\ Orderly
        /\ [Next]_vars => [Justified]_vars
  BY JustifiedStep
<1> QED
  BY <1>1, <1>2, <1>3, TypeCorrect, SequentialHolds, ConstantsAssumption, PTL
  DEF Spec, TransitionsJustified
-----------------------------------------------------------------------------
(* Transitions and incidents.                                              *)

\* The steps before a transition is stored and after it was dealt with.
Early(i) == \/ SelectNone(i) \/ SelectDue(i) \/ Attempt(i) \/ InsertResult(i)
            \/ ReadState(i) \/ Reschedule(i) \/ Finish(i) \/ Fire(i)

\* They lead from none of the late places to none, and write to no table that
\* tells of an outage.
LEMMA EarlyFrame ==
    ASSUME TypeOK, NEW i \in Invocations, Early(i)
    PROVE  /\ inv[i].pc \notin Late /\ inv'[i].pc \notin Late
           /\ UNCHANGED <<row, incident, alert, trail, clock>>
<1>1. inv[i] \in InvocationStates /\ DOMAIN inv = Invocations
  BY DEF TypeOK
<1>2. inv[i].pc \notin Late /\ UNCHANGED <<row, incident, alert, trail, clock>>
  BY DEF Early, SelectNone, SelectDue, Attempt, InsertResult, ReadState,
         Reschedule, Finish, Fire, At, Late
<1>3. CASE ReadState(i)
  <2>1. inv'[i].pc = "write" \/ inv'[i].pc = "reschedule"
    BY <1>1, <1>3 DEF ReadState, GoTo, InvocationStates
  <2> QED
    BY <1>2, <2>1 DEF Late
<1>4. CASE SelectDue(i)
  <2>1. inv'[i].pc = "probe"
    BY <1>1, <1>4 DEF SelectDue, InvocationStates
  <2> QED
    BY <1>2, <2>1 DEF Late
<1>5. CASE Attempt(i)
  <2>1. inv'[i].pc = "probe" \/ inv'[i].pc = "result"
    BY <1>1, <1>5 DEF Attempt, At, InvocationStates
  <2> QED
    BY <1>2, <2>1 DEF Late
<1>6. CASE InsertResult(i)
  BY <1>2, <1>6, GoToFrame DEF InsertResult, Late
<1>7. CASE Reschedule(i)
  <2>1. inv'[i].pc = "retention" \/ inv'[i].pc = "probe"
    BY <1>1, <1>7 DEF Reschedule, AfterTarget, Idle
  <2> QED
    BY <1>2, <2>1 DEF Late
<1>8. CASE SelectNone(i) \/ Finish(i)
  <2>1. inv'[i].pc = "idle"
    BY <1>1, <1>8 DEF SelectNone, Finish, Idle
  <2> QED
    BY <1>2, <2>1 DEF Late
<1>9. CASE Fire(i)
  <2>1. inv'[i].pc = "select"
    BY <1>1, <1>9 DEF Fire, Idle
  <2> QED
    BY <1>2, <2>1 DEF Late
<1> QED
  BY <1>3, <1>4, <1>5, <1>6, <1>7, <1>8, <1>9 DEF Early

\* From the UPDATE of the state row to the end of handle_state_transition the
\* target, what was read and what was decided stay.
LEMMA CheckKept ==
    ASSUME TypeOK, NEW i \in Invocations,
           \/ CheckWindow(i)
           \/ \E pc \in Busy : GoTo(i, pc)
    PROVE  /\ Current(i)' = Current(i) /\ Verdict(i)' = Verdict(i)
           /\ inv'[i].seen = inv[i].seen
<1>1. inv[i] \in InvocationStates /\ DOMAIN inv = Invocations
  BY DEF TypeOK
<1>2. CASE CheckWindow(i)
  <2>1. PICK silenced : inv' = [inv EXCEPT ![i].silenced = silenced,
                                           ![i].pc = AfterWindow(i, silenced)]
    BY <1>2 DEF CheckWindow
  <2>2. /\ inv'[i].batch = inv[i].batch /\ inv'[i].seen = inv[i].seen
        /\ inv'[i].ok = inv[i].ok
    BY <1>1, <2>1 DEF InvocationStates
  <2> QED
    BY <2>2 DEF Current, Verdict
<1>3. ASSUME NEW pc \in Busy, GoTo(i, pc)
      PROVE  /\ Current(i)' = Current(i) /\ Verdict(i)' = Verdict(i)
             /\ inv'[i].seen = inv[i].seen
  <2>1. inv'[i].seen = inv[i].seen
    BY <1>1, <1>3 DEF GoTo, InvocationStates
  <2> QED
    BY <1>3, <2>1, GoToFrame
<1> QED
  BY <1>2, <1>3

\* A status that changes becomes `down`, or `up` from one of the others.
LEMMA ChangedVerdict ==
    ASSUME TypeOK, ConstantsAssumption, NEW i \in Invocations, inv[i].pc \in Busy,
           Changed(i)
    PROVE  \/ GoesDown(i) \/ Recovers(i)
           \/ Verdict(i) = "up" /\ inv[i].seen.status = "unknown"
<1>1. /\ inv[i].seen \in StateRows /\ inv[i].ok \in BOOLEAN
      /\ Current(i) \in Targets
  BY AtWork DEF TypeOK, InvocationStates
<1>2. inv[i].seen.status \in {"unknown", "up", "down"}
  BY <1>1 DEF StateRows, Status
<1> QED
  BY <1>1, <1>2 DEF Changed, GoesDown, Recovers, Verdict, DecideStatus

\* The INSERT gives one target an open incident and leaves the others alone.
LEMMA InsertOpens ==
    ASSUME TypeOK, NEW t \in Targets, InsertIncident(t)
    PROVE  /\ HasOpenIncident(t)'
           /\ \A u \in Targets : u # t => (HasOpenIncident(u)' <=> HasOpenIncident(u))
<1>1. incident \in [IncidentIds -> Incidents]
  BY DEF TypeOK
<1>2. CASE HasOpenIncident(t) /\ UNCHANGED incident
  BY <1>2 DEF HasOpenIncident
<1>3. CASE ~HasOpenIncident(t)
  <2>1. PICK id \in IncidentIds :
          /\ incident[id] = Unborn
          /\ incident' = [incident EXCEPT ![id] =
                [target |-> t, status |-> "open", by |-> "none", openedAt |-> clock]]
    BY <1>3 DEF InsertIncident, InsertUnindexed
  <2>2. /\ incident'[id].target = t /\ incident'[id].status = "open"
        /\ incident[id].status = "none"
        /\ \A a \in IncidentIds : a # id => incident'[a] = incident[a]
    BY <1>1, <2>1 DEF Unborn
  <2> QED
    BY <2>2 DEF HasOpenIncident
<1> QED
  BY <1>2, <1>3 DEF InsertIncident

\* auto_resolve leaves its target no open incident, and the others theirs.
LEMMA AutoCloses ==
    ASSUME TypeOK, NEW t \in Targets, CloseOpen(t)
    PROVE  /\ ~HasOpenIncident(t)'
           /\ \A u \in Targets : u # t => (HasOpenIncident(u)' <=> HasOpenIncident(u))
<1>1. ASSUME NEW a \in IncidentIds
      PROVE  /\ incident'[a].target = incident[a].target
             /\ incident'[a].status =
                  IF incident[a].target = t /\ incident[a].status = "open"
                  THEN "resolved" ELSE incident[a].status
  <2>1. incident[a] \in Incidents
    BY DEF TypeOK
  <2>2. incident'[a] = IF incident[a].target = t /\ incident[a].status = "open"
                THEN [incident[a] EXCEPT !.status = "resolved", !.by = "system"]
                ELSE incident[a]
    BY DEF CloseOpen
  <2> QED
    BY <2>1, <2>2 DEF Incidents, Unborn
<1> QED
  BY <1>1 DEF HasOpenIncident

\* A resolution by hand keeps the targets of the incidents and their opening
\* times, and closes the one incident it names.
LEMMA HandCloses ==
    ASSUME TypeOK, NEW id \in IncidentIds, ManualResolve(id)
    PROVE  /\ \A a \in IncidentIds : /\ incident'[a].target = incident[a].target
                                     /\ incident'[a].openedAt = incident[a].openedAt
                                     /\ a # id => incident'[a].status = incident[a].status
           /\ incident'[id].status = "resolved" /\ incident[id].target \in Targets
<1>1. incident \in [IncidentIds -> Incidents] /\ incident[id] # Unborn
  BY DEF TypeOK, ManualResolve
<1>2. incident[id] \in [target : Targets, status : {"open", "resolved"},
                        by : {"none", "system", "admin"}, openedAt : Nat]
  BY <1>1 DEF Incidents
<1>3. incident'[id] = [incident[id] EXCEPT !.status = "resolved", !.by = "admin"]
  BY <1>1 DEF ManualResolve
<1>4. \A a \in IncidentIds : a # id => incident'[a] = incident[a]
  BY <1>1 DEF ManualResolve
<1> QED
  BY <1>2, <1>3, <1>4

\* Beside idle invocations one is all there is to look at.
LEMMA LoneSettling ==
    \A i \in Invocations :
        (\A j \in Invocations : j # i => At(j, "idle"))
        => \A t \in Targets :
             /\ Settling(t) <=> Unhandled(i, t)
             /\ \A j \in Invocations : Unhandled(j, t) => j = i
             /\ Settled(t) <=> ~(inv[i].pc \in Late /\ Current(i) = t)
BY DEF Settling, Unhandled, Settled, At, Late

\* The same of the state a step leads to.
LEMMA LoneSettlingNext ==
    \A i \in Invocations :
        (\A j \in Invocations : j # i => At(j, "idle")')
        => \A t \in Targets :
             /\ Settling(t)' <=> Unhandled(i, t)'
             /\ \A j \in Invocations : Unhandled(j, t)' => j = i
             /\ Settled(t)' <=> ~(inv'[i].pc \in Late /\ Current(i)' = t)
BY DEF Settling, Unhandled, Settled, At, Late

\* No step of an orderly run separates the status of a target from its
\* incident, if the statements on incidents answer.
LEMMA OutageStep ==
    ASSUME {"open", "resolve"} \cap Faulty = {}
    PROVE  TypeOK /\ ConstantsAssumption /\ Sequential /\ OutageInv /\ [Next]_vars
             => OutageInv'
<1> SUFFICES ASSUME TypeOK, ConstantsAssumption, Sequential, OutageInv,
                    [Next]_vars, Orderly'
             PROVE  /\ \A i \in Invocations : Deciding(i)'
                    /\ \A t \in Targets : Closed(t)'
  BY DEF OutageInv
<1>0. /\ Orderly /\ \A i \in Invocations : ~Crash(i)
      /\ \A i \in Invocations : Deciding(i)
      /\ \A t \in Targets : Closed(t)
  BY OrderlyBefore DEF OutageInv
<1>1. row \in [Targets -> StateRows]
  BY DEF TypeOK
\* Steps that open no incident and leave the rows and the invocations alone.
<1>2. ASSUME UNCHANGED <<row, inv>>,
             \A t \in Targets : HasOpenIncident(t)' => HasOpenIncident(t)
      PROVE  /\ \A i \in Invocations : Deciding(i)'
             /\ \A t \in Targets : Closed(t)'
  <2>1. ASSUME NEW i \in Invocations PROVE Deciding(i)'
    BY <1>0, <1>2 DEF Deciding, Current, Verdict, Changed, GoesDown, Recovers
  <2>2. ASSUME NEW t \in Targets PROVE Closed(t)'
    BY <1>0, <1>2 DEF Closed, Settling, Unhandled, Current
  <2> QED
    BY <2>1, <2>2
<1>3. ASSUME NEW i \in Invocations, Step(i) \/ Fire(i)
      PROVE  /\ \A j \in Invocations : Deciding(j)'
             /\ \A t \in Targets : Closed(t)'
  <2>0. \A j \in Invocations : j # i => At(j, "idle") /\ At(j, "idle")'
    BY <1>0, <1>3, OthersIdle DEF Sequential, Orderly
  <2>1. \A j \in Invocations : j # i => Deciding(j)'
    BY <2>0 DEF Deciding, At, Late
  <2>2. \A t \in Targets :
          /\ ~Unhandled(i, t) /\ row[t].status # "down" => ~HasOpenIncident(t)
          /\ Unhandled(i, t) /\ inv[i].seen.status # "down" => ~HasOpenIncident(t)
    BY <1>0, <2>0, LoneSettling DEF Closed
  <2> DEFINE StillClosed(t) ==
        /\ ~Unhandled(i, t)' /\ row'[t].status # "down" => ~HasOpenIncident(t)'
        /\ Unhandled(i, t)' /\ inv'[i].seen.status # "down" => ~HasOpenIncident(t)'
  <2> SUFFICES Deciding(i)' /\ \A t \in Targets : StillClosed(t)
    BY <2>0, <2>1, LoneSettlingNext DEF Closed
  <2>3. /\ inv[i].pc \in Late => row[Current(i)].status = Verdict(i) /\ Changed(i)
        /\ inv[i].pc \in Late \ {"window"} => GoesDown(i) \/ Recovers(i)
    BY <1>0 DEF Deciding
  <2>4. CASE Early(i)
    <3>1. /\ inv[i].pc \notin Late /\ inv'[i].pc \notin Late
          /\ UNCHANGED <<row, incident>>
      BY <2>4, EarlyFrame
    <3> QED
      BY <2>2, <3>1 DEF Deciding, Unhandled, HasOpenIncident, Late
  <2>5. CASE WriteState(i)
    <3>1. /\ Current(i) \in Targets /\ inv[i].seen = row[Current(i)]
          /\ inv[i].pc = "write" /\ UNCHANGED incident
      BY <1>0, <2>5, AtWork DEF WriteState, Sequential, Orderly, At, Busy
    <3>2. \A t \in Targets : row[t].status # "down" => ~HasOpenIncident(t)'
      BY <2>2, <3>1 DEF Unhandled, HasOpenIncident
    <3>3. CASE GoTo(i, "reschedule") /\ \A t \in Targets : row'[t].status = row[t].status
      BY <3>2, <3>3, GoToFrame DEF Deciding, Unhandled, Late
    <3>4. CASE /\ row' = [row EXCEPT ![Current(i)] = NewRow(i)]
               /\ GoTo(i, IF Changed(i) THEN "window" ELSE "reschedule")
      <4>1. /\ row'[Current(i)].status = Verdict(i)
            /\ \A t \in Targets : t # Current(i) => row'[t] = row[t]
        BY <1>1, <3>1, <3>4 DEF NewRow
      <4>2. CASE Changed(i)
        <5>1. /\ inv'[i].pc = "window" /\ Current(i)' = Current(i)
              /\ Verdict(i)' = Verdict(i) /\ inv'[i].seen = inv[i].seen
          BY <3>4, <4>2, GoToFrame, CheckKept DEF Busy
        <5>2. Deciding(i)'
          BY <4>1, <4>2, <5>1 DEF Deciding, Changed
        <5>3. \A t \in Targets : Unhandled(i, t)' <=> t = Current(i)
          BY <5>1 DEF Unhandled
        <5> QED
          BY <3>1, <3>2, <4>1, <5>1, <5>2, <5>3
      <4>3. CASE ~Changed(i)
        <5>1. \A t \in Targets : row'[t].status = row[t].status
          BY <3>1, <4>1, <4>3 DEF Changed
        <5> QED
          BY <3>3, <3>4, <4>3, <5>1
      <4> QED
        BY <4>2, <4>3
    <3> QED
      BY <2>5, <3>3, <3>4 DEF WriteState
  <2>6. CASE CheckWindow(i)
    <3>1. /\ inv[i].pc = "window" /\ UNCHANGED <<row, incident>>
          /\ Current(i)' = Current(i) /\ Verdict(i)' = Verdict(i)
          /\ inv'[i].seen = inv[i].seen
      BY <2>6, CheckKept DEF CheckWindow, At
    <3>2. row[Current(i)].status = Verdict(i) /\ Changed(i)
      BY <2>3, <3>1 DEF Late
    <3>3. inv'[i].pc = IF GoesDown(i) \/ Recovers(i) THEN "incident" ELSE "reschedule"
      <4>1. inv[i] \in InvocationStates /\ DOMAIN inv = Invocations
        BY DEF TypeOK
      <4> QED
        BY <2>6, <4>1 DEF CheckWindow, AfterWindow, InvocationStates
    <3>4. CASE GoesDown(i) \/ Recovers(i)
      <4>1. inv'[i].pc = "incident"
        BY <3>3, <3>4
      <4>2. Deciding(i)'
        BY <3>1, <3>2, <3>4, <4>1 DEF Deciding, Changed, GoesDown, Recovers
      <4>3. \A t \in Targets : Unhandled(i, t)' <=> Unhandled(i, t)
        BY <3>1, <4>1 DEF Unhandled
      <4> QED
        BY <2>2, <3>1, <4>2, <4>3 DEF HasOpenIncident
    <3>5. CASE ~(GoesDown(i) \/ Recovers(i))
      <4>1. inv'[i].pc = "reschedule"
        BY <3>3, <3>5
      <4>2. inv[i].seen.status = "unknown"
        BY <3>1, <3>2, <3>5, ChangedVerdict DEF Busy
      <4>3. \A t \in Targets : Unhandled(i, t) <=> t = Current(i)
        BY <3>1 DEF Unhandled
      <4> QED
        BY <2>2, <3>1, <4>1, <4>2, <4>3 DEF Deciding, Unhandled, HasOpenIncident, Late
    <3> QED
      BY <3>4, <3>5
  <2>7. CASE OpenIncident(i)
    <3>1. /\ inv[i].pc = "incident" /\ GoesDown(i) /\ UNCHANGED row
          /\ InsertIncident(Current(i)) /\ Current(i) \in Targets
      BY <2>7, AtWork DEF OpenIncident, MayFail, At, Busy
    <3>2. /\ inv'[i].pc \in {"audit", "dispatch"}
          /\ Current(i)' = Current(i) /\ Verdict(i)' = Verdict(i)
          /\ inv'[i].seen = inv[i].seen
      BY <2>7, GoToFrame, CheckKept DEF OpenIncident, Busy
    <3>3. /\ row[Current(i)].status = Verdict(i) /\ Changed(i)
          /\ Verdict(i) = "down"
      BY <2>3, <3>1 DEF Late, GoesDown
    <3>4. Deciding(i)'
      BY <3>1, <3>2, <3>3 DEF Deciding, Changed, GoesDown
    <3>5. \A t \in Targets : ~Unhandled(i, t)' /\ (Unhandled(i, t) => t = Current(i))
      BY <3>2 DEF Unhandled
    <3>6. \A t \in Targets : t # Current(i) =>
            (HasOpenIncident(t)' <=> HasOpenIncident(t))
      <4>1. PICK u \in Targets : u = Current(i)
        BY <3>1
      <4> QED
        BY <3>1, <4>1, InsertOpens
    <3> QED
      BY <2>2, <3>1, <3>3, <3>4, <3>5, <3>6
  <2>8. CASE AutoResolve(i)
    <3>1. /\ inv[i].pc = "incident" /\ Recovers(i) /\ UNCHANGED row
          /\ CloseOpen(Current(i)) /\ Current(i) \in Targets
      BY <2>8, AtWork DEF AutoResolve, MayFail, At, Busy
    <3>2. /\ inv'[i].pc \in {"audit", "dispatch"}
          /\ Current(i)' = Current(i) /\ Verdict(i)' = Verdict(i)
          /\ inv'[i].seen = inv[i].seen
      BY <2>8, GoToFrame, CheckKept DEF AutoResolve, Busy
    <3>3. row[Current(i)].status = Verdict(i) /\ Changed(i)
      BY <2>3, <3>1 DEF Late
    <3>4. Deciding(i)'
      BY <3>1, <3>2, <3>3 DEF Deciding, Changed, Recovers
    <3>5. \A t \in Targets : ~Unhandled(i, t)' /\ (Unhandled(i, t) => t = Current(i))
      BY <3>2 DEF Unhandled
    <3>6. \A t \in Targets :
            /\ t = Current(i) => ~HasOpenIncident(t)'
            /\ t # Current(i) => (HasOpenIncident(t)' <=> HasOpenIncident(t))
      <4>1. PICK u \in Targets : u = Current(i)
        BY <3>1
      <4> QED
        BY <3>1, <4>1, AutoCloses
    <3> QED
      BY <2>2, <3>1, <3>4, <3>5, <3>6
  <2>9. CASE Dispatch(i) \/ MarkNotified(i) \/ AuditTransition(i)
    <3>1. /\ inv[i].pc \in {"dispatch", "mark", "audit"} /\ UNCHANGED incident
          /\ \A t \in Targets : row'[t].status = row[t].status
      BY <1>1, <2>9 DEF Dispatch, MarkNotified, AuditTransition, At, StateRows
    <3>2. /\ inv'[i].pc \in {"mark", "audit", "reschedule"}
          /\ Current(i)' = Current(i) /\ Verdict(i)' = Verdict(i)
          /\ inv'[i].seen = inv[i].seen
      BY <2>9, GoToFrame, CheckKept DEF Dispatch, MarkNotified, AuditTransition, Busy
    <3>3. /\ row[Current(i)].status = Verdict(i) /\ Changed(i)
          /\ GoesDown(i) \/ Recovers(i)
          /\ Current(i) \in Targets
      BY <2>3, <3>1, AtWork DEF Late, Busy
    <3>4. Deciding(i)'
      BY <3>1, <3>2, <3>3 DEF Deciding, Changed, GoesDown, Recovers
    <3>5. \A t \in Targets : ~Unhandled(i, t)' /\ ~Unhandled(i, t)
      BY <3>1, <3>2 DEF Unhandled
    <3> QED
      BY <2>2, <3>1, <3>4, <3>5 DEF HasOpenIncident
  <2> QED
    BY <1>3, <2>4, <2>5, <2>6, <2>7, <2>8, <2>9 DEF Step, Early
<1>4. ASSUME NEW id \in IncidentIds, ManualResolve(id)
      PROVE  UNCHANGED <<row, inv>>
             /\ \A t \in Targets : HasOpenIncident(t)' => HasOpenIncident(t)
  BY <1>4, HandCloses DEF ManualResolve, HasOpenIncident
<1>5. CASE UNCHANGED <<row, incident, inv>>
  BY <1>2, <1>5 DEF HasOpenIncident
<1> QED
  BY <1>0, <1>2, <1>3, <1>4, <1>5
  DEF Next, Tick, Miss, ToggleDisabled, ToggleWindow, vars

\* What the status and the incidents of an orderly run always agree on.
LEMMA OutageInvHolds ==
    ASSUME {"open", "resolve"} \cap Faulty = {}
    PROVE  Spec => []OutageInv
<1>1. Init => OutageInv
  BY DEF Init, Idle, FreshRow, Unborn, OutageInv, Deciding, Closed, Unhandled,
         HasOpenIncident, Late
<1>2. TypeOK /\ ConstantsAssumption /\ Sequential /\ OutageInv /\ [Next]_vars
        => OutageInv'
  BY OutageStep
<1> QED
  BY <1>1, <1>2, TypeCorrect, SequentialHolds, ConstantsAssumption, PTL DEF Spec
-----------------------------------------------------------------------------
(* The refinement of Outage.                                               *)

\* The status the refinement shows, when one invocation at most is at work.
LEMMA HandledLone ==
    \A i \in Invocations :
        (\A j \in Invocations : j # i => At(j, "idle"))
        => \A t \in Targets :
             HandledStatus[t] = IF Unhandled(i, t) THEN inv[i].seen.status
                                                   ELSE row[t].status
<1> SUFFICES ASSUME NEW i \in Invocations,
                    \A j \in Invocations : j # i => At(j, "idle"),
                    NEW t \in Targets
             PROVE  HandledStatus[t] = IF Unhandled(i, t) THEN inv[i].seen.status
                                                          ELSE row[t].status
  OBVIOUS
<1>1. /\ Settling(t) <=> Unhandled(i, t)
      /\ \A j \in Invocations : Unhandled(j, t) => j = i
  BY LoneSettling
<1>2. CASE Unhandled(i, t)
  <2>1. (CHOOSE j \in Invocations : Unhandled(j, t)) = i
    BY <1>1, <1>2
  <2> QED
    BY <1>1, <1>2, <2>1 DEF HandledStatus
<1>3. CASE ~Unhandled(i, t)
  BY <1>1, <1>3 DEF HandledStatus
<1> QED
  BY <1>2, <1>3

\* The same of the state a step leads to.
LEMMA HandledLoneNext ==
    (\A i \in Invocations :
        (\A j \in Invocations : j # i => At(j, "idle"))
        => \A t \in Targets :
             HandledStatus[t] = IF Unhandled(i, t) THEN inv[i].seen.status
                                                   ELSE row[t].status)'
BY HandledLone, PTL

\* A step that moves no target's status and no target's incident is a stutter
\* of Outage.
LEMMA OutageStutters ==
    ASSUME \A t \in Targets : /\ HandledStatus'[t] = HandledStatus[t]
                              /\ HasOpenIncident(t)' = HasOpenIncident(t)
    PROVE  UNCHANGED Promise!vars
<1>1. HandledStatus' = HandledStatus
  BY DEF HandledStatus
<1>2. [t \in Targets |-> HasOpenIncident(t)]' = [t \in Targets |-> HasOpenIncident(t)]
  OBVIOUS
<1> QED
  BY <1>1, <1>2 DEF Promise!vars

\* A step that moves one target's status and incident maps one target of Outage.
LEMMA OutageMoves ==
    ASSUME NEW t \in Targets, NEW status, NEW open,
           HandledStatus'[t] = status, HasOpenIncident(t)' = open,
           \A u \in Targets : u # t =>
               /\ HandledStatus'[u] = HandledStatus[u]
               /\ HasOpenIncident(u)' = HasOpenIncident(u)
    PROVE  /\ HandledStatus' = [HandledStatus EXCEPT ![t] = status]
           /\ [u \in Targets |-> HasOpenIncident(u)]'
                = [[u \in Targets |-> HasOpenIncident(u)] EXCEPT ![t] = open]
<1>1. /\ HandledStatus = [u \in Targets |-> HandledStatus[u]]
      /\ HandledStatus' = [u \in Targets |-> HandledStatus'[u]]
  BY DEF HandledStatus
<1>2. HandledStatus' = [HandledStatus EXCEPT ![t] = status]
  BY <1>1
<1>3. [u \in Targets |-> HasOpenIncident(u)']
        = [[u \in Targets |-> HasOpenIncident(u)] EXCEPT ![t] = open]
  OBVIOUS
<1> QED
  BY <1>2, <1>3

\* Nothing of the status shown moves while the rows and the invocations stay.
LEMMA HandledStays ==
    ASSUME UNCHANGED <<row, inv>>
    PROVE  HandledStatus' = HandledStatus
BY Zenon DEF HandledStatus, Settling, Unhandled, Current

\* A resolution by hand closes its target's only open incident, or none.
LEMMA CloseByHandStep ==
    ASSUME TypeOK, OneOpenIncident, NEW id \in IncidentIds, ManualResolve(id)
    PROVE  Promise!Next \/ UNCHANGED Promise!vars
<1>1. HandledStatus' = HandledStatus
  BY HandledStays DEF ManualResolve
<1>2. /\ \A a \in IncidentIds : /\ incident'[a].target = incident[a].target
                                /\ a # id => incident'[a].status = incident[a].status
      /\ incident'[id].status = "resolved" /\ incident[id].target \in Targets
  BY HandCloses
<1>3. CASE incident[id].status = "open"
  <2>1. PICK t \in Targets : t = incident[id].target
    BY <1>2
  <2>2. HasOpenIncident(t) /\ ~HasOpenIncident(t)'
    BY <1>2, <1>3, <2>1 DEF HasOpenIncident, OneOpenIncident
  <2>3. \A u \in Targets : u # t => HasOpenIncident(u)' = HasOpenIncident(u)
    BY <1>2, <2>1 DEF HasOpenIncident
  <2>4. [u \in Targets |-> HasOpenIncident(u)]'
          = [[u \in Targets |-> HasOpenIncident(u)] EXCEPT ![t] = FALSE]
    <3>1. HasOpenIncident(t)' = FALSE
      BY <2>2
    <3> QED
      BY <1>1, <2>3, <3>1, OutageMoves
  <2>5. Promise!CloseByHand(t)
    BY <1>1, <2>2, <2>4 DEF Promise!CloseByHand
  <2> QED
    BY <2>5 DEF Promise!Next
<1>4. CASE incident[id].status # "open"
  <2>1. \A u \in Targets : HasOpenIncident(u)' = HasOpenIncident(u)
    BY <1>2, <1>4 DEF HasOpenIncident
  <2> QED
    BY <1>1, <2>1, OutageStutters
<1> QED
  BY <1>3, <1>4

\* Every step of an orderly run is a step of Outage or a stutter.
LEMMA ImplementationStep ==
    ASSUME {"open", "resolve"} \cap Faulty = {},
           TypeOK, ConstantsAssumption, OneOpenIncident, Sequential, OutageInv,
           Orderly', [Next]_vars
    PROVE  [Promise!Next]_(Promise!vars)
<1>0. /\ Orderly /\ \A i \in Invocations : ~Crash(i)
      /\ \A i \in Invocations : Deciding(i)
      /\ \A t \in Targets : Closed(t)
  BY OrderlyBefore DEF OutageInv
<1>1. row \in [Targets -> StateRows]
  BY DEF TypeOK
<1>2. CASE UNCHANGED <<row, incident, inv>>
  <2>1. HandledStatus' = HandledStatus
    BY <1>2, HandledStays
  <2>2. \A t \in Targets : HasOpenIncident(t)' = HasOpenIncident(t)
    BY <1>2 DEF HasOpenIncident
  <2> QED
    BY <2>1, <2>2, OutageStutters
<1>3. ASSUME NEW i \in Invocations, Step(i) \/ Fire(i)
      PROVE  Promise!Next \/ UNCHANGED Promise!vars
  <2>0. \A j \in Invocations : j # i => At(j, "idle") /\ At(j, "idle")'
    BY <1>0, <1>3, OthersIdle DEF Sequential, Orderly
  <2>1. ASSUME NEW t \in Targets
        PROVE  /\ HandledStatus[t] = IF Unhandled(i, t) THEN inv[i].seen.status
                                                        ELSE row[t].status
               /\ HandledStatus'[t] = IF Unhandled(i, t)' THEN inv'[i].seen.status
                                                          ELSE row'[t].status
    BY <2>0, HandledLone, HandledLoneNext
  <2>2. \A t \in Targets :
          /\ ~Unhandled(i, t) /\ row[t].status # "down" => ~HasOpenIncident(t)
          /\ Unhandled(i, t) /\ inv[i].seen.status # "down" => ~HasOpenIncident(t)
    BY <1>0, <2>0, LoneSettling DEF Closed
  <2>3. /\ inv[i].pc \in Late => row[Current(i)].status = Verdict(i) /\ Changed(i)
        /\ inv[i].pc \in Late \ {"window"} => GoesDown(i) \/ Recovers(i)
    BY <1>0 DEF Deciding
  <2>s. ASSUME UNCHANGED incident,
               \A t \in Targets : HandledStatus'[t] = HandledStatus[t]
        PROVE  UNCHANGED Promise!vars
    <3>1. \A t \in Targets : HasOpenIncident(t)' = HasOpenIncident(t)
      BY <2>s DEF HasOpenIncident
    <3> QED
      BY <2>s, <3>1, OutageStutters
  <2>4. CASE Early(i)
    <3>1. /\ inv[i].pc \notin Late /\ inv'[i].pc \notin Late
          /\ UNCHANGED <<row, incident>>
      BY <2>4, EarlyFrame
    <3>2. \A t \in Targets : HandledStatus'[t] = HandledStatus[t]
      BY <2>1, <3>1 DEF Unhandled, Late
    <3> QED
      BY <2>s, <3>1, <3>2
  <2>5. CASE WriteState(i)
    <3>1. /\ Current(i) \in Targets /\ inv[i].seen = row[Current(i)]
          /\ inv[i].pc = "write" /\ UNCHANGED incident
      BY <1>0, <2>5, AtWork DEF WriteState, Sequential, Orderly, At, Busy
    <3>2. \A t \in Targets : HandledStatus[t] = row[t].status
      BY <2>1, <3>1 DEF Unhandled
    <3>3. CASE GoTo(i, "reschedule") /\ \A t \in Targets : row'[t].status = row[t].status
      <4>1. \A t \in Targets : ~Unhandled(i, t)'
        BY <3>3, GoToFrame DEF Unhandled
      <4> QED
        BY <2>1, <2>s, <3>1, <3>2, <3>3, <4>1
    <3>4. CASE /\ row' = [row EXCEPT ![Current(i)] = NewRow(i)]
               /\ GoTo(i, IF Changed(i) THEN "window" ELSE "reschedule")
      <4>1. /\ row'[Current(i)].status = Verdict(i)
            /\ \A t \in Targets : t # Current(i) => row'[t] = row[t]
        BY <1>1, <3>1, <3>4 DEF NewRow
      <4>2. CASE Changed(i)
        <5>1. /\ inv'[i].pc = "window" /\ Current(i)' = Current(i)
              /\ inv'[i].seen = inv[i].seen
          BY <3>4, <4>2, GoToFrame, CheckKept DEF Busy
        <5>2. \A t \in Targets : Unhandled(i, t)' <=> t = Current(i)
          BY <5>1 DEF Unhandled
        <5>3. \A t \in Targets : HandledStatus'[t] = HandledStatus[t]
          BY <2>1, <3>1, <3>2, <4>1, <5>1, <5>2
        <5> QED
          BY <2>s, <3>1, <5>3
      <4>3. CASE ~Changed(i)
        <5>1. \A t \in Targets : row'[t].status = row[t].status
          BY <3>1, <4>1, <4>3 DEF Changed
        <5> QED
          BY <3>3, <3>4, <4>3, <5>1
      <4> QED
        BY <4>2, <4>3
    <3> QED
      BY <2>5, <3>3, <3>4 DEF WriteState
  <2>6. CASE CheckWindow(i)
    <3>1. /\ inv[i].pc = "window" /\ UNCHANGED <<row, incident>>
          /\ Current(i)' = Current(i) /\ inv'[i].seen = inv[i].seen
          /\ Current(i) \in Targets
      BY <2>6, CheckKept, AtWork DEF CheckWindow, At, Busy
    <3>2. row[Current(i)].status = Verdict(i) /\ Changed(i)
      BY <2>3, <3>1 DEF Late
    <3>3. inv'[i].pc = IF GoesDown(i) \/ Recovers(i) THEN "incident" ELSE "reschedule"
      <4>1. inv[i] \in InvocationStates /\ DOMAIN inv = Invocations
        BY DEF TypeOK
      <4> QED
        BY <2>6, <4>1 DEF CheckWindow, AfterWindow, InvocationStates
    <3>4. CASE GoesDown(i) \/ Recovers(i)
      <4>1. \A t \in Targets : Unhandled(i, t)' <=> Unhandled(i, t)
        BY <3>1, <3>3, <3>4 DEF Unhandled
      <4>2. \A t \in Targets : HandledStatus'[t] = HandledStatus[t]
        BY <2>1, <3>1, <4>1
      <4> QED
        BY <2>s, <3>1, <4>2
    <3>5. CASE ~(GoesDown(i) \/ Recovers(i))
      <4>1. \A t \in Targets : ~Unhandled(i, t)' /\ (Unhandled(i, t) <=> t = Current(i))
        BY <3>1, <3>3, <3>5 DEF Unhandled
      <4>2. inv[i].seen.status = "unknown" /\ Verdict(i) = "up"
        BY <3>1, <3>2, <3>5, ChangedVerdict DEF Busy
      <4>3. PICK t \in Targets : t = Current(i)
        BY <3>1
      <4>4. /\ HandledStatus[t] = "unknown" /\ HandledStatus'[t] = "up"
            /\ \A u \in Targets : u # t => HandledStatus'[u] = HandledStatus[u]
        BY <2>1, <3>1, <3>2, <4>1, <4>2, <4>3
      <4>5. \A u \in Targets : HasOpenIncident(u)' = HasOpenIncident(u)
        BY <3>1 DEF HasOpenIncident
      <4>6. HandledStatus' = [HandledStatus EXCEPT ![t] = "up"]
        BY <4>4, <4>5, OutageMoves
      <4>7. [u \in Targets |-> HasOpenIncident(u)]' = [u \in Targets |-> HasOpenIncident(u)]
        BY <4>5
      <4>8. Promise!FirstUp(t)
        BY <4>4, <4>6, <4>7 DEF Promise!FirstUp
      <4> QED
        BY <4>8 DEF Promise!Next
    <3> QED
      BY <3>4, <3>5
  <2>7. CASE OpenIncident(i)
    <3>1. /\ inv[i].pc = "incident" /\ GoesDown(i) /\ UNCHANGED row
          /\ InsertIncident(Current(i)) /\ Current(i) \in Targets
      BY <2>7, AtWork DEF OpenIncident, MayFail, At, Busy
    <3>2. inv'[i].pc \in {"audit", "dispatch"}
      BY <2>7, GoToFrame DEF OpenIncident
    <3>3. row[Current(i)].status = "down" /\ inv[i].seen.status # "down"
      BY <2>3, <3>1 DEF Late, GoesDown, Changed
    <3>4. \A t \in Targets : ~Unhandled(i, t)' /\ (Unhandled(i, t) <=> t = Current(i))
      BY <3>1, <3>2 DEF Unhandled
    <3>5. PICK t \in Targets : t = Current(i)
      BY <3>1
    <3>6. /\ HandledStatus[t] # "down" /\ HandledStatus'[t] = "down"
          /\ \A u \in Targets : u # t => HandledStatus'[u] = HandledStatus[u]
      BY <2>1, <3>1, <3>3, <3>4, <3>5
    <3>7. /\ ~HasOpenIncident(t) /\ HasOpenIncident(t)'
          /\ \A u \in Targets : u # t => (HasOpenIncident(u)' <=> HasOpenIncident(u))
      BY <2>2, <3>1, <3>3, <3>4, <3>5, InsertOpens
    <3>8. /\ HasOpenIncident(t)' = TRUE
          /\ \A u \in Targets : u # t => HasOpenIncident(u)' = HasOpenIncident(u)
      BY <3>7 DEF HasOpenIncident
    <3>9. Promise!GoDown(t)
      BY <3>6, <3>7, <3>8, OutageMoves DEF Promise!GoDown
    <3> QED
      BY <3>9 DEF Promise!Next
  <2>8. CASE AutoResolve(i)
    <3>1. /\ inv[i].pc = "incident" /\ Recovers(i) /\ UNCHANGED row
          /\ CloseOpen(Current(i)) /\ Current(i) \in Targets
      BY <2>8, AtWork DEF AutoResolve, MayFail, At, Busy
    <3>2. inv'[i].pc \in {"audit", "dispatch"}
      BY <2>8, GoToFrame DEF AutoResolve
    <3>3. row[Current(i)].status = "up" /\ inv[i].seen.status = "down"
      BY <2>3, <3>1 DEF Late, Recovers
    <3>4. \A t \in Targets : ~Unhandled(i, t)' /\ (Unhandled(i, t) <=> t = Current(i))
      BY <3>1, <3>2 DEF Unhandled
    <3>5. PICK t \in Targets : t = Current(i)
      BY <3>1
    <3>6. /\ HandledStatus[t] = "down" /\ HandledStatus'[t] = "up"
          /\ \A u \in Targets : u # t => HandledStatus'[u] = HandledStatus[u]
      BY <2>1, <3>1, <3>3, <3>4, <3>5
    <3>7. /\ ~HasOpenIncident(t)'
          /\ \A u \in Targets : u # t => (HasOpenIncident(u)' <=> HasOpenIncident(u))
      BY <3>1, <3>5, AutoCloses
    <3>8. /\ HasOpenIncident(t)' = FALSE
          /\ \A u \in Targets : u # t => HasOpenIncident(u)' = HasOpenIncident(u)
      BY <3>7 DEF HasOpenIncident
    <3>9. Promise!Recover(t)
      BY <3>6, <3>7, <3>8, OutageMoves DEF Promise!Recover
    <3> QED
      BY <3>9 DEF Promise!Next
  <2>9. CASE Dispatch(i) \/ MarkNotified(i) \/ AuditTransition(i)
    <3>1. /\ inv[i].pc \in {"dispatch", "mark", "audit"} /\ UNCHANGED incident
          /\ \A t \in Targets : row'[t].status = row[t].status
      BY <1>1, <2>9 DEF Dispatch, MarkNotified, AuditTransition, At, StateRows
    <3>2. inv'[i].pc \in {"mark", "audit", "reschedule"}
      BY <2>9, GoToFrame DEF Dispatch, MarkNotified, AuditTransition
    <3>3. \A t \in Targets : ~Unhandled(i, t)' /\ ~Unhandled(i, t)
      BY <3>1, <3>2 DEF Unhandled
    <3>4. \A t \in Targets : HandledStatus'[t] = HandledStatus[t]
      BY <2>1, <3>1, <3>3
    <3> QED
      BY <2>s, <3>1, <3>4
  <2> QED
    BY <1>3, <2>4, <2>5, <2>6, <2>7, <2>8, <2>9 DEF Step, Early
<1> QED
  BY <1>0, <1>2, <1>3, CloseByHandStep
  DEF Next, Tick, Miss, ToggleDisabled, ToggleWindow, vars

\* FR-INC-01: whatever the thresholds, the number of targets and the calls
\* other than those on incidents do, the worker of an orderly run keeps the
\* promise of Outage: status and incident move together.
THEOREM OutageImplementedHolds ==
    ASSUME {"open", "resolve"} \cap Faulty = {}
    PROVE  Spec /\ []Orderly => OutageImplemented
<1>1. Init => Promise!Init
  <2> SUFFICES ASSUME Init PROVE Promise!Init
    OBVIOUS
  <2>1. HandledStatus = [t \in Targets |-> "unknown"]
    <3>1. \A t \in Targets : ~Settling(t)
      BY DEF Init, Idle, Settling, Unhandled
    <3> QED
      BY <3>1 DEF Init, FreshRow, HandledStatus
  <2>2. \A t \in Targets : HasOpenIncident(t) = FALSE
    BY DEF Init, Unborn, HasOpenIncident
  <2> QED
    BY <2>1, <2>2 DEF Promise!Init
<1>2. TypeOK /\ ConstantsAssumption /\ OneOpenIncident /\ Sequential /\ OutageInv
        /\ Orderly' /\ [Next]_vars => [Promise!Next]_(Promise!vars)
  BY ImplementationStep
<1>3. Spec => []OutageInv
  BY OutageInvHolds
<1> QED
  BY <1>1, <1>2, <1>3, TypeCorrect, OneOpenIncidentHolds, SequentialHolds,
     ConstantsAssumption, PTL
  DEF Spec, OutageImplemented, Promise!Spec
-----------------------------------------------------------------------------
(* Handled to the end: incident, notification and audit trail.             *)

\* An incident that has a target keeps it, and its opening time.
LEMMA IncidentsKept ==
    ASSUME TypeOK, ConstantsAssumption, [Next]_vars
    PROVE  \A a \in IncidentIds : incident[a].target \in Targets =>
             /\ incident'[a].target = incident[a].target
             /\ incident'[a].openedAt = incident[a].openedAt
<1> SUFFICES ASSUME NEW a \in IncidentIds, incident[a].target \in Targets
             PROVE  /\ incident'[a].target = incident[a].target
                    /\ incident'[a].openedAt = incident[a].openedAt
  OBVIOUS
<1>1. incident \in [IncidentIds -> Incidents] /\ incident[a] # Unborn
  BY DEF TypeOK, Unborn, ConstantsAssumption
<1>2. ASSUME NEW t \in Targets, InsertIncident(t)
      PROVE  incident'[a] = incident[a]
  BY <1>1, <1>2 DEF InsertIncident, InsertUnindexed
<1>3. ASSUME NEW t \in Targets, CloseOpen(t)
      PROVE  /\ incident'[a].target = incident[a].target
             /\ incident'[a].openedAt = incident[a].openedAt
  <2>1. incident'[a] = IF incident[a].target = t /\ incident[a].status = "open"
                THEN [incident[a] EXCEPT !.status = "resolved", !.by = "system"]
                ELSE incident[a]
    BY <1>3 DEF CloseOpen
  <2>2. incident[a] \in [target : Targets, status : {"open", "resolved"},
                         by : {"none", "system", "admin"}, openedAt : Nat]
    BY <1>1 DEF Incidents
  <2> QED
    BY <2>1, <2>2
<1>4. ASSUME NEW id \in IncidentIds, ManualResolve(id)
      PROVE  /\ incident'[a].target = incident[a].target
             /\ incident'[a].openedAt = incident[a].openedAt
  BY <1>4, HandCloses
<1> QED
  BY <1>2, <1>3, <1>4, IncidentWrites

\* The incident of an outage carries the time of its INSERT.
LEMMA InsertDated ==
    ASSUME TypeOK, NEW t \in Targets, InsertIncident(t), ~HasOpenIncident(t)
    PROVE  \E id \in IncidentIds : /\ incident'[id].target = t
                                   /\ incident'[id].openedAt = clock
<1>1. PICK id \in IncidentIds :
        incident' = [incident EXCEPT ![id] =
              [target |-> t, status |-> "open", by |-> "none", openedAt |-> clock]]
  BY DEF InsertIncident, InsertUnindexed
<1>2. incident'[id] = [target |-> t, status |-> "open", by |-> "none", openedAt |-> clock]
  BY <1>1 DEF TypeOK
<1> QED
  BY <1>2

\* The clock never runs back.
LEMMA ClockStep ==
    ASSUME TypeOK, [Next]_vars
    PROVE  clock \in Nat /\ clock' \in Nat /\ clock <= clock'
<1>1. clock' = clock \/ clock' = clock + 1
  BY DEF Next, vars, Tick, Miss, Fire, Crash, Step, SelectNone, SelectDue, Attempt,
     InsertResult, ReadState, WriteState, CheckWindow, OpenIncident, AutoResolve,
     Dispatch, MarkNotified, AuditTransition, Reschedule, Finish, ManualResolve,
     ToggleDisabled, ToggleWindow
<1> QED
  BY <1>1 DEF TypeOK

\* The row that is stored keeps its date and the time of its notification while
\* its status stays; a new status is dated now.
LEMMA NewRowDated ==
    ASSUME TypeOK, ConstantsAssumption, Dated, NEW i \in Invocations,
           At(i, "write"), NEW t \in Targets, Current(i) = t, inv[i].seen = row[t]
    PROVE  /\ NewRow(i).status = Verdict(i)
           /\ NewRow(i).notified = row[t].notified
           /\ NewRow(i).since <= clock
           /\ Verdict(i) = "down" => NewRow(i).since # NoTime
           /\ ~Changed(i) /\ Verdict(i) = "down" => NewRow(i).since = row[t].since
<1>1. /\ clock \in Nat /\ clock # NoTime
      /\ row[t].since \in Nat /\ row[t].since <= clock
      /\ row[t].status = "down" => row[t].since # NoTime
  BY DEF Dated, TypeOK, StateRows
<1> QED
  BY <1>1 DEF NewRow, Changed

\* No step of an orderly run leaves a transition half reported, if the incident,
\* the mark and the audit row are written.
LEMMA ReportStep ==
    ASSUME {"open", "resolve", "mark", "audit"} \cap Faulty = {}
    PROVE  TypeOK /\ ConstantsAssumption /\ Sequential /\ OutageInv /\ ReportInv
             /\ [Next]_vars => ReportInv'
<1> SUFFICES ASSUME TypeOK, ConstantsAssumption, Sequential, OutageInv, ReportInv,
                    [Next]_vars, Orderly'
             PROVE  /\ Dated'
                    /\ \A t \in Targets : Reported(t)'
                    /\ \A i \in Invocations : Reporting(i)'
  BY DEF ReportInv
<1>0. /\ Orderly /\ \A i \in Invocations : ~Crash(i)
      /\ \A i \in Invocations : Deciding(i)
      /\ \A t \in Targets : Closed(t)
      /\ Dated
      /\ \A t \in Targets : Reported(t)
      /\ \A i \in Invocations : Reporting(i)
  BY OrderlyBefore DEF OutageInv, ReportInv
<1>1. /\ row \in [Targets -> StateRows]
      /\ alert \in [Targets -> {"none", "silenced", "sent"}]
      /\ trail \in [Targets -> Status \cup {"none"}]
  BY DEF TypeOK
<1>c. clock \in Nat /\ clock' \in Nat /\ clock <= clock'
  BY ClockStep
<1>k. \A t \in Targets : row'[t].since = row[t].since /\ Opened(t) => Opened(t)'
  BY IncidentsKept DEF Opened
<1>d. ASSUME \A t \in Targets : /\ row'[t].since = row[t].since
                                /\ row'[t].status = row[t].status
      PROVE  Dated'
  <2>1. \A t \in Targets : row[t].since \in Nat
    BY <1>1 DEF StateRows
  <2> QED
    BY <1>0, <1>c, <1>d, <2>1 DEF Dated, NoTime
\* Steps of the platform, of operators and of windows.
<1>2. ASSUME UNCHANGED <<row, alert, trail, inv>>
      PROVE  /\ Dated'
             /\ \A t \in Targets : Reported(t)'
             /\ \A i \in Invocations : Reporting(i)'
  <2>1. Dated'
    BY <1>2, <1>d
  <2>2. ASSUME NEW t \in Targets PROVE Reported(t)'
    <3>1. Reported(t) /\ (Opened(t) => Opened(t)')
      BY <1>0, <1>2, <1>k
    <3>2. (Settling(t)' <=> Settling(t)) /\ (Settled(t)' <=> Settled(t))
      BY <1>2 DEF Settling, Settled, Unhandled, Current
    <3>3. Notified(t)' <=> Notified(t)
      BY <1>2 DEF Notified
    <3> QED
      BY <1>2, <3>1, <3>2, <3>3 DEF Reported
  <2>3. ASSUME NEW i \in Invocations PROVE Reporting(i)'
    BY <1>0, <1>2 DEF Reporting, Notified, At, Current, GoesDown, Verdict
  <2> QED
    BY <2>1, <2>2, <2>3
<1>3. ASSUME NEW i \in Invocations, Step(i) \/ Fire(i)
      PROVE  /\ Dated'
             /\ \A t \in Targets : Reported(t)'
             /\ \A j \in Invocations : Reporting(j)'
  <2>0. \A j \in Invocations : j # i => At(j, "idle") /\ At(j, "idle")'
    BY <1>0, <1>3, OthersIdle DEF Sequential, Orderly
  <2>1. \A j \in Invocations : j # i => Reporting(j)'
    BY <2>0 DEF Reporting, At
  <2> DEFINE Busied(t) == inv[i].pc \in Late /\ Current(i) = t
             Report(t) ==
               /\ ~Unhandled(i, t) /\ row[t].status = "down" => Opened(t)
               /\ ~Busied(t) /\ row[t].status = "down" => Notified(t)
               /\ ~Busied(t) => (trail[t] = "down" <=> row[t].status = "down")
  <2>2. \A t \in Targets : Report(t)
    BY <1>0, <2>0, LoneSettling DEF Reported
  <2> SUFFICES Dated' /\ Reporting(i)' /\ \A t \in Targets : Report(t)'
    <3>1. ASSUME NEW t \in Targets, Report(t)' PROVE Reported(t)'
      <4>1. /\ Settling(t)' <=> Unhandled(i, t)'
            /\ Settled(t)' <=> ~(inv'[i].pc \in Late /\ Current(i)' = t)
        BY <2>0, LoneSettlingNext
      <4> QED
        BY <3>1, <4>1 DEF Reported
    <3> QED
      BY <2>1, <3>1
  <2>3. /\ inv[i].pc \in Late => row[Current(i)].status = Verdict(i) /\ Changed(i)
        /\ inv[i].pc \in Late \ {"window"} => GoesDown(i) \/ Recovers(i)
        /\ inv[i].pc \in Late => Current(i) \in Targets
    BY <1>0, AtWork DEF Deciding, Late, Busy
  <2>r. Reporting(i)
    BY <1>0
  <2>4. CASE Early(i)
    <3>1. /\ inv[i].pc \notin Late /\ inv'[i].pc \notin Late
          /\ UNCHANGED <<row, incident, alert, trail, clock>>
      BY <2>4, EarlyFrame
    <3>2. Dated'
      BY <1>d, <3>1
    <3>3. Reporting(i)'
      BY <3>1 DEF Reporting, At, Late
    <3>4. ASSUME NEW t \in Targets PROVE Report(t)'
      <4>1. ~Busied(t) /\ ~Unhandled(i, t) /\ ~Busied(t)' /\ ~Unhandled(i, t)'
        BY <3>1 DEF Unhandled, Late
      <4>2. (Opened(t) => Opened(t)') /\ (Notified(t)' <=> Notified(t))
        BY <1>k, <3>1 DEF Notified
      <4> QED
        BY <2>2, <3>1, <4>1, <4>2
    <3> QED
      BY <3>2, <3>3, <3>4
  <2>5. CASE WriteState(i)
    <3>1. PICK c \in Targets : /\ c = Current(i) /\ inv[i].seen = row[c]
                               /\ inv[i].pc = "write" /\ UNCHANGED <<incident, trail>>
      BY <1>0, <2>5, AtWork DEF WriteState, Sequential, Orderly, At, Busy
    <3>2. \A t \in Targets : ~Busied(t) /\ ~Unhandled(i, t)
      BY <3>1 DEF Unhandled, Late
    <3>3. CASE GoTo(i, "reschedule") /\ UNCHANGED <<row, alert>>
      <4>1. inv'[i].pc = "reschedule"
        BY <3>3, GoToFrame
      <4>2. Dated' /\ Reporting(i)'
        BY <1>d, <3>3, <4>1 DEF Reporting, At
      <4>3. ASSUME NEW t \in Targets PROVE Report(t)'
        <5>1. (Opened(t) => Opened(t)') /\ (Notified(t)' <=> Notified(t))
          BY <1>k, <3>3 DEF Notified
        <5> QED
          BY <2>2, <3>1, <3>2, <3>3, <5>1
      <4> QED
        BY <4>2, <4>3
    <3>4. CASE /\ row' = [row EXCEPT ![Current(i)] = NewRow(i)]
               /\ alert' = IF Verdict(i) = "down" THEN alert
                           ELSE [alert EXCEPT ![Current(i)] = "none"]
               /\ GoTo(i, IF Changed(i) THEN "window" ELSE "reschedule")
      <4>1. /\ row'[c] = NewRow(i)
            /\ \A t \in Targets : t # c => row'[t] = row[t] /\ alert'[t] = alert[t]
            /\ Verdict(i) = "down" => alert' = alert
            /\ UNCHANGED clock
        BY <1>1, <2>5, <3>1, <3>4 DEF WriteState
      <4>2. /\ row'[c].status = Verdict(i)
            /\ row'[c].notified = row[c].notified
            /\ row'[c].since <= clock
            /\ Verdict(i) = "down" => row'[c].since # NoTime
            /\ ~Changed(i) /\ Verdict(i) = "down" => row'[c].since = row[c].since
        BY <1>0, <3>1, <4>1, NewRowDated DEF At
      <4>3. Dated'
        BY <1>0, <4>1, <4>2 DEF Dated
      <4>4. ASSUME NEW t \in Targets, t # c PROVE Report(t)'
        <5>1. (Opened(t) => Opened(t)') /\ (Notified(t)' <=> Notified(t))
          BY <1>k, <4>1, <4>4 DEF Notified
        <5> QED
          BY <2>2, <3>1, <3>2, <4>1, <4>4, <5>1
      <4>5. CASE Changed(i)
        <5>1. /\ inv'[i].pc = "window" /\ Current(i)' = Current(i)
              /\ inv'[i].seen = inv[i].seen
          BY <3>4, <4>5, GoToFrame, CheckKept DEF Busy
        <5>2. Reporting(i)'
          <6>1. inv[i].seen.status = "unknown" => trail[c] # "down"
            BY <2>2, <3>1, <3>2
          <6> QED
            BY <3>1, <5>1, <6>1 DEF Reporting, At
        <5>3. Report(c)'
          <6>1. Busied(c)' /\ Unhandled(i, c)'
            BY <3>1, <5>1 DEF Unhandled, Late
          <6> QED
            BY <6>1
        <5> QED
          BY <4>3, <4>4, <5>2, <5>3
      <4>6. CASE ~Changed(i)
        <5>1. inv'[i].pc = "reschedule" /\ row'[c].status = row[c].status
          BY <3>1, <3>4, <4>2, <4>6, GoToFrame DEF Changed
        <5>2. Reporting(i)'
          BY <5>1 DEF Reporting, At
        <5>3. Report(c)'
          <6>1. CASE Verdict(i) = "down"
            <7>1. (Opened(c) => Opened(c)') /\ (Notified(c)' <=> Notified(c))
              BY <1>k, <4>1, <4>2, <4>6, <6>1 DEF Notified
            <7> QED
              BY <2>2, <3>1, <3>2, <5>1, <7>1
          <6>2. CASE Verdict(i) # "down"
            BY <2>2, <3>1, <3>2, <4>2, <5>1, <6>2
          <6> QED
            BY <6>1, <6>2
        <5> QED
          BY <4>3, <4>4, <5>2, <5>3
      <4> QED
        BY <4>5, <4>6
    <3> QED
      BY <2>5, <3>3, <3>4 DEF WriteState
  <2>6. CASE CheckWindow(i)
    <3>1. /\ inv[i].pc = "window" /\ UNCHANGED <<row, incident, alert, trail>>
          /\ Current(i)' = Current(i) /\ inv'[i].seen = inv[i].seen
      BY <2>6, CheckKept DEF CheckWindow, At
    <3>2. row[Current(i)].status = Verdict(i) /\ Changed(i)
      BY <2>3, <3>1 DEF Late
    <3>3. inv'[i].pc = IF GoesDown(i) \/ Recovers(i) THEN "incident" ELSE "reschedule"
      <4>1. inv[i] \in InvocationStates /\ DOMAIN inv = Invocations
        BY DEF TypeOK
      <4> QED
        BY <2>6, <4>1 DEF CheckWindow, AfterWindow, InvocationStates
    <3>4. Dated' /\ Reporting(i)'
      BY <1>d, <3>1, <3>3 DEF Reporting, At
    <3>5. ASSUME NEW t \in Targets PROVE Report(t)'
      <4>1. (Opened(t) => Opened(t)') /\ (Notified(t)' <=> Notified(t))
        BY <1>k, <3>1 DEF Notified
      <4>2. CASE GoesDown(i) \/ Recovers(i)
        <5>1. (Busied(t)' <=> Busied(t)) /\ (Unhandled(i, t)' <=> Unhandled(i, t))
          BY <3>1, <3>3, <4>2 DEF Unhandled, Late
        <5> QED
          BY <2>2, <3>1, <4>1, <5>1
      <4>3. CASE ~(GoesDown(i) \/ Recovers(i))
        <5>1. inv[i].seen.status = "unknown" /\ Verdict(i) = "up"
          BY <3>1, <3>2, <4>3, ChangedVerdict DEF Busy
        <5>2. t = Current(i) => trail[t] # "down" /\ row[t].status = "up"
          BY <2>r, <3>1, <3>2, <5>1 DEF Reporting, At
        <5>3. t # Current(i) => ~Busied(t) /\ ~Unhandled(i, t)
          BY DEF Unhandled
        <5> QED
          BY <2>2, <3>1, <4>1, <5>2, <5>3
      <4> QED
        BY <4>2, <4>3
    <3> QED
      BY <3>4, <3>5
  <2>7. CASE OpenIncident(i)
    <3>1. PICK c \in Targets :
          /\ c = Current(i) /\ inv[i].pc = "incident" /\ GoesDown(i)
          /\ UNCHANGED <<row, trail, clock>>
          /\ InsertIncident(c)
      BY <2>7, AtWork DEF OpenIncident, MayFail, At, Busy
    <3>2. /\ inv'[i].pc = IF inv[i].silenced THEN "audit" ELSE "dispatch"
          /\ Current(i)' = Current(i)
          /\ alert' = IF inv[i].silenced THEN [alert EXCEPT ![c] = "silenced"]
                      ELSE alert
      BY <2>7, <3>1, GoToFrame DEF OpenIncident
    <3>3. row[c].status = "down" /\ inv[i].seen.status # "down"
      BY <2>3, <3>1 DEF Late, GoesDown, Changed
    <3>4. ~HasOpenIncident(c)
      BY <1>0, <3>1, <3>3 DEF Closed, Unhandled
    <3>5. Opened(c)'
      <4>1. row'[c].since <= clock
        BY <1>0, <3>1 DEF Dated
      <4>2. PICK id \in IncidentIds : /\ incident'[id].target = c
                                      /\ incident'[id].openedAt = clock
        BY <3>1, <3>4, InsertDated
      <4>3. incident'[id].openedAt >= row'[c].since
        BY <1>1, <1>c, <3>1, <4>1, <4>2 DEF StateRows
      <4> QED
        BY <4>2, <4>3 DEF Opened
    <3>6. Reporting(i)'
      BY <1>1, <3>1, <3>2 DEF Reporting, Notified, At
    <3>7. Dated'
      BY <1>d, <3>1
    <3>8. ASSUME NEW t \in Targets PROVE Report(t)'
      <4>1. CASE t = c
        <5>1. Busied(c)'
          BY <3>1, <3>2 DEF Late
        <5> QED
          BY <3>5, <4>1, <5>1
      <4>2. CASE t # c
        <5>1. (Opened(t) => Opened(t)') /\ (Notified(t)' <=> Notified(t))
          BY <1>1, <1>k, <3>1, <3>2, <4>2 DEF Notified
        <5>2. ~Busied(t) /\ ~Unhandled(i, t)
          BY <3>1, <4>2 DEF Unhandled
        <5> QED
          BY <2>2, <3>1, <5>1, <5>2
      <4> QED
        BY <4>1, <4>2
    <3> QED
      BY <3>6, <3>7, <3>8
  <2>8. CASE AutoResolve(i)
    <3>1. /\ inv[i].pc = "incident" /\ Recovers(i)
          /\ UNCHANGED <<row, alert, trail>>
      BY <2>8 DEF AutoResolve, At
    <3>2. /\ inv'[i].pc \in {"audit", "dispatch"}
          /\ Current(i)' = Current(i) /\ Verdict(i)' = Verdict(i)
      BY <2>8, GoToFrame DEF AutoResolve
    <3>3. row[Current(i)].status = "up"
      BY <2>3, <3>1 DEF Late, Recovers
    <3>4. Reporting(i)'
      BY <3>1, <3>2 DEF Reporting, At, GoesDown, Recovers
    <3>5. Dated'
      BY <1>d, <3>1
    <3>6. ASSUME NEW t \in Targets PROVE Report(t)'
      <4>1. (Opened(t) => Opened(t)') /\ (Notified(t)' <=> Notified(t))
        BY <1>k, <3>1 DEF Notified
      <4>2. (Busied(t)' <=> Busied(t)) /\ (Unhandled(i, t) => t = Current(i))
        BY <3>1, <3>2 DEF Unhandled, Late
      <4> QED
        BY <2>2, <3>1, <3>3, <4>1, <4>2
    <3> QED
      BY <3>4, <3>5, <3>6
  <2>9. CASE Dispatch(i)
    <3>1. PICK c \in Targets :
          /\ c = Current(i) /\ inv[i].pc = "dispatch"
          /\ UNCHANGED <<row, trail>>
          /\ alert' = IF GoesDown(i) THEN [alert EXCEPT ![c] = "sent"] ELSE alert
      BY <2>9, AtWork DEF Dispatch, At, Busy
    <3>2. /\ inv'[i].pc = "mark"
          /\ Current(i)' = Current(i) /\ Verdict(i)' = Verdict(i)
      BY <2>9, GoToFrame DEF Dispatch
    <3>3. Reporting(i)'
      BY <1>1, <3>1, <3>2 DEF Reporting, At, GoesDown
    <3>4. Dated'
      BY <1>d, <3>1
    <3>5. ASSUME NEW t \in Targets PROVE Report(t)'
      <4>1. /\ Opened(t) => Opened(t)'
            /\ t # c => (Notified(t)' <=> Notified(t))
        BY <1>1, <1>k, <3>1 DEF Notified
      <4>2. /\ Busied(t)' <=> Busied(t)
            /\ Busied(c)
            /\ ~Unhandled(i, t)
        BY <3>1, <3>2 DEF Unhandled, Late
      <4> QED
        BY <2>2, <3>1, <4>1, <4>2
    <3> QED
      BY <3>3, <3>4, <3>5
  <2>10. CASE MarkNotified(i)
    <3>1. PICK c \in Targets :
          /\ c = Current(i) /\ inv[i].pc = "mark"
          /\ UNCHANGED <<alert, trail, clock>>
          /\ row' = [row EXCEPT ![c].notified = clock]
      BY <2>10, AtWork DEF MarkNotified, MayFail, At, Busy
    <3>2. /\ inv'[i].pc = "audit"
          /\ Current(i)' = Current(i) /\ Verdict(i)' = Verdict(i)
      BY <2>10, GoToFrame DEF MarkNotified
    <3>3. /\ row'[c].notified = clock
          /\ \A t \in Targets : /\ row'[t].since = row[t].since
                                /\ row'[t].status = row[t].status
                                /\ t # c => row'[t] = row[t]
      BY <1>1, <3>1 DEF StateRows
    <3>4. Reporting(i)'
      <4>1. row'[c].notified >= row'[c].since
        BY <1>0, <1>1, <1>c, <3>3 DEF Dated, StateRows
      <4> QED
        BY <2>r, <3>1, <3>2, <4>1 DEF Reporting, Notified, At, GoesDown
    <3>5. Dated'
      BY <1>d, <3>3
    <3>6. ASSUME NEW t \in Targets PROVE Report(t)'
      <4>1. /\ Opened(t) => Opened(t)'
            /\ t # c => (Notified(t)' <=> Notified(t))
        BY <1>k, <3>1, <3>3 DEF Notified
      <4>2. /\ Busied(t)' <=> Busied(t)
            /\ Busied(c)
            /\ ~Unhandled(i, t)
        BY <3>1, <3>2 DEF Unhandled, Late
      <4> QED
        BY <2>2, <3>1, <3>3, <4>1, <4>2
    <3> QED
      BY <3>4, <3>5, <3>6
  <2>11. CASE AuditTransition(i)
    <3>1. PICK c \in Targets :
          /\ c = Current(i) /\ inv[i].pc = "audit"
          /\ UNCHANGED <<row, alert>>
          /\ trail' = [trail EXCEPT ![c] = Verdict(i)]
      BY <2>11, AtWork DEF AuditTransition, MayFail, At, Busy
    <3>2. inv'[i].pc = "reschedule"
      BY <2>11, GoToFrame DEF AuditTransition
    <3>3. row[c].status = Verdict(i)
      BY <2>3, <3>1 DEF Late
    <3>4. Reporting(i)' /\ Dated'
      BY <1>d, <3>1, <3>2 DEF Reporting, At
    <3>5. ASSUME NEW t \in Targets PROVE Report(t)'
      <4>1. (Opened(t) => Opened(t)') /\ (Notified(t)' <=> Notified(t))
        BY <1>k, <3>1 DEF Notified
      <4>2. ~Unhandled(i, t) /\ (t # c => ~Busied(t))
        BY <3>1 DEF Unhandled
      <4>3. row[c].status = "down" => Notified(c)
        BY <2>r, <3>1, <3>3 DEF Reporting, At, GoesDown
      <4>4. trail'[t] = IF t = c THEN Verdict(i) ELSE trail[t]
        BY <1>1, <3>1
      <4> QED
        BY <2>2, <3>1, <3>3, <4>1, <4>2, <4>3, <4>4
    <3> QED
      BY <3>4, <3>5
  <2> QED
    BY <1>3, <2>4, <2>5, <2>6, <2>7, <2>8, <2>9, <2>10, <2>11 DEF Step, Early
<1> QED
  BY <1>0, <1>2, <1>3
  DEF Next, Tick, Miss, ManualResolve, ToggleDisabled, ToggleWindow, vars

\* FR-INC-01, FR-SUP-05, FR-SUP-06: as long as the run is orderly and the
\* incident, the mark and the audit row are written, a target between two
\* checks has its incident, its notification and its trail in agreement with
\* its status.
THEOREM TransitionHandledHolds ==
    ASSUME {"open", "resolve", "mark", "audit"} \cap Faulty = {}
    PROVE  Spec => [](Orderly => TransitionHandled)
<1>1. ConstantsAssumption /\ Init => ReportInv
  <2> SUFFICES ASSUME ConstantsAssumption, Init PROVE ReportInv
    OBVIOUS
  <2>1. Dated /\ \A i \in Invocations : Reporting(i)
    BY DEF Init, Idle, FreshRow, NoTime, Dated, Reporting, At
  <2>2. \A t \in Targets : Reported(t)
    BY DEF Init, FreshRow, Reported
  <2> QED
    BY <2>1, <2>2 DEF ReportInv
<1>2. TypeOK /\ ConstantsAssumption /\ Sequential /\ OutageInv /\ ReportInv
        /\ [Next]_vars => ReportInv'
  BY ReportStep
<1>3. {"open", "resolve"} \cap Faulty = {}
  OBVIOUS
<1>4. Spec => []OutageInv
  BY <1>3, OutageInvHolds
<1>5. OutageInv /\ ReportInv => (Orderly => TransitionHandled)
  <2> SUFFICES ASSUME OutageInv, ReportInv, Orderly, NEW t \in Targets, Settled(t)
               PROVE  IF row[t].status = "down"
                      THEN Opened(t) /\ Notified(t) /\ trail[t] = "down"
                      ELSE ~HasOpenIncident(t) /\ trail[t] # "down"
    BY DEF TransitionHandled, Opened, Notified
  <2>1. ~Settling(t)
    BY DEF Settled, Settling, Unhandled
  <2> QED
    BY <2>1 DEF OutageInv, ReportInv, Closed, Reported
<1> QED
  BY <1>1, <1>2, <1>4, <1>5, TypeCorrect, SequentialHolds, ConstantsAssumption, PTL
  DEF Spec
=============================================================================
