--------------------------- MODULE RetentionProofs ---------------------------
(***************************************************************************)
(* The retention pass for any number of rows, passes, batches and aborts:  *)
(* its types, what it deletes, that a deleted row is in the archive, and   *)
(* that a pass that ends has removed all that was expired when it began.   *)
(***************************************************************************)
EXTENDS Retention, FiniteSetTheorems, TLAPS

\* A row that a batch took: it was stored, and expired when the pass began.
Doomed(p, r) ==
    /\ TableOf(r) = pass[p].table
    /\ row[r].state # "absent"
    /\ row[r].at < pass[p].now - policy[TableOf(r)].keep
    /\ r \in Incidents => row[r].resolved

OnTable == {"select", "archive", "delete", "stamp"}
WithBatch == {"archive", "delete"}

\* What a pass relies on between its awaits.
PassInv(p) ==
    /\ pass[p].now <= clock
    /\ pass[p].todo \subseteq DOMAIN policy
    /\ pass[p].pc \in OnTable =>
         pass[p].table \in DOMAIN policy /\ ~Skipped(pass[p].table)
    /\ pass[p].pc \in WithBatch => \A r \in pass[p].batch : Doomed(p, r)

Inv == TypeOK /\ \A p \in Passes : PassInv(p)

\* What stands before a deletion is in the archive.
BatchArchived ==
    \A p \in Passes : At(p, "delete") => \A r \in pass[p].batch : Archived(r)

PassStates ==
    [pc : {"idle", "policy", "select", "archive", "delete", "stamp"},
     now : Nat, todo : SUBSET Tables, table : Tables \cup {"none"},
     batch : SUBSET Rows]
-----------------------------------------------------------------------------
\* A row belongs to one of the three tables, by the set it is in.
LEMMA TableOfRow ==
    ASSUME NEW r \in Rows
    PROVE  /\ TableOf(r) \in {"check_results", "incidents", "audit_logs"}
           /\ r \in AuditLogs <=> TableOf(r) = "audit_logs"
BY RetentionAssumption DEF TableOf, Rows

\* A policy that is not skipped is of a class that is archived, and says so.
LEMMA NotSkipped ==
    ASSUME NEW t, ~Skipped(t)
    PROVE  Recognized(t) /\ t # "audit_logs" /\ policy[t].archive
BY DEF Skipped, NonExpiring, Recognized, RequiresArchival

\* The policies are a table of periods and flags.
LEMMA PolicyType ==
    ASSUME TypeOK
    PROVE  DOMAIN policy \subseteq Tables /\ \A t \in DOMAIN policy : policy[t] \in Policies
BY RetentionAssumption DEF TypeOK

\* A pass's variables keep their types when one pass's are replaced.
LEMMA PassUpdate ==
    ASSUME TypeOK, NEW p \in Passes, NEW s \in PassStates,
           s.pc \in OnTable => Recognized(s.table),
           pass' = [pass EXCEPT ![p] = s]
    PROVE  /\ pass' \in [Passes -> PassStates]
           /\ \A q \in Passes : pass'[q].pc \in OnTable => Recognized(pass'[q].table)
BY DEF TypeOK, PassStates, OnTable

\* What each step of a pass does to the pass's own variables.
LEMMA StepEffect ==
    ASSUME Inv, NEW p \in Passes, Start(p) \/ Step(p) \/ Abort(p)
    PROVE  \E s \in PassStates :
             /\ pass' = [pass EXCEPT ![p] = s]
             /\ s.pc \in OnTable => Recognized(s.table)
             /\ UNCHANGED <<clock, policy>>
             /\ s.now \in {0, clock, pass[p].now}
             /\ s.todo \subseteq DOMAIN policy
             /\ s.pc \in OnTable => s.table \in DOMAIN policy /\ ~Skipped(s.table)
             /\ s.pc \in WithBatch =>
                  \/ /\ s.batch \subseteq Eligible(p) /\ row' = row
                     /\ s.now = pass[p].now /\ s.table = pass[p].table
                     /\ s.pc = "archive" /\ bucket' = bucket
                  \/ /\ At(p, "archive") /\ s.pc = "delete" /\ row' = row
                     /\ s.batch = pass[p].batch /\ s.now = pass[p].now
                     /\ s.table = pass[p].table
<1>1. pass \in [Passes -> PassStates] /\ pass[p] \in PassStates
  BY DEF Inv, TypeOK, PassStates
<1>2. PassInv(p) /\ DOMAIN policy \subseteq Tables /\ clock \in Nat
  BY PolicyType DEF Inv, TypeOK
<1>3. Resting \in PassStates /\ Resting.pc = "idle" /\ Resting.now = 0 /\ Resting.todo = {}
  BY DEF Resting, PassStates
<1>4. CASE Start(p)
  <2> DEFINE s == [Resting EXCEPT !.pc = "policy", !.now = clock, !.todo = DOMAIN policy]
  <2>1. s \in PassStates /\ s.pc = "policy" /\ s.now = clock /\ s.todo = DOMAIN policy
    BY <1>2 DEF PassStates, Resting
  <2>2. pass' = [pass EXCEPT ![p] = s]
    BY <1>4 DEF Start
  <2> HIDE DEF s
  <2> QED BY <1>4, <2>1, <2>2 DEF Start, OnTable, WithBatch
<1>5. CASE NextPolicy(p)
  <2>1. PICK t \in pass[p].todo :
          pass' = [pass EXCEPT ![p].todo = @ \ {t}, ![p].table = t,
                               ![p].pc = AfterPolicy(t)]
    BY <1>5 DEF NextPolicy
  <2> DEFINE s == [pass[p] EXCEPT !.todo = @ \ {t}, !.table = t, !.pc = AfterPolicy(t)]
  <2>2. t \in DOMAIN policy /\ t \in Tables
    BY <1>2 DEF PassInv
  <2>3. /\ s.pc = AfterPolicy(t) /\ s.table = t /\ s.now = pass[p].now
        /\ s.todo = pass[p].todo \ {t} /\ s \in PassStates
    <3>1. AfterPolicy(t) \in {"policy", "select"}
      BY DEF AfterPolicy
    <3> QED BY <1>1, <2>2, <3>1 DEF PassStates
  <2>4. pass' = [pass EXCEPT ![p] = s]
    BY <1>1, <2>1
  <2>5. s.pc \in OnTable => ~Skipped(t) /\ Recognized(t)
    <3>1. "policy" \notin OnTable
      BY DEF OnTable
    <3> QED BY <2>3, <3>1, NotSkipped DEF AfterPolicy
  <2>6. s.pc \notin WithBatch
    BY <2>3 DEF WithBatch, AfterPolicy
  <2>7. s.todo \subseteq DOMAIN policy
    BY <1>2, <2>3 DEF PassInv
  <2> HIDE DEF s
  <2> QED BY <1>5, <2>2, <2>3, <2>4, <2>5, <2>6, <2>7 DEF NextPolicy
<1>6. CASE Finish(p)
  <2>1. "idle" \notin OnTable /\ "idle" \notin WithBatch
    BY DEF OnTable, WithBatch
  <2> QED BY <1>3, <1>6, <2>1 DEF Finish
<1>7. CASE Select(p)
  <2>1. PICK b \in SUBSET Eligible(p) :
         pass' = [pass EXCEPT ![p].batch = b, ![p].pc = AfterSelect(p, b)]
    BY <1>7 DEF Select
  <2>2. pass[p].table \in DOMAIN policy /\ ~Skipped(pass[p].table)
    BY <1>2, <1>7 DEF PassInv, OnTable, Select, At
  <2>3. policy[pass[p].table].archive /\ Recognized(pass[p].table)
    BY <2>2, NotSkipped
  <2> DEFINE pc == IF b = {} THEN "stamp" ELSE "archive"
             s == [pass[p] EXCEPT !.batch = b, !.pc = pc]
  <2>4. pass' = [pass EXCEPT ![p] = s]
    BY <1>1, <2>1, <2>3 DEF AfterSelect
  <2>5. /\ s.pc = pc /\ s.batch = b /\ s.table = pass[p].table
        /\ s.now = pass[p].now /\ s.todo = pass[p].todo /\ s \in PassStates
    BY <1>1 DEF PassStates, Eligible
  <2>6. s.pc # "delete" /\ (s.pc \in WithBatch => s.pc = "archive")
    BY <2>5 DEF WithBatch
  <2>7. s.todo \subseteq DOMAIN policy
    BY <1>2, <2>5 DEF PassInv
  <2> HIDE DEF s, pc
  <2> QED BY <1>7, <2>2, <2>3, <2>4, <2>5, <2>6, <2>7 DEF Select
<1>8. CASE Archive(p)
  <2> DEFINE s == [pass[p] EXCEPT !.pc = "delete"]
  <2>1. /\ s.pc = "delete" /\ s.batch = pass[p].batch /\ s.table = pass[p].table
        /\ s.now = pass[p].now /\ s.todo = pass[p].todo /\ s \in PassStates
    BY <1>1 DEF PassStates
  <2>2. pass' = [pass EXCEPT ![p] = s]
    BY <1>1, <1>8 DEF Archive
  <2>3. pass[p].table \in DOMAIN policy /\ ~Skipped(pass[p].table)
    BY <1>2, <1>8 DEF PassInv, OnTable, Archive, At
  <2>4. Recognized(pass[p].table)
    BY <2>3, NotSkipped
  <2>5. s.todo \subseteq DOMAIN policy
    BY <1>2, <2>1 DEF PassInv
  <2> HIDE DEF s
  <2> QED BY <1>8, <2>1, <2>2, <2>3, <2>4, <2>5 DEF Archive
<1>9. CASE Delete(p)
  <2> DEFINE s == [pass[p] EXCEPT !.pc = "select", !.batch = {}]
  <2>1. /\ s.pc = "select" /\ s.table = pass[p].table
        /\ s.now = pass[p].now /\ s.todo = pass[p].todo /\ s \in PassStates
    BY <1>1 DEF PassStates
  <2>2. pass' = [pass EXCEPT ![p] = s]
    BY <1>1, <1>9 DEF Delete, AfterDelete
  <2>3. pass[p].table \in DOMAIN policy /\ ~Skipped(pass[p].table)
    BY <1>2, <1>9 DEF PassInv, OnTable, Delete, At
  <2>4. Recognized(pass[p].table) /\ "select" \notin WithBatch
    BY <2>3, NotSkipped DEF WithBatch
  <2>5. s.todo \subseteq DOMAIN policy
    BY <1>2, <2>1 DEF PassInv
  <2> HIDE DEF s
  <2> QED BY <1>9, <2>1, <2>2, <2>3, <2>4, <2>5 DEF Delete
<1>10. CASE Stamp(p)
  <2> DEFINE s == [pass[p] EXCEPT !.pc = "policy"]
  <2>1. s.pc = "policy" /\ s.now = pass[p].now /\ s.todo = pass[p].todo /\ s \in PassStates
    BY <1>1 DEF PassStates
  <2>2. pass' = [pass EXCEPT ![p] = s]
    BY <1>1, <1>10 DEF Stamp
  <2>3. "policy" \notin OnTable /\ "policy" \notin WithBatch
    BY DEF OnTable, WithBatch
  <2>4. s.todo \subseteq DOMAIN policy
    BY <1>2, <2>1 DEF PassInv
  <2> HIDE DEF s
  <2> QED BY <1>10, <2>1, <2>2, <2>3, <2>4 DEF Stamp
<1>11. CASE Abort(p)
  <2>1. "idle" \notin OnTable /\ "idle" \notin WithBatch
    BY DEF OnTable, WithBatch
  <2> QED BY <1>3, <1>11, <2>1 DEF Abort
<1> QED BY <1>4, <1>5, <1>6, <1>7, <1>8, <1>9, <1>10, <1>11 DEF Step
-----------------------------------------------------------------------------
RowStates == [state : {"absent", "stored", "gone"}, at : Nat, resolved : BOOLEAN]

\* What a step does to a row: it is born, it is resolved, or it is deleted as
\* part of a batch that stands before a deletion.
LEMMA RowEffect ==
    ASSUME Inv, Next, NEW r \in Rows
    PROVE  \/ row'[r] = row[r]
           \/ row[r].state = "absent" /\ row'[r].state = "stored"
           \/ /\ row[r].state = "stored" /\ row'[r].state = "stored"
              /\ row'[r].at = row[r].at /\ row'[r].resolved
           \/ /\ \E p \in Passes : At(p, "delete") /\ r \in pass[p].batch
              /\ row[r].state = "stored" /\ row'[r].state = "gone"
              /\ row'[r].at = row[r].at /\ row'[r].resolved = row[r].resolved
<1>1. row \in [Rows -> RowStates]
  BY DEF Inv, TypeOK, RowStates
<1>2. CASE UNCHANGED row
  BY <1>2
<1>3. ASSUME NEW q \in Rows, AddRow(q)
      PROVE  \/ row'[r] = row[r]
             \/ row[r].state = "absent" /\ row'[r].state = "stored"
  BY <1>1, <1>3 DEF AddRow, Absent, RowStates
<1>4. ASSUME NEW q \in Rows, Resolve(q)
      PROVE  \/ row'[r] = row[r]
             \/ /\ row[r].state = "stored" /\ row'[r].state = "stored"
                /\ row'[r].at = row[r].at /\ row'[r].resolved
  BY <1>1, <1>4 DEF Resolve, Stored, RowStates
<1>5. ASSUME NEW p \in Passes, Delete(p)
      PROVE  \/ row'[r] = row[r]
             \/ /\ At(p, "delete") /\ r \in pass[p].batch
                /\ row[r].state = "stored" /\ row'[r].state = "gone"
                /\ row'[r].at = row[r].at /\ row'[r].resolved = row[r].resolved
  BY <1>1, <1>5 DEF Delete, Deleted, Stored, RowStates
<1>6. ASSUME NEW p \in Passes, Start(p) \/ Step(p) \/ Abort(p), ~Delete(p)
      PROVE  UNCHANGED row
  BY <1>6 DEF Start, Step, NextPolicy, Finish, Select, Archive, Stamp, Abort
<1>7. CASE Tick
  BY <1>2, <1>7 DEF Tick
<1> QED BY <1>2, <1>3, <1>4, <1>5, <1>6, <1>7 DEF Next

\* A row keeps its type, and time does not run backwards.
LEMMA RowType ==
    ASSUME Inv, Next
    PROVE  row' \in [Rows -> RowStates] /\ policy' = policy
           /\ clock' \in Nat /\ clock <= clock'
<1>1. row \in [Rows -> RowStates] /\ clock \in Nat
  BY DEF Inv, TypeOK, RowStates
<1>2. CASE Tick
  BY <1>1, <1>2 DEF Tick
<1>3. ASSUME NEW r \in Rows, AddRow(r) \/ Resolve(r)
      PROVE  row' \in [Rows -> RowStates] /\ policy' = policy /\ clock' = clock
  <2>1. CASE AddRow(r)
    <3> DEFINE new == [row[r] EXCEPT !.state = "stored", !.at = clock]
    <3>1. new \in RowStates
      <4>1. row[r] \in RowStates /\ clock \in Nat
        BY <1>1
      <4> QED BY <4>1 DEF RowStates
    <3>2. row' = [row EXCEPT ![r] = new]
      BY <1>1, <2>1 DEF AddRow
    <3> HIDE DEF new
    <3> QED BY <1>1, <2>1, <3>1, <3>2 DEF AddRow
  <2>2. CASE Resolve(r)
    <3> DEFINE new == [row[r] EXCEPT !.resolved = TRUE]
    <3>1. new \in RowStates
      <4>1. row[r] \in RowStates
        BY <1>1
      <4> QED BY <4>1 DEF RowStates
    <3>2. row' = [row EXCEPT ![r] = new]
      BY <1>1, <2>2 DEF Resolve
    <3> HIDE DEF new
    <3> QED BY <1>1, <2>2, <3>1, <3>2 DEF Resolve
  <2> QED BY <1>3, <2>1, <2>2
<1>4. ASSUME NEW p \in Passes, Start(p) \/ Step(p) \/ Abort(p)
      PROVE  row' \in [Rows -> RowStates] /\ policy' = policy /\ clock' = clock
  <2>1. CASE Delete(p)
    <3>1. \A r \in Rows : [row[r] EXCEPT !.state = "gone"] \in RowStates
      BY <1>1 DEF RowStates
    <3> QED BY <1>1, <2>1, <3>1 DEF Delete
  <2>2. CASE ~Delete(p)
    BY <1>1, <1>4, <2>2 DEF Start, Step, NextPolicy, Finish, Select, Archive, Stamp, Abort
  <2> QED BY <2>1, <2>2
<1> QED BY <1>1, <1>2, <1>3, <1>4 DEF Next

\* The types hold at the start.
LEMMA TypeInit == Init => Inv
<1> SUFFICES ASSUME Init PROVE Inv
  OBVIOUS
<1>1. row \in [Rows -> RowStates] /\ cleaned \in [Tables -> Nat]
  BY DEF Init, Absent, RowStates
<1>2. /\ pass \in [Passes -> PassStates]
      /\ \A p \in Passes : pass[p].pc = "idle" /\ pass[p].now = 0 /\ pass[p].todo = {}
  BY DEF Init, Resting, PassStates
<1>3. "idle" \notin OnTable /\ "idle" \notin WithBatch
  BY DEF OnTable, WithBatch
<1>4. TypeOK
  BY <1>1, <1>2, <1>3 DEF Init, TypeOK, RowStates, PassStates, OnTable
<1>5. \A p \in Passes : PassInv(p)
  BY <1>2, <1>3 DEF PassInv, Init
<1> QED BY <1>4, <1>5 DEF Inv

\* Each step keeps the types.
LEMMA TypeStep == ASSUME Inv, Next PROVE TypeOK'
<1>1. /\ row' \in [Rows -> RowStates] /\ policy' = policy /\ clock' \in Nat
      /\ pass \in [Passes -> PassStates]
      /\ \A p \in Passes : pass[p].pc \in OnTable => Recognized(pass[p].table)
  BY RowType DEF Inv, TypeOK, PassStates, OnTable
<1>2. /\ pass' \in [Passes -> PassStates]
      /\ \A p \in Passes : pass'[p].pc \in OnTable => Recognized(pass'[p].table)
  <2>1. ASSUME NEW p \in Passes, Start(p) \/ Step(p) \/ Abort(p)
        PROVE  \E s \in PassStates : /\ pass' = [pass EXCEPT ![p] = s]
                                     /\ s.pc \in OnTable => Recognized(s.table)
    BY <2>1, StepEffect
  <2>2. CASE \E p \in Passes : Start(p) \/ Step(p) \/ Abort(p)
    BY <2>1, <2>2, PassUpdate DEF Inv
  <2>3. CASE Tick \/ \E r \in Rows : AddRow(r) \/ Resolve(r)
    BY <1>1, <2>3 DEF Tick, AddRow, Resolve
  <2> QED BY <2>2, <2>3 DEF Next
<1>3. \A object \in bucket' : object.rows \subseteq Rows
  <2>1. CASE UNCHANGED bucket
    BY <2>1 DEF Inv, TypeOK
  <2>2. ASSUME NEW p \in Passes, Archive(p)
        PROVE  \A object \in bucket' : object.rows \subseteq Rows
    <3>1. pass[p] \in PassStates
      BY DEF PassStates, Inv, TypeOK
    <3>2. pass[p].batch \subseteq Rows
      BY <3>1 DEF PassStates
    <3> QED BY <2>2, <3>2 DEF Archive, Put, Inv, TypeOK
  <2>3. CASE \A p \in Passes : ~Archive(p)
    <3>1. UNCHANGED bucket
      BY <2>3 DEF Next, Tick, AddRow, Resolve, Start, Step, NextPolicy,
                  Finish, Select, Delete, Stamp, Abort
    <3> QED BY <2>1, <3>1
  <2> QED BY <2>2, <2>3
<1>4. cleaned' \in [Tables -> Nat] /\ aborts' \in Nat
  <2>1. cleaned \in [Tables -> Nat] /\ aborts \in Nat
    BY DEF Inv, TypeOK
  <2>2. ASSUME NEW p \in Passes, Stamp(p) PROVE cleaned' \in [Tables -> Nat]
    <3> DEFINE t == pass[p].table
               n == pass[p].now
    <3>1. n \in Nat
      <4>1. pass[p] \in PassStates
        BY <1>1
      <4> QED BY <4>1 DEF PassStates
    <3>2. cleaned' = [cleaned EXCEPT ![t] = n]
      BY <2>2 DEF Stamp
    <3> HIDE DEF t, n
    <3> QED BY <2>1, <3>1, <3>2
  <2>3. ASSUME \A p \in Passes : ~Stamp(p) PROVE cleaned' \in [Tables -> Nat]
    <3>1. UNCHANGED cleaned
      BY <2>3 DEF Next, Tick, AddRow, Resolve, Start, Step, NextPolicy,
                  Finish, Select, Archive, Delete, Abort
    <3> QED BY <2>1, <3>1
  <2>4. cleaned' \in [Tables -> Nat]
    BY <2>2, <2>3
  <2>5. aborts' \in Nat
    <3>1. aborts' \in {aborts, aborts + 1}
      BY DEF Next, Tick, AddRow, Resolve, Start, Step, NextPolicy,
             Finish, Select, Archive, Delete, Stamp, Abort
    <3> QED BY <2>1, <3>1
  <2> QED BY <2>4, <2>5
<1>5. due' \in [Passes -> SUBSET Rows]
  <2>1. due \in [Passes -> SUBSET Rows] /\ Due(clock) \in SUBSET Rows
    BY DEF Inv, TypeOK, Due
  <2>2. ASSUME NEW p \in Passes, Start(p) PROVE due' \in [Passes -> SUBSET Rows]
    BY <2>1, <2>2 DEF Start
  <2>3. ASSUME \A p \in Passes : ~Start(p) PROVE due' = due
    BY <2>3 DEF Next, Tick, AddRow, Resolve, Step, NextPolicy, Finish,
                Select, Archive, Delete, Stamp, Abort
  <2> QED BY <2>1, <2>2, <2>3
<1> QED BY <1>1, <1>2, <1>3, <1>4, <1>5 DEF TypeOK, Inv, RowStates, PassStates, OnTable

\* A batch's rows stay doomed whatever happens to them: a deleted row keeps
\* its columns, and no step opens an incident again.
LEMMA StaysDoomed ==
    ASSUME Inv, Next, NEW p \in Passes, NEW q \in Passes, NEW r \in Rows, Doomed(p, r),
           pass'[q].table = pass[p].table, pass'[q].now = pass[p].now
    PROVE  Doomed(q, r)'
<1>1. policy' = policy
  BY RowType
<1>2. row[r].state # "absent"
  BY DEF Doomed
<1>3. row'[r].state # "absent" /\ row'[r].at = row[r].at
      /\ (row'[r].resolved = row[r].resolved \/ row'[r].resolved)
  BY <1>2, RowEffect
<1>4. TableOf(r)' = TableOf(r)
  BY DEF TableOf
<1> QED BY <1>1, <1>3, <1>4 DEF Doomed

\* Each step keeps what the passes rely on.
LEMMA InvStep == Inv /\ [Next]_vars => Inv'
<1> SUFFICES ASSUME Inv, [Next]_vars PROVE Inv'
  OBVIOUS
<1>1. CASE UNCHANGED vars
  BY <1>1 DEF Inv, TypeOK, PassInv, Doomed, Skipped, vars
<1>2. CASE Next
  <2>1. TypeOK' /\ policy' = policy /\ clock <= clock'
    BY <1>2, TypeStep, RowType
  <2>2. clock \in Nat /\ clock' \in Nat /\ pass \in [Passes -> PassStates]
    BY <2>1 DEF Inv, TypeOK, PassStates
  <2>3. \A t : Skipped(t)' <=> Skipped(t)
    BY <2>1 DEF Skipped
  <2>4. ASSUME NEW p \in Passes, pass'[p] = pass[p]
        PROVE  PassInv(p)'
    <3>1. PassInv(p) /\ pass[p].now \in Nat /\ pass[p].batch \subseteq Rows
      BY <2>2 DEF Inv, PassStates
    <3>2. pass'[p].pc \in WithBatch => \A r \in pass'[p].batch : Doomed(p, r)'
      BY <1>2, <2>4, <3>1, StaysDoomed DEF PassInv
    <3>3. pass'[p].now <= clock'
      BY <2>1, <2>2, <2>4, <3>1 DEF PassInv
    <3> QED BY <2>1, <2>3, <2>4, <3>1, <3>2, <3>3 DEF PassInv
  <2>5. ASSUME NEW p \in Passes, Start(p) \/ Step(p) \/ Abort(p)
        PROVE  \A q \in Passes : PassInv(q)'
    <3>1. PICK s \in PassStates :
             /\ pass' = [pass EXCEPT ![p] = s]
             /\ s.pc \in OnTable => Recognized(s.table)
             /\ UNCHANGED <<clock, policy>>
             /\ s.now \in {0, clock, pass[p].now}
             /\ s.todo \subseteq DOMAIN policy
             /\ s.pc \in OnTable => s.table \in DOMAIN policy /\ ~Skipped(s.table)
             /\ s.pc \in WithBatch =>
                  \/ /\ s.batch \subseteq Eligible(p) /\ row' = row
                     /\ s.now = pass[p].now /\ s.table = pass[p].table
                     /\ s.pc = "archive" /\ bucket' = bucket
                  \/ /\ At(p, "archive") /\ s.pc = "delete" /\ row' = row
                     /\ s.batch = pass[p].batch /\ s.now = pass[p].now
                     /\ s.table = pass[p].table
      BY <2>5, StepEffect
    <3>2. pass'[p] = s /\ \A q \in Passes \ {p} : pass'[q] = pass[q]
      BY <2>2, <3>1
    <3>3. \A q \in Passes \ {p} : PassInv(q)'
      BY <2>4, <3>2
    <3>4. s.now <= clock'
      <4>1. PassInv(p) /\ pass[p].now \in Nat
        BY <2>2 DEF Inv, PassStates
      <4> QED BY <2>2, <3>1, <4>1 DEF PassInv
    <3>5. ASSUME s.pc \in WithBatch, NEW r \in s.batch PROVE Doomed(p, r)'
      <4>1. s.now = pass[p].now /\ s.table = pass[p].table /\ r \in Rows
        BY <3>1, <3>5 DEF PassStates
      <4>2. Doomed(p, r)
        <5>1. CASE s.batch \subseteq Eligible(p)
          BY <3>5, <5>1 DEF Eligible, Expired, Stored, Doomed
        <5>2. CASE At(p, "archive") /\ s.batch = pass[p].batch
          BY <3>5, <5>2 DEF At, WithBatch, Inv, PassInv
        <5> QED BY <3>1, <3>5, <5>1, <5>2
      <4> QED BY <1>2, <3>2, <4>1, <4>2, StaysDoomed
    <3>6. PassInv(p)'
      BY <2>1, <2>3, <3>1, <3>2, <3>4, <3>5 DEF PassInv
    <3> QED BY <3>3, <3>6
  <2>6. CASE Tick \/ \E r \in Rows : AddRow(r) \/ Resolve(r)
    <3>1. pass' = pass
      BY <2>6 DEF Tick, AddRow, Resolve
    <3> QED BY <2>1, <2>4, <3>1 DEF Inv
  <2> QED BY <1>2, <2>1, <2>5, <2>6 DEF Next, Inv
<1> QED BY <1>1, <1>2

\* The types of run_cleanup's state, and that it works on no table but the two
\* it recognizes, for any tables, policies and overlap.
THEOREM TypeCorrect == Spec => []TypeOK
<1>1. Inv => TypeOK
  BY DEF Inv
<1> QED BY <1>1, TypeInit, InvStep, PTL DEF Spec

\* DR-LIF-04, FR-AUD-06 and the misconfiguration of DR-LIF-06: run_cleanup
\* deletes no audit row, no open incident, no row within its period, and
\* nothing whose policy is absent or forbids the archive.
THEOREM DeletesOnlyExpiredHolds == Spec => DeletesOnlyExpired
<1> DEFINE Lawful ==
      \A r \in Rows : Stored(r) /\ row'[r].state = "gone" =>
         /\ r \notin AuditLogs
         /\ TableOf(r) \in DOMAIN policy /\ policy[TableOf(r)].archive
         /\ row[r].at + policy[TableOf(r)].keep < clock
         /\ r \in Incidents => row[r].resolved
<1>1. Inv /\ [Next]_vars => [Lawful]_vars
  <2> SUFFICES ASSUME Inv, Next, NEW r \in Rows, Stored(r), row'[r].state = "gone"
               PROVE  /\ r \notin AuditLogs
                      /\ TableOf(r) \in DOMAIN policy /\ policy[TableOf(r)].archive
                      /\ row[r].at + policy[TableOf(r)].keep < clock
                      /\ r \in Incidents => row[r].resolved
    OBVIOUS
  <2>1. PICK p \in Passes : At(p, "delete") /\ r \in pass[p].batch
    BY RowEffect DEF Stored
  <2>2. /\ Doomed(p, r) /\ pass[p].now <= clock
        /\ pass[p].table \in DOMAIN policy /\ ~Skipped(pass[p].table)
    BY <2>1 DEF Inv, PassInv, At, WithBatch, OnTable
  <2>3. r \notin AuditLogs /\ policy[TableOf(r)].archive /\ TableOf(r) \in DOMAIN policy
    BY <2>2, NotSkipped, TableOfRow DEF Doomed
  <2>4. /\ row[r].at \in Nat /\ pass[p].now \in Nat /\ clock \in Nat
        /\ policy[TableOf(r)].keep \in Nat
    BY <2>3, PolicyType DEF Inv, TypeOK, Policies
  <2>5. row[r].at + policy[TableOf(r)].keep < clock
    BY <2>2, <2>4 DEF Doomed
  <2> QED BY <2>2, <2>3, <2>5 DEF Doomed
<1> QED BY <1>1, TypeInit, InvStep, PTL DEF Spec, DeletesOnlyExpired
-----------------------------------------------------------------------------
\* While no two batches get one key, no object is ever replaced.
LEMMA BucketGrows ==
    ASSUME Paced, Next
    PROVE  bucket \subseteq bucket'
<1>1. ASSUME NEW p \in Passes, Archive(p) PROVE bucket \subseteq bucket'
  BY <1>1 DEF KeyFree, Archive, Put
<1>2. ASSUME \A p \in Passes : ~Archive(p) PROVE bucket' = bucket
  BY <1>2 DEF Next, Tick, AddRow, Resolve, Start, Step, NextPolicy,
              Finish, Select, Delete, Stamp, Abort
<1> QED BY <1>1, <1>2

\* The step that writes a batch to the bucket is the one that takes a pass to
\* its deletion.
LEMMA ArchiveComesFirst ==
    ASSUME Inv, Next, NEW p \in Passes, pass'[p].pc = "delete"
    PROVE  \/ pass'[p] = pass[p]
           \/ Archive(p) /\ pass'[p].batch = pass[p].batch
<1>1. pass \in [Passes -> PassStates]
  BY DEF Inv, TypeOK, PassStates
<1>2. CASE Tick \/ \E r \in Rows : AddRow(r) \/ Resolve(r)
  BY <1>2 DEF Tick, AddRow, Resolve
<1>3. ASSUME NEW q \in Passes, Start(q) \/ Step(q) \/ Abort(q)
      PROVE  \/ pass'[p] = pass[p]
             \/ Archive(p) /\ pass'[p].batch = pass[p].batch
  <2>1. PICK s \in PassStates :
          /\ pass' = [pass EXCEPT ![q] = s]
          /\ s.pc = "delete" => At(q, "archive") /\ s.batch = pass[q].batch
    <3>1. "delete" \in WithBatch
      BY DEF WithBatch
    <3> QED BY <1>3, <3>1, StepEffect
  <2>2. CASE q # p
    BY <1>1, <2>1, <2>2
  <2>3. CASE q = p
    <3>1. At(p, "archive") /\ pass'[p].batch = pass[p].batch
      BY <1>1, <2>1, <2>3
    <3>2. Archive(p) \/ Abort(p)
      BY <1>3, <2>3, <3>1 DEF Start, Step, NextPolicy, Finish, Select, Delete, Stamp, At
    <3>3. ~Abort(p)
      BY <1>1 DEF Abort, Resting
    <3> QED BY <3>1, <3>2, <3>3
  <2> QED BY <2>2, <2>3
<1> QED BY <1>2, <1>3 DEF Next

\* DR-LIF-06, DR-LIF-07: as long as two batches of one table and one size are
\* not written within a second, a row that run_cleanup deleted is in the
\* archive, however many passes overlap, fail and die.
THEOREM ArchivedBeforeDeletedHolds ==
    ASSUME Paced
    PROVE  Spec => []ArchivedBeforeDeleted
<1> DEFINE AInv == Inv /\ BatchArchived /\ ArchivedBeforeDeleted
<1>1. Init => AInv
  <2> SUFFICES ASSUME Init PROVE BatchArchived /\ ArchivedBeforeDeleted
    BY TypeInit
  <2>1. \A p \in Passes : ~At(p, "delete")
    BY DEF Init, Resting, At
  <2>2. \A r \in Rows : row[r].state # "gone"
    BY DEF Init, Absent
  <2> QED BY <2>1, <2>2 DEF BatchArchived, ArchivedBeforeDeleted
<1>2. AInv /\ [Next]_vars => AInv'
  <2> SUFFICES ASSUME AInv, Next PROVE BatchArchived' /\ ArchivedBeforeDeleted'
    <3>1. AInv /\ UNCHANGED vars => BatchArchived' /\ ArchivedBeforeDeleted'
      BY DEF BatchArchived, ArchivedBeforeDeleted, Archived, At, vars
    <3> QED BY <3>1, InvStep
  <2>1. \A r : Archived(r) => Archived(r)'
    BY BucketGrows DEF Archived
  <2>2. BatchArchived'
    <3> SUFFICES ASSUME NEW p \in Passes, pass'[p].pc = "delete",
                        NEW r \in pass'[p].batch
                 PROVE  Archived(r)'
      BY DEF BatchArchived, At
    <3>1. CASE pass'[p] = pass[p]
      BY <2>1, <3>1 DEF BatchArchived, At
    <3>2. CASE Archive(p) /\ pass'[p].batch = pass[p].batch
      <4>1. [key |-> Key(p), rows |-> pass[p].batch] \in bucket'
        BY <3>2 DEF Archive, Put
      <4> QED BY <3>2, <4>1 DEF Archived
    <3> QED BY <3>1, <3>2, ArchiveComesFirst
  <2>3. ArchivedBeforeDeleted'
    <3> SUFFICES ASSUME NEW r \in Rows, row'[r].state = "gone" PROVE Archived(r)'
      BY DEF ArchivedBeforeDeleted
    <3>1. CASE row[r].state = "gone"
      BY <2>1, <3>1 DEF ArchivedBeforeDeleted
    <3>2. CASE \E p \in Passes : At(p, "delete") /\ r \in pass[p].batch
      BY <2>1, <3>2 DEF BatchArchived
    <3> QED BY <3>1, <3>2, RowEffect
  <2> QED BY <2>2, <2>3
<1>3. AInv => ArchivedBeforeDeleted
  OBVIOUS
<1> QED BY <1>1, <1>2, <1>3, PTL DEF Spec
-----------------------------------------------------------------------------
\* No two passes work on one table at the same time.
Apart ==
    \A p, q \in Passes :
        /\ pass[p].pc \in OnTable /\ pass[q].pc \in OnTable
        /\ pass[p].table = pass[q].table
        => p = q

\* Nothing else holds an archived row but the pass about to delete it.
Accounted ==
    \A r \in Rows : Archived(r) =>
        \/ row[r].state = "gone"
        \/ \E p \in Passes : At(p, "delete") /\ r \in pass[p].batch

\* What waits for its archive is still stored.
Waiting == \A p \in Passes : At(p, "archive") => \A r \in pass[p].batch : Stored(r)

\* Until a pass ends early.
OnceInv == ArchivedOnce /\ (aborts = 0 => Accounted /\ Waiting)

\* A pass that holds a batch works on the table of the batch's rows, so two
\* that share a row are one.
LEMMA OneHolder ==
    ASSUME Inv, Apart, NEW p \in Passes, NEW q \in Passes, NEW r,
           pass[p].pc \in WithBatch, r \in pass[p].batch,
           pass[q].pc \in WithBatch, r \in pass[q].batch
    PROVE  p = q
<1>1. Doomed(p, r) /\ Doomed(q, r)
  BY DEF Inv, PassInv
<1>2. pass[p].pc \in OnTable /\ pass[q].pc \in OnTable
  BY DEF OnTable, WithBatch
<1> QED BY <1>1, <1>2 DEF Apart, Doomed

\* A row that is stored when no pass on its table stands before a deletion is
\* not in the archive yet.
LEMMA NotYetArchived ==
    ASSUME Inv, Apart, Accounted, NEW p \in Passes, pass[p].pc \in {"select", "archive"},
           NEW r \in Rows, TableOf(r) = pass[p].table, Stored(r)
    PROVE  ~Archived(r)
<1> SUFFICES ASSUME NEW q \in Passes, At(q, "delete"), r \in pass[q].batch PROVE FALSE
  BY DEF Accounted, Stored
<1>1. Doomed(q, r)
  BY DEF Inv, PassInv, At, WithBatch
<1>2. pass[p].pc \in OnTable /\ pass[q].pc \in OnTable
  BY DEF OnTable, At
<1>3. p = q
  BY <1>1, <1>2 DEF Apart, Doomed
<1> QED BY <1>3 DEF At

\* Except for a deletion, a stored row stays stored and a deleted one gone.
LEMMA RowsRest ==
    ASSUME Inv, Next, \A p \in Passes : ~Delete(p), NEW r \in Rows
    PROVE  /\ Stored(r) => Stored(r)'
           /\ row[r].state = "gone" => row'[r].state = "gone"
<1>1. row \in [Rows -> RowStates]
  BY DEF Inv, TypeOK, RowStates
<1>2. ASSUME NEW q \in Rows, AddRow(q) \/ Resolve(q)
      PROVE  row[r].state # "absent" => row'[r].state = row[r].state
  BY <1>1, <1>2 DEF AddRow, Resolve, Absent, RowStates
<1>3. CASE UNCHANGED row
  BY <1>3 DEF Stored
<1>4. UNCHANGED row \/ \E q \in Rows : AddRow(q) \/ Resolve(q)
  BY DEF Next, Tick, Start, Step, NextPolicy, Finish, Select, Archive, Stamp, Abort
<1> QED BY <1>2, <1>3, <1>4 DEF Stored

\* Writing a batch to the bucket, and what it replaces.
LEMMA OnceArchive ==
    ASSUME Inv, Apart, ArchivedOnce, Accounted, Waiting, aborts = 0,
           NEW p \in Passes, Archive(p)
    PROVE  ArchivedOnce' /\ Accounted' /\ Waiting'
<1> DEFINE new == [key |-> Key(p), rows |-> pass[p].batch]
<1>1. pass \in [Passes -> PassStates] /\ pass[p].batch \subseteq Rows
  <2>1. pass \in [Passes -> PassStates]
    BY DEF Inv, TypeOK, PassStates
  <2>2. pass[p] \in PassStates
    BY <2>1
  <2> QED BY <2>1, <2>2 DEF PassStates
<1>2. bucket' \subseteq bucket \cup {new} /\ new.rows = pass[p].batch
  BY DEF Archive, Put
<1>3. pass[p].pc = "archive" /\ row' = row /\ pass' = [pass EXCEPT ![p].pc = "delete"]
  BY DEF Archive, At
<1>4. /\ pass'[p].pc = "delete" /\ pass'[p].batch = pass[p].batch
      /\ \A q \in Passes \ {p} : pass'[q] = pass[q]
  BY <1>1, <1>3 DEF PassStates
<1>5. \A r \in pass[p].batch : TableOf(r) = pass[p].table /\ Stored(r)
  BY <1>3 DEF Inv, PassInv, Doomed, WithBatch, Waiting, At
<1>6. \A r \in pass[p].batch : ~Archived(r)
  BY <1>1, <1>3, <1>5, NotYetArchived
<1> HIDE DEF new
<1>7. ArchivedOnce'
  <2> SUFFICES ASSUME NEW one \in bucket', NEW other \in bucket', NEW r \in Rows,
                      r \in one.rows, r \in other.rows
               PROVE  one = other
    BY DEF ArchivedOnce
  <2>1. CASE one \in bucket /\ other \in bucket
    BY <2>1 DEF ArchivedOnce
  <2>2. CASE one = new \/ other = new
    <3>1. r \in pass[p].batch
      BY <1>2, <2>2
    <3>2. \A object \in bucket : r \notin object.rows
      BY <1>6, <3>1 DEF Archived
    <3> QED BY <1>2, <3>2
  <2> QED BY <1>2, <2>1, <2>2
<1>8. Accounted'
  <2> SUFFICES ASSUME NEW r \in Rows, NEW object \in bucket', r \in object.rows
               PROVE  \/ row'[r].state = "gone"
                      \/ \E q \in Passes : pass'[q].pc = "delete" /\ r \in pass'[q].batch
    BY DEF Accounted, Archived, At
  <2>1. CASE object = new
    BY <1>2, <1>4, <2>1
  <2>2. CASE object \in bucket
    <3>1. Archived(r)
      BY <2>2 DEF Archived
    <3>2. CASE row[r].state = "gone"
      BY <1>3, <3>2
    <3>3. ASSUME NEW q \in Passes, At(q, "delete"), r \in pass[q].batch
          PROVE  pass'[q].pc = "delete" /\ r \in pass'[q].batch
      BY <1>3, <1>4, <3>3 DEF At
    <3> QED BY <3>1, <3>2, <3>3 DEF Accounted
  <2> QED BY <1>2, <2>1, <2>2
<1>9. Waiting'
  BY <1>3, <1>4 DEF Waiting, At, Stored
<1> QED BY <1>7, <1>8, <1>9

\* Deleting a batch.
LEMMA OnceDelete ==
    ASSUME Inv, Apart, ArchivedOnce, Accounted, Waiting, aborts = 0,
           NEW p \in Passes, Delete(p)
    PROVE  ArchivedOnce' /\ Accounted' /\ Waiting'
<1>1. pass \in [Passes -> PassStates] /\ row \in [Rows -> RowStates]
  BY DEF Inv, TypeOK, PassStates, RowStates
<1>2. pass[p].pc = "delete" /\ bucket' = bucket
  BY DEF Delete, At
<1>3. /\ pass'[p].pc = "select"
      /\ \A q \in Passes \ {p} : pass'[q] = pass[q]
  BY <1>1 DEF Delete, AfterDelete, PassStates
<1>4. \A r \in Rows :
        IF r \in pass[p].batch THEN row'[r].state = "gone" ELSE row'[r] = row[r]
  <2> SUFFICES ASSUME NEW r \in Rows
               PROVE  IF r \in pass[p].batch THEN row'[r].state = "gone" ELSE row'[r] = row[r]
    OBVIOUS
  <2>1. r \in pass[p].batch => row[r].state # "absent"
    BY <1>2 DEF Inv, PassInv, Doomed, WithBatch
  <2> QED BY <1>1, <2>1 DEF Delete, Deleted, Stored, RowStates
<1>5. ArchivedOnce'
  BY <1>2 DEF ArchivedOnce
<1>6. Accounted'
  <2> SUFFICES ASSUME NEW r \in Rows, Archived(r), row'[r].state # "gone"
               PROVE  \E q \in Passes : pass'[q].pc = "delete" /\ r \in pass'[q].batch
    BY <1>2 DEF Accounted, Archived, At
  <2>1. r \notin pass[p].batch /\ row[r].state # "gone"
    BY <1>4
  <2>2. PICK q \in Passes : At(q, "delete") /\ r \in pass[q].batch
    BY <2>1 DEF Accounted
  <2> QED BY <1>3, <2>1, <2>2 DEF At
<1>7. Waiting'
  <2> SUFFICES ASSUME NEW q \in Passes, pass'[q].pc = "archive", NEW r \in pass'[q].batch
               PROVE  row'[r].state = "stored"
    BY DEF Waiting, At, Stored
  <2>1. q # p /\ pass[q].pc = "archive" /\ r \in pass[q].batch
    BY <1>3
  <2>2. r \notin pass[p].batch
    BY <1>2, <2>1, OneHolder DEF WithBatch
  <2>3. r \in Rows /\ row[r].state = "stored"
    <3>1. pass[q] \in PassStates
      BY <1>1
    <3> QED BY <2>1, <3>1 DEF PassStates, Waiting, At, Stored
  <2> QED BY <1>4, <2>2, <2>3
<1> QED BY <1>5, <1>6, <1>7

\* Every other step: a batch that is selected is stored.
LEMMA OnceRest ==
    ASSUME Inv, Apart, ArchivedOnce, Accounted, Waiting, aborts = 0, aborts' = 0,
           Next, \A p \in Passes : ~Archive(p) /\ ~Delete(p)
    PROVE  ArchivedOnce' /\ Accounted' /\ Waiting'
<1>1. pass \in [Passes -> PassStates]
  BY DEF Inv, TypeOK, PassStates
<1>2. bucket' = bucket
  BY DEF Next, Tick, AddRow, Resolve, Start, Step, NextPolicy, Finish, Select, Stamp, Abort
<1>3. \A r \in Rows : /\ Stored(r) => Stored(r)'
                      /\ row[r].state = "gone" => row'[r].state = "gone"
  BY RowsRest
<1>4. ASSUME NEW q \in Passes, pass'[q].pc = "archive"
      PROVE  \A r \in pass'[q].batch : r \in Rows /\ Stored(r)
  <2>1. CASE pass'[q] = pass[q]
    <3>1. pass[q] \in PassStates
      BY <1>1
    <3> QED BY <1>4, <2>1, <3>1 DEF Waiting, At, PassStates
  <2>2. ASSUME Start(q) \/ Step(q) \/ Abort(q)
        PROVE  pass'[q].batch \subseteq Eligible(q)
    <3>1. "archive" \in WithBatch
      BY DEF WithBatch
    <3>2. PICK s \in PassStates :
            /\ pass' = [pass EXCEPT ![q] = s]
            /\ s.pc \in WithBatch =>
                 s.batch \subseteq Eligible(q) \/ s.pc = "delete"
      BY <2>2, StepEffect
    <3>3. pass'[q] = s
      BY <1>1, <3>2
    <3> QED BY <1>4, <3>1, <3>2, <3>3
  <2>3. pass'[q] = pass[q] \/ Start(q) \/ Step(q) \/ Abort(q)
    <3>1. ASSUME NEW p \in Passes \ {q}, Start(p) \/ Step(p) \/ Abort(p)
          PROVE  pass'[q] = pass[q]
      <4>1. PICK s : pass' = [pass EXCEPT ![p] = s]
        BY <3>1, StepEffect
      <4> QED BY <1>1, <3>1, <4>1
    <3> QED BY <3>1 DEF Next, Tick, AddRow, Resolve
  <2> QED BY <2>1, <2>2, <2>3 DEF Eligible, Expired
<1>5. ASSUME NEW q \in Passes, At(q, "delete") PROVE pass'[q] = pass[q]
  <2>1. ASSUME NEW p \in Passes, Start(p) \/ Step(p) \/ Abort(p) PROVE p # q
    <3>1. ~Abort(p)
      BY DEF Abort
    <3> QED BY <1>5, <2>1, <3>1 DEF Start, Step, NextPolicy, Finish, Select, Stamp, At
  <2>2. ASSUME NEW p \in Passes, Start(p) \/ Step(p) \/ Abort(p)
        PROVE  pass'[q] = pass[q]
    <3>1. PICK s : pass' = [pass EXCEPT ![p] = s]
      BY <2>2, StepEffect
    <3> QED BY <1>1, <2>1, <2>2, <3>1
  <2> QED BY <2>2 DEF Next, Tick, AddRow, Resolve
<1>6. ArchivedOnce'
  BY <1>2 DEF ArchivedOnce
<1>7. Accounted'
  <2> SUFFICES ASSUME NEW r \in Rows, Archived(r)
               PROVE  \/ row'[r].state = "gone"
                      \/ \E q \in Passes : pass'[q].pc = "delete" /\ r \in pass'[q].batch
    BY <1>2 DEF Accounted, Archived, At
  <2>1. CASE row[r].state = "gone"
    BY <1>3, <2>1
  <2>2. ASSUME NEW q \in Passes, At(q, "delete"), r \in pass[q].batch
        PROVE  pass'[q].pc = "delete" /\ r \in pass'[q].batch
    BY <1>5, <2>2 DEF At
  <2> QED BY <2>1, <2>2 DEF Accounted
<1>8. Waiting'
  BY <1>3, <1>4 DEF Waiting, At, Stored
<1> QED BY <1>6, <1>7, <1>8

\* DR-LIF-07: as long as no two passes work on one table at a time and none
\* ends early, no record is in two objects of the archive, even where batches
\* replace each other's objects, for any rows, policies and batch size.
THEOREM ArchivedOnceHolds == Spec /\ []Apart => []ArchivedOnce
<1>1. Init => OnceInv
  BY DEF Init, OnceInv, ArchivedOnce, Accounted, Archived, Waiting, At, Resting
<1>2. Inv /\ Apart /\ OnceInv /\ [Next]_vars => OnceInv'
  <2> SUFFICES ASSUME Inv, Apart, OnceInv, [Next]_vars PROVE OnceInv'
    OBVIOUS
  <2>1. CASE UNCHANGED vars
    BY <2>1 DEF OnceInv, ArchivedOnce, Accounted, Archived, Waiting, At, Stored, vars
  <2>2. CASE Next /\ aborts' = 0
    <3>1. aborts = 0
      <4>1. aborts \in Nat /\ aborts' \in {aborts, aborts + 1}
        BY <2>2 DEF Inv, TypeOK, Next, Tick, AddRow, Resolve, Start, Step, NextPolicy,
                    Finish, Select, Archive, Delete, Stamp, Abort
      <4> QED BY <2>2, <4>1
    <3>2. Accounted /\ Waiting /\ ArchivedOnce
      BY <3>1 DEF OnceInv
    <3> QED BY <2>2, <3>1, <3>2, OnceArchive, OnceDelete, OnceRest DEF OnceInv
  <2>3. CASE aborts' # 0
    BY <2>3 DEF OnceInv, ArchivedOnce
  <2> QED BY <2>1, <2>2, <2>3
<1>3. OnceInv => ArchivedOnce
  BY DEF OnceInv
<1> QED BY <1>1, <1>2, <1>3, TypeInit, InvStep, PTL DEF Spec
-----------------------------------------------------------------------------
(* What a pass removes.                                                    *)

Deleting == {"select", "archive", "delete"}

\* A row owed by a pass keeps being owed: it is expired for the pass, and of a
\* table the pass goes over.
Owed(p, r) ==
    /\ row[r].state # "absent"
    /\ row[r].at < pass[p].now - policy[TableOf(r)].keep
    /\ r \in Incidents => row[r].resolved
    /\ TableOf(r) \in DOMAIN policy /\ ~Skipped(TableOf(r))

\* Where it is: gone, or of a policy still to come, or of the one in hand.
Coming(p, r) ==
    \/ row[r].state = "gone"
    \/ TableOf(r) \in pass[p].todo
    \/ pass[p].pc \in Deleting /\ pass[p].table = TableOf(r)

ClearInv == \A p \in Passes : ~At(p, "idle") =>
                \A r \in due[p] : Owed(p, r) /\ Coming(p, r)

\* A row that is owed stays so while the pass keeps its cutoff.
LEMMA StaysOwed ==
    ASSUME Inv, Next, NEW p \in Passes, NEW r \in Rows, Owed(p, r),
           pass'[p].now = pass[p].now
    PROVE  /\ Owed(p, r)'
           /\ row[r].state = "gone" => row'[r].state = "gone"
<1>1. policy' = policy
  BY RowType
<1>2. /\ row'[r].state # "absent" /\ row'[r].at = row[r].at
      /\ row'[r].resolved = row[r].resolved \/ row'[r].resolved
      /\ row[r].state = "gone" => row'[r].state = "gone"
  BY RowEffect DEF Owed
<1> QED BY <1>1, <1>2 DEF Owed, TableOf, Skipped

\* An empty batch means that nothing of the table is left to remove.
LEMMA NothingLeft ==
    ASSUME Inv, NEW p \in Passes, IsBatch(p, {}), NEW r \in Rows, Owed(p, r),
           TableOf(r) = pass[p].table
    PROVE  row[r].state = "gone"
<1>1. Eligible(p) = {}
  BY FS_EmptySet, RetentionAssumption DEF IsBatch
<1>2. row[r].state \in {"absent", "stored", "gone"}
  BY DEF Inv, TypeOK
<1> QED BY <1>1, <1>2 DEF Eligible, Expired, Stored, Owed

\* A step of the pass itself keeps a row that is owed on its way.
LEMMA ComesOn ==
    ASSUME Inv, Next, NEW p \in Passes, Step(p), pass'[p].pc # "idle",
           NEW r \in Rows, Owed(p, r), Coming(p, r)
    PROVE  pass'[p].now = pass[p].now /\ Coming(p, r)'
<1>1. pass \in [Passes -> PassStates] /\ TableOf(r)' = TableOf(r)
  BY DEF Inv, TypeOK, PassStates, TableOf
<1>2. row[r].state = "gone" => row'[r].state = "gone"
  BY RowEffect
<1>3. CASE NextPolicy(p)
  <2>1. PICK t \in pass[p].todo :
          pass' = [pass EXCEPT ![p].todo = @ \ {t}, ![p].table = t,
                               ![p].pc = AfterPolicy(t)]
    BY <1>3 DEF NextPolicy
  <2>2. /\ pass'[p].now = pass[p].now /\ pass'[p].todo = pass[p].todo \ {t}
        /\ pass'[p].table = t /\ pass'[p].pc = AfterPolicy(t)
    BY <1>1, <2>1 DEF PassStates
  <2>3. pass[p].pc \notin Deleting
    BY <1>3 DEF NextPolicy, At, Deleting
  <2>4. TableOf(r) = t => pass'[p].pc \in Deleting
    BY <2>2 DEF Owed, AfterPolicy, Deleting
  <2> QED BY <1>1, <1>2, <2>2, <2>3, <2>4 DEF Coming
<1>4. CASE Finish(p)
  BY <1>1, <1>4 DEF Finish, Resting
<1>5. CASE Select(p)
  <2>1. PICK b \in SUBSET Eligible(p) :
          IsBatch(p, b) /\ pass' = [pass EXCEPT ![p].batch = b, ![p].pc = AfterSelect(p, b)]
    BY <1>5 DEF Select
  <2>2. /\ pass'[p].now = pass[p].now /\ pass'[p].todo = pass[p].todo
        /\ pass'[p].table = pass[p].table /\ pass'[p].pc = AfterSelect(p, b)
    BY <1>1, <2>1 DEF PassStates
  <2>3. CASE b = {}
    <3>1. TableOf(r) = pass[p].table => row[r].state = "gone"
      BY <2>1, <2>3, NothingLeft
    <3> QED BY <1>1, <1>2, <2>2, <3>1 DEF Coming
  <2>4. CASE b # {}
    <3>1. pass'[p].pc \in Deleting
      BY <2>2, <2>4 DEF AfterSelect, Deleting
    <3> QED BY <1>1, <1>2, <2>2, <3>1 DEF Coming
  <2> QED BY <2>3, <2>4
<1>6. CASE Archive(p)
  <2>1. /\ pass'[p].now = pass[p].now /\ pass'[p].todo = pass[p].todo
        /\ pass'[p].table = pass[p].table /\ pass'[p].pc \in Deleting
    BY <1>1, <1>6 DEF Archive, PassStates, Deleting
  <2> QED BY <1>1, <1>2, <2>1 DEF Coming
<1>7. CASE Delete(p)
  <2>1. /\ pass'[p].now = pass[p].now /\ pass'[p].todo = pass[p].todo
        /\ pass'[p].table = pass[p].table /\ pass'[p].pc \in Deleting
    BY <1>1, <1>7 DEF Delete, AfterDelete, PassStates, Deleting
  <2> QED BY <1>1, <1>2, <2>1 DEF Coming
<1>8. CASE Stamp(p)
  <2>1. /\ pass'[p].now = pass[p].now /\ pass'[p].todo = pass[p].todo
        /\ pass[p].pc \notin Deleting
    BY <1>1, <1>8 DEF Stamp, At, PassStates, Deleting
  <2> QED BY <1>1, <1>2, <2>1 DEF Coming
<1> QED BY <1>3, <1>4, <1>5, <1>6, <1>7, <1>8 DEF Step

\* Each step keeps ClearInv.
LEMMA ClearStep == Inv /\ ClearInv /\ [Next]_vars => ClearInv'
<1> SUFFICES ASSUME Inv, ClearInv, [Next]_vars PROVE ClearInv'
  OBVIOUS
<1>1. CASE UNCHANGED vars
  BY <1>1 DEF ClearInv, Owed, Coming, Skipped, At, vars
<1>2. CASE Next
  <2> SUFFICES ASSUME NEW p \in Passes, pass'[p].pc # "idle", NEW r \in due'[p]
               PROVE  Owed(p, r)' /\ Coming(p, r)'
    BY DEF ClearInv, At
  <2>1. /\ pass \in [Passes -> PassStates] /\ due \in [Passes -> SUBSET Rows]
        /\ policy' = policy
    BY <1>2, RowType DEF Inv, TypeOK, PassStates
  <2>2. CASE Start(p)
    <3>1. due'[p] = Due(clock) /\ row' = row
      BY <2>1, <2>2 DEF Start
    <3>2. pass'[p].now = clock /\ pass'[p].todo = DOMAIN policy
      BY <2>1, <2>2 DEF Start, Resting, PassStates
    <3>3. /\ r \in Rows /\ TableOf(r) \in DOMAIN policy /\ ~Skipped(TableOf(r))
          /\ Expired(r, clock)
      BY <3>1 DEF Due
    <3>4. Owed(p, r)'
      BY <2>1, <3>1, <3>2, <3>3 DEF Owed, Expired, Stored, Skipped, TableOf
    <3>5. Coming(p, r)'
      BY <3>2, <3>3 DEF Coming, TableOf
    <3> QED BY <3>4, <3>5
  <2>3. CASE ~Start(p)
    <3>1. due'[p] = due[p] /\ r \in Rows
      <4>1. CASE \E q \in Passes : Start(q)
        BY <2>1, <2>3, <4>1 DEF Start
      <4>2. CASE \A q \in Passes : ~Start(q)
        BY <1>2, <2>1, <4>2 DEF Next, Tick, AddRow, Resolve, Step, NextPolicy, Finish,
                                Select, Archive, Delete, Stamp, Abort
      <4> QED BY <4>1, <4>2
    <3>2. CASE Step(p)
      <4>1. ~At(p, "idle")
        BY <3>2 DEF Step, NextPolicy, Finish, Select, Archive, Delete, Stamp, At
      <4>2. Owed(p, r) /\ Coming(p, r)
        BY <3>1, <4>1 DEF ClearInv
      <4>3. pass'[p].now = pass[p].now /\ Coming(p, r)'
        BY <1>2, <3>1, <3>2, <4>2, ComesOn
      <4> QED BY <1>2, <3>1, <4>2, <4>3, StaysOwed
    <3>3. CASE ~Step(p)
      <4>1. pass'[p] = pass[p]
        <5>1. CASE Abort(p)
          BY <2>1, <5>1 DEF Abort, Resting
        <5>2. ASSUME NEW q \in Passes \ {p}, Start(q) \/ Step(q) \/ Abort(q)
              PROVE  pass'[p] = pass[p]
          <6>1. \E s \in PassStates : pass' = [pass EXCEPT ![q] = s]
            BY <5>2, StepEffect
          <6> QED BY <2>1, <6>1
        <5>3. CASE Tick \/ \E q \in Rows : AddRow(q) \/ Resolve(q)
          BY <5>3 DEF Tick, AddRow, Resolve
        <5> QED BY <1>2, <2>3, <3>3, <5>1, <5>2, <5>3 DEF Next
      <4>2. Owed(p, r) /\ Coming(p, r)
        BY <3>1, <4>1 DEF ClearInv, At
      <4>3. Owed(p, r)' /\ (row[r].state = "gone" => row'[r].state = "gone")
        BY <1>2, <3>1, <4>1, <4>2, StaysOwed
      <4> QED BY <4>1, <4>2, <4>3 DEF Coming, TableOf
    <3> QED BY <3>2, <3>3
  <2> QED BY <2>2, <2>3
<1> QED BY <1>1, <1>2

\* A pass that gets to its end has removed everything that was expired, and of
\* a sound policy, when it began: for any policies, batch size, overlap and
\* other writers (requirement 3 at the head of run_cleanup).
THEOREM PassClearsHolds == Spec => []PassClears
<1>1. Init => ClearInv
  BY DEF Init, ClearInv, At, Resting
<1>2. ClearInv => PassClears
  <2> SUFFICES ASSUME ClearInv, NEW p \in Passes, At(p, "policy"), pass[p].todo = {},
                      NEW r \in due[p]
               PROVE  row[r].state = "gone"
    BY DEF PassClears
  <2>1. pass[p].pc \notin Deleting /\ ~At(p, "idle")
    BY DEF At, Deleting
  <2> QED BY <2>1 DEF ClearInv, Coming
<1> QED BY <1>1, <1>2, TypeInit, InvStep, ClearStep, PTL DEF Spec
=============================================================================
