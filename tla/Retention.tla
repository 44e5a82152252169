----------------------------- MODULE Retention -----------------------------
(***************************************************************************)
(* The retention pass, run_cleanup of crates/core/src/db/retention.rs: for *)
(* each policy it selects a batch of expired rows, writes exactly that     *)
(* batch to the R2 bucket and deletes exactly that batch by id, until no   *)
(* batch is left.  Any error goes up with `?` and ends the whole pass, and *)
(* the worker may die between any two awaits.                              *)
(***************************************************************************)
EXTENDS Integers, FiniteSets

CONSTANTS
    CheckResults,   \* the rows check_results may hold
    Incidents,      \* the rows incidents may hold
    AuditLogs,      \* the rows audit_logs may hold
    Passes,         \* invocations that may be running the pass
    Configurations, \* the contents retention_policies may have
    BatchSize,      \* RETENTION_BATCH_SIZE (100 in the code)
    Paced,          \* do batches of one table take a second each, or more?
    MaxClock,       \* bound: seconds explored
    MaxAborts       \* bound: passes that end early

Rows == CheckResults \cup Incidents \cup AuditLogs
Tables == {"check_results", "incidents", "audit_logs", "users"}
Policies == [keep : Nat, archive : BOOLEAN]

ASSUME RetentionAssumption ==
    /\ \A table \in Configurations :
         DOMAIN table \subseteq Tables /\ \A t \in DOMAIN table : table[t] \in Policies
    /\ CheckResults \cap Incidents = {} /\ AuditLogs \cap (CheckResults \cup Incidents) = {}
    /\ BatchSize \in Nat \ {0} /\ Paced \in BOOLEAN
    /\ MaxClock \in Nat /\ MaxAborts \in Nat

VARIABLES
    clock,      \* the wall clock, in seconds
    policy,     \* retention_policies
    row,        \* the rows' state: absent, stored or gone
    bucket,     \* the R2 bucket's archive objects
    cleaned,    \* last_cleanup_at
    pass,       \* the passes' local variables
    due,        \* history: the rows each pass had to remove when it began
    aborts

vars == <<clock, policy, row, bucket, cleaned, pass, due, aborts>>

Absent == [state |-> "absent", at |-> 0, resolved |-> FALSE]

Resting == [pc |-> "idle", now |-> 0, todo |-> {}, table |-> "none", batch |-> {}]

TableOf(r) == CASE r \in CheckResults -> "check_results"
                [] r \in Incidents -> "incidents"
                [] r \in AuditLogs -> "audit_logs"

At(p, pc) == pass[p].pc = pc
Stored(r) == row[r].state = "stored"

NonExpiring(t) == t = "audit_logs"

Recognized(t) == t \in {"check_results", "incidents"}

RequiresArchival(t) == t \in {"check_results", "incidents"}

\* The policies a pass goes over without a deletion.
Skipped(t) == \/ NonExpiring(t) \/ ~Recognized(t)
              \/ (RequiresArchival(t) /\ ~policy[t].archive)

\* eligibility_where_clause at compute_cutoff.  Slip: open incidents too.
ExpiredOpenToo(r, now) == Stored(r) /\ row[r].at < now - policy[TableOf(r)].keep
Expired(r, now) ==
    /\ Stored(r) /\ row[r].at < now - policy[TableOf(r)].keep
    /\ r \in Incidents => row[r].resolved

\* What a pass that begins at `now` is there to remove.
Due(now) == {r \in Rows : /\ TableOf(r) \in DOMAIN policy
                          /\ ~Skipped(TableOf(r)) /\ Expired(r, now)}

Eligible(p) == {r \in Rows : TableOf(r) = pass[p].table /\ Expired(r, pass[p].now)}

\* The key archive_batch gives an object: the table, the second, the count.
Key(p) == <<pass[p].table, clock, Cardinality(pass[p].batch)>>

\* R2's put replaces an object of the same key.
Put(key, rows) == {object \in bucket : object.key # key} \cup
                  {[key |-> key, rows |-> rows]}
-----------------------------------------------------------------------------
Init ==
    /\ clock = 1
    /\ policy \in Configurations
    /\ row = [r \in Rows |-> Absent]
    /\ bucket = {}
    /\ cleaned = [t \in Tables |-> 0]
    /\ pass = [p \in Passes |-> Resting]
    /\ due = [p \in Passes |-> {}]
    /\ aborts = 0

\* Archive's pace: the last object of this key is of another second.
KeyFree(p) == Paced => \A object \in bucket : object.key # Key(p)

\* Past the bound only while a batch waits for its second.
Tick ==
    /\ clock < MaxClock \/ \E p \in Passes : At(p, "archive") /\ ~KeyFree(p)
    /\ clock' = clock + 1
    /\ UNCHANGED <<policy, row, bucket, cleaned, pass, due, aborts>>

(* The rest of the system, at any moment of a pass.                        *)

\* A check result, an audit row, or an incident, which is opened open.
AddRow(r) ==
    /\ row[r] = Absent
    /\ row' = [row EXCEPT ![r].state = "stored", ![r].at = clock]
    /\ UNCHANGED <<clock, policy, bucket, cleaned, pass, due, aborts>>

\* incidents::auto_resolve, or incidents::resolve by an administrator.
Resolve(r) ==
    /\ r \in Incidents /\ Stored(r) /\ ~row[r].resolved
    /\ row' = [row EXCEPT ![r].resolved = TRUE]
    /\ UNCHANGED <<clock, policy, bucket, cleaned, pass, due, aborts>>
-----------------------------------------------------------------------------
(* One pass.                                                               *)

\* `now` is fixed for the pass; the policies come in no particular order.
Start(p) ==
    /\ At(p, "idle")
    /\ pass' = [pass EXCEPT ![p] =
                  [Resting EXCEPT !.pc = "policy", !.now = clock,
                                  !.todo = DOMAIN policy]]
    /\ due' = [due EXCEPT ![p] = Due(clock)]
    /\ UNCHANGED <<clock, policy, row, bucket, cleaned, aborts>>

AfterPolicy(t) == IF Skipped(t) THEN "policy" ELSE "select"

NextPolicy(p) ==
    /\ At(p, "policy")
    /\ \E t \in pass[p].todo :
         pass' = [pass EXCEPT ![p].todo = @ \ {t}, ![p].table = t,
                              ![p].pc = AfterPolicy(t)]
    /\ UNCHANGED <<clock, policy, row, bucket, cleaned, due, aborts>>

Finish(p) ==
    /\ At(p, "policy") /\ pass[p].todo = {}
    /\ pass' = [pass EXCEPT ![p] = Resting]
    /\ UNCHANGED <<clock, policy, row, bucket, cleaned, due, aborts>>

\* select_eligible_batch: any BatchSize of the eligible rows, or them all.
IsBatch(p, b) ==
    \/ b = Eligible(p) /\ Cardinality(b) <= BatchSize
    \/ b \subseteq Eligible(p) /\ Cardinality(b) = BatchSize

\* Slip: an empty batch does not leave the loop.
AfterSelectOn(p, b) == IF policy[pass[p].table].archive /\ b # {} THEN "archive"
                       ELSE IF b # {} THEN "delete" ELSE "select"
AfterSelect(p, b) == IF b = {} THEN "stamp"
                     ELSE IF policy[pass[p].table].archive THEN "archive"
                     ELSE "delete"

Select(p) ==
    /\ At(p, "select")
    /\ \E b \in SUBSET Eligible(p) :
         /\ IsBatch(p, b)
         /\ pass' = [pass EXCEPT ![p].batch = b, ![p].pc = AfterSelect(p, b)]
    /\ UNCHANGED <<clock, policy, row, bucket, cleaned, due, aborts>>

Archive(p) ==
    /\ At(p, "archive")
    /\ KeyFree(p)
    /\ bucket' = Put(Key(p), pass[p].batch)
    /\ pass' = [pass EXCEPT ![p].pc = "delete"]
    /\ UNCHANGED <<clock, policy, row, cleaned, due, aborts>>

\* delete_by_ids.  Slips: an unbounded DELETE by the where clause (G-20); the
\* last row of a full batch gets no parameter.
DeletedUnbounded(p) == Eligible(p)
DeletedOfFull(p) ==
    IF Cardinality(pass[p].batch) = BatchSize
    THEN pass[p].batch \ {CHOOSE r \in pass[p].batch : TRUE}
    ELSE pass[p].batch
Deleted(p) == pass[p].batch

\* Slip: one batch per policy and pass.
AfterDeleteOnce(p) == "stamp"
AfterDelete(p) == "select"

Delete(p) ==
    /\ At(p, "delete")
    /\ row' = [r \in Rows |-> IF r \in Deleted(p) /\ Stored(r)
                              THEN [row[r] EXCEPT !.state = "gone"] ELSE row[r]]
    /\ pass' = [pass EXCEPT ![p].pc = AfterDelete(p), ![p].batch = {}]
    /\ UNCHANGED <<clock, policy, bucket, cleaned, due, aborts>>

Stamp(p) ==
    /\ At(p, "stamp")
    /\ cleaned' = [cleaned EXCEPT ![pass[p].table] = pass[p].now]
    /\ pass' = [pass EXCEPT ![p].pc = "policy"]
    /\ UNCHANGED <<clock, policy, row, bucket, due, aborts>>

\* A D1 or R2 call fails, or the worker dies: what was done stays done.
Abort(p) ==
    /\ ~At(p, "idle") /\ aborts < MaxAborts
    /\ pass' = [pass EXCEPT ![p] = Resting]
    /\ aborts' = aborts + 1
    /\ UNCHANGED <<clock, policy, row, bucket, cleaned, due>>

Step(p) == \/ NextPolicy(p) \/ Finish(p) \/ Select(p) \/ Archive(p)
           \/ Delete(p) \/ Stamp(p)

Next ==
    \/ Tick
    \/ \E r \in Rows : AddRow(r) \/ Resolve(r)
    \/ \E p \in Passes : Start(p) \/ Step(p) \/ Abort(p)

Spec == Init /\ [][Next]_vars

\* Time passes and a pass that has begun runs on: its awaits return.  Nothing
\* is assumed of Start: the hour's pass is lost when no target is due.
Fairness == WF_vars(Tick) /\ \A p \in Passes : WF_vars(Step(p))
FairSpec == Spec /\ Fairness
-----------------------------------------------------------------------------
(* Properties.                                                             *)

TypeOK ==
    /\ clock \in Nat /\ aborts \in Nat
    /\ policy \in Configurations
    /\ row \in [Rows -> [state : {"absent", "stored", "gone"}, at : Nat,
                         resolved : BOOLEAN]]
    /\ \A object \in bucket : object.rows \subseteq Rows
    /\ cleaned \in [Tables -> Nat]
    /\ pass \in [Passes -> [pc : {"idle", "policy", "select", "archive", "delete", "stamp"},
                            now : Nat, todo : SUBSET Tables,
                            table : Tables \cup {"none"}, batch : SUBSET Rows]]
    /\ due \in [Passes -> SUBSET Rows]
    /\ \A p \in Passes : pass[p].pc \in {"select", "archive", "delete", "stamp"}
                           => Recognized(pass[p].table)

Archived(r) == \E object \in bucket : r \in object.rows

\* DR-LIF-06, DR-LIF-07: a row is gone only if an archive object still holds
\* it, whatever passes overlap, fail and die.
ArchivedBeforeDeleted ==
    \A r \in Rows : row[r].state = "gone" => Archived(r)

\* DR-LIF-04, FR-AUD-06 and DR-LIF-06's misconfiguration: audit rows, open
\* incidents, rows within their period and rows of a class whose policy is
\* absent or forbids the archive are never deleted.
DeletesOnlyExpired ==
    [][\A r \in Rows : Stored(r) /\ row'[r].state = "gone" =>
         /\ r \notin AuditLogs
         /\ TableOf(r) \in DOMAIN policy /\ policy[TableOf(r)].archive
         /\ row[r].at + policy[TableOf(r)].keep < clock
         /\ r \in Incidents => row[r].resolved]_vars

\* DR-LIF-07: without an abort, each record is archived exactly once.
ArchivedOnce ==
    aborts = 0 =>
        \A one, other \in bucket : \A r \in Rows :
            r \in one.rows /\ r \in other.rows => one = other

\* Requirement 3 (head of run_cleanup): a pass that gets to its end has removed
\* every row that was expired when it began and whose policy is sound, whatever
\* the other policies are, whatever is stored or resolved meanwhile and whoever
\* else deletes.
PassClears ==
    \A p \in Passes : At(p, "policy") /\ pass[p].todo = {} =>
        \A r \in due[p] : row[r].state = "gone"

\* A pass that begins comes to its end, though rows are stored and resolved all
\* the while: its cutoff does not move (the `loop` of run_cleanup).
PassEnds == \A p \in Passes : ~At(p, "idle") ~> At(p, "idle")
=============================================================================
