----------------------------- MODULE AuditChain -----------------------------
(***************************************************************************)
(* Writers of the audit chain (crates/core/src/db/audit.rs): the monitor's *)
(* cron invocation (log_system), the admin API (log) and the login route   *)
(* (log_login) each draw an id and read the clock, read the whole table to *)
(* find the chain's head, and insert a row chained to it.  Nothing spans   *)
(* the read and the insert.                                                *)
(***************************************************************************)
EXTENDS ChainWalk

CONSTANTS
    Writers,    \* requests and invocations that may be writing
    Ids,        \* the uuids they may draw
    Damage,     \* what happens to stored rows from outside the program
    MayFail,    \* may a D1 call return an error?
    OldRows,    \* rows from before the chain, with no digests
    MaxClock,   \* bound: seconds explored
    MaxDamage   \* bound: rows damaged

ASSUME ChainAssumption ==
    /\ Ids \subseteq Nat \ {0}
    /\ MayFail \in BOOLEAN
    /\ Damage \subseteq {"edit", "delete"}
    /\ MaxClock \in Nat /\ MaxDamage \in Nat
    /\ IsFiniteSet(OldRows)
    /\ \A r \in OldRows : /\ Legacy(r) /\ r.id \notin Ids
                          /\ r.time \in 0..1 /\ r.edited \in BOOLEAN

VARIABLES
    clock,      \* the wall clock, in seconds
    log,        \* audit_logs
    drawn,      \* ids already drawn
    writer,     \* the writers' local variables
    damaged,    \* how many rows were damaged
    raced       \* history: has a writer begun while another was writing?

vars == <<clock, log, drawn, writer, damaged, raced>>

Resting == [pc |-> "idle", id |-> Null, time |-> 0, head |-> Null]

At(w, pc) == writer[w].pc = pc
AllAtRest == \A w \in Writers : At(w, "idle")

Init ==
    /\ clock = 1
    /\ log = OldRows
    /\ drawn = {}
    /\ writer = [w \in Writers |-> Resting]
    /\ damaged = 0 /\ raced = FALSE

Tick ==
    /\ clock < MaxClock
    /\ clock' = clock + 1
    /\ UNCHANGED <<log, drawn, writer, damaged, raced>>

\* log, log_system, log_login: the id and action_time come first.
Begin(w) ==
    /\ At(w, "idle")
    /\ raced' = (raced \/ ~AllAtRest)
    /\ \E id \in Ids \ drawn :
        /\ drawn' = drawn \cup {id}
        /\ writer' = [writer EXCEPT ![w] =
              [pc |-> "read", id |-> id, time |-> clock, head |-> Null]]
    /\ UNCHANGED <<clock, log, damaged>>

\* Slips: the head is the table's newest row, or its newest chained row, as
\* it was before G-30.
Newest(rows) == (CHOOSE r \in rows : \A s \in rows : Precedes(s, r)).hash

NewestHash == IF log = {} THEN Genesis ELSE Newest(log)

NewestChainedHash ==
    IF \A r \in log : Legacy(r) THEN Genesis ELSE Newest({r \in log : ~Legacy(r)})

CurrentHead == Walk(log).expected

\* current_head_hash: a fork is logged and does not refuse the write.
ReadHead(w) ==
    /\ At(w, "read")
    /\ writer' = [writer EXCEPT ![w].pc = "insert", ![w].head = CurrentHead]
    /\ UNCHANGED <<clock, log, drawn, damaged, raced>>

NewRow(w) ==
    [id |-> writer[w].id, time |-> writer[w].time, prev |-> writer[w].head,
     hash |-> writer[w].id, edited |-> FALSE]

Insert(w) ==
    /\ At(w, "insert")
    /\ log' = log \cup {NewRow(w)}
    /\ writer' = [writer EXCEPT ![w] = Resting]
    /\ UNCHANGED <<clock, drawn, damaged, raced>>

\* Either D1 call fails, or the worker dies: log_or_report turns the error
\* into a warning and the row is never written.
GiveUp(w) ==
    /\ MayFail
    /\ writer[w].pc \in {"read", "insert"}
    /\ writer' = [writer EXCEPT ![w] = Resting]
    /\ UNCHANGED <<clock, log, drawn, damaged, raced>>

(* Damage, between two writes: the database changed by other hands.        *)

Damageable(kind) == kind \in Damage /\ damaged < MaxDamage /\ AllAtRest

Edit(r) ==
    /\ Damageable("edit") /\ Hashed(r)
    /\ log' = (log \ {r}) \cup {[r EXCEPT !.edited = TRUE]}
    /\ damaged' = damaged + 1
    /\ UNCHANGED <<clock, drawn, writer, raced>>

Delete(r) ==
    /\ Damageable("delete")
    /\ log' = log \ {r}
    /\ damaged' = damaged + 1
    /\ UNCHANGED <<clock, drawn, writer, raced>>

Write(w) == Begin(w) \/ ReadHead(w) \/ Insert(w) \/ GiveUp(w)

Next ==
    \/ Tick
    \/ \E w \in Writers : Write(w)
    \/ \E r \in log : Edit(r) \/ Delete(r)

Spec == Init /\ [][Next]_vars
-----------------------------------------------------------------------------
(* Properties.                                                             *)

TypeOK ==
    /\ clock \in Nat /\ damaged \in Nat /\ raced \in BOOLEAN
    /\ drawn \subseteq Ids
    /\ \A r \in log :
         /\ r.id \in drawn \/ r \in OldRows
         /\ r.time \in 0..clock /\ r.edited \in BOOLEAN
         /\ {r.prev, r.hash} \subseteq drawn \cup {Genesis, Null}
    /\ writer \in [Writers -> [pc : {"idle", "read", "insert"},
                               id : Ids \cup {Null}, time : Nat,
                               head : Ids \cup {Genesis, Null}]]
    /\ \A w \in Writers : At(w, "insert") => writer[w].head # Null

Verified == VerifiedRows(Walk(log))
Tampered == TamperedRows(log, Walk(log))
Orphaned == OrphanedRows(log, Walk(log))

\* G-30 under A-05, one writer at a time: the chain verifies, though rows of
\* one second have ids in any order and writes fail half-way.
SoundWhenUndamaged == damaged = 0 /\ ~raced => AllClear(log)

\* FR-AUD-05, T-23: a row that is tampered with is named, and no other is; it
\* cuts nothing off.  Racing writers orphan each other's rows at worst.
BlamesTheEdited ==
    /\ Tampered = {r \in log : Hashed(r) /\ r.edited} \ Orphaned
    /\ Walk(log).cycle = Null

\* T-23: what is cut off hangs on a row that is gone, on another that is cut
\* off, or beside the rest of a fork.
OrphansExplained ==
    \A r \in Orphaned :
        \/ \E s \in Orphaned : r.prev = s.hash
        \/ r.prev \in drawn \ {s.hash : s \in log}
        \/ raced /\ \E s \in log \ Orphaned : s # r /\ s.prev = r.prev

\* T-23b: whatever was deleted or edited before, a row written by a single
\* writer is reached by the verifier as soon as it is there.
LiveChainGoesOn ==
    [][~raced' => log' \ log \subseteq {r \in log' : r.edited} \cup Verified']_vars

\* The orphaned island stays visible: writing goes on, racing or not, and
\* never turns a report of damage into an all-clear.
AlarmStands ==
    [][(damaged' = damaged /\ ~AllClear(log)) => ~AllClear(log')]_vars

\* Once verified, always verified: appending never takes a row off the chain.
VerifiedStays ==
    [][damaged' = damaged /\ ~raced' => Verified \subseteq Verified']_vars
=============================================================================
