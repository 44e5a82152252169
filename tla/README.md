# Noye, in TLA+

Noye is an uptime monitor that runs as two Cloudflare Workers over one D1
database: `core` (the monitor, the incidents, the audit log, retention,
configuration import, statistics) and `gateway` (login, sessions, rate limits,
the user interface), with a command line tool for provisioning.  These modules
model the parts of it whose correctness depends on the order in which things
happen: what overlaps, what fails half-way, what is read before an await and
used after it.  Paths below are relative to `src/crates/`, requirement numbers
are those of `src/docs/src/requirements.md`.

## 1. Inventory

| Component | State | Operations | Talks to | What makes it hard | Correct when | Module |
|---|---|---|---|---|---|---|
| Monitor engine and state machine, `core/src/monitor/engine.rs`, `core/src/db/states.rs` | `targets.next_check_at`, `target_states`, `check_results` | cron entry, due query, probe with retries, result row, state row, transition, reschedule | incidents, notifications, audit log, windows, retention | every `await` is a point where another invocation, an operator or a crash may come in; nothing claims a target; the state row is read, decided on and written back unconditionally; every error is logged and passed over | a stored transition is justified by the stored results and leads to exactly one incident, one notification, one audit row; no target is starved | Monitor, Outage |
| Protocol probes, `core/src/monitor/{http,tcp,smtp,tls}.rs` | none | one exchange | the network | timeouts | a probe is a success or a failure | Monitor (`Attempt`) |
| Incidents, `core/src/db/incidents.rs` | `incidents` | open, auto_resolve, resolve, listings | monitor, operators, retention, statistics | opened and closed by two parties that do not coordinate | at most one open per target; an administrator's resolution stays | Monitor, Console, Sla |
| Maintenance windows, `core/src/db/maintenance.rs` | `maintenance_windows` | create, is_under_maintenance, list_in_window | monitor, statistics | asked after the status was stored; a target's window outlives it | a window silences the notification and nothing else, and excludes nobody else's downtime | Monitor, Console, Sla |
| Notifications, `core/src/notify.rs`, `notify/*` | `last_notified_at` | dispatch_down, dispatch_up, test | monitor, channels | delivery may fail; no retry by design | one per outage | Monitor, Console |
| Audit chain, `core/src/db/audit.rs`, `audit/hash.rs` | `audit_logs` | log, log_system, log_login, verify_chain | every mutation | the head is read and the row inserted in two calls; ids are random and timestamps have seconds; rows may be damaged by other hands | an undamaged chain verifies; damage is named, never spread, never silenced | ChainWalk, WalkLoop, AuditChain |
| Retention, `core/src/db/retention.rs` | `retention_policies`, the R2 bucket, the deletable tables | run_cleanup: select, archive, delete by id, stamp | monitor, incidents | any error ends the pass; passes overlap; the archive's key has a resolution of a second | nothing is deleted that is not expired or not archived; a pass that ends leaves nothing it found expired | Retention |
| Targets and channels, `core/src/db/{targets,channels}.rs`, `core/src/api/*` | `targets`, `target_tags`, `channels`, `target_notifications` | create, update, delete, attach, detach, test, listings | gateway, audit log, monitor | a change is several statements without a transaction, its audit row one more; updates write whole rows | a target has its state row; what is not named stays; what is answered "done" is in the audit log | Console |
| Users and identity, `core/src/db/users.rs` | `users` | resolve_by_identity, get_by_email, upsert | login, import | two first logins claim one row that has no `sub` yet | a `sub` is one user, a user one `sub` | Login, Console |
| Login, sessions, CSRF, `gateway/src/auth/*` | KV: pending logins, sessions | login, callback, logout, list, revoke others | identity, rate limits | KV has no transactions: get and delete are two calls | a code opens one session; a session is served as who signed in; revoking ends what it listed | Login, Console |
| Rate limits, `gateway/src/rate_limit.rs` | KV counters per bucket | check_and_consume_login, the limit on tests | login, test notifications | lost updates; reads and writes fail open; a slow request straddles buckets | no bucket admits more than its limit while nothing is lost | RateLimit, Login |
| Tokens and keys, `gateway/src/auth/{jwt,jwks}.rs` | KV key cache | verify, refresh | login | | one outcome (`Verified`) | Login |
| Configuration import and export, `core/src/migration.rs`, `core/src/db/migration.rs` | all configuration tables | validate, import_all, export | targets, channels, users, windows | row by row, no transaction, three collision policies | references resolve; nothing is lost; what is reported was done; an export is whole | Import, Export |
| Statistics, `core/src/stats.rs`, `core/src/api/stats.rs` | none | compute_sla and its interval arithmetic, the pages' queries | incidents, windows | ranges that touch, nest or cross the window's edge, read in several queries | as a count second by second | Sla |
| Gateway routes and handlers, `gateway/src/lib.rs`, `core_client.rs`, `core/src/lib.rs`, `core/src/api.rs` | none | every route: authenticate, guard, CSRF, call the core | all of the above | guards are repeated by hand on both workers | only an administrator changes anything; a member sees no one else's | Routes, Console |
| User interface, `gateway/src/ui/*` | none | the links, forms and scripts of each page | the routes | pages name routes, parameters and roles by hand | what is offered is carried out | Pages, Console |
| Provisioning, `cli/src/provision/*` | the remote resources | run_plan, run_apply | Cloudflare's API | a step fails after part of its effect | a re-run neither repeats nor skips what exists | not modelled |
| Environment checks; development identity provider | none; its store of codes | | | | | not modelled; the codes in Login |

The workers share nothing but the database, KV and R2; the gateway calls the
core through a service binding, one request per call.  Concurrency is between
requests, cron events and their awaits; there are no threads.

## 2. Modules

```
TargetState ── Monitor ── MCMonitor          ChainWalk ── AuditChain ── MCAuditChain
    Outage ──┘   └── MonitorProofs             │ │            └── AuditChainProofs
                                               │ └── WalkLoop ─────┘        │
                                               └── ChainWalkProofs ─────────┘
Retention ── MCRetention                     RateLimit ── Login ── MCLogin
    └── RetentionProofs                                     └── LoginProofs
Routes ── Pages ── Console ── MCConsole      Import ── Export ── MCImport
                     └── ConsoleProofs                     └── ImportProofs
                                             Sla ── MCSla
                                                └── SlaProofs
```

**TargetState** is `decide_transition`: the counters and the status a check's
result leads to.

**Monitor** is the scheduled worker.  `Fire` is a cron event; `SelectDue`,
`Attempt`, `InsertResult`, `ReadState`, `WriteState`, `CheckWindow`,
`OpenIncident`/`AutoResolve`, `Dispatch`, `MarkNotified`, `AuditTransition`,
`Reschedule` and `Finish` are the awaits of `run_scheduled_checks`,
`update_after_check` and `handle_state_transition`, one step each, in the
code's order.  `inv[i]` holds the local variables of invocation `i`: the
minute its event was meant for, the `now` it read once, the batch still to do,
the row it read and the window's answer.  `row`, `nextCheck`, `incident`,
`trail` are the tables; `results` keeps of `check_results` only the length of
the run of equal results at its end, which is all the thresholds are about;
`alert` follows the current outage's notification.  `ManualResolve`,
`ToggleDisabled` and `ToggleWindow` are what operators and time do in between.
Two failures are modelled: a D1 call returns an error and has no effect
(`Faulty` names the calls that may), and an invocation dies between two awaits
(`Crash`).  A call that takes effect and then reports an error is, for every
call of this loop, the effect followed by the crash or by the error branch of
the next step, except that the rest of the same target's handling goes on; the
model does not have that combination.

**Outage** is what the monitor promises an observer of one target: the status
moves one legal step at a time, an incident is open exactly from the fall to
the recovery or until an administrator closes it.  `Monitor!OutageImplemented`
is that module under a refinement mapping that counts a status only once its
incident was dealt with.

**ChainWalk** is `walk_chain` as a function of the table; **WalkLoop** is the
same loop as a state machine, one step per turn, over every table of a small
size, which is what termination and the classification are stated about.  A
digest is the id of the row it was computed from: the id is hashed with the
other fields, and the hash is taken to be collision free.  **AuditChain** adds
the writers (`Begin`, `ReadHead`, `Insert`, and `GiveUp` for an error or a dead
worker) and damage done to the table by other hands between two writes.

**Retention** is `run_cleanup`.  One pass is `Start`, then per policy
`NextPolicy`, and `Select`, `Archive`, `Delete` in a loop until nothing is
selected, then `Stamp`; `Abort` is any error going up with `?` or the worker
dying.  `AddRow` and `Resolve` are the rest of the system meanwhile, and the
history `due` keeps what each pass had to remove when it began.  The key of an
archive object is what the code formats: table, second, row count.

**RateLimit** is the decision on two counters and the buckets they belong to.
**Login** serves requests: `handler[h]` is the invocation of one HTTP request,
and each KV, provider or database call it makes is a step, so that any other
request may come in between.  `AskLogin` to `SavePending` are GET
`/auth/login`; `CallBack`, `Consume`, `Forget`, `Exchange`, `BySub`,
`ByEmail`, `Claim`, `Again` and `Create` are the callback and
`resolve_by_identity`; `AskRevoke` to `Revoked` are the revocation, with the
three loads of the session it performs; `AskUpsert`, `Find` and `Store` are the
administrator's upsert of a user.  `GiveUp` is an error returned with `?`, or
the worker's death, at any of them.  The provider gives out a code once, may
let it expire and may change the address in an account's claims; an address is
a spelling and `Fold` the mailbox `COLLATE NOCASE` makes of it.  Sessions and
pending logins end by their TTL at any time.  KV's eventual consistency is
modelled where a decision hangs on it: the delete of a pending login may leave
the key, and the read of a counter may see nothing.  A deleted session that
another location still loads from its cache for up to a minute is not in the
model.

**Import** is `POST /admin/migration/import`.  A row is its
kind, a version and the rows it refers to; `Refers` and `Intact` are the
schema's foreign keys and the unique address, which the tables to start from
satisfy.  `Ask` is the validation, `Owners` the check of the owners,
`Preflight` the collision scan of the policy *fail*; then `Look` and `Write`
for each row of `todo` in `import_all`'s order of tables (`Order`; a document
lists the rows of a table in any order, so `Foremost` leaves it open), with
`ClearTags`, `PutTag`, `TagsDone` and `PutState` for a target, and `Record`
for the audit row and the report.  `Delete` is an administrator deleting a
target, with the schema's cascades, and `Fault` a statement that fails.
**Export** puts one export beside them: `AskExport`, a `ReadTable` for each of
the queries of `export_all` in their order (`Queries`; the users' only when
asked for), `Answer`, and `ExportFault` for a query that fails.  `Watched` is
its history: the rows that came since it began (`added`) and those of the
beginning that never went (`lasting`).  Rows come by an import's statements
only, which stand for an administrator's own.  Several exports do not touch
one another, so there is one, and it takes an import's place in the bound.

**Sla** builds the statistics pages: `AskSummary` or `AskDetail`, then for
every report `ReadTarget`, `ReadIncidents` and `ReadWindows` (three queries),
then `Complete`, while incidents, windows, targets and time (`Tick`) change.
A change of an incident is two steps, as in `db/incidents.rs`: `Stamp` reads the
clock, and after an await the statement is carried out with that time (`Open`,
`Resolve`, `AutoResolve`; `sent` holds what is in between).  A detail page
is built for the owner or an administrator and else refused (`Visible`).
`Clip`, `Union`, `Cut`/`Subtract`, `ComputeSla` and `Summary` are the arithmetic
of `stats.rs` and `aggregate_sla` on integers; a ratio is a pair.  `Resolve`
resolves an incident by its id whatever its status, as `incidents::resolve`
does.  `altered` is history, the targets whose past was changed since the page
was asked for: a change that landed in a later second than its stamp, the end
of an incident that was moved by resolving it again, a deletion.
The retention of incidents is left out: by default it
keeps a year, and a report may reach back 90 days (`MAX_WINDOW_SEC`).

**Routes** holds the route tables of both workers, the calls of every
`core_client` function, the handlers that need a token or the administrator's
role, and the calls of each page's handler.  **Pages** is, for every function
of `gateway/src/ui` that builds part of a page, the set of calls its links,
forms and scripts make.  **Console** serves requests with them: `Ask`,
`Authenticate`, the refusals, then for each call to the core either one of the
read handlers (`Query`) or a `Program`: the statements of the core's handler
in order, each a step (`ReadOld`, `ReadCurrent`, `Insert`, `ClearTags`,
`PutTags`, `PutState`, `Update`, `ReadBack`, `Delete`, `Attach`, `Detach`,
`Find`, `Store`, `Send`, `Log`), any of which may fail (`Fault`), then `Finish`.
Sessions are in Login, the rows of the audit log in AuditChain and the writes
of an import in Import; Console starts after the session was found.  `fresh`,
`quiet` and `before` are history: whether anybody else wrote the subject of a
request since the row in hand was read, or since the request was let in, and
what it was then.

Definitions marked *Slip* stand beside the definition they vary and are used
by no specification.  Each is a change a programmer could plausibly make to
the code (a condition left out, a boundary moved, an older version of the
function); replacing the real definition by it must break the property the
project file names, which is how each property is known to look at the code.

## 3. Runs

| Run | Question | Bounds |
|---|---|---|
| `MonitorClean` | Without errors and overlap, is every stored transition justified by the results, completely handled, is the worker an `Outage`, and is no target overtaken for ever? | 2 targets of intervals 1 and 2, one per sweep, thresholds 1 and 2, one retry, 5 minutes, 1 operator move |
| `MonitorRaces` | What survives overlap, a crash and any failing call? | 2 invocations, 1 target, 2 minutes (two cron events), 1 crash, 2 operator moves |
| `WalkLoop` | Does the verifier end on any table, put each row in one class, and compute `Walk`? | all tables of up to 3 rows of one second, each column any digest, NULL or unknown |
| `ChainWriters` | Is the verifier's report right about a chain that is written, raced over, edited and cut? | 3 writers, 4 rows and one from before the chain, 2 seconds, 2 damages |
| `Retention` | Does a pass archive before it deletes, delete only what it may, archive it once, come to an end, and leave nothing behind? | one pass after another, 2 results and 1 incident, every policy table, batches of 1, 3 seconds, 1 abort |
| `RetentionSameSecond` | And when two batches fall into one second?  Rows are lost. | 2 rows, batches of 1 |
| `Login` | Do the limits hold, does a row keep its `sub`, is a session served as who it is, does a revocation do what it says? | 2 requests at a time; a burst of 3 logins, 2 first logins and an administrator for one mailbox, a revocation among two sessions and a login, and one login from its first request to its session; 2 accounts, 3 spellings of 2 mailboxes, pages of 2 among up to 3 sessions, one of them without a CSRF token |
| `Import` | Does an import lose, change or misreport anything, and is an export whole and importable though it is read query by query? | 2 requests, imports of 6 documents under 3 policies or an export, 7 rows of 5 tables, 1 delete or failing call |
| `ImportRetry` | Is an import that failed made good by its repetition?  Not its state row. | 1 importer, 2 imports, 1 failing call |
| `Sla` | Do the reports count their seconds? | 30 starts of 2 targets, 4 histories and up to 2 of 5 windows; 6 seconds, 2 changes meanwhile, stamped and landing apart |
| `ScopeLost` | Does a window of one target stay its own?  Not when the target is deleted. | the same, 1 change |
| `Console` | Are changes audited as they happened, targets whole, unnamed fields kept, pages honest, members confined? | 2 requests at a time out of every request there is, 1 failing statement |

The finite sets of ids are bounds too: when they are used up the corresponding
action is disabled, and requests come to an end, so no run checks for deadlock
(nothing in the code waits for anything else: there are no locks).  `MaxClock`,
`MaxMinute`, `MaxCrashes`, `MaxMoves`, `MaxDamage`, `MaxAborts`, `MaxImports`,
`MaxTroubles`, `MaxFaults` and Login's `quota` bound the counters.  The bounds
are the smallest in which the interesting orders happen: two cron events are
two overlapping checks of one target that read the same row; two requests are
every race of a read and a write; four chained rows are a fork, its
continuation and one row behind a cut; the incidents and windows of `MCSla`
touch, nest, overlap and cross the edges of the reports.

Login's four situations are separate starts rather than one with everything,
because the product of them is too large and their parts do not share state:
the counters are used by the login request alone, the pending logins by
callbacks, the users by callbacks, upserts and lookups.

`WalkLoop` is fair to its only process, a loop without an await.
`Retention!FairSpec` assumes that time passes and that a pass that has begun
takes its next step, since every await returns; it says nothing about
operators, about new rows, about aborts not happening, or about a pass ever
being started: the trigger is looked at only when a target is due in minute 0
(`core/src/monitor/engine.rs:74`).  So what is claimed is that a pass ends
(`PassEnds`) and what it has then removed (`PassClears`), and not that every
expired row goes some day.  The other modules have no liveness property: what
the monitor should eventually do depends on probes and on best-effort cron
events, and a request may end at any call.

### Where the code and its documents differ

* `RetentionSameSecond`: two full batches of a table written within one second
  get one key, and the second object replaces the first, whose rows are then
  gone from both places.  The theorem `ArchivedBeforeDeletedHolds` shows that
  this is the only way: under the assumption `Paced` (a key is not used twice)
  it cannot happen.
* `ImportRetry`: an import that fails between a target's INSERT and that of
  its state row reports success when repeated and never adds the state row;
  such a target cannot be opened and its checks update nothing.
* `ScopeLost`: deleting a target sets the `target_id` of its windows to NULL,
  which is what a window of the whole deployment looks like.

Others are written into the properties as exceptions or follow from the
models; none has a run of its own:

* Monitor.  The early return at `core/src/monitor/engine.rs:74` skips the
  hour's retention pass when nothing is due, against the comment at line 133.
  Overlapping invocations probe a target twice within its interval and may both
  notify one outage (`AlertOncePerOutage` is stated up to the first overlap).
  A failed INSERT of an incident is never made good, and a failed state update
  leaves counters that skip a check (`TransitionHandled` and
  `TransitionsJustified` are stated without errors).  A probe's timeout is
  looked at after the exchange returned, and a TLS check has none.  An update of
  a target may change its interval, thresholds and retries while a sweep has the
  older values in hand (`core/src/db/targets.rs:170`); in the model they are
  constants, and only `is_disabled` changes (`ToggleDisabled`).  Several targets
  in one batch, where an error or a death at the first leaves the others for
  later, occur in no run, whose sweeps take one target each; the theorem
  `TransitionHandledHolds` is for every batch size.
* Audit.  Concurrent writers fork the chain (`SoundWhenUndamaged` is stated up
  to the first race); deleting the newest row leaves nothing to notice.
* Retention.  An incident that an administrator edits between its archive and
  its deletion is deleted in its newer form.  A class whose archive keeps
  failing ends every pass before the classes behind it are looked at.
* Incidents.  `resolve` asks nothing of the status: an incident that is
  resolved, by hand or by recovery, can be resolved again, with another name
  and note.  Its end moves to now, and every report counts the time since it
  was over as downtime.  Opening and resolving read the clock before they wait
  for the database (`core/src/db/incidents.rs:7`, `:26`, `:50`): a report built
  in between counts seconds that the row then says were over, or misses an
  incident that the row then says was open, so that two pages built one after
  the other may disagree about one past.  Both are `altered` in Sla, and the
  properties speak of the other targets.
* Login.  Signing out everywhere else looks at one page of the keys of
  everybody's sessions, 1000 of them (`auth/session.rs:175`, by intention);
  the caller's sessions that it leaves out stay, and the page reports success
  (`ToEnd` in Login).  Two requests that count at once both pass, so the bound
  `2*limit` that `rate_limit.rs` mentions is none; the comment on `decide` has
  the longer wait reported, the code reports the minute's first.  The listing
  of sessions compares addresses as they are spelled, although `users.email`
  does not. `extract_caller` finds the user by the session's address, although
  requirement FR-RBAC-07 keys identity on `sub`: `ServedAsItself` holds until
  an address changes hands at the provider.  A session from before CSRF tokens
  is let pass once according to a comment in `csrf.rs`; its pages carry no
  token, so it is refused, unless the request shows the token of another
  session.  The writes to the key cache (`jwks.rs`, `oidc.rs`) are never
  awaited.
* Import.  `exclude_from_sla` of a window is not imported (so `Stands` leaves
  it out); the module comment of `db/migration.rs` speaks of one batch per
  table, which there is not; a window's target is not checked although
  FR-MIG-10 says references are; a failed import leaves its rows and no audit
  row; a dry run does not predict collisions.
* Console.  A target's incidents as CSV always fail: the route
  `/api/stats/incidents/:id.csv` names its parameter `id.csv`, the handler
  asks for `id`.  Members are shown Resolve (against FR-RBAC-05,
  `docs/src/requirements.md:317`), the migration page, and links to the
  targets of other people's incidents, and are refused (`Broken`).  FR-RBAC-04
  (line 316) wants a member confined to their own targets in every view and
  calls the dashboard owner-scoped; it counts everybody's
  (`core/src/db/targets.rs:53`) and lists everybody's newest incidents
  (`core/src/db/incidents.rs:72`), the windows of all targets are listed to
  everybody, and a target's page names the channels attached to it, whoever
  owns them.  `MembersConfined` does not claim these.  Tags that are no JSON
  list (`core/src/db/targets.rs:39`) make an update fail after its DELETE;
  `PutTags` is one step for the INSERTs of the list.  The maintenance form
  drops the warning that an audit row failed (FR-AUD-11; exempted in
  `AuditTells`).  A change that fails after its first statement leaves a
  change without an audit row, and a target's creation may stop before its
  state row (exempted in `WholeTargets`).  The channel form sends every field,
  so a stale page undoes a toggle.  A role is the one held at authentication.

## 4. Proofs

Every theorem is for all values of the constants that satisfy the named
assumptions of the component's module, which are the schema's CHECKs, the
distinctness of the model's special values, and the types of the bounds.

| Theorem | Argument |
|---|---|
| `MonitorProofs!TypeCorrect` | `TypeOK` is inductive; it carries that an invocation at work has a target at the head of its batch, without which no step's effect has a type. |
| `MonitorProofs!OneOpenIncidentHolds` | inductive with `TypeOK`: only the INSERT adds an open incident, and the index refuses it when there is one. |
| `MonitorProofs!RowsCoherentHolds` | `RowsCoherent` alone is not inductive, because a row is written from one read earlier.  The invariant adds that the row an invocation holds for writing is coherent too. |
| `MonitorProofs!AlertOnceAlone` | up to the first overlap: one invocation at a time (`Alone`), no alert of an outage that is over (`Quiet`), and the one at work has a verdict equal to the stored status and finds no alert sent before its own (`Announcing`). |
| `MonitorProofs!AdminResolutionKeptHolds` | `ResolvedByHand`: an incident with an administrator's name on it is resolved, and the statements of the monitor write open or new incidents only. |
| `MonitorProofs!NoOvertakingHolds` | from the types: the next check counts from the start of the sweep that made it, and no interval is zero. |
| `MonitorProofs!TransitionsJustifiedHolds` | assumes an orderly run (`Orderly`: nothing has overlapped or died) whose INSERT, SELECT and UPDATE of a check do not fail.  `CountsInv`: the counters of a row never exceed the trailing run of its results, and those about to be stored do not either. |
| `MonitorProofs!OutageImplementedHolds` | assumes an orderly run whose calls on incidents do not fail; every other call may.  The refinement of `Outage` step by step, from `OutageInv`: an invocation past its UPDATE has the transition that is stored (`Deciding`), and an incident is open only for a target that is down or being handled (`Closed`). |
| `MonitorProofs!TransitionHandledHolds` | assumes that the calls on incidents, the notified mark and the audit row do not fail, and holds while the run is orderly.  `ReportInv` says for every place of `handle_state_transition` how much of the report is there, and that statuses are dated up to now. |
| `AuditChainProofs!WalkTypeCorrect`, `OneClassHolds`, `AdvancesHolds` | the rows reached are chained rows of the table; the four classes are then disjoint and cover it; a turn adds a row or closes a cycle. |
| `AuditChainProofs!EndsAsWalkHolds` | `InTurn`: the loop's variables are those of so many turns (`ChainWalkProofs!Turns`).  A turn adds a row, so one turn more than there are rows ends every walk of a finite table (`WalkEnds`), and a walk that has ended stays (`TurnsStay`). |
| `AuditChainProofs!TypeCorrect`, `BlamesTheEditedHolds`, `OrphansExplainedHolds` | `Inv` keeps the table `Clean`, that is, finite, a chained row's digest its own and no digest shared.  `ChainWalkProofs!CleanWalk` describes the walk of such a table without turns: it reaches the least set that holds the first row of the chain and with each row the first that continues it (`Closed`), it closes no cycle, and nothing continues where it stands. |
| `AuditChainProofs!SoundWhenUndamagedHolds`, `LiveChainGoesOnHolds`, `VerifiedStaysHolds` | `OneAtATime`, in `Inv`: until two writers overlap, the one at work holds the head as it is, no two rows continue the same one, and an undamaged table is reached to its last row.  A row chained to that head joins the chain and takes none off it (`AppendAtHead`). |
| `AuditChainProofs!AlarmStandsHolds` | `PendingNew`, in `Inv`: nothing refers to the row a writer is about to insert.  Whatever its head, then, it puts no other row on the chain (`AppendReachesNoMore`). |
| `RetentionProofs!TypeCorrect`, `DeletesOnlyExpiredHolds` | the strengthening says that the rows of a selected batch are *doomed*: closed, past the cutoff of the pass that holds them and of a table that may be archived, whatever happens to them until they are deleted. |
| `RetentionProofs!ArchivedBeforeDeletedHolds` | assumes `Paced`.  The batch of a pass that stands before its DELETE is in the bucket, and the bucket never loses an object. |
| `RetentionProofs!ArchivedOnceHolds` | assumes `Apart`.  `OnceInv`, until a pass ends early: an archived row is gone or in the batch of a pass about to delete it (`Accounted`), and what waits for its archive is still stored (`Waiting`); one row has one holder, so what a pass is about to archive is in no object yet. |
| `RetentionProofs!PassClearsHolds` | `ClearInv`: what a pass owes (`Owed`) stays expired for its fixed cutoff, and is gone, of a policy still to come, or of the one in hand (`Coming`); an empty batch says that nothing of the one in hand is left. |
| `LoginProofs!TypeCorrect`, `SubKeptHolds` | `Inv` adds to the types what an invocation relies on between its calls (`Secure`): the code it was given was issued, the row it is about to write exists, it knows who signs in.  Codes never become unused and rows never vanish, so a step of one request keeps what the others rely on.  Uniqueness of `sub` is inductive because `Claim` is one conditional UPDATE under a unique index. |
| `LoginProofs!OneSessionPerCodeHolds` | proved and in no run: it rests on the provider giving out a code once.  `Spent`: a code that was given out has one holder, a callback on its way or a session.  `Exchange` takes only a code nobody holds, `Create` passes the hold on and ends, every other step takes none (`NoneTaken`). |
| `LoginProofs!AdmissionBoundedHolds` | `Counted`: until two requests count at once or a call is lost, what a counting request has read is current and a counter lacks exactly the request about to be written to it, in the bucket of the minute or hour it began in. |
| `LoginProofs!ServedAsItselfHolds` | `Owned`: until an address changes at the provider, who signs in, who claimed a row and whose a session is all have the mailbox they came with, and the row a session was opened for still carries its subject.  With one row per mailbox (`MailUnique`, in `Inv`) the row looked up by address is that row.  `StartsWell` demands as much of the situation to start from. |
| `LoginProofs!RevokesExactlyHolds` | For any page size, and about the sessions a page does not leave out.  `Tracked`: what a revocation has found has the caller's address and is not the caller's session, and what it owes is in its keys, found, or over.  Sessions are never changed but for their end and keep their key (`SessionsLast`), so the work of others only takes from what is owed. |
| `ImportProofs!TypeCorrect`, `NothingLostHolds`, `UntouchedHolds` | `Inv`: `Intact` tables, and per request (`Follows`) a row in hand that is in its document and, unless the policy is *replace*, was not there when the request began.  *fail* has seen every collision before its first write, *skip* takes no such row in hand; and a step writes only the row in hand. |
| `ImportProofs!ExportAppliesHolds` | of `ExportSpec`, as the run; the others about imports are of `Spec`.  `Intact` is inductive: a write is admitted by the constraints, and a delete takes the links and detaches the windows of what it deletes.  A link is read after both tables it refers to, and a row it names was there then: either it was there when its table was read, or it came since (`added`). |
| `ImportProofs!SoundAppliesHolds`, `AppliedAsReportedHolds` | `Sure`: an undisturbed request knows that its document still resolves (`Resolves`), which rows it has stored as the document says and how many (`Progress`), and how far it is with the row in hand (`Hand`).  The row that is looked up comes after those it refers to (`RefsStored`), so a sound document is never refused.  The counts are cardinalities, one more with every row that is done. |
| `SlaProofs!CountedBySecondHolds` | the arithmetic first.  `UnionCovers`: what `Union` makes of any ranges lies apart and in order (`Apart`) and covers exactly the same seconds.  `SubtractCovers`: what `Subtract` leaves covers the difference.  `TotalCounts`: the lengths of ranges that lie apart sum up to the number of seconds they cover.  Then the interleaving: everything a report reads lies before its clock, and no step changes what was before now (`SamePast`) except of an `altered` target, a change that lands late included (`PastKept`).  So a report true of the tables when it is built (`Told`) stays true, and so does what its first query found (`Accurate`). |
| `SlaProofs!WiderSeesMoreHolds` | the reports of a detail page are of one target (`OfOne`) and their clocks do not go back (`Standing`); both are true of the same tables, in which a longer span holds no fewer seconds and rows. |
| `SlaProofs!SummaryAddsUpHolds` | the reports of a summary are of different targets (`Separate`), so their sums count disjoint sets of (target, second) pairs (`MarkedTotal`); an outage comes back exactly from its ratio because a ratio is a pair of integers here (`Contribution`). |
| `ConsoleProofs!Invariance` | `IInv` says of each request that it is well formed and at a statement that may follow the one before in its handler's program (`Sound`, `Legal` over the pairs of `Flow`); that no two requests create one row (`Apart`); and of what it has read (`Stands`) that it is still the row while nobody else wrote it, and that a new target about to be read back has its state row.  The router comes first: whatever call a handler makes, the route found for it is one that fits, so a page's calls end at reading handlers and a change's at its own (`PageCallsRead`, `ChangeRouted`).  Each of the 24 actions is one of seven kinds of step (`Kind`), which leaves the other requests untouched or marked as disturbed (`Beside`) and of the tables what others rely on (`Lasting`); the invariant is proved from the kinds. |
| `ConsoleProofs!WholeTargetsHolds` | the foreign keys (`Referred`) are kept statement by statement: an UPDATE of an incident is made from the row as it was read, whose target cannot have changed (`BaseStands`); a deletion takes what refers to the row.  A target without state row has its creator (`Made`), who cannot come to its audit row without it (`StateBehind`). |
| `ConsoleProofs!AuditTellsHolds` | the only end of a change that is answered "done" is its last statement (`ToldAtEnd`), where `Remembered` and `TakenBack` say what `old` and `new` are. |
| `ConsoleProofs!KeepsUnnamedHolds` | `FreshBase`: the row an UPDATE is made from is the row, and not the one read for the audit log. |
| `ConsoleProofs!MembersConfinedHolds` | whoever is at work was let in by the guards (`Guarded`), and only a statement of a change touches a table; what a list adds to a member's page was found by the member's id in the step that read it (`QueryConfined`).  What is read about a target by its id, its results, incidents or channels, comes after the read that refuses the target of somebody else: `Introduced`, of the requests at work, says that a member's page with such reads still to make has shown the row, or asks for it next. |

The `Retention` run has one pass at a time and no audit rows; the theorems
about it hold for any number of overlapping passes and for every table.
The theorems about the statistics hold for any number of targets, incidents,
windows and compared lengths.  They say nothing of a target that was deleted,
had a resolved incident resolved again, or had a change land in a later second
than its stamp since the page was asked for (`altered`), and nothing of
floating point: the code's ratios are
`f64`, of which `aggregate_sla` rounds what it recovers.

The table is finite by assumption where a theorem speaks of the whole walk:
`RowIds` of WalkLoop and `OldRows` of AuditChain, which the program's own writes
extend one row at a time.  `Walk` is a recursive function of the number of
turns; what holds after any number is proved with the set of the numbers it
holds for (`ChainWalkProofs!Counting`).

The theorems about `Console` hold for any users, rows, requests and number of
requests at a time, of the program's own tables of routes and calls.  They
assume that ids are of one table each (`IdsAssumption`), that a request names
ids of the tables its handler works on and gives some column
(`AsksAssumption`), and that the tables to start from satisfy the schema's
foreign keys and have a state row for every target (`TablesAssumption`).  An id
is assumed to be no word of a route, such as the `summary` of
`/targets/summary`.  A request may name a row that is not there, or no longer.
Imports are left to the Import module.

Only model-checked: `OffersAdmitted` of `Console`, which is about each link of
each page and enumerates the concrete tables of `Pages`, with ids that are put
together from strings; `Terminates` and `PassEnds`, which are liveness.

## 5. Not modelled

* The network exchange of a probe or a mail, cryptography and the encoding of
  tokens, HTML and CSV text, security headers, safe redirects, the environment
  checks: pure functions of their arguments, or input and output with no state
  of the program's own.
* The fan-out of a notification to the channels of a target: its outcome is
  logged and decides nothing.
* The counters of the limit on test notifications: Console lets the limit
  refuse or not.  It is the same code as the login limit, in other buckets.
* Provisioning: a sequential tool that parses the output of another, run by
  one operator; every step asks what exists before it acts.
* The development identity provider's pages and keys; the migrations of the
  database, which run once and offline.
