------------------------------ MODULE Console ------------------------------
(***************************************************************************)
(* Requests of signed-in people: the gateway authenticates each, guards    *)
(* it, and makes its calls to the core; the core runs each as a few SQL    *)
(* statements with no transaction around them.  Requests interleave        *)
(* between any two statements, and any statement may fail.                 *)
(*                                                                         *)
(* Sessions and logins are the Login module, the rows of the audit log the *)
(* AuditChain module, an import the Import module.                         *)
(***************************************************************************)
EXTENDS Pages

CONSTANTS Users, Targets, Channels, Windows, Incidents,   \* ids of rows
          Slots,     \* requests
          Asks,      \* what may be requested
          Tables,    \* contents of the tables to start from
          None,
          MaxFaults  \* bound of the model

ASSUME ConsoleAssumption ==
    /\ \A a \in Asks : a.user \in Users /\ a.token \in BOOLEAN /\ a.tab \in Tabs
    /\ MaxFaults \in Nat

Rows == Users \cup Targets \cup Channels \cup Windows \cup Incidents

\* An id without a row: none of a row's columns.
Absent == <<>>

VARIABLES row,        \* each id's row, or Absent
          tags,       \* the tags of each target
          stateRow,   \* the targets with a row in target_states
          link,       \* target_notifications: <<target, channel>>
          request,    \* what each slot is doing
          faults      \* statements that failed

tables == <<row, tags, stateRow, link>>
vars == <<tables, request, faults>>

Unseen == [targets |-> {}, channels |-> {}, enabled |-> {}, attached |-> {},
           incidents |-> {}, others |-> FALSE]

\* `old`, `base` and `new` are what the request has read of its subject; `seen`
\* what its page shows.  `fresh`, `quiet` and `before` are history: nobody else
\* wrote the subject since `base` was read, or since the request was admitted,
\* and what the subject was then.
Idle == [pc |-> "idle", ask |-> None, handler |-> "none", subject |-> None,
         admin |-> FALSE, calls |-> <<>>, todo |-> <<>>, seen |-> Unseen,
         old |-> None, base |-> None, new |-> None, fresh |-> FALSE,
         quiet |-> TRUE, before |-> None, logged |-> {}, answer |-> "none"]

Init == /\ \E start \in Tables : /\ row = start.row
                                 /\ tags = start.tags
                                 /\ stateRow = start.stateRow
                                 /\ link = start.link
        /\ request = [r \in Slots |-> Idle]
        /\ faults = 0

Exists(x) == row[x] # Absent

\* A row as the core answers with it: a target comes with its tags.
Whole(x) == [row |-> row[x], tags |-> IF x \in Targets THEN tags[x] ELSE {}]

WholeOrNone(x) == IF x \in Rows THEN Whole(x) ELSE None

\* Columns given, over those of a row.
Over(given, base) ==
    [c \in DOMAIN given \cup DOMAIN base |-> IF c \in DOMAIN given THEN given[c] ELSE base[c]]

Working(r) == request[r].pc = "work"

Answer(r, a) ==
    request' = [request EXCEPT ![r].pc = "done", ![r].answer = a,
                               ![r].calls = <<>>, ![r].todo = <<>>]

----------------------------------------------------------------------------
(* The gateway. *)

CreateHandlers == {"create_target", "create_channel", "create_maintenance",
                   "create_maintenance_form"}

\* What a request is about: the id of its path, or the row it would create.
Subject(a) ==
    LET path == Routed(GatewayRoutes, a.call)[1].path
    IN IF \E k \in DOMAIN path : path[k] = ":id" THEN Id(GatewayRoutes, a.call) ELSE a.new

TargetHandlers == {"create_target", "update_target", "delete_target", "attach_channel",
                   "detach_channel"}
ChannelHandlers == {"create_channel", "update_channel", "delete_channel", "test_channel"}
WindowHandlers == {"create_maintenance", "create_maintenance_form"}

\* The ids of a request are of the tables its handler works on: an id of another
\* table is to it one that is not there.  It gives some column; who resolves an
\* incident gives none of its target.  No id is a word that a route spells out,
\* such as "summary" in /targets/summary: ids are UUIDs.
ASSUME AsksAssumption ==
    \A a \in Asks :
        LET h == HandlerOf(GatewayRoutes, a.call) IN
        /\ h \in TargetHandlers => Subject(a) \in Targets
        /\ h = "attach_channel" => a.channel \in Channels
        /\ h \in ChannelHandlers => Subject(a) \in Channels
        /\ h \in WindowHandlers => /\ Subject(a) \in Windows
                                  /\ "target" \in DOMAIN a.names
                                  /\ a.names.target \in Targets \cup {None}
        /\ h = "resolve_incident" => Subject(a) \in Incidents /\ "target" \notin DOMAIN a.names
        /\ h = "manage_users" => Subject(a) \in Users
        /\ h # "migration_import"
        /\ DOMAIN a.names # {}
        /\ HandlerOf(CoreRoutes, TargetCalls(Subject(a)).get_target) = "targets::get"

\* Ids are unique over all tables.
ASSUME IdsAssumption ==
    /\ Users \cap (Targets \cup Channels \cup Windows \cup Incidents) = {}
    /\ Targets \cap (Channels \cup Windows \cup Incidents) = {}
    /\ Channels \cap (Windows \cup Incidents) = {}
    /\ Windows \cap Incidents = {}

\* The tables to start from are whole, as an import or an earlier request leaves
\* them, and what is yet to be created is not in them.
ASSUME TablesAssumption ==
    \A start \in Tables :
        LET Stored(x) == start.row[x] # Absent IN
        /\ start.row = [x \in Rows |-> start.row[x]]
        /\ \A x \in Rows : Stored(x) => DOMAIN start.row[x] # {}
        /\ start.tags = [t \in Targets |-> start.tags[t]]
        /\ start.stateRow = {t \in Targets : Stored(t)}
        /\ start.link \subseteq Targets \X Channels
        /\ \A t \in Targets : start.tags[t] # {} => Stored(t)
        /\ \A l \in start.link : Stored(l[1]) /\ Stored(l[2])
        /\ \A x \in Incidents \cup Windows : Stored(x) =>
              /\ "target" \in DOMAIN start.row[x]
              /\ \/ start.row[x].target = None
                 \/ start.row[x].target \in Targets /\ Stored(start.row[x].target)
        /\ \A a \in Asks :
              HandlerOf(GatewayRoutes, a.call) \in CreateHandlers => ~Stored(Subject(a))

\* A new row gets an id of its own.
Ask(r) ==
    /\ request[r].pc = "idle"
    /\ \E a \in Asks :
          LET h == HandlerOf(GatewayRoutes, a.call) IN
          /\ h \in CreateHandlers =>
                 \A q \in Slots : request[q].handler \in CreateHandlers =>
                                      request[q].subject # a.new
          /\ request' = [request EXCEPT
                ![r] = [Idle EXCEPT !.pc = "asked", !.ask = a, !.handler = h,
                                    !.subject = Subject(a)]]
    /\ UNCHANGED <<tables, faults>>

\* The one call of each handler that changes something, or exports.
TargetChanges(t) ==
    [create_target |-> TargetCalls(t).create_target,
     update_target |-> TargetCalls(t).update_target,
     delete_target |-> TargetCalls(t).delete_target]

AttachmentChanges(t, c) ==
    [attach_channel |-> AttachmentCalls(t, c).attach_channel,
     detach_channel |-> AttachmentCalls(t, c).detach_channel]

ChannelChanges(c) ==
    [create_channel |-> ChannelCalls(c).create_channel,
     update_channel |-> ChannelCalls(c).update_channel,
     delete_channel |-> ChannelCalls(c).delete_channel]

ResolveChange(i) == [resolve_incident |-> IncidentCalls(i).resolve_incident]
WindowChange == [create_maintenance |-> WindowCalls.create_maintenance]
WindowFormChange == [create_maintenance_form |-> WindowCalls.create_maintenance]
TestChange(c) == [test_channel |-> ChannelCalls(c).test_channel]
UserChange == [manage_users |-> UserCalls.upsert_user]
MigrationChanges == [migration_export |-> MigrationCalls.export_migration,
                     migration_import |-> MigrationCalls.import_migration]

ChangeCall(h, id, c) ==
    CASE h \in DOMAIN TargetChanges(id) -> TargetChanges(id)[h]
      [] h \in DOMAIN AttachmentChanges(id, c) -> AttachmentChanges(id, c)[h]
      [] h \in DOMAIN ChannelChanges(id) -> ChannelChanges(id)[h]
      [] h \in DOMAIN TestChange(id) -> TestChange(id)[h]
      [] h \in DOMAIN ResolveChange(id) -> ResolveChange(id)[h]
      [] h \in DOMAIN WindowChange -> WindowChange[h]
      [] h \in DOMAIN WindowFormChange -> WindowFormChange[h]
      [] h \in DOMAIN UserChange -> UserChange[h]
      [] h \in DOMAIN MigrationChanges -> MigrationChanges[h]

Changes == (NeedsToken \ {"me_revoke_others"}) \cup {"migration_export"}

CoreCalls(h, id, c, tab, admin) ==
    IF h \in Changes THEN <<ChangeCall(h, id, c)>> ELSE HandlerCalls(h, id, tab, admin)

\* The user is looked up for every request; the form's fields are checked last.
Refuses(a, h, u) ==
    \/ u = Absent
    \/ ~u.active
    \/ h \in NeedsToken /\ ~a.token
    \/ h \in AdminOnly /\ u.role # "admin"
    \/ h = "create_maintenance_form" /\ ~a.valid

Refuse(r) ==
    LET q == request[r] IN
    /\ q.pc = "asked"
    /\ Refuses(q.ask, q.handler, row[q.ask.user])
    /\ Answer(r, "refused")
    /\ UNCHANGED <<tables, faults>>

\* The role is the one of this moment, for the rest of the request.  A handler
\* that does not find its parameter stops here.
Authenticate(r) ==
    LET q == request[r]
        admin == row[q.ask.user].role = "admin"
    IN /\ q.pc = "asked"
       /\ ~Refuses(q.ask, q.handler, row[q.ask.user])
       /\ IF NamesId(GatewayRoutes, q.ask.call)
          THEN request' = [request EXCEPT ![r] =
                  [q EXCEPT !.pc = "work", !.admin = admin,
                            !.before = WholeOrNone(q.subject),
                            !.calls = CoreCalls(q.handler, q.subject, q.ask.channel,
                                                q.ask.tab, admin)]]
          ELSE Answer(r, "error")
       /\ UNCHANGED <<tables, faults>>

\* The limit on test notifications, asked before the core is called; its counters
\* are left out.
Limited(r) ==
    /\ Working(r) /\ request[r].handler = "test_channel" /\ request[r].calls # <<>>
    /\ Answer(r, "refused")
    /\ UNCHANGED <<tables, faults>>

----------------------------------------------------------------------------
(* The core: reading. *)

MayList(user, admin, x) == Exists(x) /\ (admin \/ row[x].owner = user)

\* Slip: a member lists as an administrator does.
ListedSlip(user, admin, ids) == {x \in ids : MayList(user, TRUE, x)}

\* list_all, list_channels and the reports: a member's own.
Listed(user, admin, ids) == {x \in ids : MayList(user, admin, x)}

Enabled(ids) == {c \in ids : row[c].enabled}

AttachedTo(t) == {c \in Channels : <<t, c>> \in link}
AttachedBy(c) == {t \in Targets : <<t, c>> \in link}

RecentIncidents ==
    {[id |-> i, target |-> row[i].target, open |-> row[i].status = "open"] :
        i \in {j \in Incidents : Exists(j)}}

\* What a read adds to the page.  A row asked for by its id is shown only if the
\* gateway finds the viewer may see it.
Shows(h, id, user, admin, seen) ==
    CASE h \in {"targets::list", "stats::aggregate_sla"} ->
             [seen EXCEPT !.targets = @ \cup Listed(user, admin, Targets)]
      [] h = "targets::get" -> [seen EXCEPT !.targets = @ \cup {id}]
      [] h = "channels::list" ->
             LET ids == Listed(user, admin, Channels)
             IN [seen EXCEPT !.channels = @ \cup ids, !.enabled = Enabled(ids)]
      [] h = "channels::get" ->
             [seen EXCEPT !.channels = @ \cup {id}, !.enabled = Enabled({id})]
      [] h = "channels::list_for_target" ->
             [seen EXCEPT !.attached = AttachedTo(id)]
      [] h = "channels::list_targets_for" ->
             [seen EXCEPT !.attached = AttachedBy(id)]
      [] h = "incidents::list" -> [seen EXCEPT !.incidents = RecentIncidents]
      [] OTHER -> seen

\* Reads that find nothing are errors.
Misses(h, id) ==
    \/ h \in {"targets::get", "channels::get", "stats::target_sla",
              "stats::target_sla_multi"} /\ ~Exists(id)
    \/ h = "targets::state_for" /\ id \notin stateRow

\* can_view_target, and the same test for a channel.
Forbidden(h, id, user, admin) ==
    h \in {"targets::get", "channels::get"} /\ ~MayList(user, admin, id)

CoreGuard(h, admin) == h # "none" /\ (h \in CoreAdminOnly => admin)

TargetReads == {"targets::list", "targets::get"}
StateReads == {"targets::summary", "targets::states", "targets::state_for", "targets::results"}
ChannelReads == {"channels::list", "channels::get"}
AttachmentReads == {"channels::list_for_target", "channels::list_targets_for"}
IncidentReads == {"incidents::list", "incidents::list_for_target_in_window"}
WindowReads == {"maintenance::list"}
SlaReads == {"stats::target_sla", "stats::target_sla_multi", "stats::aggregate_sla"}
AuditReads == {"audit::list", "audit::verify", "audit::login_history"}
UserReads == {"users::list"}

\* Reads about one row, that the core answers whoever asks.
RowReads ==
    {"targets::state_for", "targets::results", "stats::target_sla", "stats::target_sla_multi",
     "incidents::list_for_target_in_window"} \cup AttachmentReads

ReadHandlers ==
    UNION {TargetReads, StateReads, ChannelReads, AttachmentReads, IncidentReads,
           WindowReads, SlaReads, AuditReads, UserReads}

Query(r) ==
    LET q == request[r]
        h == HandlerOf(CoreRoutes, Head(q.calls))
        id == q.subject
    IN /\ Working(r) /\ q.calls # <<>>
       /\ h \in ReadHandlers
       /\ IF ~CoreGuard(h, q.admin) \/ Misses(h, id) THEN Answer(r, "error")
          ELSE IF Forbidden(h, id, q.ask.user, q.admin) THEN Answer(r, "refused")
          ELSE \E others \in (IF q.handler = "me_security" THEN BOOLEAN ELSE {FALSE}) :
               LET seen == [Shows(h, id, q.ask.user, q.admin, q.seen)
                               EXCEPT !.others = others]
                   last == Len(q.calls) = 1
               IN request' = [request EXCEPT ![r] =
                     [q EXCEPT !.seen = seen, !.calls = Tail(@),
                               !.pc = IF last THEN "done" ELSE "work",
                               !.answer = IF last THEN "ok" ELSE "none"]]
       /\ UNCHANGED <<tables, faults>>

\* The migration page reads nothing.
ShowPage(r) ==
    /\ Working(r) /\ request[r].calls = <<>> /\ request[r].todo = <<>>
    /\ Answer(r, "ok")
    /\ UNCHANGED <<tables, faults>>

----------------------------------------------------------------------------
(* The core: changing.  A program is the statements of a handler, in order. *)

Tagging(a) == <<"ClearTags">> \o (IF a.tags = {} THEN <<>> ELSE <<"PutTags">>)

\* Slip: without tags, create returns from set_tags for good.
TargetProgramSlip(h, a) ==
    IF h = "targets::create" /\ a.tags = None
    THEN <<"Insert", "ClearTags", "ReadBack", "Log">> ELSE <<"Log">>

TargetProgram(h, a) ==
    CASE h = "targets::create" ->
             <<"Insert">> \o (IF a.tags = None THEN <<"ClearTags">> ELSE Tagging(a))
                 \o <<"PutState", "ReadBack", "Log">>
      [] h = "targets::update" ->
             <<"ReadOld", "ReadCurrent", "Update">>
                 \o (IF a.tags = None THEN <<>> ELSE Tagging(a)) \o <<"ReadBack", "Log">>
      [] h = "targets::delete" -> <<"Delete", "Log">>

ChannelProgram ==
    [create |-> <<"Insert", "ReadBack", "Log">>,
     update |-> <<"ReadOld", "ReadCurrent", "Update", "ReadBack", "Log">>,
     delete |-> <<"Delete", "Log">>]

AttachmentProgram == [attach |-> <<"Attach", "Log">>, detach |-> <<"Detach", "Log">>]
TestProgram == <<"ReadCurrent", "Send", "Log">>
WindowProgram == <<"Insert", "ReadBack", "Log">>
ResolveProgram == <<"ReadCurrent", "Update", "Log">>
UserProgram == <<"Find", "Store", "ReadBack", "Log">>

Program(h, a) ==
    CASE h \in {"targets::create", "targets::update", "targets::delete"} ->
             TargetProgram(h, a)
      [] h = "channels::create" -> ChannelProgram.create
      [] h = "channels::update" -> ChannelProgram.update
      [] h = "channels::delete" -> ChannelProgram.delete
      [] h = "channels::attach" -> AttachmentProgram.attach
      [] h = "channels::detach" -> AttachmentProgram.detach
      [] h = "channels::send_test" -> TestProgram
      [] h = "maintenance::create" -> WindowProgram
      [] h = "incidents::resolve" -> ResolveProgram
      [] h = "users::upsert" -> UserProgram
      [] h = "migration::export" -> <<"Log">>

\* A channel's fields are validated before it is inserted.
Begin(r) ==
    LET q == request[r]
        h == HandlerOf(CoreRoutes, Head(q.calls))
    IN /\ Working(r) /\ q.calls # <<>>
       /\ h \notin ReadHandlers
       /\ IF CoreGuard(h, q.admin) /\ (h = "channels::create" => q.ask.valid)
          THEN request' = [request EXCEPT ![r].calls = <<>>,
                                          ![r].todo = Program(h, q.ask)]
          ELSE Answer(r, "error")
       /\ UNCHANGED <<tables, faults>>

Runs(r, statement) ==
    /\ Working(r)
    /\ request[r].todo # <<>> /\ Head(request[r].todo) = statement

Next1(q) == [q EXCEPT !.todo = Tail(@)]

\* The others at work on the rows have not seen this.
Disturb(r, rows, mine) ==
    request' = [q \in Slots |->
        IF q = r THEN mine
        ELSE IF request[q].subject \in rows
             THEN [request[q] EXCEPT !.fresh = FALSE, !.quiet = request[q].pc # "work" /\ @]
             ELSE request[q]]

\* Reads of the subject; without it they are errors.
Reads(r, mine) ==
    /\ IF Exists(request[r].subject)
       THEN request' = [request EXCEPT ![r] = mine]
       ELSE Answer(r, "error")
    /\ UNCHANGED <<tables, faults>>

ReadOld(r) ==
    LET q == request[r] IN
    Runs(r, "ReadOld") /\ Reads(r, [Next1(q) EXCEPT !.old = Whole(q.subject)])

\* update_channel validates what would be written.
ReadCurrent(r) ==
    LET q == request[r] IN
    /\ Runs(r, "ReadCurrent")
    /\ IF q.handler = "update_channel" /\ ~q.ask.valid
       THEN Answer(r, "error") /\ UNCHANGED <<tables, faults>>
       ELSE Reads(r, [Next1(q) EXCEPT !.base = row[q.subject], !.fresh = TRUE])

ReadBack(r) ==
    LET q == request[r] IN
    Runs(r, "ReadBack") /\ Reads(r, [Next1(q) EXCEPT !.new = Whole(q.subject)])

\* The owner is who created it.
NewTarget(q) == Over(q.ask.names, [enabled |-> TRUE, owner |-> q.ask.user])
NewChannel(q) == Over(q.ask.names, [enabled |-> TRUE, owner |-> q.ask.user])

NewRow(q) ==
    CASE q.subject \in Targets -> NewTarget(q)
      [] q.subject \in Channels -> NewChannel(q)
      [] q.subject \in Windows -> q.ask.names

\* A window for a target that is not there is refused by the foreign key.
Insert(r) ==
    LET q == request[r] IN
    /\ Runs(r, "Insert")
    /\ IF q.subject \in Windows /\ q.ask.names.target # None /\ ~Exists(q.ask.names.target)
       THEN Answer(r, "error") /\ UNCHANGED row
       ELSE /\ row' = [row EXCEPT ![q.subject] = NewRow(q)]
            /\ Disturb(r, {q.subject}, Next1(q))
    /\ UNCHANGED <<tags, stateRow, link, faults>>

ClearTags(r) ==
    LET q == request[r] IN
    /\ Runs(r, "ClearTags")
    /\ tags' = [tags EXCEPT ![q.subject] = {}]
    /\ Disturb(r, {q.subject}, Next1(q))
    /\ UNCHANGED <<row, stateRow, link, faults>>

\* The tags of a request, in one step; the code inserts one after the other, and
\* stops at a list it cannot parse as it does at a Fault.
PutTags(r) ==
    LET q == request[r] IN
    /\ Runs(r, "PutTags")
    /\ IF Exists(q.subject)
       THEN /\ tags' = [tags EXCEPT ![q.subject] = @ \cup q.ask.tags]
            /\ Disturb(r, {q.subject}, Next1(q))
       ELSE Answer(r, "error") /\ UNCHANGED tags
    /\ UNCHANGED <<row, stateRow, link, faults>>

PutState(r) ==
    LET q == request[r] IN
    /\ Runs(r, "PutState")
    /\ IF Exists(q.subject)
       THEN /\ stateRow' = stateRow \cup {q.subject}
            /\ request' = [request EXCEPT ![r] = Next1(q)]
       ELSE Answer(r, "error") /\ UNCHANGED stateRow
    /\ UNCHANGED <<row, tags, link, faults>>

\* Slip: the fields not named come from the row read for the audit log.
MergedSlip(q) == Over(q.ask.names, IF q.old = None THEN q.base ELSE q.old.row)

\* Every column is written: those not named with what they were.
Merged(q) == Over(q.ask.names, q.base)

MergedChannel(q) == Over(q.ask.names, q.base)

\* Whatever it was: a resolved incident is resolved again.
Resolved(q) == Over(q.ask.names, q.base)

Rewritten(q) ==
    CASE q.subject \in Targets -> Merged(q)
      [] q.subject \in Channels -> MergedChannel(q)
      [] q.subject \in Incidents -> Resolved(q)

\* An UPDATE of a row that is gone changes nothing.
Update(r) ==
    LET q == request[r] IN
    /\ Runs(r, "Update")
    /\ row' = [row EXCEPT ![q.subject] = IF @ = Absent THEN @ ELSE Rewritten(q)]
    /\ Disturb(r, {q.subject}, Next1(q))
    /\ UNCHANGED <<tags, stateRow, link, faults>>

\* ON DELETE CASCADE for incidents, SET NULL for windows.
Cascaded(x) ==
    [y \in Rows |-> IF y = x \/ (y \in Incidents /\ Exists(y) /\ row[y].target = x) THEN Absent
                    ELSE IF y \in Windows /\ Exists(y) /\ row[y].target = x
                         THEN [row[y] EXCEPT !.target = None]
                    ELSE row[y]]

Delete(r) ==
    LET q == request[r] IN
    /\ Runs(r, "Delete")
    /\ row' = Cascaded(q.subject)
    /\ tags' = [t \in Targets |-> IF t = q.subject THEN {} ELSE tags[t]]
    /\ stateRow' = stateRow \ {q.subject}
    /\ link' = {l \in link : q.subject \notin {l[1], l[2]}}
    /\ Disturb(r, {y \in Rows : y = q.subject \/ row'[y] # row[y]}, Next1(q))
    /\ UNCHANGED faults

\* INSERT OR REPLACE, under two foreign keys.
Attach(r) ==
    LET q == request[r] IN
    /\ Runs(r, "Attach")
    /\ IF Exists(q.subject) /\ Exists(q.ask.channel)
       THEN /\ link' = link \cup {<<q.subject, q.ask.channel>>}
            /\ request' = [request EXCEPT ![r] = Next1(q)]
       ELSE Answer(r, "error") /\ UNCHANGED link
    /\ UNCHANGED <<row, tags, stateRow, faults>>

Detach(r) ==
    LET q == request[r] IN
    /\ Runs(r, "Detach")
    /\ link' = link \ {<<q.subject, q.ask.channel>>}
    /\ request' = [request EXCEPT ![r] = Next1(q)]
    /\ UNCHANGED <<row, tags, stateRow, faults>>

\* upsert looks for the email; it names every field.
Find(r) ==
    LET q == request[r] IN
    /\ Runs(r, "Find")
    /\ request' = [request EXCEPT ![r] = [Next1(q) EXCEPT !.base = row[q.subject]]]
    /\ UNCHANGED <<tables, faults>>

\* An INSERT is refused if the email has been taken meanwhile.
Store(r) ==
    LET q == request[r] IN
    /\ Runs(r, "Store")
    /\ IF q.base = Absent /\ Exists(q.subject)
       THEN Answer(r, "error") /\ UNCHANGED row
       ELSE /\ row' = [row EXCEPT ![q.subject] = q.ask.names]
            /\ Disturb(r, {q.subject}, Next1(q))
    /\ UNCHANGED <<tags, stateRow, link, faults>>

\* A disabled channel is not sent to; an endpoint may fail.
Send(r) ==
    LET q == request[r] IN
    /\ Runs(r, "Send")
    /\ \/ /\ q.base.enabled
          /\ request' = [request EXCEPT ![r] = Next1(q)]
       \/ request' = [request EXCEPT ![r].todo = <<"LogError">>]
    /\ UNCHANGED <<tables, faults>>

----------------------------------------------------------------------------
(* The audit row, and the answer. *)

\* Slip: the outcome of the audit row is not passed on.
OutcomeSlip(q, recorded) == "ok"

\* with_audit_outcome, with_audit_warning: the form has no way to warn.
Outcome(q, recorded) ==
    IF recorded \/ q.handler = "create_maintenance_form" THEN "ok" ELSE "warned"

Finish(r, recorded) ==
    LET q == request[r] IN
    request' = [request EXCEPT ![r] =
        [q EXCEPT !.pc = "done", !.todo = <<>>, !.answer = Outcome(q, recorded),
                  !.logged = IF recorded THEN {[old |-> q.old, new |-> q.new]} ELSE {}]]

Log(r) == Runs(r, "Log") /\ Finish(r, TRUE) /\ UNCHANGED <<tables, faults>>

LogError(r) ==
    /\ Runs(r, "LogError")
    /\ request' = [request EXCEPT ![r] =
          [request[r] EXCEPT !.pc = "done", !.todo = <<>>, !.answer = "error",
                             !.logged = {[old |-> None, new |-> None]}]]
    /\ UNCHANGED <<tables, faults>>

\* The statement or the call fails.  Only the audit row and the history of logins
\* are done without.
Fault(r) ==
    /\ Working(r) /\ faults < MaxFaults
    /\ request[r].calls # <<>> \/ request[r].todo # <<>>
    /\ ~Runs(r, "Send")
    /\ IF Runs(r, "Log") THEN Finish(r, FALSE)
       ELSE Answer(r, IF request[r].handler = "me_security" THEN "ok" ELSE "error")
    /\ faults' = faults + 1
    /\ UNCHANGED tables

----------------------------------------------------------------------------
Step(r) ==
    \/ Ask(r) \/ Refuse(r) \/ Authenticate(r) \/ Limited(r)
    \/ Query(r) \/ ShowPage(r) \/ Begin(r)
    \/ ReadOld(r) \/ ReadCurrent(r) \/ ReadBack(r)
    \/ Insert(r) \/ ClearTags(r) \/ PutTags(r) \/ PutState(r)
    \/ Update(r) \/ Delete(r) \/ Attach(r) \/ Detach(r) \/ Find(r) \/ Store(r)
    \/ Send(r) \/ Log(r) \/ LogError(r) \/ Fault(r)

Next == \E r \in Slots : Step(r)

Spec == Init /\ [][Next]_vars

----------------------------------------------------------------------------
(* Properties *)

\* The statement that ends a request.
Ends(r, answer) ==
    request[r].pc = "work" /\ request'[r].pc = "done" /\ request'[r].answer = answer

\* The audit row of a request that had its subject to itself: what was there
\* before and what it left.
Tells(r) ==
    LET q == request[r] IN
    \A told \in request'[r].logged :
       /\ q.handler \in CreateHandlers \cup {"update_target", "update_channel", "manage_users"}
              => told.new = Whole(q.subject)
       /\ q.handler \in {"update_target", "update_channel"} => told.old = q.before

\* Who is answered "done" without a warning finds the change in the audit log,
\* and, unless another request wrote the same row meanwhile, the audit row shows
\* the row as it was before the change and as it is after it, tags included.  The
\* form for suppression windows has no warning to give.
AuditTells ==
    [][\A r \in Slots :
          Ends(r, "ok") /\ request[r].handler \in Changes \ {"create_maintenance_form"}
              => /\ request'[r].logged # {}
                 /\ request[r].quiet => Tells(r)]_vars

\* An update leaves the fields it does not name as they are, unless the row was
\* written in the one gap between the update's second read and its UPDATE: the
\* read made for the audit log never decides what is written.
KeepsUnnamed ==
    [][\A r \in Slots :
          LET q == request[r]
              x == q.subject
          IN Runs(r, "Update") /\ request'[r].todo = Tail(q.todo) /\ q.fresh
                => \A f \in DOMAIN row[x] \ DOMAIN q.ask.names : row'[x][f] = row[x][f]]_vars

\* A target without its state row is one whose creation is under way or was
\* answered with an error; whatever is created and deleted at the same time,
\* nothing is left that refers to a row that is gone.
WholeTargets ==
    /\ \A t \in Targets : Exists(t) /\ t \notin stateRow =>
          \E r \in Slots : /\ request[r].subject = t
                           /\ request[r].handler = "create_target"
                           /\ request[r].answer \in {"none", "error"}
    /\ \A t \in Targets : t \in stateRow \/ tags[t] # {} => Exists(t)
    /\ \A l \in link : Exists(l[1]) /\ Exists(l[2])
    /\ \A x \in Incidents \cup Windows :
          Exists(x) => row[x].target = None \/ Exists(row[x].target)

Offers(q) ==
    Wrap(q.admin, Content(q.handler, q.subject, q.ask.tab, q.seen, q.admin))

\* What a call offered on a page needs so that it is carried out.
Admitted(q, call) ==
    LET h == HandlerOf(GatewayRoutes, call) IN
    /\ h # "none"
    /\ NamesId(GatewayRoutes, call)
    /\ h \in AdminOnly => q.admin
    /\ LET id == Subject([call |-> call, new |-> ""]) IN
       /\ \A tab \in Tabs :
             LET calls == CoreCalls(h, id, "", tab, q.admin)
             IN \A k \in DOMAIN calls : CoreGuard(HandlerOf(CoreRoutes, calls[k]), q.admin)
       /\ id \in Targets \cup Channels /\ Exists(id) =>
             MayList(q.ask.user, q.admin, id)

\* Offers the program makes and does not keep: a target's incidents as CSV, to
\* anybody; to members, Resolve (against FR-RBAC-05), the targets of other people's
\* incidents, and the migration page.
Broken(q, call) ==
    LET h == HandlerOf(GatewayRoutes, call) IN
    \/ h = "incidents_csv"
    \/ ~q.admin /\ h = "resolve_incident"
    \/ ~q.admin /\ h = "target_detail" /\ q.handler \in {"dashboard", "incidents_list"}
    \/ ~q.admin /\ h = "migration_page" /\ q.handler = "target_detail"

\* Every link, form and button of a page leads, for the person it is shown to, to
\* a handler that admits the call, on the gateway and on the core, and the page
\* marks an entry of its own navigation; save for what Broken lists.
OffersAdmitted ==
    [][\A r \in Slots :
          LET q == request'[r] IN
          Ends(r, "ok") /\ q.handler \in PageHandlers =>
              /\ \A call \in Offers(q) : Admitted(q, call) \/ Broken(q, call)
              /\ ActiveRoute(q.handler) \subseteq Nav(q.admin)]_vars

\* Only a request that was an administrator's when it was authenticated, and bore
\* its session's token, changes a table.  The lists of targets, of channels and of
\* reports hold a member's own only, and a row he names is read, and anything about
\* it (its state, results, reports, incidents, attachments) only after it, if it is
\* his.  Not scoped by owner, against FR-RBAC-04, and not claimed: the counts of the
\* dashboard, the lists of incidents and of windows, the other end of an attachment.
MembersConfined ==
    [][/\ tables' # tables =>
             \E r \in Slots : /\ request'[r].todo # request[r].todo
                              /\ request[r].admin /\ request[r].ask.token
       /\ \A r \in Slots :
             LET q == request[r]
                 after == request'[r].seen
             IN ~q.admin =>
                 /\ \A x \in (after.targets \ q.seen.targets)
                              \cup (after.channels \ q.seen.channels) :
                       row[x].owner = q.ask.user
                 /\ Query(r) /\ HandlerOf(CoreRoutes, Head(q.calls)) \in RowReads
                       => q.subject \in q.seen.targets \cup q.seen.channels]_vars
=============================================================================
