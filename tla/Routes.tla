------------------------------- MODULE Routes -------------------------------
(***************************************************************************)
(* How a request finds its handler in the gateway, and how the gateway     *)
(* calls the core.                                                         *)
(*                                                                         *)
(* A path is the sequence of its segments, without the query; an id is a   *)
(* segment.  Method and path together are a call, and a worker is its      *)
(* set of <<call pattern, handler>>.                                       *)
(***************************************************************************)
EXTENDS Naturals, Sequences, FiniteSets

Get(path) == [method |-> "GET", path |-> path]
Post(path) == [method |-> "POST", path |-> path]
Put(path) == [method |-> "PUT", path |-> path]
Del(path) == [method |-> "DELETE", path |-> path]

\* Segments that stand for any segment.  The router takes the whole of
\* ":id.csv" for the name of a parameter.
Params == {":id", ":channel_id", ":id.csv", ":email"}

Fits(pattern, path) ==
    /\ Len(pattern) = Len(path)
    /\ \A k \in DOMAIN path : pattern[k] \in Params \/ pattern[k] = path[k]

Fixed(route) == Cardinality({k \in DOMAIN route[1].path : route[1].path[k] \notin Params})

Lost == <<Get(<<>>), "none">>

\* The route that fits with the fewest parameters.
Routed(routes, call) ==
    LET fit == {r \in routes : r[1].method = call.method /\ Fits(r[1].path, call.path)}
    IN IF fit = {} THEN Lost
       ELSE CHOOSE r \in fit : \A s \in fit : Fixed(s) <= Fixed(r)

HandlerOf(routes, call) == Routed(routes, call)[2]

\* The handler finds the parameters it unwraps under the names of the route.
NamesId(routes, call) ==
    LET path == Routed(routes, call)[1].path
    IN (\E k \in DOMAIN path : path[k] \in Params) => \E k \in DOMAIN path : path[k] = ":id"

Id(routes, call) ==
    LET path == Routed(routes, call)[1].path
    IN call.path[CHOOSE k \in DOMAIN path : path[k] = ":id"]

----------------------------------------------------------------------------
GatewayRoutes == {
    <<Get(<<"healthz">>), "healthz">>,
    <<Get(<<"auth", "login">>), "auth_login">>,
    <<Get(<<"auth", "callback">>), "auth_callback">>,
    <<Post(<<"auth", "logout">>), "auth_logout">>,
    <<Get(<<"auth", "logout">>), "auth_logout">>,
    <<Get(<<>>), "dashboard">>,
    <<Get(<<"targets">>), "targets_list">>,
    <<Get(<<"targets", ":id">>), "target_detail">>,
    <<Post(<<"api", "targets">>), "create_target">>,
    <<Put(<<"api", "targets", ":id">>), "update_target">>,
    <<Del(<<"api", "targets", ":id">>), "delete_target">>,
    <<Get(<<"api", "targets", ":id", "results">>), "target_results">>,
    <<Post(<<"api", "targets", ":id", "channels">>), "attach_channel">>,
    <<Del(<<"api", "targets", ":id", "channels", ":channel_id">>), "detach_channel">>,
    <<Get(<<"incidents">>), "incidents_list">>,
    <<Post(<<"api", "incidents", ":id", "resolve">>), "resolve_incident">>,
    <<Get(<<"maintenance">>), "maintenance_list">>,
    <<Post(<<"maintenance">>), "create_maintenance_form">>,
    <<Post(<<"api", "maintenance">>), "create_maintenance">>,
    <<Get(<<"channels">>), "channels_list">>,
    <<Get(<<"channels", ":id">>), "channel_detail">>,
    <<Post(<<"api", "channels">>), "create_channel">>,
    <<Put(<<"api", "channels", ":id">>), "update_channel">>,
    <<Del(<<"api", "channels", ":id">>), "delete_channel">>,
    <<Post(<<"api", "channels", ":id", "test">>), "test_channel">>,
    <<Get(<<"stats">>), "stats_page">>,
    <<Get(<<"stats", ":id">>), "stats_detail">>,
    <<Get(<<"api", "stats", "sla">>), "stats_json">>,
    <<Get(<<"api", "stats", "sla.csv">>), "stats_csv">>,
    <<Get(<<"api", "stats", "incidents", ":id.csv">>), "incidents_csv">>,
    <<Get(<<"audit">>), "audit_log">>,
    <<Get(<<"api", "admin", "audit", "verify">>), "audit_verify">>,
    <<Get(<<"me", "security">>), "me_security">>,
    <<Post(<<"api", "me", "sessions", "revoke-others">>), "me_revoke_others">>,
    <<Get(<<"settings">>), "settings">>,
    <<Post(<<"api", "settings", "users">>), "manage_users">>,
    <<Get(<<"admin", "migration">>), "migration_page">>,
    <<Get(<<"api", "admin", "migration", "export">>), "migration_export">>,
    <<Post(<<"api", "admin", "migration", "import">>), "migration_import">>}

CoreRoutes == {
    <<Get(<<"healthz">>), "healthz">>,
    <<Get(<<"users", "lookup", ":email">>), "users::lookup">>,
    <<Post(<<"users", "resolve-identity">>), "users::resolve_identity">>,
    <<Get(<<"targets">>), "targets::list">>,
    <<Get(<<"targets", "summary">>), "targets::summary">>,
    <<Get(<<"targets", "states">>), "targets::states">>,
    <<Get(<<"targets", ":id">>), "targets::get">>,
    <<Post(<<"targets">>), "targets::create">>,
    <<Put(<<"targets", ":id">>), "targets::update">>,
    <<Del(<<"targets", ":id">>), "targets::delete">>,
    <<Get(<<"targets", ":id", "state">>), "targets::state_for">>,
    <<Get(<<"targets", ":id", "results">>), "targets::results">>,
    <<Get(<<"targets", ":id", "channels">>), "channels::list_for_target">>,
    <<Post(<<"targets", ":id", "channels">>), "channels::attach">>,
    <<Del(<<"targets", ":id", "channels", ":channel_id">>), "channels::detach">>,
    <<Get(<<"targets", ":id", "sla">>), "stats::target_sla">>,
    <<Get(<<"targets", ":id", "sla", "multi">>), "stats::target_sla_multi">>,
    <<Get(<<"targets", ":id", "incidents">>), "incidents::list_for_target_in_window">>,
    <<Get(<<"incidents">>), "incidents::list">>,
    <<Post(<<"incidents", ":id", "resolve">>), "incidents::resolve">>,
    <<Get(<<"maintenance">>), "maintenance::list">>,
    <<Post(<<"maintenance">>), "maintenance::create">>,
    <<Get(<<"channels">>), "channels::list">>,
    <<Post(<<"channels">>), "channels::create">>,
    <<Get(<<"channels", ":id">>), "channels::get">>,
    <<Put(<<"channels", ":id">>), "channels::update">>,
    <<Del(<<"channels", ":id">>), "channels::delete">>,
    <<Post(<<"channels", ":id", "test">>), "channels::send_test">>,
    <<Get(<<"channels", ":id", "targets">>), "channels::list_targets_for">>,
    <<Get(<<"stats", "sla">>), "stats::aggregate_sla">>,
    <<Get(<<"audit">>), "audit::list">>,
    <<Get(<<"audit", "verify">>), "audit::verify">>,
    <<Get(<<"audit", "login-history">>), "audit::login_history">>,
    <<Post(<<"audit", "login">>), "audit::record_login">>,
    <<Get(<<"users">>), "users::list">>,
    <<Post(<<"users">>), "users::upsert">>,
    <<Get(<<"admin", "migration", "export">>), "migration::export">>,
    <<Post(<<"admin", "migration", "import">>), "migration::import">>}

----------------------------------------------------------------------------
(* core_client.rs: the calls of the gateway, by the names of its functions. *)

TargetCalls(t) ==
    [list_targets |-> Get(<<"targets">>), get_target |-> Get(<<"targets", t>>),
     create_target |-> Post(<<"targets">>), update_target |-> Put(<<"targets", t>>),
     delete_target |-> Del(<<"targets", t>>),
     status_summary |-> Get(<<"targets", "summary">>),
     list_states |-> Get(<<"targets", "states">>),
     get_state |-> Get(<<"targets", t, "state">>),
     list_results |-> Get(<<"targets", t, "results">>)]

IncidentCalls(i) ==
    [list_incidents |-> Get(<<"incidents">>),
     resolve_incident |-> Post(<<"incidents", i, "resolve">>)]

WindowCalls ==
    [list_maintenance |-> Get(<<"maintenance">>),
     create_maintenance |-> Post(<<"maintenance">>)]

AuditCalls ==
    [list_audit |-> Get(<<"audit">>), verify_audit_chain |-> Get(<<"audit", "verify">>),
     login_history |-> Get(<<"audit", "login-history">>)]

UserCalls == [list_users |-> Get(<<"users">>), upsert_user |-> Post(<<"users">>)]

ChannelCalls(c) ==
    [list_channels |-> Get(<<"channels">>), get_channel |-> Get(<<"channels", c>>),
     create_channel |-> Post(<<"channels">>), update_channel |-> Put(<<"channels", c>>),
     delete_channel |-> Del(<<"channels", c>>),
     test_channel |-> Post(<<"channels", c, "test">>),
     list_targets_for_channel |-> Get(<<"channels", c, "targets">>)]

AttachmentCalls(t, c) ==
    [list_channels_for_target |-> Get(<<"targets", t, "channels">>),
     attach_channel |-> Post(<<"targets", t, "channels">>),
     detach_channel |-> Del(<<"targets", t, "channels", c>>)]

SlaCalls(t) ==
    [get_target_sla |-> Get(<<"targets", t, "sla">>),
     get_target_sla_multi |-> Get(<<"targets", t, "sla", "multi">>),
     get_aggregate_sla |-> Get(<<"stats", "sla">>),
     list_target_incidents_in_window |-> Get(<<"targets", t, "incidents">>)]

MigrationCalls ==
    [export_migration |-> Get(<<"admin", "migration", "export">>),
     import_migration |-> Post(<<"admin", "migration", "import">>)]

----------------------------------------------------------------------------
\* Handlers that verify a CSRF token: all that change something.
NeedsToken == {"create_target", "update_target", "delete_target", "attach_channel",
    "detach_channel", "resolve_incident", "create_maintenance_form", "create_maintenance",
    "create_channel", "update_channel", "delete_channel", "test_channel",
    "me_revoke_others", "manage_users", "migration_import"}

\* Handlers with require_admin: those but one, and the administrators' pages.
AdminOnly == (NeedsToken \ {"me_revoke_others"})
    \cup {"audit_log", "audit_verify", "settings", "migration_page", "migration_export"}

\* require_admin of the core.
CoreAdminOnly == {"targets::create", "targets::update", "targets::delete",
    "channels::create", "channels::update", "channels::delete", "channels::attach",
    "channels::detach", "channels::send_test", "maintenance::create",
    "incidents::resolve", "users::list", "users::upsert", "audit::list",
    "audit::verify", "migration::export", "migration::import"}

----------------------------------------------------------------------------
(* What each page and file is made from: the calls of its handler, in order. *)

DashboardCalls == <<TargetCalls("").status_summary, IncidentCalls("").list_incidents>>
TargetsListCalls == <<TargetCalls("").list_targets, TargetCalls("").list_states>>

Tabs == {"overview", "results", "channels", "settings"}

\* Only what the open tab needs.
TargetDetailCalls(t, tab, admin) ==
    <<TargetCalls(t).get_target, TargetCalls(t).get_state>>
        \o (IF tab = "results" THEN <<TargetCalls(t).list_results>> ELSE <<>>)
        \o (IF tab = "channels" THEN <<AttachmentCalls(t, "").list_channels_for_target>>
            ELSE <<>>)
        \o (IF tab = "channels" /\ admin THEN <<ChannelCalls("").list_channels>> ELSE <<>>)

TargetResultsCalls(t) == <<TargetCalls(t).get_target, TargetCalls(t).list_results>>
IncidentsListCalls == <<IncidentCalls("").list_incidents>>
MaintenanceListCalls == <<WindowCalls.list_maintenance>>
ChannelsListCalls == <<ChannelCalls("").list_channels>>

ChannelDetailCalls(c, admin) ==
    <<ChannelCalls(c).get_channel>>
        \o (IF admin THEN <<ChannelCalls(c).list_targets_for_channel>> ELSE <<>>)

\* The page, its JSON and its CSV form.
StatsPageCalls == <<SlaCalls("").get_aggregate_sla>>

StatsDetailCalls(t) ==
    <<TargetCalls(t).get_target, SlaCalls(t).get_target_sla,
      SlaCalls(t).get_target_sla_multi, SlaCalls(t).list_target_incidents_in_window>>

IncidentsCsvCalls(t) ==
    <<TargetCalls(t).get_target, SlaCalls(t).list_target_incidents_in_window>>

AuditLogCalls == <<AuditCalls.list_audit>>
AuditVerifyCalls == <<AuditCalls.verify_audit_chain>>
MeSecurityCalls == <<AuditCalls.login_history>>
SettingsCalls == <<UserCalls.list_users>>
=============================================================================
