------------------------------- MODULE Pages -------------------------------
(***************************************************************************)
(* What the gateway's pages offer: for each function of gateway/src/ui the *)
(* set of calls its links, forms and scripts make when they are used.      *)
(* Queries, wording and layout are left out.                               *)
(*                                                                         *)
(* `s` is what the page's handler has read:                                *)
(*   targets, channels   the rows listed,                                  *)
(*   enabled             the channels enabled, of those read,              *)
(*   attached            the rows joined to the one the page is about,     *)
(*   incidents           records [id, target, open],                       *)
(*   others              whether the viewer has other sessions.            *)
(***************************************************************************)
EXTENDS Routes

Link(segments) == Get(segments)

----------------------------------------------------------------------------
(* layout.rs *)

Observe == {Link(<<>>), Link(<<"incidents">>), Link(<<"stats">>)}
Operate == {Link(<<"targets">>), Link(<<"channels">>), Link(<<"maintenance">>)}
Verify == {Link(<<"audit">>), Link(<<"settings">>), Link(<<"admin", "migration">>)}

NavSlip(admin) == Observe \cup Operate \cup Verify

Nav(admin) == Observe \cup Operate \cup (IF admin THEN Verify ELSE {})

UserInfo == {Link(<<"me", "security">>), Link(<<"auth", "logout">>)}

Wrap(admin, content) == {Link(<<>>)} \cup Nav(admin) \cup UserInfo \cup content

\* The entry of the navigation a page is marked under; its own title decides.
ActiveRoute(handler) ==
    CASE handler = "dashboard" -> {Link(<<>>)}
      [] handler \in {"targets_list", "target_detail"} -> {Link(<<"targets">>)}
      [] handler = "incidents_list" -> {Link(<<"incidents">>)}
      [] handler = "maintenance_list" -> {Link(<<"maintenance">>)}
      [] handler \in {"channels_list", "channel_detail"} -> {Link(<<"channels">>)}
      [] handler \in {"stats_page", "stats_detail"} -> {Link(<<"stats">>)}
      [] handler = "audit_log" -> {Link(<<"audit">>)}
      [] handler = "settings" -> {Link(<<"settings">>)}
      [] handler = "migration_page" -> {Link(<<"admin", "migration">>)}
      [] OTHER -> {}

----------------------------------------------------------------------------
(* dashboard.rs *)

SelectOpen(incidents) == {i \in incidents : i.open}

TargetLink(t) == Link(<<"targets", t>>)

OpenIncidentsCard(open) ==
    {TargetLink(i.target) : i \in open}
        \cup (IF open = {} THEN {} ELSE {Link(<<"incidents">>)})

Dashboard(s) == OpenIncidentsCard(SelectOpen(s.incidents))

----------------------------------------------------------------------------
(* targets.rs and the attachments of channels.rs *)

TargetsList(s, admin) ==
    {TargetLink(t) : t \in s.targets}
        \cup (IF admin THEN {Link(<<"admin", "migration">>)} ELSE {})

\* One link for each tab; they differ in the query.
TabStrip(t) == {TargetLink(t)}

ChannelsPlaceholder == {Link(<<"channels">>)}

\* Shown to whoever may see the target.
SettingsTab == {Link(<<"admin", "migration">>)}

AttachScript(t, c) ==
    [attach |-> Post(<<"api", "targets", t, "channels">>),
     detach |-> Del(<<"api", "targets", t, "channels", c>>)]

\* The form leaves out what is attached already.
AttachForm(t, s) ==
    IF s.channels \ s.attached = {} THEN {} ELSE {AttachScript(t, "").attach}

TargetAttachments(t, s, admin) ==
    IF ~admin THEN {}
    ELSE {AttachScript(t, c).detach : c \in s.attached} \cup AttachForm(t, s)

TargetDetail(t, tab, s, admin) ==
    TabStrip(t)
        \cup (IF tab = "channels"
              THEN ChannelsPlaceholder \cup TargetAttachments(t, s, admin) ELSE {})
        \cup (IF tab = "settings" THEN SettingsTab ELSE {})

----------------------------------------------------------------------------
(* channels.rs *)

ManagementScript(c) ==
    [create |-> Post(<<"api", "channels">>), toggle |-> Put(<<"api", "channels", c>>),
     delete |-> Del(<<"api", "channels", c>>),
     test |-> Post(<<"api", "channels", c, "test">>)]

CreateForm == {ManagementScript("").create}

\* The test button of a disabled channel is disabled.
RowActions(c, s) ==
    {ManagementScript(c).toggle, ManagementScript(c).delete}
        \cup (IF c \in s.enabled THEN {ManagementScript(c).test} ELSE {})

ChannelsList(s, admin) ==
    {Link(<<"channels", c>>) : c \in s.channels}
        \cup (IF admin THEN CreateForm \cup UNION {RowActions(c, s) : c \in s.channels}
              ELSE {})

DetailScript(c) ==
    [save |-> Put(<<"api", "channels", c>>), delete |-> Del(<<"api", "channels", c>>),
     test |-> Post(<<"api", "channels", c, "test">>)]

EditForm(c) == {DetailScript(c).save, Link(<<"channels">>)}

DetailActions(c, s) ==
    {DetailScript(c).delete}
        \cup (IF c \in s.enabled THEN {DetailScript(c).test} ELSE {})

AttachedTargets(s) == {TargetLink(t) : t \in s.attached}

ChannelDetail(c, s, admin) ==
    AttachedTargets(s) \cup (IF admin THEN EditForm(c) \cup DetailActions(c, s) ELSE {})

----------------------------------------------------------------------------
(* incidents.rs, maintenance.rs *)

ResolveScript(i) == Post(<<"api", "incidents", i, "resolve">>)

IncidentsTable(incidents, showResolveButton) ==
    {TargetLink(i.target) : i \in incidents}
        \cup (IF showResolveButton THEN {ResolveScript(i.id) : i \in incidents} ELSE {})

PartitionIncidents(incidents) ==
    <<{i \in incidents : i.open}, {i \in incidents : ~i.open}>>

\* Every open incident has its button, whoever looks at the page.
IncidentsList(s) ==
    IncidentsTable(PartitionIncidents(s.incidents)[1], TRUE)
        \cup IncidentsTable(PartitionIncidents(s.incidents)[2], FALSE)

WindowForm == {Post(<<"maintenance">>)}

MaintenanceList(admin) == IF admin THEN WindowForm ELSE {}

----------------------------------------------------------------------------
(* stats.rs *)

IncidentsCsvLink(t) == Link(<<"api", "stats", "incidents", t \o ".csv">>)

PerTargetTable(s) ==
    {Link(<<"stats", t>>) : t \in s.targets} \cup {IncidentsCsvLink(t) : t \in s.targets}

StatsPage(s) == {Link(<<"stats">>), Link(<<"api", "stats", "sla.csv">>)} \cup PerTargetTable(s)

StatsDetail(t) == {TargetLink(t), Link(<<"stats", t>>), IncidentsCsvLink(t)}

----------------------------------------------------------------------------
(* audit.rs, me.rs, settings.rs, migration.rs *)

AuditIntro == {Link(<<"me", "security">>)}

MeScript == [revoke |-> Post(<<"api", "me", "sessions", "revoke-others">>),
             verify |-> Get(<<"api", "admin", "audit", "verify">>)]

RevokeOthers(s) == IF s.others THEN {MeScript.revoke} ELSE {}

MeSecurity(s, admin) ==
    {Link(<<"auth", "logout">>)} \cup RevokeOthers(s)
        \cup (IF admin THEN {MeScript.verify} ELSE {})

SettingsScript == Post(<<"api", "settings", "users">>)

Settings == {SettingsScript, Link(<<"admin", "migration">>)}

MigrationScript == [export |-> Get(<<"api", "admin", "migration", "export">>),
                    import |-> Post(<<"api", "admin", "migration", "import">>)]

MigrationPage(admin) ==
    IF admin THEN {MigrationScript.export, MigrationScript.import} ELSE {}

----------------------------------------------------------------------------
PageHandlers == {"dashboard", "targets_list", "target_detail", "incidents_list",
    "maintenance_list", "channels_list", "channel_detail", "stats_page", "stats_detail",
    "audit_log", "me_security", "settings", "migration_page"}

\* The page of a handler, about `id` where its path names one.
Content(handler, id, tab, s, admin) ==
    CASE handler = "dashboard" -> Dashboard(s)
      [] handler = "targets_list" -> TargetsList(s, admin)
      [] handler = "target_detail" -> TargetDetail(id, tab, s, admin)
      [] handler = "incidents_list" -> IncidentsList(s)
      [] handler = "maintenance_list" -> MaintenanceList(admin)
      [] handler = "channels_list" -> ChannelsList(s, admin)
      [] handler = "channel_detail" -> ChannelDetail(id, s, admin)
      [] handler = "stats_page" -> StatsPage(s)
      [] handler = "stats_detail" -> StatsDetail(id)
      [] handler = "audit_log" -> AuditIntro
      [] handler = "me_security" -> MeSecurity(s, admin)
      [] handler = "settings" -> Settings
      [] handler = "migration_page" -> MigrationPage(admin)

\* The calls each handler makes to fill its page or its file.
HandlerCalls(handler, id, tab, admin) ==
    CASE handler = "dashboard" -> DashboardCalls
      [] handler = "targets_list" -> TargetsListCalls
      [] handler = "target_detail" -> TargetDetailCalls(id, tab, admin)
      [] handler = "target_results" -> TargetResultsCalls(id)
      [] handler = "incidents_list" -> IncidentsListCalls
      [] handler = "maintenance_list" -> MaintenanceListCalls
      [] handler = "channels_list" -> ChannelsListCalls
      [] handler = "channel_detail" -> ChannelDetailCalls(id, admin)
      [] handler \in {"stats_page", "stats_json", "stats_csv"} -> StatsPageCalls
      [] handler = "stats_detail" -> StatsDetailCalls(id)
      [] handler = "incidents_csv" -> IncidentsCsvCalls(id)
      [] handler = "audit_log" -> AuditLogCalls
      [] handler = "audit_verify" -> AuditVerifyCalls
      [] handler = "me_security" -> MeSecurityCalls
      [] handler = "settings" -> SettingsCalls
      [] OTHER -> <<>>
=============================================================================
