--------------------------- MODULE ConsoleProofs ---------------------------
(***************************************************************************)
(* Requests of signed-in people, for any number of them at a time, any     *)
(* rows and any requests of the right kinds: what their statements, taken  *)
(* in any order, leave in the tables, write to the audit log and show.     *)
(***************************************************************************)
EXTENDS Console, FiniteSetTheorems, NaturalsInduction, WellFoundedInduction, TLAPS

-----------------------------------------------------------------------------
(* The router.                                                             *)

\* A route's path is numbered from one.
LEMMA CorePaths ==
    ASSUME NEW route \in CoreRoutes
    PROVE  Len(route[1].path) \in Nat /\ DOMAIN route[1].path = 1..Len(route[1].path)
BY SMTT(60) DEF CoreRoutes, Get, Post, Put, Del

\* So is a path of the gateway.
LEMMA GatewayPaths ==
    ASSUME NEW route \in GatewayRoutes
    PROVE  Len(route[1].path) \in Nat /\ DOMAIN route[1].path = 1..Len(route[1].path)
BY SMTT(60) DEF GatewayRoutes, Get, Post, Put, Del

\* Of numbers up to a bound one is the greatest.
LEMMA GreatestNumber ==
    ASSUME NEW n \in Nat, NEW S \in SUBSET (0..n), S # {}
    PROVE  \E m \in S : \A k \in S : k <= m
<1> DEFINE R == {n - k : k \in S}
<1>1. R \in SUBSET Nat /\ R # {}
  <2>1. ASSUME NEW k \in S PROVE n - k \in Nat
    <3>1. k \in Nat /\ k <= n
      OBVIOUS
    <3> QED BY <3>1
  <2> QED BY <2>1
<1>2. PICK least \in R : \A k \in R : ~(<<k, least>> \in OpToRel(<, Nat))
  <2> HIDE DEF R
  <2> QED BY <1>1, NatLessThanWellFounded, WFMin
<1>3. \A k \in R : ~(k < least)
  BY <1>1, <1>2 DEF OpToRel
<1>4. PICK m \in S : least = n - m
  OBVIOUS
<1>5. ASSUME NEW k \in S PROVE k <= m
  <2>1. n - k \in R
    OBVIOUS
  <2>2. ~(n - k < n - m)
    BY <1>3, <1>4, <2>1
  <2> QED BY <2>2
<1> QED BY <1>5

\* The router finds a route that fits the call, or none: among those that fit
\* there is one with the fewest parameters.
LEMMA RoutedIn ==
    ASSUME NEW routes, NEW call,
           \A route \in routes : /\ Len(route[1].path) \in Nat
                                 /\ DOMAIN route[1].path = 1..Len(route[1].path)
    PROVE  \/ Routed(routes, call) = Lost
           \/ /\ Routed(routes, call) \in routes
              /\ Routed(routes, call)[1].method = call.method
              /\ Fits(Routed(routes, call)[1].path, call.path)
<1> DEFINE fit == {r \in routes : r[1].method = call.method /\ Fits(r[1].path, call.path)}
<1>1. CASE fit = {}
  BY <1>1 DEF Routed
<1>2. CASE fit # {}
  <2> DEFINE n == Len(call.path)
             S == {Fixed(r) : r \in fit}
  <2>1. \A r \in fit : Len(r[1].path) = n /\ DOMAIN r[1].path = 1..n /\ n \in Nat
    BY DEF Fits
  <2>2. n \in Nat
    BY <1>2, <2>1
  <2>3. ASSUME NEW r \in fit PROVE Fixed(r) \in 0..n
    <3> DEFINE K == {k \in DOMAIN r[1].path : r[1].path[k] \notin Params}
    <3>0. DOMAIN r[1].path = 1..n
      BY <2>1
    <3>1. K \subseteq 1..n
      BY <3>0
    <3>2. IsFiniteSet(1..n) /\ Cardinality(1..n) = n
      <4> HIDE DEF K, n
      <4>1. 1 \in Int /\ n \in Int
        BY <2>2
      <4>2. IsFiniteSet(1..n) /\ Cardinality(1..n) = IF 1 > n THEN 0 ELSE n - 1 + 1
        BY <4>1, FS_Interval, ZenonT(30)
      <4> QED BY <2>2, <4>2
    <3>3. Cardinality(K) <= n /\ IsFiniteSet(K)
      <4> HIDE DEF K, n
      <4>1. K \in SUBSET (1..n)
        BY <3>1
      <4>2. IsFiniteSet(K) /\ Cardinality(K) <= Cardinality(1..n)
        BY <3>2, <4>1, FS_Subset, Zenon
      <4> QED BY <3>2, <4>2
    <3>4. Cardinality(K) \in Nat
      <4> HIDE DEF K
      <4> QED BY <3>3, FS_CardinalityType
    <3>5. Fixed(r) = Cardinality(K)
      BY DEF Fixed
    <3> HIDE DEF K, n
    <3> QED BY <2>2, <3>3, <3>4, <3>5
  <2>4. PICK m \in S : \A k \in S : k <= m
    <3>1. S \in SUBSET (0..n) /\ S # {}
      BY <1>2, <2>3
    <3> HIDE DEF S, n
    <3> QED BY <2>2, <3>1, GreatestNumber
  <2>5. \E r \in fit : \A s \in fit : Fixed(s) <= Fixed(r)
    BY <2>4
  <2>6. Routed(routes, call) = CHOOSE r \in fit : \A s \in fit : Fixed(s) <= Fixed(r)
    BY <1>2 DEF Routed
  <2> HIDE DEF fit
  <2>7. Routed(routes, call) \in fit
    BY <2>5, <2>6
  <2> QED BY <2>7 DEF fit
<1> QED BY <1>1, <1>2

\* The core's handler of a call is that of a route the call fits.
LEMMA CoreRouted ==
    ASSUME NEW call
    PROVE  \/ HandlerOf(CoreRoutes, call) = "none"
           \/ \E route \in CoreRoutes : /\ route[1].method = call.method
                                       /\ Fits(route[1].path, call.path)
                                       /\ HandlerOf(CoreRoutes, call) = route[2]
<1>1. \/ Routed(CoreRoutes, call) = Lost
      \/ /\ Routed(CoreRoutes, call) \in CoreRoutes
         /\ Routed(CoreRoutes, call)[1].method = call.method
         /\ Fits(Routed(CoreRoutes, call)[1].path, call.path)
  BY CorePaths, RoutedIn
<1>2. CASE Routed(CoreRoutes, call) = Lost
  BY <1>2 DEF HandlerOf, Lost
<1> QED BY <1>1, <1>2 DEF HandlerOf

\* A request to create names its row by the id it brings.
LEMMA NewSubject ==
    ASSUME NEW a, HandlerOf(GatewayRoutes, a.call) \in CreateHandlers
    PROVE  Subject(a) = a.new
<1> DEFINE route == Routed(GatewayRoutes, a.call)
<1>1. route = Lost \/ route \in GatewayRoutes
  BY GatewayPaths, RoutedIn
<1>2. route[2] \in CreateHandlers
  BY DEF HandlerOf
<1>3. route # Lost
  BY <1>2 DEF Lost, CreateHandlers
<1>4. ASSUME NEW found \in GatewayRoutes, found[2] \in CreateHandlers
      PROVE  \A k \in DOMAIN found[1].path : found[1].path[k] # ":id"
  BY <1>4, SMTT(60) DEF GatewayRoutes, CreateHandlers, Get, Post, Put, Del
<1> HIDE DEF route
<1>5. \A k \in DOMAIN route[1].path : route[1].path[k] # ":id"
  BY <1>1, <1>2, <1>3, <1>4
<1> QED BY <1>5 DEF Subject, route
-----------------------------------------------------------------------------
(* What a request of the gateway has the core do.                          *)

\* The handler of the core that performs each change.
Performed ==
    {<<"create_target", "targets::create">>, <<"update_target", "targets::update">>,
     <<"delete_target", "targets::delete">>, <<"attach_channel", "channels::attach">>,
     <<"detach_channel", "channels::detach">>, <<"create_channel", "channels::create">>,
     <<"update_channel", "channels::update">>, <<"delete_channel", "channels::delete">>,
     <<"test_channel", "channels::send_test">>, <<"resolve_incident", "incidents::resolve">>,
     <<"create_maintenance", "maintenance::create">>,
     <<"create_maintenance_form", "maintenance::create">>,
     <<"manage_users", "users::upsert">>, <<"migration_export", "migration::export">>,
     <<"migration_import", "migration::import">>}

\* The one call of a change reaches the handler that performs it, or none.
LEMMA ChangeRouted ==
    ASSUME NEW h \in Changes, NEW id, NEW c
    PROVE  \/ HandlerOf(CoreRoutes, ChangeCall(h, id, c)) = "none"
           \/ <<h, HandlerOf(CoreRoutes, ChangeCall(h, id, c))>> \in Performed
<1> DEFINE call == ChangeCall(h, id, c)
<1> USE DEF ChangeCall, Changes, NeedsToken, TargetChanges, AttachmentChanges, ChannelChanges,
            TestChange, ResolveChange, WindowChange, WindowFormChange, UserChange,
            MigrationChanges, TargetCalls, AttachmentCalls, ChannelCalls, IncidentCalls,
            WindowCalls, UserCalls, MigrationCalls, Get, Post, Put, Del
<1>1. ASSUME h = "create_target"
      PROVE  call = [method |-> "POST", path |-> <<"targets">>]
  BY <1>1
<1>2. ASSUME h = "update_target"
      PROVE  call = [method |-> "PUT", path |-> <<"targets", id>>]
  BY <1>2
<1>3. ASSUME h = "delete_target"
      PROVE  call = [method |-> "DELETE", path |-> <<"targets", id>>]
  BY <1>3
<1>4. ASSUME h = "attach_channel"
      PROVE  call = [method |-> "POST", path |-> <<"targets", id, "channels">>]
  BY <1>4
<1>5. ASSUME h = "detach_channel"
      PROVE  call = [method |-> "DELETE", path |-> <<"targets", id, "channels", c>>]
  BY <1>5
<1>6. ASSUME h = "create_channel"
      PROVE  call = [method |-> "POST", path |-> <<"channels">>]
  BY <1>6
<1>7. ASSUME h = "update_channel"
      PROVE  call = [method |-> "PUT", path |-> <<"channels", id>>]
  BY <1>7
<1>8. ASSUME h = "delete_channel"
      PROVE  call = [method |-> "DELETE", path |-> <<"channels", id>>]
  BY <1>8
<1>9. ASSUME h = "test_channel"
      PROVE  call = [method |-> "POST", path |-> <<"channels", id, "test">>]
  BY <1>9
<1>10. ASSUME h = "resolve_incident"
      PROVE  call = [method |-> "POST", path |-> <<"incidents", id, "resolve">>]
  BY <1>10
<1>11. ASSUME h = "create_maintenance"
      PROVE  call = [method |-> "POST", path |-> <<"maintenance">>]
  BY <1>11
<1>12. ASSUME h = "create_maintenance_form"
      PROVE  call = [method |-> "POST", path |-> <<"maintenance">>]
  BY <1>12
<1>13. ASSUME h = "manage_users"
      PROVE  call = [method |-> "POST", path |-> <<"users">>]
  BY <1>13
<1>14. ASSUME h = "migration_export"
      PROVE  call = [method |-> "GET", path |-> <<"admin", "migration", "export">>]
  BY <1>14
<1>15. ASSUME h = "migration_import"
      PROVE  call = [method |-> "POST", path |-> <<"admin", "migration", "import">>]
  BY <1>15
<1> HIDE DEF call
<1>16. ASSUME NEW route \in CoreRoutes, route[1].method = "POST",
             Fits(route[1].path, <<"targets">>)
      PROVE  route[2] = "targets::create"
  BY <1>16, SMTT(60) DEF CoreRoutes, Fits, Params
<1>17. ASSUME NEW route \in CoreRoutes, route[1].method = "PUT",
             Fits(route[1].path, <<"targets", id>>)
      PROVE  route[2] = "targets::update"
  BY <1>17, SMTT(60) DEF CoreRoutes, Fits, Params
<1>18. ASSUME NEW route \in CoreRoutes, route[1].method = "DELETE",
             Fits(route[1].path, <<"targets", id>>)
      PROVE  route[2] = "targets::delete"
  BY <1>18, SMTT(60) DEF CoreRoutes, Fits, Params
<1>19. ASSUME NEW route \in CoreRoutes, route[1].method = "POST",
             Fits(route[1].path, <<"targets", id, "channels">>)
      PROVE  route[2] = "channels::attach"
  BY <1>19, SMTT(60) DEF CoreRoutes, Fits, Params
<1>20. ASSUME NEW route \in CoreRoutes, route[1].method = "DELETE",
             Fits(route[1].path, <<"targets", id, "channels", c>>)
      PROVE  route[2] = "channels::detach"
  BY <1>20, SMTT(60) DEF CoreRoutes, Fits, Params
<1>21. ASSUME NEW route \in CoreRoutes, route[1].method = "POST",
             Fits(route[1].path, <<"channels">>)
      PROVE  route[2] = "channels::create"
  BY <1>21, SMTT(60) DEF CoreRoutes, Fits, Params
<1>22. ASSUME NEW route \in CoreRoutes, route[1].method = "PUT",
             Fits(route[1].path, <<"channels", id>>)
      PROVE  route[2] = "channels::update"
  BY <1>22, SMTT(60) DEF CoreRoutes, Fits, Params
<1>23. ASSUME NEW route \in CoreRoutes, route[1].method = "DELETE",
             Fits(route[1].path, <<"channels", id>>)
      PROVE  route[2] = "channels::delete"
  BY <1>23, SMTT(60) DEF CoreRoutes, Fits, Params
<1>24. ASSUME NEW route \in CoreRoutes, route[1].method = "POST",
             Fits(route[1].path, <<"channels", id, "test">>)
      PROVE  route[2] = "channels::send_test"
  BY <1>24, SMTT(60) DEF CoreRoutes, Fits, Params
<1>25. ASSUME NEW route \in CoreRoutes, route[1].method = "POST",
             Fits(route[1].path, <<"incidents", id, "resolve">>)
      PROVE  route[2] = "incidents::resolve"
  BY <1>25, SMTT(60) DEF CoreRoutes, Fits, Params
<1>26. ASSUME NEW route \in CoreRoutes, route[1].method = "POST",
             Fits(route[1].path, <<"maintenance">>)
      PROVE  route[2] = "maintenance::create"
  BY <1>26, SMTT(60) DEF CoreRoutes, Fits, Params
<1>27. ASSUME NEW route \in CoreRoutes, route[1].method = "POST",
             Fits(route[1].path, <<"maintenance">>)
      PROVE  route[2] = "maintenance::create"
  BY <1>27, SMTT(60) DEF CoreRoutes, Fits, Params
<1>28. ASSUME NEW route \in CoreRoutes, route[1].method = "POST",
             Fits(route[1].path, <<"users">>)
      PROVE  route[2] = "users::upsert"
  BY <1>28, SMTT(60) DEF CoreRoutes, Fits, Params
<1>29. ASSUME NEW route \in CoreRoutes, route[1].method = "GET",
             Fits(route[1].path, <<"admin", "migration", "export">>)
      PROVE  route[2] = "migration::export"
  BY <1>29, SMTT(60) DEF CoreRoutes, Fits, Params
<1>30. ASSUME NEW route \in CoreRoutes, route[1].method = "POST",
             Fits(route[1].path, <<"admin", "migration", "import">>)
      PROVE  route[2] = "migration::import"
  BY <1>30, SMTT(60) DEF CoreRoutes, Fits, Params
<1>31. h \in {"create_target", "update_target", "delete_target", "attach_channel", "detach_channel",
             "create_channel", "update_channel", "delete_channel", "test_channel",
             "resolve_incident", "create_maintenance", "create_maintenance_form",
             "manage_users", "migration_export", "migration_import"}
  OBVIOUS
<1>32. \/ HandlerOf(CoreRoutes, call) = "none"
       \/ \E route \in CoreRoutes : /\ route[1].method = call.method
                                   /\ Fits(route[1].path, call.path)
                                   /\ HandlerOf(CoreRoutes, call) = route[2]
  BY CoreRouted
<1>33. CASE h = "create_target"
  BY <1>1, <1>16, <1>32, <1>33 DEF Performed
<1>34. CASE h = "update_target"
  BY <1>2, <1>17, <1>32, <1>34 DEF Performed
<1>35. CASE h = "delete_target"
  BY <1>3, <1>18, <1>32, <1>35 DEF Performed
<1>36. CASE h = "attach_channel"
  BY <1>4, <1>19, <1>32, <1>36 DEF Performed
<1>37. CASE h = "detach_channel"
  BY <1>5, <1>20, <1>32, <1>37 DEF Performed
<1>38. CASE h = "create_channel"
  BY <1>6, <1>21, <1>32, <1>38 DEF Performed
<1>39. CASE h = "update_channel"
  BY <1>7, <1>22, <1>32, <1>39 DEF Performed
<1>40. CASE h = "delete_channel"
  BY <1>8, <1>23, <1>32, <1>40 DEF Performed
<1>41. CASE h = "test_channel"
  BY <1>9, <1>24, <1>32, <1>41 DEF Performed
<1>42. CASE h = "resolve_incident"
  BY <1>10, <1>25, <1>32, <1>42 DEF Performed
<1>43. CASE h = "create_maintenance"
  BY <1>11, <1>26, <1>32, <1>43 DEF Performed
<1>44. CASE h = "create_maintenance_form"
  BY <1>12, <1>27, <1>32, <1>44 DEF Performed
<1>45. CASE h = "manage_users"
  BY <1>13, <1>28, <1>32, <1>45 DEF Performed
<1>46. CASE h = "migration_export"
  BY <1>14, <1>29, <1>32, <1>46 DEF Performed
<1>47. CASE h = "migration_import"
  BY <1>15, <1>30, <1>32, <1>47 DEF Performed
<1> QED BY <1>31, <1>33, <1>34, <1>35, <1>36, <1>37, <1>38, <1>39, <1>40, <1>41, <1>42, <1>43, <1>44, <1>45, <1>46,
           <1>47 DEF call
-----------------------------------------------------------------------------
(* What a page reads.                                                      *)

\* A call that reaches a read of the core, or nothing.
IsRead(call) == HandlerOf(CoreRoutes, call) \in ReadHandlers \cup {"none"}

\* The first segments of the paths a page is read from.  Under "users" there is
\* also the look-up of who signs in.
ReadRoots == {"targets", "incidents", "maintenance", "channels", "stats", "audit"}

\* A GET under one of these reaches a read.
LEMMA PageRouted ==
    ASSUME NEW path, Len(path) \in Nat \ {0}, DOMAIN path = 1..Len(path),
           path[1] \in ReadRoots
    PROVE  IsRead(Get(path))
<1>1. ASSUME NEW route \in CoreRoutes, route[1].method = "GET", Fits(route[1].path, path)
      PROVE  route[2] \in ReadHandlers
  <2>1. route[1].path[1] \in Params \/ route[1].path[1] = path[1]
    <3>1. 1 \in DOMAIN path
      OBVIOUS
    <3> QED BY <1>1, <3>1 DEF Fits
  <2>2. Len(route[1].path) # 0
    BY <1>1 DEF Fits
  <2>3. \/ route[2] \in ReadHandlers
        \/ route[1].path = <<>> \/ route[1].method # "GET"
        \/ route[1].path[1] \notin Params \cup ReadRoots
    BY SMTT(60) DEF CoreRoutes, Get, Post, Put, Del, Params, ReadRoots, ReadHandlers,
                    TargetReads, StateReads, ChannelReads, AttachmentReads, IncidentReads,
                    WindowReads, SlaReads, AuditReads, UserReads
  <2> QED BY <1>1, <2>1, <2>2, <2>3
<1> QED BY <1>1, CoreRouted DEF IsRead, Get

\* So does the list of users.
LEMMA UsersRouted == IsRead(Get(<<"users">>))
<1>1. ASSUME NEW route \in CoreRoutes, route[1].method = "GET",
             Fits(route[1].path, <<"users">>)
      PROVE  route[2] \in ReadHandlers
  BY <1>1, SMTT(60) DEF CoreRoutes, Fits, Params, Get, Post, Put, Del, ReadHandlers, UserReads
<1> QED BY <1>1, CoreRouted DEF IsRead, Get

\* What the pages about a row, and those about none, are read from.
TargetPaths(id) ==
    {<<"targets">>, <<"targets", "summary">>, <<"targets", "states">>, <<"targets", id>>,
     <<"targets", id, "state">>, <<"targets", id, "results">>, <<"targets", id, "channels">>,
     <<"targets", id, "sla">>, <<"targets", id, "sla", "multi">>,
     <<"targets", id, "incidents">>}

\* Of the pages about a channel or about none.
OtherPaths(id) ==
    {<<"incidents">>, <<"maintenance">>, <<"channels">>, <<"channels", id>>,
     <<"channels", id, "targets">>, <<"stats", "sla">>, <<"audit">>, <<"audit", "verify">>,
     <<"audit", "login-history">>}

\* All the calls of pages about an id.
PageCalls(id) ==
    {Get(path) : path \in TargetPaths(id) \cup OtherPaths(id)} \cup {Get(<<"users">>)}

\* They are reads.
LEMMA PageCallsRead ==
    ASSUME NEW id, NEW call \in PageCalls(id)
    PROVE  IsRead(call)
<1>1. ASSUME NEW path \in TargetPaths(id)
      PROVE  Len(path) \in Nat \ {0} /\ DOMAIN path = 1..Len(path) /\ path[1] \in ReadRoots
  BY DEF TargetPaths, ReadRoots
<1>2. ASSUME NEW path \in OtherPaths(id)
      PROVE  Len(path) \in Nat \ {0} /\ DOMAIN path = 1..Len(path) /\ path[1] \in ReadRoots
  BY DEF OtherPaths, ReadRoots
<1> QED BY <1>1, <1>2, PageRouted, UsersRouted DEF PageCalls

\* And they are all that a handler without a change calls.
LEMMA PageCallsListed ==
    ASSUME NEW h, NEW id, NEW tab, NEW admin
    PROVE  HandlerCalls(h, id, tab, admin) \in Seq(PageCalls(id))
<1> USE DEF PageCalls, TargetPaths, OtherPaths, Get, Post, Put, Del, TargetCalls, IncidentCalls,
            WindowCalls, AuditCalls, UserCalls, ChannelCalls, AttachmentCalls, SlaCalls
<1>1. /\ DashboardCalls \in Seq(PageCalls(id))
      /\ TargetsListCalls \in Seq(PageCalls(id))
      /\ TargetResultsCalls(id) \in Seq(PageCalls(id))
  BY DEF DashboardCalls, TargetsListCalls, TargetResultsCalls
<1>2. TargetDetailCalls(id, tab, admin) \in Seq(PageCalls(id))
  <2>1. /\ <<TargetCalls(id).get_target, TargetCalls(id).get_state>> \in Seq(PageCalls(id))
        /\ <<TargetCalls(id).list_results>> \in Seq(PageCalls(id))
        /\ <<AttachmentCalls(id, "").list_channels_for_target>> \in Seq(PageCalls(id))
        /\ <<ChannelCalls("").list_channels>> \in Seq(PageCalls(id))
        /\ <<>> \in Seq(PageCalls(id))
    OBVIOUS
  <2> DEFINE S == Seq(PageCalls(id))
             results == IF tab = "results" THEN <<TargetCalls(id).list_results>> ELSE <<>>
             attached == IF tab = "channels"
                         THEN <<AttachmentCalls(id, "").list_channels_for_target>> ELSE <<>>
             channels == IF tab = "channels" /\ admin
                         THEN <<ChannelCalls("").list_channels>> ELSE <<>>
  <2>2. results \in S /\ attached \in S /\ channels \in S
    BY <2>1
  <2>3. TargetDetailCalls(id, tab, admin)
            = <<TargetCalls(id).get_target, TargetCalls(id).get_state>>
                  \o results \o attached \o channels
    BY DEF TargetDetailCalls
  <2> HIDE DEF PageCalls, TargetCalls, AttachmentCalls, ChannelCalls, results, attached, channels
  <2>4. ASSUME NEW T, NEW a \in Seq(T), NEW b \in Seq(T) PROVE a \o b \in Seq(T)
    OBVIOUS
  <2>5. <<TargetCalls(id).get_target, TargetCalls(id).get_state>> \o results \in S
    BY <2>1, <2>2, <2>4
  <2>6. <<TargetCalls(id).get_target, TargetCalls(id).get_state>> \o results \o attached \in S
    BY <2>2, <2>4, <2>5
  <2> QED BY <2>2, <2>3, <2>4, <2>6
<1>3. /\ IncidentsListCalls \in Seq(PageCalls(id))
      /\ MaintenanceListCalls \in Seq(PageCalls(id))
      /\ ChannelsListCalls \in Seq(PageCalls(id))
  BY DEF IncidentsListCalls, MaintenanceListCalls, ChannelsListCalls
<1>4. ChannelDetailCalls(id, admin) \in Seq(PageCalls(id))
  <2>1. /\ <<ChannelCalls(id).get_channel>> \in Seq(PageCalls(id))
        /\ <<ChannelCalls(id).list_targets_for_channel>> \in Seq(PageCalls(id))
        /\ <<>> \in Seq(PageCalls(id))
    OBVIOUS
  <2> HIDE DEF PageCalls, ChannelCalls
  <2> QED BY <2>1 DEF ChannelDetailCalls
<1>5. /\ StatsPageCalls \in Seq(PageCalls(id))
      /\ StatsDetailCalls(id) \in Seq(PageCalls(id))
      /\ IncidentsCsvCalls(id) \in Seq(PageCalls(id))
  BY DEF StatsPageCalls, StatsDetailCalls, IncidentsCsvCalls
<1>6. /\ AuditLogCalls \in Seq(PageCalls(id))
      /\ AuditVerifyCalls \in Seq(PageCalls(id))
      /\ MeSecurityCalls \in Seq(PageCalls(id))
      /\ SettingsCalls \in Seq(PageCalls(id))
  BY DEF AuditLogCalls, AuditVerifyCalls, MeSecurityCalls, SettingsCalls
<1> QED BY <1>1, <1>2, <1>3, <1>4, <1>5, <1>6 DEF HandlerCalls
-----------------------------------------------------------------------------
(* The programs of the core.                                               *)

\* All but the audit row of a failed test.
Statements == {"Insert", "ClearTags", "PutTags", "PutState", "ReadOld", "ReadCurrent",
    "Update", "ReadBack", "Delete", "Attach", "Detach", "Find", "Store", "Send", "Log"}

\* What each handler does first, and what it does after what.
Flow ==
    {<<"create_target", "Begin", "Insert">>, <<"create_target", "Insert", "ClearTags">>,
     <<"create_target", "ClearTags", "PutTags">>, <<"create_target", "ClearTags", "PutState">>,
     <<"create_target", "PutTags", "PutState">>, <<"create_target", "PutState", "ReadBack">>,
     <<"create_target", "ReadBack", "Log">>,
     <<"update_target", "Begin", "ReadOld">>, <<"update_target", "ReadOld", "ReadCurrent">>,
     <<"update_target", "ReadCurrent", "Update">>, <<"update_target", "Update", "ClearTags">>,
     <<"update_target", "Update", "ReadBack">>, <<"update_target", "ClearTags", "PutTags">>,
     <<"update_target", "ClearTags", "ReadBack">>, <<"update_target", "PutTags", "ReadBack">>,
     <<"update_target", "ReadBack", "Log">>,
     <<"delete_target", "Begin", "Delete">>, <<"delete_target", "Delete", "Log">>,
     <<"create_channel", "Begin", "Insert">>, <<"create_channel", "Insert", "ReadBack">>,
     <<"create_channel", "ReadBack", "Log">>,
     <<"update_channel", "Begin", "ReadOld">>, <<"update_channel", "ReadOld", "ReadCurrent">>,
     <<"update_channel", "ReadCurrent", "Update">>, <<"update_channel", "Update", "ReadBack">>,
     <<"update_channel", "ReadBack", "Log">>,
     <<"delete_channel", "Begin", "Delete">>, <<"delete_channel", "Delete", "Log">>,
     <<"attach_channel", "Begin", "Attach">>, <<"attach_channel", "Attach", "Log">>,
     <<"detach_channel", "Begin", "Detach">>, <<"detach_channel", "Detach", "Log">>,
     <<"test_channel", "Begin", "ReadCurrent">>, <<"test_channel", "ReadCurrent", "Send">>,
     <<"test_channel", "Send", "Log">>,
     <<"create_maintenance", "Begin", "Insert">>,
     <<"create_maintenance", "Insert", "ReadBack">>,
     <<"create_maintenance", "ReadBack", "Log">>,
     <<"create_maintenance_form", "Begin", "Insert">>,
     <<"create_maintenance_form", "Insert", "ReadBack">>,
     <<"create_maintenance_form", "ReadBack", "Log">>,
     <<"resolve_incident", "Begin", "ReadCurrent">>,
     <<"resolve_incident", "ReadCurrent", "Update">>, <<"resolve_incident", "Update", "Log">>,
     <<"manage_users", "Begin", "Find">>, <<"manage_users", "Find", "Store">>,
     <<"manage_users", "Store", "ReadBack">>, <<"manage_users", "ReadBack", "Log">>,
     <<"migration_export", "Begin", "Log">>}

\* What a handler may still have to do: statements that follow one another as
\* they do in its program, the audit row last.
Legal(h, todo) ==
    /\ todo \in Seq(Statements)
    /\ todo # <<>>
    /\ todo[Len(todo)] = "Log"
    /\ \A k \in 1..Len(todo) - 1 : <<h, todo[k], todo[k + 1]>> \in Flow

\* After a statement that is not the last comes one that may follow it.
LEMMA Onward ==
    ASSUME NEW h, NEW todo, Legal(h, todo), Head(todo) # "Log"
    PROVE  /\ Tail(todo) # <<>> /\ Tail(todo) # todo
           /\ Legal(h, Tail(todo))
           /\ <<h, Head(todo), Head(Tail(todo))>> \in Flow
<1> DEFINE n == Len(todo)
<1>1. todo \in Seq(Statements) /\ n \in Nat /\ n > 0
  BY DEF Legal
<1>2. n # 1
  BY <1>1 DEF Legal
<1>3. /\ Tail(todo) \in Seq(Statements) /\ Len(Tail(todo)) = n - 1
      /\ \A k \in 1..n - 1 : Tail(todo)[k] = todo[k + 1]
  BY <1>1
<1>4. Tail(todo) # <<>> /\ Tail(todo) # todo
  <2>1. n - 1 # n /\ n - 1 # 0
    BY <1>1, <1>2
  <2>2. Len(<<>>) = 0
    OBVIOUS
  <2> QED BY <1>3, <2>1, <2>2
<1>5. Tail(todo)[n - 1] = "Log"
  BY <1>1, <1>2, <1>3 DEF Legal
<1>6. ASSUME NEW k \in 1..n - 2
      PROVE  <<h, Tail(todo)[k], Tail(todo)[k + 1]>> \in Flow
  <2>1. k + 1 \in 1..n - 1 /\ k \in 1..n - 1
    BY <1>1
  <2>2. <<h, todo[k + 1], todo[k + 1 + 1]>> \in Flow
    BY <2>1 DEF Legal
  <2> QED BY <1>3, <2>1, <2>2
<1>7. <<h, Head(todo), Head(Tail(todo))>> \in Flow
  <2>1. n - 1 >= 1 /\ n - 1 \in Nat
    <3> HIDE DEF n
    <3> QED BY <1>1, <1>2
  <2>2. <<h, todo[1], todo[2]>> \in Flow
    <3>1. 1 \in 1..n - 1 /\ 1 + 1 = 2
      <4> HIDE DEF n
      <4> QED BY <2>1
    <3> QED BY <3>1 DEF Legal
  <2>3. Head(todo) = todo[1]
    BY <1>1
  <2>4. Head(Tail(todo)) = todo[2]
    <3>1. 1 \in 1..n - 1 /\ Tail(todo)[1] = todo[1 + 1] /\ 1 + 1 = 2
      <4>1. 1 \in 1..n - 1 /\ 1 + 1 = 2
        <5> HIDE DEF n
        <5> QED BY <2>1
      <4> QED BY <1>3, <4>1
    <3>2. ASSUME NEW rest \in Seq(Statements), rest # <<>> PROVE Head(rest) = rest[1]
      OBVIOUS
    <3>3. Head(Tail(todo)) = Tail(todo)[1]
      BY <1>3, <1>4, <3>2
    <3> QED BY <3>1, <3>3
  <2> QED BY <2>2, <2>3, <2>4
<1>8. n - 1 - 1 = n - 2
  BY <1>1
<1> QED BY <1>3, <1>4, <1>5, <1>6, <1>7, <1>8 DEF Legal

\* The last statement is the audit row; before it there is none.
LEMMA LogIsLast ==
    ASSUME NEW h, NEW todo, Legal(h, todo)
    PROVE  todo # <<>> /\ Head(todo) \in Statements
BY DEF Legal
\* Two sequences make one.
LEMMA JoinType ==
    ASSUME NEW T, NEW a \in Seq(T), NEW b \in Seq(T)
    PROVE  a \o b \in Seq(T)
OBVIOUS

\* What joining the parts of a program comes to: of a target created without tags,
LEMMA CreateBare ==
    ASSUME NEW S, NEW a \in S, NEW b \in S, NEW c \in S, NEW d \in S, NEW e \in S,
           NEW p, p = <<a>> \o <<b>> \o <<c, d, e>>
    PROVE  /\ p \in Seq(S) /\ Len(p) = 5
           /\ p[1] = a /\ p[2] = b /\ p[3] = c /\ p[4] = d /\ p[5] = e
<1>1. p \in Seq(S)
  OBVIOUS
<1>2. Len(p) = 5
  OBVIOUS
<1>3. p[1] = a /\ p[2] = b /\ p[3] = c /\ p[4] = d /\ p[5] = e
  OBVIOUS
<1> QED BY <1>1, <1>2, <1>3

\* of one updated to have none,
LEMMA UpdateCleared ==
    ASSUME NEW S, NEW a \in S, NEW b \in S, NEW c \in S, NEW d \in S, NEW e \in S,
           NEW f \in S,
           NEW p, p = <<a, b, c>> \o <<d>> \o <<e, f>>
    PROVE  /\ p \in Seq(S) /\ Len(p) = 6
           /\ p[1] = a /\ p[2] = b /\ p[3] = c /\ p[4] = d /\ p[5] = e /\ p[6] = f
<1>1. p \in Seq(S)
  OBVIOUS
<1>2. Len(p) = 6
  OBVIOUS
<1>3. p[1] = a /\ p[2] = b /\ p[3] = c /\ p[4] = d /\ p[5] = e /\ p[6] = f
  OBVIOUS
<1> QED BY <1>1, <1>2, <1>3

\* and of one that keeps those it has.
LEMMA UpdateBare ==
    ASSUME NEW S, NEW a \in S, NEW b \in S, NEW c \in S, NEW d \in S, NEW e \in S,
           NEW p, p = <<a, b, c>> \o <<>> \o <<d, e>>
    PROVE  /\ p \in Seq(S) /\ Len(p) = 5
           /\ p[1] = a /\ p[2] = b /\ p[3] = c /\ p[4] = d /\ p[5] = e
<1>1. p \in Seq(S)
  OBVIOUS
<1>2. Len(p) = 5
  OBVIOUS
<1>3. p[1] = a /\ p[2] = b /\ p[3] = c /\ p[4] = d /\ p[5] = e
  OBVIOUS
<1> QED BY <1>1, <1>2, <1>3

\* The statements of a new target, with and without tags.
LEMMA CreateLegal ==
    ASSUME NEW a
    PROVE  /\ Legal("create_target", TargetProgram("targets::create", a))
           /\ Head(TargetProgram("targets::create", a)) = "Insert"
<1> DEFINE program == TargetProgram("targets::create", a)
<1>0. /\ "Insert" \in Statements /\ "ClearTags" \in Statements /\ "PutTags" \in Statements
      /\ "PutState" \in Statements /\ "ReadOld" \in Statements
      /\ "ReadCurrent" \in Statements /\ "Update" \in Statements
      /\ "ReadBack" \in Statements /\ "Log" \in Statements
  BY DEF Statements
<1>1. CASE a.tags # None /\ a.tags # {}
  <2>1. program = <<"Insert">> \o (<<"ClearTags">> \o <<"PutTags">>)
                      \o <<"PutState", "ReadBack", "Log">>
    BY <1>1 DEF TargetProgram, Tagging
  <2>2. /\ Len(program) = 6
        /\ program[1] = "Insert" /\ program[2] = "ClearTags" /\ program[3] = "PutTags"
        /\ program[4] = "PutState" /\ program[5] = "ReadBack" /\ program[6] = "Log"
    <3> HIDE DEF program
    <3> QED BY ONLY <2>1, SMTT(20)
  <2>3. program \in Seq(Statements)
    <3>1. /\ <<"ClearTags">> \in Seq(Statements) /\ <<"PutTags">> \in Seq(Statements)
          /\ <<"Insert">> \in Seq(Statements)
          /\ <<"PutState", "ReadBack", "Log">> \in Seq(Statements)
      BY <1>0
    <3>2. <<"ClearTags">> \o <<"PutTags">> \in Seq(Statements)
      BY ONLY <3>1, JoinType
    <3>3. <<"Insert">> \o (<<"ClearTags">> \o <<"PutTags">>) \in Seq(Statements)
      BY ONLY <3>1, <3>2, JoinType
    <3> QED BY ONLY <2>1, <3>1, <3>3, JoinType
  <2>4. Legal("create_target", program) /\ Head(program) = "Insert"
    <3> HIDE DEF program
    <3> QED BY <2>2, <2>3, SMTT(20) DEF Legal, Flow
  <2> QED BY <2>4
<1>2. CASE a.tags = None \/ a.tags = {}
  <2>1. program = <<"Insert">> \o <<"ClearTags">> \o <<"PutState", "ReadBack", "Log">>
    BY <1>2 DEF TargetProgram, Tagging
  <2>2. /\ program \in Seq(Statements) /\ Len(program) = 5
        /\ program[1] = "Insert" /\ program[2] = "ClearTags"
        /\ program[3] = "PutState" /\ program[4] = "ReadBack" /\ program[5] = "Log"
    BY ONLY <1>0, <2>1, CreateBare, SMTT(20)
  <2>4. Legal("create_target", program) /\ Head(program) = "Insert"
    <3> HIDE DEF program
    <3> QED BY <2>2, SMTT(20) DEF Legal, Flow
  <2> QED BY <2>4
<1> QED BY <1>1, <1>2

\* And of a target updated: its tags as they are, none, or others.
LEMMA UpdateLegal ==
    ASSUME NEW a
    PROVE  /\ Legal("update_target", TargetProgram("targets::update", a))
           /\ Head(TargetProgram("targets::update", a)) = "ReadOld"
<1> DEFINE program == TargetProgram("targets::update", a)
<1>0. /\ "Insert" \in Statements /\ "ClearTags" \in Statements /\ "PutTags" \in Statements
      /\ "PutState" \in Statements /\ "ReadOld" \in Statements
      /\ "ReadCurrent" \in Statements /\ "Update" \in Statements
      /\ "ReadBack" \in Statements /\ "Log" \in Statements
  BY DEF Statements
<1>1. CASE a.tags # None /\ a.tags # {}
  <2>1. program = <<"ReadOld", "ReadCurrent", "Update">> \o (<<"ClearTags">> \o <<"PutTags">>)
                      \o <<"ReadBack", "Log">>
    BY <1>1 DEF TargetProgram, Tagging
  <2>2. /\ Len(program) = 7
        /\ program[1] = "ReadOld" /\ program[2] = "ReadCurrent" /\ program[3] = "Update"
        /\ program[4] = "ClearTags" /\ program[5] = "PutTags" /\ program[6] = "ReadBack"
        /\ program[7] = "Log"
    <3> HIDE DEF program
    <3> QED BY ONLY <2>1, SMTT(20)
  <2>3. program \in Seq(Statements)
    <3>1. /\ <<"ClearTags">> \in Seq(Statements) /\ <<"PutTags">> \in Seq(Statements)
          /\ <<"ReadOld", "ReadCurrent", "Update">> \in Seq(Statements)
          /\ <<"ReadBack", "Log">> \in Seq(Statements)
      BY <1>0
    <3>2. <<"ClearTags">> \o <<"PutTags">> \in Seq(Statements)
      BY ONLY <3>1, JoinType
    <3>3. <<"ReadOld", "ReadCurrent", "Update">> \o (<<"ClearTags">> \o <<"PutTags">>)
              \in Seq(Statements)
      BY ONLY <3>1, <3>2, JoinType
    <3> QED BY ONLY <2>1, <3>1, <3>3, JoinType
  <2>4. Legal("update_target", program) /\ Head(program) = "ReadOld"
    <3> HIDE DEF program
    <3> QED BY <2>2, <2>3, SMTT(20) DEF Legal, Flow
  <2> QED BY <2>4
<1>2. CASE a.tags # None /\ a.tags = {}
  <2>1. program = <<"ReadOld", "ReadCurrent", "Update">> \o <<"ClearTags">>
                      \o <<"ReadBack", "Log">>
    BY <1>2 DEF TargetProgram, Tagging
  <2>2. /\ program \in Seq(Statements) /\ Len(program) = 6
        /\ program[1] = "ReadOld" /\ program[2] = "ReadCurrent" /\ program[3] = "Update"
        /\ program[4] = "ClearTags" /\ program[5] = "ReadBack" /\ program[6] = "Log"
    BY ONLY <1>0, <2>1, UpdateCleared, SMTT(20)
  <2>4. Legal("update_target", program) /\ Head(program) = "ReadOld"
    <3> HIDE DEF program
    <3> QED BY <2>2, SMTT(20) DEF Legal, Flow
  <2> QED BY <2>4
<1>3. CASE a.tags = None
  <2>1. program = <<"ReadOld", "ReadCurrent", "Update">> \o <<>> \o <<"ReadBack", "Log">>
    BY <1>3 DEF TargetProgram
  <2>2. /\ program \in Seq(Statements) /\ Len(program) = 5
        /\ program[1] = "ReadOld" /\ program[2] = "ReadCurrent" /\ program[3] = "Update"
        /\ program[4] = "ReadBack" /\ program[5] = "Log"
    BY ONLY <1>0, <2>1, UpdateBare, SMTT(20)
  <2>4. Legal("update_target", program) /\ Head(program) = "ReadOld"
    <3> HIDE DEF program
    <3> QED BY <2>2, SMTT(20) DEF Legal, Flow
  <2> QED BY <2>4
<1> QED BY <1>1, <1>2, <1>3

\* The program a handler begins is its own.
LEMMA ProgramLegal ==
    ASSUME NEW h, NEW core, <<h, core>> \in Performed, h # "migration_import", NEW a
    PROVE  /\ Legal(h, Program(core, a))
           /\ <<h, "Begin", Head(Program(core, a))>> \in Flow
<1> USE DEF Program, ChannelProgram, AttachmentProgram, TestProgram, WindowProgram,
            ResolveProgram, UserProgram
<1>1. CASE core = "targets::create"
  <2>1. h = "create_target"
    BY <1>1 DEF Performed
  <2> QED BY <1>1, <2>1, CreateLegal DEF Flow
<1>2. CASE core = "targets::update"
  <2>1. h = "update_target"
    BY <1>2 DEF Performed
  <2> QED BY <1>2, <2>1, UpdateLegal DEF Flow
<1>3. CASE core = "targets::delete"
  BY <1>3 DEF TargetProgram, Performed, Legal, Flow, Statements
<1>4. CASE core \in {"channels::create", "channels::update", "channels::delete"}
  <2>1. CASE core = "channels::create"
    BY <2>1 DEF Performed, Legal, Flow, Statements
  <2>2. CASE core = "channels::update"
    BY <2>2 DEF Performed, Legal, Flow, Statements
  <2>3. CASE core = "channels::delete"
    BY <2>3 DEF Performed, Legal, Flow, Statements
  <2> QED BY <1>4, <2>1, <2>2, <2>3
<1>5. CASE core = "channels::attach"
  BY <1>5 DEF Performed, Legal, Flow, Statements
<1>6. CASE core = "channels::detach"
  BY <1>6 DEF Performed, Legal, Flow, Statements
<1>7. CASE core = "channels::send_test"
  BY <1>7 DEF Performed, Legal, Flow, Statements
<1>8. CASE core = "maintenance::create"
  BY <1>8 DEF Performed, Legal, Flow, Statements
<1>9. CASE core = "incidents::resolve"
  BY <1>9 DEF Performed, Legal, Flow, Statements
<1>10. CASE core = "users::upsert"
  BY <1>10 DEF Performed, Legal, Flow, Statements
<1>11. CASE core = "migration::export"
  BY <1>11 DEF Performed, Legal, Flow, Statements
<1> QED BY <1>1, <1>2, <1>3, <1>4, <1>5, <1>6, <1>7, <1>8, <1>9, <1>10, <1>11 DEF Performed
-----------------------------------------------------------------------------
(* One request by itself: the invariant of its record.                     *)

\* The fields of a request, and of what its page shows.
IsSeen(s) ==
    s \in [targets : {s.targets}, channels : {s.channels}, enabled : {s.enabled},
           attached : {s.attached}, incidents : {s.incidents}, others : {s.others}]

IsRequest(q) ==
    /\ q \in [pc : {q.pc}, ask : {q.ask}, handler : {q.handler}, subject : {q.subject},
              admin : {q.admin}, calls : {q.calls}, todo : {q.todo}, seen : {q.seen},
              old : {q.old}, base : {q.base}, new : {q.new}, fresh : {q.fresh},
              quiet : {q.quiet}, before : {q.before}, logged : {q.logged},
              answer : {q.answer}]
    /\ IsSeen(q.seen)

\* Whoever is at work was let in.
Guarded(q) ==
    /\ q.handler \in NeedsToken => q.ask.token
    /\ q.handler \in AdminOnly => q.admin

\* A page reads.  A change calls the core, and is then somewhere in its program;
\* a test that failed to send has its audit row to write.
Reading(q) ==
    q.handler \notin Changes /\ q.calls \in Seq(PageCalls(q.subject)) /\ q.todo = <<>>

Calling(q) ==
    /\ q.handler \in Changes
    /\ q.calls = <<ChangeCall(q.handler, q.subject, q.ask.channel)>>
    /\ q.todo = <<>>

Changing(q) == q.handler \in Changes /\ q.calls = <<>> /\ Legal(q.handler, q.todo)

Failing(q) == q.handler = "test_channel" /\ q.calls = <<>> /\ q.todo = <<"LogError">>

\* A request that is well formed, and where its program can be.
Sound(q) ==
    /\ IsRequest(q)
    /\ q.pc \in {"idle", "asked", "work", "done"}
    /\ q.pc = "idle" => q.handler = "none"
    /\ q.pc # "idle" => /\ q.ask \in Asks
                        /\ q.handler = HandlerOf(GatewayRoutes, q.ask.call)
                        /\ q.subject = Subject(q.ask)
    /\ q.pc # "done" => q.answer = "none"
    /\ q.pc # "work" => q.todo = <<>>
    /\ q.pc = "work" => /\ Guarded(q)
                        /\ Reading(q) \/ Calling(q) \/ Changing(q) \/ Failing(q)

\* A request at work has one of the statements of its program to do, and its
\* handler changes something.
LEMMA RunsSound ==
    ASSUME NEW r \in Slots, Sound(request[r]), NEW s \in Statements, Runs(r, s)
    PROVE  /\ Changing(request[r]) /\ Guarded(request[r])
           /\ request[r].pc = "work" /\ Head(request[r].todo) = s
<1>1. Working(r) /\ request[r].todo # <<>> /\ Head(request[r].todo) = s
  BY DEF Runs
<1>2. "LogError" \notin Statements
  BY DEF Statements
<1>3. Head(<<"LogError">>) = "LogError"
  OBVIOUS
<1> QED BY <1>1, <1>2, <1>3 DEF Sound, Working, Reading, Calling, Failing

\* And another one after it.
LEMMA RunsOn ==
    ASSUME NEW r \in Slots, Sound(request[r]), NEW s \in Statements, Runs(r, s), s # "Log"
    PROVE  /\ Tail(request[r].todo) # request[r].todo
           /\ Legal(request[r].handler, Tail(request[r].todo))
           /\ <<request[r].handler, s, Head(Tail(request[r].todo))>> \in Flow
<1>1. Changing(request[r]) /\ Head(request[r].todo) = s
  BY RunsSound
<1> QED BY <1>1, Onward DEF Changing

\* A change needs an administrator; all but the export need a token too.
LEMMA GuardedChange ==
    ASSUME NEW q, Sound(q), q.pc = "work", q.handler \in Changes
    PROVE  q.admin /\ (q.handler # "migration_export" => q.ask.token)
BY DEF Sound, Guarded, Changes, NeedsToken, AdminOnly
-----------------------------------------------------------------------------
(* All requests and the tables: the inductive invariant.                   *)

\* Where a request is in its program.
At(q, s) == q.pc = "work" /\ q.todo # <<>> /\ Head(q.todo) = s

\* Each table has its rows, and each slot its request.
Typed ==
    /\ row = [x \in Rows |-> row[x]]
    /\ tags = [t \in Targets |-> tags[t]]
    /\ stateRow \subseteq Targets
    /\ link \subseteq Targets \X Channels
    /\ request = [s \in Slots |-> request[s]]
    /\ \A s \in Slots : Sound(request[s])

\* No two requests create the same row.
Apart ==
    \A r, s \in Slots :
        r # s /\ request[r].handler \in CreateHandlers /\ request[s].handler \in CreateHandlers
            => request[r].subject # request[s].subject

\* A target without its state row: its creation is past the INSERT, or failed.
HalfMade(q, t) ==
    /\ q.subject = t /\ q.handler = "create_target"
    /\ (q.pc = "work" /\ q.todo # <<>>) \/ (q.pc = "done" /\ q.answer = "error")

\* A row of incidents or windows and the target it is of.
Refers(x) ==
    Exists(x) => /\ "target" \in DOMAIN row[x]
                 /\ \/ row[x].target = None
                    \/ row[x].target \in Targets /\ Exists(row[x].target)

\* Somebody answers for each target without a state row.
Made ==
    \A t \in Targets :
        Exists(t) /\ t \notin stateRow => \E r \in Slots : HalfMade(request[r], t)

\* Nothing refers to a row that is gone.
Referred ==
    /\ \A t \in Targets : t \in stateRow \/ tags[t] # {} => Exists(t)
    /\ \A l \in link : Exists(l[1]) /\ Exists(l[2])
    /\ \A x \in Incidents \cup Windows : Refers(x)

\* The handlers that read the row they change, and those that read back what they left.
Updaters == {"update_target", "update_channel"}
ReadersBack == CreateHandlers \cup Updaters \cup {"manage_users"}

\* A new target that is about to be read back has its state row.
StateBehind(q) ==
    q.handler = "create_target" /\ (At(q, "ReadBack") \/ At(q, "Log"))
        => q.subject \in stateRow \/ ~Exists(q.subject)

\* What an incident is resolved from has its target, and an incident never gets another.
BaseStands(q) ==
    q.handler = "resolve_incident" /\ At(q, "Update")
        => /\ "target" \in DOMAIN q.base
           /\ Exists(q.subject) => q.base.target = row[q.subject].target

\* What an UPDATE is made from is the row, if nobody wrote it since it was read.
FreshBase(q) == At(q, "Update") /\ q.fresh => q.base = row[q.subject]

\* What was there before, of a request that had its subject to itself.
Remembered(q) ==
    q.handler \in Updaters /\ q.pc = "work" /\ q.quiet
        => IF q.todo = <<>> \/ At(q, "ReadOld") THEN q.before = Whole(q.subject)
           ELSE q.old = q.before

\* And what it left.
TakenBack(q) ==
    q.handler \in ReadersBack /\ At(q, "Log") /\ q.quiet => q.new = Whole(q.subject)

\* All that a request has read and counts on.
Stands(q) ==
    StateBehind(q) /\ BaseStands(q) /\ FreshBase(q) /\ Remembered(q) /\ TakenBack(q)

\* The inductive invariant.
IInv == Typed /\ Apart /\ Made /\ Referred /\ \A r \in Slots : Stands(request[r])
-----------------------------------------------------------------------------
(* The kinds of steps, by what they do to the request that takes them.     *)

\* Who asked, and for what.
SameAsk(q, p) ==
    /\ p.ask = q.ask /\ p.handler = q.handler /\ p.subject = q.subject /\ p.admin = q.admin
    /\ p.quiet = q.quiet /\ p.before = q.before

\* Nothing changes but this request.
Alone(r) ==
    /\ UNCHANGED tables
    /\ \A s \in Slots \ {r} : request'[s] = request[s]

\* A request is put.
Asking(r) ==
    /\ Alone(r)
    /\ LET q == request[r]
           p == request'[r]
       IN /\ q.pc = "idle" /\ p.pc = "asked" /\ p.answer = "none"
          /\ p.ask \in Asks /\ p.handler = HandlerOf(GatewayRoutes, p.ask.call)
          /\ p.subject = Subject(p.ask)
          /\ p.handler \in CreateHandlers =>
                 \A s \in Slots : request[s].handler \in CreateHandlers =>
                                      request[s].subject # p.subject
          /\ p.seen.targets = {} /\ p.seen.channels = {}

\* Of a change at work: an error, a refusal by the limit, or the end of its
\* program, with its audit row or the answer that there is none.
Ending(r) ==
    /\ Alone(r)
    /\ LET q == request[r]
           p == request'[r]
       IN /\ q.pc \in {"asked", "work"} /\ p.pc = "done" /\ p.todo = <<>> /\ SameAsk(q, p)
          /\ p.seen = q.seen \/ Query(r)
          /\ q.pc = "work" /\ q.handler \in Changes =>
                \/ p.answer = "error"
                \/ p.answer = "refused" /\ q.todo = <<>>
                \/ At(q, "Log") /\ p.logged = {[old |-> q.old, new |-> q.new]}
                \/ At(q, "Log") /\ p.answer = Outcome(q, FALSE)

\* It is let in.
Entering(r) ==
    /\ Alone(r)
    /\ LET q == request[r]
           p == request'[r]
       IN /\ q.pc = "asked" /\ p.pc = "work" /\ p.answer = "none" /\ p.todo = q.todo
          /\ p.seen = q.seen
          /\ p.ask = q.ask /\ p.handler = q.handler /\ p.subject = q.subject
          /\ p.before = WholeOrNone(q.subject)
          /\ Guarded(p)
          /\ p.calls = CoreCalls(p.handler, p.subject, p.ask.channel, p.ask.tab, p.admin)

\* A page reads and has more to read.
ReadingOn(r) ==
    /\ Alone(r)
    /\ LET q == request[r]
           p == request'[r]
       IN /\ Reading(q) /\ Reading(p) /\ q.pc = "work" /\ p.pc = "work" /\ p.answer = "none"
          /\ SameAsk(q, p) /\ Query(r)

\* The core takes up a change.
Beginning(r) ==
    /\ Alone(r)
    /\ LET q == request[r]
           p == request'[r]
       IN /\ Calling(q) /\ Changing(p) /\ q.pc = "work" /\ p.pc = "work" /\ p.answer = "none"
          /\ SameAsk(q, p) /\ p.seen = q.seen
          /\ <<q.handler, "Begin", Head(p.todo)>> \in Flow

\* A statement that is not the last.
Moving(r, s) ==
    /\ Runs(r, s) /\ s \in Statements \ {"Log"}
    /\ LET q == request[r]
           p == request'[r]
       IN /\ p.pc = "work" /\ p.answer = "none" /\ p.calls = q.calls /\ SameAsk(q, p)
          /\ p.todo = Tail(q.todo)
          /\ p.seen = q.seen /\ p.logged = q.logged
          /\ s # "ReadOld" => p.old = q.old
          /\ s # "ReadBack" => p.new = q.new
          /\ s \notin {"ReadCurrent", "Find"} => p.base = q.base
          /\ s # "ReadCurrent" => p.fresh = q.fresh

\* A test that could not be sent.
Sending(r) ==
    /\ Alone(r)
    /\ LET q == request[r]
           p == request'[r]
       IN /\ q.pc = "work" /\ q.handler = "test_channel"
          /\ p.pc = "work" /\ p.answer = "none" /\ Failing(p) /\ SameAsk(q, p)
          /\ p.seen = q.seen

\* What another's statement does to a request at work on the same rows.
Disturbed(q) == [q EXCEPT !.fresh = FALSE, !.quiet = q.pc # "work" /\ @]

\* Nobody wrote it.
SameRow(x) ==
    x \in Rows => row'[x] = row[x] /\ (x \in Targets => tags'[x] = tags[x])

\* The other requests: told of what was written, or not concerned.
Beside(r) ==
    \A s \in Slots \ {r} :
        \/ request'[s] = Disturbed(request[s])
        \/ request'[s] = request[s] /\ SameRow(request[s].subject)

\* Which rows come into being, and what stays of those there are.
Lasting(r) ==
    /\ row' = [x \in Rows |-> row'[x]]
    /\ tags' = [t \in Targets |-> tags'[t]]
    /\ stateRow' \subseteq Targets
    /\ link' \subseteq Targets \X Channels
    /\ \A x \in Rows \ Users :
          Exists(x)' => \/ Exists(x)
                        \/ Runs(r, "Insert") /\ request[r].subject = x
    /\ \A x \in stateRow : x \in stateRow' \/ ~Exists(x)'
    /\ \A x \in Incidents : Exists(x)' => "target" \in DOMAIN row[x] /\ row'[x].target = row[x].target

\* The disturbance leaves a request sound, and all but two of its fields.
LEMMA DisturbedSound ==
    ASSUME NEW q, Sound(q)
    PROVE  LET p == Disturbed(q)
           IN /\ Sound(p)
              /\ p.pc = q.pc /\ p.ask = q.ask /\ p.handler = q.handler /\ p.subject = q.subject
              /\ p.admin = q.admin /\ p.calls = q.calls /\ p.todo = q.todo /\ p.seen = q.seen
              /\ p.old = q.old /\ p.base = q.base /\ p.new = q.new /\ p.before = q.before
              /\ p.logged = q.logged /\ p.answer = q.answer
              /\ ~p.fresh /\ (q.pc = "work" => ~p.quiet)
<1> DEFINE p == Disturbed(q)
<1>1. /\ IsRequest(p)
      /\ p.pc = q.pc /\ p.ask = q.ask /\ p.handler = q.handler /\ p.subject = q.subject
      /\ p.admin = q.admin /\ p.calls = q.calls /\ p.todo = q.todo /\ p.seen = q.seen
      /\ p.old = q.old /\ p.base = q.base /\ p.new = q.new /\ p.before = q.before
      /\ p.logged = q.logged /\ p.answer = q.answer
      /\ ~p.fresh /\ (q.pc = "work" => ~p.quiet)
  BY DEF Sound, IsRequest, Disturbed
<1>2. Sound(p)
  <2> HIDE DEF p
  <2> QED BY <1>1 DEF Sound, Guarded, Reading, Calling, Changing, Failing
<1> QED BY <1>1, <1>2

\* A request that is answered changes nothing else, and stays sound.
LEMMA Answered ==
    ASSUME Typed, NEW r \in Slots, request[r].pc \in {"asked", "work"}, NEW a, Answer(r, a)
    PROVE  /\ request' = [s \in Slots |-> request'[s]]
           /\ \A s \in Slots \ {r} : request'[s] = request[s]
           /\ request'[r].pc = "done" /\ request'[r].todo = <<>> /\ request'[r].answer = a
           /\ SameAsk(request[r], request'[r]) /\ request'[r].seen = request[r].seen
           /\ Sound(request'[r])
<1> DEFINE q == request[r]
           p == request'[r]
<1>1. /\ request' = [s \in Slots |-> request'[s]]
      /\ \A s \in Slots \ {r} : request'[s] = request[s]
  BY DEF Typed, Answer
<1>2. /\ p.pc = "done" /\ p.todo = <<>> /\ p.answer = a /\ p.seen = q.seen
      /\ SameAsk(q, p) /\ IsRequest(p)
  <2>1. IsRequest(q)
    BY DEF Typed, Sound
  <2>2. p = [q EXCEPT !.pc = "done", !.answer = a, !.calls = <<>>, !.todo = <<>>]
    BY DEF Typed, Answer
  <2> HIDE DEF p, q
  <2> QED BY <2>1, <2>2 DEF IsRequest, SameAsk
<1>3. Sound(p)
  <2>1. Sound(q)
    BY DEF Typed
  <2> HIDE DEF p, q
  <2> QED BY <1>2, <2>1 DEF Sound, SameAsk, q
<1> QED BY <1>1, <1>2, <1>3

\* A request of somebody is put.
LEMMA AskKind ==
    ASSUME Typed, NEW r \in Slots, Ask(r)
    PROVE  /\ Asking(r) /\ Sound(request'[r])
           /\ request' = [s \in Slots |-> request'[s]]
<1> DEFINE q == request[r]
           p == request'[r]
<1>1. PICK a \in Asks :
          LET h == HandlerOf(GatewayRoutes, a.call) IN
          /\ h \in CreateHandlers =>
                 \A s \in Slots : request[s].handler \in CreateHandlers =>
                                      request[s].subject # a.new
          /\ request' = [request EXCEPT
                ![r] = [Idle EXCEPT !.pc = "asked", !.ask = a, !.handler = h,
                                    !.subject = Subject(a)]]
  BY DEF Ask
<1>2. /\ q.pc = "idle" /\ Alone(r) /\ request' = [s \in Slots |-> request'[s]]
  BY <1>1 DEF Ask, Alone, Typed
<1>3. /\ IsRequest(p) /\ p.pc = "asked" /\ p.ask = a /\ p.answer = "none"
      /\ p.handler = HandlerOf(GatewayRoutes, a.call) /\ p.subject = Subject(a)
      /\ p.seen.targets = {} /\ p.seen.channels = {} /\ p.todo = <<>>
  BY <1>1 DEF Typed, IsRequest, Idle, Unseen, IsSeen
<1>4. p.handler \in CreateHandlers =>
          \A s \in Slots : request[s].handler \in CreateHandlers =>
                               request[s].subject # p.subject
  BY <1>1, <1>3, NewSubject
<1> HIDE DEF p, q
<1>5. Sound(p)
  BY <1>3 DEF Sound
<1> QED BY <1>2, <1>3, <1>4, <1>5 DEF Asking, p, q

\* It is refused.
LEMMA RefuseKind ==
    ASSUME Typed, NEW r \in Slots, Refuse(r)
    PROVE  /\ Ending(r) /\ Sound(request'[r])
           /\ request' = [s \in Slots |-> request'[s]]
<1>1. request[r].pc = "asked" /\ Answer(r, "refused") /\ UNCHANGED tables
  BY DEF Refuse
<1> QED BY <1>1, Answered DEF Ending, Alone

\* A request is let in: a page starts to read, a change to call; or its id is missing.
LEMMA AuthenticateKind ==
    ASSUME Typed, NEW r \in Slots, Authenticate(r)
    PROVE  /\ Entering(r) \/ Ending(r)
           /\ Sound(request'[r])
           /\ request' = [s \in Slots |-> request'[s]]
<1> DEFINE q == request[r]
           p == request'[r]
           h == q.handler
           admin == row[q.ask.user].role = "admin"
<1>1. q.pc = "asked" /\ UNCHANGED tables /\ ~Refuses(q.ask, h, row[q.ask.user])
  BY DEF Authenticate
<1>2. CASE Answer(r, "error")
  BY <1>1, <1>2, Answered DEF Ending, Alone
<1>3. CASE request' = [request EXCEPT ![r] =
                  [q EXCEPT !.pc = "work", !.admin = admin,
                            !.before = WholeOrNone(q.subject),
                            !.calls = CoreCalls(h, q.subject, q.ask.channel, q.ask.tab, admin)]]
  <2>1. Alone(r) /\ request' = [s \in Slots |-> request'[s]]
    BY <1>1, <1>3 DEF Alone, Typed
  <2>2. /\ IsRequest(p) /\ p.pc = "work" /\ p.answer = q.answer /\ p.todo = q.todo
        /\ p.ask = q.ask /\ p.handler = h /\ p.subject = q.subject /\ p.seen = q.seen
        /\ p.admin = admin /\ p.before = WholeOrNone(q.subject)
        /\ p.calls = CoreCalls(p.handler, p.subject, p.ask.channel, p.ask.tab, p.admin)
    <3>1. IsRequest(q)
      BY DEF Typed, Sound
    <3>2. p = [q EXCEPT !.pc = "work", !.admin = admin,
                        !.before = WholeOrNone(q.subject),
                        !.calls = CoreCalls(h, q.subject, q.ask.channel, q.ask.tab, admin)]
      BY <1>3 DEF Typed
    <3>3. h = q.handler
      OBVIOUS
    <3> HIDE DEF p, q, admin, h
    <3> QED BY <3>1, <3>2, <3>3 DEF IsRequest
  <2>3. Sound(q)
    BY DEF Typed
  <2>4. Guarded(p)
    BY <1>1, <2>2 DEF Guarded, Refuses
  <2>5. Reading(p) \/ Calling(p)
    <3>1. p.todo = <<>>
      BY <1>1, <2>2, <2>3 DEF Sound
    <3>2. CASE h \in Changes
      BY <2>2, <3>1, <3>2 DEF CoreCalls, Calling
    <3>3. CASE h \notin Changes
      BY <2>2, <3>1, <3>3, PageCallsListed DEF CoreCalls, Reading
    <3> QED BY <3>2, <3>3
  <2> HIDE DEF p, q, h, admin
  <2>6. Sound(p)
    BY <1>1, <2>2, <2>3, <2>4, <2>5 DEF Sound, h
  <2>7. p.answer = "none"
    BY <1>1, <2>2, <2>3 DEF Sound
  <2> QED BY <1>1, <2>1, <2>2, <2>4, <2>6, <2>7 DEF Entering, p, q, h
<1> QED BY <1>2, <1>3 DEF Authenticate

\* What a page shows stays a record of what it has read.
LEMMA ShowsSeen ==
    ASSUME NEW h, NEW id, NEW user, NEW admin, NEW seen, IsSeen(seen), NEW others
    PROVE  IsSeen([Shows(h, id, user, admin, seen) EXCEPT !.others = others])
<1>1. IsSeen(Shows(h, id, user, admin, seen))
  BY DEF Shows, IsSeen
<1> QED BY <1>1 DEF IsSeen

\* Who has calls to make and has begun nothing reads, or calls for its change.
LEMMA CallsSound ==
    ASSUME NEW q, Sound(q), q.pc = "work", q.calls # <<>>
    PROVE  LET h == HandlerOf(CoreRoutes, Head(q.calls))
           IN \/ Reading(q) /\ h \in ReadHandlers \cup {"none"}
              \/ /\ Calling(q) /\ h \notin ReadHandlers
                 /\ h = "none" \/ (<<q.handler, h>> \in Performed /\ q.handler # "migration_import")
<1> DEFINE h == HandlerOf(CoreRoutes, Head(q.calls))
<1>1. Reading(q) \/ Calling(q)
  BY DEF Sound, Changing, Failing
<1>2. CASE Reading(q)
  <2>1. Head(q.calls) \in PageCalls(q.subject)
    BY <1>2 DEF Reading
  <2> QED BY <1>2, <2>1, PageCallsRead DEF IsRead
<1>3. CASE Calling(q)
  <2>1. Head(q.calls) = ChangeCall(q.handler, q.subject, q.ask.channel)
    BY <1>3 DEF Calling
  <2>2. h = "none" \/ <<q.handler, h>> \in Performed
    BY <1>3, <2>1, ChangeRouted DEF Calling
  <2>3. h \notin ReadHandlers
    BY <2>2 DEF Performed, ReadHandlers, TargetReads, StateReads, ChannelReads,
                AttachmentReads, IncidentReads, WindowReads, SlaReads, AuditReads, UserReads
  <2>4. q.handler # "migration_import"
    BY AsksAssumption DEF Sound
  <2> QED BY <1>3, <2>2, <2>3, <2>4
<1> QED BY <1>1, <1>2, <1>3

\* The limit on tests, before anything of the change is begun.
LEMMA LimitedKind ==
    ASSUME Typed, NEW r \in Slots, Limited(r)
    PROVE  /\ Ending(r) /\ Sound(request'[r])
           /\ request' = [s \in Slots |-> request'[s]]
<1>1. /\ request[r].pc = "work" /\ request[r].calls # <<>> /\ Sound(request[r])
      /\ Answer(r, "refused") /\ UNCHANGED tables
  BY DEF Limited, Working, Typed
<1>2. request[r].todo = <<>>
  BY <1>1 DEF Sound, Reading, Calling, Changing, Failing
<1> QED BY <1>1, <1>2, Answered DEF Ending, Alone

\* A read adds to its page, or ends the request.
LEMMA QueryKind ==
    ASSUME Typed, NEW r \in Slots, Query(r)
    PROVE  /\ ReadingOn(r) \/ Ending(r)
           /\ Reading(request[r]) /\ request[r].pc = "work"
           /\ Sound(request'[r])
           /\ request' = [s \in Slots |-> request'[s]]
<1> DEFINE q == request[r]
           p == request'[r]
           h == HandlerOf(CoreRoutes, Head(q.calls))
<1>1. /\ q.pc = "work" /\ q.calls # <<>> /\ h \in ReadHandlers /\ UNCHANGED tables
      /\ Sound(q)
  BY DEF Query, Working, Typed
<1>2. Reading(q) /\ q.handler \notin Changes
  BY <1>1, CallsSound DEF Reading
<1>3. CASE \E a : Answer(r, a)
  BY <1>1, <1>2, <1>3, Answered DEF Ending, Alone
<1>4. CASE \E others \in BOOLEAN :
               LET seen == [Shows(h, q.subject, q.ask.user, q.admin, q.seen)
                               EXCEPT !.others = others]
                   last == Len(q.calls) = 1
               IN request' = [request EXCEPT ![r] =
                     [q EXCEPT !.seen = seen, !.calls = Tail(@),
                               !.pc = IF last THEN "done" ELSE "work",
                               !.answer = IF last THEN "ok" ELSE "none"]]
  <2>1. PICK others \in BOOLEAN :
               LET seen == [Shows(h, q.subject, q.ask.user, q.admin, q.seen)
                               EXCEPT !.others = others]
                   last == Len(q.calls) = 1
               IN request' = [request EXCEPT ![r] =
                     [q EXCEPT !.seen = seen, !.calls = Tail(@),
                               !.pc = IF last THEN "done" ELSE "work",
                               !.answer = IF last THEN "ok" ELSE "none"]]
    BY <1>4
  <2> DEFINE seen == [Shows(h, q.subject, q.ask.user, q.admin, q.seen) EXCEPT !.others = others]
             last == Len(q.calls) = 1
  <2>2. IsSeen(seen)
    BY <1>1, ShowsSeen DEF Sound, IsRequest
  <2>3. Alone(r) /\ request' = [s \in Slots |-> request'[s]]
    BY <1>1, <2>1 DEF Alone, Typed
  <2>4. p = [q EXCEPT !.seen = seen, !.calls = Tail(@),
                      !.pc = IF last THEN "done" ELSE "work",
                      !.answer = IF last THEN "ok" ELSE "none"]
    BY <2>1 DEF Typed
  <2>5. IsRequest(q)
    BY <1>1 DEF Sound
  <2>6. /\ IsRequest(p) /\ SameAsk(q, p) /\ p.todo = q.todo /\ p.calls = Tail(q.calls)
        /\ \/ p.pc = "done"
           \/ p.pc = "work" /\ p.answer = "none"
    <3> HIDE DEF p, q, seen, last
    <3> QED BY <2>2, <2>4, <2>5 DEF IsRequest, SameAsk
  <2> HIDE DEF p, seen, last
  <2>7. Reading(p)
    <3>1. ASSUME NEW T, NEW calls \in Seq(T), calls # <<>> PROVE Tail(calls) \in Seq(T)
      <4>1. Len(calls) \in Nat /\ Len(calls) # 0
        BY <3>1
      <4> QED BY <3>1, <4>1
    <3>2. Tail(q.calls) \in Seq(PageCalls(q.subject))
      BY <1>1, <1>2, <3>1 DEF Reading
    <3> QED BY <1>2, <2>6, <3>2 DEF Reading, SameAsk
  <2>8. Sound(p)
    <3>1. Guarded(q) /\ p.todo = <<>>
      BY <1>1, <1>2, <2>6 DEF Sound, Reading
    <3>2. Guarded(p)
      BY <3>1, <2>6 DEF Guarded, SameAsk
    <3> HIDE DEF q
    <3> QED BY <1>1, <2>6, <2>7, <3>1, <3>2 DEF Sound, SameAsk
  <2> QED BY <1>1, <1>2, <2>3, <2>6, <2>7, <2>8 DEF ReadingOn, Ending, Reading, p
<1> QED BY <1>1, <1>2, <1>3, <1>4 DEF Query

\* A page with nothing left to read is shown.
LEMMA ShowPageKind ==
    ASSUME Typed, NEW r \in Slots, ShowPage(r)
    PROVE  /\ Ending(r) /\ Sound(request'[r]) /\ request[r].handler \notin Changes
           /\ request' = [s \in Slots |-> request'[s]]
<1>1. /\ request[r].pc = "work" /\ request[r].calls = <<>> /\ request[r].todo = <<>>
      /\ Sound(request[r]) /\ Answer(r, "ok") /\ UNCHANGED tables
  BY DEF ShowPage, Working, Typed
<1>2. request[r].handler \notin Changes
  BY <1>1 DEF Sound, Reading, Calling, Changing, Failing, Legal
<1> QED BY <1>1, <1>2, Answered DEF Ending, Alone

\* A change reaches the core, and its program is begun.
LEMMA BeginKind ==
    ASSUME Typed, NEW r \in Slots, Begin(r)
    PROVE  /\ Beginning(r) \/ (Ending(r) /\ request'[r].answer = "error")
           /\ Sound(request'[r])
           /\ request' = [s \in Slots |-> request'[s]]
<1> DEFINE q == request[r]
           p == request'[r]
           h == HandlerOf(CoreRoutes, Head(q.calls))
<1>1. /\ q.pc = "work" /\ q.calls # <<>> /\ h \notin ReadHandlers /\ UNCHANGED tables
      /\ Sound(q)
  BY DEF Begin, Working, Typed
<1>2. CASE Answer(r, "error")
  BY <1>1, <1>2, Answered DEF Ending, Alone
<1>3. CASE /\ CoreGuard(h, q.admin)
           /\ request' = [request EXCEPT ![r].calls = <<>>, ![r].todo = Program(h, q.ask)]
  <2>1. h # "none"
    BY <1>3 DEF CoreGuard
  <2>2. Calling(q) /\ <<q.handler, h>> \in Performed /\ q.handler # "migration_import"
    BY <1>1, <2>1, CallsSound
  <2>3. /\ Legal(q.handler, Program(h, q.ask))
        /\ <<q.handler, "Begin", Head(Program(h, q.ask))>> \in Flow
    BY <2>2, ProgramLegal
  <2>4. Alone(r) /\ request' = [s \in Slots |-> request'[s]]
    BY <1>1, <1>3 DEF Alone, Typed
  <2>5. p = [q EXCEPT !.calls = <<>>, !.todo = Program(h, q.ask)]
    BY <1>3 DEF Typed
  <2>6. IsRequest(q) /\ q.answer = "none" /\ Guarded(q)
    BY <1>1 DEF Sound
  <2>7. /\ IsRequest(p) /\ SameAsk(q, p) /\ p.calls = <<>> /\ p.todo = Program(h, q.ask)
        /\ p.pc = q.pc /\ p.answer = q.answer /\ p.seen = q.seen
    <3> HIDE DEF p, q, h
    <3> QED BY <2>5, <2>6 DEF IsRequest, SameAsk
  <2> HIDE DEF p, q, h
  <2>8. Changing(p) /\ Guarded(p)
    BY <2>2, <2>3, <2>6, <2>7 DEF Changing, Calling, SameAsk, Guarded
  <2>9. Sound(p)
    BY <1>1, <2>6, <2>7, <2>8 DEF Sound, SameAsk
  <2> QED BY <1>1, <2>2, <2>3, <2>4, <2>6, <2>7, <2>8, <2>9 DEF Beginning, p, q
<1> QED BY <1>2, <1>3 DEF Begin
-----------------------------------------------------------------------------
(* Statements.                                                             *)

\* Whose statement it is, and in which table its subject is.
LEMMA Whose ==
    ASSUME Typed, NEW r \in Slots, NEW s \in Statements \ {"Log"}, Runs(r, s)
    PROVE  LET q == request[r] IN
           /\ q.ask \in Asks
           /\ s = "Insert" => /\ q.handler \in CreateHandlers
                              /\ q.subject \in Targets \cup Channels \cup Windows
                              /\ q.subject \in Windows => q.ask.names.target \in Targets \cup {None}
                              /\ q.subject \in Windows => "target" \in DOMAIN q.ask.names
                              /\ q.subject \in Targets => q.handler = "create_target"
           /\ s \in {"ClearTags", "PutTags"} =>
                 q.handler \in {"create_target", "update_target"} /\ q.subject \in Targets
           /\ s = "PutState" => q.handler = "create_target" /\ q.subject \in Targets
           /\ s = "ReadOld" => q.handler \in Updaters
           /\ s = "ReadBack" => q.handler \in ReadersBack
           /\ s = "ReadCurrent" => q.handler \in Updaters \cup {"test_channel", "resolve_incident"}
           /\ s = "Update" => /\ q.handler \in Updaters \cup {"resolve_incident"}
                              /\ q.subject \in Targets \cup Channels \cup Incidents
                              /\ q.subject \in Incidents =>
                                    /\ q.handler = "resolve_incident"
                                    /\ "target" \notin DOMAIN q.ask.names
           /\ s = "Delete" => /\ q.handler \in {"delete_target", "delete_channel"}
                              /\ q.subject \in Targets \cup Channels
           /\ s = "Attach" => q.subject \in Targets /\ q.ask.channel \in Channels
           /\ s \in {"Find", "Store"} => q.handler = "manage_users" /\ q.subject \in Users
           /\ s = "Send" => q.handler = "test_channel"
           /\ DOMAIN q.ask.names # {}
<1> DEFINE q == request[r]
           h == q.handler
<1>1. /\ Sound(q) /\ q.pc = "work" /\ q.ask \in Asks
      /\ h = HandlerOf(GatewayRoutes, q.ask.call) /\ q.subject = Subject(q.ask)
  BY DEF Typed, Runs, Working, Sound
<1>2. <<h, s, Head(Tail(q.todo))>> \in Flow
  BY <1>1, RunsOn
<1>3. /\ s = "Insert" => h \in CreateHandlers
      /\ s \in {"ClearTags", "PutTags"} => h \in {"create_target", "update_target"}
      /\ s = "PutState" => h = "create_target"
      /\ s = "ReadOld" => h \in Updaters
      /\ s = "ReadBack" => h \in ReadersBack
      /\ s = "ReadCurrent" => h \in Updaters \cup {"test_channel", "resolve_incident"}
      /\ s = "Update" => h \in Updaters \cup {"resolve_incident"}
      /\ s = "Delete" => h \in {"delete_target", "delete_channel"}
      /\ s = "Attach" => h = "attach_channel"
      /\ s \in {"Find", "Store"} => h = "manage_users"
      /\ s = "Send" => h = "test_channel"
  <2> HIDE DEF h, q
  <2> QED BY <1>2 DEF Flow, CreateHandlers, Updaters, ReadersBack
<1>4. /\ h \in TargetHandlers => q.subject \in Targets
      /\ h = "attach_channel" => q.ask.channel \in Channels
      /\ h \in ChannelHandlers => q.subject \in Channels
      /\ h \in WindowHandlers => /\ q.subject \in Windows
                                /\ "target" \in DOMAIN q.ask.names
                                /\ q.ask.names.target \in Targets \cup {None}
      /\ h = "resolve_incident" => q.subject \in Incidents /\ "target" \notin DOMAIN q.ask.names
      /\ h = "manage_users" => q.subject \in Users
      /\ DOMAIN q.ask.names # {}
  BY <1>1, AsksAssumption
<1> HIDE DEF h, q
<1>5. /\ s = "Insert" => /\ q.subject \in Targets \cup Channels \cup Windows
                         /\ q.subject \in Windows => q.ask.names.target \in Targets \cup {None}
                         /\ q.subject \in Windows => "target" \in DOMAIN q.ask.names
                         /\ q.subject \in Targets => h = "create_target"
  BY <1>3, <1>4, IdsAssumption DEF CreateHandlers, TargetHandlers, ChannelHandlers, WindowHandlers
<1>6. /\ s \in {"ClearTags", "PutTags", "PutState"} => q.subject \in Targets
      /\ s = "Update" => /\ q.subject \in Targets \cup Channels \cup Incidents
                         /\ q.subject \in Incidents => /\ h = "resolve_incident"
                                                       /\ "target" \notin DOMAIN q.ask.names
      /\ s = "Delete" => q.subject \in Targets \cup Channels
      /\ s = "Attach" => q.subject \in Targets /\ q.ask.channel \in Channels
      /\ s \in {"Find", "Store"} => q.subject \in Users
  BY <1>3, <1>4, IdsAssumption DEF Updaters, TargetHandlers, ChannelHandlers
<1> QED BY <1>1, <1>3, <1>4, <1>5, <1>6 DEF q, h

\* A request that goes on to its next statement stays sound.
LEMMA MovingSound ==
    ASSUME Typed, NEW r \in Slots, NEW s, Moving(r, s), IsRequest(request'[r])
    PROVE  Sound(request'[r])
<1> DEFINE q == request[r]
           p == request'[r]
<1>1. Sound(q) /\ Changing(q) /\ Guarded(q) /\ q.pc = "work"
  BY RunsSound DEF Typed, Moving
<1>2. Legal(q.handler, Tail(q.todo))
  BY RunsOn DEF Typed, Moving
<1>3. /\ p.pc = "work" /\ p.answer = "none" /\ p.calls = q.calls /\ SameAsk(q, p)
      /\ p.todo = Tail(q.todo) /\ IsRequest(p)
  BY DEF Moving
<1> HIDE DEF p, q
<1>4. Changing(p) /\ Guarded(p)
  BY <1>1, <1>2, <1>3 DEF Changing, Guarded, SameAsk
<1> QED BY <1>1, <1>3, <1>4 DEF Sound, SameAsk, p

\* The rest of a program, as the record of the request has it.
LEMMA NextFields ==
    ASSUME NEW q, IsRequest(q)
    PROVE  LET p == Next1(q)
           IN /\ IsRequest(p)
              /\ p.pc = q.pc /\ p.ask = q.ask /\ p.handler = q.handler /\ p.subject = q.subject
              /\ p.admin = q.admin /\ p.calls = q.calls /\ p.todo = Tail(q.todo)
              /\ p.seen = q.seen /\ p.old = q.old /\ p.base = q.base /\ p.new = q.new
              /\ p.fresh = q.fresh /\ p.quiet = q.quiet /\ p.before = q.before
              /\ p.logged = q.logged /\ p.answer = q.answer
BY DEF IsRequest, Next1

\* A statement that leaves the tables of others alone leaves the others alone.
LEMMA AloneEffects ==
    ASSUME Typed, NEW r \in Slots, Alone(r), Sound(request'[r])
    PROVE  /\ Beside(r) /\ \A s \in Slots : Sound(request'[s])
           /\ row' = row /\ tags' = tags
BY DEF Alone, Beside, SameRow, Typed, tables

\* A disturbance tells all that are at work on the rows written.
LEMMA DisturbEffects ==
    ASSUME Typed, NEW r \in Slots, NEW rows, NEW mine, Disturb(r, rows, mine), Sound(mine),
           \A x \in Rows \ rows : row'[x] = row[x] /\ (x \in Targets => tags'[x] = tags[x])
    PROVE  /\ Beside(r) /\ \A s \in Slots : Sound(request'[s])
           /\ request'[r] = mine
           /\ request' = [s \in Slots |-> request'[s]]
<1>1. /\ request'[r] = mine /\ request' = [s \in Slots |-> request'[s]]
      /\ \A s \in Slots \ {r} :
            request'[s] = IF request[s].subject \in rows THEN Disturbed(request[s]) ELSE request[s]
  BY DEF Disturb, Disturbed
<1>2. Beside(r)
  BY <1>1 DEF Beside, SameRow
<1>3. \A s \in Slots : Sound(request'[s])
  BY <1>1, DisturbedSound DEF Typed
<1> QED BY <1>1, <1>2, <1>3

\* The subject is read as the audit log will have it.
LEMMA ReadOldKind ==
    ASSUME Typed, NEW r \in Slots, ReadOld(r)
    PROVE  /\ \/ /\ Moving(r, "ReadOld") /\ Alone(r)
                 /\ request'[r].old = Whole(request[r].subject)
              \/ Ending(r) /\ request'[r].answer = "error"
           /\ Sound(request'[r])
           /\ request' = [s \in Slots |-> request'[s]]
<1> DEFINE q == request[r]
           p == request'[r]
           mine == [Next1(q) EXCEPT !.old = Whole(q.subject)]
<1>1. /\ Runs(r, "ReadOld") /\ UNCHANGED tables /\ q.pc = "work" /\ Sound(q)
      /\ "ReadOld" \in Statements \ {"Log"}
      /\ request' = [request EXCEPT ![r] = mine] \/ Answer(r, "error")
  BY DEF ReadOld, Reads, Runs, Working, Typed, Statements
<1>2. CASE Answer(r, "error")
  BY <1>1, <1>2, Answered DEF Ending, Alone
<1>3. CASE request' = [request EXCEPT ![r] = mine]
  <2>1. Alone(r) /\ p = mine /\ request' = [s \in Slots |-> request'[s]]
    BY <1>1, <1>3 DEF Alone, Typed
  <2>2. IsRequest(q) /\ q.answer = "none"
    BY <1>1 DEF Sound
  <2>3. /\ IsRequest(p) /\ p.old = Whole(q.subject)
        /\ p.pc = "work" /\ p.answer = "none" /\ p.calls = q.calls /\ SameAsk(q, p)
        /\ p.todo = Tail(q.todo) /\ p.seen = q.seen /\ p.logged = q.logged
        /\ p.new = q.new /\ p.base = q.base /\ p.fresh = q.fresh
    <3> DEFINE n == Next1(q)
    <3>1. /\ IsRequest(n)
          /\ n.pc = q.pc /\ n.ask = q.ask /\ n.handler = q.handler /\ n.subject = q.subject
          /\ n.admin = q.admin /\ n.calls = q.calls /\ n.todo = Tail(q.todo)
          /\ n.seen = q.seen /\ n.old = q.old /\ n.base = q.base /\ n.new = q.new
          /\ n.fresh = q.fresh /\ n.quiet = q.quiet /\ n.before = q.before
          /\ n.logged = q.logged /\ n.answer = q.answer
      BY <2>2, NextFields
    <3>2. p = [n EXCEPT !.old = Whole(q.subject)]
      BY <2>1
    <3> HIDE DEF n, p, q
    <3> QED BY <1>1, <2>2, <3>1, <3>2 DEF SameAsk, IsRequest
  <2>4. Moving(r, "ReadOld")
    <3> HIDE DEF mine
    <3> QED BY <1>1, <2>3 DEF Moving
  <2> QED BY <2>1, <2>3, <2>4, MovingSound
<1> QED BY <1>1, <1>2, <1>3

\* It is read as the change is made from it.
LEMMA ReadCurrentKind ==
    ASSUME Typed, NEW r \in Slots, ReadCurrent(r)
    PROVE  /\ \/ /\ Moving(r, "ReadCurrent") /\ Alone(r)
                 /\ request'[r].base = row[request[r].subject]
                 /\ request'[r].fresh
                 /\ Exists(request[r].subject)
              \/ Ending(r) /\ request'[r].answer = "error"
           /\ Sound(request'[r])
           /\ request' = [s \in Slots |-> request'[s]]
<1> DEFINE q == request[r]
           p == request'[r]
           mine == [Next1(q) EXCEPT !.base = row[q.subject], !.fresh = TRUE]
<1>1. /\ Runs(r, "ReadCurrent") /\ UNCHANGED tables /\ q.pc = "work" /\ Sound(q)
      /\ "ReadCurrent" \in Statements \ {"Log"}
      /\ \/ Answer(r, "error")
         \/ request' = [request EXCEPT ![r] = mine] /\ Exists(q.subject)
  BY DEF ReadCurrent, Reads, Runs, Working, Typed, Statements
<1>2. CASE Answer(r, "error")
  BY <1>1, <1>2, Answered DEF Ending, Alone
<1>3. CASE request' = [request EXCEPT ![r] = mine] /\ Exists(q.subject)
  <2>1. Alone(r) /\ p = mine /\ request' = [s \in Slots |-> request'[s]]
    BY <1>1, <1>3 DEF Alone, Typed
  <2>2. IsRequest(q) /\ q.answer = "none"
    BY <1>1 DEF Sound
  <2>3. /\ IsRequest(p) /\ p.base = row[q.subject] /\ p.fresh
        /\ p.pc = "work" /\ p.answer = "none" /\ p.calls = q.calls /\ SameAsk(q, p)
        /\ p.todo = Tail(q.todo) /\ p.seen = q.seen /\ p.logged = q.logged
        /\ p.new = q.new /\ p.old = q.old
    <3> DEFINE n == Next1(q)
    <3>1. /\ IsRequest(n)
          /\ n.pc = q.pc /\ n.ask = q.ask /\ n.handler = q.handler /\ n.subject = q.subject
          /\ n.admin = q.admin /\ n.calls = q.calls /\ n.todo = Tail(q.todo)
          /\ n.seen = q.seen /\ n.old = q.old /\ n.base = q.base /\ n.new = q.new
          /\ n.fresh = q.fresh /\ n.quiet = q.quiet /\ n.before = q.before
          /\ n.logged = q.logged /\ n.answer = q.answer
      BY <2>2, NextFields
    <3>2. p = [n EXCEPT !.base = row[q.subject], !.fresh = TRUE]
      BY <2>1
    <3> HIDE DEF n, p, q
    <3> QED BY <1>1, <2>2, <3>1, <3>2 DEF SameAsk, IsRequest
  <2>4. Moving(r, "ReadCurrent")
    <3> HIDE DEF mine
    <3> QED BY <1>1, <2>3 DEF Moving
  <2> QED BY <1>3, <2>1, <2>3, <2>4, MovingSound
<1> QED BY <1>1, <1>2, <1>3

\* It is read as the change left it.
LEMMA ReadBackKind ==
    ASSUME Typed, NEW r \in Slots, ReadBack(r)
    PROVE  /\ \/ /\ Moving(r, "ReadBack") /\ Alone(r)
                 /\ request'[r].new = Whole(request[r].subject)
              \/ Ending(r) /\ request'[r].answer = "error"
           /\ Sound(request'[r])
           /\ request' = [s \in Slots |-> request'[s]]
<1> DEFINE q == request[r]
           p == request'[r]
           mine == [Next1(q) EXCEPT !.new = Whole(q.subject)]
<1>1. /\ Runs(r, "ReadBack") /\ UNCHANGED tables /\ q.pc = "work" /\ Sound(q)
      /\ "ReadBack" \in Statements \ {"Log"}
      /\ request' = [request EXCEPT ![r] = mine] \/ Answer(r, "error")
  BY DEF ReadBack, Reads, Runs, Working, Typed, Statements
<1>2. CASE Answer(r, "error")
  BY <1>1, <1>2, Answered DEF Ending, Alone
<1>3. CASE request' = [request EXCEPT ![r] = mine]
  <2>1. Alone(r) /\ p = mine /\ request' = [s \in Slots |-> request'[s]]
    BY <1>1, <1>3 DEF Alone, Typed
  <2>2. IsRequest(q) /\ q.answer = "none"
    BY <1>1 DEF Sound
  <2>3. /\ IsRequest(p) /\ p.new = Whole(q.subject)
        /\ p.pc = "work" /\ p.answer = "none" /\ p.calls = q.calls /\ SameAsk(q, p)
        /\ p.todo = Tail(q.todo) /\ p.seen = q.seen /\ p.logged = q.logged
        /\ p.old = q.old /\ p.base = q.base /\ p.fresh = q.fresh
    <3> DEFINE n == Next1(q)
    <3>1. /\ IsRequest(n)
          /\ n.pc = q.pc /\ n.ask = q.ask /\ n.handler = q.handler /\ n.subject = q.subject
          /\ n.admin = q.admin /\ n.calls = q.calls /\ n.todo = Tail(q.todo)
          /\ n.seen = q.seen /\ n.old = q.old /\ n.base = q.base /\ n.new = q.new
          /\ n.fresh = q.fresh /\ n.quiet = q.quiet /\ n.before = q.before
          /\ n.logged = q.logged /\ n.answer = q.answer
      BY <2>2, NextFields
    <3>2. p = [n EXCEPT !.new = Whole(q.subject)]
      BY <2>1
    <3> HIDE DEF n, p, q
    <3> QED BY <1>1, <2>2, <3>1, <3>2 DEF SameAsk, IsRequest
  <2>4. Moving(r, "ReadBack")
    <3> HIDE DEF mine
    <3> QED BY <1>1, <2>3 DEF Moving
  <2> QED BY <2>1, <2>3, <2>4, MovingSound
<1> QED BY <1>1, <1>2, <1>3

\* The user of an email is looked for.
LEMMA FindKind ==
    ASSUME Typed, NEW r \in Slots, Find(r)
    PROVE  /\ \/ /\ Moving(r, "Find") /\ Alone(r)
                 /\ request'[r].base = row[request[r].subject]
           /\ Sound(request'[r])
           /\ request' = [s \in Slots |-> request'[s]]
<1> DEFINE q == request[r]
           p == request'[r]
           mine == [Next1(q) EXCEPT !.base = row[q.subject]]
<1>1. /\ Runs(r, "Find") /\ UNCHANGED tables /\ q.pc = "work" /\ Sound(q)
      /\ "Find" \in Statements \ {"Log"}
      /\ request' = [request EXCEPT ![r] = mine]
  BY DEF Find, Reads, Runs, Working, Typed, Statements
<1>3. CASE request' = [request EXCEPT ![r] = mine]
  <2>1. Alone(r) /\ p = mine /\ request' = [s \in Slots |-> request'[s]]
    BY <1>1, <1>3 DEF Alone, Typed
  <2>2. IsRequest(q) /\ q.answer = "none"
    BY <1>1 DEF Sound
  <2>3. /\ IsRequest(p) /\ p.base = row[q.subject]
        /\ p.pc = "work" /\ p.answer = "none" /\ p.calls = q.calls /\ SameAsk(q, p)
        /\ p.todo = Tail(q.todo) /\ p.seen = q.seen /\ p.logged = q.logged
        /\ p.new = q.new /\ p.old = q.old /\ p.fresh = q.fresh
    <3> DEFINE n == Next1(q)
    <3>1. /\ IsRequest(n)
          /\ n.pc = q.pc /\ n.ask = q.ask /\ n.handler = q.handler /\ n.subject = q.subject
          /\ n.admin = q.admin /\ n.calls = q.calls /\ n.todo = Tail(q.todo)
          /\ n.seen = q.seen /\ n.old = q.old /\ n.base = q.base /\ n.new = q.new
          /\ n.fresh = q.fresh /\ n.quiet = q.quiet /\ n.before = q.before
          /\ n.logged = q.logged /\ n.answer = q.answer
      BY <2>2, NextFields
    <3>2. p = [n EXCEPT !.base = row[q.subject]]
      BY <2>1
    <3> HIDE DEF n, p, q
    <3> QED BY <1>1, <2>2, <3>1, <3>2 DEF SameAsk, IsRequest
  <2>4. Moving(r, "Find")
    <3> HIDE DEF mine
    <3> QED BY <1>1, <2>3 DEF Moving
  <2> QED BY <2>1, <2>3, <2>4, MovingSound
<1> QED BY <1>1, <1>3

\* A test is sent, or fails and has its audit row to write.
LEMMA SendKind ==
    ASSUME Typed, NEW r \in Slots, Send(r)
    PROVE  /\ \/ Moving(r, "Send") /\ Alone(r)
              \/ Sending(r)
           /\ Sound(request'[r])
           /\ request' = [s \in Slots |-> request'[s]]
<1> DEFINE q == request[r]
           p == request'[r]
<1>1. /\ Runs(r, "Send") /\ UNCHANGED tables /\ q.pc = "work" /\ Sound(q) /\ Changing(q)
      /\ "Send" \in Statements \ {"Log"} /\ q.handler = "test_channel" /\ q.calls = <<>>
  <2>1. Runs(r, "Send") /\ "Send" \in Statements \ {"Log"}
    BY DEF Send, Statements
  <2> QED BY <2>1, RunsSound, Whose DEF Send, Typed, Changing
<1>2. IsRequest(q) /\ q.answer = "none" /\ Guarded(q)
  BY <1>1 DEF Sound
<1>3. CASE request' = [request EXCEPT ![r] = Next1(q)]
  <2>1. Alone(r) /\ p = Next1(q) /\ request' = [s \in Slots |-> request'[s]]
    BY <1>1, <1>3 DEF Alone, Typed
  <2>2. /\ IsRequest(p)
        /\ p.pc = "work" /\ p.answer = "none" /\ p.calls = q.calls /\ SameAsk(q, p)
        /\ p.todo = Tail(q.todo) /\ p.seen = q.seen /\ p.logged = q.logged
        /\ p.new = q.new /\ p.old = q.old /\ p.base = q.base /\ p.fresh = q.fresh
    <3> HIDE DEF p, q
    <3> QED BY <1>1, <1>2, <2>1, NextFields DEF SameAsk
  <2>3. Moving(r, "Send")
    BY <1>1, <2>2 DEF Moving
  <2> QED BY <2>1, <2>2, <2>3, MovingSound
<1>4. CASE request' = [request EXCEPT ![r].todo = <<"LogError">>]
  <2>1. /\ Alone(r) /\ p = [q EXCEPT !.todo = <<"LogError">>]
        /\ request' = [s \in Slots |-> request'[s]]
    BY <1>1, <1>4 DEF Alone, Typed
  <2>2. /\ IsRequest(p)
        /\ p.pc = "work" /\ p.answer = "none" /\ p.calls = <<>> /\ SameAsk(q, p)
        /\ p.todo = <<"LogError">> /\ p.seen = q.seen
    <3> HIDE DEF p, q
    <3> QED BY <1>1, <1>2, <2>1 DEF SameAsk, IsRequest
  <2> HIDE DEF p, q
  <2>3. Failing(p) /\ Guarded(p)
    BY <1>1, <1>2, <2>2 DEF Failing, SameAsk, Guarded
  <2>4. Sound(p)
    BY <1>1, <2>2, <2>3 DEF Sound, SameAsk
  <2> QED BY <1>1, <2>1, <2>2, <2>3, <2>4 DEF Sending, p, q
<1> QED BY <1>3, <1>4 DEF Send
-----------------------------------------------------------------------------
(* What each writing statement does to the tables, and to those beside it. *)

\* Where nothing is written, all lasts.
LEMMA AloneLasting ==
    ASSUME Typed, Referred, NEW r, Alone(r)
    PROVE  Lasting(r) /\ Referred'
BY DEF Alone, Lasting, tables, Typed, Referred, Refers, Exists

\* A writing statement goes on to the next one and tells the others.
LEMMA WriteKind ==
    ASSUME Typed, NEW r \in Slots, NEW s \in Statements \ {"Log"}, Runs(r, s),
           s \notin {"ReadOld", "ReadCurrent", "ReadBack", "Find"}, NEW rows,
           Disturb(r, rows, Next1(request[r])),
           \A x \in Rows \ rows : row'[x] = row[x] /\ (x \in Targets => tags'[x] = tags[x])
    PROVE  /\ Moving(r, s) /\ Beside(r) /\ \A o \in Slots : Sound(request'[o])
           /\ request' = [o \in Slots |-> request'[o]]
<1> DEFINE q == request[r]
           p == request'[r]
<1>1. p = Next1(q)
  BY DEF Disturb
<1>2. /\ Sound(q) /\ Changing(q) /\ q.pc = "work"
  BY RunsSound DEF Typed
<1>3. IsRequest(q) /\ q.answer = "none"
  BY <1>2 DEF Sound
<1>4. /\ IsRequest(p)
      /\ p.pc = "work" /\ p.answer = "none" /\ p.calls = q.calls /\ SameAsk(q, p)
      /\ p.todo = Tail(q.todo) /\ p.seen = q.seen /\ p.logged = q.logged
      /\ p.new = q.new /\ p.old = q.old /\ p.base = q.base /\ p.fresh = q.fresh
  <2> HIDE DEF p, q
  <2> QED BY <1>1, <1>2, <1>3, NextFields DEF SameAsk
<1>5. Moving(r, s)
  BY <1>4 DEF Moving
<1>6. Sound(p)
  BY <1>4, <1>5, MovingSound
<1>7. Sound(Next1(q))
  BY <1>1, <1>6
<1> QED BY <1>5, <1>7, DisturbEffects

\* The rows of an Over are those of both.
LEMMA OverColumns ==
    ASSUME NEW given, NEW base
    PROVE  /\ DOMAIN Over(given, base) = DOMAIN given \cup DOMAIN base
           /\ \A c \in DOMAIN base \ DOMAIN given : Over(given, base)[c] = base[c]
           /\ \A c \in DOMAIN given : Over(given, base)[c] = given[c]
BY DEF Over

\* A row with a column is there.
LEMMA SomeColumn ==
    ASSUME NEW columns, DOMAIN columns # {}
    PROVE  columns # Absent
<1>1. DOMAIN <<>> = {}
  OBVIOUS
<1> QED BY <1>1 DEF Absent

\* INSERT, with a column at least; a window of a target that is there, or of none.
LEMMA InsertKind ==
    ASSUME Typed, Referred, NEW r \in Slots, Insert(r)
    PROVE  /\ \/ Moving(r, "Insert") /\ Beside(r)
              \/ Ending(r) /\ request'[r].answer = "error"
           /\ Lasting(r) /\ Referred' /\ \A s \in Slots : Sound(request'[s])
           /\ request' = [s \in Slots |-> request'[s]]
<1> DEFINE q == request[r]
           x == q.subject
<1>1. Runs(r, "Insert") /\ "Insert" \in Statements \ {"Log"} /\ q.pc = "work" /\ Sound(q)
  BY DEF Insert, Statements, Runs, Working, Typed
<1>2. x \in Targets \cup Channels \cup Windows
  BY <1>1, Whose
<1>3. CASE Answer(r, "error") /\ UNCHANGED row
  <2>1. Alone(r) /\ Ending(r) /\ request'[r].answer = "error" /\ Sound(request'[r])
    BY <1>1, <1>3, Answered DEF Insert, Ending, Alone, tables
  <2> QED BY <1>3, <1>1, <2>1, Answered, AloneLasting, AloneEffects
<1>4. CASE /\ row' = [row EXCEPT ![x] = NewRow(q)] /\ Disturb(r, {x}, Next1(q))
           /\ x \in Windows => q.ask.names.target = None \/ Exists(q.ask.names.target)
  <2>1. /\ row' = [y \in Rows |-> IF y = x THEN NewRow(q) ELSE row[y]]
        /\ tags' = tags /\ stateRow' = stateRow /\ link' = link
    BY <1>4 DEF Insert, Typed
  <2>2. /\ Moving(r, "Insert") /\ Beside(r) /\ \A o \in Slots : Sound(request'[o])
        /\ request' = [o \in Slots |-> request'[o]]
    BY <1>1, <1>4, <2>1, WriteKind
  <2>3. x \notin Incidents
    BY <1>2, IdsAssumption
  <2>4. Lasting(r)
    BY <1>1, <2>1, <2>3 DEF Lasting, Typed, Referred, Refers, Exists, Rows
  <2>5. x \in Windows => NewRow(q) = q.ask.names
    BY IdsAssumption DEF NewRow
  <2>6. x \notin Windows => NewRow(q) = Over(q.ask.names, [enabled |-> TRUE, owner |-> q.ask.user])
    BY <1>2 DEF NewRow, NewTarget, NewChannel
  <2>7. NewRow(q) # Absent
    <3>1. DOMAIN q.ask.names # {}
      BY <1>1, Whose
    <3>2. DOMAIN q.ask.names \subseteq DOMAIN Over(q.ask.names, [enabled |-> TRUE, owner |-> q.ask.user])
      BY SMT DEF Over
    <3>3. DOMAIN NewRow(q) # {}
      BY <2>5, <2>6, <3>1, <3>2
    <3> QED BY <3>3, SomeColumn
  <2>8. \A y \in Rows : Exists(y) => Exists(y)'
    BY <2>1, <2>7 DEF Exists
  <2>9. ASSUME NEW y \in Incidents \cup Windows PROVE Refers(y)'
    <3>1. CASE y # x
      BY <2>1, <2>8, <2>9, <3>1 DEF Referred, Refers, Exists, Rows
    <3>2. CASE y = x
      <4>1. y \in Windows /\ row'[y] = q.ask.names
        BY <2>1, <2>3, <2>5, <2>9, <3>2 DEF Rows
      <4>2. /\ "target" \in DOMAIN q.ask.names
            /\ q.ask.names.target \in Targets \cup {None}
        BY <1>1, <3>2, <4>1, Whose
      <4>3. q.ask.names.target = None \/ row'[q.ask.names.target] # Absent
        BY <1>4, <2>8, <3>2, <4>1, <4>2 DEF Rows, Exists
      <4> QED BY <4>1, <4>2, <4>3 DEF Refers, Exists
    <3> QED BY <3>1, <3>2
  <2>10. Referred'
    BY <2>1, <2>8, <2>9 DEF Referred, Typed, Rows
  <2> QED BY <2>2, <2>4, <2>10
<1> QED BY <1>3, <1>4 DEF Insert

\* The tags of a target, taken away.
LEMMA ClearTagsKind ==
    ASSUME Typed, Referred, NEW r \in Slots, ClearTags(r)
    PROVE  /\ Moving(r, "ClearTags") /\ Beside(r)
           /\ Lasting(r) /\ Referred' /\ \A s \in Slots : Sound(request'[s])
           /\ request' = [s \in Slots |-> request'[s]]
<1> DEFINE q == request[r]
           x == q.subject
<1>1. Runs(r, "ClearTags") /\ "ClearTags" \in Statements \ {"Log"}
  BY DEF ClearTags, Statements
<1>2. /\ tags' = [t \in Targets |-> IF t = x THEN {} ELSE tags[t]] /\ Disturb(r, {x}, Next1(q))
      /\ row' = row /\ stateRow' = stateRow /\ link' = link
  BY DEF ClearTags, Typed
<1>3. /\ Moving(r, "ClearTags") /\ Beside(r) /\ \A o \in Slots : Sound(request'[o])
      /\ request' = [o \in Slots |-> request'[o]]
  BY <1>1, <1>2, WriteKind
<1>4. Lasting(r) /\ Referred'
  BY <1>2 DEF Lasting, Typed, Referred, Refers, Exists
<1> QED BY <1>3, <1>4

\* The new tags, if the target is still there.
LEMMA PutTagsKind ==
    ASSUME Typed, Referred, NEW r \in Slots, PutTags(r)
    PROVE  /\ \/ Moving(r, "PutTags") /\ Beside(r)
              \/ Ending(r) /\ request'[r].answer = "error"
           /\ Lasting(r) /\ Referred' /\ \A s \in Slots : Sound(request'[s])
           /\ request' = [s \in Slots |-> request'[s]]
<1> DEFINE q == request[r]
           x == q.subject
<1>1. Runs(r, "PutTags") /\ "PutTags" \in Statements \ {"Log"} /\ q.pc = "work"
  BY DEF PutTags, Statements, Runs, Working
<1>2. CASE Answer(r, "error") /\ UNCHANGED tags
  <2>1. Alone(r) /\ Ending(r) /\ request'[r].answer = "error" /\ Sound(request'[r])
    BY <1>1, <1>2, Answered DEF PutTags, Ending, Alone, tables
  <2> QED BY <1>1, <1>2, <2>1, Answered, AloneLasting, AloneEffects
<1>3. CASE /\ Exists(x) /\ tags' = [tags EXCEPT ![x] = @ \cup q.ask.tags]
           /\ Disturb(r, {x}, Next1(q))
  <2>1. /\ tags' = [t \in Targets |-> IF t = x THEN tags[t] \cup q.ask.tags ELSE tags[t]]
        /\ row' = row /\ stateRow' = stateRow /\ link' = link
    BY <1>3 DEF PutTags, Typed
  <2>2. /\ Moving(r, "PutTags") /\ Beside(r) /\ \A o \in Slots : Sound(request'[o])
        /\ request' = [o \in Slots |-> request'[o]]
    BY <1>1, <1>3, <2>1, WriteKind
  <2>3. Lasting(r) /\ Referred'
    BY <1>3, <2>1 DEF Lasting, Typed, Referred, Refers, Exists
  <2> QED BY <2>2, <2>3
<1> QED BY <1>2, <1>3 DEF PutTags

\* The statements that write no row and no tags move one request and no other.
LEMMA StepAlone ==
    ASSUME Typed, NEW r \in Slots, NEW s \in Statements \ {"Log"}, Runs(r, s),
           s \notin {"ReadOld", "ReadCurrent", "ReadBack", "Find"},
           request' = [request EXCEPT ![r] = Next1(request[r])], UNCHANGED <<row, tags>>
    PROVE  /\ Moving(r, s) /\ Beside(r) /\ \A o \in Slots : Sound(request'[o])
           /\ request' = [o \in Slots |-> request'[o]]
<1>1. Disturb(r, {}, Next1(request[r]))
  BY DEF Disturb, Typed
<1> QED BY <1>1, WriteKind

\* The state row of a new target.
LEMMA PutStateKind ==
    ASSUME Typed, Referred, NEW r \in Slots, PutState(r)
    PROVE  /\ \/ /\ Moving(r, "PutState") /\ Beside(r)
                 /\ request[r].subject \in stateRow'
              \/ Ending(r) /\ request'[r].answer = "error"
           /\ Lasting(r) /\ Referred' /\ \A s \in Slots : Sound(request'[s])
           /\ request' = [s \in Slots |-> request'[s]]
<1> DEFINE q == request[r]
           x == q.subject
<1>1. /\ Runs(r, "PutState") /\ "PutState" \in Statements \ {"Log"} /\ q.pc = "work"
      /\ UNCHANGED <<row, tags>> /\ link' = link
  BY DEF PutState, Statements, Runs, Working
<1>2. CASE Answer(r, "error") /\ UNCHANGED stateRow
  <2>1. Alone(r) /\ Ending(r) /\ request'[r].answer = "error" /\ Sound(request'[r])
    BY <1>1, <1>2, Answered DEF Ending, Alone, tables
  <2> QED BY <1>1, <1>2, <2>1, Answered, AloneLasting, AloneEffects
<1>3. CASE /\ Exists(x) /\ stateRow' = stateRow \cup {x}
           /\ request' = [request EXCEPT ![r] = Next1(q)]
  <2>1. /\ Moving(r, "PutState") /\ Beside(r) /\ \A o \in Slots : Sound(request'[o])
        /\ request' = [o \in Slots |-> request'[o]]
    BY <1>1, <1>3, StepAlone
  <2>2. x \in Targets
    BY <1>1, Whose
  <2>3. Lasting(r) /\ Referred'
    BY <1>1, <1>3, <2>2 DEF Lasting, Typed, Referred, Refers, Exists
  <2> QED BY <1>3, <2>1, <2>3
<1> QED BY <1>2, <1>3 DEF PutState

\* An attachment is made.
LEMMA AttachKind ==
    ASSUME Typed, Referred, NEW r \in Slots, Attach(r)
    PROVE  /\ \/ Moving(r, "Attach") /\ Beside(r)
              \/ Ending(r) /\ request'[r].answer = "error"
           /\ Lasting(r) /\ Referred' /\ \A s \in Slots : Sound(request'[s])
           /\ request' = [s \in Slots |-> request'[s]]
<1> DEFINE q == request[r]
<1>1. /\ Runs(r, "Attach") /\ "Attach" \in Statements \ {"Log"} /\ q.pc = "work"
      /\ UNCHANGED <<row, tags>> /\ stateRow' = stateRow
  BY DEF Attach, Statements, Runs, Working
<1>2. CASE Answer(r, "error") /\ UNCHANGED link
  <2>1. Alone(r) /\ Ending(r) /\ request'[r].answer = "error" /\ Sound(request'[r])
    BY <1>1, <1>2, Answered DEF Ending, Alone, tables
  <2> QED BY <1>1, <1>2, <2>1, Answered, AloneLasting, AloneEffects
<1>3. CASE /\ Exists(q.subject) /\ Exists(q.ask.channel)
           /\ link' = link \cup {<<q.subject, q.ask.channel>>}
           /\ request' = [request EXCEPT ![r] = Next1(q)]
  <2>1. /\ Moving(r, "Attach") /\ Beside(r) /\ \A o \in Slots : Sound(request'[o])
        /\ request' = [o \in Slots |-> request'[o]]
    BY <1>1, <1>3, StepAlone
  <2>2. q.subject \in Targets /\ q.ask.channel \in Channels
    BY <1>1, Whose
  <2>3. Lasting(r) /\ Referred'
    BY <1>1, <1>3, <2>2 DEF Lasting, Typed, Referred, Refers, Exists
  <2> QED BY <2>1, <2>3
<1> QED BY <1>2, <1>3 DEF Attach

\* An attachment is taken away.
LEMMA DetachKind ==
    ASSUME Typed, Referred, NEW r \in Slots, Detach(r)
    PROVE  /\ Moving(r, "Detach") /\ Beside(r)
           /\ Lasting(r) /\ Referred' /\ \A s \in Slots : Sound(request'[s])
           /\ request' = [s \in Slots |-> request'[s]]
<1>1. /\ Runs(r, "Detach") /\ "Detach" \in Statements \ {"Log"}
      /\ UNCHANGED <<row, tags>> /\ stateRow' = stateRow /\ link' \subseteq link
      /\ request' = [request EXCEPT ![r] = Next1(request[r])]
  BY DEF Detach, Statements
<1>2. /\ Moving(r, "Detach") /\ Beside(r) /\ \A o \in Slots : Sound(request'[o])
      /\ request' = [o \in Slots |-> request'[o]]
  BY <1>1, StepAlone
<1>3. Lasting(r) /\ Referred'
  BY <1>1 DEF Lasting, Typed, Referred, Refers, Exists
<1> QED BY <1>2, <1>3

\* UPDATE.  An incident keeps its target.
LEMMA UpdateKind ==
    ASSUME Typed, Referred, NEW r \in Slots, Stands(request[r]), Update(r)
    PROVE  /\ Moving(r, "Update") /\ Beside(r)
           /\ Lasting(r) /\ Referred' /\ \A s \in Slots : Sound(request'[s])
           /\ request' = [s \in Slots |-> request'[s]]
           /\ LET q == request[r]
                  x == q.subject
              IN /\ x \in Rows
                 /\ row'[x] = IF Exists(x) THEN Over(q.ask.names, q.base) ELSE row[x]
<1> DEFINE q == request[r]
           x == q.subject
           written == Over(q.ask.names, q.base)
<1>1. Runs(r, "Update") /\ "Update" \in Statements \ {"Log"} /\ At(q, "Update")
  BY DEF Update, Statements, Runs, Working, At
<1>2. /\ x \in Targets \cup Channels \cup Incidents
      /\ x \in Incidents => q.handler = "resolve_incident" /\ "target" \notin DOMAIN q.ask.names
      /\ DOMAIN q.ask.names # {}
  BY <1>1, Whose
<1>3. Rewritten(q) = written
  BY <1>2 DEF Rewritten, Merged, MergedChannel, Resolved
<1>4. /\ row' = [y \in Rows |-> IF y = x /\ Exists(x) THEN written ELSE row[y]]
      /\ Disturb(r, {x}, Next1(q))
      /\ tags' = tags /\ stateRow' = stateRow /\ link' = link
  BY <1>3 DEF Update, Typed, Exists
<1>5. /\ Moving(r, "Update") /\ Beside(r) /\ \A o \in Slots : Sound(request'[o])
      /\ request' = [o \in Slots |-> request'[o]]
  BY <1>1, <1>4, WriteKind
<1>6. x \in Rows
  BY <1>2 DEF Rows
<1>7. written # Absent
  <2>1. DOMAIN written = DOMAIN q.ask.names \cup DOMAIN q.base
    BY OverColumns
  <2>2. DOMAIN written # {}
    BY <1>2, <2>1
  <2> HIDE DEF written
  <2> QED BY <2>2, SomeColumn
<1>8. ASSUME x \in Incidents, Exists(x)
      PROVE  "target" \in DOMAIN written /\ written.target = row[x].target
  <2>1. "target" \in DOMAIN q.base /\ q.base.target = row[x].target
    BY <1>1, <1>2, <1>8 DEF Stands, BaseStands
  <2>2. "target" \notin DOMAIN q.ask.names
    BY <1>2, <1>8
  <2>3. /\ DOMAIN written = DOMAIN q.ask.names \cup DOMAIN q.base
        /\ \A c \in DOMAIN q.base \ DOMAIN q.ask.names : written[c] = q.base[c]
    BY OverColumns
  <2> HIDE DEF written, x, q
  <2> QED BY <2>1, <2>2, <2>3
<1> HIDE DEF written, q, x
<1>9. \A y \in Rows : Exists(y)' <=> Exists(y)
  BY <1>4, <1>7 DEF Exists
<1>10. Lasting(r)
  <2>1. ASSUME NEW y \in Incidents, Exists(y)'
        PROVE  "target" \in DOMAIN row[y] /\ row'[y].target = row[y].target
    <3>1. y \in Rows /\ Exists(y)
      BY <1>9, <2>1 DEF Rows
    <3>2. "target" \in DOMAIN row[y]
      BY <3>1 DEF Referred, Refers
    <3> QED BY <1>4, <1>8, <3>1, <3>2
  <2> QED BY <1>4, <1>9, <2>1 DEF Lasting, Typed, Rows
<1>11. Referred'
  <2>1. ASSUME NEW y \in Incidents \cup Windows PROVE Refers(y)'
    <3>1. CASE y # x
      BY <1>4, <1>9, <2>1, <3>1 DEF Referred, Refers, Exists, Rows
    <3>2. CASE y = x /\ Exists(y)
      <4>1. y \in Incidents
        BY <1>2, <2>1, <3>2, IdsAssumption
      <4>2. "target" \in DOMAIN row'[y] /\ row'[y].target = row[y].target
        BY <1>4, <1>6, <1>8, <3>2, <4>1
      <4>3. row[y].target = None \/ (row[y].target \in Targets /\ Exists(row[y].target))
        BY <2>1, <3>2 DEF Referred, Refers
      <4>4. row[y].target = None \/ (row[y].target \in Targets /\ row'[row[y].target] # Absent)
        BY <1>9, <4>3 DEF Rows, Exists
      <4> QED BY <4>2, <4>4 DEF Refers, Exists
    <3>3. CASE y = x /\ ~Exists(y)
      BY <1>6, <1>9, <3>3 DEF Refers
    <3> QED BY <3>1, <3>2, <3>3
  <2> QED BY <1>4, <1>9, <2>1 DEF Referred, Typed, Rows
<1> QED BY <1>4, <1>5, <1>6, <1>10, <1>11 DEF q, x, written

\* The row of a user.
LEMMA StoreKind ==
    ASSUME Typed, Referred, NEW r \in Slots, Store(r)
    PROVE  /\ \/ Moving(r, "Store") /\ Beside(r)
              \/ Ending(r) /\ request'[r].answer = "error"
           /\ Lasting(r) /\ Referred' /\ \A s \in Slots : Sound(request'[s])
           /\ request' = [s \in Slots |-> request'[s]]
<1> DEFINE q == request[r]
           x == q.subject
<1>1. /\ Runs(r, "Store") /\ "Store" \in Statements \ {"Log"} /\ q.pc = "work"
      /\ tags' = tags /\ stateRow' = stateRow /\ link' = link
  BY DEF Store, Statements, Runs, Working
<1>2. CASE Answer(r, "error") /\ UNCHANGED row
  <2>1. Alone(r) /\ Ending(r) /\ request'[r].answer = "error" /\ Sound(request'[r])
    BY <1>1, <1>2, Answered DEF Ending, Alone, tables
  <2> QED BY <1>1, <1>2, <2>1, Answered, AloneLasting, AloneEffects
<1>3. CASE row' = [row EXCEPT ![x] = q.ask.names] /\ Disturb(r, {x}, Next1(q))
  <2>1. row' = [y \in Rows |-> IF y = x THEN q.ask.names ELSE row[y]]
    BY <1>3 DEF Typed
  <2>2. /\ Moving(r, "Store") /\ Beside(r) /\ \A o \in Slots : Sound(request'[o])
        /\ request' = [o \in Slots |-> request'[o]]
    BY <1>1, <1>3, <2>1, WriteKind
  <2>3. x \in Users
    BY <1>1, Whose
  <2>4. \A y \in Rows \ Users : row'[y] = row[y]
    BY <2>1, <2>3
  <2>5. \A y \in Targets \cup Channels \cup Windows \cup Incidents : y \in Rows \ Users
    BY IdsAssumption DEF Rows
  <2>6. Lasting(r)
    BY <1>1, <2>1, <2>4, <2>5 DEF Lasting, Typed, Referred, Refers, Exists
  <2>7. Referred'
    BY <1>1, <2>4, <2>5 DEF Typed, Referred, Refers, Exists
  <2> QED BY <2>2, <2>6, <2>7
<1> QED BY <1>2, <1>3 DEF Store

\* DELETE, and what the foreign keys make of it.
LEMMA DeleteKind ==
    ASSUME Typed, Referred, NEW r \in Slots, Delete(r)
    PROVE  /\ Moving(r, "Delete") /\ Beside(r)
           /\ Lasting(r) /\ Referred' /\ \A s \in Slots : Sound(request'[s])
           /\ request' = [s \in Slots |-> request'[s]]
<1> DEFINE q == request[r]
           x == q.subject
<1>1. Runs(r, "Delete") /\ "Delete" \in Statements \ {"Log"}
  BY DEF Delete, Statements
<1>2. /\ row' = Cascaded(x) /\ tags' = [t \in Targets |-> IF t = x THEN {} ELSE tags[t]]
      /\ stateRow' = stateRow \ {x} /\ link' = {l \in link : x \notin {l[1], l[2]}}
      /\ Disturb(r, {y \in Rows : y = x \/ row'[y] # row[y]}, Next1(q))
  BY DEF Delete
<1>3. x \in Targets \cup Channels
  BY <1>1, Whose
<1>4. /\ Moving(r, "Delete") /\ Beside(r) /\ \A o \in Slots : Sound(request'[o])
      /\ request' = [o \in Slots |-> request'[o]]
  BY <1>1, <1>2, WriteKind
<1>5. \A t \in Targets \cup Channels : t \in Rows /\ t \notin Incidents /\ t \notin Windows
  BY IdsAssumption DEF Rows
<1> HIDE DEF q, x
<1>6. /\ \A t \in Targets \cup Channels : t # x => row'[t] = row[t]
      /\ row'[x] = Absent
  BY <1>2, <1>3, <1>5 DEF Cascaded
<1>7. row' = [y \in Rows |-> row'[y]]
  BY <1>2 DEF Cascaded
<1>8. ASSUME NEW y \in Incidents
      PROVE  row'[y] = IF Exists(y) /\ row[y].target = x THEN Absent ELSE row[y]
  <2>1. y \in Rows /\ y # x
    BY <1>3, <1>5 DEF Rows
  <2> QED BY <1>2, <2>1, IdsAssumption DEF Cascaded
<1>9. ASSUME NEW y \in Windows
      PROVE  row'[y] = IF Exists(y) /\ row[y].target = x THEN [row[y] EXCEPT !.target = None]
                       ELSE row[y]
  <2>1. y \in Rows /\ y # x /\ y \notin Incidents
    BY <1>3, <1>5, IdsAssumption DEF Rows
  <2> QED BY <1>2, <2>1 DEF Cascaded
<1>10. Lasting(r)
  <2>1. ASSUME NEW y \in Rows \ Users, Exists(y)' PROVE Exists(y)
    <3>1. y \in Targets \cup Channels \cup Incidents \cup Windows
      BY DEF Rows
    <3> QED BY <1>6, <1>8, <1>9, <2>1, <3>1 DEF Exists
  <2>2. ASSUME NEW y \in Incidents, Exists(y)'
        PROVE  "target" \in DOMAIN row[y] /\ row'[y].target = row[y].target
    <3>1. row'[y] = row[y] /\ Exists(y)
      BY <1>8, <2>2 DEF Exists
    <3> QED BY <3>1 DEF Referred, Refers
  <2>3. \A y \in stateRow : y \in stateRow' \/ ~Exists(y)'
    BY <1>2, <1>6 DEF Exists
  <2> QED BY <1>2, <1>7, <2>1, <2>2, <2>3 DEF Lasting, Typed
<1>11. ASSUME NEW y \in Incidents \cup Windows PROVE Refers(y)'
  <2>1. CASE row'[y] = row[y]
    <3>1. CASE Exists(y)
      <4>1. \/ "target" \in DOMAIN row[y] /\ row[y].target # x
            \/ row[y].target = None
        BY <1>8, <1>9, <1>11, <2>1, <3>1 DEF Exists, Referred, Refers
      <4> QED BY <1>6, <1>11, <2>1, <3>1, <4>1 DEF Exists, Referred, Refers
    <3>2. CASE ~Exists(y)
      BY <2>1, <3>2 DEF Refers, Exists
    <3> QED BY <3>1, <3>2
  <2>2. CASE row'[y] = Absent
    BY <2>2 DEF Refers, Exists
  <2>3. CASE row'[y] = [row[y] EXCEPT !.target = None] /\ Exists(y)
    <3>1. "target" \in DOMAIN row[y]
      BY <1>11, <2>3 DEF Referred, Refers
    <3>2. "target" \in DOMAIN row'[y] /\ row'[y].target = None
      BY <2>3, <3>1
    <3> QED BY <3>2 DEF Refers
  <2> QED BY <1>8, <1>9, <1>11, <2>1, <2>2, <2>3
<1>12. Referred'
  <2>1. \A t \in Targets : t \in stateRow' \/ tags'[t] # {} => Exists(t)'
    BY <1>2, <1>6 DEF Referred, Exists
  <2>2. \A l \in link' : row'[l[1]] # Absent /\ row'[l[2]] # Absent
    BY <1>2, <1>6 DEF Referred, Exists, Typed
  <2> QED BY <1>11, <2>1, <2>2 DEF Referred, Exists
<1> QED BY <1>4, <1>10, <1>12

\* A request that writes its audit row, or is answered without it, ends.
LEMMA FinishKind ==
    ASSUME Typed, NEW r \in Slots, Runs(r, "Log"), NEW recorded \in BOOLEAN, Finish(r, recorded),
           UNCHANGED tables
    PROVE  /\ Ending(r) /\ Sound(request'[r])
           /\ request' = [s \in Slots |-> request'[s]]
<1> DEFINE q == request[r]
           p == request'[r]
           rows == IF recorded THEN {[old |-> q.old, new |-> q.new]} ELSE {}
<1>1. /\ Sound(q) /\ q.pc = "work" /\ At(q, "Log")
  BY DEF Typed, Runs, Working, At
<1>2. /\ Alone(r) /\ request' = [s \in Slots |-> request'[s]]
      /\ p = [q EXCEPT !.pc = "done", !.todo = <<>>, !.answer = Outcome(q, recorded),
                       !.logged = rows]
  BY DEF Finish, Alone, Typed
<1>3. IsRequest(q)
  BY <1>1 DEF Sound
<1>4. /\ IsRequest(p) /\ p.pc = "done" /\ p.todo = <<>> /\ p.answer = Outcome(q, recorded)
      /\ p.logged = rows /\ SameAsk(q, p) /\ p.seen = q.seen
  <2> HIDE DEF p, q, rows
  <2> QED BY <1>2, <1>3 DEF IsRequest, SameAsk
<1> HIDE DEF p, q
<1>5. Sound(p)
  BY <1>1, <1>4 DEF Sound, SameAsk
<1> QED BY <1>1, <1>2, <1>4, <1>5 DEF Ending, p, q

\* A test that could not be sent has its audit row, and ends with an error.
LEMMA LogErrorKind ==
    ASSUME Typed, NEW r \in Slots, LogError(r)
    PROVE  /\ Ending(r) /\ Sound(request'[r])
           /\ request'[r].answer = "error"
           /\ request' = [s \in Slots |-> request'[s]]
<1> DEFINE q == request[r]
           p == request'[r]
<1>1. /\ Sound(q) /\ q.pc = "work"
  BY DEF Typed, LogError, Runs, Working
<1>2. /\ Alone(r) /\ request' = [s \in Slots |-> request'[s]]
      /\ p = [q EXCEPT !.pc = "done", !.todo = <<>>, !.answer = "error",
                       !.logged = {[old |-> None, new |-> None]}]
  BY DEF LogError, Alone, Typed
<1>3. IsRequest(q)
  BY <1>1 DEF Sound
<1>4. /\ IsRequest(p) /\ p.pc = "done" /\ p.todo = <<>> /\ p.answer = "error" /\ SameAsk(q, p)
      /\ p.seen = q.seen
  <2> HIDE DEF p, q
  <2> QED BY <1>2, <1>3 DEF IsRequest, SameAsk
<1> HIDE DEF p, q
<1>5. Sound(p)
  BY <1>1, <1>4 DEF Sound, SameAsk
<1> QED BY <1>1, <1>2, <1>4, <1>5 DEF Ending, p, q

\* Whatever fails, the request ends: without its audit row, with the page as far as
\* it is for the history of logins, with an error otherwise.
LEMMA FaultKind ==
    ASSUME Typed, NEW r \in Slots, Fault(r)
    PROVE  /\ Ending(r) /\ Sound(request'[r])
           /\ request' = [s \in Slots |-> request'[s]]
<1>1. request[r].pc = "work" /\ UNCHANGED tables
  BY DEF Fault, Working
<1>2. CASE Runs(r, "Log") /\ Finish(r, FALSE)
  BY <1>1, <1>2, FinishKind
<1>3. CASE Answer(r, IF request[r].handler = "me_security" THEN "ok" ELSE "error")
  <2>1. "me_security" \notin Changes
    BY DEF Changes, NeedsToken
  <2> QED BY <1>1, <1>3, <2>1, Answered DEF Ending, Alone
<1> QED BY <1>2, <1>3 DEF Fault
-----------------------------------------------------------------------------
(* Every step is of one of the kinds.                                      *)

\* What a request has after a statement that it had not before.
Gained(r, s) ==
    LET q == request[r]
        p == request'[r]
    IN /\ s = "ReadOld" => p.old = Whole(q.subject)
       /\ s = "ReadCurrent" => Exists(q.subject) /\ p.base = row[q.subject]
       /\ s = "ReadBack" => p.new = Whole(q.subject)
       /\ s \in {"ReadOld", "ReadCurrent", "ReadBack"} => UNCHANGED tables
       /\ s = "PutState" => q.subject \in stateRow'
       /\ s = "Update" => row'[q.subject] = IF Exists(q.subject) THEN Over(q.ask.names, q.base)
                                            ELSE row[q.subject]

\* A statement and all it does.
Goes(r) == \E s \in Statements : Moving(r, s) /\ Beside(r) /\ Gained(r, s)

\* The kinds.
Kind(r) ==
    \/ Asking(r) \/ Ending(r) \/ Entering(r) \/ ReadingOn(r) \/ Beginning(r) \/ Sending(r)
    \/ Goes(r)

\* What a step that is alone leaves.
LEMMA AloneStep ==
    ASSUME Typed, Referred, NEW r \in Slots, Alone(r), Sound(request'[r]),
           request' = [s \in Slots |-> request'[s]]
    PROVE  Beside(r) /\ Lasting(r) /\ Referred' /\ Typed'
<1>1. Beside(r) /\ \A s \in Slots : Sound(request'[s])
  BY AloneEffects
<1>2. Lasting(r) /\ Referred'
  BY AloneLasting
<1> QED BY <1>1, <1>2 DEF Typed, Lasting

\* The kind of each step; and the requests, their tables and the references among
\* the rows stay what they are.
LEMMA StepKind ==
    ASSUME Typed, Referred, NEW r \in Slots, Stands(request[r]), Step(r)
    PROVE  Kind(r) /\ Beside(r) /\ Lasting(r) /\ Referred' /\ Typed'
<1>1. CASE Ask(r)
  BY <1>1, AskKind, AloneStep DEF Kind, Asking
<1>2. CASE Refuse(r) \/ Limited(r) \/ ShowPage(r)
  BY <1>2, RefuseKind, LimitedKind, ShowPageKind, AloneStep DEF Kind, Ending
<1>3. CASE Authenticate(r)
  BY <1>3, AuthenticateKind, AloneStep DEF Kind, Entering, Ending
<1>4. CASE Query(r)
  BY <1>4, QueryKind, AloneStep DEF Kind, ReadingOn, Ending
<1>5. CASE Begin(r)
  BY <1>5, BeginKind, AloneStep DEF Kind, Beginning, Ending
<1>6. CASE ReadOld(r) \/ ReadCurrent(r) \/ ReadBack(r)
  <2>1. /\ \/ Alone(r) /\ \E s \in Statements : Moving(r, s) /\ Gained(r, s)
           \/ Ending(r)
        /\ Sound(request'[r]) /\ request' = [s \in Slots |-> request'[s]]
    <3>1. CASE ReadOld(r)
      BY <3>1, ReadOldKind DEF Statements, Gained, Alone
    <3>2. CASE ReadCurrent(r)
      BY <3>2, ReadCurrentKind DEF Statements, Gained, Alone
    <3>3. CASE ReadBack(r)
      BY <3>3, ReadBackKind DEF Statements, Gained, Alone
    <3> QED BY <1>6, <3>1, <3>2, <3>3
  <2>2. Alone(r)
    BY <2>1 DEF Ending
  <2> QED BY <2>1, <2>2, AloneStep DEF Kind, Goes
<1>7. CASE Find(r) \/ Send(r)
  <2>1. /\ \/ Alone(r) /\ \E s \in Statements : Moving(r, s) /\ Gained(r, s)
           \/ Sending(r)
        /\ Sound(request'[r]) /\ request' = [s \in Slots |-> request'[s]]
    BY <1>7, FindKind, SendKind DEF Statements, Gained
  <2>2. Alone(r)
    BY <2>1 DEF Sending
  <2> QED BY <2>1, <2>2, AloneStep DEF Kind, Goes
<1>8. CASE Insert(r) \/ PutTags(r) \/ PutState(r) \/ Attach(r) \/ Store(r)
  <2>1. /\ \/ Beside(r) /\ \E s \in Statements : Moving(r, s) /\ Gained(r, s)
           \/ Ending(r)
        /\ Lasting(r) /\ Referred' /\ \A s \in Slots : Sound(request'[s])
        /\ request' = [s \in Slots |-> request'[s]]
    <3>1. CASE Insert(r)
      BY <3>1, InsertKind DEF Statements, Gained
    <3>2. CASE PutTags(r)
      BY <3>2, PutTagsKind DEF Statements, Gained
    <3>3. CASE PutState(r)
      BY <3>3, PutStateKind DEF Statements, Gained
    <3>4. CASE Attach(r)
      BY <3>4, AttachKind DEF Statements, Gained
    <3>5. CASE Store(r)
      BY <3>5, StoreKind DEF Statements, Gained
    <3> QED BY <1>8, <3>1, <3>2, <3>3, <3>4, <3>5
  <2>2. Typed'
    BY <2>1 DEF Typed, Lasting
  <2>3. CASE Ending(r)
    BY <2>1, <2>2, <2>3, AloneStep DEF Kind, Ending
  <2> QED BY <2>1, <2>2, <2>3 DEF Kind, Goes
<1>9. CASE ClearTags(r) \/ Update(r) \/ Delete(r) \/ Detach(r)
  <2>1. /\ Beside(r) /\ \E s \in Statements : Moving(r, s) /\ Gained(r, s)
        /\ Lasting(r) /\ Referred' /\ \A s \in Slots : Sound(request'[s])
        /\ request' = [s \in Slots |-> request'[s]]
    <3>1. CASE ClearTags(r)
      BY <3>1, ClearTagsKind DEF Statements, Gained
    <3>2. CASE Update(r)
      BY <3>2, UpdateKind DEF Statements, Gained
    <3>3. CASE Delete(r)
      BY <3>3, DeleteKind DEF Statements, Gained
    <3>4. CASE Detach(r)
      BY <3>4, DetachKind DEF Statements, Gained
    <3> QED BY <1>9, <3>1, <3>2, <3>3, <3>4
  <2> QED BY <2>1 DEF Kind, Goes, Typed, Lasting
<1>10. CASE Log(r) \/ LogError(r) \/ Fault(r)
  <2>1. Ending(r) /\ Sound(request'[r]) /\ request' = [s \in Slots |-> request'[s]]
    BY <1>10, FinishKind, LogErrorKind, FaultKind DEF Log
  <2> QED BY <2>1, AloneStep DEF Kind, Ending
<1> QED BY <1>1, <1>2, <1>3, <1>4, <1>5, <1>6, <1>7, <1>8, <1>9, <1>10 DEF Step
-----------------------------------------------------------------------------
(* The invariant.                                                          *)

\* Of the requests beside a step, only the two marks of history may change.
LEMMA BesideSame ==
    ASSUME Typed, NEW r \in Slots, Beside(r), NEW s \in Slots \ {r}
    PROVE  LET q == request[s]
               p == request'[s]
           IN /\ p.pc = q.pc /\ p.ask = q.ask /\ p.handler = q.handler /\ p.subject = q.subject
              /\ p.todo = q.todo /\ p.seen = q.seen /\ p.old = q.old /\ p.base = q.base
              /\ p.new = q.new /\ p.before = q.before /\ p.answer = q.answer
              /\ p.logged = q.logged /\ p.admin = q.admin /\ p.calls = q.calls
              /\ p.fresh => q.fresh /\ SameRow(q.subject)
              /\ p.pc = "work" /\ p.quiet => q.quiet /\ SameRow(q.subject)
<1>1. CASE request'[s] = Disturbed(request[s])
  <2>1. Sound(request[s])
    BY DEF Typed
  <2> QED BY <1>1, <2>1, DisturbedSound
<1>2. CASE request'[s] = request[s] /\ SameRow(request[s].subject)
  BY <1>2
<1> QED BY <1>1, <1>2 DEF Beside

\* A request is about one thing.
LEMMA OwnSame ==
    ASSUME NEW r, Kind(r), ~Asking(r)
    PROVE  /\ request'[r].ask = request[r].ask /\ request'[r].handler = request[r].handler
           /\ request'[r].subject = request[r].subject
BY DEF Kind, Ending, Entering, ReadingOn, Beginning, Sending, Goes, Moving, SameAsk

\* No two requests create the same row: the id of a new one is new.
LEMMA ApartKept ==
    ASSUME Typed, Apart, NEW r \in Slots, Kind(r), Beside(r)
    PROVE  Apart'
<1>1. \A s \in Slots \ {r} : /\ request'[s].handler = request[s].handler
                             /\ request'[s].subject = request[s].subject
  BY BesideSame
<1>2. CASE Asking(r)
  <2>1. request'[r].handler \in CreateHandlers =>
            \A s \in Slots : request[s].handler \in CreateHandlers =>
                                 request[s].subject # request'[r].subject
    BY <1>2 DEF Asking
  <2> QED BY <1>1, <2>1 DEF Apart
<1>3. CASE ~Asking(r)
  BY <1>1, <1>3, OwnSame DEF Apart
<1> QED BY <1>2, <1>3

\* A target without its state row has somebody to answer for it.
LEMMA MadeKept ==
    ASSUME Typed, Made, NEW r \in Slots, Kind(r), Beside(r), Lasting(r), Stands(request[r])
    PROVE  Made'
<1> SUFFICES ASSUME NEW t \in Targets, row'[t] # Absent, t \notin stateRow'
             PROVE  \E s \in Slots : HalfMade(request'[s], t)
  BY DEF Made, Exists
<1>1. ASSUME NEW s \in Slots \ {r}, HalfMade(request[s], t)
      PROVE  HalfMade(request'[s], t)
  BY <1>1, BesideSame DEF HalfMade
<1>2. CASE Exists(t)
  <2>1. t \notin stateRow
    BY DEF Lasting, Exists
  <2>2. PICK s \in Slots : HalfMade(request[s], t)
    BY <1>2, <2>1 DEF Made
  <2>3. CASE s # r
    BY <1>1, <2>2, <2>3
  <2>4. CASE s = r
    <3> DEFINE q == request[r]
               p == request'[r]
    <3>1. /\ q.subject = t /\ q.handler = "create_target" /\ Sound(q)
          /\ (q.pc = "work" /\ q.todo # <<>>) \/ (q.pc = "done" /\ q.answer = "error")
      BY <2>2, <2>4 DEF HalfMade, Typed
    <3>2. q.handler \in Changes
      BY <3>1 DEF Changes, NeedsToken
    <3>3. CASE Ending(r)
      <4>1. /\ q.pc = "work" /\ q.todo # <<>> /\ p.pc = "done" /\ SameAsk(q, p)
            /\ p.answer = "error" \/ At(q, "Log")
        BY <3>1, <3>2, <3>3 DEF Ending
      <4>2. ~At(q, "Log")
        BY <1>2, <2>1, <3>1 DEF Stands, StateBehind
      <4> QED BY <3>1, <4>1, <4>2 DEF HalfMade, SameAsk
    <3>4. CASE Goes(r)
      <4>1. PICK m \in Statements : Moving(r, m)
        BY <3>4 DEF Goes
      <4>2. Legal(q.handler, Tail(q.todo)) /\ m # "Log"
        BY <3>1, <4>1, RunsOn DEF Moving
      <4>3. p.pc = "work" /\ p.todo = Tail(q.todo) /\ SameAsk(q, p)
        BY <4>1 DEF Moving
      <4> QED BY <3>1, <4>2, <4>3 DEF HalfMade, SameAsk, Legal
    <3>5. ~Asking(r) /\ ~Entering(r) /\ ~ReadingOn(r) /\ ~Beginning(r) /\ ~Sending(r)
      BY <3>1, <3>2 DEF Asking, Entering, ReadingOn, Reading, Beginning, Calling, Sending
    <3> QED BY <3>3, <3>4, <3>5 DEF Kind
  <2> QED BY <2>3, <2>4
<1>3. CASE ~Exists(t)
  <2>1. Runs(r, "Insert") /\ request[r].subject = t
    <3>1. t \in Rows \ Users
      BY IdsAssumption DEF Rows
    <3> QED BY <1>3, <3>1 DEF Lasting, Exists
  <2>2. request[r].handler = "create_target"
    BY <2>1, Whose DEF Statements
  <2>3. ~Alone(r)
    BY <1>3 DEF Alone, tables, Exists
  <2>4. PICK m \in Statements : Moving(r, m)
    BY <2>3 DEF Kind, Asking, Ending, Entering, ReadingOn, Beginning, Sending, Goes
  <2>5. /\ Legal(request[r].handler, Tail(request[r].todo))
        /\ request'[r].pc = "work" /\ request'[r].todo = Tail(request[r].todo)
        /\ SameAsk(request[r], request'[r])
    BY <2>4, RunsOn DEF Moving, Typed
  <2>6. HalfMade(request'[r], t)
    BY <2>1, <2>2, <2>5 DEF HalfMade, SameAsk, Legal
  <2> QED BY <2>6
<1> QED BY <1>2, <1>3
\* In which table the subject of a request is, by its handler.
LEMMA OwnTable ==
    ASSUME NEW q, Sound(q), q.pc # "idle"
    PROVE  /\ q.handler = "create_target" => q.subject \in Targets
           /\ q.handler = "resolve_incident" => q.subject \in Incidents
           /\ q.handler \in Updaters => q.subject \in Targets \cup Channels
           /\ q.handler \in ReadersBack => q.subject \in Rows
<1>1. q.ask \in Asks /\ q.handler = HandlerOf(GatewayRoutes, q.ask.call) /\ q.subject = Subject(q.ask)
  BY DEF Sound
<1>2. /\ q.handler \in TargetHandlers => q.subject \in Targets
      /\ q.handler \in ChannelHandlers => q.subject \in Channels
      /\ q.handler \in WindowHandlers => q.subject \in Windows
      /\ q.handler = "resolve_incident" => q.subject \in Incidents
      /\ q.handler = "manage_users" => q.subject \in Users
  BY <1>1, AsksAssumption
<1> QED
  BY <1>2 DEF TargetHandlers, ChannelHandlers, WindowHandlers, ReadersBack, CreateHandlers,
              Updaters, Rows

\* What stands of a request stands after a step of another.
LEMMA StandsBeside ==
    ASSUME Typed, Apart, NEW r \in Slots, Beside(r), Lasting(r), NEW s \in Slots \ {r},
           Stands(request[s])
    PROVE  Stands(request[s])'
<1> DEFINE q == request[s]
           p == request'[s]
           x == q.subject
<1>1. /\ p.pc = q.pc /\ p.handler = q.handler /\ p.subject = q.subject /\ p.todo = q.todo
      /\ p.old = q.old /\ p.base = q.base /\ p.new = q.new /\ p.before = q.before
      /\ p.fresh => q.fresh /\ SameRow(q.subject)
      /\ p.pc = "work" /\ p.quiet => q.quiet /\ SameRow(q.subject)
  BY BesideSame
<1>2. Sound(q)
  BY DEF Typed
<1>3. \A m : At(q, m) <=> At(p, m)
  BY <1>1 DEF At
<1>4. ASSUME q.handler \in CreateHandlers \cup {"resolve_incident"}, x \in Targets \cup Incidents,
             ~Exists(x)
      PROVE  row'[x] = Absent
  <2>1. x \in Rows \ Users /\ x \notin Windows
    BY <1>4, IdsAssumption DEF Rows
  <2>2. SUFFICES ASSUME Runs(r, "Insert"), request[r].subject = x PROVE FALSE
    BY <1>4, <2>1 DEF Lasting, Exists
  <2>3. request[r].handler \in CreateHandlers /\ x \in Targets \cup Channels \cup Windows
    BY <2>2, Whose DEF Statements
  <2>4. x \notin Incidents
    BY <2>3, IdsAssumption
  <2>5. CASE q.handler \in CreateHandlers
    BY <2>2, <2>3, <2>5 DEF Apart
  <2>6. CASE q.handler = "resolve_incident"
    <3>1. q.pc # "idle"
      BY <1>2, <2>6 DEF Sound
    <3> QED BY <1>2, <2>4, <2>6, <3>1, OwnTable
  <2> QED BY <1>4, <2>5, <2>6
<1>5. ASSUME SameRow(x), x \in Rows PROVE Whole(x)' = Whole(x) /\ row'[x] = row[x]
  BY <1>1, <1>5 DEF SameRow, Whole
<1>6. StateBehind(q)'
  <2> SUFFICES ASSUME p.handler = "create_target", At(p, "ReadBack") \/ At(p, "Log")
               PROVE  x \in stateRow' \/ row'[x] = Absent
    BY <1>1 DEF StateBehind, Exists
  <2>1. x \in stateRow \/ ~Exists(x)
    BY <1>1, <1>3 DEF Stands, StateBehind
  <2>2. x \in Targets
    BY <1>1, <1>2, OwnTable DEF At
  <2>3. CASE x \in stateRow
    BY <2>3 DEF Lasting, Exists
  <2>4. CASE ~Exists(x)
    BY <1>1, <1>4, <2>2, <2>4 DEF CreateHandlers
  <2> QED BY <2>1, <2>3, <2>4
<1>7. BaseStands(q)'
  <2> SUFFICES ASSUME p.handler = "resolve_incident", At(p, "Update")
               PROVE  /\ "target" \in DOMAIN p.base
                      /\ row'[x] # Absent => p.base.target = row'[x].target
    BY <1>1 DEF BaseStands, Exists
  <2>1. /\ "target" \in DOMAIN q.base
        /\ Exists(x) => q.base.target = row[x].target
    BY <1>1, <1>3 DEF Stands, BaseStands
  <2>2. x \in Incidents
    BY <1>1, <1>2, OwnTable DEF At
  <2>3. row'[x] # Absent => Exists(x) /\ row'[x].target = row[x].target
    BY <1>1, <1>4, <2>2 DEF Lasting, Exists
  <2> QED BY <1>1, <2>1, <2>3
<1>8. FreshBase(q)'
  <2> SUFFICES ASSUME At(p, "Update"), p.fresh PROVE p.base = row'[x]
    BY <1>1 DEF FreshBase
  <2>1. q.base = row[x] /\ SameRow(x)
    BY <1>1, <1>3 DEF Stands, FreshBase
  <2>2. Runs(s, "Update")
    BY <1>3 DEF At, Runs, Working
  <2>3. x \in Rows
    BY <2>2, Whose DEF Statements, Rows
  <2> QED BY <1>1, <1>5, <2>1, <2>3
<1>9. Remembered(q)'
  <2> SUFFICES ASSUME p.handler \in Updaters, p.pc = "work", p.quiet
               PROVE  IF p.todo = <<>> \/ At(p, "ReadOld") THEN p.before = Whole(x)'
                      ELSE p.old = p.before
    BY <1>1 DEF Remembered
  <2>1. q.quiet /\ SameRow(x)
    BY <1>1
  <2>2. x \in Rows
    BY <1>1, <1>2, OwnTable DEF ReadersBack
  <2>3. Whole(x)' = Whole(x)
    BY <1>5, <2>1, <2>2
  <2> HIDE DEF x
  <2>4. IF q.todo = <<>> \/ At(q, "ReadOld") THEN q.before = Whole(x) ELSE q.old = q.before
    BY <1>1, <2>1 DEF Stands, Remembered, x
  <2> HIDE DEF q, p
  <2> QED BY <1>1, <1>3, <2>3, <2>4
<1>10. TakenBack(q)'
  <2> SUFFICES ASSUME p.handler \in ReadersBack, At(p, "Log"), p.quiet PROVE p.new = Whole(x)'
    BY <1>1 DEF TakenBack
  <2>1. q.quiet /\ SameRow(x)
    BY <1>1 DEF At
  <2>2. x \in Rows
    BY <1>1, <1>2, OwnTable DEF At
  <2>3. Whole(x)' = Whole(x)
    BY <1>5, <2>1, <2>2
  <2>4. q.new = Whole(x)
    BY <1>1, <1>3, <2>1 DEF Stands, TakenBack
  <2> QED BY <1>1, <2>3, <2>4
<1> QED BY <1>6, <1>7, <1>8, <1>9, <1>10 DEF Stands

\* What comes before what, in every program.
LEMMA Before ==
    ASSUME NEW h, NEW s, NEW next, <<h, s, next>> \in Flow
    PROVE  /\ s # "Begin" => next # "ReadOld"
           /\ s # "Begin" /\ next = "Update" => s = "ReadCurrent"
           /\ h = "create_target" /\ next = "ReadBack" => s = "PutState"
           /\ h \in ReadersBack /\ next = "Log" => s = "ReadBack"
           /\ s = "Begin" => next \notin {"ReadBack", "Update"}
           /\ s = "Begin" /\ h \in Updaters => next = "ReadOld"
<1>1. /\ s # "Begin" => next # "ReadOld"
      /\ s # "Begin" /\ next = "Update" => s = "ReadCurrent"
      /\ h = "create_target" /\ next = "ReadBack" => s = "PutState"
  BY DEF Flow
<1>2. h \in ReadersBack /\ next = "Log" => s = "ReadBack"
  BY DEF Flow, ReadersBack, Updaters, CreateHandlers
<1>3. /\ s = "Begin" => next \notin {"ReadBack", "Update"}
      /\ s = "Begin" /\ h \in Updaters => next = "ReadOld"
  BY DEF Flow, Updaters
<1> QED BY <1>1, <1>2, <1>3

\* And what stands of a request stands after a step of its own: it reads before it
\* writes, and reads back before it tells.
LEMMA StandsOwn ==
    ASSUME Typed, Referred, NEW r \in Slots, Kind(r), Stands(request[r])
    PROVE  Stands(request[r])'
<1> DEFINE q == request[r]
           p == request'[r]
           x == q.subject
<1>1. Sound(q)
  BY DEF Typed
<1>2. ASSUME p.pc = "work" => p.todo = <<>> \/ p.todo = <<"LogError">>,
             p.handler \in Updaters /\ p.pc = "work" /\ p.quiet =>
                 p.todo = <<>> /\ p.before = Whole(x)'
      PROVE  Stands(q)'
  <2>1. \A m : At(p, m) => m = "LogError"
    BY <1>2 DEF At
  <2> QED
    BY <1>2, <2>1 DEF Stands, StateBehind, BaseStands, FreshBase, Remembered, TakenBack
<1>3. ASSUME UNCHANGED tables, p.subject = x PROVE Whole(x)' = Whole(x)
  BY <1>3 DEF Whole, tables
<1>4. Updaters \subseteq Changes
  BY DEF Updaters, Changes, NeedsToken
<1>5. CASE Asking(r) \/ Ending(r)
  BY <1>2, <1>5 DEF Asking, Ending
<1>6. CASE Entering(r)
  <2>1. /\ p.todo = <<>> /\ p.subject = x /\ p.handler = q.handler
        /\ p.before = WholeOrNone(x) /\ UNCHANGED tables /\ q.pc # "idle"
    BY <1>1, <1>6 DEF Entering, Sound, Alone
  <2>2. p.handler \in Updaters => x \in Rows
    BY <1>1, <2>1, OwnTable DEF ReadersBack
  <2> QED BY <1>2, <1>3, <2>1, <2>2 DEF WholeOrNone
<1>7. CASE ReadingOn(r)
  BY <1>2, <1>4, <1>7 DEF ReadingOn, Reading
<1>8. CASE Sending(r)
  BY <1>2, <1>8 DEF Sending, Failing, SameAsk, Updaters
<1>9. CASE Beginning(r)
  <2>1. /\ UNCHANGED tables /\ q.pc = "work" /\ q.todo = <<>> /\ p.todo # <<>>
        /\ p.subject = x /\ p.handler = q.handler /\ p.quiet = q.quiet /\ p.before = q.before
        /\ <<p.handler, "Begin", Head(p.todo)>> \in Flow
    BY <1>9 DEF Beginning, Alone, Calling, Changing, Legal, SameAsk
  <2>2. /\ Head(p.todo) \notin {"ReadBack", "Update"}
        /\ p.handler \in ReadersBack => Head(p.todo) # "Log"
        /\ p.handler = "create_target" => Head(p.todo) # "Log"
        /\ p.handler \in Updaters => Head(p.todo) = "ReadOld"
    BY <2>1, Before DEF ReadersBack, CreateHandlers
  <2>3. Remembered(q)'
    <3>1. q.handler \in Updaters /\ q.quiet => q.before = Whole(x)
      BY <2>1 DEF Stands, Remembered
    <3>2. Whole(x)' = Whole(x)
      BY <1>3, <2>1
    <3> QED BY <2>1, <2>2, <3>1, <3>2 DEF Remembered, At
  <2> QED BY <2>2, <2>3 DEF Stands, StateBehind, BaseStands, FreshBase, TakenBack, At
<1>10. CASE Goes(r)
  <2>1. PICK s \in Statements : Moving(r, s) /\ Gained(r, s)
    BY <1>10 DEF Goes
  <2>2. /\ At(q, s) /\ q.pc = "work" /\ p.pc = "work" /\ q.todo # <<>> /\ p.todo # <<>>
        /\ p.subject = x /\ p.handler = q.handler /\ p.quiet = q.quiet /\ p.before = q.before
        /\ s # "ReadOld" => p.old = q.old
        /\ <<p.handler, s, Head(p.todo)>> \in Flow
    BY <1>1, <2>1, RunsOn DEF Moving, SameAsk, Runs, At, Working, Legal
  <2>3. /\ Head(p.todo) # "ReadOld"
        /\ Head(p.todo) = "Update" => s = "ReadCurrent"
        /\ p.handler = "create_target" /\ Head(p.todo) = "ReadBack" => s = "PutState"
        /\ p.handler \in ReadersBack /\ Head(p.todo) = "Log" => s = "ReadBack"
        /\ p.handler = "create_target" /\ Head(p.todo) = "Log" => s = "ReadBack"
    <3>1. s # "Begin"
      BY DEF Statements
    <3> QED BY <2>2, <3>1, Before DEF ReadersBack, CreateHandlers
  <2>4. /\ s = "ReadOld" => p.old = Whole(x)
        /\ s = "ReadCurrent" => Exists(x) /\ p.base = row[x]
        /\ s = "ReadBack" => p.new = Whole(x)
        /\ s \in {"ReadOld", "ReadCurrent", "ReadBack"} => UNCHANGED tables
        /\ s = "PutState" => x \in stateRow'
    BY <2>1 DEF Gained
  <2>5. StateBehind(q)'
    <3>1. CASE s = "PutState"
      BY <2>2, <2>4, <3>1 DEF StateBehind
    <3>2. CASE s = "ReadBack"
      BY <2>2, <2>4, <3>2 DEF Stands, StateBehind, Exists, tables
    <3>3. CASE s \notin {"PutState", "ReadBack"}
      BY <2>3, <3>3 DEF StateBehind, At
    <3> QED BY <3>1, <3>2, <3>3
  <2>6. BaseStands(q)'
    <3> SUFFICES ASSUME p.handler = "resolve_incident", At(p, "Update")
                 PROVE  "target" \in DOMAIN p.base /\ p.base.target = row'[x].target
      BY <2>2 DEF BaseStands
    <3>1. Exists(x) /\ p.base = row[x] /\ row' = row
      BY <2>3, <2>4 DEF At, tables
    <3>2. x \in Incidents
      BY <1>1, <2>2, OwnTable
    <3> QED BY <3>1, <3>2 DEF Referred, Refers
  <2>7. FreshBase(q)'
    BY <2>2, <2>3, <2>4 DEF FreshBase, At, tables
  <2>8. Remembered(q)'
    <3> SUFFICES ASSUME p.handler \in Updaters, p.quiet PROVE p.old = p.before
      BY <2>2, <2>3 DEF Remembered, At
    <3>1. CASE s = "ReadOld"
      BY <2>2, <2>4, <3>1 DEF Stands, Remembered
    <3>2. CASE s # "ReadOld"
      <4>1. ~At(q, "ReadOld")
        BY <2>2, <3>2 DEF At
      <4> QED BY <2>2, <3>2, <4>1 DEF Stands, Remembered
    <3> QED BY <3>1, <3>2
  <2>9. TakenBack(q)'
    <3> SUFFICES ASSUME p.handler \in ReadersBack, Head(p.todo) = "Log"
                 PROVE  p.new = Whole(x)'
      BY DEF TakenBack, At
    <3>1. s = "ReadBack"
      BY <2>3
    <3> QED BY <1>3, <2>2, <2>4, <3>1
  <2> QED BY <2>5, <2>6, <2>7, <2>8, <2>9 DEF Stands
<1> QED BY <1>5, <1>6, <1>7, <1>8, <1>9, <1>10 DEF Kind

\* To start with nothing is requested, and the tables are whole.
LEMMA InitInv == Init => IInv
<1> SUFFICES ASSUME Init PROVE IInv
  OBVIOUS
<1>1. PICK start \in Tables : /\ row = start.row /\ tags = start.tags
                              /\ stateRow = start.stateRow /\ link = start.link
  BY DEF Init
<1>2. request = [r \in Slots |-> Idle]
  BY DEF Init
<1>3. /\ row = [x \in Rows |-> row[x]]
      /\ tags = [t \in Targets |-> tags[t]]
      /\ stateRow = {t \in Targets : Exists(t)}
      /\ link \subseteq Targets \X Channels
      /\ \A t \in Targets : tags[t] # {} => Exists(t)
      /\ \A l \in link : Exists(l[1]) /\ Exists(l[2])
      /\ \A x \in Incidents \cup Windows : Refers(x)
  BY <1>1, TablesAssumption DEF Exists, Refers
<1>4. /\ Sound(Idle) /\ Idle.pc = "idle" /\ Idle.handler = "none"
  BY DEF Sound, IsRequest, IsSeen, Idle, Unseen
<1>5. Typed
  BY <1>2, <1>3, <1>4 DEF Typed
<1>6. Apart
  BY <1>2, <1>4 DEF Apart, CreateHandlers
<1>7. Made /\ Referred
  BY <1>3 DEF Made, Referred
<1>8. ASSUME NEW r \in Slots PROVE Stands(request[r])
  <2>1. request[r].pc # "work"
    BY <1>2, <1>4
  <2> QED BY <2>1 DEF Stands, StateBehind, BaseStands, FreshBase, Remembered, TakenBack, At
<1> QED BY <1>5, <1>6, <1>7, <1>8 DEF IInv

\* A step keeps what is known of all requests and of the tables.
LEMMA StepInv ==
    ASSUME IInv, NEW r \in Slots, Step(r)
    PROVE  IInv'
<1>1. Typed /\ Apart /\ Made /\ Referred /\ \A s \in Slots : Stands(request[s])
  BY DEF IInv
<1>2. Kind(r) /\ Beside(r) /\ Lasting(r) /\ Referred' /\ Typed'
  BY <1>1, StepKind
<1>3. Apart' /\ Made'
  BY <1>1, <1>2, ApartKept, MadeKept
<1>4. ASSUME NEW s \in Slots PROVE Stands(request[s])'
  <2>1. CASE s = r
    BY <1>1, <1>2, <2>1, StandsOwn
  <2>2. CASE s # r
    BY <1>1, <1>2, <2>2, StandsBeside
  <2> QED BY <2>1, <2>2
<1> QED BY <1>2, <1>3, <1>4 DEF IInv

\* So does every behaviour.
LEMMA NextInv == IInv /\ [Next]_vars => IInv'
<1>1. ASSUME IInv, Next PROVE IInv'
  BY <1>1, StepInv DEF Next
<1>2. ASSUME IInv, UNCHANGED vars PROVE IInv'
  <2>1. /\ row' = row /\ tags' = tags /\ stateRow' = stateRow /\ link' = link
        /\ request' = request
    BY <1>2 DEF vars, tables
  <2>2. Typed' /\ Apart'
    BY <1>2, <2>1 DEF IInv, Typed, Apart
  <2>3. Made' /\ Referred'
    BY <1>2, <2>1 DEF IInv, Made, HalfMade, Referred, Refers, Exists
  <2>4. ASSUME NEW r \in Slots PROVE Stands(request[r])'
    <3>1. Stands(request[r])
      BY <1>2 DEF IInv
    <3>2. StateBehind(request[r])' /\ BaseStands(request[r])' /\ FreshBase(request[r])'
      BY <2>1, <3>1 DEF Stands, StateBehind, BaseStands, FreshBase, Exists
    <3>3. Remembered(request[r])' /\ TakenBack(request[r])'
      BY <2>1, <3>1 DEF Stands, Remembered, TakenBack, Whole
    <3> QED BY <3>2, <3>3 DEF Stands
  <2> QED BY <2>2, <2>3, <2>4 DEF IInv
<1> QED BY <1>1, <1>2

\* The inductive invariant: every request is well formed and somewhere in the program
\* of its handler; no two create the same row; and what it has read of its subject
\* is still there if nobody else has written it.
THEOREM Invariance == Spec => []IInv
BY InitInv, NextInv, PTL DEF Spec

\* Creations answered half-way leave a target without a state row, and nothing but
\* them does; no tag, no attachment, no incident and no window is left behind by a
\* deletion, wherever it falls among the statements of others.
THEOREM WholeTargetsHolds == Spec => []WholeTargets
<1>1. ASSUME IInv PROVE WholeTargets
  <2>1. Typed /\ Made /\ Referred
    BY <1>1 DEF IInv
  <2>2. ASSUME NEW t \in Targets, Exists(t), t \notin stateRow
        PROVE  \E r \in Slots : /\ request[r].subject = t
                                /\ request[r].handler = "create_target"
                                /\ request[r].answer \in {"none", "error"}
    <3>1. PICK r \in Slots : HalfMade(request[r], t)
      BY <2>1, <2>2 DEF Made
    <3>2. Sound(request[r])
      BY <2>1 DEF Typed
    <3> QED BY <3>1, <3>2 DEF HalfMade, Sound
  <2>3. \A x \in Incidents \cup Windows :
            Exists(x) => row[x].target = None \/ Exists(row[x].target)
    BY <2>1 DEF Referred, Refers
  <2> QED BY <2>1, <2>2, <2>3 DEF WholeTargets, Referred
<1> QED BY <1>1, Invariance, PTL
-----------------------------------------------------------------------------
(* What the requests may do: the properties of steps.                      *)

\* A statement is one's own: the others have as much to do as before.
LEMMA Mine ==
    ASSUME IInv, NEW r \in Slots, Step(r), NEW s \in Slots,
           request'[s].pc # request[s].pc \/ request'[s].todo # request[s].todo
    PROVE  s = r
<1>1. Typed /\ Referred /\ Stands(request[r])
  BY DEF IInv
<1>2. Beside(r)
  BY <1>1, StepKind
<1> QED BY <1>1, <1>2, BesideSame

\* The end of a change that is answered "done" is its audit row.
LEMMA ToldAtEnd ==
    ASSUME IInv, NEW r \in Slots, Step(r), Ends(r, "ok"),
           request[r].handler \in Changes \ {"create_maintenance_form"}
    PROVE  /\ At(request[r], "Log")
           /\ request'[r].logged = {[old |-> request[r].old, new |-> request[r].new]}
<1>1. Typed /\ Referred /\ Stands(request[r])
  BY DEF IInv
<1>2. Kind(r)
  BY <1>1, StepKind
<1>3. request[r].pc = "work" /\ request'[r].pc = "done" /\ request'[r].answer = "ok"
  BY DEF Ends
<1>4. Ending(r)
  BY <1>2, <1>3 DEF Kind, Asking, Entering, ReadingOn, Beginning, Sending, Goes, Moving
<1> QED BY <1>3, <1>4 DEF Ending, Outcome

\* Who is answered "done" without a warning finds the change in the audit log, with
\* the row as it was and as it is, whatever others did to other rows meanwhile.
THEOREM AuditTellsHolds == Spec => AuditTells
<1>1. ASSUME IInv, [Next]_vars, NEW r \in Slots, Ends(r, "ok"),
             request[r].handler \in Changes \ {"create_maintenance_form"}
      PROVE  /\ request'[r].logged # {}
             /\ request[r].quiet => Tells(r)
  <2> DEFINE q == request[r]
  <2>1. q.pc = "work" /\ request'[r].pc = "done"
    BY <1>1 DEF Ends
  <2>2. PICK o \in Slots : Step(o)
    BY <1>1, <2>1 DEF Next, vars
  <2>3. Step(r)
    BY <1>1, <2>1, <2>2, Mine
  <2>4. At(q, "Log") /\ request'[r].logged = {[old |-> q.old, new |-> q.new]}
    BY <1>1, <2>3, ToldAtEnd
  <2>5. Stands(q)
    BY <1>1 DEF IInv
  <2>6. q.quiet /\ q.handler \in ReadersBack => q.new = Whole(q.subject)
    BY <2>4, <2>5 DEF Stands, TakenBack
  <2>7. q.quiet /\ q.handler \in Updaters => q.old = q.before
    BY <2>1, <2>4, <2>5 DEF Stands, Remembered, At
  <2> QED BY <2>4, <2>6, <2>7 DEF Tells, ReadersBack, Updaters
<1>2. IInv /\ [Next]_vars =>
          [\A r \in Slots :
              Ends(r, "ok") /\ request[r].handler \in Changes \ {"create_maintenance_form"}
                  => /\ request'[r].logged # {}
                     /\ request[r].quiet => Tells(r)]_vars
  BY <1>1
<1> QED BY <1>2, Invariance, PTL DEF Spec, AuditTells

\* An update writes what it has read in the statement before: of a row that nobody
\* wrote since, the columns it was not given are what they were.
THEOREM KeepsUnnamedHolds == Spec => KeepsUnnamed
<1>1. ASSUME IInv, [Next]_vars, NEW r \in Slots, Runs(r, "Update"),
             request'[r].todo = Tail(request[r].todo), request[r].fresh,
             NEW f \in DOMAIN row[request[r].subject] \ DOMAIN request[r].ask.names
      PROVE  row'[request[r].subject][f] = row[request[r].subject][f]
  <2> DEFINE q == request[r]
             x == q.subject
  <2>1. Typed /\ Referred /\ Stands(q) /\ Sound(q)
    BY <1>1 DEF IInv, Typed
  <2>2. "Update" \in Statements /\ "Update" # "Log"
    BY DEF Statements
  <2>3. Tail(q.todo) # q.todo /\ At(q, "Update")
    BY <1>1, <2>1, <2>2, RunsOn DEF Runs, Working, At
  <2>4. PICK o \in Slots : Step(o)
    BY <1>1, <2>3 DEF Next, vars
  <2>5. Step(r)
    BY <1>1, <2>3, <2>4, Mine
  <2>6. Kind(r)
    BY <2>1, <2>5, StepKind
  <2>7. q.base = row[x]
    BY <1>1, <2>1, <2>3 DEF Stands, FreshBase
  <2>8. CASE UNCHANGED tables
    BY <2>8 DEF tables
  <2>9. CASE Goes(r)
    <3>1. PICK s \in Statements : Moving(r, s) /\ Gained(r, s)
      BY <2>9 DEF Goes
    <3>2. s = "Update"
      BY <1>1, <3>1 DEF Moving, Runs
    <3>3. row'[x] = IF Exists(x) THEN Over(q.ask.names, row[x]) ELSE row[x]
      BY <2>7, <3>1, <3>2 DEF Gained
    <3>4. \A c \in DOMAIN row[x] \ DOMAIN q.ask.names :
              Over(q.ask.names, row[x])[c] = row[x][c]
      BY OverColumns
    <3> QED BY <3>3, <3>4
  <2> QED BY <2>6, <2>8, <2>9 DEF Kind, Asking, Ending, Entering, ReadingOn, Beginning, Sending,
                                 Alone
<1>2. IInv /\ [Next]_vars =>
          [\A r \in Slots :
              LET q == request[r]
                  x == q.subject
              IN Runs(r, "Update") /\ request'[r].todo = Tail(q.todo) /\ q.fresh
                    => \A f \in DOMAIN row[x] \ DOMAIN q.ask.names : row'[x][f] = row[x][f]]_vars
  BY <1>1
<1> QED BY <1>2, Invariance, PTL DEF Spec, KeepsUnnamed

\* A read that goes through adds to its page what the core answers, and it goes
\* through only if the gateway lets the viewer see what it has asked for.
LEMMA QueryShows ==
    ASSUME Typed, NEW r \in Slots, Query(r),
           request'[r].seen # request[r].seen \/ request'[r].pc = "work"
    PROVE  LET q == request[r]
               p == request'[r]
               h == HandlerOf(CoreRoutes, Head(q.calls))
               shows == Shows(h, q.subject, q.ask.user, q.admin, q.seen)
           IN /\ p.seen.targets = shows.targets /\ p.seen.channels = shows.channels
              /\ ~Forbidden(h, q.subject, q.ask.user, q.admin)
              /\ p.calls = Tail(q.calls) /\ p.pc \in {"work", "done"}
<1> DEFINE q == request[r]
           p == request'[r]
           h == HandlerOf(CoreRoutes, Head(q.calls))
           shows == Shows(h, q.subject, q.ask.user, q.admin, q.seen)
<1>1. Sound(q) /\ q.pc = "work" /\ IsSeen(q.seen)
  BY DEF Typed, Query, Working, Sound, IsRequest
<1>2. \A a : ~Answer(r, a)
  BY <1>1, Answered
<1>3. /\ ~Forbidden(h, q.subject, q.ask.user, q.admin)
      /\ \E others \in BOOLEAN :
               LET seen == [shows EXCEPT !.others = others]
                   last == Len(q.calls) = 1
               IN request' = [request EXCEPT ![r] =
                     [q EXCEPT !.seen = seen, !.calls = Tail(@),
                               !.pc = IF last THEN "done" ELSE "work",
                               !.answer = IF last THEN "ok" ELSE "none"]]
  BY <1>2 DEF Query
<1>4. PICK others \in BOOLEAN :
               LET seen == [shows EXCEPT !.others = others]
                   last == Len(q.calls) = 1
               IN request' = [request EXCEPT ![r] =
                     [q EXCEPT !.seen = seen, !.calls = Tail(@),
                               !.pc = IF last THEN "done" ELSE "work",
                               !.answer = IF last THEN "ok" ELSE "none"]]
  BY <1>3
<1> DEFINE seen == [shows EXCEPT !.others = others]
           last == Len(q.calls) = 1
<1>5. p = [q EXCEPT !.seen = seen, !.calls = Tail(@),
                    !.pc = IF last THEN "done" ELSE "work",
                    !.answer = IF last THEN "ok" ELSE "none"]
  BY <1>4 DEF Typed
<1>6. IsRequest(q)
  BY <1>1 DEF Sound
<1>7. p.seen = seen /\ p.calls = Tail(q.calls) /\ p.pc \in {"work", "done"}
  <2> HIDE DEF p, q, seen, last
  <2> QED BY <1>5, <1>6 DEF IsRequest
<1>8. IsSeen(shows)
  BY <1>1 DEF Shows, IsSeen
<1>9. seen.targets = shows.targets /\ seen.channels = shows.channels
  <2> HIDE DEF shows
  <2> QED BY <1>8 DEF IsSeen
<1> QED BY <1>3, <1>7, <1>9

\* What a read adds to a member's page is the member's own.
LEMMA QueryConfined ==
    ASSUME Typed, NEW r \in Slots, Query(r), ~request[r].admin,
           NEW x \in (request'[r].seen.targets \ request[r].seen.targets)
                        \cup (request'[r].seen.channels \ request[r].seen.channels)
    PROVE  row[x].owner = request[r].ask.user
<1> DEFINE q == request[r]
           p == request'[r]
           h == HandlerOf(CoreRoutes, Head(q.calls))
           user == q.ask.user
           shows == Shows(h, q.subject, user, q.admin, q.seen)
<1>1. Sound(q) /\ IsSeen(q.seen)
  BY DEF Typed, Sound, IsRequest
<1>2. /\ p.seen.targets = shows.targets /\ p.seen.channels = shows.channels
      /\ ~Forbidden(h, q.subject, user, q.admin)
  BY QueryShows
<1>3. /\ shows.targets \subseteq
            q.seen.targets \cup Listed(user, q.admin, Targets)
                \cup (IF h = "targets::get" THEN {q.subject} ELSE {})
      /\ shows.channels \subseteq
            q.seen.channels \cup Listed(user, q.admin, Channels)
                \cup (IF h = "channels::get" THEN {q.subject} ELSE {})
  BY <1>1 DEF Shows, IsSeen
<1> HIDE DEF h, shows, user
<1>4. MayList(user, q.admin, x)
  <2>1. h \in {"targets::get", "channels::get"} => MayList(user, q.admin, q.subject)
    BY <1>2 DEF Forbidden
  <2>2. x \in Listed(user, q.admin, Targets) \cup Listed(user, q.admin, Channels)
            => MayList(user, q.admin, x)
    BY DEF Listed
  <2> QED BY <1>2, <1>3, <2>1, <2>2
<1> QED BY <1>4 DEF MayList, user

\* The calls that begin by asking for the row they are about.
Asked(calls, id) == calls # <<>> /\ Head(calls) = TargetCalls(id).get_target

\* The calls that ask nothing about a row.
Plain(calls) ==
    \A k \in DOMAIN calls : HandlerOf(CoreRoutes, calls[k]) \notin RowReads

\* A member's page that has still to read about its row shows that row already, or
\* asks for it next.
Introduced(q) ==
    q.pc = "work" /\ ~q.admin /\ q.handler \notin Changes =>
        q.subject \in q.seen.targets \/ Plain(q.calls) \/ Asked(q.calls, q.subject)

\* The core is asked about a row under a path of three segments or more.
LEMMA ShortReads ==
    ASSUME NEW call, Len(call.path) \in {1, 2}
    PROVE  HandlerOf(CoreRoutes, call) \notin RowReads
<1>1. \A route \in CoreRoutes : route[2] \in RowReads => Len(route[1].path) \notin {1, 2}
  BY SMTT(60) DEF CoreRoutes, Get, Post, Put, Del, RowReads, AttachmentReads
<1>2. "none" \notin RowReads
  BY DEF RowReads, AttachmentReads
<1> QED BY <1>1, <1>2, CoreRouted DEF Fits

\* The calls of a member's page ask nothing about a row, or begin with the row.
LEMMA MembersCalls ==
    ASSUME NEW h, NEW id, NEW tab, NEW admin, ~admin
    PROVE  LET calls == HandlerCalls(h, id, tab, admin)
           IN Plain(calls) \/ Asked(calls, id)
<1> DEFINE Short(calls) == \A k \in DOMAIN calls : Len(calls[k].path) \in {1, 2}
<1>1. \A calls : Short(calls) => Plain(calls)
  BY ShortReads DEF Plain
<1>2. ASSUME NEW T, NEW a \in T, NEW b \in Seq(T), NEW c \in Seq(T)
      PROVE  <<a>> \o b # <<>> /\ Head(<<a>> \o b) = a
  OBVIOUS
<1>3. /\ Short(DashboardCalls) /\ Short(TargetsListCalls) /\ Short(IncidentsListCalls)
      /\ Short(MaintenanceListCalls) /\ Short(ChannelsListCalls) /\ Short(StatsPageCalls)
      /\ Short(AuditLogCalls) /\ Short(AuditVerifyCalls) /\ Short(MeSecurityCalls)
      /\ Short(SettingsCalls) /\ Short(<<>>)
  BY DEF DashboardCalls, TargetsListCalls, IncidentsListCalls, MaintenanceListCalls,
         ChannelsListCalls, StatsPageCalls, AuditLogCalls, AuditVerifyCalls, MeSecurityCalls,
         SettingsCalls, Get, TargetCalls, IncidentCalls, WindowCalls, ChannelCalls, SlaCalls,
         AuditCalls, UserCalls
<1>4. Short(ChannelDetailCalls(id, admin))
  <2>1. ChannelDetailCalls(id, admin) = <<ChannelCalls(id).get_channel>> \o <<>>
    BY DEF ChannelDetailCalls
  <2>2. <<ChannelCalls(id).get_channel>> \o <<>> = <<ChannelCalls(id).get_channel>>
    OBVIOUS
  <2>3. Short(<<ChannelCalls(id).get_channel>>)
    BY DEF ChannelCalls, Get
  <2> QED BY <2>1, <2>2, <2>3
<1>5. /\ Asked(TargetResultsCalls(id), id) /\ Asked(StatsDetailCalls(id), id)
      /\ Asked(IncidentsCsvCalls(id), id)
  BY DEF Asked, TargetResultsCalls, StatsDetailCalls, IncidentsCsvCalls
<1>6. Asked(TargetDetailCalls(id, tab, admin), id)
  <2> DEFINE T == PageCalls(id)
             first == <<TargetCalls(id).get_target, TargetCalls(id).get_state>>
             results == IF tab = "results" THEN <<TargetCalls(id).list_results>> ELSE <<>>
             attached == IF tab = "channels"
                         THEN <<AttachmentCalls(id, "").list_channels_for_target>> ELSE <<>>
             channels == IF tab = "channels" /\ admin
                         THEN <<ChannelCalls("").list_channels>> ELSE <<>>
  <2>1. TargetDetailCalls(id, tab, admin) = first \o results \o attached \o channels
    BY DEF TargetDetailCalls
  <2>2. first \in Seq(T) /\ results \in Seq(T) /\ attached \in Seq(T) /\ channels \in Seq(T)
    <3>1. /\ first \in Seq(T)
          /\ <<TargetCalls(id).list_results>> \in Seq(T)
          /\ <<AttachmentCalls(id, "").list_channels_for_target>> \in Seq(T)
          /\ <<ChannelCalls("").list_channels>> \in Seq(T)
          /\ <<>> \in Seq(T)
      BY DEF PageCalls, TargetPaths, OtherPaths, Get, TargetCalls, ChannelCalls, AttachmentCalls
    <3> HIDE DEF T, first
    <3> QED BY <3>1
  <2>3. first # <<>> /\ Head(first) = TargetCalls(id).get_target
    OBVIOUS
  <2> HIDE DEF T, first, results, attached, channels
  <2>4. ASSUME NEW a \in Seq(T), a # <<>>, NEW b \in Seq(T)
        PROVE  a \o b \in Seq(T) /\ a \o b # <<>> /\ Head(a \o b) = Head(a)
    <3>1. Len(a) \in Nat /\ Len(a) # 0 /\ Len(b) \in Nat
      BY <2>4
    <3>2. Len(a \o b) = Len(a) + Len(b) /\ (a \o b)[1] = a[1]
      BY <2>4, <3>1
    <3> QED BY <2>4, <3>1, <3>2
  <2>5. LET s == first \o results
        IN s \in Seq(T) /\ s # <<>> /\ Head(s) = TargetCalls(id).get_target
    BY <2>2, <2>3, <2>4
  <2>6. LET s == first \o results \o attached
        IN s \in Seq(T) /\ s # <<>> /\ Head(s) = TargetCalls(id).get_target
    BY <2>2, <2>4, <2>5
  <2>7. LET s == first \o results \o attached \o channels
        IN s # <<>> /\ Head(s) = TargetCalls(id).get_target
    BY <2>2, <2>4, <2>6
  <2> QED BY <2>1, <2>7 DEF Asked
<1> HIDE DEF Short
<1> QED BY <1>1, <1>3, <1>4, <1>5, <1>6 DEF HandlerCalls

\* A request at work finds the row it is about under the first of its calls.
LEMMA AskedTarget ==
    ASSUME NEW q, Sound(q), q.pc = "work", Asked(q.calls, q.subject)
    PROVE  HandlerOf(CoreRoutes, Head(q.calls)) = "targets::get"
BY AsksAssumption DEF Sound, Asked

\* A read keeps a page's introductions.
LEMMA QueryIntroduces ==
    ASSUME Typed, NEW r \in Slots, Query(r), Introduced(request[r])
    PROVE  Introduced(request'[r])
<1> DEFINE q == request[r]
           p == request'[r]
           h == HandlerOf(CoreRoutes, Head(q.calls))
<1> SUFFICES ASSUME p.pc = "work", ~p.admin, p.handler \notin Changes
             PROVE  p.subject \in p.seen.targets \/ Plain(p.calls) \/ Asked(p.calls, p.subject)
  BY DEF Introduced
<1>1. Sound(q) /\ q.pc = "work" /\ q.calls # <<>> /\ IsSeen(q.seen)
  BY DEF Typed, Query, Working, Sound, IsRequest
<1>2. SameAsk(q, p)
  BY QueryKind DEF ReadingOn, Ending
<1>3. /\ p.seen.targets = Shows(h, q.subject, q.ask.user, q.admin, q.seen).targets
      /\ p.calls = Tail(q.calls)
  BY QueryShows
<1>4. q.seen.targets \cup (IF h = "targets::get" THEN {q.subject} ELSE {}) \subseteq p.seen.targets
  BY <1>1, <1>3 DEF Shows, IsSeen
<1>5. q.subject \in q.seen.targets \/ Plain(q.calls) \/ Asked(q.calls, q.subject)
  BY <1>1, <1>2 DEF Introduced, SameAsk
<1>6. CASE Plain(q.calls)
  <2>1. q.calls \in Seq(PageCalls(q.subject))
    BY QueryKind DEF Reading
  <2>2. \A k \in DOMAIN Tail(q.calls) : k + 1 \in DOMAIN q.calls /\ Tail(q.calls)[k] = q.calls[k + 1]
    <3> HIDE DEF q
    <3> QED BY <1>1, <2>1
  <2> QED BY <1>3, <1>6, <2>2 DEF Plain
<1>7. CASE Asked(q.calls, q.subject)
  BY <1>1, <1>2, <1>4, <1>7, AskedTarget DEF SameAsk
<1> QED BY <1>2, <1>4, <1>5, <1>6, <1>7 DEF SameAsk

\* So does every step.
LEMMA StepIntroduces ==
    ASSUME IInv, NEW r \in Slots, Step(r), NEW s \in Slots, Introduced(request[s])
    PROVE  Introduced(request'[s])
<1>1. Typed /\ Referred /\ Stands(request[r]) /\ Sound(request[r])
  BY DEF IInv, Typed
<1>2. Kind(r) /\ Beside(r) /\ Typed'
  BY <1>1, StepKind
<1>3. CASE s # r
  BY <1>1, <1>2, <1>3, BesideSame DEF Introduced
<1>4. CASE s = r
  <2> DEFINE q == request[r]
             p == request'[r]
  <2>1. CASE Asking(r) \/ Ending(r)
    BY <1>4, <2>1 DEF Asking, Ending, Introduced
  <2>2. CASE Entering(r)
    <3>1. p.calls = CoreCalls(p.handler, p.subject, p.ask.channel, p.ask.tab, p.admin)
      BY <2>2 DEF Entering
    <3> HIDE DEF p
    <3>2. ASSUME ~p.admin, p.handler \notin Changes
          PROVE  Plain(p.calls) \/ Asked(p.calls, p.subject)
      <4>1. p.calls = HandlerCalls(p.handler, p.subject, p.ask.tab, p.admin)
        BY <3>1, <3>2 DEF CoreCalls
      <4> QED BY <3>2, <4>1, MembersCalls
    <3> QED BY <1>4, <3>2 DEF Introduced, p
  <2>3. CASE Query(r)
    BY <1>1, <1>4, <2>3, QueryIntroduces
  <2>4. CASE Beginning(r) \/ Sending(r)
    <3>1. q.handler \in Changes /\ p.handler = q.handler
      BY <2>4 DEF Beginning, Sending, Calling, SameAsk, Changes, NeedsToken
    <3> QED BY <1>4, <3>1 DEF Introduced
  <2>5. CASE Goes(r)
    <3>1. PICK st \in Statements : Moving(r, st)
      BY <2>5 DEF Goes
    <3>2. q.handler \in Changes /\ p.handler = q.handler
      BY <1>1, <3>1, RunsSound DEF Moving, Changing, SameAsk
    <3> QED BY <1>4, <3>2 DEF Introduced
  <2> QED BY <1>2, <2>1, <2>2, <2>3, <2>4, <2>5 DEF Kind, ReadingOn
<1> QED BY <1>3, <1>4

\* Nothing is read about a row before the row.
THEOREM Introductions == Spec => [](IInv /\ \A r \in Slots : Introduced(request[r]))
<1> DEFINE Inv == IInv /\ \A r \in Slots : Introduced(request[r])
<1>1. Init => Inv
  BY InitInv DEF Init, Idle, Introduced
<1>2. Inv /\ [Next]_vars => Inv'
  <2>1. ASSUME Inv, NEW r \in Slots, Step(r) PROVE Inv'
    BY <2>1, StepInv, StepIntroduces
  <2>2. ASSUME Inv, UNCHANGED vars PROVE Inv'
    BY <2>2, NextInv DEF vars, Introduced
  <2> QED BY <2>1, <2>2 DEF Next
<1> QED BY <1>1, <1>2, PTL DEF Spec

\* What a member reads about a row comes after the row.
LEMMA QueryAfterRow ==
    ASSUME Typed, NEW r \in Slots, Query(r), Introduced(request[r]), ~request[r].admin,
           HandlerOf(CoreRoutes, Head(request[r].calls)) \in RowReads
    PROVE  request[r].subject \in request[r].seen.targets
<1> DEFINE q == request[r]
<1>1. Sound(q) /\ q.pc = "work" /\ q.calls # <<>>
  BY DEF Typed, Query, Working
<1>2. q.handler \notin Changes /\ q.calls \in Seq(PageCalls(q.subject))
  BY QueryKind DEF Reading
<1>3. ~Plain(q.calls)
  <2>1. 1 \in DOMAIN q.calls /\ Head(q.calls) = q.calls[1]
    <3> HIDE DEF q
    <3> QED BY <1>1, <1>2
  <2> QED BY <2>1 DEF Plain
<1>4. ~Asked(q.calls, q.subject)
  BY <1>1, AskedTarget DEF RowReads, AttachmentReads
<1> QED BY <1>1, <1>2, <1>3, <1>4 DEF Introduced

\* A member changes no table: the guard was passed by whoever is at work.  The lists
\* of targets, channels and reports show a member what is theirs, by the rows as they
\* are at that moment, and nothing about a row is read before the row itself was, and
\* found to be theirs.  The lists without an owner's filter are not spoken of.
THEOREM MembersConfinedHolds == Spec => MembersConfined
<1>1. ASSUME IInv, [Next]_vars, tables' # tables
      PROVE  \E r \in Slots : /\ request'[r].todo # request[r].todo
                              /\ request[r].admin /\ request[r].ask.token
  <2>1. PICK r \in Slots : Step(r)
    BY <1>1 DEF Next, vars
  <2>2. Typed /\ Referred /\ Stands(request[r]) /\ Sound(request[r])
    BY <1>1 DEF IInv, Typed
  <2>3. Kind(r)
    BY <2>1, <2>2, StepKind
  <2>4. Goes(r)
    BY <1>1, <2>3 DEF Kind, Asking, Ending, Entering, ReadingOn, Beginning, Sending, Alone
  <2>5. PICK s \in Statements : Moving(r, s)
    BY <2>4 DEF Goes
  <2>6. /\ Runs(r, s) /\ s # "Log" /\ s # "Begin"
        /\ request'[r].todo = Tail(request[r].todo)
    BY <2>5 DEF Moving, Statements
  <2>7. /\ Tail(request[r].todo) # request[r].todo
        /\ <<request[r].handler, s, Head(Tail(request[r].todo))>> \in Flow
    BY <2>2, <2>6, RunsOn
  <2>8. request[r].handler # "migration_export"
    BY <2>6, <2>7 DEF Flow
  <2>9. request[r].pc = "work" /\ request[r].handler \in Changes
    BY <2>2, <2>6, RunsSound DEF Changing
  <2> QED BY <2>2, <2>6, <2>7, <2>8, <2>9, GuardedChange
<1>2. ASSUME IInv, [Next]_vars, NEW r \in Slots, ~request[r].admin,
             NEW x \in (request'[r].seen.targets \ request[r].seen.targets)
                          \cup (request'[r].seen.channels \ request[r].seen.channels)
      PROVE  row[x].owner = request[r].ask.user
  <2>1. request'[r].seen # request[r].seen
    BY <1>2
  <2>2. PICK o \in Slots : Step(o)
    BY <1>2, <2>1 DEF Next, vars
  <2>3. Typed /\ Referred /\ Stands(request[o])
    BY <1>2 DEF IInv
  <2>4. Kind(o) /\ Beside(o)
    BY <2>2, <2>3, StepKind
  <2>5. r = o
    BY <2>1, <2>3, <2>4, BesideSame
  <2>6. ~Asking(r)
    BY <1>2 DEF Asking
  <2>7. Query(r)
    BY <2>1, <2>4, <2>5, <2>6 DEF Kind, Ending, Entering, ReadingOn, Beginning, Sending, Goes, Moving
  <2> QED BY <1>2, <2>3, <2>7, QueryConfined
<1>3. ASSUME IInv, NEW r \in Slots, Introduced(request[r]), ~request[r].admin, Query(r),
             HandlerOf(CoreRoutes, Head(request[r].calls)) \in RowReads
      PROVE  request[r].subject \in request[r].seen.targets \cup request[r].seen.channels
  BY <1>3, QueryAfterRow DEF IInv
<1>4. IInv /\ (\A r \in Slots : Introduced(request[r])) /\ [Next]_vars =>
        [/\ tables' # tables =>
             \E r \in Slots : /\ request'[r].todo # request[r].todo
                              /\ request[r].admin /\ request[r].ask.token
         /\ \A r \in Slots :
             LET q == request[r]
                 after == request'[r].seen
             IN ~q.admin =>
                 /\ \A x \in (after.targets \ q.seen.targets)
                              \cup (after.channels \ q.seen.channels) :
                       row[x].owner = q.ask.user
                 /\ Query(r) /\ HandlerOf(CoreRoutes, Head(q.calls)) \in RowReads
                       => q.subject \in q.seen.targets \cup q.seen.channels]_vars
  BY <1>1, <1>2, <1>3
<1> QED BY <1>4, Introductions, PTL DEF Spec, MembersConfined
=============================================================================
