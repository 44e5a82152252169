----------------------------- MODULE MCConsole -----------------------------
(***************************************************************************)
(* An administrator and a member, two requests at a time.                  *)
(***************************************************************************)
EXTENDS Console, TLC

\* Every request there is, by somebody.
Plain(user, call) ==
    [user |-> user, call |-> call, token |-> TRUE, tab |-> "overview", new |-> "",
     names |-> [name |-> "n"], tags |-> None, channel |-> "c1", valid |-> TRUE]

MCUsers == {"a", "m", "u"}
MCTargets == {"t1", "t2", "t3"}
MCChannels == {"c1", "c2", "c3"}
MCWindows == {"w1", "w2"}
MCIncidents == {"i1", "i2"}

PageAsks == {Plain(u, Get(p)) : u \in {"a", "m"}, p \in
    {<<>>, <<"targets">>, <<"targets", "t2">>, <<"api", "targets", "t1", "results">>,
     <<"incidents">>, <<"maintenance">>, <<"channels">>, <<"channels", "c1">>,
     <<"channels", "c2">>, <<"stats">>, <<"stats", "t1">>, <<"audit">>,
     <<"api", "stats", "incidents", "t1.csv">>, <<"me", "security">>, <<"settings">>,
     <<"admin", "migration">>}}

TabbedPages == {[Plain(u, Get(<<"targets", "t1">>)) EXCEPT !.tab = tab] :
                    u \in {"a", "m"}, tab \in Tabs}

Creates ==
    {[Plain("a", Post(<<"api", "targets">>)) EXCEPT !.new = "t3", !.tags = g] :
        g \in {None, {"x"}}}
    \cup {[Plain("a", Post(<<"api", "channels">>)) EXCEPT !.new = "c3", !.valid = v] :
        v \in BOOLEAN}
    \cup {[Plain("a", Post(path)) EXCEPT !.new = "w2", !.names = [target |-> t]] :
        path \in {<<"api", "maintenance">>, <<"maintenance">>}, t \in {None, "t1"}}

Updates ==
    {[Plain("a", Put(<<"api", "targets", "t1">>)) EXCEPT !.names = f, !.tags = g] :
        f \in {[name |-> "n"], [enabled |-> FALSE]}, g \in {None, {}, {"y"}}}
    \cup {[Plain("a", Put(<<"api", "channels", "c1">>)) EXCEPT !.names = f, !.valid = v] :
        f \in {[name |-> "n"], [enabled |-> FALSE]}, v \in BOOLEAN}
    \cup {[Plain("a", Post(<<"api", "settings", "users">>)) EXCEPT
              !.new = u, !.names = [role |-> "member", active |-> v]] :
        u \in {"a", "u"}, v \in BOOLEAN}

Others ==
    {Plain("a", Del(<<"api", "targets", t>>)) : t \in {"t1", "t3"}}
    \cup {Plain("a", Del(<<"api", "channels", "c1">>))}
    \cup {Plain("a", Post(<<"api", "targets", t, "channels">>)) : t \in {"t1", "t3"}}
    \cup {Plain("a", Del(<<"api", "targets", "t1", "channels", "c1">>))}
    \cup {Plain("a", Post(<<"api", "channels", c, "test">>)) : c \in {"c1", "c2"}}
    \cup {Plain(u, Post(<<"api", "incidents", "i1", "resolve">>)) : u \in {"a", "m"}}
    \cup {Plain("a", Get(<<"api", "admin", "migration", "export">>))}

MCAsks ==
    LET asks == PageAsks \cup TabbedPages \cup Creates \cup Updates \cup
                {[a EXCEPT !.names = IF a.call.path[2] = "incidents"
                                     THEN [status |-> "resolved"] ELSE a.names] : a \in Others}
    IN asks \cup {[a EXCEPT !.token = FALSE] : a \in {x \in Others : x.call.method = "DELETE"}}

MCTables ==
    {[row |-> "a" :> [role |-> "admin", active |-> TRUE]
              @@ "m" :> [role |-> "member", active |-> TRUE]
              @@ "t1" :> [name |-> "t1", enabled |-> TRUE, owner |-> "m"]
              @@ "t2" :> [name |-> "t2", enabled |-> TRUE, owner |-> "a"]
              @@ "c1" :> [name |-> "c1", enabled |-> TRUE, owner |-> "m"]
              @@ "c2" :> [name |-> "c2", enabled |-> FALSE, owner |-> "a"]
              @@ "w1" :> [target |-> "t1"]
              @@ "i1" :> [target |-> "t1", status |-> "open"]
              @@ "i2" :> [target |-> "t2", status |-> "open"]
              @@ [x \in {"u", "t3", "c3", "w2"} |-> Absent],
      tags |-> "t1" :> {"x"} @@ [x \in {"t2", "t3"} |-> {}],
      stateRow |-> {"t1", "t2"},
      link |-> attached] : attached \in {{}, {<<"t1", "c1">>}}}

Symmetry == Permutations(Slots)
=============================================================================
