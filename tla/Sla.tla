-------------------------------- MODULE Sla --------------------------------
(***************************************************************************)
(* Availability reports: the statistics pages and the CSV files made from  *)
(* them.                                                                   *)
(*                                                                         *)
(* A report is built from three queries, one after the other, over tables  *)
(* that monitor and administrators go on changing, against a clock read    *)
(* before the first of them; a page is built from several reports, each    *)
(* with a clock of its own.  Time is counted in seconds, the resolution of *)
(* every stored timestamp.                                                 *)
(***************************************************************************)
EXTENDS Integers, SequencesExt, FiniteSetsExt

CONSTANTS Targets,
          Callers,       \* users
          Admins,        \* those with role admin
          Owner,         \* the owner of each target
          Tags,          \* the tags of each target
          Windows,       \* windows an administrator may create
          Asked,         \* lengths a report may be asked for
          Compared,      \* the lengths the detail page compares
          Situations,    \* incidents and windows to start from
          StartClock,
          None,
          MaxClock, MaxMoves   \* bounds of the model

Row(time) == [opened : 0 .. time, resolved : (0 .. time) \cup {None},
              duration : Int \cup {None}]

\* The incidents of a target at some time, in the order they were stored: one
\* is open at most, the last (idx_incident_one_open).
History(rows, time) ==
    /\ rows \in Seq(Row(time))
    /\ \A k \in DOMAIN rows : rows[k].resolved = None => k = Len(rows)

ASSUME ReportAssumption ==
    /\ Admins \subseteq Callers
    /\ Owner \in [Targets -> Callers] /\ IsFiniteSet(Targets)
    /\ \A w \in Windows : /\ w.start \in Int /\ w.end \in Int /\ w.start < w.end
                          /\ w.target = None \/ w.tag = None
    /\ Asked \subseteq Nat \ {0} /\ Compared \in Seq(Nat \ {0})
    /\ StartClock \in Nat /\ None \notin Int /\ None \notin [part : Int, whole : Int]
    /\ \A s \in Situations : /\ s.windows \subseteq Windows /\ IsFiniteSet(s.windows)
                             /\ DOMAIN s.incident = Targets
                             /\ \A t \in Targets : History(s.incident[t], StartClock)

VARIABLES now,
          incident,   \* the incidents of each target, in the order they were stored
          window,     \* rows of maintenance_windows
          deleted,    \* targets whose row is gone
          sent,       \* changes to incidents: their time is read, nothing is stored yet
          altered,    \* history: targets whose past changed since the page was asked for
          page,       \* the page being built
          moves       \* changes made meanwhile (a bound)

tables == <<incident, window, deleted>>
vars == <<now, tables, sent, altered, page, moves>>

Seconds(r) == r.start .. r.end - 1

Blank == [pc |-> "Idle", kind |-> "none", caller |-> None, width |-> 0,
          todo |-> <<>>, at |-> 0, found |-> <<>>, reports |-> <<>>,
          summary |-> None, listing |-> <<>>]

\* `meant` remembers the target a window was created for.
Created(windows) ==
    {[start |-> w.start, end |-> w.end, tag |-> w.tag, target |-> w.target,
      exclude |-> w.exclude, meant |-> w.target] : w \in windows}

Init == /\ now = StartClock
        /\ \E s \in Situations : incident = s.incident /\ window = Created(s.windows)
        /\ deleted = {} /\ sent = {} /\ altered = {}
        /\ moves = 0
        /\ page = Blank

----------------------------------------------------------------------------
(* The interval arithmetic.                                                *)

Clip(ranges, w) ==
    {r \in {[start |-> Max({r.start, w.start}), end |-> Min({r.end, w.end})] :
                r \in ranges} : r.start < r.end}

IncidentRanges(incidents, w) ==
    Clip({[start |-> i.opened, end |-> IF i.resolved = None THEN w.end ELSE i.resolved] :
              i \in Range(incidents)}, w)

MaintenanceRanges(windows, w) ==
    Clip({[start |-> m.start, end |-> m.end] : m \in windows}, w)

\* Slip: the end of the later range replaces that of a longer one.
MergedSlip(out, r) ==
    IF out # <<>> /\ r.start <= Last(out).end
    THEN [out EXCEPT ![Len(out)].end = r.end]
    ELSE Append(out, r)

\* One range more, in the order of their starts.
Merged(out, r) ==
    IF out # <<>> /\ r.start <= Last(out).end
    THEN [out EXCEPT ![Len(out)].end = Max({@, r.end})]
    ELSE Append(out, r)

Earliest(ranges) == CHOOSE r \in ranges : \A s \in ranges : r.start <= s.start

MergeNext(at) ==
    [left |-> at.left \ {Earliest(at.left)}, out |-> Merged(at.out, Earliest(at.left))]

Union(ranges) ==
    LET turn[n \in 0 .. Cardinality(ranges)] ==
            IF n = 0 THEN [left |-> ranges, out |-> <<>>] ELSE MergeNext(turn[n - 1])
    IN turn[Cardinality(ranges)].out

Total(numbers) ==
    LET upTo[n \in 0 .. Len(numbers)] == IF n = 0 THEN 0 ELSE upTo[n - 1] + numbers[n]
    IN upTo[Len(numbers)]

Length(r) == Max({r.end - r.start, 0})

TotalSeconds(ranges) == Total([i \in DOMAIN ranges |-> Length(ranges[i])])

\* What is left of m in front of s, and where the rest of m begins.  The loop
\* breaks where s lies behind m, as every range after s then does.
Cut(m, acc, s) ==
    IF s.end <= acc.at \/ s.start >= m.end THEN acc
    ELSE [at |-> Max({s.end, acc.at}),
          out |-> IF s.start > acc.at
                  THEN Append(acc.out, [start |-> acc.at, end |-> Min({s.start, m.end})])
                  ELSE acc.out]

\* The result so far, and what subtrahend leaves of m.
WithRest(result, m, subtrahend) ==
    LET cut[n \in 0 .. Len(subtrahend)] ==
            IF n = 0 THEN [at |-> m.start, out |-> result]
            ELSE Cut(m, cut[n - 1], subtrahend[n])
        acc == cut[Len(subtrahend)]
    IN IF acc.at < m.end THEN Append(acc.out, [start |-> acc.at, end |-> m.end]) ELSE acc.out

Subtract(minuend, subtrahend) ==
    LET result[n \in 0 .. Len(minuend)] ==
            IF n = 0 THEN <<>> ELSE WithRest(result[n - 1], minuend[n], subtrahend)
    IN result[Len(minuend)]

----------------------------------------------------------------------------
(* The report of one target.                                               *)

\* A ratio is a fraction; None is "not applicable".
Ratio(part, whole) == [part |-> part, whole |-> whole]
Perfect == Ratio(1, 1)

Effective(r) == Max({(r.end - r.start) - r.excluded, 0})

\* Mean time to recovery over the resolved incidents, a row without a stored
\* duration by its timestamps.
Mttr(incidents) ==
    LET over == {k \in DOMAIN incidents : incidents[k].resolved # None}
        Lasted(i) == IF i.duration # None THEN i.duration ELSE i.resolved - i.opened
    IN IF over = {} THEN None
       ELSE MapThenSumSet(LAMBDA k : Lasted(incidents[k]), over) \div Cardinality(over)

ComputeSla(t, w, incidents, windows) ==
    LET outages == Union(IncidentRanges(incidents, w))
        quiet == Union(MaintenanceRanges(windows, w))
        whole == w.end - w.start
        excluded == TotalSeconds(quiet)
        effective == Max({whole - excluded, 0})
    IN [target |-> t, start |-> w.start, end |-> w.end,
        downtime |-> TotalSeconds(outages),
        excluded |-> excluded,
        sla |-> IF effective = 0 THEN None
                ELSE Ratio(effective - TotalSeconds(Subtract(outages, quiet)), effective),
        count |-> Cardinality(DOMAIN incidents),
        mttr |-> Mttr(incidents),
        seen |-> window]

\* Sums over the reports of a summary.  The outages that count are recovered
\* from each ratio and the seconds it was computed against.
RecoveredSlip(r) ==
    IF r.sla = None THEN 0
    ELSE ((r.sla.whole - r.sla.part) * (r.end - r.start)) \div r.sla.whole

Recovered(r) ==
    IF r.sla = None THEN 0
    ELSE ((r.sla.whole - r.sla.part) * Effective(r)) \div r.sla.whole

Summary(reports) ==
    LET whole == Total([i \in DOMAIN reports |-> reports[i].end - reports[i].start])
        excluded == Total([i \in DOMAIN reports |-> reports[i].excluded])
        downtime == Total([i \in DOMAIN reports |-> reports[i].downtime])
        recovered == Total([i \in DOMAIN reports |-> Recovered(reports[i])])
        effective == Max({whole - excluded, 0})
    IN [gross |-> IF whole = 0 THEN Perfect ELSE Ratio(whole - downtime, whole),
        sla |-> IF whole = 0 THEN Perfect
                ELSE IF effective = 0 THEN None
                ELSE Ratio(effective - recovered, effective)]

----------------------------------------------------------------------------
(* The queries.                                                            *)

\* Rows of a target's incidents, by their keys.
Listed(t, keys) == [k \in keys |-> incident[t][k]]

\* Slip: an incident must also be over within the window, or still open.
ListEnded(t, start, end) ==
    Listed(t, {k \in DOMAIN incident[t] : LET i == incident[t][k] IN
                  /\ i.opened < end
                  /\ i.resolved = None \/ i.resolved \in start + 1 .. end})

\* The rows whose open interval meets [start, end).
ListIncidents(t, start, end) ==
    Listed(t, {k \in DOMAIN incident[t] : LET i == incident[t][k] IN
                  /\ i.opened < end
                  /\ i.resolved = None \/ i.resolved > start})

\* A window of the target, of one of its tags, or of the whole deployment.
Applies(m, t) == \/ m.target = t
                 \/ m.tag # None /\ m.tag \in Tags[t]
                 \/ m.target = None /\ m.tag = None

ListWindows(t, start, end) ==
    {m \in window : m.exclude /\ m.start < end /\ m.end > start /\ Applies(m, t)}

Visible(c) == {t \in Targets \ deleted : c \in Admins \/ Owner[t] = c}

----------------------------------------------------------------------------
(* Building a page.                                                        *)

AskSummary(c, width) ==
    /\ page.pc = "Idle"
    /\ page' = [page EXCEPT !.pc = "List", !.kind = "summary", !.caller = c,
                            !.width = width]
    /\ altered' = {}
    /\ UNCHANGED <<now, tables, sent, moves>>

Task(t, width) == [target |-> t, width |-> width]

ListTargets ==
    /\ page.pc = "List"
    /\ page' = [page EXCEPT !.pc = "Build",
          !.todo = [i \in 1 .. Cardinality(Visible(page.caller)) |->
                       Task(SetToSeq(Visible(page.caller))[i], page.width)]]
    /\ UNCHANGED <<now, tables, sent, altered, moves>>

\* The detail page: its report, the reports it compares, its incidents.  The
\* gateway answers 404 or 403 where the caller may not view the target.
AskDetail(c, t, width) ==
    /\ page.pc = "Idle"
    /\ t \in Visible(c)
    /\ page' = [page EXCEPT !.pc = "Build", !.kind = "detail", !.caller = c,
          !.width = width,
          !.todo = <<Task(t, width)>> \o [i \in DOMAIN Compared |-> Task(t, Compared[i])]]
    /\ altered' = {}
    /\ UNCHANGED <<now, tables, sent, moves>>

\* build_report reads the clock, then the target: a target deleted meanwhile
\* fails the page.
ReadTarget ==
    /\ page.pc = "Build"
    /\ page.todo # <<>>
    /\ page' = IF Head(page.todo).target \in deleted THEN Blank
               ELSE [page EXCEPT !.pc = "Incidents", !.at = now]
    /\ UNCHANGED <<now, tables, sent, altered, moves>>

Span == [start |-> page.at - Head(page.todo).width, end |-> page.at]

ReadIncidents ==
    /\ page.pc = "Incidents"
    /\ page' = [page EXCEPT !.pc = "Windows",
          !.found = ListIncidents(Head(page.todo).target, Span.start, Span.end)]
    /\ UNCHANGED <<now, tables, sent, altered, moves>>

ReadWindows ==
    LET t == Head(page.todo).target
    IN /\ page.pc = "Windows"
       /\ page' = [page EXCEPT !.pc = "Build", !.todo = Tail(@), !.found = <<>>,
             !.reports = Append(@, ComputeSla(t, Span, page.found,
                                     ListWindows(t, Span.start, Span.end)))]
       /\ UNCHANGED <<now, tables, sent, altered, moves>>

\* The summary adds up; the detail page lists the incidents, by a clock of its own.
Complete ==
    /\ page.pc = "Build"
    /\ page.todo = <<>>
    /\ page' = [page EXCEPT !.pc = "Done", !.at = now,
          !.summary = IF page.kind = "summary" THEN Summary(page.reports) ELSE None,
          !.listing = IF page.kind = "summary" THEN <<>>
                      ELSE ListIncidents(page.reports[1].target, now - page.width, now)]
    /\ UNCHANGED <<now, tables, sent, altered, moves>>

Building == ListTargets \/ ReadTarget \/ ReadIncidents \/ ReadWindows \/ Complete

----------------------------------------------------------------------------
(* Meanwhile.                                                              *)

Moves == moves < MaxMoves /\ moves' = moves + 1

IsOpen(t) == incident[t] # <<>> /\ Last(incident[t]).resolved = None

\* A change to an incident reads its time, then awaits the database: what it
\* stores is dated back to the stamp.
Stamp(kind, t, k) ==
    /\ Moves
    /\ sent' = sent \cup {[kind |-> kind, target |-> t, key |-> k, at |-> now, turn |-> moves]}
    /\ UNCHANGED <<now, tables, altered, page>>

\* The past of t changes where a statement arrives in a later second than its
\* stamp, or moves an end that stood.
Lands(c, again) ==
    /\ c \in sent
    /\ sent' = sent \ {c}
    /\ altered' = IF c.at < now \/ again THEN altered \cup {c.target} ELSE altered

\* The INSERT fails while an incident is open, and when the target is gone.
Open(c) ==
    /\ c.kind = "open"
    /\ Lands(c, FALSE)
    /\ incident' = IF IsOpen(c.target) \/ c.target \in deleted THEN incident
                   ELSE [incident EXCEPT ![c.target] =
                            Append(@, [opened |-> c.at, resolved |-> None, duration |-> None])]
    /\ UNCHANGED <<now, window, deleted, page, moves>>

Ended(rows, k, at) ==
    [rows EXCEPT ![k] = [@ EXCEPT !.resolved = at, !.duration = at - rows[k].opened]]

\* An administrator resolves an incident by its id, whatever its status is:
\* once more moves its end, and with it the downtime.
Resolve(c) ==
    LET rows == incident[c.target]
    IN /\ c.kind = "resolve"
       /\ Lands(c, c.key \in DOMAIN rows /\ rows[c.key].resolved # None)
       /\ incident' = IF c.key \in DOMAIN rows
                      THEN [incident EXCEPT ![c.target] = Ended(rows, c.key, c.at)] ELSE incident
       /\ UNCHANGED <<now, window, deleted, page, moves>>

\* The monitor resolves the incident that is open by then, which may be one that
\* was opened after the stamp.
AutoResolve(c) ==
    LET rows == incident[c.target]
    IN /\ c.kind = "auto_resolve"
       /\ Lands(c, FALSE)
       /\ incident' = IF IsOpen(c.target)
                      THEN [incident EXCEPT ![c.target] = Ended(rows, Len(rows), c.at)]
                      ELSE incident
       /\ UNCHANGED <<now, window, deleted, page, moves>>

CreateWindow(w) ==
    /\ Moves
    /\ w.target \notin deleted
    /\ window' = window \cup Created({w})
    /\ UNCHANGED <<now, incident, deleted, sent, altered, page>>

\* Deleting a target deletes its incidents; in its windows the reference
\* becomes NULL (ON DELETE SET NULL).
DeleteTarget(t) ==
    /\ Moves
    /\ t \notin deleted
    /\ deleted' = deleted \cup {t} /\ altered' = altered \cup {t}
    /\ incident' = [incident EXCEPT ![t] = <<>>]
    /\ window' = {IF m.target = t THEN [m EXCEPT !.target = None] ELSE m : m \in window}
    /\ UNCHANGED <<now, sent, page>>

Tick == /\ now < MaxClock
        /\ now' = now + 1
        /\ UNCHANGED <<tables, sent, altered, page, moves>>

Next == \/ \E c \in Callers, width \in Asked :
              \/ AskSummary(c, width)
              \/ \E t \in Targets : AskDetail(c, t, width)
        \/ Building
        \/ \E t \in Targets : \/ Stamp("open", t, None) \/ Stamp("auto_resolve", t, None)
                            \/ \E k \in DOMAIN incident[t] : Stamp("resolve", t, k)
                            \/ DeleteTarget(t)
        \/ \E c \in sent : Open(c) \/ Resolve(c) \/ AutoResolve(c)
        \/ \E w \in Windows : CreateWindow(w)
        \/ Tick

Spec == Init /\ [][Next]_vars

----------------------------------------------------------------------------
Reports == ToSet(page.reports)

\* What a report should say, counted second by second.
DownSeconds(r) == {s \in Seconds(r) : \E k \in DOMAIN incident[r.target] :
                      LET i == incident[r.target][k]
                      IN i.opened <= s /\ (i.resolved = None \/ s < i.resolved)}
QuietSeconds(r) == {s \in Seconds(r) : \E m \in r.seen :
                       m.exclude /\ Applies(m, r.target) /\ s \in Seconds(m)}

\* Every report of a target whose past stands gives the seconds of its window
\* that were spent in an open incident, and in no excluding window, although the
\* tables went on changing after its clock was read; a wholly excluded window
\* has no SLA figure (stats.rs, compute_sla).  The past does not stand where an
\* incident's INSERT or UPDATE arrived in a later second than its stamp, an end
\* was moved or the target was deleted, since the page was asked for (`altered`).
CountedBySecond ==
    \A r \in Reports : r.target \notin altered =>
        /\ r.downtime = Cardinality(DownSeconds(r))
        /\ r.excluded = Cardinality(QuietSeconds(r))
        /\ r.sla = IF Seconds(r) \subseteq QuietSeconds(r) THEN None
                   ELSE Ratio(Cardinality(Seconds(r) \ (QuietSeconds(r) \cup DownSeconds(r))),
                              Cardinality(Seconds(r) \ QuietSeconds(r)))

\* The overall figures are those of all the targets' seconds together, though
\* the outages are recovered from ratios, and hold nobody else's targets
\* (api/stats.rs, aggregate_sla).
SummaryAddsUp ==
    (page.summary # None /\ \A r \in Reports : r.target \notin altered) =>
        LET Every(Of(_)) == UNION {{r.target} \X Of(r) : r \in Reports}
            all == Every(Seconds)
            quiet == Every(QuietSeconds)
            downs == Every(DownSeconds)
        IN /\ page.summary.gross.part * Cardinality(all)
                  = page.summary.gross.whole * Cardinality(all \ downs)
           /\ page.summary.sla = None <=> (all # {} /\ all \subseteq quiet)
           /\ page.summary.sla # None =>
                  page.summary.sla.part * Cardinality(all \ quiet)
                      = page.summary.sla.whole * Cardinality((all \ quiet) \ downs)
           /\ \A r \in Reports : page.caller \in Admins \/ Owner[r.target] = page.caller

\* On the detail page a report whose window begins no later than that of one
\* built before it shows no less downtime and no fewer incidents, though
\* incidents are resolved and time passes between the two.
WiderSeesMore ==
    \A i, j \in DOMAIN page.reports :
        LET near == page.reports[i]
            far == page.reports[j]
        IN (/\ page.kind = "detail" /\ near.target \notin altered
            /\ i < j /\ far.start <= near.start) =>
               /\ near.downtime <= far.downtime
               /\ near.count <= far.count

\* A window that was created for one target excludes nothing from the report
\* of another.
ScopeKept ==
    \A r \in Reports : \A m \in r.seen :
        (Applies(m, r.target) /\ m.meant # None) => m.meant = r.target
=============================================================================
