------------------------------- MODULE Export -------------------------------
(***************************************************************************)
(* Configuration export, beside the imports and deletes of Import: one     *)
(* query after the other, table by table, without a transaction.           *)
(***************************************************************************)
EXTENDS Import, Sequences

VARIABLE export   \* the export request

\* `added` and `lasting` remember which rows came, and which have not gone,
\* since it began.
Unasked == [pc |-> "Idle", users |-> FALSE, next |-> 1, doc |-> <<>>,
            added |-> {}, lasting |-> {}]

\* Slip: the links are read before what they refer to.
QueriesSlip == <<"links", "targets", "channels", "windows", "users">>

\* The queries of export_all, the last one only where users are asked for.
Queries == <<"targets", "channels", "links", "windows", "users">>

\* An export takes the place of an import in the bound on requests.
AskExport(users) ==
    /\ export.pc = "Idle"
    /\ Spend("imports")
    /\ export' = [Unasked EXCEPT !.pc = "Read", !.users = users,
                                 !.lasting = {r \in Rows : Present(r)}]
    /\ UNCHANGED <<stored, import, trail>>

Wanted(kind) == kind # "users" \/ export.users

\* The rows of one table; TARGET_COLUMNS selects a target's tags with its row.
Selected(kind) ==
    [r \in {k \in Of(kind) : Present(k)} |->
        IF kind = "targets" THEN [table[r] EXCEPT !.tags = tags[r]] ELSE table[r]]

Joined(doc, rows) ==
    [r \in DOMAIN doc \cup DOMAIN rows |-> IF r \in DOMAIN rows THEN rows[r] ELSE doc[r]]

ReadTable ==
    /\ export.pc = "Read"
    /\ export.next \in DOMAIN Queries
    /\ Wanted(Queries[export.next])
    /\ export' = [export EXCEPT !.next = @ + 1, !.doc = Joined(@, Selected(Queries[export.next]))]
    /\ UNCHANGED vars

\* The document is answered; its audit row is best effort, as an import's is.
Answer ==
    /\ export.pc = "Read"
    /\ export.next \in DOMAIN Queries => ~Wanted(Queries[export.next])
    /\ export' = [export EXCEPT !.pc = "Done"]
    /\ \/ trail' = trail + 1 /\ UNCHANGED quota
       \/ Spend("troubles") /\ UNCHANGED trail
    /\ UNCHANGED <<stored, import>>

\* A query fails, and with it the request.
ExportFault ==
    /\ export.pc = "Read"
    /\ Spend("troubles")
    /\ export' = [Unasked EXCEPT !.pc = "Failed"]
    /\ UNCHANGED <<stored, import, trail>>

\* What imports and deletes do to the tables meanwhile.
Watched ==
    export' = IF export.pc \in {"Read", "Done"}
              THEN [export EXCEPT
                       !.added = @ \cup {r \in Rows : ~Present(r) /\ table'[r] # Absent},
                       !.lasting = {r \in @ : table'[r] # Absent}]
              ELSE export

ExportInit == Init /\ export = Unasked

ExportNext == \/ Next /\ Watched
              \/ \E users \in BOOLEAN : AskExport(users)
              \/ ReadTable \/ Answer \/ ExportFault

ExportSpec == ExportInit /\ [][ExportNext]_<<vars, export>>

----------------------------------------------------------------------------
\* An exported document holds every row that was there from its first query to
\* its last, of the tables asked for, and names nothing that it does not hold,
\* or that the deployment it came from does not keep (users are not deleted),
\* but rows that came while it was read: so one during which nothing came
\* passes the checks of an import, whatever was deleted or changed meanwhile
\* (db/migration.rs, export_all: a link is read after both ends of it).
ExportApplies ==
    export.pc = "Done" =>
        /\ \A r \in export.lasting : Wanted(KindOf[r]) => r \in DOMAIN export.doc
        /\ \A r \in DOMAIN export.doc : \A s \in export.doc[r].refs :
              \/ s \in DOMAIN export.doc
              \/ s \in export.added
              \/ KindOf[s] = "users" /\ ~export.users /\ Present(s)
        /\ export.added = {} => Validates(export.doc) /\ OwnersResolve(export.doc)
=============================================================================
