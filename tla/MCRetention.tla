---------------------------- MODULE MCRetention ----------------------------
(***************************************************************************)
(* Values for the constants of Retention: retention_policies as the        *)
(* migrations leave it, and tables an operator may have edited.            *)
(***************************************************************************)
EXTENDS Retention, TLC

Sound == [t \in {"check_results", "incidents"} |->
            [keep |-> IF t = "incidents" THEN 1 ELSE 0, archive |-> TRUE]]

\* The audit_logs row that migration 0003 removed, put back by hand.
AuditRowBack == Sound @@ ("audit_logs" :> [keep |-> 0, archive |-> TRUE])

\* check_results must not be archived; a table retention does not know.
Misconfigured ==
    [Sound EXCEPT !["check_results"].archive = FALSE]
        @@ ("users" :> [keep |-> 0, archive |-> TRUE])

OnlyChecks == {"check_results" :> [keep |-> 0, archive |-> TRUE]}

AnyPolicies == {Sound, AuditRowBack, Misconfigured}

=============================================================================
