---------------------------- MODULE MCAuditChain ----------------------------
(* Values for the constants of AuditChain. *)
EXTENDS AuditChain

OneOldRow == {[id |-> 9, time |-> 0, prev |-> Null, hash |-> Null, edited |-> FALSE]}

EditsAndDeletions == {"edit", "delete"}
=============================================================================
