------------------------------- MODULE Import -------------------------------
(***************************************************************************)
(* Configuration import.                                                   *)
(*                                                                         *)
(* An import writes row after row, without a transaction, and gives up at  *)
(* the first statement that fails; two imports, and administrators who     *)
(* delete what is being imported, may interleave between any two           *)
(* statements.  A row is a member of Rows and has a kind, which is its     *)
(* table.  What a row holds is abstracted to a version, the rows it        *)
(* refers to, and what the schema or the code treats specially.            *)
(***************************************************************************)
EXTENDS Naturals, FiniteSets

CONSTANTS Rows,
          KindOf,       \* the table of each row
          Documents,    \* documents an operator may bring
          Tables,       \* tables to start from
          Importers,    \* requests that may run at one time
          Versions,     \* what a row may hold besides the fields below
          Addresses,    \* of users
          Tags,
          Absent, None,
          MaxImports, MaxTroubles   \* bounds of the model

Kinds == {"users", "targets", "channels", "windows", "links"}
Of(kind) == {r \in Rows : KindOf[r] = kind}
Policies == {"skip", "replace", "fail"}

Entries == [ver : Versions, refs : SUBSET Rows, mail : Addresses \cup {None},
            tags : SUBSET Tags, exclude : BOOLEAN]

\* The foreign keys: the kinds that a row of each kind refers to.
Refers == [users |-> {}, targets |-> {"users"}, channels |-> {"users"},
           windows |-> {"targets"}, links |-> {"targets", "channels"}]

ASSUME KindAssumption == KindOf \in [Rows -> Kinds]
ASSUME AbsentAssumption == Absent \notin Entries
ASSUME BoundsAssumption == MaxImports \in Nat /\ MaxTroubles \in Nat

\* A document holds well-formed rows, checked or not.
ASSUME DocumentAssumption ==
    \A doc \in Documents :
        /\ DOMAIN doc \subseteq Rows /\ IsFiniteSet(DOMAIN doc)
        /\ \A r \in DOMAIN doc :
              /\ doc[r] \in Entries
              /\ \A s \in doc[r].refs : KindOf[s] \in Refers[KindOf[r]]

VARIABLES table,      \* the stored rows
          stateRow,   \* targets that have their row of target_states
          tags,       \* target_tags
          import,     \* the requests
          trail,      \* rows of the audit log about imports and exports
          quota       \* imports, and failing calls and deletes, left (bounds)

stored == <<table, stateRow, tags>>
vars == <<stored, import, trail, quota>>

Present(r) == table[r] # Absent

\* The schema's foreign keys and the unique address of a user hold of a table.
Intact(rows) ==
    /\ \A r \in Rows : rows[r] # Absent =>
          \A s \in rows[r].refs : rows[s] # Absent /\ KindOf[s] \in Refers[KindOf[r]]
    /\ \A r, s \in Of("users") :
          (rows[r] # Absent /\ rows[s] # Absent /\ rows[r].mail = rows[s].mail) => r = s

ASSUME TableAssumption ==
    \A t \in Tables : t \in [Rows -> Entries \cup {Absent}] /\ Intact(t)

Waiting == [pc |-> "Idle", doc |-> <<>>, policy |-> "skip", todo |-> {},
            row |-> None, existed |-> FALSE, left |-> {}, hits |-> {},
            inserted |-> 0, replaced |-> 0, skipped |-> 0,
            began |-> {}, calm |-> TRUE, sound |-> TRUE]

Init == /\ table \in Tables
        /\ stateRow = {r \in Of("targets") : Present(r)}
        /\ tags = [r \in Of("targets") |-> IF Present(r) THEN table[r].tags ELSE {}]
        /\ import = [i \in Importers |-> Waiting]
        /\ trail = 0
        /\ quota = [imports |-> MaxImports, troubles |-> MaxTroubles]

Spend(kind) == quota[kind] > 0 /\ quota' = [quota EXCEPT ![kind] = @ - 1]

At(i, pc) == import[i].pc = pc
Local(i, r) == import' = [import EXCEPT ![i] = r]

----------------------------------------------------------------------------
(* What is checked before anything is written.                             *)

RefsTo(row, kind) == {r \in row.refs : KindOf[r] = kind}

\* migration::validate looks at the document alone, and of the references in
\* it at those of the links.
Validates(doc) ==
    \A r \in DOMAIN doc : KindOf[r] = "links" => doc[r].refs \subseteq DOMAIN doc

\* find_unresolvable_owners: a user of the document or of the deployment.
OwnersResolve(doc) ==
    \A r \in DOMAIN doc : KindOf[r] \in {"targets", "channels"} =>
        \A u \in RefsTo(doc[r], "users") : u \in DOMAIN doc \/ Present(u)

\* What import_all relies on and nothing checks: the targets of the windows,
\* and that no address of the document belongs to another user.
Dangling(doc) ==
    \E r \in DOMAIN doc : KindOf[r] = "windows"
        /\ \E t \in doc[r].refs : t \notin DOMAIN doc /\ ~Present(t)
Clashing(doc) ==
    \E r \in DOMAIN doc, s \in Of("users") :
        /\ KindOf[r] = "users" /\ r # s
        /\ \/ Present(s) /\ table[s].mail = doc[r].mail
           \/ s \in DOMAIN doc /\ doc[s].mail = doc[r].mail

\* Slip: the links are written with their targets.
OrderSlip == [users |-> 1, targets |-> 2, links |-> 2, channels |-> 3, windows |-> 4]

\* The order of import_all: every row after those it refers to.
Order == [users |-> 1, targets |-> 2, channels |-> 3, windows |-> 4, links |-> 5]

\* collect_collisions looks the tables up in an order of its own.
Looked == [targets |-> 1, channels |-> 2, windows |-> 3, users |-> 4, links |-> 5]

\* What may come next, for a document lists the rows of a table in any order.
Foremost(rows, place) ==
    {k \in rows : \A j \in rows : place[KindOf[k]] <= place[KindOf[j]]}

Ask(i, doc, policy) ==
    /\ import[i].pc \in {"Idle", "Done", "Failed", "Refused", "Dry"}
    /\ Spend("imports")
    /\ Local(i, [Waiting EXCEPT !.pc = IF Validates(doc) THEN "Owners" ELSE "Refused",
                    !.doc = doc, !.policy = policy,
                    !.began = {r \in Rows : Present(r)},
                    !.sound = ~Dangling(doc) /\ ~Clashing(doc),
                    !.calm = \A j \in Importers \ {i} :
                        import[j].pc \in {"Idle", "Done", "Failed", "Refused", "Dry"}])
    /\ UNCHANGED <<stored, trail>>

\* Users are never deleted, so their lookups count as one.
Owners(i) ==
    LET r == import[i]
    IN /\ At(i, "Owners")
       /\ \/ ~OwnersResolve(r.doc) /\ Local(i, [r EXCEPT !.pc = "Refused"])
          \/ OwnersResolve(r.doc) /\ Local(i, [r EXCEPT !.pc = "Dry"])
          \/ /\ OwnersResolve(r.doc)
             /\ Local(i, IF r.policy = "fail"
                         THEN [r EXCEPT !.pc = "Preflight", !.todo = DOMAIN r.doc]
                         ELSE [r EXCEPT !.pc = "Look", !.todo = DOMAIN r.doc])
       /\ UNCHANGED <<stored, trail, quota>>

Collides(r) == Present(r)

Preflight(i) ==
    LET r == import[i]
    IN /\ At(i, "Preflight")
       /\ \/ \E k \in Foremost(r.todo, Looked) :
               Local(i, [r EXCEPT !.todo = @ \ {k},
                                  !.hits = IF Collides(k) THEN @ \cup {k} ELSE @])
          \/ r.todo = {} /\ r.hits # {} /\ Local(i, [r EXCEPT !.pc = "Refused"])
          \/ r.todo = {} /\ r.hits = {}
             /\ Local(i, [r EXCEPT !.pc = "Look", !.todo = DOMAIN r.doc])
       /\ UNCHANGED <<stored, trail, quota>>

----------------------------------------------------------------------------
(* Writing a row.                                                          *)

\* The row in hand is done: tally, and on to the next.
Tallied(r) ==
    IF r.existed
    THEN [r EXCEPT !.pc = "Look", !.todo = @ \ {r.row}, !.replaced = @ + 1]
    ELSE [r EXCEPT !.pc = "Look", !.todo = @ \ {r.row}, !.inserted = @ + 1]

\* Slip: the policy is not asked.
KeptSlip(r, found) == FALSE
Kept(r, found) == found /\ r.policy = "skip"

\* exists_by_id.  With the policy skip a row that is there is left alone.
Look(i) ==
    LET r == import[i]
    IN /\ At(i, "Look")
       /\ \E k \in Foremost(r.todo, Order) :
            Local(i, IF Kept(r, Present(k))
                     THEN [r EXCEPT !.todo = @ \ {k}, !.skipped = @ + 1]
                     ELSE [r EXCEPT !.pc = "Write", !.row = k, !.existed = Present(k)])
       /\ UNCHANGED <<stored, trail, quota>>

\* Foreign keys, and the unique address.
Admitted(k, row) ==
    /\ \A r \in row.refs : Present(r)
    /\ KindOf[k] = "users" => \A s \in Of("users") \ {k} :
                                  Present(s) => table[s].mail # row.mail

\* What the statement stores: exclude_from_sla is in neither of its lists.
Written(k, row) ==
    IF KindOf[k] # "windows" THEN row
    ELSE [row EXCEPT !.exclude = IF Present(k) THEN table[k].exclude ELSE TRUE]

\* A row with every row that goes with it: what ON DELETE CASCADE takes.
Cascade(k) == {k} \cup {r \in Of("links") : Present(r) /\ k \in table[r].refs}

\* Slip: INSERT OR REPLACE, which deletes the row it replaces.
UpsertSlip(k, row) ==
    /\ table' = [r \in Rows |-> IF r = k THEN Written(k, row)
                                ELSE IF r \in Cascade(k) THEN Absent ELSE table[r]]
    /\ stateRow' = stateRow \ {k}

\* INSERT ... ON CONFLICT DO UPDATE.
Upsert(k, row) ==
    /\ table' = [table EXCEPT ![k] = Written(k, row)]
    /\ UNCHANGED stateRow

Write(i) ==
    LET r == import[i]
        k == r.row
    IN /\ At(i, "Write")
       /\ IF Admitted(k, r.doc[k])
          THEN /\ Upsert(k, r.doc[k])
               /\ Local(i, IF KindOf[k] = "targets" THEN [r EXCEPT !.pc = "ClearTags"]
                           ELSE Tallied(r))
          ELSE Local(i, [r EXCEPT !.pc = "Failed"]) /\ UNCHANGED <<table, stateRow>>
       /\ UNCHANGED <<tags, trail, quota>>

\* Slip: the tags are added to those that are there.
Uncleared(k) == tags[k]
Cleared(k) == {}

\* set_tags: a DELETE, then an INSERT for each tag.
ClearTags(i) ==
    LET k == import[i].row
    IN /\ At(i, "ClearTags")
       /\ tags' = [tags EXCEPT ![k] = Cleared(k)]
       /\ Local(i, [import[i] EXCEPT !.pc = "PutTags", !.left = import[i].doc[k].tags])
       /\ UNCHANGED <<table, stateRow, trail, quota>>

PutTag(i, g) ==
    LET k == import[i].row
    IN /\ At(i, "PutTags")
       /\ g \in import[i].left
       /\ IF Present(k)
          THEN /\ tags' = [tags EXCEPT ![k] = @ \cup {g}]
               /\ Local(i, [import[i] EXCEPT !.left = @ \ {g}])
          ELSE Local(i, [import[i] EXCEPT !.pc = "Failed"]) /\ UNCHANGED tags
       /\ UNCHANGED <<table, stateRow, trail, quota>>

TagsDone(i) ==
    LET r == import[i]
    IN /\ At(i, "PutTags")
       /\ r.left = {}
       /\ Local(i, IF r.existed THEN Tallied(r) ELSE [r EXCEPT !.pc = "PutState"])
       /\ UNCHANGED <<stored, trail, quota>>

\* The state row of a target that was not there when it was looked up.
PutState(i) ==
    LET k == import[i].row
    IN /\ At(i, "PutState")
       /\ IF Present(k) /\ k \notin stateRow
          THEN stateRow' = stateRow \cup {k} /\ Local(i, Tallied(import[i]))
          ELSE Local(i, [import[i] EXCEPT !.pc = "Failed"]) /\ UNCHANGED stateRow
       /\ UNCHANGED <<table, tags, trail, quota>>

\* The audit row is best effort: without it the result carries a warning.
Record(i) ==
    /\ At(i, "Look")
    /\ import[i].todo = {}
    /\ Local(i, [import[i] EXCEPT !.pc = "Done"])
    /\ \/ trail' = trail + 1 /\ UNCHANGED quota
       \/ Spend("troubles") /\ UNCHANGED trail
    /\ UNCHANGED stored

\* A call to D1 fails, or the worker dies.
Fault(i) ==
    /\ import[i].pc \in {"Owners", "Preflight", "Look", "Write", "ClearTags",
                         "PutTags", "PutState"}
    /\ Spend("troubles")
    /\ Local(i, [import[i] EXCEPT !.pc = "Failed", !.calm = FALSE])
    /\ UNCHANGED <<stored, trail>>

Writes(i) == Write(i) \/ ClearTags(i) \/ (\E g \in import[i].left : PutTag(i, g))
                 \/ PutState(i)
Step(i) == Owners(i) \/ Preflight(i) \/ Look(i) \/ Writes(i) \/ TagsDone(i) \/ Record(i)

----------------------------------------------------------------------------
\* An administrator deletes a target or a channel: its links, tags and state row
\* go, a window of the target loses its reference.
Delete(k) ==
    /\ KindOf[k] \in {"targets", "channels"}
    /\ Present(k)
    /\ Spend("troubles")
    /\ table' = [r \in Rows |-> IF r \in Cascade(k) THEN Absent
                                ELSE IF Present(r) THEN [table[r] EXCEPT !.refs = @ \ {k}]
                                ELSE Absent]
    /\ stateRow' = stateRow \ {k}
    /\ tags' = [t \in DOMAIN tags |-> IF t = k THEN {} ELSE tags[t]]
    /\ import' = [i \in Importers |-> [import[i] EXCEPT !.calm = FALSE,
                                                        !.began = @ \ Cascade(k)]]
    /\ UNCHANGED trail

Next == \/ \E i \in Importers, doc \in Documents, policy \in Policies : Ask(i, doc, policy)
        \/ \E i \in Importers : Step(i) \/ Fault(i)
        \/ \E k \in Rows : Delete(k)

Spec == Init /\ [][Next]_vars

----------------------------------------------------------------------------
\* An import, whatever its policy and wherever it stops, deletes no row, no
\* state row and no link: incidents, results and attachments hang on them by
\* ON DELETE CASCADE (db/migration.rs, upsert_target).
NothingLost ==
    [][\A i \in Importers : Step(i) =>
          /\ \A r \in Rows : Present(r) => table'[r] # Absent
          /\ stateRow \subseteq stateRow']_vars

\* With the policies skip and fail, an import changes no row, and no tag of a
\* target, that was there when it began and has not been deleted since,
\* however it interleaves with another import.
Untouched ==
    [][\A i \in Importers, r \in Rows :
          (Writes(i) /\ r \in import[i].began /\ import[i].policy # "replace")
              => /\ table'[r] = table[r]
                 /\ KindOf[r] = "targets" => tags'[r] = tags[r]]_vars

\* A document that passed its checks, whose windows and addresses also resolve,
\* is applied to the end unless a call fails, something is deleted meanwhile or
\* another import runs: no row is written before one it refers to.
SoundApplies ==
    \A i \in Importers :
        (At(i, "Failed") /\ import[i].calm /\ import[i].sound) =>
            \E j \in Importers \ {i} : import[j].pc # "Idle"

Stands(row, stored1) == [row EXCEPT !.exclude = stored1.exclude, !.tags = {}]
                            = [stored1 EXCEPT !.tags = {}]

\* An import that reports success and ran alone leaves every row of its
\* document stored, as the document has it if the policy is replace or the row
\* is new, tags included, and reports as many rows inserted, replaced and
\* skipped as it did (a repetition after a failure included).  Windows are
\* compared without exclude_from_sla, which import does not carry.
AppliedAsReported ==
    [][\A i \in Importers :
          LET r == import[i]
              new == DOMAIN r.doc \ r.began
          IN (Record(i) /\ r.calm /\ \A j \in Importers \ {i} : At(j, "Idle")) =>
                /\ \A k \in DOMAIN r.doc : Present(k)
                /\ \A k \in (IF r.policy = "replace" THEN DOMAIN r.doc ELSE new) :
                      /\ Stands(r.doc[k], table[k])
                      /\ KindOf[k] = "targets" => tags[k] = r.doc[k].tags
                /\ r.inserted = Cardinality(new)
                /\ r.replaced + r.skipped = Cardinality(DOMAIN r.doc \cap r.began)]_vars

\* Once an import has reported success, every target of its document that is
\* still there can be monitored: it has its state row.
Monitorable ==
    \A i \in Importers : At(i, "Done") =>
        \A k \in DOMAIN import[i].doc :
            (KindOf[k] = "targets" /\ Present(k)) => k \in stateRow
=============================================================================
