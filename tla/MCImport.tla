------------------------------ MODULE MCImport ------------------------------
(***************************************************************************)
(* Two users, two targets, a channel, a window and a link; an empty        *)
(* deployment and one that holds older versions of most of it; documents   *)
(* with and without users, with a link to nowhere, and with a window of a  *)
(* target that is not there.                                               *)
(***************************************************************************)
EXTENDS Export, TLC

CONSTANTS u1, u2, t1, t2, c1, w1, l1, i1, i2

MCKindOf == u1 :> "users" @@ u2 :> "users" @@ t1 :> "targets" @@ t2 :> "targets"
                @@ c1 :> "channels" @@ w1 :> "windows" @@ l1 :> "links"

Row(v, refs) == [ver |-> v, refs |-> refs, mail |-> None, tags |-> {}, exclude |-> TRUE]
User(v, m) == [Row(v, {}) EXCEPT !.mail = m]
Target(v, gs) == [Row(v, {u1}) EXCEPT !.tags = gs]
Quiet(v, refs, x) == [Row(v, refs) EXCEPT !.exclude = x]

Table(rows) == [r \in Rows |-> IF r \in DOMAIN rows THEN rows[r] ELSE Absent]
Old == u1 :> User(1, "ann") @@ t1 :> Target(1, {"web"}) @@ c1 :> Row(1, {u1})
           @@ w1 :> Quiet(1, {t1}, FALSE) @@ l1 :> Row(1, {t1, c1})
MCTables == {Table(u1 :> User(1, "ann")), Table(Old)}

Whole == u1 :> User(2, "ann") @@ t1 :> Target(2, {"api"}) @@ c1 :> Row(2, {u1})
             @@ w1 :> Quiet(2, {t1}, FALSE) @@ l1 :> Row(2, {t1, c1})
Plain == t2 :> Target(3, {"web"}) @@ t1 :> Target(3, {}) @@ c1 :> Row(3, {u1})
             @@ l1 :> Row(3, {t1, c1})
Stray == t2 :> Target(3, {}) @@ l1 :> Row(3, {t2, c1})
Orphan == t1 :> [Row(3, {u2}) EXCEPT !.tags = {}]
Away == w1 :> Quiet(3, {t2}, TRUE)
Taken == u2 :> User(3, "ann")
MCDocuments == {Whole, Plain, Stray, Orphan, Away, Taken}
MCSymmetry == Permutations({i1, i2})
=============================================================================
