----------------------------- MODULE ChainWalk -----------------------------
(***************************************************************************)
(* The audit chain's verifier, walk_chain of crates/core/src/db/audit.rs.  *)
(*                                                                         *)
(* A row names its own digest (row_hash) and its predecessor's             *)
(* (prev_hash).  A digest is modelled by the id of the row it was computed *)
(* from: the id is one of the hashed fields and the hash is taken to be    *)
(* free of collisions.  `edited` says that the row's content is not the    *)
(* one its digest was computed from.                                       *)
(***************************************************************************)
EXTENDS Integers, FiniteSets

Genesis == 0        \* GENESIS_HASH; ids are positive
Null == -1          \* a hash column that is NULL

Legacy(r) == r.prev = Null /\ r.hash = Null
Hashed(r) == r.prev # Null /\ r.hash # Null

\* The digest recomputed from the row equals the one it stores.
Sound(r) == r.hash = r.id /\ ~r.edited

\* The rows that claim `digest` as their predecessor's, and the tiebreak
\* among them, (action_time, id).
Candidates(rows, digest) == {r \in rows : Hashed(r) /\ r.prev = digest}

Precedes(r, s) == r.time < s.time \/ (r.time = s.time /\ r.id <= s.id)

First(candidates) == CHOOSE r \in candidates : \A s \in candidates : Precedes(r, s)

WalkStart == [expected |-> Genesis, reached |-> {}, cycle |-> Null,
              forked |-> FALSE]

\* The walk ends where no row continues it, or where it would come back.
Ended(rows, walk) == Candidates(rows, walk.expected) = {} \/ walk.cycle # Null

\* One turn of the loop.  The slips follow a row they reached before, and
\* refuse to follow a row whose digest does not match.
VisitAgain(rows, walk) ==
    LET row == First(Candidates(rows, walk.expected))
    IN  [walk EXCEPT !.expected = row.hash, !.reached = @ \cup {row}]

VisitSoundOnly(rows, walk) ==
    LET row == First(Candidates(rows, walk.expected))
    IN  IF row \in walk.reached \/ ~Sound(row)
        THEN [walk EXCEPT !.cycle = row.id]
        ELSE [walk EXCEPT !.expected = row.hash, !.reached = @ \cup {row}]

Visit(rows, walk) ==
    LET candidates == Candidates(rows, walk.expected)
        row == First(candidates)
        forked == walk.forked \/ Cardinality(candidates) > 1
    IN  IF row \in walk.reached
        THEN [walk EXCEPT !.cycle = row.id, !.forked = forked]
        ELSE [walk EXCEPT !.expected = row.hash, !.reached = @ \cup {row},
                          !.forked = forked]

\* The walk after n turns; a set of one, for TLC evaluates a bound variable
\* once and a LET of a primed state anew at each use.
TurnsOf(rows, n) ==
    LET after[k \in 0..n] ==
            IF k = 0 THEN {WalkStart}
            ELSE {IF Ended(rows, walk) THEN walk ELSE Visit(rows, walk) :
                    walk \in after[k - 1]}
    IN  CHOOSE walk \in after[n] : TRUE

\* Slip: a cycle through every row takes one turn more.
WalkShort(rows) == TurnsOf(rows, Cardinality(rows))

\* The whole walk.  Each turn reaches a row not reached before or closes a
\* cycle, so a turn more than there are rows always ends it.
Walk(rows) == TurnsOf(rows, Cardinality(rows) + 1)

\* The classes of the report (ChainVerification).
LegacyRows(rows) == {r \in rows : Legacy(r)}
VerifiedRows(walk) == {r \in walk.reached : Sound(r)}

\* Slip: a row that was not reached passes for altered.
TamperedOrLost(rows, walk) ==
    {r \in walk.reached : ~Sound(r)} \cup {r \in rows \ walk.reached : ~Legacy(r)}

TamperedRows(rows, walk) ==
    {r \in walk.reached : ~Sound(r)} \cup {r \in rows : ~Legacy(r) /\ ~Hashed(r)}

\* Slip: only what is newer than the chain's end is looked at.
OrphanedPastHead(rows, walk) ==
    {r \in rows \ walk.reached : Hashed(r) /\ \A s \in walk.reached : Precedes(s, r)}

OrphanedRows(rows, walk) == {r \in rows \ walk.reached : Hashed(r)}

AllClear(rows) ==
    LET walk == Walk(rows)
    IN  /\ TamperedRows(rows, walk) = {} /\ OrphanedRows(rows, walk) = {}
        /\ walk.cycle = Null
=============================================================================
