------------------------------ MODULE WalkLoop ------------------------------
(***************************************************************************)
(* walk_chain, turn by turn, over whatever table there is: rows whose      *)
(* columns are NULL, lost, altered, or link back into the chain.           *)
(***************************************************************************)
EXTENDS ChainWalk

CONSTANTS
    RowIds,     \* the ids the table's rows may have
    Times       \* the action_times they may have

ASSUME IdsAssumption == RowIds \subseteq Nat \ {0} /\ IsFiniteSet(RowIds) /\ Times \subseteq Nat

Digests == RowIds \cup {Genesis, Null}

Rows == [id : RowIds, time : Times, prev : Digests, hash : Digests, edited : BOOLEAN]

VARIABLES
    stored,     \* the table
    loop        \* the loop's local variables

walkVars == <<stored, loop>>

\* A table whose rows have ids of their own, the primary key.
IsTable(table) ==
    /\ table \subseteq Rows
    /\ \A r, s \in table : r.id = s.id => r = s

\* A table is a choice of one row or none for each id.
WalkInit ==
    /\ \E present \in SUBSET RowIds :
        \E column \in [present -> [time : Times, prev : Digests, hash : Digests,
                                   edited : BOOLEAN]] :
            stored = {[id |-> n, time |-> column[n].time, prev |-> column[n].prev,
                       hash |-> column[n].hash, edited |-> column[n].edited] :
                         n \in present}
    /\ loop = WalkStart

Turn ==
    /\ ~Ended(stored, loop)
    /\ loop' = Visit(stored, loop)
    /\ UNCHANGED stored

WalkNext == Turn

WalkSpec == WalkInit /\ [][WalkNext]_walkVars /\ WF_walkVars(WalkNext)
-----------------------------------------------------------------------------
(* Properties.                                                             *)

\* The walk stands on digests, and reaches rows with both columns only.
WalkTypeOK ==
    /\ IsTable(stored)
    /\ loop \in [expected : Digests \ {Null}, reached : SUBSET {r \in stored : Hashed(r)},
                 cycle : RowIds \cup {Null}, forked : BOOLEAN]

\* FR-AUD-05 and external-design.md S-11: at every turn, whatever the table
\* holds, each row is in exactly one of the four classes (T-23e).
OneClass ==
    \A r \in stored :
        LET legacy == r \in LegacyRows(stored)
            verified == r \in VerifiedRows(loop)
            tampered == r \in TamperedRows(stored, loop)
            orphaned == r \in OrphanedRows(stored, loop)
        IN  /\ legacy \/ verified \/ tampered \/ orphaned
            /\ ~(legacy /\ (verified \/ tampered \/ orphaned))
            /\ ~(verified /\ (tampered \/ orphaned))
            /\ ~(tampered /\ orphaned)

\* Nothing of a turn is undone, and each turn that does not close a cycle
\* reaches one row more: what bounds the loop by the size of the table.
Advances ==
    [][\/ loop'.cycle # Null /\ loop'.reached = loop.reached
       \/ \E r \in stored \ loop.reached : loop'.reached = loop.reached \cup {r}]_walkVars

\* The verifier terminates on every table (the loop refuses to revisit).
Terminates == <>Ended(stored, loop)

\* The turns compute the function the writers' model uses.
EndsAsWalk == Ended(stored, loop) => loop = Walk(stored)
=============================================================================
