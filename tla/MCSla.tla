------------------------------- MODULE MCSla -------------------------------
(***************************************************************************)
(* Two targets, one of them owned by a member, at second 4 of a history    *)
(* whose incidents and windows touch, nest, overlap and cross the edges of *)
(* the reports; one incident is of before durations were stored.           *)
(***************************************************************************)
EXTENDS Sla, TLC

CONSTANTS t1, t2, ann, root

MCOwner == t1 :> ann @@ t2 :> root
MCTags == t1 :> {"web"} @@ t2 :> {}
MCCompared == <<2, 5>>

Window(from, to, t, g, excl) ==
    [start |-> from, end |-> to, target |-> t, tag |-> g, exclude |-> excl]
MCWindows == {Window(0, 2, None, None, TRUE), Window(1, 6, t1, None, TRUE),
              Window(2, 3, None, "web", TRUE), Window(0, 5, None, None, FALSE),
              Window(3, 4, None, None, TRUE)}

Over(from, to) == [opened |-> from, resolved |-> to, duration |-> to - from]
Legacy(from, to) == [opened |-> from, resolved |-> to, duration |-> None]
StillOpen(from) == [opened |-> from, resolved |-> None, duration |-> None]
Incidents == {<<>>, <<StillOpen(2)>>, <<Legacy(0, 2), Over(3, 4)>>,
              <<Over(1, 3), StillOpen(3)>>}
Starts(ends, others, windows) ==
    {[incident |-> t1 :> i @@ t2 :> j, windows |-> ws] : i \in ends, j \in others, ws \in windows}
MCSituations ==
    Starts(Incidents, {<<Over(1, 4)>>}, kSubset(1, MCWindows))
        \cup Starts({<<Legacy(0, 2), Over(3, 4)>>}, {<<>>}, kSubset(2, MCWindows))
=============================================================================
