----------------------------- MODULE MCMonitor -----------------------------
(***************************************************************************)
(* Values for the constants of Monitor.  Small thresholds and intervals    *)
(* make an outage and a recovery fit in a few minutes.                     *)
(***************************************************************************)
EXTENDS Monitor, TLC

One     == [t \in Targets |-> 1]
Two     == [t \in Targets |-> 2]
\* One target is checked every minute, the others every two.
Mixed   == [t \in Targets |-> IF t = (CHOOSE u \in Targets : TRUE) THEN 1 ELSE 2]
NoRetry == [t \in Targets |-> 0]

NoFaults  == {}
AllFaults == {"select", "insert", "read", "write", "window", "open", "resolve", "mark",
              "audit", "reschedule"}

Symmetry == Permutations(IncidentIds) \cup Permutations(Invocations)
=============================================================================
