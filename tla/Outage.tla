------------------------------- MODULE Outage -------------------------------
(***************************************************************************)
(* What the monitoring worker promises about one outage, with none of its  *)
(* steps: a target goes down and its incident opens in one indivisible     *)
(* move, and recovers and loses its incident in another (FR-INC-01); an    *)
(* administrator may close the incident while the target is still down.    *)
(***************************************************************************)
CONSTANT Targets

VARIABLES
    status,     \* the status readers of a target may rely on
    open        \* has the target an open incident?

vars == <<status, open>>

Init ==
    /\ status = [t \in Targets |-> "unknown"]
    /\ open = [t \in Targets |-> FALSE]

\* A new target answers for the first time.
FirstUp(t) ==
    /\ status[t] = "unknown"
    /\ status' = [status EXCEPT ![t] = "up"]
    /\ UNCHANGED open

GoDown(t) ==
    /\ status[t] # "down"
    /\ ~open[t]
    /\ status' = [status EXCEPT ![t] = "down"]
    /\ open' = [open EXCEPT ![t] = TRUE]

Recover(t) ==
    /\ status[t] = "down"
    /\ status' = [status EXCEPT ![t] = "up"]
    /\ open' = [open EXCEPT ![t] = FALSE]

CloseByHand(t) ==
    /\ open[t]
    /\ open' = [open EXCEPT ![t] = FALSE]
    /\ UNCHANGED status

Next == \E t \in Targets : FirstUp(t) \/ GoDown(t) \/ Recover(t) \/ CloseByHand(t)

Spec == Init /\ [][Next]_vars
=============================================================================
