----------------------------- MODULE RateLimit -----------------------------
(***************************************************************************)
(* The pure part of the gateway's fixed-window rate limits                 *)
(* (gateway/src/rate_limit.rs), shared by the limit on logins and the      *)
(* limit on test notifications.  Time is counted in minutes.               *)
(***************************************************************************)
EXTENDS Naturals

CONSTANTS PerMin,          \* requests admitted in one minute
          PerHour,         \* requests admitted in one hour
          MinutesPerHour   \* 60 in the program

\* read_limits never returns zero: a missing, malformed or zero setting falls
\* back to the default.
ASSUME LimitAssumption == /\ PerMin \in Nat \ {0}
                          /\ PerHour \in Nat \ {0}
                          /\ MinutesPerHour \in Nat \ {0}

\* The deterministic bucket of a time, one per scope.
MinuteBucket(now) == <<"m", now>>
HourBucket(now) == <<"h", now \div MinutesPerHour>>

\* The limit a bucket stands under.
LimitOf(b) == IF b[1] = "m" THEN PerMin ELSE PerHour

\* Slip: the limit is passed before it is noticed.
DecideSlip(minute, hour) ==
    IF minute > PerMin THEN "PerMinute"
    ELSE IF hour > PerHour THEN "PerHour" ELSE "Allowed"

\* The decision on the counters a request has read.  The minute is asked first.
Decide(minute, hour) ==
    IF minute >= PerMin THEN "PerMinute"
    ELSE IF hour >= PerHour THEN "PerHour" ELSE "Allowed"
=============================================================================
