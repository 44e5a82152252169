------------------------------ MODULE MCLogin ------------------------------
(***************************************************************************)
(* Two accounts that may claim one mailbox, spelled in two ways, and four  *)
(* situations to start from:                                               *)
(*   Burst    nobody signed in, three logins from one client address;      *)
(*   First    two people sign in for the first time while the              *)
(*            administrator edits the row they both may claim;             *)
(*   Revoke   one person with two sessions signs out everywhere else while *)
(*            somebody signs in;                                           *)
(*   Whole    one login from its first request to its session.             *)
(***************************************************************************)
EXTENDS Login, TLC

CONSTANTS s1, c1, c2, k1, k2, k3, a1, a2, u1, u2

MCFold == [e \in Addresses |-> IF e = "bob" THEN "bob" ELSE "ada"]

Fresh == [email |-> "ada", sub |-> None, active |-> TRUE]
Ada == [email |-> "Ada", sub |-> a1, active |-> TRUE]
Bob == [email |-> "bob", sub |-> None, active |-> TRUE]
NoSessions == [k \in SessionIds |-> Unused]
TwoSessions == [k \in SessionIds |->
    IF k = k3 THEN Unused
    ELSE [mail |-> "Ada", sub |-> a1, code |-> IF k = k1 THEN c1 ELSE c2,
          token |-> k = k1]]
SameBox == [a \in Accounts |-> IF a = a1 THEN "Ada" ELSE "ada"]
OwnBox == [a \in Accounts |-> IF a = a1 THEN "Ada" ELSE "bob"]

NoBox == [a \in Accounts |-> IF a = a1 THEN "Ada" ELSE None]

Often(many) == [kind \in Kinds |-> IF kind \in DOMAIN many THEN many[kind] ELSE 0]
Start(asked0, session0, user0, address0, quota0) ==
    [asked |-> asked0, session |-> session0, user |-> user0,
     address |-> address0, quota |-> quota0]
Rows(first, second) == (u1 :> first @@ u2 :> second)

Burst == Start({}, NoSessions, Rows(Fresh, None), OwnBox, Often([login |-> 3, tick |-> 1]))
First == Start(States, NoSessions, Rows(Fresh, Bob), SameBox,
               Often([authorize |-> 2, callback |-> 2, move |-> 1]))
Revoking == Start({s1}, TwoSessions, Rows(Ada, Bob), OwnBox,
                  Often([authorize |-> 1, callback |-> 1, revoke |-> 1, end |-> 1]))
Whole == Start({}, NoSessions, Rows(None, None), NoBox,
               Often([login |-> 1, authorize |-> 1, callback |-> 1,
                      upsert |-> 1, end |-> 1, move |-> 1]))

MCStarts == {Burst, First, Revoking, Whole}
=============================================================================
