---------------------------- MODULE LoginProofs ----------------------------
(***************************************************************************)
(* Signing in, for any number of concurrent requests, people, codes and    *)
(* sessions: the types, that a claimed row of users keeps its subject,     *)
(* that a code opens one session, that the limits on logins hold and that  *)
(* a session is served as the one who signed in.                           *)
(***************************************************************************)
EXTENDS Login, TLAPS

\* Where a request knows who signs in.
Signing == {"BySub", "ByEmail", "Claim", "Again", "Create"}

\* What an invocation relies on, r being its locals, between its calls.
Secure(r, codes, users) ==
    /\ r.pc \in {"Consume", "Forget", "Exchange"} =>
           r.code \in Codes /\ codes[r.code] # Unused
    /\ r.pc \in Signing => r.sub \in Accounts /\ r.mail \in Addresses /\ r.code \in Codes
    /\ r.pc = "Claim" => /\ r.user \in Users /\ users[r.user] # None
                         /\ Fold[users[r.user].email] = Fold[r.mail]
    /\ r.pc = "Create" => \E u \in Users : users[u] # None /\ users[u].sub = r.sub
    /\ r.pc \in {"Find", "Store"} => r.mail \in Addresses
    /\ r.pc = "Find" => r.user = None
    /\ r.pc = "Store" /\ r.user # None => r.user \in Users /\ users[r.user] # None
    /\ r.pc = "Load" => r.sid \in SessionIds

\* UNIQUE (email) COLLATE NOCASE.
MailUnique == \A u, v \in Users :
    (Row(u) /\ Row(v) /\ Fold[user[u].email] = Fold[user[v].email]) => u = v

Inv == /\ TypeOK
       /\ SubUnique
       /\ MailUnique
       /\ \A h \in Handlers : Secure(handler[h], code, user)

\* No code becomes unused again, no row of users is removed and none that is
\* claimed changes hands or address.
CodesLast == \A c \in Codes : code[c] # Unused => code'[c] # Unused
RowsLast == \A u \in Users :
    /\ user[u] # None => user'[u] # None /\ user'[u].email = user[u].email
    /\ (user[u] # None /\ user[u].sub # None) => user'[u].sub = user[u].sub


\* A row is claimed only for the one who signs in.
ClaimedBySome == \A u \in Users : (user'[u] # None /\ user'[u].sub # None) =>
    \/ user[u] # None /\ user[u].sub = user'[u].sub
    \/ \E h \in Handlers : /\ handler[h].pc = "Claim" /\ handler[h].user = u
                           /\ handler[h].sub = user'[u].sub

UsersKept == /\ user' \in [Users -> User \cup {None}]
             /\ RowsLast /\ ClaimedBySome /\ SubUnique' /\ MailUnique'

\* Between the first read and the last write of the counters.
Counting == {"ReadHour", "TallyMinute", "TallyHour"}

\* An invocation knows who signs in from its Exchange on, by the code it
\* exchanged, and counts from its first read on.
Follows(h, r) ==
    /\ r.pc \in Signing => /\ handler[h].pc \in Signing \cup {"Exchange"}
                            /\ r.code = handler[h].code
    /\ r.pc \in Signing => \/ r.mail = address[r.sub]
                           \/ /\ handler[h].pc \in Signing
                              /\ r.sub = handler[h].sub /\ r.mail = handler[h].mail
    /\ r.pc \in Counting => handler[h].pc \in Counting \cup {"ReadMinute"}

\* Invocation h goes on with locals it may rely on.
Moves(h) == \E r \in Handler :
                Local(h, r) /\ Secure(r, code', user') /\ Follows(h, r)

----------------------------------------------------------------------------
\* A request that has not begun relies on nothing.
LEMMA IdleSecure ==
    Idle \in Handler /\ \A codes, users : Secure(Idle, codes, users)
<1>1. 0 \in 0..MaxMinute
  BY StartAssumption
<1>2. Idle \in Handler
  BY <1>1 DEF Idle, Handler, PCs
<1>3. \A codes, users : Secure(Idle, codes, users)
  BY DEF Idle, Secure, Signing
<1> QED BY <1>2, <1>3

\* A bucket of a minute of the model is one of the counters.
LEMMA BucketOf ==
    ASSUME NEW m \in 0..MaxMinute
    PROVE  MinuteBucket(m) \in Buckets /\ HourBucket(m) \in Buckets
BY DEF Buckets

\* A request that ends relies on nothing any more.
LEMMA FinishMoves ==
    ASSUME NEW h, Finish(h)
    PROVE  Moves(h)
<1>1. Follows(h, Idle)
  BY DEF Follows, Counting, Idle, Signing
<1> QED BY <1>1, IdleSecure DEF Finish, Moves

\* Only the program counter changes.
LEMMA GotoMoves ==
    ASSUME Inv, NEW h \in Handlers, NEW pc \in PCs, Goto(h, pc),
           Secure([handler[h] EXCEPT !.pc = pc], code', user'),
           Follows(h, [handler[h] EXCEPT !.pc = pc])
    PROVE  Moves(h)
<1> DEFINE r == [handler[h] EXCEPT !.pc = pc]
<1>1. r \in Handler
  <2> DEFINE q == handler[h]
  <2>1. q \in Handler
    BY DEF Inv, TypeOK
  <2> HIDE DEF q
  <2>2. [q EXCEPT !.pc = pc] \in Handler
    BY <2>1 DEF Handler
  <2> QED BY <2>2 DEF q
<1>2. Local(h, r)
  BY DEF Goto, Local
<1>3. /\ Secure(r, code', user')
      /\ Follows(h, r)
  OBVIOUS
<1> HIDE DEF r
<1> QED BY <1>1, <1>2, <1>3 DEF Moves

\* The steps of a login request leave well-formed locals.
LEMMA LoginLocals ==
    ASSUME Inv, NEW h \in Handlers, LoginStep(h)
    PROVE  Moves(h)
<1> handler[h] \in Handler /\ Secure(handler[h], code, user)
  BY DEF Inv, TypeOK
<1> code' = code /\ user' = user
  BY DEF LoginStep, AskLogin, ReadMinute, ReadHour, TallyMinute, TallyHour, Tally,
         SavePending, provider
<1>1. CASE AskLogin(h)
  <2> DEFINE r == [Idle EXCEPT !.pc = "ReadMinute", !.at = now]
  <2>1. r \in Handler
    BY IdleSecure, ZenonT(60) DEF Inv, TypeOK, Handler, PCs
  <2>2. /\ Secure(r, code', user')
        /\ Follows(h, r)
    BY DEF Follows, Counting, Secure, Idle, Signing
  <2>3. Local(h, r)
    BY <1>1 DEF AskLogin, Arrive
  <2> HIDE DEF r
  <2> QED BY <2>1, <2>2, <2>3 DEF Moves
<1>2. CASE ReadMinute(h)
  <2>1. handler[h].at \in 0..MaxMinute
    BY DEF Handler, PCs
  <2>2. counter[MinuteBucket(handler[h].at)] \in Nat
    BY <2>1, BucketOf DEF Inv, TypeOK
  <2>0. PICK n \in Nat : Local(h, [handler[h] EXCEPT !.pc = "ReadHour", !.minute = n])
    BY <1>2, <2>2 DEF ReadMinute
  <2> DEFINE r == [handler[h] EXCEPT !.pc = "ReadHour", !.minute = n]
  <2>3. Local(h, r)
    BY <2>0
  <2>4. r \in Handler
    BY DEF Handler, PCs
  <2>5. /\ Secure(r, code', user')
        /\ Follows(h, r)
    BY <1>2 DEF ReadMinute, At, Follows, Counting, Secure, Signing, Handler, PCs
  <2> HIDE DEF r
  <2> QED BY <2>3, <2>4, <2>5 DEF Moves
<1>3. CASE ReadHour(h)
  <2>1. handler[h].at \in 0..MaxMinute
    BY DEF Handler, PCs
  <2>2. counter[HourBucket(handler[h].at)] \in Nat
    BY <2>1, BucketOf DEF Inv, TypeOK
  <2>3. CASE Finish(h)
    BY <2>3, FinishMoves
  <2>4. CASE \E n \in Nat : Local(h, [handler[h] EXCEPT !.pc = "TallyMinute", !.hour = n])
    <3>1. PICK n \in Nat : Local(h, [handler[h] EXCEPT !.pc = "TallyMinute", !.hour = n])
      BY <2>4
    <3> DEFINE r == [handler[h] EXCEPT !.pc = "TallyMinute", !.hour = n]
    <3>2. r \in Handler
      BY DEF Handler, PCs
    <3>3. /\ Secure(r, code', user')
          /\ Follows(h, r)
      BY <1>3 DEF ReadHour, At, Follows, Counting, Secure, Signing, Handler, PCs
    <3>4. Local(h, r)
      BY <3>1
    <3> HIDE DEF r
    <3> QED BY <3>2, <3>3, <3>4 DEF Moves
  <2> QED BY <1>3, <2>2, <2>3, <2>4 DEF ReadHour
<1>4. CASE TallyMinute(h) \/ TallyHour(h)
  <2>1. PICK pc \in {"TallyHour", "SavePending"} : Goto(h, pc)
    BY <1>4 DEF TallyMinute, TallyHour, Tally
  <2> DEFINE r == [handler[h] EXCEPT !.pc = pc]
  <2>2. r \in Handler
    BY DEF Handler, PCs
  <2>3. /\ Secure(r, code', user')
        /\ Follows(h, r)
    BY <1>4 DEF TallyMinute, TallyHour, Tally, At, Follows, Counting, Secure, Signing, Handler, PCs
  <2>4. Local(h, r)
    BY <2>1 DEF Goto, Local
  <2> HIDE DEF r
  <2> QED BY <2>2, <2>3, <2>4 DEF Moves
<1>5. CASE SavePending(h)
  BY <1>5, FinishMoves DEF SavePending
<1> QED BY <1>1, <1>2, <1>3, <1>4, <1>5 DEF LoginStep

\* An active user found by subject gets in.
LEMMA EnterMoves ==
    ASSUME Inv, NEW h \in Handlers, NEW u \in BySubject(handler[h].sub),
           handler[h].pc \in Signing, UNCHANGED user,
           Local(h, [handler[h] EXCEPT !.pc = "Create", !.user = u])
    PROVE  Moves(h)
<1> DEFINE r == [handler[h] EXCEPT !.pc = "Create", !.user = u]
<1> handler[h] \in Handler /\ Secure(handler[h], code, user)
  BY DEF Inv, TypeOK
<1>0. u \in Users /\ user[u] # None /\ user[u].sub = handler[h].sub
  BY DEF BySubject, Row
<1>1. r \in Handler
  BY <1>0 DEF Handler, PCs
<1>2. /\ Secure(r, code', user')
      /\ Follows(h, r)
  BY <1>0 DEF Follows, Counting, Secure, Signing, Handler, PCs
<1>3. Local(h, r)
  OBVIOUS
<1> HIDE DEF r
<1> QED BY <1>1, <1>2, <1>3 DEF Moves

\* The steps of a callback leave well-formed locals.
LEMMA CallBackLocals ==
    ASSUME Inv, NEW h \in Handlers, CallBackStep(h)
    PROVE  Moves(h)
<1> handler[h] \in Handler /\ Secure(handler[h], code, user)
  BY DEF Inv, TypeOK
<1>1. ASSUME NEW s \in States, NEW c \in Codes, CallBack(h, s, c)
      PROVE  Moves(h)
  <2> DEFINE r == [Idle EXCEPT !.pc = "Consume", !.state = s, !.code = c]
  <2>1. r \in Handler
    BY IdleSecure DEF Handler, PCs
  <2>2. /\ Secure(r, code', user')
        /\ Follows(h, r)
    BY <1>1 DEF Follows, Counting, CallBack, provider, Secure, Idle, Signing
  <2>3. Local(h, r)
    BY <1>1 DEF CallBack, Arrive
  <2> HIDE DEF r
  <2> QED BY <2>1, <2>2, <2>3 DEF Moves
<1>2. CASE Consume(h)
  <2>1. /\ Secure([handler[h] EXCEPT !.pc = "Forget"], code', user')
        /\ Follows(h, [handler[h] EXCEPT !.pc = "Forget"])
    BY <1>2 DEF Follows, Counting, Consume, At, provider, Secure, Signing, Handler
  <2> QED BY <1>2, <2>1, FinishMoves, GotoMoves DEF Consume, PCs
<1>3. CASE Forget(h)
  <2>1. /\ Secure([handler[h] EXCEPT !.pc = "Exchange"], code', user')
        /\ Follows(h, [handler[h] EXCEPT !.pc = "Exchange"])
    BY <1>3 DEF Follows, Counting, Forget, At, provider, Secure, Signing, Handler
  <2> QED BY <1>3, <2>1, GotoMoves DEF Forget, PCs
<1>4. CASE Exchange(h)
  <2> DEFINE c == handler[h].code
             a == code[c].account
             r == [handler[h] EXCEPT !.pc = "BySub", !.sub = a, !.mail = address[a]]
  <2>1. CASE Finish(h)
    BY <2>1, FinishMoves
  <2>2. CASE Granted(h, c) /\ HasMail(c) /\ Local(h, r)
    <3>1. c \in Codes /\ code[c] \in Minted
      BY <1>4, <2>2 DEF Exchange, At, Secure, Granted, Inv, TypeOK
    <3>2. a \in Accounts
      BY <3>1 DEF Minted
    <3>3. address[a] \in Addresses
      BY <3>2, <2>2 DEF HasMail, Inv, TypeOK
    <3>4. r \in Handler
      BY <3>2, <3>3 DEF Handler, PCs
    <3>5. /\ Secure(r, code', user')
          /\ Follows(h, r)
      <4>1. handler[h].pc = "Exchange"
        BY <1>4 DEF Exchange, At
      <4> QED BY <3>1, <3>2, <3>3, <4>1 DEF Follows, Counting, Secure, Signing, Handler, PCs
    <3> HIDE DEF r
    <3> QED BY <2>2, <3>4, <3>5 DEF Moves
  <2> QED BY <1>4, <2>1, <2>2 DEF Exchange
<1>5. CASE BySub(h)
  <2>1. /\ Secure([handler[h] EXCEPT !.pc = "ByEmail"], code', user')
        /\ Follows(h, [handler[h] EXCEPT !.pc = "ByEmail"])
    BY <1>5 DEF Follows, Counting, BySub, At, Secure, Signing, Handler
  <2>2. handler[h].pc \in Signing
    BY <1>5 DEF BySub, At, Signing
  <2>3. \/ Goto(h, "ByEmail") \/ Finish(h)
        \/ \E u \in BySubject(handler[h].sub) :
              Local(h, [handler[h] EXCEPT !.pc = "Create", !.user = u])
    BY <1>5 DEF BySub, Enter
  <2>4. user' = user
    BY <1>5 DEF BySub
  <2>5. CASE \E u \in BySubject(handler[h].sub) :
                Local(h, [handler[h] EXCEPT !.pc = "Create", !.user = u])
    BY <2>2, <2>4, <2>5, EnterMoves
  <2> QED BY <2>1, <2>3, <2>5, GotoMoves, FinishMoves DEF PCs
<1>6. CASE ByEmail(h)
  <2>1. CASE Finish(h)
    BY <2>1, FinishMoves
  <2>2. ASSUME NEW u \in ByAddress(handler[h].mail),
               Local(h, [handler[h] EXCEPT !.pc = "Claim", !.user = u])
        PROVE  Moves(h)
    <3> DEFINE r == [handler[h] EXCEPT !.pc = "Claim", !.user = u]
    <3>1. /\ u \in Users /\ user[u] # None
          /\ Fold[user[u].email] = Fold[handler[h].mail]
      BY DEF ByAddress, Row
    <3>2. r \in Handler
      BY <3>1 DEF Handler, PCs
    <3>3. /\ Secure(r, code', user')
          /\ Follows(h, r)
      BY <1>6, <3>1 DEF Follows, Counting, ByEmail, At, Secure, Signing, Handler, PCs
    <3>4. Local(h, r)
      BY <2>2
    <3> HIDE DEF r
    <3> QED BY <3>2, <3>3, <3>4 DEF Moves
  <2> QED BY <1>6, <2>1, <2>2 DEF ByEmail
<1>7. CASE Claim(h)
  <2>1. /\ Secure([handler[h] EXCEPT !.pc = "Again"], code', user')
        /\ Follows(h, [handler[h] EXCEPT !.pc = "Again"])
    BY <1>7 DEF Follows, Counting, Claim, At, Secure, Signing, Handler
  <2>2. Goto(h, "Again") \/ Finish(h)
    BY <1>7 DEF Claim
  <2> QED BY <2>1, <2>2, FinishMoves, GotoMoves DEF PCs
<1>8. CASE Again(h)
  <2>1. handler[h].pc \in Signing
    BY <1>8 DEF Again, At, Signing
  <2>2. \/ Finish(h)
        \/ \E u \in BySubject(handler[h].sub) :
              Local(h, [handler[h] EXCEPT !.pc = "Create", !.user = u])
    BY <1>8 DEF Again, Enter, Winner
  <2>3. user' = user
    BY <1>8 DEF Again
  <2> QED BY <2>1, <2>2, <2>3, EnterMoves, FinishMoves
<1>9. CASE Create(h)
  BY <1>9, FinishMoves DEF Create
<1> QED BY <1>1, <1>2, <1>3, <1>4, <1>5, <1>6, <1>7, <1>8, <1>9 DEF CallBackStep

\* The steps of a revocation leave well-formed locals.
LEMMA RevokeLocals ==
    ASSUME Inv, NEW h \in Handlers, RevokeStep(h)
    PROVE  Moves(h)
<1> handler[h] \in Handler /\ Secure(handler[h], code, user)
  BY DEF Inv, TypeOK
<1>1. ASSUME NEW k \in SessionIds, NEW t \in SessionIds, AskRevoke(h, k, t)
      PROVE  Moves(h)
  <2> DEFINE r == [Idle EXCEPT !.pc = "Load", !.sid = k, !.keys = Shown(t)]
  <2>1. r \in Handler
    <3> DEFINE shown == Shown(t)
    <3>1. Idle \in Handler /\ shown \in SUBSET SessionIds
      BY IdleSecure DEF Shown
    <3>2. "Load" \in PCs
      BY DEF PCs
    <3> HIDE DEF shown
    <3> DEFINE i == Idle
    <3>3. i \in Handler
      BY <3>1
    <3> HIDE DEF i
    <3>4. [i EXCEPT !.pc = "Load", !.sid = k, !.keys = shown] \in Handler
      BY <3>1, <3>2, <3>3 DEF Handler
    <3> QED BY <3>4 DEF shown, i
  <2>2. /\ Secure(r, code', user')
        /\ Follows(h, r)
    BY DEF Follows, Counting, Secure, Idle, Signing
  <2>3. Local(h, r)
    BY <1>1 DEF AskRevoke, Arrive
  <2> HIDE DEF r
  <2> QED BY <2>1, <2>2, <2>3 DEF Moves
<1>2. CASE Load(h)
  <2>1. CASE Finish(h)
    BY <2>1, FinishMoves
  <2>2. CASE ~Finish(h)
    <3> DEFINE k == handler[h].sid
               r == [handler[h] EXCEPT !.pc = "LookUp", !.mail = session[k].mail]
    <3>1. k \in SessionIds /\ session[k] \in Session
      BY <1>2, <2>2 DEF Load, At, Secure, Live, Inv, TypeOK
    <3>2. session[k].mail \in Addresses
      BY <3>1 DEF Session
    <3>3. r \in Handler
      BY <3>2 DEF Handler, PCs
    <3>4. /\ Secure(r, code', user')
          /\ Follows(h, r)
      BY DEF Follows, Counting, Secure, Signing, Handler, PCs
    <3>5. Local(h, r)
      BY <1>2, <2>2 DEF Load
    <3> HIDE DEF r
    <3> QED BY <3>3, <3>4, <3>5 DEF Moves
  <2> QED BY <2>1, <2>2
<1>3. CASE LookUp(h)
  <2>1. CASE Finish(h)
    BY <2>1, FinishMoves
  <2>2. ASSUME NEW u \in ByAddress(handler[h].mail),
               Local(h, [handler[h] EXCEPT !.pc = "Csrf", !.user = u,
                                           !.mail = user[u].email])
        PROVE  Moves(h)
    <3> DEFINE r == [handler[h] EXCEPT !.pc = "Csrf", !.user = u,
                                       !.mail = user[u].email]
    <3>1. u \in Users /\ user[u] \in User
      BY DEF ByAddress, Row, Inv, TypeOK
    <3>2. user[u].email \in Addresses
      BY <3>1 DEF User
    <3>3. r \in Handler
      BY <3>1, <3>2 DEF Handler, PCs
    <3>4. /\ Secure(r, code', user')
          /\ Follows(h, r)
      BY DEF Follows, Counting, Secure, Signing, Handler, PCs
    <3>5. Local(h, r)
      BY <2>2
    <3> HIDE DEF r
    <3> QED BY <3>3, <3>4, <3>5 DEF Moves
  <2> QED BY <1>3, <2>1, <2>2 DEF LookUp
<1>4. CASE Csrf(h) \/ Reload(h)
  <2>1. ASSUME NEW pc \in {"Reload", "List"}
        PROVE  /\ Secure([handler[h] EXCEPT !.pc = pc], code', user')
               /\ Follows(h, [handler[h] EXCEPT !.pc = pc])
    BY <2>1 DEF Follows, Counting, Secure, Signing, Handler
  <2>2. Goto(h, "Reload") \/ Goto(h, "List") \/ Finish(h)
    BY <1>4 DEF Csrf, Reload
  <2> QED BY <2>1, <2>2, FinishMoves, GotoMoves DEF PCs
<1>5. ASSUME NEW pc \in {"Collect", "Revoke"}, NEW keys \in SUBSET SessionIds,
             NEW found \in SUBSET SessionIds, NEW owed \in SUBSET SessionIds,
             Local(h, [handler[h] EXCEPT !.pc = pc, !.keys = keys, !.found = found,
                                         !.owed = owed])
      PROVE  Moves(h)
  <2> DEFINE r == [handler[h] EXCEPT !.pc = pc, !.keys = keys, !.found = found,
                                     !.owed = owed]
  <2>1. r \in Handler
    BY <1>5 DEF Handler, PCs
  <2>2. /\ Secure(r, code', user')
        /\ Follows(h, r)
    BY <1>5 DEF Follows, Counting, Secure, Signing, Handler
  <2>3. Local(h, r)
    BY <1>5
  <2> HIDE DEF r
  <2> QED BY <2>1, <2>2, <2>3 DEF Moves
<1>6. ASSUME List(h) \/ Collected(h)
             \/ \E k \in SessionIds : Collect(h, k) \/ Revoke(h, k)
      PROVE  \E pc \in {"Collect", "Revoke"}, keys \in SUBSET SessionIds,
                found \in SUBSET SessionIds, owed \in SUBSET SessionIds :
                Local(h, [handler[h] EXCEPT !.pc = pc, !.keys = keys, !.found = found,
                                            !.owed = owed])
  <2> DEFINE g == handler[h]
  <2>1. /\ g.keys \in SUBSET SessionIds
        /\ g.found \in SUBSET SessionIds
        /\ g.owed \in SUBSET SessionIds
    BY DEF Handler
  <2>2. CASE List(h)
    <3>0. PICK live \in SUBSET SessionIds :
            Local(h, [g EXCEPT !.pc = "Collect", !.keys = live, !.owed = ToEnd(h, live)])
      BY <2>2 DEF List
    <3> DEFINE mine == ToEnd(h, live)
    <3>1. live \in SUBSET SessionIds /\ mine \in SUBSET SessionIds
      BY DEF Mine, ToEnd
    <3>2. [g EXCEPT !.pc = "Collect", !.keys = live, !.owed = mine]
            = [g EXCEPT !.pc = "Collect", !.keys = live, !.found = g.found, !.owed = mine]
      BY DEF Handler
    <3>3. Local(h, [g EXCEPT !.pc = "Collect", !.keys = live, !.found = g.found,
                             !.owed = mine])
      BY <3>0, <3>2
    <3> HIDE DEF mine, g
    <3> QED BY <2>1, <3>1, <3>3 DEF g
  <2>3. ASSUME NEW k \in SessionIds, Collect(h, k)
        PROVE  \E found \in SUBSET SessionIds, owed \in SUBSET SessionIds :
                  Local(h, [g EXCEPT !.pc = "Collect", !.keys = g.keys \ {k},
                                     !.found = found, !.owed = owed])
    <3>1. PICK found \in {g.found, g.found \cup {k}}, owed \in {g.owed, g.owed \ {k}} :
             Local(h, [g EXCEPT !.keys = g.keys \ {k}, !.found = found, !.owed = owed])
      BY <2>3, <2>1 DEF Collect, Handler
    <3>2. [g EXCEPT !.keys = g.keys \ {k}, !.found = found, !.owed = owed]
            = [g EXCEPT !.pc = "Collect", !.keys = g.keys \ {k},
                        !.found = found, !.owed = owed]
      BY <2>3 DEF Handler, Collect, At
    <3>3. found \in SUBSET SessionIds /\ owed \in SUBSET SessionIds
      BY <2>1, <3>1
    <3> QED BY <3>1, <3>2, <3>3
  <2>4. CASE Collected(h)
    <3>1. [g EXCEPT !.pc = "Revoke", !.found = ToRevoke(h)]
            = [g EXCEPT !.pc = "Revoke", !.keys = g.keys, !.found = ToRevoke(h),
                        !.owed = g.owed]
      BY DEF Handler
    <3>2. ToRevoke(h) \in SUBSET SessionIds
      BY <2>1 DEF ToRevoke
    <3>3. Local(h, [g EXCEPT !.pc = "Revoke", !.keys = g.keys, !.found = ToRevoke(h),
                             !.owed = g.owed])
      BY <2>4, <3>1 DEF Collected
    <3> HIDE DEF g
    <3> QED BY <2>1, <3>2, <3>3 DEF g
  <2>5. ASSUME NEW k \in SessionIds, Revoke(h, k)
        PROVE  \E owed \in SUBSET SessionIds :
                  Local(h, [g EXCEPT !.pc = "Revoke", !.keys = g.keys,
                                     !.found = g.found \ {k}, !.owed = owed])
    <3>1. PICK owed \in {g.owed, g.owed \ {k}} :
             Local(h, [g EXCEPT !.found = g.found \ {k}, !.owed = owed])
      BY <2>5, <2>1 DEF Revoke, Handler
    <3>2. [g EXCEPT !.found = g.found \ {k}, !.owed = owed]
            = [g EXCEPT !.pc = "Revoke", !.keys = g.keys,
                        !.found = g.found \ {k}, !.owed = owed]
      BY <2>5 DEF Handler, Revoke, At
    <3>3. owed \in SUBSET SessionIds
      BY <2>1, <3>1
    <3> QED BY <3>1, <3>2, <3>3
  <2> HIDE DEF g
  <2> QED BY <1>6, <2>1, <2>2, <2>3, <2>4, <2>5 DEF g
<1> QED BY <1>1, <1>2, <1>3, <1>4, <1>5, <1>6, FinishMoves DEF RevokeStep, Revoked

\* The steps of a settings change leave well-formed locals.
LEMMA UpsertLocals ==
    ASSUME Inv, NEW h \in Handlers, UpsertStep(h)
    PROVE  Moves(h)
<1> handler[h] \in Handler /\ Secure(handler[h], code, user)
  BY DEF Inv, TypeOK
<1>1. ASSUME NEW e \in Addresses, NEW active \in BOOLEAN, AskUpsert(h, e, active)
      PROVE  Moves(h)
  <2> DEFINE r == [Idle EXCEPT !.pc = "Find", !.mail = e, !.active = active]
  <2>1. r \in Handler
    BY IdleSecure, ZenonT(60) DEF Handler, PCs
  <2>2. /\ Secure(r, code', user')
        /\ Follows(h, r)
    BY DEF Follows, Counting, Secure, Idle, Signing
  <2>3. Local(h, r)
    BY <1>1 DEF AskUpsert, Arrive
  <2> HIDE DEF r
  <2> QED BY <2>1, <2>2, <2>3 DEF Moves
<1>2. CASE Find(h)
  <2>1. handler[h].mail \in Addresses /\ handler[h].user = None /\ user' = user
    BY <1>2 DEF Find, At, Secure
  <2>2. ASSUME NEW u \in Users, user[u] # None,
               Local(h, [handler[h] EXCEPT !.pc = "Store", !.user = u])
        PROVE  Moves(h)
    <3> DEFINE r == [handler[h] EXCEPT !.pc = "Store", !.user = u]
    <3>1. r \in Handler
      BY DEF Handler, PCs
    <3>2. /\ Secure(r, code', user')
          /\ Follows(h, r)
      BY <2>1, <2>2 DEF Follows, Counting, Secure, Signing, Handler, PCs
    <3>3. Local(h, r)
      BY <2>2
    <3> HIDE DEF r
    <3> QED BY <3>1, <3>2, <3>3 DEF Moves
  <2>3. CASE Local(h, [handler[h] EXCEPT !.pc = "Store"])
    <3> DEFINE r == [handler[h] EXCEPT !.pc = "Store"]
    <3>1. r \in Handler
      BY DEF Handler, PCs
    <3>2. /\ Secure(r, code', user')
          /\ Follows(h, r)
      BY <1>2, <2>1, ZenonT(60) DEF Follows, Counting, Secure, Signing, Handler, PCs, Find, At
    <3>3. Local(h, r)
      BY <2>3
    <3> HIDE DEF r
    <3> QED BY <3>1, <3>2, <3>3 DEF Moves
  <2> QED BY <1>2, <2>2, <2>3 DEF Find, ByAddress, Row
<1>3. CASE Store(h)
  BY <1>3, FinishMoves DEF Store
<1> QED BY <1>1, <1>2, <1>3 DEF UpsertStep

----------------------------------------------------------------------------
\* What a step does to the users: nothing, a claim, a change or a new row.
LEMMA UsersStep ==
    ASSUME Inv, Next
    PROVE  UsersKept
<1> /\ user \in [Users -> User \cup {None}]
    /\ None \notin User /\ None \notin Users
    /\ SubUnique /\ MailUnique
  BY StartAssumption, FoldAssumption DEF Inv, TypeOK
<1>1. CASE user' = user
  BY <1>1 DEF UsersKept, RowsLast, ClaimedBySome,
           SubUnique, MailUnique, Row
<1>2. ASSUME NEW h \in Handlers, Claim(h), user' # user
      PROVE  UsersKept
  <2> DEFINE u == handler[h].user
             a == handler[h].sub
  <2>1. u \in Users /\ user[u] # None /\ a \in Accounts
    BY <1>2 DEF Claim, At, Inv, Secure, Signing
  <2>2. /\ user[u].sub = None
        /\ user' = [user EXCEPT ![u].sub = a]
        /\ \A v \in Users \ {u} : Row(v) => user[v].sub # a
    BY <1>2 DEF Claim, Unclaimed, Bound, BySubject
  <2>3. user'[u] \in User /\ user'[u].sub = a /\ user'[u].email = user[u].email
    BY <2>1, <2>2 DEF User
  <2>6. handler[h].pc = "Claim" /\ handler[h].user = u /\ handler[h].sub = a
    BY <1>2 DEF Claim, At
  <2> HIDE DEF u, a
  <2>4. \A v \in Users \ {u} : user'[v] = user[v]
    BY <2>1, <2>2
  <2>5. user' \in [Users -> User \cup {None}]
    BY <2>1, <2>2, <2>3
  <2> QED BY <2>1, <2>2, <2>3, <2>4, <2>5, <2>6 DEF UsersKept, RowsLast, ClaimedBySome,
           SubUnique, MailUnique, Row
<1>3. ASSUME NEW h \in Handlers, Store(h), user' # user
      PROVE  UsersKept
  <2>1. CASE handler[h].user # None
    <3> DEFINE u == handler[h].user
               active == handler[h].active
    <3>1. u \in Users /\ user[u] # None /\ active \in BOOLEAN
      BY <1>3, <2>1 DEF Store, At, Inv, Secure, TypeOK, Handler
    <3>2. user' = [user EXCEPT ![u].active = active]
      BY <1>3, <2>1 DEF Store
    <3>3. /\ user'[u] \in User
          /\ user'[u].sub = user[u].sub /\ user'[u].email = user[u].email
      BY <3>1, <3>2 DEF User
    <3> HIDE DEF u, active
    <3>4. \A v \in Users \ {u} : user'[v] = user[v]
      BY <3>1, <3>2
    <3>5. user' \in [Users -> User \cup {None}]
      BY <3>1, <3>2, <3>3
    <3> QED BY <3>1, <3>3, <3>4, <3>5 DEF UsersKept, RowsLast, ClaimedBySome,
           SubUnique, MailUnique, Row
  <2>2. CASE handler[h].user = None
    <3>1. handler[h].mail \in Addresses /\ handler[h].active \in BOOLEAN
      BY <1>3 DEF Store, At, Inv, Secure, TypeOK, Handler
    <3>2. PICK n \in Users :
             /\ user[n] = None
             /\ user' = [user EXCEPT ![n] = [email |-> handler[h].mail, sub |-> None,
                                             active |-> handler[h].active]]
      BY <1>3, <2>2 DEF Store, Row
    <3>3. /\ user'[n] \in User
          /\ user'[n].sub = None /\ user'[n].email = handler[h].mail
      BY <3>1, <3>2 DEF User
    <3>4. \A v \in Users \ {n} : user'[v] = user[v]
      BY <3>2
    <3>5. user' \in [Users -> User \cup {None}]
      BY <3>2, <3>3
    <3>6. \A v \in Users : Row(v) => Fold[user[v].email] # Fold[handler[h].mail]
      BY <1>3, <2>2 DEF Store, ByAddress
    <3> QED BY <3>2, <3>3, <3>4, <3>5, <3>6 DEF UsersKept, RowsLast, ClaimedBySome,
           SubUnique, MailUnique, Row
  <2> QED BY <2>1, <2>2
<1>4. ASSUME NEW h \in Handlers,
             LoginStep(h) \/ CallBackStep(h) \/ RevokeStep(h) \/ UpsertStep(h) \/ GiveUp(h),
             ~Claim(h), ~Store(h)
      PROVE  user' = user
  <2>1. CASE LoginStep(h) \/ GiveUp(h)
    BY <2>1 DEF LoginStep, AskLogin, ReadMinute, ReadHour, TallyMinute, TallyHour,
                Tally, SavePending, GiveUp
  <2>2. CASE CallBackStep(h)
    BY <1>4, <2>2 DEF CallBackStep, CallBack, Consume, Forget, Exchange, BySub, ByEmail,
                      Again, Create
  <2>3. CASE RevokeStep(h)
    BY <2>3 DEF RevokeStep, AskRevoke, Load, LookUp, Csrf, Reload, List, Collect,
                Collected, Revoke, Revoked
  <2>4. CASE UpsertStep(h)
    BY <1>4, <2>4 DEF UpsertStep, AskUpsert, Find
  <2> QED BY <1>4, <2>1, <2>2, <2>3, <2>4
<1>5. ASSUME Elsewhere
      PROVE  user' = user
  BY <1>5 DEF Elsewhere, Authorize, ExpireCode, MoveAddress, EndSession, ExpirePending, Tick
<1> QED BY <1>1, <1>2, <1>3, <1>4, <1>5 DEF Next

\* What a step does to the provider's codes: issue one, expire it, give it out.
LEMMA CodesStep ==
    ASSUME Inv, Next
    PROVE  code' \in [Codes -> Minted \cup {Unused, Gone}] /\ CodesLast
<1> /\ code \in [Codes -> Minted \cup {Unused, Gone}]
    /\ Unused \notin Minted /\ Unused # Gone
  BY StartAssumption, FoldAssumption DEF Inv, TypeOK
<1>1. CASE code' = code
  BY <1>1 DEF CodesLast
<1>2. ASSUME NEW c \in Codes, NEW v \in Minted \cup {Gone},
             code' = [code EXCEPT ![c] = v]
      PROVE  code' \in [Codes -> Minted \cup {Unused, Gone}] /\ CodesLast
  BY <1>2 DEF CodesLast
<1>3. ASSUME NEW h \in Handlers, Exchange(h)
      PROVE  code' \in [Codes -> Minted \cup {Unused, Gone}] /\ CodesLast
  <2>1. handler[h].code \in Codes /\ code' = [code EXCEPT ![handler[h].code] = Gone]
    BY <1>3 DEF Exchange, At, Inv, Secure, TakeCode
  <2> QED BY <1>2, <2>1
<1>4. ASSUME NEW h \in Handlers,
             LoginStep(h) \/ CallBackStep(h) \/ RevokeStep(h) \/ UpsertStep(h) \/ GiveUp(h),
             ~Exchange(h)
      PROVE  code' = code
  <2>1. CASE LoginStep(h) \/ GiveUp(h)
    BY <2>1 DEF provider, LoginStep, AskLogin, ReadMinute, ReadHour, TallyMinute,
                TallyHour, Tally, SavePending, GiveUp
  <2>2. CASE CallBackStep(h)
    BY <1>4, <2>2 DEF provider, CallBackStep, CallBack, Consume, Forget, BySub,
                      ByEmail, Claim, Again, Create
  <2>3. CASE RevokeStep(h)
    BY <2>3 DEF provider, RevokeStep, AskRevoke, Load, LookUp, Csrf, Reload, List,
                Collect, Collected, Revoke, Revoked
  <2>4. CASE UpsertStep(h)
    BY <2>4 DEF provider, UpsertStep, AskUpsert, Find, Store
  <2> QED BY <1>4, <2>1, <2>2, <2>3, <2>4
<1>5. ASSUME NEW s \in States, NEW a \in Accounts, NEW c \in Codes, Authorize(s, a, c)
      PROVE  code' \in [Codes -> Minted \cup {Unused, Gone}] /\ CodesLast
  <2>1. [state |-> s, account |-> a] \in Minted
    BY DEF Minted
  <2> QED BY <1>2, <1>5, <2>1 DEF Authorize
<1>6. ASSUME NEW c \in Codes, ExpireCode(c)
      PROVE  code' \in [Codes -> Minted \cup {Unused, Gone}] /\ CodesLast
  BY <1>2, <1>6 DEF ExpireCode
<1>7. ASSUME Elsewhere, \A s \in States, a \in Accounts, c \in Codes : ~Authorize(s, a, c),
             \A c \in Codes : ~ExpireCode(c)
      PROVE  code' = code
  BY <1>7 DEF Elsewhere, MoveAddress, EndSession, ExpirePending, Tick, provider
<1> QED BY <1>1, <1>3, <1>4, <1>5, <1>6, <1>7 DEF Next, Elsewhere

\* The sessions keep their form: only a callback creates one, with the locals
\* it was given.
LEMMA SessionsStep ==
    ASSUME Inv, Next
    PROVE  session' \in [SessionIds -> Session \cup {Unused, Gone}]
<1> session \in [SessionIds -> Session \cup {Unused, Gone}]
  BY DEF Inv, TypeOK
<1>1. ASSUME NEW k \in SessionIds, NEW v \in Session \cup {Gone},
             session' = [session EXCEPT ![k] = v]
      PROVE  session' \in [SessionIds -> Session \cup {Unused, Gone}]
  BY <1>1
<1>2. ASSUME NEW h \in Handlers, Create(h)
      PROVE  session' \in [SessionIds -> Session \cup {Unused, Gone}]
  <2> DEFINE v == [mail |-> handler[h].mail, sub |-> handler[h].sub,
                   code |-> handler[h].code, token |-> TRUE]
  <2>1. v \in Session
    BY <1>2 DEF Create, At, Inv, Secure, Signing, Session
  <2>2. PICK k \in SessionIds : session' = [session EXCEPT ![k] = v]
    BY <1>2 DEF Create
  <2> HIDE DEF v
  <2> QED BY <1>1, <2>1, <2>2
<1>3. ASSUME NEW h \in Handlers, NEW k \in SessionIds, Revoke(h, k)
      PROVE  session' \in [SessionIds -> Session \cup {Unused, Gone}]
  BY <1>1, <1>3 DEF Revoke
<1>4. ASSUME NEW k \in SessionIds, EndSession(k)
      PROVE  session' \in [SessionIds -> Session \cup {Unused, Gone}]
  BY <1>1, <1>4 DEF EndSession
<1>5. ASSUME NEW h \in Handlers,
             LoginStep(h) \/ CallBackStep(h) \/ RevokeStep(h) \/ UpsertStep(h) \/ GiveUp(h),
             ~Create(h), \A k \in SessionIds : ~Revoke(h, k)
      PROVE  session' = session
  <2>1. CASE LoginStep(h) \/ GiveUp(h)
    BY <2>1 DEF LoginStep, AskLogin, ReadMinute, ReadHour, TallyMinute,
                TallyHour, Tally, SavePending, GiveUp
  <2>2. CASE CallBackStep(h)
    BY <1>5, <2>2 DEF CallBackStep, CallBack, Consume, Forget, Exchange, BySub,
                      ByEmail, Claim, Again
  <2>3. CASE RevokeStep(h)
    BY <1>5, <2>3 DEF RevokeStep, AskRevoke, Load, LookUp, Csrf, Reload, List,
                      Collect, Collected, Revoked
  <2>4. CASE UpsertStep(h)
    BY <2>4 DEF UpsertStep, AskUpsert, Find, Store
  <2> QED BY <1>5, <2>1, <2>2, <2>3, <2>4
<1>6. ASSUME Elsewhere, \A k \in SessionIds : ~EndSession(k)
      PROVE  session' = session
  BY <1>6 DEF Elsewhere, Authorize, ExpireCode, MoveAddress, ExpirePending, Tick
<1> QED BY <1>2, <1>3, <1>4, <1>5, <1>6 DEF Next

\* The clock, the counters and their history keep their form.
LEMMA CountersStep ==
    ASSUME Inv, Next
    PROVE  /\ now' \in 0..MaxMinute
           /\ counter' \in [Buckets -> Nat]
           /\ admitted' \in [Buckets -> Nat]
           /\ blurred' \in BOOLEAN
<1> /\ now \in 0..MaxMinute /\ MaxMinute \in Nat
    /\ counter \in [Buckets -> Nat]
    /\ admitted \in [Buckets -> Nat]
    /\ blurred \in BOOLEAN
  BY StartAssumption DEF Inv, TypeOK
<1>1. ASSUME NEW h \in Handlers, ReadMinute(h)
      PROVE  UNCHANGED <<now, counter, admitted>> /\ blurred' \in BOOLEAN
  BY <1>1 DEF ReadMinute
<1>2. ASSUME NEW h \in Handlers, ReadHour(h)
      PROVE  UNCHANGED <<now, counter>> /\ blurred' \in BOOLEAN
                /\ admitted' \in [Buckets -> Nat]
  <2>1. /\ MinuteBucket(handler[h].at) \in Buckets
        /\ HourBucket(handler[h].at) \in Buckets
    BY BucketOf DEF Inv, TypeOK, Handler
  <2> QED BY <1>2, <2>1 DEF ReadHour, Finish
<1>3. ASSUME NEW h \in Handlers, TallyMinute(h) \/ TallyHour(h)
      PROVE  UNCHANGED <<now, admitted>> /\ blurred' \in BOOLEAN
                /\ counter' \in [Buckets -> Nat]
  <2>1. handler[h].minute + 1 \in Nat /\ handler[h].hour + 1 \in Nat
    BY DEF Inv, TypeOK, Handler
  <2> QED BY <1>3, <2>1 DEF TallyMinute, TallyHour, Tally
<1>4. ASSUME NEW h \in Handlers, GiveUp(h)
      PROVE  UNCHANGED <<now, counter, admitted>> /\ blurred' \in BOOLEAN
  BY <1>4 DEF GiveUp
<1>5. ASSUME NEW h \in Handlers,
             LoginStep(h) \/ CallBackStep(h) \/ RevokeStep(h) \/ UpsertStep(h),
             ~ReadMinute(h), ~ReadHour(h), ~TallyMinute(h), ~TallyHour(h)
      PROVE  UNCHANGED limits
  <2>1. CASE LoginStep(h)
    BY <1>5, <2>1 DEF LoginStep, AskLogin, SavePending
  <2>2. CASE CallBackStep(h)
    BY <2>2 DEF CallBackStep, CallBack, Consume, Forget, Exchange, BySub, ByEmail,
                Claim, Again, Create
  <2>3. CASE RevokeStep(h)
    BY <2>3 DEF RevokeStep, AskRevoke, Load, LookUp, Csrf, Reload, List,
                Collect, Collected, Revoke, Revoked
  <2>4. CASE UpsertStep(h)
    BY <2>4 DEF UpsertStep, AskUpsert, Find, Store
  <2> QED BY <1>5, <2>1, <2>2, <2>3, <2>4
<1>6. ASSUME Tick
      PROVE  now' \in 0..MaxMinute /\ UNCHANGED <<counter, admitted, blurred>>
  BY <1>6 DEF Tick
<1>7. ASSUME Elsewhere, ~Tick
      PROVE  UNCHANGED limits
  BY <1>7 DEF Elsewhere, Authorize, ExpireCode, MoveAddress, EndSession, ExpirePending
<1>8. CASE UNCHANGED limits
  BY <1>8 DEF limits
<1> QED BY <1>1, <1>2, <1>3, <1>4, <1>5, <1>6, <1>7, <1>8 DEF Next

\* The state parameters, the addresses and the bounds keep their form.
LEMMA OthersStep ==
    ASSUME Inv, Next
    PROVE  /\ asked' \subseteq States
           /\ pending' \subseteq asked'
           /\ address' \in [Accounts -> Addresses \cup {None}]
           /\ moved' \subseteq Accounts
           /\ moved' = {} => moved = {} /\ address' = address
           /\ quota' \in [Kinds -> Nat]
<1> /\ asked \subseteq States
    /\ pending \subseteq asked
    /\ address \in [Accounts -> Addresses \cup {None}]
    /\ moved \subseteq Accounts
    /\ quota \in [Kinds -> Nat]
  BY DEF Inv, TypeOK
<1>1. ASSUME NEW kind \in Kinds, Happens(kind)
      PROVE  quota' \in [Kinds -> Nat]
  <2>1. quota[kind] - 1 \in Nat
    BY <1>1 DEF Happens
  <2> QED BY <1>1, <2>1 DEF Happens
<1>2. ASSUME NEW h \in Handlers, LoginStep(h) \/ GiveUp(h)
      PROVE  /\ asked' \subseteq States /\ pending' \subseteq asked'
             /\ UNCHANGED <<address, moved>>
             /\ quota' = quota \/ Happens("login")
  BY <1>2 DEF LoginStep, AskLogin, Arrive, ReadMinute, ReadHour, TallyMinute, TallyHour,
              Tally, SavePending, GiveUp, provider
<1>3. ASSUME NEW h \in Handlers, CallBackStep(h)
      PROVE  /\ UNCHANGED <<asked, address, moved>> /\ pending' \subseteq asked
             /\ quota' = quota \/ Happens("callback")
  BY <1>3 DEF CallBackStep, CallBack, Arrive, Consume, Forget, Exchange, BySub, ByEmail,
              Claim, Again, Create, provider
<1>4. ASSUME NEW h \in Handlers, RevokeStep(h)
      PROVE  /\ UNCHANGED <<asked, pending, address, moved>>
             /\ quota' = quota \/ Happens("revoke")
  BY <1>4 DEF RevokeStep, AskRevoke, Arrive, Load, LookUp, Csrf, Reload, List,
              Collect, Collected, Revoke, Revoked, provider
<1>5. ASSUME NEW h \in Handlers, UpsertStep(h)
      PROVE  /\ UNCHANGED <<asked, pending, address, moved>>
             /\ quota' = quota \/ Happens("upsert")
  BY <1>5 DEF UpsertStep, AskUpsert, Arrive, Find, Store, provider
<1>6. ASSUME Elsewhere
      PROVE  /\ asked' = asked /\ pending' \subseteq asked
             /\ address' \in [Accounts -> Addresses \cup {None}]
             /\ moved' \subseteq Accounts
             /\ moved' = {} => moved = {} /\ address' = address
             /\ \E kind \in Kinds : Happens(kind)
  BY <1>6 DEF Elsewhere, Authorize, ExpireCode, MoveAddress, EndSession, ExpirePending,
              Tick, provider, Kinds
<1>7. {"login", "callback", "revoke", "upsert"} \subseteq Kinds
  BY DEF Kinds
<1> QED BY <1>1, <1>2, <1>3, <1>4, <1>5, <1>6, <1>7 DEF Next

\* Each step moves at most one invocation.
LEMMA HandlersStep ==
    ASSUME Inv, Next
    PROVE  handler' = handler \/ \E h \in Handlers : Moves(h)
<1>1. ASSUME NEW h \in Handlers, GiveUp(h)
      PROVE  Moves(h)
  BY <1>1, FinishMoves DEF GiveUp
<1>2. ASSUME Elsewhere
      PROVE  handler' = handler
  BY <1>2 DEF Elsewhere, Authorize, ExpireCode, MoveAddress, EndSession, ExpirePending, Tick
<1> QED BY <1>1, <1>2, LoginLocals, CallBackLocals, RevokeLocals, UpsertLocals DEF Next

----------------------------------------------------------------------------
\* The situations to start from are well-formed.
LEMMA InitInv == Init => Inv
<1> SUFFICES ASSUME Init PROVE Inv
  OBVIOUS
<1>1. PICK start \in Starts :
         /\ asked = start.asked
         /\ pending = start.asked
         /\ session = start.session
         /\ user = start.user
         /\ address = start.address
         /\ quota = start.quota
  BY DEF Init
<1>2. StartsWell(start)
  BY StartAssumption
<1>3. code \in [Codes -> Minted \cup {Unused, Gone}]
  BY DEF Init
<1>4. handler \in [Handlers -> Handler] /\ \A h \in Handlers : Secure(handler[h], code, user)
  BY IdleSecure DEF Init
<1>5. /\ now \in 0..MaxMinute
      /\ counter \in [Buckets -> Nat]
      /\ admitted \in [Buckets -> Nat]
      /\ blurred \in BOOLEAN
      /\ moved \subseteq Accounts
  <2>1. now \in 0..MaxMinute
    BY StartAssumption DEF Init
  <2>2. counter \in [Buckets -> Nat] /\ admitted \in [Buckets -> Nat]
    BY DEF Init
  <2>3. blurred \in BOOLEAN /\ moved \subseteq Accounts
    BY DEF Init
  <2> QED BY <2>1, <2>2, <2>3
<1>6. SubUnique /\ MailUnique
  BY <1>1, <1>2 DEF StartsWell, SubUnique, MailUnique, Row
<1>7. TypeOK
  BY <1>1, <1>2, <1>3, <1>4, <1>5 DEF StartsWell, TypeOK
<1> QED BY <1>4, <1>6, <1>7 DEF Inv

\* No step breaks the invariant.
LEMMA NextInv == Inv /\ [Next]_vars => Inv'
<1> SUFFICES ASSUME Inv, [Next]_vars PROVE Inv'
  OBVIOUS
<1>1. CASE UNCHANGED vars
  <2>1. UNCHANGED <<now, counter, admitted, blurred, asked, pending, code, session,
                    user, address, moved, handler, quota>>
    BY <1>1 DEF vars
  <2> QED BY <2>1 DEF Inv, TypeOK, SubUnique, MailUnique, Row, Secure, Buckets
<1>2. CASE Next
  <2>1. CodesLast /\ RowsLast /\ SubUnique' /\ MailUnique'
    BY <1>2, CodesStep, UsersStep DEF UsersKept
  <2>2. ASSUME NEW r \in Handler, Secure(r, code, user)
        PROVE  Secure(r, code', user')
    BY <2>1, <2>2, FoldAssumption DEF CodesLast, RowsLast, Secure, Signing
  <2>3. handler' \in [Handlers -> Handler]
        /\ \A h \in Handlers : Secure(handler'[h], code', user')
    <3>1. handler \in [Handlers -> Handler]
          /\ \A h \in Handlers : Secure(handler[h], code, user)
      BY DEF Inv, TypeOK
    <3>2. CASE handler' = handler
      BY <2>2, <3>1, <3>2
    <3>3. ASSUME NEW h \in Handlers, Moves(h)
          PROVE  handler' \in [Handlers -> Handler]
                 /\ \A g \in Handlers : Secure(handler'[g], code', user')
      <4>1. PICK r \in Handler : handler' = [handler EXCEPT ![h] = r]
                                 /\ Secure(r, code', user')
        BY <3>3 DEF Moves, Local
      <4> QED BY <2>2, <3>1, <4>1
    <3> QED BY <1>2, <3>2, <3>3, HandlersStep
  <2>4. TypeOK'
    BY <1>2, <2>3, UsersStep, CodesStep, SessionsStep, CountersStep, OthersStep
       DEF UsersKept, TypeOK, Buckets
  <2> QED BY <2>1, <2>3, <2>4 DEF Inv
<1> QED BY <1>1, <1>2

\* The inductive invariant, from which the theorems follow.
THEOREM Invariant == Spec => []Inv
BY InitInv, NextInv, PTL DEF Spec

\* Every variable keeps its type, however many requests are served at once.
THEOREM TypeCorrect == Spec => []TypeOK
BY Invariant, PTL DEF Inv

\* A claimed row keeps its subject and no subject claims two rows, whatever
\* first logins race for it and whatever the administrators edit meanwhile.
THEOREM SubKeptHolds == Spec => SubKept
<1>1. Inv /\ [Next]_vars =>
        [/\ \A u \in Users : (Row(u) /\ user[u].sub # None)
                => user'[u] # None /\ user'[u].sub = user[u].sub
         /\ SubUnique']_vars
  BY UsersStep DEF UsersKept, RowsLast, Row
<1> QED BY <1>1, Invariant, PTL DEF Spec, SubKept

----------------------------------------------------------------------------
\* Who holds a code that was given out: a callback on its way to a session, or
\* a session.
Holds(h) == handler[h].pc \in Signing

Spent == /\ \A h \in Handlers : Holds(h) => code[handler[h].code] = Gone
         /\ \A k \in SessionIds : Live(k) => code[session[k].code] = Gone
         /\ \A g, h \in Handlers :
               (Holds(g) /\ Holds(h) /\ handler[g].code = handler[h].code) => g = h
         /\ \A h \in Handlers, k \in SessionIds :
               (Holds(h) /\ Live(k)) => session[k].code # handler[h].code
         /\ OneSessionPerCode

\* Nobody gets hold of a code.
NoneTaken ==
    /\ \A h \in Handlers : Holds(h)' => Holds(h) /\ handler'[h].code = handler[h].code
    /\ \A k \in SessionIds : Live(k)' => Live(k) /\ session'[k] = session[k]
    /\ \A c \in Codes : code[c] = Gone => code'[c] = Gone

\* Then every code keeps the one holder it has.
LEMMA NoneTakenKeeps ==
    ASSUME Inv, Spent, NoneTaken
    PROVE  Spent'
<1>1. /\ \A h \in Handlers : Holds(h) => handler[h].code \in Codes
      /\ \A k \in SessionIds : Live(k) => session[k].code \in Codes
  BY DEF Inv, TypeOK, Secure, Holds, Live, Session
<1> QED BY <1>1 DEF Spent, NoneTaken, OneSessionPerCode

\* A request that ends gives up the code it may hold.
LEMMA FinishFrees ==
    ASSUME Inv, NEW h \in Handlers, Finish(h)
    PROVE  ~Holds(h)'
BY DEF Inv, TypeOK, Finish, Local, Idle, Holds, Signing

\* An invocation that does not come from an exchange gets hold of nothing.
LEMMA MovesHold ==
    ASSUME Inv, NEW h \in Handlers, Moves(h)
    PROVE  /\ \A g \in Handlers \ {h} : handler'[g] = handler[g]
           /\ Tallying(h)' => At(h, "ReadMinute") \/ Tallying(h)
           /\ Holds(h)' /\ ~At(h, "Exchange") =>
                 Holds(h) /\ handler'[h].code = handler[h].code
           /\ Holds(h)' => handler'[h].code = handler[h].code
BY DEF Inv, TypeOK, Moves, Local, Follows, Counting, Holds, Tallying, At

\* Such is a step that only moves an invocation, unless by an exchange.
LEMMA LocalTakesNone ==
    ASSUME Inv, NEW h \in Handlers, Moves(h), ~At(h, "Exchange") \/ ~Holds(h)',
           UNCHANGED <<code, session>>
    PROVE  NoneTaken
BY MovesHold DEF NoneTaken, Holds, Live

\* A step of the requests that never hold a code.
LEMMA LoginTakesNone ==
    ASSUME Inv, NEW h \in Handlers, LoginStep(h) \/ UpsertStep(h) \/ GiveUp(h)
    PROVE  NoneTaken
<1>1. UNCHANGED <<code, session>>
  BY DEF provider, LoginStep, AskLogin, ReadMinute, ReadHour, TallyMinute, TallyHour,
         Tally, SavePending, UpsertStep, AskUpsert, Find, Store, GiveUp
<1>2. CASE LoginStep(h) \/ UpsertStep(h)
  <2>1. ~At(h, "Exchange")
    BY <1>2 DEF At, LoginStep, AskLogin, Arrive, ReadMinute, ReadHour, TallyMinute,
                TallyHour, Tally, SavePending, UpsertStep, AskUpsert, Find, Store
  <2> QED BY <1>1, <1>2, <2>1, LoginLocals, UpsertLocals, LocalTakesNone
<1>3. CASE GiveUp(h)
  <2>1. ~Holds(h)' /\ Moves(h)
    BY <1>3, FinishFrees, FinishMoves DEF GiveUp
  <2> QED BY <1>1, <2>1, LocalTakesNone
<1> QED BY <1>2, <1>3

\* Such is a step of a revocation, which at most ends a session,
LEMMA RevokeTakesNone ==
    ASSUME Inv, NEW h \in Handlers, RevokeStep(h)
    PROVE  NoneTaken
<1> Gone # Unused
  BY FoldAssumption
<1>1. code' = code
  BY DEF provider, RevokeStep, AskRevoke, Load, LookUp, Csrf, Reload, List, Collect,
         Collected, Revoke, Revoked
<1>2. ~At(h, "Exchange")
  BY DEF At, RevokeStep, AskRevoke, Arrive, Load, LookUp, Csrf, Reload, List, Collect,
         Collected, Revoke, Revoked
<1>3. \A k \in SessionIds : Live(k)' => Live(k) /\ session'[k] = session[k]
  <2>1. CASE session' = session
    BY <2>1 DEF Live
  <2>2. CASE \E k \in SessionIds : session' = [session EXCEPT ![k] = Gone]
    BY <2>2 DEF Live, Inv, TypeOK
  <2> QED BY <2>1, <2>2 DEF RevokeStep, AskRevoke, Load, LookUp, Csrf, Reload, List,
             Collect, Collected, Revoke, Revoked
<1> QED BY <1>1, <1>2, <1>3, RevokeLocals, MovesHold DEF NoneTaken, Holds

\* and one of the provider, the clock or the end of a session.
LEMMA ElsewhereTakesNone ==
    ASSUME Inv, Elsewhere
    PROVE  NoneTaken
<1> Gone # Unused
  BY FoldAssumption
<1>1. handler' = handler
  BY DEF Elsewhere, Authorize, ExpireCode, MoveAddress, EndSession, ExpirePending, Tick
<1>2. \A c \in Codes : code[c] = Gone => code'[c] = Gone
  <2>1. CASE \E c \in Codes, v \in Minted \cup {Gone} :
                code[c] # Gone /\ code' = [code EXCEPT ![c] = v]
    BY <2>1 DEF Inv, TypeOK
  <2>2. CASE code' = code
    BY <2>2
  <2>3. ASSUME NEW s \in States, NEW a \in Accounts, NEW c \in Codes, Authorize(s, a, c)
        PROVE  \E d \in Codes, v \in Minted \cup {Gone} :
                  code[d] # Gone /\ code' = [code EXCEPT ![d] = v]
    <3>1. [state |-> s, account |-> a] \in Minted
      BY DEF Minted
    <3> QED BY <2>3, <3>1 DEF Authorize
  <2> QED BY <2>1, <2>2, <2>3 DEF Elsewhere, ExpireCode, MoveAddress, EndSession,
             ExpirePending, Tick, provider
<1>3. \A k \in SessionIds : Live(k)' => Live(k) /\ session'[k] = session[k]
  <2>1. CASE session' = session
    BY <2>1 DEF Live
  <2>2. CASE \E k \in SessionIds : session' = [session EXCEPT ![k] = Gone]
    BY <2>2 DEF Live, Inv, TypeOK
  <2> QED BY <2>1, <2>2 DEF Elsewhere, Authorize, ExpireCode, MoveAddress, EndSession,
             ExpirePending, Tick, provider
<1> QED BY <1>1, <1>2, <1>3 DEF NoneTaken, Holds

\* A callback gets hold of a code that nobody held, and gives its hold to one
\* session when it ends.
LEMMA CallBackSpends ==
    ASSUME Inv, Spent, NEW h \in Handlers, CallBackStep(h)
    PROVE  Spent'
<1> /\ handler \in [Handlers -> Handler] /\ handler[h] \in Handler /\ Gone # Unused
    /\ Secure(handler[h], code, user)
  BY FoldAssumption DEF Inv, TypeOK
<1>1. CASE Exchange(h)
  <2> DEFINE c == handler[h].code
  <2>1. /\ c \in Codes /\ ~Holds(h)
        /\ code' = [code EXCEPT ![c] = Gone]
        /\ session' = session
    BY <1>1 DEF Exchange, At, Secure, Holds, Signing, TakeCode
  <2>2. \A g \in Handlers \ {h} : handler'[g] = handler[g]
    BY <1>1 DEF Exchange, Local, Finish
  <2>3. CASE Holds(h)'
    <3>1. handler'[h].code = c /\ code[c] # Gone
      <4>1. ~Finish(h)
        BY <2>3, FinishFrees
      <4>2. code[c] # Gone
        BY <1>1, <4>1 DEF Exchange, Granted
      <4> QED BY <2>3, <4>2, CallBackLocals, MovesHold
    <3>2. /\ \A g \in Handlers : Holds(g) => handler[g].code # c
          /\ \A k \in SessionIds : Live(k) => session[k].code # c
      BY <3>1 DEF Spent
    <3>3. /\ \A g \in Handlers : Holds(g) => handler[g].code \in Codes
          /\ \A k \in SessionIds : Live(k) => session[k].code \in Codes
      BY DEF Inv, TypeOK, Secure, Holds, Live, Session
    <3>4. /\ \A g \in Handlers \ {h} : Holds(g)' = Holds(g)
          /\ \A k \in SessionIds : Live(k)' = Live(k)
      BY <2>1, <2>2 DEF Holds, Live
    <3>5. \A d \in Codes : code[d] = Gone \/ d = c => code'[d] = Gone
      BY <2>1 DEF Inv, TypeOK
    <3> HIDE DEF c
    <3> QED BY <2>1, <2>2, <3>1, <3>2, <3>3, <3>4, <3>5 DEF Spent, OneSessionPerCode
  <2>4. CASE ~Holds(h)'
    <3>1. \A d \in Codes : code[d] = Gone => code'[d] = Gone
      BY <2>1 DEF Inv, TypeOK
    <3>2. NoneTaken
      BY <2>1, <2>2, <2>4, <3>1 DEF NoneTaken, Holds, Live
    <3> QED BY <3>2, NoneTakenKeeps
  <2> QED BY <2>3, <2>4
<1>2. CASE Create(h)
  <2>1. PICK k \in SessionIds :
           /\ session[k] = Unused
           /\ session' = [session EXCEPT ![k] =
                 [mail |-> handler[h].mail, sub |-> handler[h].sub,
                  code |-> handler[h].code, token |-> TRUE]]
    BY <1>2 DEF Create
  <2>2. Holds(h) /\ code' = code
    BY <1>2 DEF Create, At, Holds, Signing, provider
  <2>3. ~Holds(h)' /\ \A g \in Handlers \ {h} : handler'[g] = handler[g]
    BY <1>2 DEF Create, Finish, Local, Holds, Signing, Idle
  <2>4. /\ session'[k].code = handler[h].code /\ ~Live(k)
        /\ \A j \in SessionIds \ {k} : session'[j] = session[j]
    BY <2>1 DEF Inv, TypeOK, Live
  <2>5. /\ \A g \in Handlers \ {h} : Holds(g)' = Holds(g)
        /\ \A j \in SessionIds \ {k} : Live(j)' = Live(j)
    BY <2>3, <2>4 DEF Holds, Live
  <2> QED BY <2>2, <2>3, <2>4, <2>5 DEF Spent, OneSessionPerCode
<1>3. CASE ~Exchange(h) /\ ~Create(h)
  <2>1. UNCHANGED <<code, session>>
    BY <1>3 DEF provider, CallBackStep, CallBack, Consume, Forget, BySub, ByEmail,
                Claim, Again
  <2>2. ~At(h, "Exchange")
    BY <1>3 DEF At, CallBackStep, CallBack, Arrive, Consume, Forget, BySub, ByEmail,
                Claim, Again
  <2> QED BY <2>1, <2>2, CallBackLocals, LocalTakesNone, NoneTakenKeeps
<1> QED BY <1>1, <1>2, <1>3

\* At the start the codes of the sessions are given out, the others unused.
LEMMA InitSpent == Init => Spent
<1> SUFFICES ASSUME Init PROVE Spent
  OBVIOUS
<1>1. PICK start \in Starts :
         /\ session = start.session
         /\ code = [c \in Codes |->
                IF \E k \in SessionIds : start.session[k] # Unused
                                             /\ start.session[k].code = c
                THEN Gone ELSE Unused]
  BY DEF Init
<1>2. StartsWell(start)
  BY StartAssumption
<1>3. \A h \in Handlers : ~Holds(h)
  BY DEF Init, Holds, Idle, Signing
<1>4. \A k \in SessionIds : Live(k) => code[session[k].code] = Gone
  BY <1>1, <1>2 DEF StartsWell, Live, Session
<1>5. OneSessionPerCode
  BY <1>1, <1>2 DEF StartsWell, Live, OneSessionPerCode
<1> QED BY <1>3, <1>4, <1>5 DEF Spent

\* One authorization code opens at most one session, however often its callback
\* is delivered and however the deliveries interleave.
THEOREM OneSessionPerCodeHolds == Spec => []OneSessionPerCode
<1>1. Inv /\ Spent /\ [Next]_vars => Spent'
  <2> SUFFICES ASSUME Inv, Spent, [Next]_vars PROVE Spent'
    OBVIOUS
  <2>1. CASE UNCHANGED vars
    BY <2>1 DEF vars, Spent, Holds, Live, OneSessionPerCode
  <2>2. CASE Next
    BY <2>2, LoginTakesNone, RevokeTakesNone, ElsewhereTakesNone, CallBackSpends,
       NoneTakenKeeps DEF Next
  <2> QED BY <2>1, <2>2
<1>2. Spent => OneSessionPerCode
  BY DEF Spent
<1> QED BY <1>1, <1>2, InitSpent, Invariant, PTL DEF Spec

----------------------------------------------------------------------------
\* What the counters say of the requests let through, until two requests count
\* at once or a call to the store fails: a counter lacks only the request that
\* is about to be written to it, and the values that request read are current.
Owes(h, b) ==
    \/ At(h, "TallyMinute") /\ b = MinuteBucket(handler[h].at)
    \/ (At(h, "TallyMinute") \/ At(h, "TallyHour")) /\ b = HourBucket(handler[h].at)

Current(h) ==
    /\ At(h, "ReadHour") \/ At(h, "TallyMinute") =>
          handler[h].minute = counter[MinuteBucket(handler[h].at)]
    /\ At(h, "TallyMinute") \/ At(h, "TallyHour") =>
          handler[h].hour = counter[HourBucket(handler[h].at)]

Counted ==
    ~blurred =>
        /\ \A g, h \in Handlers : Tallying(g) /\ Tallying(h) => g = h
        /\ \A h \in Handlers : Current(h)
        /\ \A b \in Buckets :
              /\ (\E h \in Handlers : Owes(h, b)) => admitted[b] = counter[b] + 1
              /\ (\A h \in Handlers : ~Owes(h, b)) => admitted[b] = counter[b]
              /\ admitted[b] <= LimitOf(b)

\* A step that counts nothing, moves nobody into or out of counting and loses
\* no call.
Bystander(h) ==
    /\ \A g \in Handlers \ {h} : handler'[g] = handler[g]
    /\ ~Tallying(h) /\ ~Tallying(h)'
    /\ UNCHANGED <<counter, admitted, blurred>>

\* Such a step leaves the counters as they are.
LEMMA BystanderCounts ==
    ASSUME Inv, Counted, NEW h \in Handlers, Bystander(h)
    PROVE  Counted'
<1>1. \A g \in Handlers : Tallying(g)' = Tallying(g)
  BY DEF Bystander, Tallying, At
<1>2. \A g \in Handlers : Current(g) => Current(g)'
  BY DEF Bystander, Current, Tallying, At
<1>3. \A g \in Handlers : \A b : Owes(g, b)' = Owes(g, b)
  BY DEF Bystander, Owes, Tallying, At
<1> QED BY <1>1, <1>2, <1>3 DEF Counted, Bystander, Buckets

\* The first read: a request begins to count, and nobody else is counting.
LEMMA ReadMinuteCounts ==
    ASSUME Inv, Counted, NEW h \in Handlers, ReadMinute(h)
    PROVE  Counted'
<1> SUFFICES ASSUME ~blurred' PROVE Counted'
  BY DEF Counted
<1>1. ~blurred /\ \A g \in Handlers \ {h} : ~Tallying(g)
  BY DEF ReadMinute
<1>2. UNCHANGED <<counter, admitted>>
  BY DEF ReadMinute
<1> DEFINE n == counter[MinuteBucket(handler[h].at)]
           r == [handler[h] EXCEPT !.pc = "ReadHour", !.minute = n]
<1>3. handler' = [handler EXCEPT ![h] = r]
  BY DEF ReadMinute, Local
<1>4. r.pc = "ReadHour" /\ r.minute = n /\ r.at = handler[h].at
  BY DEF Inv, TypeOK, Handler
<1>5. /\ handler'[h].pc = "ReadHour" /\ handler'[h].minute = n
      /\ handler'[h].at = handler[h].at
      /\ \A g \in Handlers \ {h} : handler'[g] = handler[g]
  BY <1>3, <1>4 DEF Inv, TypeOK
<1>6. handler[h].pc = "ReadMinute"
  BY DEF ReadMinute, At
<1>7. \A g \in Handlers \ {h} : ~Tallying(g)'
  BY <1>1, <1>5 DEF Tallying, At
<1>8. \A g \in Handlers : Current(g)'
  <2>1. \A g \in Handlers \ {h} : Current(g)'
    BY <1>7 DEF Tallying, Current, At
  <2>2. Current(h)'
    BY <1>2, <1>5 DEF Current, At
  <2> QED BY <2>1, <2>2
<1>9. \A g \in Handlers : \A b : ~Owes(g, b) /\ ~Owes(g, b)'
  BY <1>1, <1>5, <1>6, <1>7 DEF Owes, Tallying, At
<1> HIDE DEF n, r
<1>10. \A g, k \in Handlers : Tallying(g)' /\ Tallying(k)' => g = k
  BY <1>7
<1> QED BY <1>1, <1>2, <1>8, <1>9, <1>10 DEF Counted, Buckets

\* The buckets of a minute and of an hour are two counters.
LEMMA BucketsDiffer ==
    ASSUME NEW m, NEW n
    PROVE  /\ MinuteBucket(m) # HourBucket(n)
           /\ LimitOf(MinuteBucket(m)) = PerMin
           /\ LimitOf(HourBucket(m)) = PerHour
BY DEF MinuteBucket, HourBucket, LimitOf

\* The second read: a request let through is below both limits.
LEMMA ReadHourCounts ==
    ASSUME Inv, Counted, NEW h \in Handlers, ReadHour(h)
    PROVE  Counted'
<1> SUFFICES ASSUME ~blurred' PROVE Counted'
  BY DEF Counted
<1> DEFINE mb == MinuteBucket(handler[h].at)
           hb == HourBucket(handler[h].at)
           n == counter[hb]
<1>1. /\ ~blurred /\ counter' = counter /\ handler[h].pc = "ReadHour"
      /\ \/ Finish(h) /\ admitted' = admitted
         \/ /\ Verdict(h, n) = "Allowed"
            /\ Local(h, [handler[h] EXCEPT !.pc = "TallyMinute", !.hour = n])
            /\ admitted' = [admitted EXCEPT ![mb] = @ + 1, ![hb] = @ + 1]
  BY DEF ReadHour, At
<1>2. \A g \in Handlers \ {h} : ~Tallying(g)
  BY <1>1 DEF Counted, Tallying, At
<1>3. \A g \in Handlers : \A b : ~Owes(g, b)
  BY <1>1, <1>2 DEF Owes, Tallying, At
<1>4. handler[h].minute = counter[mb] /\ handler[h].at \in 0..MaxMinute
  BY <1>1 DEF Counted, Current, At, Inv, TypeOK, Handler
<1>5. mb \in Buckets /\ hb \in Buckets /\ mb # hb
  BY <1>4, BucketOf, BucketsDiffer
<1>6. \A b \in Buckets : admitted[b] = counter[b] /\ admitted[b] <= LimitOf(b)
  BY <1>1, <1>3 DEF Counted
<1>7. CASE Finish(h) /\ admitted' = admitted
  <2>1. handler'[h].pc = "Idle" /\ \A g \in Handlers \ {h} : handler'[g] = handler[g]
    BY <1>7 DEF Finish, Local, Idle, Inv, TypeOK
  <2>2. \A g \in Handlers : ~Tallying(g)'
    BY <1>2, <2>1 DEF Tallying, At
  <2>3. \A g \in Handlers : Current(g)' /\ \A b : ~Owes(g, b)'
    BY <2>2 DEF Tallying, Current, Owes, At
  <2> QED BY <1>1, <1>6, <1>7, <2>2, <2>3 DEF Counted, Buckets
<1>8. CASE /\ Verdict(h, n) = "Allowed"
           /\ Local(h, [handler[h] EXCEPT !.pc = "TallyMinute", !.hour = n])
           /\ admitted' = [admitted EXCEPT ![mb] = @ + 1, ![hb] = @ + 1]
  <2> DEFINE r == [handler[h] EXCEPT !.pc = "TallyMinute", !.hour = n]
  <2>1. /\ r.pc = "TallyMinute" /\ r.hour = n
        /\ r.minute = handler[h].minute /\ r.at = handler[h].at
    BY DEF Inv, TypeOK, Handler
  <2>2. handler'[h] = r /\ \A g \in Handlers \ {h} : handler'[g] = handler[g]
    BY <1>8 DEF Local, Inv, TypeOK
  <2>3. \A g \in Handlers \ {h} : ~Tallying(g)'
    BY <1>2, <2>2 DEF Tallying, At
  <2>4. Current(h)'
    BY <1>1, <1>4, <2>1, <2>2 DEF Current, At
  <2>5. \A g \in Handlers : Current(g)'
    BY <2>3, <2>4 DEF Tallying, Current, At
  <2>6. \A g \in Handlers \ {h} : \A b : ~Owes(g, b)'
    BY <2>3 DEF Tallying, Owes, At
  <2>7. \A b : Owes(h, b)' <=> b \in {mb, hb}
    BY <2>1, <2>2 DEF Owes, At
  <2>8. counter[mb] < PerMin /\ counter[hb] < PerHour
    <3>1. counter[mb] \in Nat /\ counter[hb] \in Nat
      BY <1>5 DEF Inv, TypeOK
    <3> QED BY <1>4, <1>8, <3>1, LimitAssumption DEF Verdict, Decide
  <2>9. /\ admitted'[mb] = counter[mb] + 1 /\ admitted'[hb] = counter[hb] + 1
        /\ \A b \in Buckets \ {mb, hb} : admitted'[b] = counter[b]
    BY <1>5, <1>6, <1>8 DEF Inv, TypeOK
  <2>10. LimitOf(mb) = PerMin /\ LimitOf(hb) = PerHour
    BY BucketsDiffer
  <2>11. \A b \in Buckets : admitted'[b] <= LimitOf(b)
    <3>1. counter[mb] \in Nat /\ counter[hb] \in Nat
      BY <1>5 DEF Inv, TypeOK
    <3>2. admitted'[mb] <= LimitOf(mb) /\ admitted'[hb] <= LimitOf(hb)
      BY <2>8, <2>9, <2>10, <3>1, LimitAssumption
    <3>3. \A b \in Buckets \ {mb, hb} : admitted'[b] = admitted[b]
      BY <1>6, <2>9
    <3> HIDE DEF mb, hb
    <3> QED BY <1>6, <3>2, <3>3
  <2>12. \A b \in Buckets :
            /\ (\E g \in Handlers : Owes(g, b)') => admitted'[b] = counter'[b] + 1
            /\ (\A g \in Handlers : ~Owes(g, b)') => admitted'[b] = counter'[b]
    BY <1>1, <2>6, <2>7, <2>9
  <2>13. \A g, k \in Handlers : Tallying(g)' /\ Tallying(k)' => g = k
    BY <2>3
  <2> HIDE DEF r, mb, hb, n
  <2> QED BY <2>5, <2>11, <2>12, <2>13 DEF Counted, Buckets
<1> QED BY <1>1, <1>7, <1>8

\* The two writes.
LEMMA TallyCounts ==
    ASSUME Inv, Counted, NEW h \in Handlers, TallyMinute(h) \/ TallyHour(h)
    PROVE  Counted'
<1> SUFFICES ASSUME ~blurred' PROVE Counted'
  BY DEF Counted
<1> DEFINE mb == MinuteBucket(handler[h].at)
           hb == HourBucket(handler[h].at)
<1>1. ~blurred /\ admitted' = admitted
  BY DEF TallyMinute, TallyHour, Tally
<1>2. \A g \in Handlers \ {h} : ~Tallying(g)
  BY <1>1 DEF Counted, Tallying, TallyMinute, TallyHour, Tally, At
<1>3. \A g \in Handlers \ {h} : \A b : ~Owes(g, b)
  BY <1>2 DEF Owes, Tallying, At
<1>4. handler[h].at \in 0..MaxMinute
  BY DEF Inv, TypeOK, Handler
<1>5. mb \in Buckets /\ hb \in Buckets /\ mb # hb
  BY <1>4, BucketOf, BucketsDiffer
<1>6. /\ \A g \in Handlers \ {h} : handler'[g] = handler[g]
      /\ handler'[h].at = handler[h].at /\ handler'[h].hour = handler[h].hour
  BY DEF TallyMinute, TallyHour, Tally, Goto, Inv, TypeOK, Handler
<1>7. \A g \in Handlers \ {h} : ~Tallying(g)'
  BY <1>2, <1>6 DEF Tallying, At
<1>8. \A g \in Handlers \ {h} : Current(g)' /\ \A b : ~Owes(g, b)'
  BY <1>7 DEF Tallying, Current, Owes, At
<1>9. \A g, k \in Handlers : Tallying(g)' /\ Tallying(k)' => g = k
  BY <1>7
<1>10. counter \in [Buckets -> Nat] /\ \A b \in Buckets : admitted[b] <= LimitOf(b)
  BY <1>1 DEF Counted, Inv, TypeOK
<1>11. CASE TallyMinute(h)
  <2>1. /\ handler[h].pc = "TallyMinute"
        /\ counter' = [counter EXCEPT ![mb] = handler[h].minute + 1]
    BY <1>1, <1>11 DEF TallyMinute, Tally, At
  <2>2. handler'[h].pc = "TallyHour"
    BY <1>11 DEF TallyMinute, Tally, Goto, Inv, TypeOK, Handler
  <2>3. handler[h].minute = counter[mb] /\ handler[h].hour = counter[hb]
    BY <1>1, <2>1 DEF Counted, Current, At
  <2>4. Current(h)'
    BY <1>5, <1>6, <1>10, <2>1, <2>2, <2>3 DEF Current, At
  <2>5. \A b : (Owes(h, b) <=> b \in {mb, hb}) /\ (Owes(h, b)' <=> b = hb)
    BY <1>6, <2>1, <2>2 DEF Owes, At
  <2>6. /\ admitted[mb] = counter[mb] + 1 /\ admitted[hb] = counter[hb] + 1
        /\ \A b \in Buckets \ {mb, hb} : admitted[b] = counter[b]
    BY <1>1, <1>3, <1>5, <2>5 DEF Counted
  <2>7. /\ counter'[mb] = counter[mb] + 1
        /\ \A b \in Buckets \ {mb} : counter'[b] = counter[b]
    BY <1>5, <1>10, <2>1, <2>3
  <2> HIDE DEF mb, hb
  <2>8. \A b \in Buckets :
           /\ (\E g \in Handlers : Owes(g, b)') => admitted[b] = counter'[b] + 1
           /\ (\A g \in Handlers : ~Owes(g, b)') => admitted[b] = counter'[b]
    BY <1>5, <1>8, <2>5, <2>6, <2>7
  <2> QED BY <1>1, <1>8, <1>9, <1>10, <2>4, <2>8 DEF Counted, Buckets
<1>12. CASE TallyHour(h)
  <2>1. /\ handler[h].pc = "TallyHour"
        /\ counter' = [counter EXCEPT ![hb] = handler[h].hour + 1]
    BY <1>1, <1>12 DEF TallyHour, Tally, At
  <2>2. handler'[h].pc = "SavePending"
    BY <1>12 DEF TallyHour, Tally, Goto, Inv, TypeOK, Handler
  <2>3. handler[h].hour = counter[hb]
    BY <1>1, <2>1 DEF Counted, Current, At
  <2>4. Current(h)'
    BY <2>2 DEF Current, At
  <2>5. \A b : (Owes(h, b) <=> b = hb) /\ ~Owes(h, b)'
    BY <2>1, <2>2 DEF Owes, At
  <2>6. /\ admitted[hb] = counter[hb] + 1
        /\ \A b \in Buckets \ {hb} : admitted[b] = counter[b]
    BY <1>1, <1>3, <1>5, <2>5 DEF Counted
  <2>7. /\ counter'[hb] = counter[hb] + 1
        /\ \A b \in Buckets \ {hb} : counter'[b] = counter[b]
    BY <1>5, <1>10, <2>1, <2>3
  <2> HIDE DEF mb, hb
  <2>8. \A b \in Buckets :
           /\ (\E g \in Handlers : Owes(g, b)') => admitted[b] = counter'[b] + 1
           /\ (\A g \in Handlers : ~Owes(g, b)') => admitted[b] = counter'[b]
    BY <1>5, <1>8, <2>5, <2>6, <2>7
  <2> QED BY <1>1, <1>8, <1>9, <1>10, <2>4, <2>8 DEF Counted, Buckets
<1> QED BY <1>11, <1>12

\* An invocation that dies while it counts is one of the lost calls.
LEMMA GiveUpCounts ==
    ASSUME Inv, Counted, NEW h \in Handlers, GiveUp(h)
    PROVE  Counted'
<1> SUFFICES ASSUME ~blurred' PROVE Counted'
  BY DEF Counted
<1>1. /\ ~blurred /\ ~At(h, "TallyMinute") /\ ~At(h, "TallyHour")
      /\ UNCHANGED <<counter, admitted>>
  BY DEF GiveUp
<1>2. handler'[h].pc = "Idle" /\ \A g \in Handlers \ {h} : handler'[g] = handler[g]
  BY DEF GiveUp, Finish, Local, Idle, Inv, TypeOK
<1>3. \A g \in Handlers : /\ Tallying(g)' => Tallying(g)
                          /\ Current(g) => Current(g)'
                          /\ \A b : Owes(g, b)' <=> Owes(g, b)
  BY <1>1, <1>2 DEF Tallying, Current, Owes, At
<1> QED BY <1>1, <1>3 DEF Counted, Buckets

\* Every other step of an invocation.
LEMMA OthersStandBy ==
    ASSUME Inv, NEW h \in Handlers,
           AskLogin(h) \/ SavePending(h) \/ CallBackStep(h) \/ RevokeStep(h)
              \/ UpsertStep(h)
    PROVE  Bystander(h)
<1>1. UNCHANGED <<counter, admitted, blurred>>
  BY DEF limits, AskLogin, SavePending, CallBackStep, CallBack, Consume, Forget, Exchange,
         BySub, ByEmail, Claim, Again, Create, RevokeStep, AskRevoke, Load, LookUp, Csrf,
         Reload, List, Collect, Collected, Revoke, Revoked, UpsertStep, AskUpsert, Find, Store
<1>2. ~Tallying(h) /\ ~At(h, "ReadMinute")
  BY DEF Tallying, At, Arrive, AskLogin, SavePending, CallBackStep, CallBack, Consume,
         Forget, Exchange, BySub, ByEmail, Claim, Again, Create, RevokeStep, AskRevoke,
         Load, LookUp, Csrf, Reload, List, Collect, Collected, Revoke, Revoked,
         UpsertStep, AskUpsert, Find, Store
<1>3. (\A g \in Handlers \ {h} : handler'[g] = handler[g]) /\ ~Tallying(h)'
  <2>1. Moves(h)
    BY LoginLocals, CallBackLocals, RevokeLocals, UpsertLocals DEF LoginStep
  <2> QED BY <1>2, <2>1, MovesHold
<1> QED BY <1>1, <1>2, <1>3 DEF Bystander

\* A store that loses nothing and requests counted one at a time never admit
\* more than the limit, in any bucket.
THEOREM AdmissionBoundedHolds == Spec => []AdmissionBounded
<1>1. Init => Counted
  <2> SUFFICES ASSUME Init PROVE Counted
    OBVIOUS
  <2>1. \A h \in Handlers : handler[h].pc = "Idle"
    BY DEF Init, Idle
  <2>2. \A b \in Buckets : admitted[b] = 0 /\ counter[b] = 0 /\ 0 <= LimitOf(b)
    BY LimitAssumption DEF Init, LimitOf
  <2> QED BY <2>1, <2>2 DEF Counted, Tallying, Current, Owes, At
<1>2. Inv /\ Counted /\ [Next]_vars => Counted'
  <2> SUFFICES ASSUME Inv, Counted, [Next]_vars PROVE Counted'
    OBVIOUS
  <2>1. CASE UNCHANGED <<counter, admitted, blurred, handler>>
    BY <2>1 DEF Counted, Tallying, Current, Owes, At, Buckets
  <2>2. CASE UNCHANGED vars
    BY <2>1, <2>2 DEF vars
  <2>3. CASE Elsewhere
    <3>1. UNCHANGED <<counter, admitted, blurred, handler>>
      BY <2>3 DEF Elsewhere, Authorize, ExpireCode, MoveAddress, EndSession, ExpirePending,
                  Tick, limits
    <3> QED BY <2>1, <3>1
  <2>4. ASSUME NEW h \in Handlers,
               LoginStep(h) \/ CallBackStep(h) \/ RevokeStep(h) \/ UpsertStep(h) \/ GiveUp(h)
        PROVE  Counted'
    BY <2>4, ReadMinuteCounts, ReadHourCounts, TallyCounts, GiveUpCounts, OthersStandBy,
       BystanderCounts DEF LoginStep
  <2> QED BY <2>2, <2>3, <2>4 DEF Next
<1>3. Counted => AdmissionBounded
  BY DEF Counted, AdmissionBounded
<1> QED BY <1>1, <1>2, <1>3, Invariant, PTL DEF Spec

----------------------------------------------------------------------------
\* While nobody's address has changed: who signs in, who claimed a row and
\* whose a session is, all have the address they came with.
Owned == moved = {} =>
    /\ \A h \in Handlers : Holds(h) => handler[h].mail = address[handler[h].sub]
    /\ \A u \in Users : (Row(u) /\ user[u].sub # None) =>
           Fold[user[u].email] = Fold[address[user[u].sub]]
    /\ \A k \in SessionIds : Live(k) =>
           /\ session[k].mail = address[session[k].sub]
           /\ \E u \in Users : Row(u) /\ user[u].sub = session[k].sub

\* Everything is owned as it should be at the start.
LEMMA InitOwned == Init => Owned
<1> SUFFICES ASSUME Init PROVE Owned
  OBVIOUS
<1>1. PICK start \in Starts :
         session = start.session /\ user = start.user /\ address = start.address
  BY DEF Init
<1>2. StartsWell(start)
  BY StartAssumption
<1>3. \A h \in Handlers : ~Holds(h)
  BY DEF Init, Holds, Idle, Signing
<1>4. \A k \in SessionIds : Live(k) =>
         /\ session[k].mail = address[session[k].sub]
         /\ \E u \in Users : Row(u) /\ user[u].sub = session[k].sub
  BY <1>1, <1>2 DEF StartsWell, Live, Row
<1>5. \A u \in Users : (Row(u) /\ user[u].sub # None) =>
         Fold[user[u].email] = Fold[address[user[u].sub]]
  BY <1>1, <1>2 DEF StartsWell, Row
<1> QED BY <1>3, <1>4, <1>5 DEF Owned

\* A session that begins is that of a request which has found its row.
LEMMA NewSession ==
    ASSUME Inv, Next
    PROVE  \A k \in SessionIds : Live(k)' =>
              \/ Live(k) /\ session'[k] = session[k]
              \/ \E h \in Handlers : /\ handler[h].pc = "Create"
                                     /\ session'[k].mail = handler[h].mail
                                     /\ session'[k].sub = handler[h].sub
<1>1. CASE NoneTaken
  BY <1>1 DEF NoneTaken
<1>2. ASSUME NEW h \in Handlers, CallBackStep(h), ~Create(h)
      PROVE  session' = session
  BY <1>2 DEF CallBackStep, CallBack, Consume, Forget, Exchange, BySub, ByEmail, Claim, Again
<1>3. CASE session' = session
  BY <1>3 DEF Live
<1>4. ASSUME NEW h \in Handlers, Create(h)
      PROVE  \A k \in SessionIds : Live(k)' =>
                \/ Live(k) /\ session'[k] = session[k]
                \/ /\ session'[k].mail = handler[h].mail
                   /\ session'[k].sub = handler[h].sub
  <2>1. PICK j \in SessionIds : session' = [session EXCEPT ![j] =
            [mail |-> handler[h].mail, sub |-> handler[h].sub, code |-> handler[h].code,
             token |-> TRUE]]
    BY <1>4 DEF Create
  <2>2. /\ session'[j].mail = handler[h].mail /\ session'[j].sub = handler[h].sub
        /\ \A k \in SessionIds \ {j} : session'[k] = session[k]
    BY <2>1 DEF Inv, TypeOK
  <2> QED BY <2>2 DEF Live
<1>5. ASSUME NEW h \in Handlers, Create(h)
      PROVE  handler[h].pc = "Create"
  BY <1>5 DEF Create, At
<1> QED BY <1>1, <1>2, <1>3, <1>4, <1>5, LoginTakesNone, RevokeTakesNone,
           ElsewhereTakesNone DEF Next

\* Every step keeps ownership, until an address changes at the provider.
LEMMA NextOwned == Inv /\ Owned /\ [Next]_vars => Owned'
<1> SUFFICES ASSUME Inv, Owned, [Next]_vars, moved' = {} PROVE Owned'
  BY DEF Owned
<1>1. CASE UNCHANGED vars
  <2>1. UNCHANGED <<session, user, address, moved, handler>>
    BY <1>1 DEF vars
  <2> QED BY <2>1 DEF Owned, Holds, Row, Live
<1>2. CASE Next
  <2>1. /\ address' = address
        /\ \A h \in Handlers : Holds(h) => handler[h].mail = address[handler[h].sub]
        /\ \A u \in Users : (Row(u) /\ user[u].sub # None) =>
               Fold[user[u].email] = Fold[address[user[u].sub]]
        /\ \A k \in SessionIds : Live(k) =>
               /\ session[k].mail = address[session[k].sub]
               /\ \E u \in Users : Row(u) /\ user[u].sub = session[k].sub
    BY <1>2, OthersStep DEF Owned
  <2>2. RowsLast /\ ClaimedBySome
    BY <1>2, UsersStep DEF UsersKept
  <2>3. \A h \in Handlers : Secure(handler[h], code, user)
    BY DEF Inv
  <2>4. \A h \in Handlers : Holds(h)' => handler'[h].mail = address[handler'[h].sub]
    <3>1. CASE handler' = handler
      BY <2>1, <3>1 DEF Holds
    <3>2. ASSUME NEW h \in Handlers, Moves(h)
          PROVE  \A g \in Handlers : Holds(g)' => handler'[g].mail = address[handler'[g].sub]
      <4>1. PICK r \in Handler : handler' = [handler EXCEPT ![h] = r] /\ Follows(h, r)
        BY <3>2 DEF Moves, Local
      <4>2. handler'[h] = r /\ \A g \in Handlers \ {h} : handler'[g] = handler[g]
        BY <4>1 DEF Inv, TypeOK
      <4>3. r.pc \in Signing => r.mail = address[r.sub]
        BY <2>1, <4>1 DEF Follows, Holds
      <4> QED BY <2>1, <4>2, <4>3 DEF Holds
    <3> QED BY <1>2, <3>1, <3>2, HandlersStep
  <2>5. ASSUME NEW u \in Users, user'[u] # None, user'[u].sub # None
        PROVE  Fold[user'[u].email] = Fold[address[user'[u].sub]]
    <3>1. CASE user[u] # None /\ user[u].sub = user'[u].sub
      BY <2>1, <2>2, <2>5, <3>1 DEF RowsLast, Row
    <3>2. ASSUME NEW h \in Handlers, handler[h].pc = "Claim", handler[h].user = u,
                 handler[h].sub = user'[u].sub
          PROVE  Fold[user'[u].email] = Fold[address[user'[u].sub]]
      <4>1. user[u] # None /\ Fold[user[u].email] = Fold[handler[h].mail]
        BY <2>3, <3>2 DEF Secure
      <4>2. handler[h].mail = address[handler[h].sub]
        BY <2>1, <3>2 DEF Holds, Signing
      <4> QED BY <2>2, <3>2, <4>1, <4>2 DEF RowsLast
    <3> QED BY <2>2, <2>5, <3>1, <3>2 DEF ClaimedBySome
  <2>6. ASSUME NEW k \in SessionIds, Live(k)'
        PROVE  /\ session'[k].mail = address[session'[k].sub]
               /\ \E u \in Users : user'[u] # None /\ user'[u].sub = session'[k].sub
    <3>1. \A a \in Accounts : (\E u \in Users : user[u] # None /\ user[u].sub = a) =>
             \E u \in Users : user'[u] # None /\ user'[u].sub = a
      BY <2>2, FoldAssumption DEF RowsLast
    <3>2. CASE Live(k) /\ session'[k] = session[k]
      <4>1. session[k].sub \in Accounts
        BY <3>2 DEF Inv, TypeOK, Live, Session
      <4> QED BY <2>1, <3>1, <3>2, <4>1 DEF Row
    <3>3. ASSUME NEW h \in Handlers, handler[h].pc = "Create",
                 session'[k].mail = handler[h].mail, session'[k].sub = handler[h].sub
          PROVE  /\ session'[k].mail = address[session'[k].sub]
                 /\ \E u \in Users : user'[u] # None /\ user'[u].sub = session'[k].sub
      <4>1. /\ handler[h].sub \in Accounts
            /\ \E u \in Users : user[u] # None /\ user[u].sub = handler[h].sub
        BY <2>3, <3>3 DEF Secure, Signing
      <4>2. handler[h].mail = address[handler[h].sub]
        BY <2>1, <3>3 DEF Holds, Signing
      <4> QED BY <3>1, <3>3, <4>1, <4>2
    <3> QED BY <1>2, <2>6, <3>2, <3>3, NewSession
  <2> QED BY <2>1, <2>4, <2>5, <2>6 DEF Owned, Row
<1> QED BY <1>1, <1>2

\* As long as no address has changed at the provider, a session is served as
\* the user its subject signed in as, though the gateway asks for the address
\* only, whatever is claimed, created or edited between the two.
THEOREM ServedAsItselfHolds == Spec => []ServedAsItself
<1>1. Inv /\ Owned => ServedAsItself
  <2> SUFFICES ASSUME Inv, Owned, moved = {}, NEW k \in SessionIds, Live(k),
                      NEW u \in ByAddress(session[k].mail)
               PROVE  user[u].sub = session[k].sub
    BY DEF ServedAsItself
  <2>1. session[k].sub # None
    BY FoldAssumption DEF Inv, TypeOK, Live, Session
  <2>2. PICK v \in Users : Row(v) /\ user[v].sub = session[k].sub
    BY DEF Owned
  <2>3. Fold[user[v].email] = Fold[session[k].mail]
    BY <2>1, <2>2 DEF Owned
  <2>4. u \in Users /\ Row(u) /\ Fold[user[u].email] = Fold[session[k].mail]
    BY DEF ByAddress
  <2>5. u = v
    BY <2>2, <2>3, <2>4 DEF Inv, MailUnique
  <2> QED BY <2>2, <2>5
<1> QED BY <1>1, InitOwned, NextOwned, Invariant, PTL DEF Spec

----------------------------------------------------------------------------
Collecting == {"Collect", "Revoke"}

\* A session that was the caller's when it was looked at: since then it can
\* only have ended.
Was(r, k, sessions) ==
    /\ sessions[k] # Unused
    /\ sessions[k] # Gone => sessions[k].mail = r.mail

\* What a revocation with locals r knows of the sessions: those it owes an end
\* are still to be looked at, found, or over, and in the end it spares its own.
Tracks(r, sessions) ==
    /\ r.pc \notin Collecting => r.found = {}
    /\ r.pc \in Collecting =>
          /\ \A k \in r.found \cup r.owed : Was(r, k, sessions)
          /\ r.sid \notin r.owed
    /\ r.pc = "Collect" =>
          \A k \in r.owed : k \in r.keys \cup r.found \/ sessions[k] = Gone
    /\ r.pc = "Revoke" =>
          /\ r.sid \notin r.found
          /\ \A k \in r.owed : k \in r.found \/ sessions[k] = Gone

Tracked == \A h \in Handlers : Tracks(handler[h], session)

\* No session is ever changed, but for its end, and none comes back.
SessionsLast == \A k \in SessionIds :
    session[k] # Unused => session'[k] = session[k] \/ session'[k] = Gone

----------------------------------------------------------------------------
\* Only Create, Revoke and EndSession write a session.
LEMMA SessionsOnlyEnd ==
    ASSUME Inv, Next
    PROVE  SessionsLast
<1>1. session \in [SessionIds -> Session \cup {Unused, Gone}]
  BY DEF Inv, TypeOK
<1>2. CASE session' = session
  BY <1>2 DEF SessionsLast
<1>3. ASSUME NEW h \in Handlers, NEW k \in SessionIds, Revoke(h, k)
      PROVE  SessionsLast
  BY <1>1, <1>3 DEF Revoke, SessionsLast
<1>4. ASSUME NEW k \in SessionIds, EndSession(k)
      PROVE  SessionsLast
  BY <1>1, <1>4 DEF EndSession, SessionsLast
<1>5. ASSUME NEW h \in Handlers, Create(h)
      PROVE  SessionsLast
  <2>1. PICK k \in SessionIds, s \in {[mail |-> handler[h].mail, sub |-> handler[h].sub,
                                       code |-> handler[h].code, token |-> TRUE]} :
          session[k] = Unused /\ session' = [session EXCEPT ![k] = s]
    BY <1>5 DEF Create
  <2> QED BY <1>1, <2>1 DEF SessionsLast
<1>6. ASSUME NEW h \in Handlers,
             LoginStep(h) \/ (CallBackStep(h) /\ ~Create(h)) \/ UpsertStep(h) \/ GiveUp(h)
      PROVE  session' = session
  BY <1>6 DEF LoginStep, AskLogin, ReadMinute, ReadHour, TallyMinute, TallyHour, Tally,
              SavePending, CallBackStep, CallBack, Consume, Forget, Exchange, BySub, ByEmail,
              Claim, Again, UpsertStep, AskUpsert, Find, Store, GiveUp
<1>7. ASSUME NEW h \in Handlers, RevokeStep(h), \A k \in SessionIds : ~Revoke(h, k)
      PROVE  session' = session
  BY <1>7 DEF RevokeStep, AskRevoke, Load, LookUp, Csrf, Reload, List, Collect, Collected,
              Revoked
<1>8. ASSUME Elsewhere, \A k \in SessionIds : ~EndSession(k)
      PROVE  session' = session
  BY <1>8 DEF Elsewhere, Authorize, ExpireCode, MoveAddress, ExpirePending, Tick
<1> QED BY <1>2, <1>3, <1>4, <1>5, <1>6, <1>7, <1>8 DEF Next

\* What is known of the sessions stays true whatever happens to them.
LEMMA TracksLast ==
    ASSUME SessionsLast, NEW r \in Handler, Tracks(r, session)
    PROVE  Tracks(r, session')
<1>1. r.found \subseteq SessionIds /\ r.owed \subseteq SessionIds
  BY DEF Handler
<1>2. \A k \in r.found \cup r.owed : Was(r, k, session) => Was(r, k, session')
  BY <1>1, FoldAssumption DEF SessionsLast, Was
<1>3. \A k \in r.owed : r.pc \in Collecting /\ session[k] = Gone => session'[k] = Gone
  BY <1>1, FoldAssumption DEF SessionsLast
<1> QED BY <1>2, <1>3 DEF Tracks, Collecting

\* The steps of a revocation that look at sessions.
Looks(h) == \/ List(h) \/ Collected(h)
            \/ \E k \in SessionIds : Collect(h, k) \/ Revoke(h, k)

\* An invocation that collects nothing has found nothing.
Clear(r) == r.pc \notin Collecting /\ r.found = {}

\* Every other step leaves a request as it is or outside the collection.
LEMMA ElseClear ==
    ASSUME Inv, Next, NEW h \in Handlers, ~Looks(h), Tracks(handler[h], session)
    PROVE  handler'[h] = handler[h] \/ Clear(handler'[h])
<1>1. handler \in [Handlers -> Handler] /\ handler[h] \in Handler
  BY DEF Inv, TypeOK
<1>2. ASSUME NEW g \in Handlers \ {h},
             LoginStep(g) \/ CallBackStep(g) \/ RevokeStep(g) \/ UpsertStep(g) \/ GiveUp(g)
      PROVE  handler'[h] = handler[h]
  <2>1. Moves(g)
    BY <1>2, LoginLocals, CallBackLocals, RevokeLocals, UpsertLocals, FinishMoves DEF GiveUp
  <2> QED BY <1>1, <2>1 DEF Moves, Local
<1>3. ASSUME Elsewhere PROVE handler' = handler
  BY <1>3 DEF Elsewhere, Authorize, ExpireCode, MoveAddress, EndSession, ExpirePending, Tick
<1>4. ASSUME Finish(h) PROVE Clear(handler'[h])
  BY <1>1, <1>4 DEF Finish, Local, Idle, Collecting, Clear
<1>5. ASSUME NEW pc \in PCs \ Collecting, Goto(h, pc), handler[h].found = {}
      PROVE  Clear(handler'[h])
  BY <1>1, <1>5 DEF Goto, Handler, Clear
<1>6. ASSUME handler[h].pc \notin Collecting PROVE handler[h].found = {}
  BY <1>6 DEF Tracks
<1>7. CASE LoginStep(h)
  <2>0. handler[h].pc \notin Collecting
    BY <1>7 DEF LoginStep, AskLogin, Arrive, ReadMinute, ReadHour, TallyMinute, TallyHour,
                Tally, SavePending, At, Collecting
  <2>1. CASE AskLogin(h)
    BY <1>1, <2>1 DEF AskLogin, Arrive, Local, Idle, Collecting, Clear
  <2>2. CASE ReadMinute(h)
    <3>1. PICK ok \in BOOLEAN :
            Local(h, [handler[h] EXCEPT !.pc = "ReadHour",
               !.minute = IF ok THEN counter[MinuteBucket(handler[h].at)] ELSE 0])
      BY <2>2 DEF ReadMinute
    <3> DEFINE n == IF ok THEN counter[MinuteBucket(handler[h].at)] ELSE 0
    <3>2. Local(h, [handler[h] EXCEPT !.pc = "ReadHour", !.minute = n])
      BY <3>1
    <3> HIDE DEF n
    <3>3. handler'[h] = [handler[h] EXCEPT !.pc = "ReadHour", !.minute = n]
      BY <1>1, <3>2 DEF Local
    <3>4. handler'[h].pc = "ReadHour" /\ handler'[h].found = handler[h].found
      BY <1>1, <3>3 DEF Handler
    <3> QED BY <1>6, <2>0, <3>4 DEF Collecting, Clear
  <2>3. CASE ReadHour(h)
    <3>1. \/ Finish(h)
          \/ \E hour : Local(h, [handler[h] EXCEPT !.pc = "TallyMinute", !.hour = hour])
      BY <2>3 DEF ReadHour
    <3>2. ASSUME NEW hour, Local(h, [handler[h] EXCEPT !.pc = "TallyMinute", !.hour = hour])
          PROVE  Clear(handler'[h])
      BY <1>1, <1>6, <2>0, <3>2 DEF Local, Handler, Collecting, Clear
    <3> QED BY <1>4, <3>1, <3>2
  <2>4. CASE TallyMinute(h) \/ TallyHour(h)
    BY <1>5, <1>6, <2>0, <2>4 DEF TallyMinute, TallyHour, Tally, PCs, Collecting
  <2>5. CASE SavePending(h)
    BY <1>4, <2>5 DEF SavePending
  <2> QED BY <1>7, <2>1, <2>2, <2>3, <2>4, <2>5 DEF LoginStep
<1>8. CASE CallBackStep(h)
  <2>0. handler[h].pc \notin Collecting
    BY <1>8 DEF CallBackStep, CallBack, Arrive, Consume, Forget, Exchange, BySub, ByEmail,
                Claim, Again, Create, At, Collecting
  <2>1. ASSUME NEW s \in States, NEW c \in Codes, CallBack(h, s, c) PROVE Clear(handler'[h])
    BY <1>1, <2>1 DEF CallBack, Arrive, Local, Idle, Collecting, Clear
  <2>2. CASE Consume(h) \/ Forget(h) \/ Claim(h) \/ Create(h)
    BY <1>4, <1>5, <1>6, <2>0, <2>2 DEF Consume, Forget, Claim, Create, PCs, Collecting
  <2>3. CASE Exchange(h)
    <3>1. \/ Finish(h)
          \/ \E a, e : Local(h, [handler[h] EXCEPT !.pc = "BySub", !.sub = a, !.mail = e])
      BY <2>3 DEF Exchange
    <3>2. ASSUME NEW a, NEW e,
                 Local(h, [handler[h] EXCEPT !.pc = "BySub", !.sub = a, !.mail = e])
          PROVE  Clear(handler'[h])
      BY <1>1, <1>6, <2>0, <3>2 DEF Local, Handler, Collecting, Clear
    <3> QED BY <1>4, <3>1, <3>2
  <2>4. CASE ByEmail(h)
    <3>1. \/ Finish(h)
          \/ \E u : Local(h, [handler[h] EXCEPT !.pc = "Claim", !.user = u])
      BY <2>4 DEF ByEmail
    <3>2. ASSUME NEW u, Local(h, [handler[h] EXCEPT !.pc = "Claim", !.user = u])
          PROVE  Clear(handler'[h])
      BY <1>1, <1>6, <2>0, <3>2 DEF Local, Handler, Collecting, Clear
    <3> QED BY <1>4, <3>1, <3>2
  <2>5. CASE BySub(h)
    <3>1. \/ Goto(h, "ByEmail") \/ Finish(h)
          \/ \E u \in Users : Local(h, [handler[h] EXCEPT !.pc = "Create", !.user = u])
      BY <2>5 DEF BySub, Enter, BySubject
    <3>2. ASSUME NEW u \in Users, Local(h, [handler[h] EXCEPT !.pc = "Create", !.user = u])
          PROVE  Clear(handler'[h])
      BY <1>1, <1>6, <2>0, <3>2 DEF Local, Handler, Collecting, Clear
    <3> QED BY <1>4, <1>5, <1>6, <2>0, <3>1, <3>2 DEF PCs, Collecting
  <2>6. CASE Again(h)
    <3>1. \/ Finish(h)
          \/ \E u \in Users : Local(h, [handler[h] EXCEPT !.pc = "Create", !.user = u])
      BY <2>6 DEF Again, Enter, Winner, BySubject
    <3>2. ASSUME NEW u \in Users, Local(h, [handler[h] EXCEPT !.pc = "Create", !.user = u])
          PROVE  Clear(handler'[h])
      BY <1>1, <1>6, <2>0, <3>2 DEF Local, Handler, Collecting, Clear
    <3> QED BY <1>4, <3>1, <3>2
  <2> QED BY <1>8, <2>1, <2>2, <2>3, <2>4, <2>5, <2>6 DEF CallBackStep
<1>9. CASE RevokeStep(h)
  <2>1. ASSUME NEW k \in SessionIds, NEW t \in SessionIds, AskRevoke(h, k, t)
        PROVE  Clear(handler'[h])
    BY <1>1, <2>1 DEF AskRevoke, Arrive, Local, Idle, Collecting, Clear
  <2>2. CASE Load(h)
    <3>1. handler[h].pc \notin Collecting
      BY <2>2 DEF Load, At, Collecting
    <3>2. \/ Finish(h)
          \/ \E e : Local(h, [handler[h] EXCEPT !.pc = "LookUp", !.mail = e])
      BY <2>2 DEF Load
    <3>3. ASSUME NEW e, Local(h, [handler[h] EXCEPT !.pc = "LookUp", !.mail = e])
          PROVE  Clear(handler'[h])
      BY <1>1, <1>6, <3>1, <3>3 DEF Local, Handler, Collecting, Clear
    <3> QED BY <1>4, <3>2, <3>3
  <2>3. CASE LookUp(h)
    <3>1. handler[h].pc \notin Collecting
      BY <2>3 DEF LookUp, At, Collecting
    <3>2. \/ Finish(h)
          \/ \E u, e : Local(h, [handler[h] EXCEPT !.pc = "Csrf", !.user = u, !.mail = e])
      BY <2>3 DEF LookUp
    <3>3. ASSUME NEW u, NEW e,
                 Local(h, [handler[h] EXCEPT !.pc = "Csrf", !.user = u, !.mail = e])
          PROVE  Clear(handler'[h])
      BY <1>1, <1>6, <3>1, <3>3 DEF Local, Handler, Collecting, Clear
    <3> QED BY <1>4, <3>2, <3>3
  <2>4. CASE Csrf(h) \/ Reload(h)
    <3>1. handler[h].pc \notin Collecting
      BY <2>4 DEF Csrf, Reload, At, Collecting
    <3> QED BY <1>4, <1>5, <1>6, <2>4, <3>1 DEF Csrf, Reload, PCs, Collecting
  <2>5. CASE Revoked(h)
    BY <1>4, <2>5 DEF Revoked
  <2> QED BY <1>9, <2>1, <2>2, <2>3, <2>4, <2>5 DEF RevokeStep, Looks
<1>10. CASE UpsertStep(h)
  <2>0. handler[h].pc \notin Collecting
    BY <1>10 DEF UpsertStep, AskUpsert, Arrive, Find, Store, At, Collecting
  <2>1. ASSUME NEW e \in Addresses, NEW active \in BOOLEAN, AskUpsert(h, e, active)
        PROVE  Clear(handler'[h])
    BY <1>1, <2>1 DEF AskUpsert, Arrive, Local, Idle, Collecting, Clear
  <2>2. CASE Find(h)
    <3>1. \/ Goto(h, "Store")
          \/ \E u : Local(h, [handler[h] EXCEPT !.pc = "Store", !.user = u])
      BY <2>2 DEF Find, Goto
    <3>2. ASSUME NEW u, Local(h, [handler[h] EXCEPT !.pc = "Store", !.user = u])
          PROVE  Clear(handler'[h])
      BY <1>1, <1>6, <2>0, <3>2 DEF Local, Handler, Collecting, Clear
    <3> QED BY <1>5, <1>6, <2>0, <3>1, <3>2 DEF PCs, Collecting
  <2>3. CASE Store(h)
    BY <1>4, <2>3 DEF Store
  <2> QED BY <1>10, <2>1, <2>2, <2>3 DEF UpsertStep
<1>11. CASE GiveUp(h)
  BY <1>4, <1>11 DEF GiveUp
<1> QED BY <1>2, <1>3, <1>7, <1>8, <1>9, <1>10, <1>11 DEF Next

\* A revocation knows what it has looked at.
LEMMA LooksTrack ==
    ASSUME Inv, SessionsLast, NEW h \in Handlers, Looks(h), Tracks(handler[h], session)
    PROVE  Tracks(handler'[h], session')
<1>1. handler \in [Handlers -> Handler] /\ handler[h] \in Handler
  BY DEF Inv, TypeOK
<1>2. Gone # Unused /\ session \in [SessionIds -> Session \cup {Unused, Gone}]
  BY FoldAssumption DEF Inv, TypeOK
<1>3. CASE List(h)
  <2>0. PICK page \in SUBSET SessionIds :
          /\ IsPage(page)
          /\ Local(h, [handler[h] EXCEPT !.pc = "Collect", !.keys = page,
                                         !.owed = ToEnd(h, page)])
    BY <1>3 DEF List
  <2> DEFINE r == [handler[h] EXCEPT !.pc = "Collect", !.keys = page,
                                     !.owed = ToEnd(h, page)]
  <2>1. handler'[h] = r /\ session' = session /\ handler[h].pc = "List"
    BY <1>1, <1>3, <2>0 DEF List, Local, At
  <2>2. /\ r.pc = "Collect" /\ r.found = handler[h].found /\ r.mail = handler[h].mail
        /\ r.sid = handler[h].sid /\ r.keys = page /\ r.owed = ToEnd(h, page)
    BY <1>1 DEF Handler
  <2>3. ToEnd(h, page) \subseteq Mine(h) \cap page /\ handler[h].sid \notin ToEnd(h, page)
    <3>1. Mine(h) \subseteq AllLive
      BY DEF Mine, AllLive
    <3>2. CASE Fits
      BY <2>0, <3>1, <3>2 DEF ToEnd, IsPage
    <3>3. CASE ~Fits
      BY <3>3 DEF ToEnd
    <3> QED BY <3>2, <3>3
  <2>4. r.found = {}
    BY <2>1, <2>2 DEF Tracks, Collecting
  <2> HIDE DEF r
  <2>5. \A k \in r.owed : Was(r, k, session) /\ k \in r.keys
    BY <2>2, <2>3 DEF Mine, Live, Was
  <2>6. r.sid \notin r.owed
    BY <2>2, <2>3
  <2> QED BY <2>1, <2>2, <2>4, <2>5, <2>6 DEF Tracks, Collecting
<1>4. ASSUME NEW k \in SessionIds, Collect(h, k)
      PROVE  Tracks(handler'[h], session')
  <2>1. /\ session' = session /\ handler[h].pc = "Collect"
        /\ \A j \in handler[h].found \cup handler[h].owed : Was(handler[h], j, session)
        /\ handler[h].sid \notin handler[h].owed
        /\ \A j \in handler[h].owed :
              j \in handler[h].keys \cup handler[h].found \/ session[j] = Gone
    BY <1>4 DEF Collect, At, Tracks, Collecting
  <2>2. PICK found \in SUBSET SessionIds, owed \in SUBSET SessionIds :
          /\ Local(h, [handler[h] EXCEPT !.keys = @ \ {k}, !.found = found, !.owed = owed])
          /\ \/ found = (IF k \in Mine(h) THEN handler[h].found \cup {k} ELSE handler[h].found)
                /\ owed = handler[h].owed
             \/ found = handler[h].found /\ owed = handler[h].owed \ {k}
    <3>1. /\ [handler[h] EXCEPT !.keys = @ \ {k}, !.owed = @ \ {k}]
             = [handler[h] EXCEPT !.keys = @ \ {k}, !.found = @, !.owed = @ \ {k}]
          /\ [handler[h] EXCEPT !.keys = @ \ {k},
                                !.found = IF Belongs(h, k) THEN @ \cup {k} ELSE @]
             = [handler[h] EXCEPT !.keys = @ \ {k},
                                  !.found = IF Belongs(h, k) THEN @ \cup {k} ELSE @,
                                  !.owed = @]
      BY <1>1 DEF Handler
    <3>2. handler[h].found \in SUBSET SessionIds /\ handler[h].owed \in SUBSET SessionIds
      BY <1>1 DEF Handler
    <3>3. CASE Local(h, [handler[h] EXCEPT !.keys = @ \ {k},
                                !.found = IF Belongs(h, k) THEN @ \cup {k} ELSE @])
      BY <3>1, <3>2, <3>3 DEF Belongs
    <3>4. CASE Local(h, [handler[h] EXCEPT !.keys = @ \ {k}, !.owed = @ \ {k}])
      BY <3>1, <3>2, <3>4
    <3> QED BY <1>4, <3>3, <3>4 DEF Collect
  <2> DEFINE r == [handler[h] EXCEPT !.keys = @ \ {k}, !.found = found, !.owed = owed]
  <2>3. handler'[h] = r
    BY <1>1, <2>2 DEF Local
  <2>4. /\ r.pc = "Collect" /\ r.found = found /\ r.mail = handler[h].mail
        /\ r.sid = handler[h].sid /\ r.keys = handler[h].keys \ {k} /\ r.owed = owed
    BY <1>1, <2>1 DEF Handler
  <2> HIDE DEF r
  <2>5. k \in Mine(h) => Was(handler[h], k, session)
    BY DEF Mine, Live, Was
  <2>6. k \notin Mine(h) /\ Was(handler[h], k, session) => session[k] = Gone
    BY DEF Mine, Live, Was
  <2>7. \A j \in found \cup owed : Was(handler[h], j, session)
    BY <2>1, <2>2, <2>5
  <2>8. \A j \in owed : j \in r.keys \cup found \/ session[j] = Gone
    BY <2>1, <2>2, <2>4, <2>6
  <2>9. \A j \in r.found \cup r.owed : Was(r, j, session)
    BY <2>4, <2>7 DEF Was
  <2> QED BY <2>1, <2>2, <2>3, <2>4, <2>8, <2>9 DEF Tracks, Collecting
<1>5. CASE Collected(h)
  <2> DEFINE r == [handler[h] EXCEPT !.pc = "Revoke", !.found = ToRevoke(h)]
  <2>1. /\ session' = session /\ handler[h].pc = "Collect" /\ handler[h].keys = {}
        /\ \A j \in handler[h].found \cup handler[h].owed : Was(handler[h], j, session)
        /\ handler[h].sid \notin handler[h].owed
        /\ \A j \in handler[h].owed :
              j \in handler[h].keys \cup handler[h].found \/ session[j] = Gone
    BY <1>5 DEF Collected, At, Tracks, Collecting
  <2>2. handler'[h] = r
    BY <1>1, <1>5 DEF Collected, Local
  <2>3. /\ r.pc = "Revoke" /\ r.found = handler[h].found \ {handler[h].sid}
        /\ r.mail = handler[h].mail /\ r.sid = handler[h].sid /\ r.owed = handler[h].owed
    BY <1>1 DEF Handler, ToRevoke
  <2> HIDE DEF r
  <2>4. \A j \in r.found \cup r.owed : Was(r, j, session)
    BY <2>1, <2>3 DEF Was
  <2> QED BY <2>1, <2>2, <2>3, <2>4 DEF Tracks, Collecting
<1>6. ASSUME NEW k \in SessionIds, Revoke(h, k)
      PROVE  Tracks(handler'[h], session')
  <2>1. /\ handler[h].pc = "Revoke" /\ handler[h].sid \notin handler[h].found
        /\ \A j \in handler[h].found \cup handler[h].owed : Was(handler[h], j, session)
        /\ handler[h].sid \notin handler[h].owed
        /\ \A j \in handler[h].owed : j \in handler[h].found \/ session[j] = Gone
    BY <1>6 DEF Revoke, At, Tracks, Collecting
  <2>2. PICK owed \in SUBSET SessionIds :
          /\ Local(h, [handler[h] EXCEPT !.found = @ \ {k}, !.owed = owed])
          /\ \/ owed = handler[h].owed /\ session' = [session EXCEPT ![k] = Gone]
             \/ owed = handler[h].owed \ {k} /\ session' = session
    <3>1. /\ [handler[h] EXCEPT !.found = @ \ {k}]
               = [handler[h] EXCEPT !.found = @ \ {k}, !.owed = @]
          /\ handler[h].owed \in SUBSET SessionIds
      BY <1>1 DEF Handler
    <3>2. CASE /\ session' = [session EXCEPT ![k] = Gone]
               /\ Local(h, [handler[h] EXCEPT !.found = @ \ {k}])
      BY <3>1, <3>2
    <3>3. CASE /\ Local(h, [handler[h] EXCEPT !.found = @ \ {k}, !.owed = @ \ {k}])
               /\ UNCHANGED session
      BY <3>1, <3>3
    <3> QED BY <1>6, <3>2, <3>3 DEF Revoke
  <2> DEFINE r == [handler[h] EXCEPT !.found = @ \ {k}, !.owed = owed]
  <2>3. handler'[h] = r
    BY <1>1, <2>2 DEF Local
  <2>4. /\ r.pc = "Revoke" /\ r.found = handler[h].found \ {k} /\ r.owed = owed
        /\ r.mail = handler[h].mail /\ r.sid = handler[h].sid
    BY <1>1, <2>1 DEF Handler
  <2> HIDE DEF r
  <2>5. /\ r.found \cup r.owed \subseteq SessionIds
        /\ r.found \cup r.owed \subseteq handler[h].found \cup handler[h].owed
    BY <1>1, <2>2, <2>4 DEF Handler
  <2>6. \A j \in r.found \cup r.owed : Was(r, j, session')
    BY <1>2, <2>1, <2>4, <2>5 DEF Was, SessionsLast
  <2>7. \A j \in r.owed : j \in r.found \/ session'[j] = Gone
    BY <1>2, <2>1, <2>2, <2>4, <2>5
  <2> QED BY <2>1, <2>2, <2>3, <2>4, <2>6, <2>7 DEF Tracks, Collecting
<1> QED BY <1>3, <1>4, <1>5, <1>6 DEF Looks

\* Each step keeps what the revocations know.
LEMMA NextTracked == Inv /\ Tracked /\ [Next]_vars => Tracked'
<1> SUFFICES ASSUME Inv, Tracked, [Next]_vars PROVE Tracked'
  OBVIOUS
<1>1. CASE UNCHANGED vars
  BY <1>1 DEF vars, Tracked
<1>2. CASE Next
  <2> SUFFICES ASSUME NEW h \in Handlers PROVE Tracks(handler'[h], session')
    BY DEF Tracked
  <2>1. SessionsLast /\ Tracks(handler[h], session) /\ handler[h] \in Handler
    BY <1>2, SessionsOnlyEnd DEF Tracked, Inv, TypeOK
  <2>2. CASE Looks(h)
    BY <2>1, <2>2, LooksTrack
  <2>3. CASE handler'[h] = handler[h]
    BY <2>1, <2>3, TracksLast
  <2>4. CASE Clear(handler'[h])
    BY <2>4 DEF Clear, Tracks, Collecting
  <2> QED BY <1>2, <2>1, <2>2, <2>3, <2>4, ElseClear
<1> QED BY <1>1, <1>2

\* "Sign out everywhere else" spares its own session and everybody else's and,
\* once it returns, has ended every session it was to end and could reach: all
\* that a page of the listing leaves no room for, and those whose KV call failed,
\* are out of its reach.  Logins, logouts and other revocations may run meanwhile.
THEOREM RevokesExactlyHolds == Spec => RevokesExactly
<1>1. Init => Tracked
  BY DEF Init, Tracked, Tracks, Idle, Collecting
<1>2. Inv /\ Tracked =>
        \A h \in Handlers :
          /\ \A k \in SessionIds :
                (Revoke(h, k) /\ Live(k) /\ session'[k] = Gone)
                    => k # handler[h].sid /\ session[k].mail = handler[h].mail
          /\ Revoked(h) => \A k \in handler[h].owed : ~Live(k)
  <2> SUFFICES ASSUME Inv, Tracked, NEW h \in Handlers
               PROVE  /\ \A k \in SessionIds :
                           (Revoke(h, k) /\ Live(k) /\ session'[k] = Gone)
                              => k # handler[h].sid /\ session[k].mail = handler[h].mail
                      /\ Revoked(h) => \A k \in handler[h].owed : ~Live(k)
    OBVIOUS
  <2>1. Tracks(handler[h], session)
    BY DEF Tracked
  <2>2. ASSUME NEW k \in SessionIds, Revoke(h, k), Live(k)
        PROVE  k # handler[h].sid /\ session[k].mail = handler[h].mail
    BY <2>1, <2>2 DEF Revoke, At, Tracks, Collecting, Was, Live
  <2>3. ASSUME Revoked(h), NEW k \in handler[h].owed PROVE ~Live(k)
    BY <2>1, <2>3 DEF Revoked, At, Tracks, Collecting, Live
  <2> QED BY <2>2, <2>3
<1>3. Inv /\ Tracked /\ [Next]_vars =>
        [\A h \in Handlers :
          /\ \A k \in SessionIds :
                (Revoke(h, k) /\ Live(k) /\ session'[k] = Gone)
                    => k # handler[h].sid /\ session[k].mail = handler[h].mail
          /\ Revoked(h) => \A k \in handler[h].owed : ~Live(k)]_vars
  BY <1>2
<1> QED BY <1>1, <1>3, NextTracked, Invariant, PTL DEF Spec, RevokesExactly
============================================================================
