------------------------------- MODULE Login -------------------------------
(***************************************************************************)
(* Signing in to the gateway, the sessions it creates and their end.       *)
(*                                                                         *)
(* A handler is one HTTP request being served by one worker invocation.    *)
(* Each call to the KV store, to the identity provider and to the users    *)
(* table is a step of its own, so that requests interleave between any two *)
(* calls; handler[h] holds the locals of the invocation.  An invocation    *)
(* may end at any call (an error returned with `?`, a worker that dies).   *)
(***************************************************************************)
EXTENDS RateLimit, FiniteSets

CONSTANTS Handlers,      \* concurrent worker invocations
          States,        \* values of the `state` parameter
          Codes,         \* authorization codes of the identity provider
          SessionIds,
          PageSize,      \* SESSION_LIST_PAGE_SIZE (1000 in the code)
          Accounts,      \* subjects of the identity provider (`sub`)
          Addresses,     \* e-mail addresses as they are spelled
          Mailboxes,     \* what COLLATE NOCASE tells apart
          Fold,          \* the mailbox of an address
          Users,         \* ids of rows of the users table
          Starts,        \* situations to start from
          None, Unused, Gone,
          MaxMinute      \* bound of the model

ASSUME FoldAssumption == /\ Fold \in [Addresses -> Mailboxes]
                         /\ None \notin States \cup Codes \cup SessionIds
                                    \cup Accounts \cup Addresses \cup Users
                         /\ Unused # Gone

VARIABLES now,        \* the clock, in minutes
          counter,    \* the rate counters in KV, one per bucket
          admitted,   \* history: requests let through, per bucket
          blurred,    \* history: two requests counted at once, or a KV call failed
          asked,      \* state parameters handed out
          pending,    \* those whose pending_login key is in KV
          code,       \* the provider's store of codes
          session,    \* the sessions in KV
          user,       \* the rows of the users table
          address,    \* the address the provider puts in an account's claims
          moved,      \* history: accounts whose address was changed
          handler,
          quota       \* how often each kind of event may still happen (a bound)

limits == <<now, counter, admitted, blurred>>
provider == <<code, address, moved>>
vars == <<now, counter, admitted, blurred, asked, pending, code, session,
          user, address, moved, handler, quota>>

Buckets == {MinuteBucket(m) : m \in 0..MaxMinute}
               \cup {HourBucket(m) : m \in 0..MaxMinute}

Kinds == {"login", "callback", "revoke", "upsert", "authorize", "move", "end", "tick"}
Session == [mail : Addresses, sub : Accounts, code : Codes, token : BOOLEAN]
User == [email : Addresses, sub : Accounts \cup {None}, active : BOOLEAN]
Minted == [state : States, account : Accounts]

\* No value of two kinds; UNIQUE (sub) and UNIQUE (email) COLLATE NOCASE hold,
\* every session has its own code, and who claimed a row did so by its address.
StartsWell(start) ==
    /\ start.asked \subseteq States
    /\ start.session \in [SessionIds -> Session \cup {Unused}]
    /\ start.user \in [Users -> User \cup {None}]
    /\ start.address \in [Accounts -> Addresses \cup {None}]
    /\ start.quota \in [Kinds -> Nat]
    /\ \A u, v \in Users :
          /\ start.user[u] # None /\ start.user[v] # None
          /\ start.user[u].sub # None /\ start.user[u].sub = start.user[v].sub
          => u = v
    /\ \A j, k \in SessionIds :
          /\ start.session[j] # Unused /\ start.session[k] # Unused
          /\ start.session[j].code = start.session[k].code
          => j = k
    /\ \A u, v \in Users :
          /\ start.user[u] # None /\ start.user[v] # None
          /\ Fold[start.user[u].email] = Fold[start.user[v].email]
          => u = v
    /\ \A u \in Users : start.user[u] # None =>
          LET a == start.user[u].sub
          IN a # None => Fold[start.user[u].email] = Fold[start.address[a]]
    /\ \A k \in SessionIds : start.session[k] # Unused =>
          /\ start.session[k].mail = start.address[start.session[k].sub]
          /\ \E u \in Users : /\ start.user[u] # None
                              /\ start.user[u].sub = start.session[k].sub

ASSUME StartAssumption == /\ None \notin User
                          /\ {Unused, Gone} \cap (Session \cup Minted) = {}
                          /\ MaxMinute \in Nat /\ PageSize \in Nat
                          /\ \A start \in Starts : StartsWell(start)

Idle == [pc |-> "Idle", at |-> 0, minute |-> 0, hour |-> 0, state |-> None,
         code |-> None, sub |-> None, mail |-> None, user |-> None,
         sid |-> None, keys |-> {}, found |-> {}, owed |-> {}, active |-> FALSE]

Init == /\ now = 0
        /\ counter = [b \in Buckets |-> 0]
        /\ admitted = [b \in Buckets |-> 0]
        /\ blurred = FALSE
        /\ \E start \in Starts :
             /\ asked = start.asked
             /\ pending = start.asked
             /\ session = start.session
             /\ user = start.user
             /\ address = start.address
             /\ quota = start.quota
             /\ code = [c \in Codes |->
                   IF \E k \in SessionIds : start.session[k] # Unused
                                                /\ start.session[k].code = c
                   THEN Gone ELSE Unused]
        /\ moved = {}
        /\ handler = [h \in Handlers |-> Idle]

At(h, pc) == handler[h].pc = pc
Local(h, r) == handler' = [handler EXCEPT ![h] = r]
Goto(h, pc) == handler' = [handler EXCEPT ![h].pc = pc]
Finish(h) == Local(h, Idle)

Happens(kind) == /\ quota[kind] > 0
                 /\ quota' = [quota EXCEPT ![kind] = @ - 1]

\* A request reaches the worker.
Arrive(h, kind, r) == At(h, "Idle") /\ Happens(kind) /\ Local(h, r)

Live(k) == session[k] \notin {Unused, Gone}
Row(u) == user[u] # None
BySubject(a) == {u \in Users : Row(u) /\ user[u].sub = a}
ByAddress(e) == {u \in Users : Row(u) /\ Fold[user[u].email] = Fold[e]}

----------------------------------------------------------------------------
(* GET /auth/login: the rate limit, then the pending login in KV.          *)

AskLogin(h) ==
    /\ Arrive(h, "login", [Idle EXCEPT !.pc = "ReadMinute", !.at = now])
    /\ UNCHANGED <<limits, provider, asked, pending, session, user>>

\* Another invocation is between its first read and its last write.
Tallying(h) == At(h, "ReadHour") \/ At(h, "TallyMinute") \/ At(h, "TallyHour")

\* A counter that cannot be read counts as 0.
ReadMinute(h) ==
    /\ At(h, "ReadMinute")
    /\ \E ok \in BOOLEAN :
         /\ Local(h, [handler[h] EXCEPT !.pc = "ReadHour",
               !.minute = IF ok THEN counter[MinuteBucket(handler[h].at)] ELSE 0])
         /\ blurred' = (blurred \/ ~ok \/ \E g \in Handlers \ {h} : Tallying(g))
    /\ UNCHANGED <<now, counter, admitted, provider, asked, pending, session,
                   user, quota>>

Verdict(h, hour) == Decide(handler[h].minute, hour)

\* The second read and the decision on both.
ReadHour(h) ==
    /\ At(h, "ReadHour")
    /\ \E ok \in BOOLEAN :
         LET hour == IF ok THEN counter[HourBucket(handler[h].at)] ELSE 0
         IN /\ blurred' = (blurred \/ ~ok)
            /\ IF Verdict(h, hour) = "Allowed"
               THEN /\ Local(h, [handler[h] EXCEPT !.pc = "TallyMinute",
                                                   !.hour = hour])
                    /\ admitted' = [admitted EXCEPT
                          ![MinuteBucket(handler[h].at)] = @ + 1,
                          ![HourBucket(handler[h].at)] = @ + 1]
               ELSE Finish(h) /\ UNCHANGED admitted
    /\ UNCHANGED <<now, counter, provider, asked, pending, session, user, quota>>

\* The two writes; a failed write is ignored.
Tally(h, pc, bucket, value, next) ==
    /\ At(h, pc)
    /\ \/ counter' = [counter EXCEPT ![bucket] = value] /\ UNCHANGED blurred
       \/ blurred' = TRUE /\ UNCHANGED counter
    /\ Goto(h, next)
    /\ UNCHANGED <<now, admitted, provider, asked, pending, session, user, quota>>
TallyMinute(h) == Tally(h, "TallyMinute", MinuteBucket(handler[h].at),
                        handler[h].minute + 1, "TallyHour")
TallyHour(h) == Tally(h, "TallyHour", HourBucket(handler[h].at),
                      handler[h].hour + 1, "SavePending")

\* A fresh state parameter, nonce and verifier; the browser is redirected.
SavePending(h) ==
    /\ At(h, "SavePending")
    /\ \E s \in States \ asked : /\ asked' = asked \cup {s}
                                 /\ pending' = pending \cup {s}
    /\ Finish(h)
    /\ UNCHANGED <<limits, provider, session, user, quota>>

----------------------------------------------------------------------------
(* The identity provider.                                                  *)

Authorize(s, a, c) ==
    /\ s \in asked
    /\ code[c] = Unused
    /\ Happens("authorize")
    /\ code' = [code EXCEPT ![c] = [state |-> s, account |-> a]]
    /\ UNCHANGED <<limits, asked, pending, session, user, address, moved, handler>>

\* Codes live 60 seconds.
ExpireCode(c) ==
    /\ code[c] \notin {Unused, Gone}
    /\ Happens("end")
    /\ code' = [code EXCEPT ![c] = Gone]
    /\ UNCHANGED <<limits, asked, pending, session, user, address, moved, handler>>

\* An account's address changes at the provider.
MoveAddress(a, e) ==
    /\ address[a] # e
    /\ Happens("move")
    /\ address' = [address EXCEPT ![a] = e]
    /\ moved' = moved \cup {a}
    /\ UNCHANGED <<limits, asked, pending, code, session, user, handler>>

----------------------------------------------------------------------------
(* GET /auth/callback.  Any state may come with any code.                  *)

CallBack(h, s, c) ==
    /\ code[c] # Unused
    /\ s \in asked
    /\ Arrive(h, "callback", [Idle EXCEPT !.pc = "Consume", !.state = s, !.code = c])
    /\ UNCHANGED <<limits, provider, asked, pending, session, user>>

Consume(h) ==
    /\ At(h, "Consume")
    /\ IF handler[h].state \in pending THEN Goto(h, "Forget") ELSE Finish(h)
    /\ UNCHANGED <<limits, provider, asked, pending, session, user, quota>>

\* The key is deleted in a second call, whose failure is ignored.
Forget(h) ==
    /\ At(h, "Forget")
    /\ pending' \in {pending, pending \ {handler[h].state}}
    /\ Goto(h, "Exchange")
    /\ UNCHANGED <<limits, provider, asked, session, user, quota>>

\* The provider gives a code out once, and removes it before it compares the
\* verifier (Granted); the gateway verifies the token, of whose checks only the
\* nonce can fail here (Verified), and wants an e-mail in the claims.
KeepCode(c) == UNCHANGED code
TakeCode(c) == code' = [code EXCEPT ![c] = Gone]

Granted(h, c) == code[c] # Gone /\ code[c].state = handler[h].state
Verified(h, c) == code[c].state = handler[h].state
HasMail(c) == address[code[c].account] # None

Exchange(h) ==
    LET c == handler[h].code
    IN /\ At(h, "Exchange")
       /\ TakeCode(c)
       /\ IF Granted(h, c) /\ Verified(h, c) /\ HasMail(c)
          THEN Local(h, [handler[h] EXCEPT !.pc = "BySub",
                            !.sub = code[c].account,
                            !.mail = address[code[c].account]])
          ELSE Finish(h)
       /\ UNCHANGED <<limits, asked, pending, session, user, address, moved, quota>>

\* get_by_sub, at the start and again after the claim: only an active user gets in.
Enter(h, found, otherwise) ==
    IF found = {} THEN otherwise
    ELSE \E u \in found :
           IF user[u].active
           THEN Local(h, [handler[h] EXCEPT !.pc = "Create", !.user = u])
           ELSE Finish(h)

BySub(h) ==
    /\ At(h, "BySub")
    /\ Enter(h, BySubject(handler[h].sub), Goto(h, "ByEmail"))
    /\ UNCHANGED <<limits, provider, asked, pending, session, user, quota>>

\* The candidate must not be claimed yet.
ByEmail(h) ==
    /\ At(h, "ByEmail")
    /\ LET free == {u \in ByAddress(handler[h].mail) : user[u].sub = None}
       IN IF free = {} THEN Finish(h)
          ELSE \E u \in free : Local(h, [handler[h] EXCEPT !.pc = "Claim", !.user = u])
    /\ UNCHANGED <<limits, provider, asked, pending, session, user, quota>>

\* UPDATE users SET sub = ?1 WHERE id = ?2 AND sub IS NULL, under UNIQUE (sub).
AnyClaim(u) == TRUE
Unclaimed(u) == user[u].sub = None
Bound(h) == handler[h].sub

Claim(h) ==
    LET u == handler[h].user
        a == Bound(h)
    IN /\ At(h, "Claim")
       /\ IF ~Unclaimed(u) THEN Goto(h, "Again") /\ UNCHANGED user
          ELSE IF BySubject(a) \ {u} # {} THEN Finish(h) /\ UNCHANGED user
          ELSE user' = [user EXCEPT ![u].sub = a] /\ Goto(h, "Again")
       /\ UNCHANGED <<limits, provider, asked, pending, session, quota>>

\* Who won the row: not the candidate, but whoever carries the subject now.
Candidate(h) == {handler[h].user}
Winner(h) == BySubject(handler[h].sub)

Again(h) ==
    /\ At(h, "Again")
    /\ Enter(h, Winner(h), Finish(h))
    /\ UNCHANGED <<limits, provider, asked, pending, session, user, quota>>

\* A session under a random id; recording the login afterwards is best effort.
Create(h) ==
    /\ At(h, "Create")
    /\ \E k \in SessionIds :
         /\ session[k] = Unused
         /\ session' = [session EXCEPT ![k] =
               [mail |-> handler[h].mail, sub |-> handler[h].sub,
                code |-> handler[h].code, token |-> TRUE]]
    /\ Finish(h)
    /\ UNCHANGED <<limits, provider, asked, pending, user, quota>>

----------------------------------------------------------------------------
(* POST /api/me/sessions/revoke-others, and the ends of a session.         *)

\* The request carries the cookie k and the CSRF token the page of session t
\* was rendered with, if that session has one.
Shown(t) == IF Live(t) /\ ~session[t].token THEN {} ELSE {t}

AskRevoke(h, k, t) ==
    /\ session[k] # Unused
    /\ session[t] # Unused
    /\ Arrive(h, "revoke", [Idle EXCEPT !.pc = "Load", !.sid = k, !.keys = Shown(t)])
    /\ UNCHANGED <<limits, provider, asked, pending, session, user>>

\* extract_caller: the session, then the user of its address.
Load(h) ==
    LET k == handler[h].sid
    IN /\ At(h, "Load")
       /\ IF Live(k) THEN Local(h, [handler[h] EXCEPT !.pc = "LookUp",
                                                      !.mail = session[k].mail])
          ELSE Finish(h)
       /\ UNCHANGED <<limits, provider, asked, pending, session, user, quota>>

LookUp(h) ==
    /\ At(h, "LookUp")
    /\ LET found == {u \in ByAddress(handler[h].mail) : user[u].active}
       IN IF found = {} THEN Finish(h)
          ELSE \E u \in found :
                 Local(h, [handler[h] EXCEPT !.pc = "Csrf", !.user = u,
                                             !.mail = user[u].email])
    /\ UNCHANGED <<limits, provider, asked, pending, session, user, quota>>

\* The session is loaded again for the CSRF token, and a third time to know
\* which one to spare.
\* A session of before tokens were made lets every token through.
TokenMatches(h) ==
    /\ handler[h].keys # {}
    /\ ~session[handler[h].sid].token \/ handler[h].keys = {handler[h].sid}

Csrf(h) ==
    /\ At(h, "Csrf")
    /\ IF Live(handler[h].sid) /\ TokenMatches(h)
       THEN Goto(h, "Reload") ELSE Finish(h)
    /\ UNCHANGED <<limits, provider, asked, pending, session, user, quota>>

Reload(h) ==
    /\ At(h, "Reload")
    /\ IF Live(handler[h].sid) THEN Goto(h, "List") ELSE Finish(h)
    /\ UNCHANGED <<limits, provider, asked, pending, session, user, quota>>

\* The caller's sessions, compared as they are spelled.
Mine(h) == {k \in SessionIds : Live(k) /\ session[k].mail = handler[h].mail}

\* One page of the keys of everybody's sessions, which are random: all of them
\* if they fit, any PageSize of them otherwise; a second page is not asked for.
AllLive == {k \in SessionIds : Live(k)}
Fits == Cardinality(AllLive) <= PageSize
IsPage(page) == IF Fits THEN page = AllLive
                ELSE page \subseteq AllLive /\ Cardinality(page) = PageSize

\* History: the sessions to end, those that a cut page leaves out excepted.
ToEnd(h, page) == (IF Fits THEN Mine(h) ELSE Mine(h) \cap page) \ {handler[h].sid}

List(h) ==
    /\ At(h, "List")
    /\ \E page \in SUBSET SessionIds :
         /\ IsPage(page)
         /\ Local(h, [handler[h] EXCEPT !.pc = "Collect", !.keys = page,
                                        !.owed = ToEnd(h, page)])
    /\ UNCHANGED <<limits, provider, asked, pending, session, user, quota>>

\* One get per listed key; one that fails is skipped.
Belongs(h, k) == k \in Mine(h)

Collect(h, k) ==
    /\ At(h, "Collect")
    /\ k \in handler[h].keys
    /\ \/ Local(h, [handler[h] EXCEPT !.keys = @ \ {k},
                       !.found = IF Belongs(h, k) THEN @ \cup {k} ELSE @])
       \/ Local(h, [handler[h] EXCEPT !.keys = @ \ {k}, !.owed = @ \ {k}])
    /\ UNCHANGED <<limits, provider, asked, pending, session, user, quota>>

RevokeAll(h) == handler[h].found
ToRevoke(h) == handler[h].found \ {handler[h].sid}

Collected(h) ==
    /\ At(h, "Collect")
    /\ handler[h].keys = {}
    /\ Local(h, [handler[h] EXCEPT !.pc = "Revoke", !.found = ToRevoke(h)])
    /\ UNCHANGED <<limits, provider, asked, pending, session, user, quota>>

\* One delete per session; one that fails is ignored.
Revoke(h, k) ==
    /\ At(h, "Revoke")
    /\ k \in handler[h].found
    /\ \/ /\ session' = [session EXCEPT ![k] = Gone]
          /\ Local(h, [handler[h] EXCEPT !.found = @ \ {k}])
       \/ /\ Local(h, [handler[h] EXCEPT !.found = @ \ {k}, !.owed = @ \ {k}])
          /\ UNCHANGED session
    /\ UNCHANGED <<limits, provider, asked, pending, user, quota>>

Revoked(h) ==
    /\ At(h, "Revoke")
    /\ handler[h].found = {}
    /\ Finish(h)
    /\ UNCHANGED <<limits, provider, asked, pending, session, user, quota>>

\* /auth/logout destroys the session, the TTL removes it.
EndSession(k) ==
    /\ Live(k)
    /\ Happens("end")
    /\ session' = [session EXCEPT ![k] = Gone]
    /\ UNCHANGED <<limits, provider, asked, pending, user, handler>>

ExpirePending(s) ==
    /\ s \in pending
    /\ Happens("end")
    /\ pending' = pending \ {s}
    /\ UNCHANGED <<limits, provider, asked, session, user, handler>>

----------------------------------------------------------------------------
(* POST /api/settings/users: upsert, a read and a write.                   *)

AskUpsert(h, e, active) ==
    /\ Arrive(h, "upsert", [Idle EXCEPT !.pc = "Find", !.mail = e, !.active = active])
    /\ UNCHANGED <<limits, provider, asked, pending, session, user>>

Find(h) ==
    /\ At(h, "Find")
    /\ LET found == ByAddress(handler[h].mail)
       IN IF found = {} THEN Local(h, [handler[h] EXCEPT !.pc = "Store"])
          ELSE \E u \in found : Local(h, [handler[h] EXCEPT !.pc = "Store", !.user = u])
    /\ UNCHANGED <<limits, provider, asked, pending, session, user, quota>>

\* UPDATE of the row found, or INSERT under UNIQUE (email) COLLATE NOCASE.
Store(h) ==
    LET u == handler[h].user
        e == handler[h].mail
    IN /\ At(h, "Store")
       /\ Finish(h)
       /\ IF u # None THEN user' = [user EXCEPT ![u].active = handler[h].active]
          ELSE IF ByAddress(e) # {} THEN UNCHANGED user
          ELSE \E n \in {n \in Users : ~Row(n)} :
                 user' = [user EXCEPT ![n] = [email |-> e, sub |-> None,
                                              active |-> handler[h].active]]
       /\ UNCHANGED <<limits, provider, asked, pending, session, quota>>

----------------------------------------------------------------------------
\* An error returned with `?`, or the death of the invocation.
GiveUp(h) ==
    /\ ~At(h, "Idle")
    /\ Finish(h)
    /\ blurred' = (blurred \/ At(h, "TallyMinute") \/ At(h, "TallyHour"))
    /\ UNCHANGED <<now, counter, admitted, provider, asked, pending, session,
                   user, quota>>

Tick == /\ now < MaxMinute
        /\ Happens("tick")
        /\ now' = now + 1
        /\ UNCHANGED <<counter, admitted, blurred, provider, asked, pending,
                       session, user, handler>>

LoginStep(h) == AskLogin(h) \/ ReadMinute(h) \/ ReadHour(h) \/ TallyMinute(h)
                    \/ TallyHour(h) \/ SavePending(h)
CallBackStep(h) == \/ \E s \in States, c \in Codes : CallBack(h, s, c)
                   \/ Consume(h) \/ Forget(h) \/ Exchange(h) \/ BySub(h)
                   \/ ByEmail(h) \/ Claim(h) \/ Again(h) \/ Create(h)
RevokeStep(h) == \/ \E k, t \in SessionIds : AskRevoke(h, k, t)
                 \/ Load(h) \/ LookUp(h) \/ Csrf(h) \/ Reload(h) \/ List(h)
                 \/ \E k \in SessionIds : Collect(h, k) \/ Revoke(h, k)
                 \/ Collected(h) \/ Revoked(h)
UpsertStep(h) == \/ \E e \in Addresses, active \in BOOLEAN : AskUpsert(h, e, active)
                 \/ Find(h) \/ Store(h)
Elsewhere == \/ \E s \in States, a \in Accounts, c \in Codes : Authorize(s, a, c)
             \/ \E c \in Codes : ExpireCode(c)
             \/ \E a \in Accounts, e \in Addresses : MoveAddress(a, e)
             \/ \E k \in SessionIds : EndSession(k)
             \/ \E s \in States : ExpirePending(s)
             \/ Tick

Next == \/ \E h \in Handlers : LoginStep(h) \/ CallBackStep(h) \/ RevokeStep(h)
                                   \/ UpsertStep(h) \/ GiveUp(h)
        \/ Elsewhere

Spec == Init /\ [][Next]_vars

----------------------------------------------------------------------------
PCs == {"Idle", "ReadMinute", "ReadHour", "TallyMinute", "TallyHour", "SavePending",
        "Consume", "Forget", "Exchange", "BySub", "ByEmail", "Claim", "Again", "Create",
        "Load", "LookUp", "Csrf", "Reload", "List", "Collect", "Revoke", "Find", "Store"}

Handler == [pc : PCs, at : 0..MaxMinute, minute : Nat, hour : Nat,
            state : States \cup {None}, code : Codes \cup {None},
            sub : Accounts \cup {None}, mail : Addresses \cup {None},
            user : Users \cup {None}, sid : SessionIds \cup {None},
            keys : SUBSET SessionIds, found : SUBSET SessionIds,
            owed : SUBSET SessionIds, active : BOOLEAN]

\* Every variable stays in its type.
TypeOK == /\ now \in 0..MaxMinute
          /\ counter \in [Buckets -> Nat]
          /\ admitted \in [Buckets -> Nat]
          /\ blurred \in BOOLEAN
          /\ asked \subseteq States
          /\ pending \subseteq asked
          /\ code \in [Codes -> Minted \cup {Unused, Gone}]
          /\ session \in [SessionIds -> Session \cup {Unused, Gone}]
          /\ user \in [Users -> User \cup {None}]
          /\ address \in [Accounts -> Addresses \cup {None}]
          /\ moved \subseteq Accounts
          /\ handler \in [Handlers -> Handler]
          /\ quota \in [Kinds -> Nat]

\* While requests are counted one at a time and no KV call fails, no bucket
\* admits more logins than its limit, whatever minute or hour a slow request
\* straddles (rate_limit.rs, check_and_consume_login).
AdmissionBounded == ~blurred => \A b \in Buckets : admitted[b] <= LimitOf(b)

\* One authorization code opens at most one session, though the pending login
\* is read and deleted in two calls and a callback may be delivered twice.
OneSessionPerCode ==
    \A j, k \in SessionIds :
        (Live(j) /\ Live(k) /\ session[j].code = session[k].code) => j = k

\* A row claimed by a subject keeps it, and no subject claims two rows: of two
\* first logins racing for a row one wins, and a person whose address moved
\* between two first logins gets one row (db/users.rs, resolve_by_identity).
SubUnique == \A u, v \in Users :
    (Row(u) /\ Row(v) /\ user[u].sub # None /\ user[u].sub = user[v].sub) => u = v
SubKept == [][/\ \A u \in Users : (Row(u) /\ user[u].sub # None)
                      => user'[u] # None /\ user'[u].sub = user[u].sub
              /\ SubUnique']_vars

\* A session is served as the user its own subject signed in as, unless the
\* address of an account was changed at the provider: the gateway looks the
\* user up by the session's address, not by its subject (auth.rs, extract_caller).
ServedAsItself ==
    \A k \in SessionIds, u \in Users :
        (Live(k) /\ u \in ByAddress(session[k].mail) /\ moved = {})
            => user[u].sub = session[k].sub

\* "Sign out everywhere else" ends only sessions of the caller's address, not
\* the one it was asked from.  Once it returns, every session that was to end
\* when the keys were listed is over, but for those whose own KV call failed and,
\* where there are more sessions than a page holds, those the page left out
\* (session.rs, revoke_others_for_user and list_active_for_user).
RevokesExactly ==
    [][\A h \in Handlers :
          /\ \A k \in SessionIds :
                (Revoke(h, k) /\ Live(k) /\ session'[k] = Gone)
                    => k # handler[h].sid /\ session[k].mail = handler[h].mail
          /\ Revoked(h) => \A k \in handler[h].owed : ~Live(k)]_vars
=============================================================================
