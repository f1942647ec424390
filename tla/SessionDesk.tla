------------------------------ MODULE SessionDesk ------------------------------
(***************************************************************************)
(* One browser and its session: the sign-in page, a workspace that polls,  *)
(* the cookie jar, and between them and the backend the proxy of the       *)
(* frontend (route.ts).  The proxy renews an access token that expired,    *)
(* once for all the calls that wait for it, sends such a call again, and   *)
(* takes the cookies of a dead session away.                               *)
(*                                                                         *)
(* A session is a row of auth.sessions; its cookies are the refresh token, *)
(* which names the session, and an access token, which is fresh for an     *)
(* hour.  The manager changes the password, or the account's state, at any *)
(* time.                                                                   *)
(***************************************************************************)
EXTENDS Integers, FiniteSets

CONSTANTS Slots,        \* bound: calls of the page under way at once
          MaxSessions,  \* bound: sessions opened
          MaxEvents     \* bound: choices of the people, failed calls

VARIABLES account,   \* [password |-> number of the password, active |-> BOOLEAN]
          cashier,   \* whether the account is a cashier's
          sessions,  \* the rows of auth.sessions
          opened,    \* sessions opened so far
          jar,       \* the cookies of the browser
          page,      \* what the browser shows
          calls,     \* a call of the page per slot, or NoCall
          renewals,  \* inFlightRefresh of the proxy, by session
          events     \* bound

vars == <<account, cashier, sessions, opened, jar, page, calls, renewals, events>>

NoCookies == [session |-> 0, fresh |-> FALSE]
NoCall == [path |-> "none", step |-> "none", session |-> 0, fresh |-> FALSE,
           typed |-> 0, gained |-> 0, status |-> 0]
Ids == 1 .. MaxSessions
Paths == {"login", "check", "data", "logout"}

TypeOK ==
  /\ account \in [password : 1 .. MaxEvents + 1, active : BOOLEAN]
  /\ cashier \in BOOLEAN
  /\ opened \in 0 .. MaxSessions /\ sessions \subseteq 1 .. opened
  /\ jar \in [session : 0 .. opened, fresh : BOOLEAN]
  /\ page \in [at : {"sign-in", "portal"}, busy : BOOLEAN]
  /\ \A k \in Slots :
       \/ calls[k] = NoCall
       \/ /\ calls[k].path \in Paths
          /\ calls[k].step \in {"sent", "inserting", "renewing", "resent", "answered"}
          /\ calls[k].session \in 0 .. opened /\ calls[k].gained \in 0 .. opened
  /\ renewals \in [Ids -> {"none", "asked", "renewed", "failed"}]
  /\ events \in 0 .. MaxEvents

Event == events < MaxEvents /\ events' = events + 1
Server == <<account, cashier, sessions, opened>>

-----------------------------------------------------------------------------
\* The page.  A page that is left drops the calls it waits for.

GoTo(at) ==
  /\ page' = [at |-> at, busy |-> FALSE]
  /\ calls' = [k \in Slots |-> NoCall]

Sent(path, cookies, typed) ==
  [NoCall EXCEPT !.path = path, !.step = "sent", !.typed = typed,
                 !.session = cookies.session, !.fresh = cookies.fresh]
Begin(k, path, typed) ==
  /\ calls[k] = NoCall
  /\ calls' = [calls EXCEPT ![k] = Sent(path, jar, typed)]
  /\ UNCHANGED <<Server, jar, renewals>>

\* A password of today, or one the manager has replaced since.
submit(k, typed) ==
  /\ Event
  /\ page = [at |-> "sign-in", busy |-> FALSE] /\ opened < MaxSessions
  /\ page' = [page EXCEPT !.busy = TRUE]
  /\ Begin(k, "login", typed)

load_WhileFresh(k) ==
  /\ page.at = "portal" /\ jar.fresh
  /\ Begin(k, "data", 0)
  /\ UNCHANGED <<page, events>>
load(k) ==
  /\ page.at = "portal"
  /\ Begin(k, "data", 0)
  /\ UNCHANGED <<page, events>>

signOut(k) ==
  /\ Event
  /\ page = [at |-> "portal", busy |-> FALSE]
  /\ page' = [page EXCEPT !.busy = TRUE]
  /\ Begin(k, "logout", 0)

\* A portal without cookies redirects to the sign-in page.
Visit(at) ==
  /\ Event
  /\ GoTo(IF jar = NoCookies THEN "sign-in" ELSE at)
  /\ UNCHANGED <<Server, jar, renewals>>

-----------------------------------------------------------------------------
\* The backend.

\* get_actor: the token, the account, the session, in this order.
Status(c) ==
  CASE c.session = 0 \/ ~c.fresh -> 401
    [] ~account.active -> 403
    [] c.session \notin sessions -> 401
    [] OTHER -> 200

Answered(c, status) == [c EXCEPT !.step = "answered", !.status = status]

\* What a call does with the renewal it waited for: it is sent again, or its
\* first answer stands.
Resumed(c, outcome) ==
  IF outcome = "renewed" THEN [c EXCEPT !.step = "resent", !.fresh = TRUE, !.gained = c.session]
  ELSE Answered(c, 401)

\* A 401 asks for a renewal, joins the one under way, or takes the answer of one
\* that was not forgotten yet.
Serve(k) ==
  LET c == calls[k]
      renews == c.step = "sent" /\ Status(c) = 401 /\ c.session # 0
      shared == IF renews THEN renewals[c.session] ELSE "none"
  IN  /\ c.path # "login" /\ c.step \in {"sent", "resent"}
      /\ calls' = [calls EXCEPT ![k] =
           IF ~renews THEN Answered(c, Status(c))
           ELSE IF shared \in {"none", "asked"} THEN [c EXCEPT !.step = "renewing"]
           ELSE Resumed(c, shared)]
      /\ renewals' = IF renews /\ shared = "none"
                     THEN [renewals EXCEPT ![c.session] = "asked"] ELSE renewals
      /\ sessions' = IF c.path = "logout" /\ Status(c) = 200 THEN {} ELSE sessions
      /\ UNCHANGED <<account, cashier, opened, jar, page, events>>

\* login reads the account, and opens the session in another transaction.
loginReads(k) ==
  LET c == calls[k]
  IN  /\ c.path = "login" /\ c.step = "sent"
      /\ calls' = [calls EXCEPT ![k] =
           IF c.typed # account.password THEN Answered(c, 401)
           ELSE IF account.active THEN [c EXCEPT !.step = "inserting"] ELSE Answered(c, 403)]
      /\ UNCHANGED <<Server, jar, page, renewals, events>>

loginInserts(k) ==
  /\ calls[k].step = "inserting"
  /\ opened' = opened + 1 /\ sessions' = sessions \cup {opened + 1}
  /\ calls' = [calls EXCEPT ![k] = [Answered(calls[k], 200) EXCEPT !.gained = opened + 1]]
  /\ UNCHANGED <<account, cashier, jar, page, renewals, events>>

\* The answer goes to every call that waits for it.
Settles(s, outcome) ==
  /\ renewals[s] = "asked"
  /\ renewals' = [renewals EXCEPT ![s] = outcome]
  /\ calls' = [k \in Slots |-> IF calls[k].step = "renewing" /\ calls[k].session = s
                               THEN Resumed(calls[k], outcome) ELSE calls[k]]
  /\ UNCHANGED <<Server, jar, page>>

Granted(s) == s \in sessions /\ account.active
refresh(s) == Settles(s, IF Granted(s) THEN "renewed" ELSE "failed") /\ UNCHANGED events

changesPassword ==
  /\ Event
  /\ account' = [account EXCEPT !.password = @ + 1] /\ sessions' = {}
  /\ UNCHANGED <<cashier, opened, jar, page, calls, renewals>>
setsActive ==
  /\ Event
  /\ account' = [account EXCEPT !.active = ~@]
  /\ UNCHANGED <<cashier, sessions, opened, jar, page, calls, renewals>>

-----------------------------------------------------------------------------
\* The proxy.

\* No answer within 15 seconds, or none at all.
refreshLost(s) == Event /\ Settles(s, "failed")

\* Half a second after the answer.
refreshForgotten(s) ==
  /\ renewals[s] \in {"renewed", "failed"}
  /\ renewals' = [renewals EXCEPT ![s] = "none"]
  /\ UNCHANGED <<Server, jar, page, calls, events>>

isSessionDead(c) == c.status = 401 /\ (c.session = 0 \/ (c.path # "login" /\ c.gained = 0))
isExplicitLogout(c) == c.path = "logout" /\ c.status = 200

Cookies(c) ==
  IF isSessionDead(c) \/ isExplicitLogout(c) THEN NoCookies
  ELSE IF c.gained # 0 THEN [session |-> c.gained, fresh |-> TRUE] ELSE jar

-----------------------------------------------------------------------------
\* What the page does with an answer.

Goes(k) == calls' = [calls EXCEPT ![k] = NoCall]
Leaves(status) == status = 401 \/ (cashier /\ status = 403)

Continue(k, status, cookies) ==
  LET path == calls[k].path
  IN  \/ /\ path = "login" /\ status = 200
         /\ calls' = [calls EXCEPT ![k] = Sent("check", cookies, 0)] /\ UNCHANGED page
      \/ /\ path = "check" /\ status = 200 /\ GoTo("portal")
      \/ /\ path = "logout" /\ status = 200 /\ GoTo("sign-in")
      \/ /\ path = "data" /\ Leaves(status) /\ GoTo("sign-in")
      \/ /\ path = "data" /\ ~Leaves(status) /\ Goes(k) /\ UNCHANGED page
      \/ /\ path \in {"login", "check", "logout"} /\ status # 200
         /\ Goes(k) /\ page' = [page EXCEPT !.busy = FALSE]

Answer(k) ==
  /\ calls[k].step = "answered"
  /\ jar' = Cookies(calls[k])
  /\ Continue(k, calls[k].status, jar')
  /\ UNCHANGED <<Server, renewals, events>>

\* The proxy gives up, or its answer does not arrive.
Unavailable(k) ==
  /\ Event
  /\ calls[k] # NoCall
  /\ Continue(k, 503, jar)
  /\ UNCHANGED <<Server, jar, renewals>>

Expires ==
  /\ jar.fresh
  /\ jar' = [jar EXCEPT !.fresh = FALSE]
  /\ UNCHANGED <<Server, page, calls, renewals, events>>

-----------------------------------------------------------------------------
Init ==
  /\ account = [password |-> 1, active |-> TRUE] /\ cashier \in BOOLEAN
  /\ sessions = {} /\ opened = 0 /\ jar = NoCookies
  /\ page = [at |-> "sign-in", busy |-> FALSE]
  /\ calls = [k \in Slots |-> NoCall]
  /\ renewals = [s \in Ids |-> "none"] /\ events = 0

Polls == \E k \in Slots : load(k)
Answers(k) == Serve(k) \/ loginReads(k) \/ loginInserts(k) \/ Answer(k)
Renews(s) == refresh(s) \/ refreshForgotten(s)

Next ==
  \/ Polls \/ changesPassword \/ setsActive \/ Expires
  \/ \E k \in Slots : \/ \E typed \in {account.password, account.password - 1} \ {0} : submit(k, typed)
                      \/ signOut(k) \/ Answers(k) \/ Unavailable(k)
  \/ \E at \in {"sign-in", "portal"} : Visit(at)
  \/ \E s \in Ids : Renews(s) \/ refreshLost(s)

\* The interval fires, the backend and the proxy answer, an hour passes.
Fairness ==
  /\ WF_vars(Polls) /\ WF_vars(Expires)
  /\ \A k \in Slots : WF_vars(Answers(k))
  /\ \A s \in Ids : WF_vars(Renews(s))

Spec == Init /\ [][Next]_vars
FairSpec == Spec /\ Fairness

-----------------------------------------------------------------------------
Usable == jar.session \in sessions /\ account.active

\* A portal does not stay open on a session that was revoked or an account that
\* was deactivated: its polls end it (load of both workspaces, handler), for an
\* account that answers 403 when the access token runs out (refresh).
SignedOutOrUsable == page.at = "sign-in" \/ Usable
RevokedSignsOut == []<>SignedOutOrUsable

\* "Explicit logout or confirmed revoked session: clean up cookies" (route.ts):
\* the cookies of an active account's living session stay.
ClearedWhenRevoked ==
  [][account.active /\ jar.session # 0 /\ jar'.session = 0 => jar.session \notin sessions]_vars

=============================================================================
