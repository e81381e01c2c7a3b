------------------------------ MODULE Sessions ------------------------------
(***************************************************************************)
(* One account, the browsers it is used from, and its single session:      *)
(* auth.service.ts and jwt.strategy.ts on the server, the axios            *)
(* interceptors of web/src/lib/api.ts in every tab.                        *)
(*                                                                         *)
(* Each login or refresh starts a new session, written over the old one in *)
(* the account's row after an earlier read of that row.  A tab that is     *)
(* told 401 asks for a refresh, parks what fails meanwhile, and repeats    *)
(* it; localStorage is shared by the tabs of a browser.  A session names   *)
(* its access token and its refresh token.                                 *)
(***************************************************************************)
EXTENDS Naturals

CONSTANTS
  Tabs,
  Browsers,
  Calls,    \* HTTP requests that may be in flight together
  TabOf,    \* the tab that makes each of them
  MaxActs,  \* bound: requests made, password resets, deactivations
  None      \* null

ASSUME TabOfAssumption == TabOf \in [Calls -> Tabs]
ASSUME BoundAssumption == MaxActs \in Nat
ASSUME NoneIsNoSession == None \notin Nat

VARIABLES
  account, \* the row of users: status, currentSessionId, is there a refreshTokenHash
  issued,  \* sessions started so far
  age,     \* how far the tokens of each session have expired
  browser, \* the browser of each tab
  storage, \* localStorage of each browser: access_token, refresh_token
  tab,     \* each tab: its page, isRefreshing
  call,    \* each request
  refresh, \* the POST /auth/refresh of each tab
  home,    \* the browser each session was started for (history)
  acts     \* requests, resets and deactivations so far (bound)

vars == <<account, issued, age, browser, storage, tab, call, refresh, home, acts>>
server == <<account, issued, home>>
client == <<storage, tab>>

\* A request starts a session as a login, and once more as the one that finds
\* its token expired.
Sessions == 1 .. 2 * MaxActs + 1
OrNone(S) == S \cup {None}

Ages == {"fresh", "expired", "lapsed"} \* valid; access token over; both over
Kinds == {"read", "logout", "password", "login"}
\* At the server, answered, or parked in the tab.
CallSteps == {"idle", "sent", "working", "ok", "unauthorized", "refreshing", "queued"}
RefreshSteps == {"idle", "sent", "working", "ok", "unauthorized"}

NoCall == [at |-> "idle", kind |-> "read", token |-> None, retried |-> FALSE, live |-> TRUE]
NoRefresh == [at |-> "idle", token |-> None, live |-> TRUE, late |-> FALSE]
Empty == [access |-> None, refresh |-> None]

\* Nobody is logged in, or somebody is in one browser.  Somebody who has just
\* registered through a social account has tokens that the row does not know:
\* generateTokens updates it from outside the transaction that inserts it, and
\* finds none.
Init ==
  /\ browser \in [Tabs -> Browsers]
  /\ age = [s \in Sessions |-> "fresh"]
  /\ call = [c \in Calls |-> NoCall]
  /\ refresh = [t \in Tabs |-> NoRefresh]
  /\ acts = 0
  /\ \/ /\ issued = 0
        /\ account = [status |-> "active", session |-> None, refresh |-> FALSE]
        /\ home = [s \in Sessions |-> None]
        /\ storage = [b \in Browsers |-> Empty]
        /\ tab = [t \in Tabs |-> [page |-> "login", refreshing |-> FALSE]]
     \/ \E b \in Browsers, known \in BOOLEAN :
          /\ issued = 1
          /\ account = [status |-> "active", session |-> IF known THEN 1 ELSE None, refresh |-> known]
          /\ home = [s \in Sessions |-> IF s = 1 THEN b ELSE None]
          /\ storage = [[x \in Browsers |-> Empty] EXCEPT ![b] = [access |-> 1, refresh |-> 1]]
          /\ tab = [t \in Tabs |-> [page |-> IF browser[t] = b THEN "app" ELSE "login",
                                    refreshing |-> FALSE]]

-----------------------------------------------------------------------------
(***************************************************************************)
(* The server.                                                             *)
(***************************************************************************)
\* generateTokens: its update is unconditional.
Issue(b) ==
  /\ issued' = issued + 1
  /\ account' = [account EXCEPT !.session = issued + 1, !.refresh = TRUE]
  /\ home' = [home EXCEPT ![issued + 1] = b]

\* A refresh that has read the row outlives whatever ends the sessions now.
Revoke(row) ==
  /\ account' = row
  /\ refresh' = [t \in Tabs |-> [refresh[t] EXCEPT !.late = @ \/ refresh[t].at = "working"]]

\* validate: SESSION_REPLACED when both ids are known and differ.
Accepts(token) ==
  /\ token # None /\ age[token] = "fresh"
  /\ account.status = "active"
  /\ account.session \in {None, token}

\* JwtAuthGuard.  login is public, and looks at the password and the status.
Receive(c) ==
  LET token == call[c].token IN
  /\ call[c].at = "sent"
  /\ \E answer \in {"working", "unauthorized"} :
       /\ IF call[c].kind = "login"
            THEN answer = "working" => account.status = "active"
            ELSE answer = "working" <=> Accepts(token)
       /\ call' = [call EXCEPT ![c].at = answer]
  /\ UNCHANGED <<server, age, browser, client, refresh, acts>>

Serve(c) ==
  /\ call[c].at = "working"
  /\ \/ /\ call[c].kind = "read"
        /\ UNCHANGED <<server, refresh>>
     \/ /\ call[c].kind = "logout"
        /\ Revoke([account EXCEPT !.session = None, !.refresh = FALSE])
        /\ UNCHANGED <<issued, home>>
     \/ /\ call[c].kind = "password"
        /\ Revoke([account EXCEPT !.refresh = FALSE])
        /\ UNCHANGED <<issued, home>>
     \/ /\ call[c].kind = "login"
        /\ Issue(browser[TabOf[c]])
        /\ UNCHANGED refresh
  /\ call' = IF call[c].live
               THEN [call EXCEPT ![c].at = "ok",
                                 ![c].token = IF call[c].kind = "login" THEN issued' ELSE @]
               ELSE [call EXCEPT ![c] = NoCall]
  /\ UNCHANGED <<age, browser, client, acts>>

\* Mutant: nobody looks whether there is a refreshTokenHash.
Renewable(token) == age[token] # "lapsed" /\ account.status = "active"
\* refreshTokens, its checks.  bcrypt compares the first 72 bytes, which the
\* tokens of one user share: any of them matches the hash.
Refreshable(token) == age[token] # "lapsed" /\ account.status = "active" /\ account.refresh

ReceiveRefresh(t) ==
  /\ refresh[t].at = "sent"
  /\ refresh' = [refresh EXCEPT ![t].at =
       IF Refreshable(refresh[t].token) THEN "working" ELSE "unauthorized"]
  /\ UNCHANGED <<server, age, browser, client, call, acts>>

ServeRefresh(t) ==
  /\ refresh[t].at = "working"
  /\ Issue(browser[t])
  /\ refresh' = IF refresh[t].live
                  THEN [refresh EXCEPT ![t].at = "ok", ![t].token = issued']
                  ELSE [refresh EXCEPT ![t] = NoRefresh]
  /\ UNCHANGED <<age, browser, client, call, acts>>

\* resetPassword from a mail; deactivateUser by the owner.
EndSessions ==
  /\ acts < MaxActs
  /\ acts' = acts + 1
  /\ \E status \in {account.status, "inactive"} :
       Revoke([account EXCEPT !.status = status, !.refresh = FALSE])
  /\ UNCHANGED <<issued, home, age, browser, client, call>>

\* 15 minutes; 7 days.  What nobody holds may as well never expire.
Held(s) ==
  \/ \E b \in Browsers : s \in {storage[b].access, storage[b].refresh}
  \/ \E c \in Calls : s = call[c].token
Expire(s) ==
  /\ Held(s)
  /\ \/ age[s] = "fresh" /\ age' = [age EXCEPT ![s] = "expired"]
     \/ age[s] = "expired" /\ age' = [age EXCEPT ![s] = "lapsed"]
  /\ UNCHANGED <<server, browser, client, call, refresh, acts>>

-----------------------------------------------------------------------------
(***************************************************************************)
(* A tab.                                                                  *)
(***************************************************************************)
Stored(t) == storage[browser[t]]
Keep(t, tokens) == storage' = [storage EXCEPT ![browser[t]] = tokens]
Leave(t) == [tab EXCEPT ![t].page = "leaving"]
Settle(c) == call' = [call EXCEPT ![c] = NoCall]

\* The request interceptor; login is made on its own page.
Call(c, kind) ==
  LET t == TabOf[c] IN
  /\ call[c].at = "idle"
  /\ acts < MaxActs
  /\ acts' = acts + 1
  /\ IF kind = "login" THEN tab[t].page = "login" ELSE tab[t].page \in {"app", "leaving"}
  /\ call' = [call EXCEPT ![c] = [NoCall EXCEPT !.at = "sent", !.kind = kind,
                                                !.token = Stored(t).access]]
  /\ UNCHANGED <<server, age, browser, client, refresh>>

\* The promise of the request is resolved.  logout leaves the page, whatever
\* its answer.
Resolve(c) ==
  LET t == TabOf[c] IN
  /\ call[c].at = "ok" /\ call[c].live
  /\ CASE call[c].kind = "login" ->
            /\ Keep(t, [access |-> call[c].token, refresh |-> call[c].token])
            /\ tab' = IF tab[t].page = "login" THEN [tab EXCEPT ![t].page = "app"] ELSE tab
       [] call[c].kind = "logout" -> Keep(t, Empty) /\ tab' = Leave(t)
       [] OTHER -> UNCHANGED client
  /\ Settle(c)
  /\ UNCHANGED <<server, age, browser, refresh, acts>>

Reject(c) ==
  LET t == TabOf[c] IN
  /\ IF call[c].kind = "logout" THEN Keep(t, Empty) /\ tab' = Leave(t) ELSE UNCHANGED client

\* 401 after the repetition: rejected.
RejectRetried(c) ==
  /\ call[c].at = "unauthorized" /\ call[c].live /\ call[c].retried
  /\ Reject(c)
  /\ Settle(c)
  /\ UNCHANGED <<server, age, browser, refresh, acts>>

\* No answer: the connection broke or 60 seconds are over.  The server may
\* still be at it.
GiveUp(c) ==
  /\ call[c].live
  /\ call[c].at \in {"sent", "working", "ok", "unauthorized"}
  /\ Reject(c)
  /\ \/ call[c].at = "working" /\ call' = [call EXCEPT ![c].live = FALSE]
     \/ call[c].at # "working" /\ Settle(c)
  /\ UNCHANGED <<server, age, browser, refresh, acts>>

\* 401 while a refresh is under way.
Park(c) ==
  /\ call[c].at = "unauthorized" /\ call[c].live /\ ~call[c].retried
  /\ tab[TabOf[c]].refreshing
  /\ call' = [call EXCEPT ![c].at = "queued"]
  /\ UNCHANGED <<server, age, browser, client, refresh, acts>>

\* 401: start one, also when the session was replaced: the interceptor looks for
\* the code SESSION_REPLACED beside the "error" of the body, HttpExceptionFilter
\* puts it inside.  Without a refresh token isRefreshing stays set, and the page
\* is left.
StartRefresh(c) ==
  LET t == TabOf[c] IN
  /\ call[c].at = "unauthorized" /\ call[c].live /\ ~call[c].retried
  /\ ~tab[t].refreshing
  /\ refresh[t].at = "idle" \* bound: one at the server
  /\ \/ /\ Stored(t).refresh # None
        /\ tab' = [tab EXCEPT ![t].refreshing = TRUE]
        /\ call' = [call EXCEPT ![c].at = "refreshing", ![c].retried = TRUE]
        /\ refresh' = [refresh EXCEPT ![t] = [NoRefresh EXCEPT !.at = "sent",
                                                               !.token = Stored(t).refresh]]
        /\ UNCHANGED storage
     \/ /\ Stored(t).refresh = None
        /\ tab' = [tab EXCEPT ![t] = [page |-> "leaving", refreshing |-> TRUE]]
        /\ IF call[c].kind = "logout" THEN Keep(t, Empty) ELSE UNCHANGED storage
        /\ Settle(c)
        /\ UNCHANGED refresh
  /\ UNCHANGED <<server, age, browser, acts>>

Waiting(t) == {c \in Calls : TabOf[c] = t /\ call[c].at \in {"refreshing", "queued"}}
\* Mutant: the parked requests are forgotten.
RepeatFirst(t, token) ==
  call' = [c \in Calls |-> IF c \in Waiting(t) /\ call[c].at = "refreshing"
                             THEN [call[c] EXCEPT !.at = "sent", !.token = token] ELSE call[c]]
\* processQueue(null, token) and the repetition of the first.
Repeat(t, token) ==
  call' = [c \in Calls |-> IF c \in Waiting(t)
                             THEN [call[c] EXCEPT !.at = "sent", !.token = token] ELSE call[c]]

\* Only the access token is stored.
Refreshed(t) ==
  LET token == refresh[t].token IN
  /\ refresh[t].at = "ok" /\ refresh[t].live
  /\ storage' = [storage EXCEPT ![browser[t]].access = token]
  /\ tab' = [tab EXCEPT ![t].refreshing = FALSE]
  /\ Repeat(t, token)
  /\ refresh' = [refresh EXCEPT ![t] = NoRefresh]
  /\ UNCHANGED <<server, age, browser, acts>>

\* Refused, or no answer: everything parked is rejected.
RefreshFailed(t) ==
  /\ refresh[t].at # "idle" /\ refresh[t].live
  /\ Keep(t, Empty)
  /\ tab' = [tab EXCEPT ![t] = [page |-> "leaving", refreshing |-> FALSE]]
  /\ call' = [c \in Calls |-> IF c \in Waiting(t) THEN NoCall ELSE call[c]]
  /\ refresh' = IF refresh[t].at = "working" THEN [refresh EXCEPT ![t].live = FALSE]
                                             ELSE [refresh EXCEPT ![t] = NoRefresh]
  /\ UNCHANGED <<server, age, browser, acts>>

\* /login is loaded; what is at the server has lost its caller.
Unload(t) ==
  /\ tab[t].page = "leaving"
  /\ tab' = [tab EXCEPT ![t] = [page |-> "login", refreshing |-> FALSE]]
  /\ call' = [c \in Calls |->
       IF TabOf[c] # t THEN call[c]
       ELSE IF call[c].at = "working" THEN [call[c] EXCEPT !.live = FALSE] ELSE NoCall]
  /\ refresh' = [refresh EXCEPT ![t] =
       IF @.at = "working" THEN [@ EXCEPT !.live = FALSE] ELSE NoRefresh]
  /\ UNCHANGED <<server, age, browser, storage, acts>>

\* A page of the application is opened with the tokens another tab has stored.
Enter(t) ==
  /\ tab[t].page = "login"
  /\ Stored(t).access # None
  /\ tab' = [tab EXCEPT ![t].page = "app"]
  /\ UNCHANGED <<server, age, browser, storage, call, refresh, acts>>

-----------------------------------------------------------------------------
CallStep(c) ==
  Receive(c) \/ Serve(c) \/ Resolve(c) \/ RejectRetried(c) \/ Park(c) \/ StartRefresh(c)

TabStep(t) == ReceiveRefresh(t) \/ ServeRefresh(t) \/ Refreshed(t) \/ Unload(t)
Refused(t) == refresh[t].at = "unauthorized" /\ RefreshFailed(t)

Next ==
  \/ \E c \in Calls : CallStep(c) \/ GiveUp(c) \/ \E kind \in Kinds : Call(c, kind)
  \/ \E t \in Tabs : TabStep(t) \/ RefreshFailed(t) \/ Enter(t)
  \/ \E s \in Sessions : Expire(s)
  \/ EndSessions

Spec == Init /\ [][Next]_vars

\* The server answers, answers arrive, and a page that is left is unloaded.
Fairness ==
  /\ \A c \in Calls : WF_vars(CallStep(c))
  /\ \A t \in Tabs : WF_vars(TabStep(t)) /\ WF_vars(Refused(t))
FairSpec == Spec /\ Fairness

-----------------------------------------------------------------------------
\* Types; and an account that can be refreshed has a session.
TypeOK ==
  /\ account \in [status : {"active", "inactive"}, session : OrNone(1 .. issued), refresh : BOOLEAN]
  /\ account.refresh => account.session # None
  /\ issued \in {0} \cup Sessions
  /\ age \in [Sessions -> Ages]
  /\ browser \in [Tabs -> Browsers]
  /\ storage \in [Browsers -> [access : OrNone(1 .. issued), refresh : OrNone(1 .. issued)]]
  /\ tab \in [Tabs -> [page : {"app", "login", "leaving"}, refreshing : BOOLEAN]]
  /\ call \in [Calls -> [at : CallSteps, kind : Kinds, token : OrNone(1 .. issued),
                         retried : BOOLEAN, live : BOOLEAN]]
  /\ refresh \in [Tabs -> [at : RefreshSteps, token : OrNone(1 .. issued), live : BOOLEAN,
                           late : BOOLEAN]]
  /\ home \in [Sessions -> OrNone(Browsers)]
  /\ acts \in 0 .. MaxActs

\* Once a logout, a new password or a deactivation has ended the sessions, only
\* a login starts one: a refresh does not, unless it had read the row before.
EndedStaysEnded ==
  [][~account.refresh /\ account'.refresh =>
       \/ \E c \in Calls : call[c].kind = "login" /\ call[c].at = "working"
       \/ \E t \in Tabs : refresh[t].late]_vars

\* Every request is settled, also those that were parked while the token was
\* refreshed: answered, rejected, or gone with its page.
RequestsSettle == \A c \in Calls : call[c].at # "idle" ~> call[c].at = "idle"

\* "Logging in on another device ends the session of the device before": a
\* browser whose session has been replaced gets no other without a login.
ReplacedIsOver ==
  [][\A t \in Tabs :
       issued' # issued /\ refresh[t].at = "working" /\ refresh'[t].at # "working"
         => account.session = None \/ home[account.session] = browser[t]]_vars
=============================================================================
