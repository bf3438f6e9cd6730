--------------------------- MODULE ConsoleSession ---------------------------
(***************************************************************************)
(* The tokens of the admin console: browser tabs that share one            *)
(* localStorage, the commands their pages send through adminFetch, the     *)
(* single-flight refresh of service/api/admin.ts, and the login, reload    *)
(* and logout of the auth store.                                           *)
(*                                                                         *)
(* An action is one task of a page's event loop (microtasks included, so   *)
(* the waiters of a refresh resume in the step that settles it) or one     *)
(* step of the backend.  A page can be unloaded at any time: what it sent  *)
(* may still be served, and the answer is lost.                            *)
(***************************************************************************)
EXTENDS Naturals, FiniteSets

CONSTANTS
  Tabs,      \* browser tabs on the console's origin
  Calls,     \* commands the users send, each sent once
  MaxLogins, \* bound on the password logins
  None

ASSUME SessionConstants ==
  /\ IsFiniteSet(Calls)
  /\ MaxLogins \in Nat
  /\ None \notin Nat \cup Tabs

\* A pair is the number of the access and refresh tokens issued together.
\* Every exchange serves at least one call, which bounds the pairs.
Pairs == 1..(MaxLogins + Cardinality(Calls))

VARIABLES
  stored,    \* the pair whose tokens localStorage keeps, or None
  access,    \* pairs whose access token the backend accepts
  refresh,   \* what the backend knows of each refresh token
  page,      \* per tab: where the page is, its user, its refreshInflight
  call,      \* per command: how far adminFetch is, and with which token
  executed,  \* how often the backend executed each command
  detached,  \* exchanges that no page waits for any more: token and stage
  lost,      \* refresh tokens whose answer no page will read (history)
  sentBy,    \* (tab, refresh token) pairs sent since the tab's page loaded
  logins     \* password logins accepted, up to MaxLogins

vars == <<stored, access, refresh, page, call, executed, detached, lost, sentBy, logins>>

\* An exchange is sent, its token found, the token consumed, the new pair saved.
Unanswered == {"sent", "found", "consumed"}
Exchange == Unanswered \cup {"none", "answered", "stale"}
Page ==
  [at : {"app", "login", "leaving"},
   auth : {"none", "userinfo", "loaded"},
   asked : Pairs \cup {None}, inflight : Exchange,
   token : Pairs \cup {None}, answer : Pairs \cup {None}]
Call ==
  [step : {"new", "sent", "denied", "waiting", "resent", "deniedAgain", "done", "gone"},
   tab : Tabs \cup {None}, token : Pairs \cup {None}]

Exchanging(t) == page[t].inflight \in Unanswered \cup {"answered"}

\* The calls that await refreshInflight: all of them resume when it settles.
OnlyTheStarter(t) == {CHOOSE c \in Calls : call[c].tab = t /\ call[c].step = "waiting"}
Waiters(t) == {c \in Calls : call[c].tab = t /\ call[c].step = "waiting"}

SessTypeOK ==
  /\ stored \in Pairs \cup {None}
  /\ access \subseteq Pairs
  /\ refresh \in [Pairs -> {"unissued", "usable", "consumed", "expired"}]
  /\ page \in [Tabs -> Page]
  /\ call \in [Calls -> Call]
  /\ \A c \in Calls : call[c].step = "waiting" => Exchanging(call[c].tab)
  /\ executed \in [Calls -> 0..2]
  /\ detached \subseteq Pairs \X Unanswered
  /\ lost \subseteq Pairs
  /\ sentBy \subseteq Tabs \X Pairs
  /\ logins \in 0..MaxLogins

Done == [step |-> "done", tab |-> None, token |-> None]
LoginPage == [at |-> "login", auth |-> "none", asked |-> None,
              inflight |-> "none", token |-> None, answer |-> None]

SessInit ==
  /\ stored = None
  /\ access = {}
  /\ refresh = [p \in Pairs |-> "unissued"]
  /\ page = [t \in Tabs |-> LoginPage]
  /\ call = [c \in Calls |-> [step |-> "new", tab |-> None, token |-> None]]
  /\ executed = [c \in Calls |-> 0]
  /\ detached = {}
  /\ lost = {}
  /\ sentBy = {}
  /\ logins = 0

---------------------------------------------------------------------------
(* The backend: tokens are issued in pairs, access tokens expire.  An      *)
(* exchange is three statements, each a transaction of its own: SELECT the *)
(* token, UPDATE its row, INSERT the new pair.                             *)

\* A pair is saved, in the order of the pairs.
Issue(p) ==
  /\ refresh[p] = "unissued"
  /\ \A q \in Pairs : q < p => refresh[q] # "unissued"
  /\ refresh' = [refresh EXCEPT ![p] = "usable"]
  /\ access' = access \cup {p}

ExpireAccess(p) ==
  /\ p \in access
  /\ access' = access \ {p}
  /\ UNCHANGED <<stored, refresh, page, call, executed, detached, lost, sentBy, logins>>

ExpireRefresh(p) ==
  /\ refresh[p] = "usable"
  /\ refresh' = [refresh EXCEPT ![p] = "expired"]
  /\ UNCHANGED <<stored, access, page, call, executed, detached, lost, sentBy, logins>>

Answered(pg, p) == [pg EXCEPT !.inflight = "answered", !.answer = p]

\* The token row is read; an unusable one is refused.
FindRefreshToken(t) ==
  /\ page[t].inflight = "sent"
  /\ page' = [page EXCEPT ![t] =
       IF refresh[@.token] = "usable" THEN [@ EXCEPT !.inflight = "found"]
       ELSE Answered(@, None)]
  /\ UNCHANGED <<stored, access, refresh, call, executed, detached, lost, sentBy, logins>>

\* It is consumed, whoever else consumed it meanwhile.
ConsumeRefreshToken(t) ==
  /\ page[t].inflight = "found"
  /\ refresh' = [refresh EXCEPT ![page[t].token] = "consumed"]
  /\ page' = [page EXCEPT ![t].inflight = "consumed"]
  /\ UNCHANGED <<stored, access, call, executed, detached, lost, sentBy, logins>>

\* A new pair is saved, and the answer carries it.
SaveAuthorization(t) ==
  /\ page[t].inflight = "consumed"
  /\ \E p \in Pairs :
       /\ Issue(p)
       /\ page' = [page EXCEPT ![t] = Answered(@, p)]
  /\ UNCHANGED <<stored, call, executed, detached, lost, sentBy, logins>>

\* An exchange that a page has given up goes on, or ends where the backend
\* failed.  Its pair reaches nobody.
Detached(q, from, to) ==
  /\ <<q, from>> \in detached
  /\ detached' = (detached \ {<<q, from>>}) \cup {<<q, stage>> : stage \in to}
  /\ UNCHANGED <<stored, page, call, executed, lost, sentBy, logins>>

FindDetached(q) ==
  /\ Detached(q, "sent", IF refresh[q] = "usable" THEN {"found"} ELSE {})
  /\ UNCHANGED <<access, refresh>>

ConsumeDetached(q) ==
  /\ Detached(q, "found", {"consumed"})
  /\ refresh' = [refresh EXCEPT ![q] = "consumed"]
  /\ UNCHANGED access

SaveDetached(q) == Detached(q, "consumed", {}) /\ \E p \in Pairs : Issue(p)

---------------------------------------------------------------------------
(* adminFetch                                                              *)

\* The token a request carries is read from localStorage when it is sent.
Send(t, c) ==
  /\ page[t].at = "app" /\ page[t].auth = "loaded"
  /\ call[c].step = "new"
  /\ call' = [call EXCEPT ![c] = [step |-> "sent", tab |-> t, token |-> stored]]
  /\ UNCHANGED <<stored, access, refresh, page, executed, detached, lost, sentBy, logins>>

\* The backend executes a command that carries a live access token, also for
\* a page that is gone, and refuses the others with HTTP 401.
Serve(c) ==
  /\ call[c].step \in {"sent", "resent", "gone"}
  /\ IF call[c].token \in access
     THEN /\ executed' = [executed EXCEPT ![c] = @ + 1]
          /\ call' = [call EXCEPT ![c] = Done]
     ELSE /\ call' = [call EXCEPT ![c] =
                        CASE @.step = "sent" -> [@ EXCEPT !.step = "denied", !.token = None]
                          [] @.step = "resent" -> [@ EXCEPT !.step = "deniedAgain", !.token = None]
                          [] OTHER -> Done]
          /\ UNCHANGED executed
  /\ UNCHANGED <<stored, access, refresh, page, detached, lost, sentBy, logins>>

\* What the page does when fetch rejects: the error goes to the view.
RetriedAfterNetworkError(record) ==
  IF record.step = "sent" THEN [record EXCEPT !.step = "resent"] ELSE Done
AfterNetworkError(record) == Done

\* The connection fails before or after the backend executed the command.
FetchFails(c) ==
  /\ call[c].step \in {"sent", "resent"}
  /\ \E reached \in {FALSE, (call[c].token \in access)} :
       executed' = [executed EXCEPT ![c] = IF reached THEN @ + 1 ELSE @]
  /\ call' = [call EXCEPT ![c] = AfterNetworkError(@)]
  /\ UNCHANGED <<stored, access, refresh, page, detached, lost, sentBy, logins>>

\* handleAuthExpired: the stored tokens go; a page elsewhere than at /login
\* starts to leave, a page at /login stays as it is.
AuthExpired(pg) == [pg EXCEPT !.at = IF @ = "login" THEN "login" ELSE "leaving"]

\* refreshTokenOnce joins the promise that is there, settled or not.
JoinsNothing(pg) == FALSE
JoinsInflight(pg) == pg.inflight # "none"

\* A first 401: wait for the exchange in flight, or start one; without a
\* refresh token the promise of `false` is kept, for finally is not reached.
HandleDenied(c) ==
  LET t == call[c].tab IN
  /\ call[c].step = "denied"
  /\ IF JoinsInflight(page[t])
     THEN IF page[t].inflight = "stale"
          THEN /\ stored' = None
               /\ page' = [page EXCEPT ![t] = AuthExpired(@)]
               /\ call' = [call EXCEPT ![c] = Done]
               /\ UNCHANGED sentBy
          ELSE /\ call' = [call EXCEPT ![c].step = "waiting"]
               /\ UNCHANGED <<stored, page, sentBy>>
     ELSE IF stored = None
          THEN /\ page' = [page EXCEPT ![t] = AuthExpired([@ EXCEPT !.inflight = "stale"])]
               /\ call' = [call EXCEPT ![c] = Done]
               /\ UNCHANGED <<stored, sentBy>>
          ELSE /\ page' = [page EXCEPT ![t].inflight = "sent", ![t].token = stored]
               /\ call' = [call EXCEPT ![c].step = "waiting"]
               /\ sentBy' = sentBy \cup {<<t, stored>>}
               /\ UNCHANGED stored
  /\ UNCHANGED <<access, refresh, executed, detached, lost, logins>>

\* What refreshTokenOnce writes after a successful exchange.
KeepsOldRefreshToken(old, answer) == IF old = None THEN answer ELSE old
KeptPair(old, answer) == answer

\* The exchange settles and every waiter resumes: with the new token, or by
\* expiring the session.
RefreshSettles(t) ==
  LET pair == page[t].answer
      idle == [page[t] EXCEPT !.inflight = "none", !.token = None, !.answer = None] IN
  /\ page[t].inflight = "answered"
  /\ IF pair # None
     THEN /\ stored' = KeptPair(stored, pair)
          /\ page' = [page EXCEPT ![t] = idle]
     ELSE /\ stored' = None
          /\ page' = [page EXCEPT ![t] = AuthExpired(idle)]
  /\ call' = [c \in Calls |->
       IF c \notin Waiters(t) THEN call[c]
       ELSE IF pair # None THEN [call[c] EXCEPT !.step = "resent", !.token = stored']
       ELSE Done]
  /\ UNCHANGED <<access, refresh, executed, detached, lost, sentBy, logins>>

\* What the backend still has in hand of a page's exchange.
GivenUp(pg) == IF pg.inflight \in Unanswered THEN {<<pg.token, pg.inflight>>} ELSE {}

\* The exchange's connection fails, or the backend between two statements: the
\* response is not ok, or the catch block answers false.
RefreshFails(t) ==
  /\ Exchanging(t)
  /\ page' = [page EXCEPT ![t] = Answered(@, None)]
  /\ detached' = detached \cup GivenUp(page[t])
  /\ lost' = lost \cup {page[t].token}
  /\ UNCHANGED <<stored, access, refresh, call, executed, sentBy, logins>>

\* A second 401 ends the session without another exchange.
HandleDeniedAgain(c) ==
  /\ call[c].step = "deniedAgain"
  /\ stored' = None
  /\ page' = [page EXCEPT ![call[c].tab] = AuthExpired(@)]
  /\ call' = [call EXCEPT ![c] = Done]
  /\ UNCHANGED <<access, refresh, executed, detached, lost, sentBy, logins>>

---------------------------------------------------------------------------
(* The auth store                                                          *)

\* loginByToken stores the new pair and asks for the user.
LoginAccepted(t) ==
  /\ page[t].at = "login" /\ page[t].auth = "none"
  /\ logins < MaxLogins
  /\ logins' = logins + 1
  /\ \E p \in Pairs :
       /\ Issue(p)
       /\ stored' = p
       /\ page' = [page EXCEPT ![t].auth = "userinfo", ![t].asked = p]
  /\ UNCHANGED <<call, executed, detached, lost, sentBy>>

\* A refused login resets the store, and with it the tokens of every tab.
LoginRefused(t) ==
  /\ page[t].at = "login" /\ page[t].auth = "none"
  /\ stored' = None
  /\ UNCHANGED <<access, refresh, page, call, executed, detached, lost, sentBy, logins>>

\* /auth/getUserInfo with the access token that was stored when it was sent.
\* After a login, a failure leaves the page at /login with the tokens stored;
\* during a page load (initUserInfo, at "app") it resets the store.  The guard
\* then looks for a stored token again.
UserInfoAnswered(t) ==
  /\ page[t].auth = "userinfo"
  /\ \E ok \in {FALSE, (page[t].asked \in access)} :
       /\ page' = [page EXCEPT ![t] =
            IF ok /\ stored # None
            THEN [@ EXCEPT !.at = "app", !.auth = "loaded", !.asked = None]
            ELSE [@ EXCEPT !.at = "login", !.auth = "none", !.asked = None]]
       /\ stored' = IF ~ok /\ page[t].at = "app" THEN None ELSE stored
  /\ UNCHANGED <<access, refresh, call, executed, detached, lost, sentBy, logins>>

\* The user logs out: resetStore navigates to /login inside the page, so the
\* module's refreshInflight and the calls in flight live on.
Logout(t) ==
  /\ page[t].at = "app" /\ page[t].auth = "loaded"
  /\ stored' = None
  /\ page' = [page EXCEPT ![t].at = "login", ![t].auth = "none"]
  /\ UNCHANGED <<access, refresh, call, executed, detached, lost, sentBy, logins>>

\* The page is unloaded, by location.assign or by the user, and loads again:
\* the guard sends it to /login without a stored token, else asks for the user.
Reload(t) ==
  /\ page' = [page EXCEPT ![t] =
       IF stored = None THEN LoginPage
       ELSE [LoginPage EXCEPT !.at = "app", !.auth = "userinfo", !.asked = stored]]
  /\ call' = [c \in Calls |->
       IF call[c].tab # t THEN call[c]
       ELSE IF call[c].step \in {"sent", "resent"}
            THEN [call[c] EXCEPT !.step = "gone", !.tab = None]
            ELSE Done]
  /\ detached' = detached \cup GivenUp(page[t])
  /\ lost' = lost \cup (IF Exchanging(t) THEN {page[t].token} ELSE {})
  /\ sentBy' = sentBy \ ({t} \X Pairs)
  /\ UNCHANGED <<stored, access, refresh, executed, logins>>

SessNext ==
  \/ \E p \in Pairs : ExpireAccess(p) \/ ExpireRefresh(p)
  \/ \E q \in Pairs : FindDetached(q) \/ ConsumeDetached(q) \/ SaveDetached(q)
  \/ \E c \in Calls : Serve(c) \/ FetchFails(c) \/ HandleDenied(c) \/ HandleDeniedAgain(c)
  \/ \E t \in Tabs, c \in Calls : Send(t, c)
  \/ \E t \in Tabs :
       \/ FindRefreshToken(t) \/ ConsumeRefreshToken(t) \/ SaveAuthorization(t)
       \/ RefreshSettles(t) \/ RefreshFails(t)
       \/ LoginAccepted(t) \/ LoginRefused(t)
       \/ UserInfoAnswered(t) \/ Logout(t) \/ Reload(t)

\* The backend answers every request, and a page handles every answer.
SessFairness ==
  /\ \A c \in Calls : WF_vars(Serve(c) \/ HandleDenied(c) \/ HandleDeniedAgain(c))
  /\ \A t \in Tabs :
       /\ WF_vars(FindRefreshToken(t) \/ ConsumeRefreshToken(t) \/ SaveAuthorization(t))
       /\ WF_vars(RefreshSettles(t))

SessSpec == SessInit /\ [][SessNext]_vars /\ SessFairness

---------------------------------------------------------------------------
(* Properties                                                              *)

\* The refresh token a tab finds in localStorage works: it is unused, or its
\* lifetime is over, or a tab is exchanging it now, or the answer to its
\* exchange was lost with a page or a connection.
StoredTokenIsExchangeable ==
  stored # None =>
    \/ refresh[stored] \in {"usable", "expired"}
    \/ stored \in lost
    \/ \E t \in Tabs : Exchanging(t) /\ page[t].token = stored

\* However many calls of a page are refused, and in whatever order, the page
\* sends one refresh token once: a second exchange would end the session.
OneExchangePerToken ==
  [][\A c \in Calls :
       (call[c].step = "denied" /\ page'[call[c].tab].inflight = "sent"
          /\ page[call[c].tab].inflight # "sent")
       => <<call[c].tab, stored>> \notin sentBy]_vars

\* A command refused with 401 and repeated after the exchange is executed
\* once, whichever of its requests are lost or outlive their page.
ExecutedAtMostOnce == \A c \in Calls : executed[c] <= 1

\* A call never stays open: it ends, whatever became of the exchange it
\* waits for.
CallsSettle == \A c \in Calls : call[c].step # "new" ~> call[c].step = "done"

\* The release notes' claim: while a refresh token is stored, a call refused
\* for the first time leads to an exchange and not to a logout.
RefusedCallsRefresh ==
  [][\A c \in Calls :
       (call[c].step = "denied" /\ call'[c].step = "done" /\ stored # None)
       => stored' # None]_vars
=============================================================================
