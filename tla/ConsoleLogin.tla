---------------------------- MODULE ConsoleLogin ----------------------------
(***************************************************************************)
(* The login page: its form, the two requests of a login, what the request *)
(* layer does with their answers, and the error messages it shows.         *)
(*                                                                         *)
(* The button is blocked while a login runs, the Enter key is not: two     *)
(* logins may overlap, also while one of them waits for the page it was    *)
(* sent to.  "home" stands for every page behind the login.                *)
(*                                                                         *)
(* The backend sends none of the codes that .env lists for expired tokens  *)
(* and forced logouts, so their branches of the request layer are left     *)
(* out.  The guard's own requests are ConsoleNavigation's.                 *)
(***************************************************************************)
EXTENDS Naturals

CONSTANTS
  Attempts,  \* logins that are submitted, each once
  MaxTimers, \* bound on the timers of showErrorMsg that run together
  Nobody

ASSUME LoginConstants == MaxTimers \in Nat \ {0} /\ Nobody \notin Attempts

VARIABLES
  stage,       \* of each attempt
  accepted,    \* the attempts whose credentials the backend accepts
  loginLoading,
  storedToken, \* localStorage's token, named for the attempt that got it
  token,       \* the auth store's token
  userInfo,    \* whose user info the auth store has
  shownPage,
  nav,         \* where the navigation under way leads, and the login that awaits it
  errMsgStack,
  displayed,   \* how often each message is on the screen
  errTimers,   \* timers that will empty errMsgStack
  crossed   \* history: a login began while another ran or somebody was logged in,
            \* and the store has not been reset since with no login running

loginVars == <<stage, accepted, loginLoading, storedToken, token, userInfo, shownPage,
               nav, errMsgStack, displayed, errTimers, crossed>>
storeVars == <<storedToken, token, userInfo>>
authVars == <<storeVars, shownPage, nav>>
messageVars == <<errMsgStack, displayed, errTimers>>

Stages == {"unused", "login", "userInfo", "redirect", "over"}
Running == {"login", "userInfo", "redirect"}
InFlight == {a \in Attempts : stage[a] \in Running}
Navs == [to : {"login", "home"}, by : Attempts \cup {Nobody}]
NoNav == [to |-> "none", by |-> Nobody]
\* The texts of the backend's refusal and of axios for everything else.
Messages == {"invalid_credentials", "request failed"}

LoginTypeOK ==
  /\ stage \in [Attempts -> Stages]
  /\ accepted \subseteq Attempts
  /\ loginLoading \in BOOLEAN /\ crossed \in BOOLEAN
  /\ {storedToken, token, userInfo} \subseteq Attempts \cup {Nobody}
  /\ shownPage \in {"login", "home"}
  /\ nav \in Navs \cup {NoNav}
  /\ errMsgStack \subseteq Messages
  /\ displayed \in [Messages -> Nat]
  /\ errTimers \in 0..MaxTimers

LoginInit ==
  /\ stage = [a \in Attempts |-> "unused"]
  /\ accepted \in SUBSET Attempts
  /\ loginLoading = FALSE
  /\ storedToken = Nobody /\ token = Nobody /\ userInfo = Nobody
  /\ shownPage = "login" /\ nav = NoNav
  /\ errMsgStack = {} /\ displayed = [m \in Messages |-> 0] /\ errTimers = 0
  /\ crossed = FALSE

---------------------------------------------------------------------------
(* Error messages                                                          *)

\* showErrorMsg: a message that is in the stack is not shown again.
ShowErrorMsg(m) ==
  /\ errMsgStack' = errMsgStack \cup {m}
  /\ displayed' = IF m \in errMsgStack THEN displayed
                  ELSE [displayed EXCEPT ![m] = @ + 1]
  /\ UNCHANGED errTimers

\* onLeave: the message is gone, and in five seconds the whole stack is.
KeepsStacked(m) == errMsgStack
Unstacked(m) == errMsgStack \ {m}
MessageLeaves(m) ==
  /\ displayed[m] > 0 /\ errTimers < MaxTimers
  /\ displayed' = [displayed EXCEPT ![m] = @ - 1]
  /\ errMsgStack' = Unstacked(m)
  /\ errTimers' = errTimers + 1
  /\ UNCHANGED <<stage, accepted, loginLoading, authVars, crossed>>

EmptyStack ==
  /\ errTimers > 0
  /\ errTimers' = errTimers - 1
  /\ errMsgStack' = {}
  /\ UNCHANGED <<stage, accepted, loginLoading, authVars, displayed, crossed>>

---------------------------------------------------------------------------
(* Navigations                                                             *)

\* Wherever a push leads, the guard sends who has no stored token to the login
\* page and everybody else away from it.  The push cancels the one under way;
\* to the page that is shown it ends at once.
Landing(stored) == IF stored # Nobody THEN "home" ELSE "login"
RouterPush(by) ==
  nav' = IF Landing(storedToken') = shownPage THEN NoNav
         ELSE [to |-> Landing(storedToken'), by |-> by]

\* The login that awaits the navigation goes on: its endLoading runs.
EndsFor(by) ==
  IF by = Nobody THEN UNCHANGED <<stage, loginLoading>>
  ELSE stage' = [stage EXCEPT ![by] = "over"] /\ loginLoading' = FALSE

RedirectEnds ==
  /\ nav # NoNav
  /\ shownPage' = nav.to /\ nav' = NoNav
  /\ EndsFor(nav.by)
  /\ UNCHANGED <<accepted, storeVars, messageVars, crossed>>

\* The chunk of the page does not load: the push rejects, and what awaits it
\* does not go on, endLoading included.
RedirectFails ==
  /\ nav # NoNav /\ nav' = NoNav
  /\ IF nav.by = Nobody THEN UNCHANGED stage
     ELSE stage' = [stage EXCEPT ![nav.by] = "over"]
  /\ UNCHANGED <<accepted, loginLoading, storeVars, shownPage, messageVars, crossed>>

\* A cancelled push ends when its own chunk has arrived, or has not.
GivenUp(a) ==
  /\ stage[a] = "redirect" /\ nav.by # a
  /\ stage' = [stage EXCEPT ![a] = "over"]
  /\ loginLoading' \in {FALSE, loginLoading}
  /\ UNCHANGED <<accepted, authVars, messageVars, crossed>>

---------------------------------------------------------------------------
(* A login                                                                 *)

\* handleSubmit: the button does nothing while loading, Enter always submits.
Submit(a, enter) ==
  /\ shownPage = "login" /\ stage[a] = "unused"
  /\ ~enter => ~loginLoading
  /\ stage' = [stage EXCEPT ![a] = "login"]
  /\ loginLoading' = TRUE
  /\ crossed' = (crossed \/ InFlight # {} \/ token # Nobody)
  /\ UNCHANGED <<accepted, authVars, messageVars>>

Over(a) ==
  /\ stage' = [stage EXCEPT ![a] = "over"]
  /\ loginLoading' = FALSE

\* resetStore empties the storage and the store, and only then leaves the page
\* it is on.  The login page is a constant route: it stays.
ClearAuthStorage == Nobody
ResetStore ==
  /\ storedToken' = ClearAuthStorage /\ token' = Nobody /\ userInfo' = Nobody
  /\ IF shownPage = "login" THEN UNCHANGED nav ELSE RouterPush(Nobody)
  /\ UNCHANGED shownPage
  /\ crossed' = (crossed /\ \E a \in Attempts : stage'[a] \in Running)

\* The request layer resolves with an error, never rejects; the refusal has the
\* backend's text, and what did not arrive, or in time, axios's.
FlatError(a) == IF a \in accepted THEN "request failed" ELSE "invalid_credentials"

TokenAtOnce(a) == token' = a
TokenLater(a) == UNCHANGED token
LoginAccepted(a) ==
  /\ stage[a] = "login" /\ a \in accepted
  /\ stage' = [stage EXCEPT ![a] = "userInfo"]
  /\ storedToken' = a /\ TokenLater(a)
  /\ UNCHANGED <<accepted, loginLoading, userInfo, shownPage, nav, messageVars, crossed>>

\* Nothing awaits the reset.
LoginRefused(a) ==
  /\ stage[a] = "login"
  /\ Over(a) /\ ResetStore
  /\ \E m \in {FlatError(a), "request failed"} : ShowErrorMsg(m)
  /\ UNCHANGED accepted

\* The store takes the user and the token at once; the login page stays, and
\* loads, until redirectFromLogin has ended.
UserInfoAnswered(a) ==
  /\ stage[a] = "userInfo"
  /\ userInfo' = a /\ token' = a
  /\ UNCHANGED storedToken /\ RouterPush(a)
  /\ IF nav' = NoNav THEN Over(a)
     ELSE stage' = [stage EXCEPT ![a] = "redirect"] /\ UNCHANGED loginLoading
  /\ UNCHANGED <<accepted, shownPage, messageVars, crossed>>

UserInfoRefused(a) ==
  /\ stage[a] = "userInfo"
  /\ Over(a)
  /\ ShowErrorMsg("request failed")
  /\ UNCHANGED <<accepted, authVars, crossed>>

\* The user's menu, which only a page behind the login has; logged out there
\* (the login page's chunk may have failed) it offers the login page again.
Logout ==
  /\ shownPage = "home" /\ token # Nobody
  /\ UNCHANGED stage /\ ResetStore
  /\ UNCHANGED <<accepted, loginLoading, messageVars>>

LoginOrRegister ==
  /\ shownPage = "home" /\ token = Nobody /\ storedToken = Nobody
  /\ UNCHANGED storedToken /\ RouterPush(Nobody)
  /\ UNCHANGED <<stage, accepted, loginLoading, token, userInfo, shownPage, messageVars, crossed>>

LoginNext ==
  \/ \E a \in Attempts :
       \/ \E enter \in BOOLEAN : Submit(a, enter)
       \/ LoginAccepted(a) \/ LoginRefused(a) \/ UserInfoAnswered(a) \/ UserInfoRefused(a)
       \/ GivenUp(a)
  \/ \E m \in Messages : MessageLeaves(m)
  \/ EmptyStack \/ Logout \/ LoginOrRegister \/ RedirectEnds \/ RedirectFails

LoginSpec == LoginInit /\ [][LoginNext]_loginVars

---------------------------------------------------------------------------
(* Properties                                                              *)

\* The store never has one login's token with another's user, crossed logins
\* included.  Where none crossed since the last reset, who is past the login
\* page, or on the way there, is the user of the stored token, and a form that
\* does not load has no login running.
LoginIsWhole ==
  /\ userInfo = token
  /\ ~crossed =>
       /\ token # Nobody \/ shownPage = "home" => token = storedToken
       /\ nav.to = "home" => token # Nobody
       /\ ~loginLoading => InFlight = {}

\* An error is passed over in silence only while its text is on the screen.
ErrorsAreSeen == \A m \in errMsgStack : displayed[m] > 0
=============================================================================
