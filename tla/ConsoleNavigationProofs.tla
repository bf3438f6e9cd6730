---------------------- MODULE ConsoleNavigationProofs ----------------------
(***************************************************************************)
(* Theorems about ConsoleNavigation, for any number of users, pages and    *)
(* events.                                                                 *)
(***************************************************************************)
EXTENDS ConsoleNavigation, FiniteSetTheorems, SequenceTheorems, TLAPS

\* A navigation has its fields; where it goes and what is to follow it may be
\* anything.
NavShape ==
  nav \in [stage : {"idle", "boot", "guard", "setup", "userinfo", "load"},
           to : {nav.to}, known : BOOLEAN, asked : {nav.asked}, back : {nav.back},
           then : {nav.then}]

\* A page that is being loaded has passed the role check for the user who is
\* logged in now: nobody else logs in, or out, while it loads.
LoadIsAllowed == nav.stage = "load" /\ nav.to \in Pages => Allowed(user, nav.to)

NavInv == NavShape /\ LoadIsAllowed

\* No navigation is under way: nothing is being loaded.
LEMMA IdleStep ==
  ASSUME nav' = Idle
  PROVE  NavShape' /\ LoadIsAllowed'
  BY DEF NavShape, LoadIsAllowed, Idle

\* A navigation that begins, or begins again, has not passed the guard.
LEMMA BeginStep ==
  ASSUME NEW to, NEW known \in BOOLEAN, NEW from,
         NEW then, NEW stage \in {"boot", "guard"},
         nav' = [Idle EXCEPT !.stage = stage, !.to = to, !.known = known, !.back = from,
                             !.then = then]
  PROVE  NavShape' /\ LoadIsAllowed'
  BY DEF NavShape, LoadIsAllowed, Idle

\* The pages the guard redirects to are for everybody.
LEMMA Redirects == {"login", "403", "404", Home} \cap Pages = {}
  BY NavigationConstants

\* router.push keeps the shape of the navigation, whatever is to follow it.
LEMMA PushStep ==
  ASSUME NEW to, NEW then, Push(to, then)
  PROVE  NavShape' /\ LoadIsAllowed'
<1>1. CASE to = page
  BY <1>1, IdleStep DEF Push
<1>2. CASE to # page
  <2>1. nav' = [Idle EXCEPT !.stage = "guard", !.to = to, !.known = Known(to), !.back = None,
                            !.then = then]
    BY <1>2 DEF Push, Idle
  <2>2. Known(to) \in BOOLEAN
    BY DEF Known
  <2> QED BY <2>1, <2>2, BeginStep
<1> QED BY <1>1, <1>2

\* A redirection goes through the guard again.
LEMMA RedirectStep ==
  ASSUME NavShape, NEW to, NEW known \in BOOLEAN,
         nav' = [Redirected(to) EXCEPT !.known = known]
  PROVE  NavShape' /\ LoadIsAllowed'
  BY DEF Redirected, NavShape, LoadIsAllowed

\* The redirect to the login page remembers where the user wanted to go.
LEMMA ToLoginStep ==
  ASSUME NavShape, nav' = ToLogin
  PROVE  NavShape' /\ LoadIsAllowed'
  BY DEF ToLogin, Redirected, NavShape, LoadIsAllowed

\* Once the auth routes are there the guard starts over.
LEMMA InitAuthStep ==
  ASSUME NavShape, NEW u, InitAuth(u)
  PROVE  NavShape' /\ LoadIsAllowed'
<1> DEFINE known == nav.known \/ Known(nav.to) \/ nav.to \in RoutesOf(u)
<1>1. nav' = [nav EXCEPT !.stage = "guard", !.asked = None, !.known = known]
  BY DEF InitAuth
<1>2. known \in BOOLEAN
  OBVIOUS
<1> HIDE DEF known
<1> QED BY <1>1, <1>2 DEF NavShape, LoadIsAllowed

\* The guard loads a page only after HasAuth, or one of those for everybody.
LEMMA GuardStep ==
  ASSUME NavShape, Guard, UNCHANGED user
  PROVE  NavShape' /\ LoadIsAllowed'
<1>1. CASE GuardConstantRoutes
  <2>1. nav' = [nav EXCEPT !.stage = "guard", !.known = Known(nav.to)] /\ Known(nav.to) \in BOOLEAN
    BY <1>1 DEF GuardConstantRoutes, Known
  <2> QED BY <2>1 DEF NavShape, LoadIsAllowed
<1>2. CASE GuardAnonymous
  <2>1. CASE nav.to \in Constant /\ nav' = [nav EXCEPT !.stage = "load"]
    <3>1. nav.to \notin Pages
      BY <2>1, Redirects DEF Constant
    <3> QED BY <2>1, <3>1 DEF NavShape, LoadIsAllowed
  <2>2. CASE nav' = [nav EXCEPT !.stage = "setup"]
    BY <2>2 DEF NavShape, LoadIsAllowed
  <2>3. CASE nav' = ToLogin
    BY <2>3, ToLoginStep
  <2> QED BY <1>2, <2>1, <2>2, <2>3 DEF GuardAnonymous
<1>3. CASE SetupNotNeeded
  BY <1>3, ToLoginStep DEF SetupNotNeeded
<1>4. CASE GuardAuthRoutes
  <2>1. CASE user = None
    <3>1. nav' = [nav EXCEPT !.stage = "userinfo", !.asked = stored.token]
      BY <1>4, <2>1 DEF GuardAuthRoutes
    <3> QED BY <3>1 DEF NavShape, LoadIsAllowed
  <2>2. CASE user # None
    BY <1>4, <2>2, InitAuthStep DEF GuardAuthRoutes
  <2> QED BY <2>1, <2>2
<1>5. CASE GuardChecks
  <2>1. nav.known \in BOOLEAN
    BY DEF NavShape
  <2>2. \/ nav' = Redirected("403")
        \/ nav' = [nav EXCEPT !.stage = "load", !.to = "404"]
        \/ nav' = [Redirected(Home) EXCEPT !.known = Known(Home)]
        \/ nav.to = "403" /\ nav' = [nav EXCEPT !.stage = "load"]
        \/ HasAuth(user, nav.to) /\ nav' = [nav EXCEPT !.stage = "load"]
    BY <1>5, <2>1 DEF GuardChecks
  <2>3. CASE nav' = Redirected("403")
    BY <2>3, Redirects DEF Redirected, NavShape, LoadIsAllowed
  <2>4. CASE nav' = [nav EXCEPT !.stage = "load", !.to = "404"]
    BY <2>4, Redirects DEF NavShape, LoadIsAllowed
  <2>5. CASE nav' = [Redirected(Home) EXCEPT !.known = Known(Home)]
    BY <2>5, Redirects, RedirectStep DEF Known
  <2>6. CASE nav.to = "403" /\ nav' = [nav EXCEPT !.stage = "load"]
    BY <2>6, Redirects DEF NavShape, LoadIsAllowed
  <2>7. CASE HasAuth(user, nav.to) /\ nav' = [nav EXCEPT !.stage = "load"]
    BY <2>7 DEF HasAuth, Allowed, NavShape, LoadIsAllowed
  <2> QED BY <2>2, <2>3, <2>4, <2>5, <2>6, <2>7
<1> QED BY <1>1, <1>2, <1>3, <1>4, <1>5 DEF Guard

\* What users and other tabs do begins a navigation, gives it up, or leaves it.
LEMMA UserStep ==
  ASSUME NavInv, Visit \/ SwitchTab \/ CloseTab \/ CloseOthers \/ PinTab
  PROVE  NavInv'
<1>1. ASSUME UNCHANGED <<nav, user>> PROVE NavInv'
  BY <1>1 DEF NavInv, NavShape, LoadIsAllowed, Allowed
<1>2. ASSUME NEW to, NEW then, Push(to, then) PROVE NavInv'
  BY <1>2, PushStep DEF NavInv
<1>3. ASSUME NEW list, ClearTabs(list), UNCHANGED user PROVE NavInv'
  BY <1>1, <1>2, <1>3 DEF ClearTabs
<1>4. CASE Visit
  BY <1>2, <1>4 DEF Visit
<1>5. CASE SwitchTab
  BY <1>2, <1>5 DEF SwitchTab
<1>6. CASE CloseTab
  <2>1. PICK id \in TL!IdsIn(tabs) :
          IF active = id
          THEN LET next == TL!NextAfter(tabs, id) IN Push(next, Close(next))
          ELSE UNCHANGED <<nav, late, overtaken>>
    BY <1>6 DEF CloseTab
  <2> QED BY <1>1, <1>2, <1>6, <2>1 DEF CloseTab
<1>7. CASE CloseOthers
  <2>1. \E list : ClearTabs(list)
    BY <1>7 DEF CloseOthers
  <2> QED BY <1>3, <1>7, <2>1 DEF CloseOthers
<1>8. CASE PinTab
  BY <1>1, <1>8 DEF PinTab
<1> QED BY <1>4, <1>5, <1>6, <1>7, <1>8

\* Every step of the console keeps a page that is being loaded allowed.
LEMMA NavInvNext == NavInv /\ [NavNext]_vars => NavInv'
<1> SUFFICES ASSUME NavInv, [NavNext]_vars PROVE NavInv'
  OBVIOUS
<1>1. ASSUME UNCHANGED <<nav, user>> PROVE NavInv'
  BY <1>1 DEF NavInv, NavShape, LoadIsAllowed, Allowed
<1>2. CASE Guard
  <2>1. UNCHANGED user
    BY <1>2 DEF Guard, GuardConstantRoutes, GuardAnonymous, SetupNotNeeded, GuardAuthRoutes,
      GuardChecks
  <2> QED BY <1>2, <2>1, GuardStep DEF NavInv
<1>3. CASE UserInfoLoaded
  BY <1>3, InitAuthStep DEF UserInfoLoaded, NavInv
<1>4. CASE UserInfoRefused
  BY <1>4, InitAuthStep DEF UserInfoRefused, NavInv
<1>5. CASE ShowPage
  BY <1>5, IdleStep DEF ShowPage, NavInv
<1>6. CASE GoOnLate
  BY <1>1, <1>6 DEF GoOnLate
<1>7. CASE Visit \/ SwitchTab \/ CloseTab \/ CloseOthers \/ PinTab
  BY <1>7, UserStep
<1>8. CASE Logout
  <2>1. nav' = [Idle EXCEPT !.stage = "guard", !.to = "login", !.known = TRUE,
                            !.back = page, !.then = Reset]
    BY <1>8 DEF Logout
  <2> QED BY <2>1, BeginStep DEF NavInv
<1>9. CASE Login
  <2>1. PICK to : nav' = [Idle EXCEPT !.stage = "guard", !.to = to, !.known = Known(to)]
    BY <1>9 DEF Login
  <2>2. Known(to) \in BOOLEAN
    BY DEF Known
  <2> QED BY <2>1, <2>2 DEF Idle, NavInv, NavShape, LoadIsAllowed
<1>10. CASE Reload
  <2>1. PICK to : nav' = [Idle EXCEPT !.stage = "boot", !.to = to]
    BY <1>10 DEF Reload, Boot
  <2> QED BY <2>1 DEF Idle, NavInv, NavShape, LoadIsAllowed
<1>11. CASE OtherTab
  BY <1>1, <1>11 DEF OtherTab
<1>12. CASE ChunkFails
  BY <1>12, IdleStep DEF ChunkFails, NavInv
<1>13. CASE LateChunkFails
  BY <1>1, <1>13 DEF LateChunkFails
<1>14. CASE BackToHome
  BY <1>14, PushStep DEF BackToHome, NavInv
<1>15. CASE UNCHANGED vars
  BY <1>1, <1>15 DEF vars
<1> QED BY <1>2, <1>3, <1>4, <1>5, <1>6, <1>7, <1>8, <1>9, <1>10, <1>11, <1>12, <1>13, <1>14,
      <1>15 DEF NavNext

\* Whatever interleaves with a navigation - logins and logouts here and in
\* other tabs, expired tokens, routes of the user before - a page appears only
\* for a user whose roles allow it.
THEOREM PagesAllowUsers == NavSpec => PageAllowsUser
<1>1. NavInit => NavInv
  BY DEF NavInit, NavInv, NavShape, LoadIsAllowed, Boot, Idle
<1>2. NavInv /\ [NavNext]_vars =>
        [page' # page /\ page' \in Pages => Allowed(user', page')]_vars
  <2> SUFFICES ASSUME NavInv, [NavNext]_vars, page' # page, page' \in Pages
               PROVE  Allowed(user', page')
    OBVIOUS
  <2>1. CASE ShowPage
    BY <2>1 DEF ShowPage, NavInv, LoadIsAllowed
  <2>2. ~Reload
    BY NavigationConstants DEF Reload
  <2> QED BY <2>1, <2>2 DEF NavNext, vars, Guard, GuardConstantRoutes, GuardAnonymous,
    SetupNotNeeded, GuardAuthRoutes, GuardChecks, UserInfoLoaded, UserInfoRefused, GoOnLate,
    ChunkFails, LateChunkFails, Visit, BackToHome, SwitchTab, CloseTab, CloseOthers, PinTab, Logout, Login, OtherTab
<1> QED BY <1>1, <1>2, NavInvNext, PTL DEF NavSpec, PageAllowsUser

---------------------------------------------------------------------------
(* The menus                                                               *)

\* The token is a user's, and the user whom the guard asks for is one.
TokensOK ==
  /\ stored \in [token : Users \cup {None}, last : {stored.last}, tabs : {stored.tabs}]
  /\ user \in Users \cup {None}
  /\ nav.stage = "userinfo" => nav.asked \in Users

\* resetStore waits for its navigation, and goes on with nothing else to do.
Resets(then) == then.kind = "reset"
ResetPending(then, rest) == Resets(then) \/ \E t \in rest : Resets(t)
ResetsAreReset ==
  /\ Resets(nav.then) => nav.then = Reset
  /\ \A t \in late : t.kind = "clear" \/ t = Reset

\* The token is that of the user, and a user who logged out is gone until the
\* routes are.  Auth routes are the user's or are about to go.  A user who sees
\* a page has them.
SessionIsUser ==
  /\ user # None => stored.token = user
  /\ ResetPending(nav.then, late) => stored.token = None
  /\ nav.stage = "userinfo" => user = None /\ nav.asked = stored.token
RoutesAreUsers ==
  authInit => IF user = None THEN ResetPending(nav.then, late) ELSE authRoutes = RoutesOf(user)
PagesHaveRoutes ==
  user # None => /\ authInit \/ (page \notin Base /\ ~(nav.stage = "load" /\ nav.to \in Base))
                 /\ ~(page = "login" /\ nav.stage = "idle")
                 /\ ~(nav.stage = "load" /\ nav.to = "login")

MenusOK ==
  /\ TokensOK /\ ResetsAreReset
  /\ ~torn => SessionIsUser /\ RoutesAreUsers /\ PagesHaveRoutes

MenusInv == NavInv /\ MenusOK

\* Nobody is no user, and home is not the login page.
LEMMA Nobodies == None \notin Users /\ Home # "login" /\ "login" \notin Base /\ "404" \notin Base
                  /\ "403" \notin Base
BY NavigationConstants DEF Base

\* What a navigation that is given up leaves behind is what it was to do.
LEMMA PendingOne ==
  ASSUME NEW then
  PROVE  \A t \in Pending(then) : t = then /\ (t.kind = "clear" \/ Resets(t))
BY DEF Pending, Resets

\* Resets stay pending until they run.
LEMMA PendingResets == ASSUME NEW then, Resets(then) PROVE then \in Pending(then)
BY DEF Pending, Resets

\* The kinds of continuations.
LEMMA Kinds ==
  ASSUME NEW id, NEW list
  PROVE  /\ Clear(id, list).kind = "clear" /\ (\A t : t.kind = "clear" => ~Resets(t))
         /\ ~Resets(NoThen) /\ ~Resets(Switch(id)) /\ ~Resets(Close(id)) /\ ~Resets(Clear(id, list))
         /\ Resets(Reset)
BY DEF Resets, NoThen, Switch, Close, Clear, Reset

\* A navigation that users or other code begin, from a page behind the login.
LEMMA PushKeepsMenus ==
  ASSUME MenusInv, page # "login", NEW to, NEW then, ~Resets(then), Push(to, then),
         UNCHANGED <<stored, user, authInit, authRoutes, page, torn>>
  PROVE  MenusOK'
<1>1. /\ nav'.stage \in {"idle", "guard"} /\ nav'.then \in {NoThen, then}
      /\ late' \in {late \cup Pending(nav.then) \cup Pending(then), late \cup Pending(nav.then)}
  <2>1. CASE to = page
    BY <2>1 DEF Push, Idle
  <2>2. CASE to # page
    <3>1. nav' = [Idle EXCEPT !.stage = "guard", !.to = to, !.known = Known(to), !.then = then]
          /\ late' = late \cup Pending(nav.then)
      BY <2>2 DEF Push
    <3>2. nav'.stage = "guard" /\ nav'.then = then
      BY <3>1 DEF Idle
    <3> QED BY <3>1, <3>2
  <2> QED BY <2>1, <2>2
<1>2. ~Resets(nav'.then)
  BY <1>1, Kinds
<1>3. ResetPending(nav'.then, late') <=> ResetPending(nav.then, late)
  BY <1>1, <1>2, PendingOne, PendingResets DEF ResetPending
<1>4. \A t \in late' : t.kind = "clear" \/ t = Reset
  BY <1>1, PendingOne DEF MenusInv, MenusOK, ResetsAreReset
<1>5. TokensOK' /\ ResetsAreReset'
  BY <1>1, <1>2, <1>4 DEF MenusInv, MenusOK, TokensOK, ResetsAreReset
<1>6. ASSUME ~torn PROVE SessionIsUser' /\ RoutesAreUsers' /\ PagesHaveRoutes'
  <2>1. SessionIsUser'
    BY <1>1, <1>3, <1>6 DEF MenusInv, MenusOK, SessionIsUser
  <2>2. RoutesAreUsers'
    BY <1>3, <1>6 DEF MenusInv, MenusOK, RoutesAreUsers
  <2>3. PagesHaveRoutes'
    BY <1>1, <1>6, Nobodies DEF MenusInv, MenusOK, PagesHaveRoutes
  <2> QED BY <2>1, <2>2, <2>3
<1> QED BY <1>5, <1>6 DEF MenusOK

\* A step that leaves the session and the navigation alone.
LEMMA RestKeepsMenus ==
  ASSUME MenusInv, UNCHANGED <<stored, user, authInit, authRoutes, page, nav, late, torn>>
  PROVE  MenusOK'
<1>1. TokensOK' /\ ResetsAreReset'
  BY DEF MenusInv, MenusOK, TokensOK, ResetsAreReset
<1>2. ~torn => SessionIsUser' /\ RoutesAreUsers' /\ PagesHaveRoutes'
  BY DEF MenusInv, MenusOK, SessionIsUser, RoutesAreUsers, RoutesOf, Allowed, PagesHaveRoutes
<1> QED BY <1>1, <1>2 DEF MenusOK

\* A step of the guard that leaves the routes alone loads pages of the console
\* only with them, and the login page only for nobody.
LEMMA GuardKeepsMenus ==
  ASSUME MenusInv, UNCHANGED <<stored, user, authInit, authRoutes, page, late, torn>>,
         nav'.then = nav.then, nav'.stage # "idle",
         nav'.stage = "userinfo" =>
           user = None /\ nav'.asked = stored.token /\ stored.token # None,
         ~torn /\ user # None /\ nav'.stage = "load" => authInit /\ nav'.to # "login"
  PROVE  MenusOK'
<1>1. stored.token \in Users \cup {None}
  BY DEF MenusInv, MenusOK, TokensOK
<1>2. TokensOK' /\ ResetsAreReset'
  BY <1>1 DEF MenusInv, MenusOK, TokensOK, ResetsAreReset
<1>3. ASSUME ~torn PROVE SessionIsUser' /\ RoutesAreUsers' /\ PagesHaveRoutes'
  <2>1. SessionIsUser'
    BY <1>3 DEF MenusInv, MenusOK, SessionIsUser
  <2>2. RoutesAreUsers'
    BY <1>3 DEF MenusInv, MenusOK, RoutesAreUsers
  <2>3. PagesHaveRoutes'
    BY <1>3 DEF MenusInv, MenusOK, PagesHaveRoutes
  <2> QED BY <2>1, <2>2, <2>3
<1> QED BY <1>2, <1>3 DEF MenusOK

\* Nobody is logged in without a token, unless another tab took it.
LEMMA NoTokenNoUser == MenusInv /\ ~torn /\ stored.token = None => user = None
BY Nobodies DEF MenusInv, MenusOK, TokensOK, SessionIsUser

\* The auth routes are made for the user, or for nobody while a reset is pending.
LEMMA InitAuthKeepsMenus ==
  ASSUME MenusInv, NEW u \in Users \cup {None}, InitAuth(u), user' = u,
         UNCHANGED <<page, torn>>, stored' = [stored EXCEPT !.token = stored'.token],
         stored'.token \in Users \cup {None},
         late \subseteq late', late' \subseteq late \cup {Reset},
         ~torn =>
           /\ u # None => stored'.token = u
           /\ u = None => Reset \in late'
           /\ ResetPending(nav.then, late') => stored'.token = None
           /\ page = "login" => nav.stage # "idle"
  PROVE  MenusOK'
<1>1. /\ authRoutes' = RoutesOf(u) /\ authInit' = TRUE
      /\ nav'.stage = "guard" /\ nav'.then = nav.then
  <2>1. nav' = [nav EXCEPT !.stage = "guard", !.asked = None,
                           !.known = @ \/ Known(nav.to) \/ nav.to \in RoutesOf(u)]
    BY DEF InitAuth
  <2>2. nav'.stage = "guard" /\ nav'.then = nav.then
    BY <2>1 DEF MenusInv, MenusOK, NavInv, NavShape
  <2> QED BY <2>2 DEF InitAuth
<1>2. stored' \in [token : Users \cup {None}, last : {stored'.last}, tabs : {stored'.tabs}]
  BY DEF MenusInv, MenusOK, TokensOK
<1>3. TokensOK'
  BY <1>1, <1>2 DEF TokensOK
<1>4. ResetsAreReset'
  BY <1>1 DEF MenusInv, MenusOK, ResetsAreReset
<1>5. ASSUME ~torn PROVE SessionIsUser' /\ RoutesAreUsers' /\ PagesHaveRoutes'
  <2>1. SessionIsUser'
    BY <1>1, <1>5 DEF SessionIsUser
  <2>2. u = None => ResetPending(nav.then, late')
    BY <1>5, Kinds DEF ResetPending
  <2>3. RoutesAreUsers'
    BY <1>1, <2>2 DEF RoutesAreUsers, RoutesOf, Allowed
  <2>4. PagesHaveRoutes'
    BY <1>1 DEF PagesHaveRoutes
  <2> QED BY <2>1, <2>3, <2>4
<1> QED BY <1>3, <1>4, <1>5 DEF MenusOK

\* The guard.
LEMMA GuardMenus ==
  ASSUME MenusInv, Guard
  PROVE  MenusOK'
<1>1. UNCHANGED <<stored, user, page, late, torn>>
  BY DEF Guard, GuardConstantRoutes, GuardAnonymous, SetupNotNeeded, GuardAuthRoutes, GuardChecks
<1>2. ASSUME stored.token = None, nav' = ToLogin
      PROVE  nav'.then = nav.then /\ nav'.stage = "guard"
  BY <1>2 DEF ToLogin, Redirected, MenusInv, MenusOK, NavInv, NavShape
<1>3. CASE GuardConstantRoutes
  <2>1. nav' = [nav EXCEPT !.stage = "guard", !.known = Known(nav.to)]
    BY <1>3 DEF GuardConstantRoutes
  <2>2. nav'.then = nav.then /\ nav'.stage = "guard"
    BY <2>1 DEF MenusInv, MenusOK, NavInv, NavShape
  <2> QED BY <1>1, <1>3, <2>2, GuardKeepsMenus DEF GuardConstantRoutes
<1>4. CASE GuardAnonymous
  <2>1. ~torn => user = None
    BY <1>4, NoTokenNoUser DEF GuardAnonymous
  <2>2. CASE nav' \in {[nav EXCEPT !.stage = "load"], [nav EXCEPT !.stage = "setup"]}
    <3>1. nav'.then = nav.then /\ nav'.stage \in {"load", "setup"}
      BY <2>2 DEF MenusInv, MenusOK, NavInv, NavShape
    <3> QED BY <1>1, <1>4, <2>1, <3>1, GuardKeepsMenus DEF GuardAnonymous
  <2>3. CASE nav' = ToLogin
    <3>1. nav'.then = nav.then /\ nav'.stage = "guard"
      BY <2>3 DEF ToLogin, Redirected, MenusInv, MenusOK, NavInv, NavShape
    <3> QED BY <1>1, <1>4, <2>1, <3>1, GuardKeepsMenus DEF GuardAnonymous
  <2> QED BY <1>4, <2>2, <2>3 DEF GuardAnonymous
<1>5. CASE SetupNotNeeded
  <2>1. nav'.then = nav.then /\ nav'.stage = "guard"
    BY <1>5 DEF SetupNotNeeded, ToLogin, Redirected, MenusInv, MenusOK, NavInv, NavShape
  <2> QED BY <1>1, <1>5, <2>1, GuardKeepsMenus DEF SetupNotNeeded
<1>6. CASE GuardAuthRoutes
  <2>1. CASE user = None
    <3>1. nav' = [nav EXCEPT !.stage = "userinfo", !.asked = stored.token]
      BY <1>6, <2>1 DEF GuardAuthRoutes
    <3>2. nav'.then = nav.then /\ nav'.stage = "userinfo" /\ nav'.asked = stored.token
      BY <3>1 DEF MenusInv, MenusOK, NavInv, NavShape
    <3> QED BY <1>1, <1>6, <2>1, <3>2, GuardKeepsMenus DEF GuardAuthRoutes
  <2>2. CASE user # None
    <3>1. InitAuth(user) /\ user' = user /\ user \in Users \cup {None}
      BY <1>6, <2>2 DEF GuardAuthRoutes, MenusInv, MenusOK, TokensOK
    <3>2. stored' = [stored EXCEPT !.token = stored'.token] /\ stored'.token \in Users \cup {None}
      BY <1>1 DEF MenusInv, MenusOK, TokensOK
    <3>3. nav.stage # "idle"
      BY <1>6 DEF GuardAuthRoutes
    <3>4. ~torn => stored.token = user /\ (ResetPending(nav.then, late) => stored.token = None)
      BY <2>2 DEF MenusInv, MenusOK, SessionIsUser
    <3> QED BY <1>1, <2>2, <3>1, <3>2, <3>3, <3>4, InitAuthKeepsMenus
  <2> QED BY <2>1, <2>2
<1>7. CASE GuardChecks
  <2>1. nav.known \in BOOLEAN
    BY DEF MenusInv, MenusOK, NavInv, NavShape
  <2>2. \/ nav' = Redirected("403")
        \/ nav' = [nav EXCEPT !.stage = "load", !.to = "404"]
        \/ nav' = [Redirected(Home) EXCEPT !.known = Known(Home)]
        \/ nav.to # "login" /\ nav' = [nav EXCEPT !.stage = "load"]
    BY <1>7, <2>1 DEF GuardChecks
  <2>3. nav'.then = nav.then /\ nav'.stage \in {"guard", "load"}
        /\ (nav'.stage = "load" => nav'.to # "login")
    BY <2>2 DEF Redirected, MenusInv, MenusOK, NavInv, NavShape
  <2> QED BY <1>1, <1>7, <2>3, GuardKeepsMenus DEF GuardChecks
<1> QED BY <1>3, <1>4, <1>5, <1>6, <1>7, <1>1 DEF Guard

\* The answer to /auth/getUserInfo: the user, or a reset that is pending now.
LEMMA UserInfoMenus ==
  ASSUME MenusInv, UserInfoLoaded \/ UserInfoRefused
  PROVE  MenusOK'
<1>1. nav.stage = "userinfo" /\ nav.asked \in Users /\ UNCHANGED <<page, torn>>
  BY DEF UserInfoLoaded, UserInfoRefused, MenusInv, MenusOK, TokensOK
<1>2. ~torn => /\ user = None /\ nav.asked = stored.token
                  /\ (ResetPending(nav.then, late) => stored.token = None)
  BY <1>1 DEF MenusInv, MenusOK, SessionIsUser
<1>3. stored \in [token : Users \cup {None}, last : {stored.last}, tabs : {stored.tabs}]
      /\ user \in Users \cup {None}
  BY DEF MenusInv, MenusOK, TokensOK
<1>4. CASE UserInfoLoaded
  <2>1. InitAuth(nav.asked) /\ user' = nav.asked /\ UNCHANGED <<stored, late>>
    BY <1>4 DEF UserInfoLoaded
  <2>2. stored' = [stored EXCEPT !.token = stored'.token] /\ stored'.token \in Users \cup {None}
    BY <1>3, <2>1
  <2>3. nav.asked # None /\ nav.asked \in Users \cup {None}
    BY <1>1, Nobodies
  <2> QED BY <1>1, <1>2, <2>1, <2>2, <2>3, InitAuthKeepsMenus
<1>5. CASE UserInfoRefused
  <2>1. /\ InitAuth(None) /\ user' = user /\ late' = late \cup {Reset}
        /\ stored' = [stored EXCEPT !.token = None]
    BY <1>5 DEF UserInfoRefused
  <2>2. stored' = [stored EXCEPT !.token = stored'.token] /\ stored'.token = None
        /\ stored' \in [token : Users \cup {None}, last : {stored'.last}, tabs : {stored'.tabs}]
    BY <1>3, <2>1
  <2>3. CASE torn
    <3>1. nav'.stage = "guard" /\ nav'.then = nav.then
      <4>1. nav' = [nav EXCEPT !.stage = "guard", !.asked = None,
                              !.known = @ \/ Known(nav.to) \/ nav.to \in RoutesOf(None)]
        BY <2>1 DEF InitAuth
      <4> QED BY <4>1 DEF MenusInv, MenusOK, NavInv, NavShape
    <3>2. TokensOK'
      BY <1>3, <2>1, <2>2, <3>1 DEF TokensOK
    <3>3. ResetsAreReset'
      BY <2>1, <3>1 DEF MenusInv, MenusOK, ResetsAreReset
    <3> QED BY <1>1, <2>3, <3>2, <3>3 DEF MenusOK
  <2>4. CASE ~torn
    <3>1. user' = None /\ None \in Users \cup {None} /\ stored'.token \in Users \cup {None}
      BY <1>2, <2>1, <2>2, <2>4
    <3> QED BY <1>1, <2>1, <2>2, <3>1, InitAuthKeepsMenus
  <2> QED BY <2>3, <2>4
<1> QED BY <1>4, <1>5

\* The tabs are cached and the routes removed: nobody has them.
LEMMA ResetStored ==
  ASSUME MenusInv, ResetRoutes
  PROVE  /\ stored' \in [token : Users \cup {None}, last : {stored'.last}, tabs : {stored'.tabs}]
         /\ stored'.token = stored.token /\ authInit' = FALSE
BY DEF MenusInv, MenusOK, TokensOK, ResetRoutes

\* The page is shown.  One of the console has its routes, and the login page is
\* shown to nobody.
LEMMA ShowPageMenus ==
  ASSUME MenusInv, ShowPage
  PROVE  MenusOK'
<1>1. /\ nav.stage = "load" /\ page' = nav.to /\ nav' = Idle
      /\ UNCHANGED <<user, late, torn>>
      /\ IF nav.then.kind = "reset" THEN ResetRoutes
         ELSE UNCHANGED <<stored, authInit, authRoutes>>
  BY DEF ShowPage
<1>2. nav'.stage = "idle" /\ nav'.then = NoThen
  BY <1>1 DEF Idle
<1>3. ~Resets(nav'.then)
  BY <1>2, Kinds
<1>4. /\ stored' \in [token : Users \cup {None}, last : {stored'.last}, tabs : {stored'.tabs}]
      /\ stored'.token = stored.token
  BY <1>1, ResetStored DEF MenusInv, MenusOK, TokensOK
<1>5. TokensOK'
  BY <1>1, <1>2, <1>4 DEF MenusInv, MenusOK, TokensOK
<1>6. ResetsAreReset'
  BY <1>1, <1>3 DEF MenusInv, MenusOK, ResetsAreReset
<1>7. ASSUME ~torn PROVE SessionIsUser' /\ RoutesAreUsers' /\ PagesHaveRoutes'
  <2>1. SessionIsUser /\ RoutesAreUsers /\ PagesHaveRoutes
    BY <1>7 DEF MenusInv, MenusOK
  <2>2. SessionIsUser'
    BY <1>1, <1>2, <1>3, <1>4, <2>1 DEF SessionIsUser, ResetPending
  <2>3. CASE Resets(nav.then)
    <3>1. authInit' = FALSE
      BY <1>1, <2>3, ResetStored DEF Resets
    <3>2. user' = None
      <4>1. stored.token = None
        BY <2>1, <2>3 DEF SessionIsUser, ResetPending
      <4> QED BY <1>1, <1>7, <4>1, NoTokenNoUser
    <3> QED BY <2>2, <3>1, <3>2 DEF RoutesAreUsers, PagesHaveRoutes
  <2>4. CASE ~Resets(nav.then)
    <3>1. UNCHANGED <<authInit, authRoutes>>
      BY <1>1, <2>4 DEF Resets
    <3>2. ResetPending(nav'.then, late') <=> ResetPending(nav.then, late)
      BY <1>1, <1>3, <2>4 DEF ResetPending
    <3>3. RoutesAreUsers'
      BY <1>1, <2>1, <3>1, <3>2 DEF RoutesAreUsers, RoutesOf, Allowed
    <3>4. PagesHaveRoutes'
      BY <1>1, <1>2, <2>1, <3>1 DEF PagesHaveRoutes
    <3> QED BY <2>2, <3>3, <3>4
  <2> QED BY <2>3, <2>4
<1> QED BY <1>1, <1>5, <1>6, <1>7 DEF MenusOK

\* What a navigation that was given up had to do is done late: the routes that
\* a reset removes are then nobody's.
LEMMA GoOnLateMenus ==
  ASSUME MenusInv, GoOnLate
  PROVE  MenusOK'
<1>1. PICK then \in late :
        /\ late' = late \ {then}
        /\ \/ then.kind = "clear" /\ UNCHANGED <<stored, authInit, authRoutes>>
           \/ then.kind # "clear" /\ ResetRoutes
        /\ UNCHANGED <<user, page, nav, torn>>
  BY DEF GoOnLate
<1>2. /\ stored' \in [token : Users \cup {None}, last : {stored'.last}, tabs : {stored'.tabs}]
      /\ stored'.token = stored.token
  BY <1>1, ResetStored DEF MenusInv, MenusOK, TokensOK
<1>3. TokensOK' /\ ResetsAreReset'
  BY <1>1, <1>2 DEF MenusInv, MenusOK, TokensOK, ResetsAreReset
<1>4. ASSUME ~torn PROVE SessionIsUser' /\ RoutesAreUsers' /\ PagesHaveRoutes'
  <2>1. SessionIsUser /\ RoutesAreUsers /\ PagesHaveRoutes
    BY <1>4 DEF MenusInv, MenusOK
  <2>2. SessionIsUser'
    BY <1>1, <1>2, <2>1 DEF SessionIsUser, ResetPending
  <2>3. CASE then.kind # "clear"
    <3>0. Resets(then)
      BY <2>3, Kinds DEF MenusInv, MenusOK, ResetsAreReset
    <3>1. authInit' = FALSE
      BY <1>1, <2>3, ResetStored
    <3>2. user' = None
      <4>1. stored.token = None
        BY <2>1, <3>0 DEF SessionIsUser, ResetPending
      <4> QED BY <1>1, <1>4, <4>1, NoTokenNoUser
    <3> QED BY <2>2, <3>1, <3>2 DEF RoutesAreUsers, PagesHaveRoutes
  <2>4. CASE then.kind = "clear"
    <3>1. UNCHANGED <<authInit, authRoutes>> /\ ~Resets(then)
      BY <1>1, <2>4 DEF Resets
    <3>2. ResetPending(nav'.then, late') <=> ResetPending(nav.then, late)
      BY <1>1, <3>1 DEF ResetPending
    <3>3. RoutesAreUsers'
      BY <1>1, <2>1, <3>1, <3>2 DEF RoutesAreUsers, RoutesOf, Allowed
    <3>4. PagesHaveRoutes'
      BY <1>1, <2>1, <3>1 DEF PagesHaveRoutes
    <3> QED BY <2>2, <3>3, <3>4
  <2> QED BY <2>3, <2>4
<1> QED BY <1>1, <1>3, <1>4 DEF MenusOK

\* A user logs out: the token goes at once, the routes when the reset runs.
LEMMA LogoutMenus ==
  ASSUME MenusInv, Logout
  PROVE  MenusOK'
<1>1. /\ stored' = [stored EXCEPT !.token = None, !.last = user] /\ user' = None
      /\ nav' = [Idle EXCEPT !.stage = "guard", !.to = "login", !.known = TRUE,
                             !.back = page, !.then = Reset]
      /\ late' = late \cup Pending(nav.then)
  BY DEF Logout
<1>2. nav'.stage = "guard" /\ nav'.then = Reset
  BY <1>1 DEF Idle
<1>3. stored' \in [token : Users \cup {None}, last : {stored'.last}, tabs : {stored'.tabs}]
      /\ stored'.token = None
  BY <1>1 DEF MenusInv, MenusOK, TokensOK
<1>4. TokensOK'
  BY <1>1, <1>2, <1>3 DEF TokensOK
<1>5. ResetsAreReset'
  BY <1>1, <1>2, PendingOne DEF MenusInv, MenusOK, ResetsAreReset
<1>6. SessionIsUser' /\ PagesHaveRoutes'
  BY <1>1, <1>2, <1>3 DEF SessionIsUser, PagesHaveRoutes
<1>7. RoutesAreUsers'
  BY <1>1, <1>2, Kinds DEF RoutesAreUsers, ResetPending
<1> QED BY <1>4, <1>5, <1>6, <1>7 DEF MenusOK

\* A user logs in: the routes of the user before are gone by then.
LEMMA LoginMenus ==
  ASSUME MenusInv, Login
  PROVE  MenusOK'
<1>1. page = "login" /\ nav = Idle /\ Reset \notin late
      /\ UNCHANGED <<authInit, authRoutes, page, torn>>
  BY DEF Login
<1>10. PICK u \in Users : \E list, to, more :
        /\ user' = u /\ stored' = [token |-> u, last |-> None, tabs |-> list]
        /\ nav' = [Idle EXCEPT !.stage = "guard", !.to = to, !.known = Known(to)]
        /\ late' = late \cup more /\ \A t \in more : t.kind = "clear"
  <2>1. PICK u \in Users :
          LET kept == TL!Cleared(tabs, {})
              waits == NeedsClear(u) /\ active \in TL!IdsIn(tabs) \ TL!IdsIn(kept)
              to == IF NeedsClear(u) \/ back = None THEN Home ELSE back IN
          /\ user' = u
          /\ stored' = [token |-> u, last |-> None,
                        tabs |-> IF NeedsClear(u) THEN None ELSE stored.tabs]
          /\ nav' = [Idle EXCEPT !.stage = "guard", !.to = to, !.known = Known(to)]
          /\ late' = late \cup (IF waits THEN {Clear(TL!LastOrHome(kept), kept)} ELSE {})
    BY DEF Login
  <2> DEFINE kept == TL!Cleared(tabs, {})
             waits == NeedsClear(u) /\ active \in TL!IdsIn(tabs) \ TL!IdsIn(kept)
             given == IF waits THEN {Clear(TL!LastOrHome(kept), kept)} ELSE {}
             to == IF NeedsClear(u) \/ back = None THEN Home ELSE back
             list == IF NeedsClear(u) THEN None ELSE stored.tabs
  <2>2. \A t \in given : t.kind = "clear"
    BY Kinds
  <2>3. /\ user' = u /\ stored' = [token |-> u, last |-> None, tabs |-> list]
        /\ nav' = [Idle EXCEPT !.stage = "guard", !.to = to, !.known = Known(to)]
        /\ late' = late \cup given
    BY <2>1
  <2> HIDE DEF given, to, list
  <2> QED BY <2>2, <2>3
<1>2. PICK list, to, more :
        /\ user' = u /\ stored' = [token |-> u, last |-> None, tabs |-> list]
        /\ nav' = [Idle EXCEPT !.stage = "guard", !.to = to, !.known = Known(to)]
        /\ late' = late \cup more /\ \A t \in more : t.kind = "clear"
  BY <1>10
<1>3. nav'.stage = "guard" /\ nav'.then = NoThen
  BY <1>2 DEF Idle
<1>4. nav.stage = "idle" /\ nav.then = NoThen /\ ~Resets(NoThen)
  BY <1>1, Kinds DEF Idle
<1>5. stored' \in [token : Users \cup {None}, last : {stored'.last}, tabs : {stored'.tabs}]
      /\ stored'.token = u
  BY <1>2
<1>6. TokensOK' /\ ResetsAreReset'
  BY <1>2, <1>3, <1>4, <1>5 DEF MenusInv, MenusOK, TokensOK, ResetsAreReset
<1>7. ~ResetPending(nav.then, late)
  BY <1>1, <1>4, Kinds DEF MenusInv, MenusOK, ResetsAreReset, ResetPending
<1>8. ~ResetPending(nav'.then, late')
  BY <1>2, <1>3, <1>4, <1>7, Kinds DEF ResetPending
<1>9. ASSUME ~torn PROVE SessionIsUser' /\ RoutesAreUsers' /\ PagesHaveRoutes'
  <2>1. user = None
    BY <1>1, <1>4, <1>9 DEF MenusInv, MenusOK, PagesHaveRoutes
  <2>2. authInit' = FALSE
    <3>1. ~authInit /\ authInit' = authInit
      BY <1>1, <1>7, <1>9, <2>1 DEF MenusInv, MenusOK, RoutesAreUsers
    <3>2. authInit = FALSE
      BY <3>1
    <3> QED BY <3>1, <3>2
  <2>3. SessionIsUser' /\ RoutesAreUsers'
    BY <1>2, <1>3, <1>5, <1>8, <2>2 DEF SessionIsUser, RoutesAreUsers
  <2>4. PagesHaveRoutes'
    BY <1>1, <1>3, Nobodies DEF PagesHaveRoutes
  <2> QED BY <2>3, <2>4
<1> QED BY <1>1, <1>6, <1>9 DEF MenusOK

\* The page loads anew, with nobody and no routes.
LEMMA ReloadMenus ==
  ASSUME MenusInv, Reload
  PROVE  MenusOK'
<1>1. /\ user' = None /\ authInit' = FALSE /\ late' = {}
      /\ \E to : nav' = [Idle EXCEPT !.stage = "boot", !.to = to]
      /\ \E token \in {None, stored.token} :
           stored' = [stored EXCEPT !.tabs = tabs, !.token = token]
  BY DEF Reload, Boot
<1>2. nav'.stage = "boot" /\ nav'.then = NoThen
  BY <1>1 DEF Idle
<1>3. stored' \in [token : Users \cup {None}, last : {stored'.last}, tabs : {stored'.tabs}]
  BY <1>1 DEF MenusInv, MenusOK, TokensOK
<1>4. ~Resets(nav'.then)
  BY <1>2, Kinds
<1>5. TokensOK' /\ ResetsAreReset'
  BY <1>1, <1>2, <1>3, <1>4 DEF TokensOK, ResetsAreReset
<1>6. SessionIsUser' /\ RoutesAreUsers' /\ PagesHaveRoutes'
  BY <1>1, <1>2, <1>4 DEF SessionIsUser, RoutesAreUsers, PagesHaveRoutes, ResetPending
<1> QED BY <1>5, <1>6 DEF MenusOK

\* Another tab changes the token: of what follows the menus say nothing.
LEMMA OtherTabMenus ==
  ASSUME MenusInv, OtherTab
  PROVE  MenusOK'
<1>1. torn' = TRUE /\ UNCHANGED <<user, nav, late>>
  BY DEF OtherTab
<1>2. PICK u \in Users \cup {None} :
        stored' = IF u = None THEN [stored EXCEPT !.token = None, !.last = stored.token]
                  ELSE [token |-> u, last |-> None, tabs |-> None]
  BY DEF OtherTab
<1>3. stored' \in [token : Users \cup {None}, last : {stored'.last}, tabs : {stored'.tabs}]
  BY <1>2 DEF MenusInv, MenusOK, TokensOK
<1> QED BY <1>1, <1>3 DEF MenusInv, MenusOK, TokensOK, ResetsAreReset

\* Menus, tabs and what closes them.
LEMMA UserMenus ==
  ASSUME MenusInv, Visit \/ SwitchTab \/ CloseTab \/ CloseOthers \/ PinTab
  PROVE  MenusOK'
<1>1. page \in Base /\ UNCHANGED <<stored, user, authInit, authRoutes, page, torn>>
  BY DEF Visit, SwitchTab, CloseTab, CloseOthers, PinTab
<1>2. ASSUME UNCHANGED <<nav, late>> PROVE MenusOK'
  BY <1>1, <1>2, RestKeepsMenus
<1>3. ASSUME NEW to, NEW then, ~Resets(then), Push(to, then) PROVE MenusOK'
  BY <1>1, <1>3, PushKeepsMenus, Nobodies
<1>4. ASSUME NEW list, ClearTabs(list) PROVE MenusOK'
  BY <1>2, <1>3, <1>4, Kinds DEF ClearTabs
<1>5. CASE Visit
  BY <1>3, <1>5, Kinds DEF Visit
<1>6. CASE SwitchTab
  BY <1>3, <1>6, Kinds DEF SwitchTab
<1>7. CASE CloseTab
  <2>1. PICK id \in TL!IdsIn(tabs) :
          IF active = id
          THEN LET next == TL!NextAfter(tabs, id) IN Push(next, Close(next))
          ELSE UNCHANGED <<nav, late, overtaken>>
    BY <1>7 DEF CloseTab
  <2> QED BY <1>2, <1>3, <2>1, Kinds
<1>8. CASE CloseOthers
  <2>1. \E list : ClearTabs(list)
    BY <1>8 DEF CloseOthers
  <2> QED BY <1>4, <2>1
<1>9. CASE PinTab
  BY <1>2, <1>9 DEF PinTab
<1> QED BY <1>5, <1>6, <1>7, <1>8, <1>9

\* From a page without menus there is a way home.
LEMMA BackToHomeMenus ==
  ASSUME MenusInv, BackToHome
  PROVE  MenusOK'
<1>1. page # "login" /\ Push(Home, NoThen)
      /\ UNCHANGED <<stored, user, authInit, authRoutes, page, torn>>
  BY DEF BackToHome
<1> QED BY <1>1, PushKeepsMenus, Kinds

\* A chunk does not load.  A logout that waits for it would leave its routes,
\* and a login its user: both are on record.  Of the others nothing remains.
LEMMA ChunkFailsMenus ==
  ASSUME MenusInv, ChunkFails
  PROVE  MenusOK'
<1>1. /\ nav.stage = "load" /\ nav' = Idle
      /\ UNCHANGED <<stored, user, authInit, authRoutes, page, late>>
      /\ torn' = (torn \/ nav.then = Reset \/ page = "login")
  BY DEF ChunkFails
<1>2. nav'.stage = "idle" /\ nav'.then = NoThen /\ ~Resets(NoThen)
  BY <1>1, Kinds DEF Idle
<1>3. TokensOK' /\ ResetsAreReset'
  BY <1>1, <1>2 DEF MenusInv, MenusOK, TokensOK, ResetsAreReset
<1>4. ASSUME ~torn' PROVE SessionIsUser' /\ RoutesAreUsers' /\ PagesHaveRoutes'
  <2>1. ~torn /\ page # "login" /\ ~Resets(nav.then)
    BY <1>1, <1>4 DEF MenusInv, MenusOK, ResetsAreReset
  <2>2. ResetPending(nav'.then, late') <=> ResetPending(nav.then, late)
    BY <1>1, <1>2, <2>1 DEF ResetPending
  <2>3. SessionIsUser'
    BY <1>1, <1>2, <2>1, <2>2 DEF MenusInv, MenusOK, SessionIsUser
  <2>4. RoutesAreUsers'
    BY <1>1, <2>1, <2>2 DEF MenusInv, MenusOK, RoutesAreUsers, RoutesOf, Allowed
  <2>5. PagesHaveRoutes'
    BY <1>1, <1>2, <2>1 DEF MenusInv, MenusOK, PagesHaveRoutes
  <2> QED BY <2>3, <2>4, <2>5
<1> QED BY <1>3, <1>4 DEF MenusOK

\* What a navigation that was given up had to do is not done.
LEMMA LateChunkFailsMenus ==
  ASSUME MenusInv, LateChunkFails
  PROVE  MenusOK'
<1>1. torn' = TRUE /\ late' \subseteq late /\ UNCHANGED <<stored, user, nav>>
  BY DEF LateChunkFails
<1> QED BY <1>1 DEF MenusInv, MenusOK, TokensOK, ResetsAreReset

\* Every step keeps the invariant of the menus.
LEMMA MenusInvNext == MenusInv /\ [NavNext]_vars => MenusInv'
<1> SUFFICES ASSUME MenusInv, [NavNext]_vars PROVE MenusInv'
  OBVIOUS
<1>1. NavInv'
  BY NavInvNext DEF MenusInv, MenusOK
<1> SUFFICES MenusOK'
  BY <1>1 DEF MenusInv
<1>2. CASE Guard BY <1>2, GuardMenus
<1>3. CASE UserInfoLoaded \/ UserInfoRefused BY <1>3, UserInfoMenus
<1>4. CASE ShowPage BY <1>4, ShowPageMenus
<1>5. CASE GoOnLate BY <1>5, GoOnLateMenus
<1>6. CASE Visit \/ SwitchTab \/ CloseTab \/ CloseOthers \/ PinTab BY <1>6, UserMenus
<1>7. CASE Logout BY <1>7, LogoutMenus
<1>8. CASE Login BY <1>8, LoginMenus
<1>9. CASE Reload BY <1>9, ReloadMenus
<1>10. CASE OtherTab BY <1>10, OtherTabMenus
<1>11. CASE ChunkFails BY <1>11, ChunkFailsMenus
<1>12. CASE LateChunkFails BY <1>12, LateChunkFailsMenus
<1>13. CASE BackToHome BY <1>13, BackToHomeMenus
<1>14. CASE UNCHANGED vars BY <1>14, RestKeepsMenus DEF vars
<1> QED BY <1>2, <1>3, <1>4, <1>5, <1>6, <1>7, <1>8, <1>9, <1>10, <1>11, <1>12, <1>13, <1>14
      DEF NavNext

\* The first state.
LEMMA MenusInvInit == NavInit => MenusInv
<1> SUFFICES ASSUME NavInit PROVE MenusInv
  OBVIOUS
<1>1. nav = [Idle EXCEPT !.stage = "boot", !.to = Home]
  BY DEF NavInit, Boot
<1>2. nav.stage = "boot" /\ nav.then = NoThen
  BY <1>1 DEF Idle
<1>3. NavInv
  BY DEF NavInit, NavInv, NavShape, LoadIsAllowed, Boot, Idle
<1>4. stored \in [token : Users \cup {None}, last : {stored.last}, tabs : {stored.tabs}]
  BY DEF NavInit
<1>5. TokensOK /\ ResetsAreReset
  BY <1>2, <1>4, Kinds DEF NavInit, TokensOK, ResetsAreReset
<1>6. SessionIsUser /\ RoutesAreUsers /\ PagesHaveRoutes
  BY <1>2, Kinds DEF NavInit, SessionIsUser, RoutesAreUsers, PagesHaveRoutes, ResetPending
<1> QED BY <1>3, <1>5, <1>6 DEF MenusInv, MenusOK

\* In whatever order logins, logouts, expired tokens and navigations that give
\* each other up come, a user who sees a page of the console, with nothing under
\* way, has the auth routes and menus of his own roles, unless another browser
\* tab exchanged the token or a chunk that did not load cut a login, a logout or
\* what a cancelled one still had to do.
THEOREM MenusAreTheUsers == NavSpec => []MenusMatchUser
<1>1. MenusInv => MenusMatchUser
  BY DEF MenusInv, MenusOK, MenusMatchUser, RoutesAreUsers, PagesHaveRoutes
<1> QED BY <1>1, MenusInvInit, MenusInvNext, PTL DEF NavSpec

---------------------------------------------------------------------------
(* Lists of tabs                                                           *)

\* Of some numbers, as many places are taken as there are numbers: each of them
\* has one, behind the smaller ones.
LEMMA PlacesAreTaken ==
  ASSUME NEW n \in Nat, NEW some \in SUBSET (1..n)
  PROVE  LET place(i) == Cardinality({j \in some : j < i}) + 1
             size == Cardinality(some)
         IN /\ size \in 0..n
            /\ \A i \in some : place(i) \in 1..size
            /\ \A k \in 1..size : \E i \in some : place(i) = k
            /\ \A i, j \in some : i < j => place(i) < place(j)
<1> DEFINE Below(i) == {j \in some : j < i}
           size == Cardinality(some)
           rank == [i \in some |-> Cardinality(Below(i)) + 1]
<1>0. \A i \in some : i \in Int
  OBVIOUS
<1>1. IsFiniteSet(some) /\ size \in Nat /\ size <= n
  <2>1. IsFiniteSet(1..n) /\ Cardinality(1..n) = n
    BY FS_Interval
  <2> QED BY <2>1, FS_Subset, FS_CardinalityType
<1>2. ASSUME NEW i \in some
      PROVE  IsFiniteSet(Below(i)) /\ Cardinality(Below(i)) \in 0..(size - 1)
  <2> DEFINE below == Below(i)
  <2>1. below \in SUBSET some /\ below # some
    OBVIOUS
  <2> HIDE DEF below
  <2>2. /\ IsFiniteSet(below) /\ Cardinality(below) <= size /\ Cardinality(below) # size
        /\ Cardinality(below) \in Nat
    BY <1>1, <2>1, FS_Subset, FS_CardinalityType
  <2>3. Cardinality(below) \in 0..(size - 1)
    BY <1>1, <2>2
  <2> QED BY <2>2, <2>3 DEF below
<1>3. ASSUME NEW i \in some, NEW j \in some, i < j
      PROVE  Cardinality(Below(i)) < Cardinality(Below(j))
  <2> DEFINE low == Below(i)
             high == Below(j)
  <2>1. low \in SUBSET high /\ i \in high /\ i \notin low
    <3>1. i \in Int /\ j \in Int /\ ~(i < i)
      BY <1>0
    <3>2. \A l \in some : l < i => l < j
      BY <1>0, <1>3, <3>1
    <3> QED BY <1>3, <3>1, <3>2
  <2>2. IsFiniteSet(high) /\ Cardinality(high) \in Nat /\ Cardinality(low) \in Nat
    BY <1>2
  <2> HIDE DEF low, high
  <2>3. Cardinality(low) <= Cardinality(high) /\ Cardinality(low) # Cardinality(high)
    BY <2>1, <2>2, FS_Subset
  <2>4. Cardinality(low) < Cardinality(high)
    BY <2>2, <2>3
  <2> QED BY <2>4 DEF low, high
<1>4. rank \in [some -> 1..size]
  <2> SUFFICES ASSUME NEW i \in some
               PROVE  Cardinality(Below(i)) + 1 \in 1..size
    OBVIOUS
  <2>1. Cardinality(Below(i)) \in 0..(size - 1)
    BY <1>2
  <2> HIDE DEF Below, size
  <2> QED BY <1>1, <2>1
<1>5. \A i, j \in some : i < j => rank[i] < rank[j]
  <2> SUFFICES ASSUME NEW i \in some, NEW j \in some, i < j
               PROVE  rank[i] < rank[j]
    OBVIOUS
  <2>1. Cardinality(Below(i)) < Cardinality(Below(j))
    BY <1>3
  <2>2. Cardinality(Below(i)) \in 0..(size - 1) /\ Cardinality(Below(j)) \in 0..(size - 1)
    BY <1>2
  <2>3. rank[i] = Cardinality(Below(i)) + 1 /\ rank[j] = Cardinality(Below(j)) + 1
    OBVIOUS
  <2> HIDE DEF Below, rank
  <2> QED BY <2>1, <2>2, <2>3
<1>6. \A i \in some : rank[i] = Cardinality(Below(i)) + 1
  OBVIOUS
<1> HIDE DEF rank, Below
<1>7. rank \in Injection(some, 1..size)
  <2>1. \A i, j \in some : rank[i] = rank[j] => i = j
    <3> SUFFICES ASSUME NEW i \in some, NEW j \in some, rank[i] = rank[j]
                 PROVE  i = j
      OBVIOUS
    <3>1. ~(rank[i] < rank[j]) /\ ~(rank[j] < rank[i])
      BY <1>4
    <3> QED BY <1>5, <3>1
  <2> QED BY <1>4, <2>1 DEF Injection, IsInjective
<1>8. rank \in Surjection(some, 1..size)
  <2>1. IsFiniteSet(1..size) /\ Cardinality(1..size) = size
    BY <1>1, FS_Interval
  <2> QED BY <1>1, <1>7, <2>1, FS_Injection
<1>9. \A k \in 1..size : \E i \in some : rank[i] = k
  BY <1>8 DEF Surjection
<1>10. size \in 0..n
  BY <1>1
<1>11. \A i \in some : rank[i] \in 1..size
  BY <1>4
<1> QED BY <1>5, <1>6, <1>9, <1>10, <1>11 DEF Below, size

\* TabList counts as this module does.
LEMMA SameCardinality == \A S : TL!Cardinality(S) = Cardinality(S)
BY DEF TL!Cardinality, Cardinality

\* A list that holds tabs of another one, in their order.
Sublist(sub, list) ==
  \E at \in [DOMAIN sub -> DOMAIN list] :
    /\ \A i, j \in DOMAIN sub : i < j => at[i] < at[j]
    /\ \A i \in DOMAIN sub : sub[i] = list[at[i]]

\* What clearTabs and extractTabsByAllRoutes keep: the tabs with these ids, each
\* of them, in their order.
THEOREM OnlyKeepsInOrder ==
  ASSUME NEW list \in Seq(TL!Tab), NEW ids
  PROVE  LET only == TL!Only(list, ids)
         IN /\ only \in Seq(TL!Tab) /\ Sublist(only, list)
            /\ \A k \in DOMAIN only : only[k].id \in ids
            /\ \A i \in DOMAIN list : list[i].id \in ids => \E k \in DOMAIN only : only[k] = list[i]
<1> DEFINE some == {i \in DOMAIN list : list[i].id \in ids}
           place(i) == Cardinality({j \in some : j < i}) + 1
           size == Cardinality(some)
           at == [k \in 1..size |-> CHOOSE i \in some : place(i) = k]
           only == TL!Only(list, ids)
<1>0. Len(list) \in Nat /\ DOMAIN list = 1..Len(list) /\ some \in SUBSET (1..Len(list))
      /\ \A i \in DOMAIN list : list[i] \in TL!Tab
  BY LenProperties
<1>1. /\ size \in 0..Len(list)
      /\ \A i \in some : place(i) \in 1..size
      /\ \A k \in 1..size : \E i \in some : place(i) = k
      /\ \A i, j \in some : i < j => place(i) < place(j)
  <2> HIDE DEF some
  <2> QED BY <1>0, PlacesAreTaken
<1>2. \A i \in some : i \in DOMAIN list /\ list[i].id \in ids
  OBVIOUS
<1>3. only = [k \in 1..size |-> list[CHOOSE i \in some : place(i) = k]]
  BY DEF TL!Only, TL!Cardinality, Cardinality
<1>4. \A i \in DOMAIN list : list[i].id \in ids => i \in some
  OBVIOUS
<1> HIDE DEF some, place, only, size
<1>5. \A k \in 1..size : at[k] \in some /\ place(at[k]) = k
  BY <1>1
<1>6. DOMAIN only = 1..size /\ \A k \in 1..size : only[k] = list[at[k]]
  BY <1>3
<1> HIDE DEF at
<1>7. only \in Seq(TL!Tab)
  <2>1. \A k \in 1..size : list[at[k]] \in TL!Tab
    BY <1>0, <1>2, <1>5
  <2>2. only = [k \in 1..size |-> only[k]]
    BY <1>3, <1>6
  <2>3. \A k \in 1..size : only[k] \in TL!Tab
    BY <1>6, <2>1
  <2>4. size \in Nat
    BY <1>1
  <2> QED BY <2>2, <2>3, <2>4
<1>8. Sublist(only, list)
  <2> DEFINE to == [k \in DOMAIN only |-> at[k]]
  <2>1. to \in [DOMAIN only -> DOMAIN list]
    BY <1>2, <1>5, <1>6
  <2>2. \A k, l \in DOMAIN only : k < l => to[k] < to[l]
    <3> SUFFICES ASSUME NEW k \in 1..size, NEW l \in 1..size, k < l
                 PROVE  at[k] < at[l]
      BY <1>6
    <3>1. at[k] \in some /\ at[l] \in some /\ place(at[k]) = k /\ place(at[l]) = l
      BY <1>5
    <3>2. ~(at[l] < at[k])
      <4>1. at[l] < at[k] => place(at[l]) < place(at[k])
        BY <1>1, <3>1
      <4> QED BY <3>1, <4>1
    <3>3. at[l] # at[k]
      BY <3>1
    <3>4. at[k] \in 1..Len(list) /\ at[l] \in 1..Len(list)
      BY <1>0, <1>2, <3>1
    <3> QED BY <1>0, <3>2, <3>3, <3>4
  <2>3. \A k \in DOMAIN only : only[k] = list[to[k]]
    BY <1>6
  <2> HIDE DEF to
  <2> QED BY <2>1, <2>2, <2>3 DEF Sublist
<1>9. \A k \in DOMAIN only : only[k].id \in ids
  BY <1>2, <1>5, <1>6
<1>10. ASSUME NEW i \in DOMAIN list, list[i].id \in ids
       PROVE  \E k \in DOMAIN only : only[k] = list[i]
  <2>1. i \in some /\ place(i) \in 1..size
    BY <1>1, <1>4, <1>10
  <2>2. at[place(i)] \in some /\ place(at[place(i)]) = place(i)
    BY <1>5, <2>1
  <2>3. at[place(i)] = i
    <3>1. ~(i < at[place(i)]) /\ ~(at[place(i)] < i)
      <4>1. i < at[place(i)] => place(i) < place(at[place(i)])
        BY <1>1, <2>1, <2>2
      <4>2. at[place(i)] < i => place(at[place(i)]) < place(i)
        BY <1>1, <2>1, <2>2
      <4> QED BY <2>1, <2>2, <4>1, <4>2
    <3>2. i \in 1..Len(list) /\ at[place(i)] \in 1..Len(list)
      BY <1>0, <1>2, <2>1, <2>2
    <3> QED BY <1>0, <3>1, <3>2
  <2> QED BY <1>6, <2>1, <2>3
<1> QED BY <1>7, <1>8, <1>9, <1>10 DEF only

\* The pinned tabs come first and are numbered upwards.
PinsFirst(list) ==
  \A i, j \in DOMAIN list : i < j /\ TL!IsFixedTab(list[j]) =>
    TL!IsFixedTab(list[i]) /\ list[i].fixed < list[j].fixed

\* A list of tabs as the store keeps it.
ListOK(list) == list \in Seq(TL!Tab) /\ TL!Distinct(list) /\ PinsFirst(list)

\* All tabs are this user's, or pinned.
Mine(list, u) == \A i \in DOMAIN list : list[i].owner = u \/ TL!IsFixedTab(list[i])

\* Some tabs of a list, in their order, are a list as the store keeps it, with
\* no other tabs than that.
LEMMA SublistsAreLists ==
  ASSUME NEW list, NEW sub, ListOK(list), sub \in Seq(TL!Tab), Sublist(sub, list)
  PROVE  /\ ListOK(sub) /\ TL!IdsIn(sub) \subseteq TL!IdsIn(list)
         /\ \A u : Mine(list, u) => Mine(sub, u)
<1>1. PICK at \in [DOMAIN sub -> DOMAIN list] :
        /\ \A i, j \in DOMAIN sub : i < j => at[i] < at[j]
        /\ \A i \in DOMAIN sub : sub[i] = list[at[i]]
  BY DEF Sublist
<1>2. DOMAIN sub \subseteq Nat /\ DOMAIN list \subseteq Nat
  BY LenProperties DEF ListOK
<1>3. TL!Distinct(sub)
  <2> SUFFICES ASSUME NEW i \in DOMAIN sub, NEW j \in DOMAIN sub, sub[i].id = sub[j].id
               PROVE  i = j
    BY DEF TL!Distinct
  <2>1. at[i] = at[j]
    BY <1>1 DEF ListOK, TL!Distinct
  <2>2. ~(i < j) /\ ~(j < i)
    <3>1. ~(at[i] < at[j]) /\ ~(at[j] < at[i])
      BY <1>1, <1>2, <2>1
    <3> QED BY <1>1, <3>1
  <2> QED BY <1>2, <2>2
<1>4. PinsFirst(sub)
  <2> SUFFICES ASSUME NEW i \in DOMAIN sub, NEW j \in DOMAIN sub, i < j,
                      TL!IsFixedTab(sub[j])
               PROVE  TL!IsFixedTab(sub[i]) /\ sub[i].fixed < sub[j].fixed
    BY DEF PinsFirst
  <2>1. at[i] < at[j] /\ at[i] \in DOMAIN list /\ at[j] \in DOMAIN list
        /\ sub[i] = list[at[i]] /\ sub[j] = list[at[j]]
    BY <1>1
  <2> QED BY <2>1 DEF ListOK, PinsFirst
<1>5. TL!IdsIn(sub) \subseteq TL!IdsIn(list)
  BY <1>1 DEF TL!IdsIn
<1>6. ASSUME NEW u, Mine(list, u) PROVE Mine(sub, u)
  BY <1>1, <1>6 DEF Mine
<1> QED BY <1>3, <1>4, <1>5, <1>6 DEF ListOK

\* The tabs before a place, and those from it on.
LEMMA PartsOfList ==
  ASSUME NEW list \in Seq(TL!Tab), NEW i \in 1..(Len(list) + 1)
  PROVE  LET left == SubSeq(list, 1, i - 1)
             right == SubSeq(list, i, Len(list))
         IN /\ left \in Seq(TL!Tab) /\ Len(left) = i - 1
            /\ \A k \in 1..(i - 1) : left[k] = list[k]
            /\ right \in Seq(TL!Tab) /\ Len(right) = Len(list) - i + 1
            /\ \A k \in 1..(Len(list) - i + 1) : right[k] = list[i + k - 1]
<1> DEFINE left == SubSeq(list, 1, i - 1)
           right == SubSeq(list, i, Len(list))
           n == Len(list)
<1>1. n \in Nat /\ i \in 1..(n + 1) /\ \A k \in 1..n : list[k] \in TL!Tab
  BY LenProperties
<1> HIDE DEF n
<1>2. /\ left \in Seq(TL!Tab) /\ Len(left) = i - 1
      /\ \A k \in 1..(i - 1) : left[k] = list[k]
  <2>1. 1 \in Int /\ i - 1 \in Int /\ \A k \in 1..(i - 1) : list[k] \in TL!Tab
    BY <1>1
  <2>2. /\ left \in Seq(TL!Tab)
        /\ Len(left) = IF 1 <= i - 1 THEN (i - 1) - 1 + 1 ELSE 0
        /\ \A k \in 1..((i - 1) - 1 + 1) : left[k] = list[1 + k - 1]
    BY <2>1, SubSeqProperties
  <2> HIDE DEF left
  <2>3. Len(left) = i - 1
    BY <1>1, <2>2
  <2>4. ASSUME NEW k \in 1..(i - 1) PROVE left[k] = list[k]
    <3>1. k \in 1..((i - 1) - 1 + 1) /\ 1 + k - 1 = k
      BY <1>1
    <3> QED BY <2>2, <3>1
  <2> QED BY <2>2, <2>3, <2>4
<1>3. /\ right \in Seq(TL!Tab) /\ Len(right) = n - i + 1
      /\ \A k \in 1..(n - i + 1) : right[k] = list[i + k - 1]
  <2>1. i \in Int /\ n \in Int /\ \A k \in i..n : list[k] \in TL!Tab
    BY <1>1
  <2>2. /\ right \in Seq(TL!Tab)
        /\ Len(right) = IF i <= n THEN n - i + 1 ELSE 0
        /\ \A k \in 1..(n - i + 1) : right[k] = list[i + k - 1]
    BY <2>1, SubSeqProperties DEF n
  <2> HIDE DEF right
  <2>3. Len(right) = n - i + 1
    BY <1>1, <2>2
  <2> QED BY <2>2, <2>3
<1> QED BY <1>2, <1>3 DEF n

\* A list without one of its tabs.
LEMMA RemovedAt ==
  ASSUME NEW list \in Seq(TL!Tab), NEW i \in DOMAIN list
  PROVE  LET rest == TL!RemoveAt(list, i)
         IN /\ rest \in Seq(TL!Tab) /\ Len(rest) = Len(list) - 1
            /\ \A k \in 1..(Len(list) - 1) : rest[k] = IF k < i THEN list[k] ELSE list[k + 1]
<1> DEFINE left == SubSeq(list, 1, i - 1)
           right == SubSeq(list, i + 1, Len(list))
           n == Len(list)
           rest == TL!RemoveAt(list, i)
<1>1. n \in Nat /\ i \in 1..n /\ i \in 1..(n + 1) /\ i + 1 \in 1..(n + 1)
  BY LenProperties
<1>2. /\ left \in Seq(TL!Tab) /\ Len(left) = i - 1
      /\ \A k \in 1..(i - 1) : left[k] = list[k]
  BY <1>1, PartsOfList
<1>3. /\ right \in Seq(TL!Tab) /\ Len(right) = n - i
      /\ \A k \in 1..(n - i) : right[k] = list[i + k]
  <2>1. /\ right \in Seq(TL!Tab) /\ Len(right) = n - (i + 1) + 1
        /\ \A k \in 1..(n - (i + 1) + 1) : right[k] = list[(i + 1) + k - 1]
    BY <1>1, PartsOfList
  <2> HIDE DEF n, right
  <2>2. n - (i + 1) + 1 = n - i /\ \A k \in 1..(n - i) : (i + 1) + k - 1 = i + k
    BY <1>1
  <2> QED BY <2>1, <2>2
<1>4. rest = left \o right
  BY DEF TL!RemoveAt
<1> HIDE DEF left, right, rest, n
<1>5. /\ rest \in Seq(TL!Tab) /\ Len(rest) = Len(left) + Len(right)
      /\ \A k \in 1..(Len(left) + Len(right)) :
           rest[k] = IF k <= Len(left) THEN left[k] ELSE right[k - Len(left)]
  BY <1>2, <1>3, <1>4, ConcatProperties
<1>6. Len(rest) = n - 1
  BY <1>1, <1>2, <1>3, <1>5, SMTT(30)
<1>7. ASSUME NEW k \in 1..(n - 1) PROVE rest[k] = IF k < i THEN list[k] ELSE list[k + 1]
  <2>1. k \in 1..(Len(left) + Len(right))
    BY <1>1, <1>2, <1>3, SMTT(30)
  <2>2. rest[k] = IF k <= Len(left) THEN left[k] ELSE right[k - Len(left)]
    BY <1>5, <2>1
  <2>3. CASE k < i
    <3>1. k <= Len(left) /\ k \in 1..(i - 1)
      BY <1>1, <1>2, <2>3
    <3> QED BY <1>2, <2>2, <2>3, <3>1
  <2>4. CASE ~(k < i)
    <3>1. ~(k <= Len(left)) /\ k - Len(left) \in 1..(n - i)
          /\ i + (k - Len(left)) = k + 1
      BY <1>1, <1>2, <2>4
    <3> QED BY <1>3, <2>2, <2>4, <3>1
  <2> QED BY <2>3, <2>4
<1> QED BY <1>5, <1>6, <1>7 DEF rest, n

\* A list with one more tab.
LEMMA InsertedAt ==
  ASSUME NEW list \in Seq(TL!Tab), NEW i \in 1..(Len(list) + 1), NEW tab \in TL!Tab
  PROVE  LET more == TL!InsertAt(list, i, tab)
         IN /\ more \in Seq(TL!Tab) /\ Len(more) = Len(list) + 1
            /\ \A k \in 1..(Len(list) + 1) :
                 more[k] = IF k < i THEN list[k] ELSE IF k = i THEN tab ELSE list[k - 1]
<1> DEFINE left == SubSeq(list, 1, i - 1)
           right == SubSeq(list, i, Len(list))
           n == Len(list)
           more == TL!InsertAt(list, i, tab)
           one == <<tab>>
           some == left \o one
<1>1. n \in Nat /\ i \in 1..(n + 1)
  BY LenProperties
<1>2. /\ left \in Seq(TL!Tab) /\ Len(left) = i - 1
      /\ \A k \in 1..(i - 1) : left[k] = list[k]
  BY <1>1, PartsOfList
<1>3. /\ right \in Seq(TL!Tab) /\ Len(right) = n - i + 1
      /\ \A k \in 1..(n - i + 1) : right[k] = list[i + k - 1]
  BY <1>1, PartsOfList
<1>4. one \in Seq(TL!Tab) /\ Len(one) = 1 /\ one[1] = tab
  OBVIOUS
<1>5. more = some \o right
  BY DEF TL!InsertAt
<1> HIDE DEF left, right, more, n, one, some
<1>6. /\ some \in Seq(TL!Tab) /\ Len(some) = Len(left) + Len(one)
      /\ \A k \in 1..(Len(left) + Len(one)) :
           some[k] = IF k <= Len(left) THEN left[k] ELSE one[k - Len(left)]
  BY <1>2, <1>4, ConcatProperties DEF some
<1>7. /\ more \in Seq(TL!Tab) /\ Len(more) = Len(some) + Len(right)
      /\ \A k \in 1..(Len(some) + Len(right)) :
           more[k] = IF k <= Len(some) THEN some[k] ELSE right[k - Len(some)]
  BY <1>3, <1>5, <1>6, ConcatProperties
<1>8. Len(some) = i /\ Len(more) = n + 1
  BY <1>1, <1>2, <1>3, <1>4, <1>6, <1>7
<1>9. ASSUME NEW k \in 1..(n + 1)
      PROVE  more[k] = IF k < i THEN list[k] ELSE IF k = i THEN tab ELSE list[k - 1]
  <2>1. more[k] = IF k <= i THEN some[k] ELSE right[k - i]
    <3>1. k \in 1..(Len(some) + Len(right))
      BY <1>1, <1>3, <1>8
    <3> QED BY <1>7, <1>8, <3>1
  <2>2. CASE k < i
    <3>1. k <= i /\ k <= Len(left) /\ k \in 1..(i - 1) /\ k \in 1..(Len(left) + Len(one))
      BY <1>1, <1>2, <1>4, <2>2
    <3> QED BY <1>2, <1>6, <2>1, <2>2, <3>1
  <2>3. CASE k = i
    <3>1. k <= i /\ ~(k <= Len(left)) /\ k \in 1..(Len(left) + Len(one)) /\ k - Len(left) = 1
      BY <1>1, <1>2, <1>4, <2>3
    <3> QED BY <1>1, <1>4, <1>6, <2>1, <2>3, <3>1
  <2>4. CASE k > i
    <3>1. ~(k <= i) /\ ~(k < i) /\ k # i /\ k - i \in 1..(n - i + 1) /\ i + (k - i) - 1 = k - 1
      BY <1>1, <2>4
    <3> QED BY <1>3, <2>1, <3>1
  <2> QED BY <1>1, <2>2, <2>3, <2>4
<1> QED BY <1>7, <1>8, <1>9 DEF more, n

\* What is at place k when the tab at one place goes to another, perhaps changed.
Shifted(list, from, to, tab, k) ==
  IF k = to THEN tab
  ELSE IF k < to THEN IF k < from THEN list[k] ELSE list[k + 1]
  ELSE IF k - 1 < from THEN list[k - 1] ELSE list[k]

\* A tab, perhaps changed, is put to another place: the others keep their order.
LEMMA Moved ==
  ASSUME NEW list \in Seq(TL!Tab), NEW from \in DOMAIN list, NEW to \in DOMAIN list,
         NEW tab \in TL!Tab
  PROVE  /\ TL!MoveTo(list, from, to, tab) \in Seq(TL!Tab)
         /\ Len(TL!MoveTo(list, from, to, tab)) = Len(list)
         /\ \A k \in 1..Len(list) :
              TL!MoveTo(list, from, to, tab)[k] = Shifted(list, from, to, tab, k)
<1> DEFINE n == Len(list)
           rest == TL!RemoveAt(list, from)
           moved == TL!MoveTo(list, from, to, tab)
<1>1. n \in Nat /\ from \in 1..n /\ to \in 1..n
  BY LenProperties
<1>2. /\ rest \in Seq(TL!Tab) /\ Len(rest) = n - 1
      /\ \A k \in 1..(n - 1) : rest[k] = IF k < from THEN list[k] ELSE list[k + 1]
  BY RemovedAt
<1>3. moved = TL!InsertAt(rest, to, tab)
  BY DEF TL!MoveTo
<1> HIDE DEF n, rest, moved
<1>4. to \in 1..(Len(rest) + 1) /\ Len(rest) + 1 = n
  BY <1>1, <1>2
<1>5. /\ moved \in Seq(TL!Tab) /\ Len(moved) = Len(rest) + 1
      /\ \A k \in 1..(Len(rest) + 1) :
           moved[k] = IF k < to THEN rest[k] ELSE IF k = to THEN tab ELSE rest[k - 1]
  <2> DEFINE more == TL!InsertAt(rest, to, tab)
  <2>1. /\ more \in Seq(TL!Tab) /\ Len(more) = Len(rest) + 1
        /\ \A k \in 1..(Len(rest) + 1) :
             more[k] = IF k < to THEN rest[k] ELSE IF k = to THEN tab ELSE rest[k - 1]
    BY <1>2, <1>4, InsertedAt, ZenonT(60)
  <2> QED BY <1>3, <2>1
<1>6. ASSUME NEW k \in 1..n
      PROVE  moved[k] = Shifted(list, from, to, tab, k)
  <2>1. moved[k] = IF k < to THEN rest[k] ELSE IF k = to THEN tab ELSE rest[k - 1]
    BY <1>4, <1>5
  <2>2. CASE k = to
    BY <1>1, <2>1, <2>2 DEF Shifted
  <2>3. CASE k < to
    <3>1. k \in 1..(n - 1) /\ k # to
      BY <1>1, <2>3
    <3> QED BY <1>2, <2>1, <2>3, <3>1 DEF Shifted
  <2>4. CASE k > to
    <3>1. k - 1 \in 1..(n - 1) /\ k # to /\ ~(k < to) /\ (k - 1) + 1 = k
      BY <1>1, <2>4
    <3> QED BY <1>2, <2>1, <2>4, <3>1 DEF Shifted
  <2> QED BY <1>1, <2>2, <2>3, <2>4
<1> QED BY <1>4, <1>5, <1>6 DEF n, moved

\* Where a list's pinned tabs are.
Pins(list) == {i \in DOMAIN list : TL!IsFixedTab(list[i])}

\* No tab that is not pinned is before a pinned one.
PinsLead(list) == \A i, j \in DOMAIN list : i < j /\ j \in Pins(list) => i \in Pins(list)

\* The store counts the pinned tabs by their ids.
LEMMA PinsByIds ==
  ASSUME NEW list \in Seq(TL!Tab), TL!Distinct(list)
  PROVE  /\ IsFiniteSet(TL!FixedTabIds(list)) /\ IsFiniteSet(Pins(list))
         /\ TL!FixedCount(list) = Cardinality(Pins(list))
         /\ Cardinality(Pins(list)) \in Nat
<1> DEFINE pins == Pins(list)
           ids == TL!FixedTabIds(list)
           idAt == [i \in pins |-> list[i].id]
<1>1. Len(list) \in Nat /\ pins \in SUBSET (1..Len(list)) /\ DOMAIN list = 1..Len(list)
  BY LenProperties DEF Pins
<1>2. IsFiniteSet(pins)
  <2> HIDE DEF pins
  <2>1. IsFiniteSet(1..Len(list))
    BY <1>1, FS_Interval
  <2> QED BY <1>1, <2>1, FS_Subset
<1>3. ids = {list[i].id : i \in pins}
  BY DEF TL!FixedTabIds, Pins
<1>4. \A i, j \in pins : list[i].id = list[j].id => i = j
  BY DEF Pins, TL!Distinct
<1> HIDE DEF ids, pins
<1>5. idAt \in Bijection(pins, ids)
  BY <1>3, <1>4 DEF Bijection, Injection, Surjection, IsInjective
<1>6. ExistsBijection(pins, ids)
  BY <1>5 DEF ExistsBijection
<1>7. IsFiniteSet(ids) /\ Cardinality(ids) = Cardinality(pins)
  BY <1>2, <1>6, FS_Bijection
<1>8. Cardinality(pins) \in Nat
  BY <1>2, FS_CardinalityType
<1>9. TL!FixedCount(list) = Cardinality(ids)
  BY SameCardinality DEF TL!FixedCount, ids
<1> QED BY <1>2, <1>7, <1>8, <1>9 DEF ids, pins

\* The pinned tabs are the first ones, as many as there are.
LEMMA PinsAreFirst ==
  ASSUME NEW list \in Seq(TL!Tab), TL!Distinct(list), PinsLead(list)
  PROVE  TL!FixedCount(list) \in 0..Len(list) /\ Pins(list) = 1..TL!FixedCount(list)
<1> DEFINE pins == Pins(list)
           m == Cardinality(pins)
           n == Len(list)
<1>1. n \in Nat /\ DOMAIN list = 1..n /\ pins \subseteq 1..n
  BY LenProperties DEF Pins
<1>2. TL!FixedCount(list) = m /\ m \in Nat /\ IsFiniteSet(pins)
  BY PinsByIds
<1> HIDE DEF pins, n
<1>3. ASSUME NEW j \in pins PROVE j \in 1..m
  <2>1. 1..j \in SUBSET pins
    <3> SUFFICES ASSUME NEW i \in 1..j PROVE i \in pins
      OBVIOUS
    <3>1. i \in 1..n /\ j \in 1..n /\ (i < j \/ i = j)
      BY <1>1
    <3> QED BY <1>1, <3>1 DEF PinsLead, pins
  <2>2. j \in Nat /\ 1 <= j
    BY <1>1
  <2>3. Cardinality(1..j) = j
    BY <2>2, FS_Interval
  <2>4. Cardinality(1..j) <= Cardinality(pins)
    BY <1>2, <2>1, FS_Subset
  <2> QED BY <1>2, <2>2, <2>3, <2>4
<1>4. IsFiniteSet(1..m) /\ Cardinality(1..m) = m
  BY <1>2, FS_Interval
<1>5. pins = 1..m
  <2>1. pins \in SUBSET (1..m)
    BY <1>3
  <2> QED BY <1>4, <2>1, FS_Subset
<1>6. m \in 0..n
  <2>1. m # 0 => m \in 1..n
    BY <1>1, <1>2, <1>5
  <2> QED BY <1>1, <1>2, <2>1
<1> QED BY <1>2, <1>5, <1>6 DEF pins, n

\* A tab with another fixedIndex.
LEMMA TabWith ==
  ASSUME NEW tab \in TL!Tab, NEW f \in Nat \cup {None}
  PROVE  LET with == [tab EXCEPT !.fixed = f]
         IN /\ with \in TL!Tab /\ with.id = tab.id /\ with.owner = tab.owner
            /\ with.fixed = f /\ (TL!IsFixedTab(with) <=> f # None)
BY DEF TL!Tab, TL!IsFixedTab

\* reorderFixedTabs: the pinned tabs lead and are numbered from 0; nothing else
\* of the tabs changes.
LEMMA Renumbered ==
  ASSUME NEW list \in Seq(TL!Tab), TL!Distinct(list), PinsLead(list)
  PROVE  LET new == TL!Reordered(list)
         IN /\ ListOK(new) /\ DOMAIN new = DOMAIN list
            /\ \A i \in DOMAIN list : /\ new[i].id = list[i].id /\ new[i].owner = list[i].owner
                                      /\ TL!IsFixedTab(new[i]) <=> TL!IsFixedTab(list[i])
<1> DEFINE new == TL!Reordered(list)
           count(i) == Cardinality({j \in 1..(i - 1) : TL!IsFixedTab(list[j])})
           m == TL!FixedCount(list)
           n == Len(list)
<1>1. n \in Nat /\ DOMAIN list = 1..n /\ \A i \in 1..n : list[i] \in TL!Tab
  BY LenProperties
<1>2. m \in 0..n /\ Pins(list) = 1..m
  BY PinsAreFirst
<1>3. new = [i \in DOMAIN list |-> IF TL!IsFixedTab(list[i])
                                   THEN [list[i] EXCEPT !.fixed = count(i)] ELSE list[i]]
  BY SameCardinality DEF TL!Reordered
<1>4. ASSUME NEW i \in 1..n, TL!IsFixedTab(list[i]) PROVE count(i) = i - 1
  <2> DEFINE those == {j \in 1..(i - 1) : TL!IsFixedTab(list[j])}
  <2>1. i \in 1..m
    BY <1>1, <1>2, <1>4 DEF Pins
  <2>2. \A j \in 1..(i - 1) : j \in 1..m
    BY <1>1, <1>2, <2>1
  <2>3. those = 1..(i - 1)
    BY <1>2, <2>2 DEF Pins
  <2>4. i - 1 \in Nat
    BY <1>1
  <2>5. Cardinality(1..(i - 1)) = i - 1
    BY <2>4, FS_Interval
  <2> HIDE DEF those
  <2> QED BY <2>3, <2>5 DEF those
<1> HIDE DEF new, n, m, count
<1>5. None \notin Nat
  BY NavigationConstants
<1>6. ASSUME NEW i \in 1..n
      PROVE  /\ new[i] \in TL!Tab /\ new[i].id = list[i].id /\ new[i].owner = list[i].owner
             /\ TL!IsFixedTab(new[i]) <=> TL!IsFixedTab(list[i])
             /\ TL!IsFixedTab(list[i]) => new[i].fixed = i - 1
  <2>1. CASE TL!IsFixedTab(list[i])
    <3>1. new[i] = [list[i] EXCEPT !.fixed = i - 1]
      BY <1>1, <1>3, <1>4, <2>1
    <3>2. list[i] \in TL!Tab /\ i - 1 \in Nat
      BY <1>1
    <3> QED BY <1>5, <2>1, <3>1, <3>2, TabWith
  <2>2. CASE ~TL!IsFixedTab(list[i])
    BY <1>1, <1>3, <2>2
  <2> QED BY <2>1, <2>2
<1>7. DOMAIN new = 1..n
  BY <1>1, <1>3
<1>8. new \in Seq(TL!Tab)
  <2>1. new = [i \in 1..n |-> new[i]]
    BY <1>1, <1>3
  <2> QED BY <1>1, <1>6, <2>1
<1>9. TL!Distinct(new)
  BY <1>1, <1>6, <1>7 DEF TL!Distinct
<1>10. PinsFirst(new)
  <2> SUFFICES ASSUME NEW i \in 1..n, NEW j \in 1..n, i < j, TL!IsFixedTab(new[j])
               PROVE  TL!IsFixedTab(new[i]) /\ new[i].fixed < new[j].fixed
    BY <1>7 DEF PinsFirst
  <2>1. TL!IsFixedTab(list[j])
    BY <1>6
  <2>2. TL!IsFixedTab(list[i])
    BY <1>1, <2>1 DEF PinsLead, Pins
  <2>3. new[i].fixed = i - 1 /\ new[j].fixed = j - 1
    BY <1>6, <2>1, <2>2
  <2>4. i - 1 < j - 1
    BY <1>1
  <2> QED BY <1>6, <2>2, <2>3, <2>4
<1> QED BY <1>1, <1>6, <1>7, <1>8, <1>9, <1>10 DEF ListOK, new

\* A move, perhaps with a change, that leaves the tab its id leaves the list its
\* tabs.
LEMMA MovedKeeps ==
  ASSUME NEW list \in Seq(TL!Tab), TL!Distinct(list), NEW from \in DOMAIN list,
         NEW to \in DOMAIN list, NEW tab \in TL!Tab, tab.id = list[from].id
  PROVE  LET moved == TL!MoveTo(list, from, to, tab)
         IN /\ moved \in Seq(TL!Tab) /\ DOMAIN moved = DOMAIN list /\ TL!Distinct(moved)
            /\ TL!IdsIn(moved) = TL!IdsIn(list) /\ moved[to] = tab
            /\ \A k \in DOMAIN list : k # to => \E i \in DOMAIN list : i # from /\ moved[k] = list[i]
<1> DEFINE n == Len(list)
           moved == TL!MoveTo(list, from, to, tab)
           at == [k \in 1..n |-> IF k = to THEN from
                                 ELSE IF k < to THEN IF k < from THEN k ELSE k + 1
                                 ELSE IF k - 1 < from THEN k - 1 ELSE k]
<1>1. n \in Nat /\ DOMAIN list = 1..n /\ from \in 1..n /\ to \in 1..n
  BY LenProperties
<1>2. /\ moved \in Seq(TL!Tab) /\ Len(moved) = n
      /\ \A k \in 1..n : moved[k] = Shifted(list, from, to, tab, k)
  BY Moved
<1>3. DOMAIN moved = 1..n
  BY <1>2, LenProperties
<1> HIDE DEF n, moved
<1>4. \A k \in 1..n : at[k] \in 1..n /\ (at[k] = from <=> k = to)
  BY <1>1
<1>5. \A k, l \in 1..n : at[k] = at[l] => k = l
  BY <1>1
<1>6. \A k \in 1..n : k # to => moved[k] = list[at[k]]
  BY <1>2 DEF Shifted
<1> HIDE DEF at
<1>7. moved[to] = tab
  BY <1>1, <1>2 DEF Shifted
<1>8. \A k \in 1..n : moved[k].id = list[at[k]].id
  BY <1>1, <1>4, <1>6, <1>7
<1>9. TL!Distinct(moved)
  BY <1>1, <1>3, <1>4, <1>5, <1>8, SMTT(30) DEF TL!Distinct
<1>10. \A i \in 1..n : \E k \in 1..n : at[k] = i
  <2> DEFINE f == [k \in 1..n |-> at[k]]
  <2>1. f \in Injection(1..n, 1..n)
    BY <1>4, <1>5 DEF Injection, IsInjective
  <2>2. IsFiniteSet(1..n)
    BY <1>1, FS_Interval
  <2> HIDE DEF f
  <2>3. f \in Surjection(1..n, 1..n)
    BY <2>1, <2>2, FS_Injection
  <2> USE DEF f
  <2> QED BY <2>3 DEF Surjection
<1>11. TL!IdsIn(moved) = TL!IdsIn(list)
  <2>1. TL!IdsIn(moved) = {moved[k].id : k \in 1..n} /\ TL!IdsIn(list) = {list[k].id : k \in 1..n}
    BY <1>1, <1>3 DEF TL!IdsIn
  <2>2. {moved[k].id : k \in 1..n} \subseteq {list[k].id : k \in 1..n}
    BY <1>4, <1>8
  <2>3. ASSUME NEW i \in 1..n PROVE list[i].id \in {moved[k].id : k \in 1..n}
    <3>1. PICK k \in 1..n : at[k] = i
      BY <1>10
    <3> QED BY <1>8, <3>1
  <2> QED BY <2>1, <2>2, <2>3
<1>12. \A k \in 1..n : k # to => \E i \in 1..n : i # from /\ moved[k] = list[i]
  BY <1>4, <1>6
<1> QED BY <1>1, <1>2, <1>3, <1>7, <1>9, <1>11, <1>12 DEF moved

\* The tab with an id.
LEMMA IndexIsPlace ==
  ASSUME NEW list, NEW id \in TL!IdsIn(list)
  PROVE  /\ TL!IndexOf(list, id) \in DOMAIN list /\ list[TL!IndexOf(list, id)].id = id
         /\ TL!Distinct(list) => \A i \in DOMAIN list : list[i].id = id => i = TL!IndexOf(list, id)
BY DEF TL!IdsIn, TL!IndexOf, TL!Distinct

\* Who sees a list, sees one whose tabs are pinned or hers as those are.
LEMMA MineFrom ==
  ASSUME NEW list, NEW new, NEW u, Mine(list, u),
         \A k \in DOMAIN new : \/ new[k].owner = u \/ TL!IsFixedTab(new[k])
                               \/ \E i \in DOMAIN list : /\ new[k].owner = list[i].owner
                                                         /\ TL!IsFixedTab(new[k]) <=> TL!IsFixedTab(list[i])
  PROVE  Mine(new, u)
BY DEF Mine

\* fixTab: the tab becomes the last pinned one.
LEMMA FixKeeps ==
  ASSUME NEW list, ListOK(list), NEW id \in TL!IdsIn(list), id \notin TL!FixedTabIds(list)
  PROVE  LET new == TL!FixTab(list, id)
         IN /\ ListOK(new) /\ TL!IdsIn(new) = TL!IdsIn(list)
            /\ \A u : Mine(list, u) => Mine(new, u)
<1> DEFINE i == TL!IndexOf(list, id)
           m == TL!FixedCount(list)
           n == Len(list)
           tab == [list[i] EXCEPT !.fixed = m]
           moved == TL!MoveTo(list, i, m + 1, tab)
           new == TL!Reordered(moved)
<1>1. list \in Seq(TL!Tab) /\ TL!Distinct(list) /\ PinsLead(list)
  BY DEF ListOK, PinsFirst, PinsLead, Pins
<1>2. n \in Nat /\ DOMAIN list = 1..n /\ \A k \in 1..n : list[k] \in TL!Tab
  BY <1>1, LenProperties
<1>3. m \in 0..n /\ Pins(list) = 1..m
  BY <1>1, PinsAreFirst
<1>4. i \in 1..n /\ list[i].id = id
  BY <1>2, IndexIsPlace
<1>5. new = TL!FixTab(list, id)
  BY DEF TL!FixTab
<1> HIDE DEF i, m, n
<1>6. i \notin 1..m
  BY <1>2, <1>3, <1>4 DEF Pins, TL!FixedTabIds
<1>7. m + 1 \in 1..n /\ m < i
  BY <1>2, <1>3, <1>4, <1>6
<1>8. tab \in TL!Tab /\ tab.id = list[i].id /\ TL!IsFixedTab(tab)
  <2>1. list[i] \in TL!Tab /\ m \in Nat /\ m # None
    BY <1>2, <1>3, <1>4, NavigationConstants
  <2> QED BY <2>1, TabWith
<1> HIDE DEF tab, moved, new
<1>9. /\ moved \in Seq(TL!Tab) /\ DOMAIN moved = 1..n /\ TL!Distinct(moved)
      /\ TL!IdsIn(moved) = TL!IdsIn(list) /\ moved[m + 1] = tab
      /\ \A k \in 1..n : k # m + 1 => \E j \in 1..n : j # i /\ moved[k] = list[j]
  <2>1. i \in DOMAIN list /\ m + 1 \in DOMAIN list /\ tab \in TL!Tab /\ tab.id = list[i].id
    BY <1>2, <1>4, <1>7, <1>8
  <2> DEFINE put == TL!MoveTo(list, i, m + 1, tab)
  <2>2. /\ put \in Seq(TL!Tab) /\ DOMAIN put = DOMAIN list /\ TL!Distinct(put)
        /\ TL!IdsIn(put) = TL!IdsIn(list) /\ put[m + 1] = tab
        /\ \A k \in DOMAIN list : k # m + 1 => \E j \in DOMAIN list : j # i /\ put[k] = list[j]
    BY <1>1, <2>1, MovedKeeps
  <2> QED BY <1>2, <2>2 DEF moved
<1>10. \A k \in 1..n :
         moved[k] = IF k = m + 1 THEN tab
                    ELSE IF k < m + 1 THEN IF k < i THEN list[k] ELSE list[k + 1]
                    ELSE IF k - 1 < i THEN list[k - 1] ELSE list[k]
  <2>1. i \in DOMAIN list /\ m + 1 \in DOMAIN list /\ tab \in TL!Tab
    BY <1>2, <1>4, <1>7, <1>8
  <2> DEFINE put == TL!MoveTo(list, i, m + 1, tab)
  <2>2. \A k \in 1..Len(list) : put[k] = Shifted(list, i, m + 1, tab, k)
    BY <1>1, <2>1, Moved
  <2> QED BY <2>2 DEF moved, n, Shifted
<1>11. Pins(moved) = 1..(m + 1)
  <2>1. ASSUME NEW k \in 1..n PROVE TL!IsFixedTab(moved[k]) <=> k \in 1..(m + 1)
    <3>1. CASE k = m + 1
      BY <1>3, <1>8, <1>9, <3>1
    <3>2. CASE k < m + 1
      <4>1. k < i /\ k \in 1..m /\ k \in 1..(m + 1) /\ k # m + 1
        BY <1>2, <1>3, <1>4, <1>7, <3>2
      <4>2. moved[k] = list[k]
        BY <1>10, <3>2, <4>1
      <4> QED BY <1>3, <4>1, <4>2 DEF Pins
    <3>3. CASE k > m + 1
      <4>1. k \notin 1..(m + 1) /\ k - 1 \notin 1..m /\ k \notin 1..m /\ k # m + 1 /\ ~(k < m + 1)
            /\ k - 1 \in 1..n
        BY <1>2, <1>3, <3>3
      <4>2. moved[k] \in {list[k - 1], list[k]}
        BY <1>10, <4>1
      <4> QED BY <1>2, <1>3, <4>1, <4>2 DEF Pins
    <3> QED BY <1>3, <3>1, <3>2, <3>3
  <2>2. \A k \in 1..(m + 1) : k \in 1..n
    BY <1>2, <1>3, <1>7
  <2> QED BY <1>9, <2>1, <2>2 DEF Pins
<1>12. PinsLead(moved)
  BY <1>3, <1>9, <1>11 DEF PinsLead
<1>13. /\ ListOK(new) /\ DOMAIN new = 1..n
       /\ \A k \in 1..n : /\ new[k].id = moved[k].id /\ new[k].owner = moved[k].owner
                          /\ TL!IsFixedTab(new[k]) <=> TL!IsFixedTab(moved[k])
  BY <1>9, <1>12, Renumbered DEF new
<1>14. TL!IdsIn(new) = TL!IdsIn(list)
  <2>1. {new[k].id : k \in 1..n} = {moved[k].id : k \in 1..n}
    BY <1>13
  <2>2. TL!IdsIn(new) = {new[k].id : k \in 1..n} /\ TL!IdsIn(moved) = {moved[k].id : k \in 1..n}
    BY <1>9, <1>13 DEF TL!IdsIn
  <2> QED BY <1>9, <2>1, <2>2
<1>15. ASSUME NEW u, Mine(list, u) PROVE Mine(new, u)
  <2>1. ASSUME NEW k \in 1..n
        PROVE  \/ TL!IsFixedTab(new[k])
               \/ \E j \in 1..n : /\ new[k].owner = list[j].owner
                                  /\ TL!IsFixedTab(new[k]) <=> TL!IsFixedTab(list[j])
    BY <1>8, <1>9, <1>13
  <2> QED BY <1>2, <1>13, <1>15, <2>1, MineFrom
<1> QED BY <1>5, <1>13, <1>14, <1>15

\* unfixTab: the tab becomes the first that is not pinned.
LEMMA UnfixKeeps ==
  ASSUME NEW list, ListOK(list), NEW id \in TL!FixedTabIds(list)
  PROVE  LET new == TL!UnfixTab(list, id)
         IN /\ ListOK(new) /\ TL!IdsIn(new) = TL!IdsIn(list)
            /\ \A k \in DOMAIN new : new[k].id # id =>
                 \E j \in DOMAIN list : /\ new[k].owner = list[j].owner
                                        /\ TL!IsFixedTab(new[k]) <=> TL!IsFixedTab(list[j])
<1> DEFINE i == TL!IndexOf(list, id)
           m == TL!FixedCount(list)
           n == Len(list)
           tab == [list[i] EXCEPT !.fixed = None]
           one == [list EXCEPT ![i] = tab]
           moved == TL!MoveTo(list, i, m, tab)
           new == TL!Reordered(moved)
<1>1. list \in Seq(TL!Tab) /\ TL!Distinct(list) /\ PinsLead(list)
  BY DEF ListOK, PinsFirst, PinsLead, Pins
<1>2. n \in Nat /\ DOMAIN list = 1..n /\ \A k \in 1..n : list[k] \in TL!Tab
  BY <1>1, LenProperties
<1>3. m \in 0..n /\ Pins(list) = 1..m
  BY <1>1, PinsAreFirst
<1>4. id \in TL!IdsIn(list) /\ i \in 1..m /\ i \in 1..n /\ list[i].id = id
  <2>1. PICK j \in Pins(list) : list[j].id = id
    BY DEF TL!FixedTabIds, Pins
  <2>2. j \in DOMAIN list /\ id \in TL!IdsIn(list)
    BY <2>1 DEF Pins, TL!IdsIn
  <2>3. j = i
    BY <1>1, <2>1, <2>2, IndexIsPlace
  <2> QED BY <1>2, <1>3, <2>1, <2>2, <2>3
<1> HIDE DEF i, n
<1>5. tab \in TL!Tab /\ tab.id = id /\ ~TL!IsFixedTab(tab) /\ list[i] \in TL!Tab
  BY <1>2, <1>4, TabWith
<1> HIDE DEF tab
<1>6. TL!FixedCount(one) + 1 = m
  <2> DEFINE ids == TL!FixedTabIds(list)
  <2>1. DOMAIN one = 1..n /\ one[i] = tab /\ \A k \in 1..n : k # i => one[k] = list[k]
    BY <1>2, <1>4
  <2> HIDE DEF one
  <2>2. \A k \in 1..n : TL!IsFixedTab(one[k]) <=> TL!IsFixedTab(list[k]) /\ k # i
    BY <1>5, <2>1
  <2>3. TL!FixedTabIds(one) = {one[k].id : k \in {j \in 1..n : TL!IsFixedTab(one[j])}}
        /\ ids = {list[k].id : k \in {j \in 1..n : TL!IsFixedTab(list[j])}}
    BY <1>2, <2>1 DEF TL!FixedTabIds
  <2>4. \A k \in 1..n : k # i => list[k].id # id
    BY <1>1, <1>2, <1>4 DEF TL!Distinct
  <2>5. TL!FixedTabIds(one) = ids \ {id}
    <3>1. ASSUME NEW x \in TL!FixedTabIds(one) PROVE x \in ids \ {id}
      <4>1. PICK k \in 1..n : TL!IsFixedTab(one[k]) /\ x = one[k].id
        BY <2>3
      <4> QED BY <2>1, <2>2, <2>3, <2>4, <4>1
    <3>2. ASSUME NEW x \in ids \ {id} PROVE x \in TL!FixedTabIds(one)
      <4>1. PICK k \in 1..n : TL!IsFixedTab(list[k]) /\ x = list[k].id
        BY <2>3
      <4>2. k # i /\ one[k].id = x /\ TL!IsFixedTab(one[k])
        BY <1>4, <2>1, <2>2, <3>2, <4>1
      <4> QED BY <2>3, <4>2
    <3> QED BY <3>1, <3>2
  <2> HIDE DEF ids
  <2>6. IsFiniteSet(ids) /\ m = Cardinality(ids) /\ m \in Nat
    BY <1>1, <1>3, PinsByIds, SameCardinality DEF TL!FixedCount, ids
  <2>7. Cardinality(ids \ {id}) = m - 1
    <3>1. id \in ids
      BY DEF ids
    <3> QED BY <2>6, <3>1, FS_RemoveElement
  <2>8. TL!FixedCount(one) = m - 1
    BY <2>5, <2>7, SameCardinality DEF TL!FixedCount
  <2> QED BY <2>6, <2>8
<1> HIDE DEF m
<1>7. new = TL!UnfixTab(list, id)
  <2>1. TL!UnfixTab(list, id) = TL!Reordered(TL!MoveTo(list, i, TL!FixedCount(one) + 1, tab))
    BY DEF TL!UnfixTab, i, tab
  <2> QED BY <1>6, <2>1
<1>8. m \in 1..n
  BY <1>2, <1>3, <1>4
<1> HIDE DEF moved, new, one
<1>9. /\ moved \in Seq(TL!Tab) /\ DOMAIN moved = 1..n /\ TL!Distinct(moved)
      /\ TL!IdsIn(moved) = TL!IdsIn(list) /\ moved[m] = tab
      /\ \A k \in 1..n : k # m => \E j \in 1..n : j # i /\ moved[k] = list[j]
  <2>1. i \in DOMAIN list /\ m \in DOMAIN list /\ tab \in TL!Tab /\ tab.id = list[i].id
    BY <1>2, <1>4, <1>5, <1>8
  <2> DEFINE put == TL!MoveTo(list, i, m, tab)
  <2>2. /\ put \in Seq(TL!Tab) /\ DOMAIN put = DOMAIN list /\ TL!Distinct(put)
        /\ TL!IdsIn(put) = TL!IdsIn(list) /\ put[m] = tab
        /\ \A k \in DOMAIN list : k # m => \E j \in DOMAIN list : j # i /\ put[k] = list[j]
    BY <1>1, <2>1, MovedKeeps
  <2> QED BY <1>2, <2>2 DEF moved
<1>10. \A k \in 1..n :
         moved[k] = IF k = m THEN tab
                    ELSE IF k < m THEN IF k < i THEN list[k] ELSE list[k + 1]
                    ELSE IF k - 1 < i THEN list[k - 1] ELSE list[k]
  <2>1. i \in DOMAIN list /\ m \in DOMAIN list /\ tab \in TL!Tab
    BY <1>2, <1>4, <1>5, <1>8
  <2> DEFINE put == TL!MoveTo(list, i, m, tab)
  <2>2. \A k \in 1..Len(list) : put[k] = Shifted(list, i, m, tab, k)
    BY <1>1, <2>1, Moved
  <2> QED BY <2>2 DEF moved, n, Shifted
<1>11. Pins(moved) = 1..(m - 1)
  <2>1. ASSUME NEW k \in 1..n PROVE TL!IsFixedTab(moved[k]) <=> k \in 1..(m - 1)
    <3>1. CASE k = m
      BY <1>3, <1>5, <1>9, <3>1
    <3>2. CASE k < m
      <4>1. k \in 1..m /\ k + 1 \in 1..m /\ k \in 1..(m - 1) /\ k # m
        BY <1>3, <3>2
      <4>2. moved[k] \in {list[k], list[k + 1]}
        BY <1>10, <3>2, <4>1
      <4> QED BY <1>3, <4>1, <4>2 DEF Pins
    <3>3. CASE k > m
      <4>1. k \notin 1..(m - 1) /\ k \notin 1..m /\ k # m /\ ~(k < m) /\ ~(k - 1 < i)
        BY <1>3, <1>4, <3>3
      <4>2. moved[k] = list[k]
        BY <1>10, <4>1
      <4> QED BY <1>2, <1>3, <4>1, <4>2 DEF Pins
    <3> QED BY <1>3, <3>1, <3>2, <3>3
  <2>2. \A k \in 1..(m - 1) : k \in 1..n
    BY <1>2, <1>3
  <2> QED BY <1>9, <2>1, <2>2 DEF Pins
<1>12. PinsLead(moved)
  BY <1>3, <1>9, <1>11 DEF PinsLead
<1>13. /\ ListOK(new) /\ DOMAIN new = 1..n
       /\ \A k \in 1..n : /\ new[k].id = moved[k].id /\ new[k].owner = moved[k].owner
                          /\ TL!IsFixedTab(new[k]) <=> TL!IsFixedTab(moved[k])
  BY <1>9, <1>12, Renumbered DEF new
<1>14. TL!IdsIn(new) = TL!IdsIn(list)
  <2>1. {new[k].id : k \in 1..n} = {moved[k].id : k \in 1..n}
    BY <1>13
  <2>2. TL!IdsIn(new) = {new[k].id : k \in 1..n} /\ TL!IdsIn(moved) = {moved[k].id : k \in 1..n}
    BY <1>9, <1>13 DEF TL!IdsIn
  <2> QED BY <1>9, <2>1, <2>2
<1>15. ASSUME NEW k \in DOMAIN new, new[k].id # id
       PROVE  \E j \in DOMAIN list : /\ new[k].owner = list[j].owner
                                     /\ TL!IsFixedTab(new[k]) <=> TL!IsFixedTab(list[j])
  <2>1. k \in 1..n /\ k # m
    BY <1>5, <1>9, <1>13, <1>15
  <2>2. PICK j \in 1..n : moved[k] = list[j]
    BY <1>9, <2>1
  <2> QED BY <1>2, <1>13, <2>1, <2>2
<1> QED BY <1>7, <1>13, <1>14, <1>15

\* Whoever unpins a tab becomes its owner; nothing else of the tabs changes.
LEMMA AdoptedKeeps ==
  ASSUME NEW list, ListOK(list), NEW i \in DOMAIN list, NEW v \in Users
  PROVE  LET new == [list EXCEPT ![i].owner = v]
         IN /\ ListOK(new) /\ TL!IdsIn(new) = TL!IdsIn(list) /\ DOMAIN new = DOMAIN list
            /\ new[i].owner = v
            /\ \A k \in DOMAIN list : k # i => new[k] = list[k]
<1> DEFINE new == [list EXCEPT ![i].owner = v]
           tab == [list[i] EXCEPT !.owner = v]
           n == Len(list)
<1>1. n \in Nat /\ DOMAIN list = 1..n /\ \A k \in 1..n : list[k] \in TL!Tab
  BY LenProperties DEF ListOK
<1>2. list[i] \in TL!Tab
  BY <1>1
<1>3. tab \in TL!Tab /\ tab.id = list[i].id /\ tab.owner = v /\ tab.fixed = list[i].fixed
      /\ (TL!IsFixedTab(tab) <=> TL!IsFixedTab(list[i]))
  BY <1>2 DEF TL!Tab, TL!IsFixedTab
<1>4. DOMAIN new = 1..n /\ new[i] = tab /\ \A k \in 1..n : k # i => new[k] = list[k]
  BY <1>1
<1> HIDE DEF n, tab
<1>5. \A k \in 1..n : /\ new[k] \in TL!Tab /\ new[k].id = list[k].id /\ new[k].fixed = list[k].fixed
                      /\ TL!IsFixedTab(new[k]) <=> TL!IsFixedTab(list[k])
  BY <1>1, <1>3, <1>4
<1>6. new \in Seq(TL!Tab)
  <2>1. new = [k \in 1..n |-> new[k]]
    BY <1>1
  <2> HIDE DEF new
  <2> QED BY <1>1, <1>5, <2>1
<1> HIDE DEF new
<1>7. TL!Distinct(new) /\ PinsFirst(new)
  BY <1>1, <1>4, <1>5 DEF ListOK, TL!Distinct, PinsFirst
<1>8. TL!IdsIn(new) = TL!IdsIn(list)
  <2>1. {new[k].id : k \in 1..n} = {list[k].id : k \in 1..n}
    BY <1>5
  <2>2. TL!IdsIn(new) = {new[k].id : k \in 1..n} /\ TL!IdsIn(list) = {list[k].id : k \in 1..n}
    BY <1>1, <1>4 DEF TL!IdsIn
  <2> QED BY <2>1, <2>2
<1> QED BY <1>1, <1>3, <1>4, <1>6, <1>7, <1>8 DEF ListOK, new

\* getAllTabs: sorting the tabs by pin, fixedIndex and place changes nothing,
\* as the pinned tabs come first and upwards.
LEMMA SortedAlready == ASSUME NEW list, ListOK(list) PROVE TL!AllTabs(list) = list
<1> DEFINE n == Len(list)
           open == {i \in DOMAIN list : list[i].id # Home}
           before(i, j) ==
             \/ TL!IsFixedTab(list[i]) /\ ~TL!IsFixedTab(list[j])
             \/ TL!IsFixedTab(list[i]) /\ TL!IsFixedTab(list[j]) /\ list[i].fixed < list[j].fixed
             \/ list[i].fixed = list[j].fixed /\ i < j
           place(i) == Cardinality({j \in open : before(j, i)}) + 1
<1>1. /\ n \in Nat /\ DOMAIN list = 1..n /\ list = [i \in 1..n |-> list[i]]
      /\ \A i \in 1..n : list[i] \in TL!Tab
  BY LenProperties DEF ListOK
<1>2. TL!AllTabs(list) = [k \in 1..Cardinality(open) |-> list[CHOOSE i \in open : place(i) = k]]
  BY DEF TL!AllTabs, TL!Cardinality, Cardinality
<1>3. open = 1..n
  <2>1. \A i \in 1..n : list[i].id # Home
    <3> SUFFICES ASSUME NEW i \in 1..n PROVE list[i].id # Home
      OBVIOUS
    <3>1. list[i].id \in Pages
      BY <1>1 DEF TL!Tab
    <3> QED BY <3>1, NavigationConstants
  <2> QED BY <1>1, <2>1
<1> HIDE DEF n, open
<1>4. ASSUME NEW i \in 1..n, NEW j \in 1..n PROVE before(i, j) <=> i < j
  <2>1. i < j /\ TL!IsFixedTab(list[j]) => TL!IsFixedTab(list[i]) /\ list[i].fixed < list[j].fixed
    BY <1>1 DEF ListOK, PinsFirst
  <2>2. j < i /\ TL!IsFixedTab(list[i]) => TL!IsFixedTab(list[j]) /\ list[j].fixed < list[i].fixed
    BY <1>1 DEF ListOK, PinsFirst
  <2>3. /\ TL!IsFixedTab(list[i]) => list[i].fixed \in Nat
        /\ TL!IsFixedTab(list[j]) => list[j].fixed \in Nat
        /\ ~TL!IsFixedTab(list[i]) => list[i].fixed = None
        /\ ~TL!IsFixedTab(list[j]) => list[j].fixed = None
    BY <1>1 DEF TL!Tab, TL!IsFixedTab
  <2>4. i \in Nat /\ j \in Nat /\ None \notin Nat
    BY <1>1, NavigationConstants
  <2> DEFINE fi == list[i].fixed
             fj == list[j].fixed
             pi == TL!IsFixedTab(list[i])
             pj == TL!IsFixedTab(list[j])
  <2>5. i < j \/ i = j \/ j < i
    BY <2>4
  <2>6. /\ pi /\ pj /\ i < j => fi < fj
        /\ pi /\ pj /\ j < i => ~(fi < fj)
        /\ pi /\ pj /\ i = j => ~(fi < fj)
    BY <2>1, <2>2, <2>3, <2>4
  <2>7. /\ pi /\ ~pj => i < j /\ fi # fj
        /\ ~pi /\ pj => ~(i < j) /\ fi # fj
        /\ ~pi /\ ~pj => fi = fj
    BY <2>1, <2>2, <2>3, <2>4, <2>5
  <2>8. ~(i < j) <=> (i = j \/ j < i)
    BY <2>4
  <2> HIDE DEF fi, fj, pi, pj
  <2>9. ((pi /\ ~pj) \/ (pi /\ pj /\ fi < fj) \/ (fi = fj /\ i < j)) <=> i < j
    <3>1. CASE pi /\ pj
      BY <2>5, <2>6, <2>8, <3>1, Zenon
    <3>2. CASE pi /\ ~pj
      BY <2>7, <3>2, Zenon
    <3>3. CASE ~pi
      BY <2>7, <3>3, Zenon
    <3> QED BY <3>1, <3>2, <3>3, Zenon
  <2> QED BY <2>9, Zenon DEF fi, fj, pi, pj
<1>5. ASSUME NEW i \in 1..n PROVE place(i) = i
  <2> DEFINE those == {j \in open : before(j, i)}
  <2>1. those = {j \in 1..n : j < i}
    BY <1>3, <1>4
  <2>2. {j \in 1..n : j < i} = 1..(i - 1)
    BY <1>1
  <2>3. i - 1 \in Nat
    BY <1>1
  <2>4. Cardinality(1..(i - 1)) = i - 1
    BY <2>3, FS_Interval
  <2> HIDE DEF those
  <2>5. those = 1..(i - 1)
    BY <2>1, <2>2
  <2>6. Cardinality(those) = i - 1
    BY <2>4, <2>5
  <2>7. Cardinality(those) + 1 = i
    BY <1>1, <2>6
  <2> QED BY <2>7 DEF those
<1>6. Cardinality(open) = n
  BY <1>1, <1>3, FS_Interval
<1> HIDE DEF place
<1>7. \A k \in 1..n : (CHOOSE i \in open : place(i) = k) = k
  BY <1>3, <1>5
<1> QED BY <1>1, <1>2, <1>6, <1>7

\* removeTab: the list loses that tab and no other; what is shown next is
\* another of its tabs, or home.
LEMMA WithoutKeeps ==
  ASSUME NEW list, ListOK(list), NEW id \in TL!IdsIn(list)
  PROVE  LET rest == TL!Without(list, id)
         IN /\ ListOK(rest) /\ TL!IdsIn(rest) = TL!IdsIn(list) \ {id}
            /\ \A u : Mine(list, u) => Mine(rest, u)
            /\ TL!NextAfter(list, id) \in TL!IdsIn(rest) \cup {Home}
<1> DEFINE i == TL!IndexOf(list, id)
           n == Len(list)
           rest == TL!Without(list, id)
           at == [k \in 1..(n - 1) |-> IF k < i THEN k ELSE k + 1]
<1>1. list \in Seq(TL!Tab) /\ TL!Distinct(list) /\ n \in Nat /\ DOMAIN list = 1..n
  BY LenProperties DEF ListOK
<1>2. i \in 1..n /\ list[i].id = id /\ \A k \in 1..n : list[k].id = id => k = i
  BY <1>1, IndexIsPlace
<1>3. /\ rest \in Seq(TL!Tab) /\ Len(rest) = n - 1
      /\ \A k \in 1..(n - 1) : rest[k] = IF k < i THEN list[k] ELSE list[k + 1]
  <2>1. i \in DOMAIN list
    BY <1>1, <1>2
  <2> DEFINE left == TL!RemoveAt(list, i)
  <2>2. /\ left \in Seq(TL!Tab) /\ Len(left) = Len(list) - 1
        /\ \A k \in 1..(Len(list) - 1) : left[k] = IF k < i THEN list[k] ELSE list[k + 1]
    BY <1>1, <2>1, RemovedAt
  <2> QED BY <2>2 DEF TL!Without
<1>4. DOMAIN rest = 1..(n - 1)
  BY <1>3, LenProperties
<1> HIDE DEF i, n, rest
<1>5. \A k \in 1..(n - 1) : at[k] \in 1..n /\ at[k] # i
  BY <1>1, <1>2
<1>6. \A k, l \in 1..(n - 1) : k < l => at[k] < at[l]
  BY <1>1, <1>2
<1>7. \A k \in 1..(n - 1) : rest[k] = list[at[k]]
  BY <1>3
<1>8. \A j \in 1..n : j # i => \E k \in 1..(n - 1) : at[k] = j
  <2> SUFFICES ASSUME NEW j \in 1..n, j # i PROVE \E k \in 1..(n - 1) : at[k] = j
    OBVIOUS
  <2>1. CASE j < i
    <3>1. j \in 1..(n - 1) /\ at[j] = j
      BY <1>1, <1>2, <2>1
    <3> QED BY <3>1
  <2>2. CASE j > i
    <3>1. j - 1 \in 1..(n - 1) /\ at[j - 1] = j
      BY <1>1, <1>2, <2>2
    <3> QED BY <3>1
  <2> QED BY <1>1, <1>2, <2>1, <2>2
<1>9. at \in [1..(n - 1) -> 1..n]
  BY <1>5
<1> HIDE DEF at
<1>10. Sublist(rest, list)
  BY <1>1, <1>4, <1>6, <1>7, <1>9 DEF Sublist
<1>11. ListOK(rest) /\ \A u : Mine(list, u) => Mine(rest, u)
  BY <1>3, <1>10, SublistsAreLists
<1>12. TL!IdsIn(rest) = TL!IdsIn(list) \ {id}
  <2>1. TL!IdsIn(rest) = {rest[k].id : k \in 1..(n - 1)} /\ TL!IdsIn(list) = {list[k].id : k \in 1..n}
    BY <1>1, <1>4 DEF TL!IdsIn
  <2>2. ASSUME NEW k \in 1..(n - 1) PROVE rest[k].id \in {list[j].id : j \in 1..n} \ {id}
    <3>1. at[k] \in 1..n /\ at[k] # i /\ rest[k] = list[at[k]]
      BY <1>5, <1>7
    <3> QED BY <1>2, <3>1
  <2>3. ASSUME NEW j \in 1..n, list[j].id # id PROVE list[j].id \in {rest[k].id : k \in 1..(n - 1)}
    <3>1. PICK k \in 1..(n - 1) : at[k] = j
      BY <1>2, <1>8, <2>3
    <3> QED BY <1>7, <3>1
  <2> QED BY <2>1, <2>2, <2>3
<1>13. TL!NextAfter(list, id) \in TL!IdsIn(rest) \cup {Home}
  <2>1. TL!NextAfter(list, id) \in {list[j].id : j \in {k \in 1..n : k # i}} \cup {Home}
    <3>1. TL!NextAfter(list, id) = IF i < n THEN list[i + 1].id
                                   ELSE IF i > 1 THEN list[i - 1].id ELSE Home
      BY DEF TL!NextAfter, i, n
    <3>2. i < n => i + 1 \in 1..n /\ i + 1 # i
      BY <1>1, <1>2
    <3>3. i > 1 => i - 1 \in 1..n /\ i - 1 # i
      BY <1>1, <1>2
    <3> QED BY <3>1, <3>2, <3>3
  <2>2. \A j \in 1..n : j # i => list[j].id \in TL!IdsIn(list) \ {id}
    BY <1>1, <1>2 DEF TL!IdsIn
  <2> QED BY <1>12, <2>1, <2>2
<1> QED BY <1>11, <1>12, <1>13 DEF rest

\* The tab at the end of a list, or home.
LEMMA LastIsOpen ==
  ASSUME NEW list \in Seq(TL!Tab)
  PROVE  TL!LastOrHome(list) \in TL!IdsIn(list) \cup {Home}
<1>1. CASE list = <<>>
  BY <1>1 DEF TL!LastOrHome
<1>2. CASE list # <<>>
  <2>1. Len(list) \in DOMAIN list
    BY <1>2, LenProperties, EmptySeq
  <2> QED BY <1>2, <2>1 DEF TL!LastOrHome, TL!IdsIn
<1> QED BY <1>1, <1>2

\* Ids of tabs are pages.
LEMMA IdsArePages ==
  ASSUME NEW list \in Seq(TL!Tab) PROVE TL!IdsIn(list) \subseteq Pages
<1>1. \A k \in DOMAIN list : list[k] \in TL!Tab
  BY LenProperties
<1> QED BY <1>1 DEF TL!IdsIn, TL!Tab

\* addTab: a page that is shown has a tab, behind those that are there.
LEMMA FollowedKeeps ==
  ASSUME NEW list, ListOK(list), NEW p, p \in Pages => user \in Users, p \in Base
  PROVE  LET new == Followed(list, p)
         IN /\ ListOK(new) /\ TL!IdsIn(list) \subseteq TL!IdsIn(new)
            /\ user # None => p = Home \/ TL!Has(new, p)
            /\ user # None /\ Mine(list, user) => Mine(new, user)
            /\ user = None => new = list
<1> DEFINE new == Followed(list, p)
           tab == Opened(p)
           n == Len(list)
<1>1. CASE p = Home \/ user = None
  BY <1>1 DEF Followed
<1>2. CASE p # Home /\ user # None /\ TL!Has(list, p)
  <2>1. new = list
    BY <1>2 DEF Followed, Opened, TL!AddTab
  <2> QED BY <1>2, <2>1
<1>3. CASE p # Home /\ user # None /\ ~TL!Has(list, p)
  <2>1. p \in Pages /\ user \in Users
    BY <1>3 DEF Base
  <2>2. tab \in TL!Tab /\ tab.id = p /\ tab.owner = user /\ ~TL!IsFixedTab(tab)
    BY <2>1 DEF Opened, TL!Tab, TL!IsFixedTab
  <2>3. new = Append(list, tab)
    <3>1. tab.id # Home /\ ~TL!Has(list, tab.id)
      BY <1>3, <2>2
    <3> HIDE DEF tab
    <3>2. Followed(list, p) = TL!AddTab(list, tab)
      BY <1>3 DEF Followed, tab
    <3> QED BY <3>1, <3>2 DEF TL!AddTab
  <2>4. list \in Seq(TL!Tab) /\ n \in Nat /\ DOMAIN list = 1..n
    BY LenProperties DEF ListOK
  <2> HIDE DEF tab, new, n
  <2>5. /\ new \in Seq(TL!Tab) /\ DOMAIN new = 1..(n + 1)
        /\ (\A k \in 1..n : new[k] = list[k]) /\ new[n + 1] = tab
    BY <2>2, <2>3, <2>4, AppendProperties DEF n
  <2>6. \A k \in 1..(n + 1) : k \in 1..n \/ k = n + 1
    BY <2>4
  <2>7. \A k \in 1..n : k \in 1..(n + 1) /\ k # n + 1 /\ ~(n + 1 < k) /\ k < n + 1
    BY <2>4
  <2>8. \A k \in 1..n : new[k].id # p
    BY <1>3, <2>4, <2>5 DEF TL!Has, TL!IdsIn
  <2>9. TL!Distinct(new)
    <3> SUFFICES ASSUME NEW k \in 1..(n + 1), NEW l \in 1..(n + 1), new[k].id = new[l].id
                 PROVE  k = l
      BY <2>5 DEF TL!Distinct
    <3>1. CASE k \in 1..n /\ l \in 1..n
      BY <2>4, <2>5, <3>1 DEF ListOK, TL!Distinct
    <3>2. CASE k = n + 1 \/ l = n + 1
      BY <2>2, <2>5, <2>6, <2>8, <3>2
    <3> QED BY <2>6, <3>1, <3>2
  <2>10. PinsFirst(new)
    <3> SUFFICES ASSUME NEW k \in 1..(n + 1), NEW l \in 1..(n + 1), k < l, TL!IsFixedTab(new[l])
                 PROVE  TL!IsFixedTab(new[k]) /\ new[k].fixed < new[l].fixed
      BY <2>5 DEF PinsFirst
    <3>1. l \in 1..n
      BY <2>2, <2>5, <2>6
    <3>2. k \in 1..n
      BY <2>6, <2>7, <3>1
    <3> QED BY <2>4, <2>5, <3>1, <3>2 DEF ListOK, PinsFirst
  <2>11. TL!IdsIn(list) \subseteq TL!IdsIn(new) /\ TL!Has(new, p)
    <3>1. n + 1 \in DOMAIN new /\ \A k \in DOMAIN list : k \in DOMAIN new /\ new[k] = list[k]
      BY <2>4, <2>5, <2>7
    <3> QED BY <2>2, <2>5, <3>1 DEF TL!IdsIn, TL!Has
  <2>12. Mine(list, user) => Mine(new, user)
    BY <2>2, <2>4, <2>5, <2>6 DEF Mine
  <2> QED BY <1>3, <2>5, <2>9, <2>10, <2>11, <2>12 DEF ListOK, new
<1> QED BY <1>1, <1>2, <1>3

---------------------------------------------------------------------------
(* Types, and the lists of tabs wherever they are kept                     *)

\* What is to follow a navigation: a clear has computed a list of tabs from that
\* of its time, whose owners it leaves alone and which holds the tab to be shown.
ThenOK(then) ==
  /\ then \in Then /\ ListOK(then.list)
  /\ then.kind \in {"switch", "close", "clear"} => then.id \in Base
  /\ then.kind = "clear" =>
       /\ then.id = Home \/ TL!Has(then.list, then.id)
       /\ \A v \in Users : Mine(then.before, v) => Mine(then.list, v)

ThensOK == nav \in Nav /\ ThenOK(nav.then) /\ \A t \in late : ThenOK(t)
ListsOK == ListOK(tabs) /\ (stored.tabs # None => ListOK(stored.tabs))
SessionOK ==
  /\ stored \in [token : Users \cup {None}, last : Users \cup {None}, tabs : {stored.tabs}]
  /\ user \in Users \cup {None}
  /\ authInit \in BOOLEAN
  /\ authRoutes \subseteq Base
ShownOK ==
  /\ page \in Shown \cup {None}
  /\ back \in Shown \cup {None}
  /\ active \in Base \cup {None}
FlagsOK ==
  /\ setupChecked \in BOOLEAN
  /\ events \in 0..MaxEvents
  /\ torn \in BOOLEAN /\ overtaken \in BOOLEAN

TypeInv == ThensOK /\ ListsOK /\ SessionOK /\ ShownOK /\ FlagsOK

\* The invariant says more than the types.
LEMMA TypesHold == TypeInv => NavTypeOK
<1> SUFFICES ASSUME TypeInv PROVE NavTypeOK
  OBVIOUS
<1>1. stored \in [token : Users \cup {None}, last : Users \cup {None},
                  tabs : Seq(TL!Tab) \cup {None}]
  <2>1. stored.tabs \in Seq(TL!Tab) \cup {None}
    BY DEF TypeInv, ListsOK, ListOK
  <2> QED BY <2>1 DEF TypeInv, SessionOK
<1>2. late \subseteq Then /\ nav \in Nav
  BY DEF TypeInv, ThensOK, ThenOK
<1>3. tabs \in Seq(TL!Tab) /\ TL!Distinct(tabs)
  BY DEF TypeInv, ListsOK, ListOK
<1> QED BY <1>1, <1>2, <1>3 DEF TypeInv, SessionOK, ShownOK, FlagsOK, NavTypeOK

\* The empty list.
LEMMA NoTabs == ListOK(<<>>) /\ \A u : Mine(<<>>, u)
<1>1. <<>> \in Seq(TL!Tab) /\ DOMAIN <<>> = {}
  BY EmptySeq
<1> QED BY <1>1 DEF ListOK, TL!Distinct, PinsFirst, Mine

\* What code that awaits a navigation is to do.
LEMMA PlainThens == ThenOK(NoThen) /\ ThenOK(Reset) /\ \A id \in Base : ThenOK(Switch(id)) /\ ThenOK(Close(id))
<1>1. <<>> \in Seq(TL!Tab) /\ ListOK(<<>>)
  BY EmptySeq, NoTabs
<1>2. NoThen \in Then /\ Reset \in Then
  BY <1>1 DEF NoThen, Reset, Then
<1>3. ASSUME NEW id \in Base PROVE Switch(id) \in Then /\ Close(id) \in Then
  BY <1>1, <1>3 DEF NoThen, Switch, Close, Then
<1>4. ThenOK(NoThen) /\ ThenOK(Reset)
  <2>1. NoThen.kind = "none" /\ Reset.kind = "reset" /\ NoThen.list = <<>> /\ Reset.list = <<>>
    BY DEF NoThen, Reset
  <2> QED BY <1>1, <1>2, <2>1 DEF ThenOK
<1>5. ASSUME NEW id \in Base PROVE ThenOK(Switch(id)) /\ ThenOK(Close(id))
  <2>1. /\ Switch(id).kind = "switch" /\ Close(id).kind = "close"
        /\ Switch(id).id = id /\ Close(id).id = id
        /\ Switch(id).list = <<>> /\ Close(id).list = <<>>
    BY DEF NoThen, Switch, Close
  <2> QED BY <1>1, <1>3, <2>1 DEF ThenOK
<1> QED BY <1>4, <1>5

\* A clear.
LEMMA ClearOK ==
  ASSUME ListOK(tabs), NEW list, ListOK(list), NEW id \in TL!IdsIn(list) \cup {Home},
         \A v \in Users : Mine(tabs, v) => Mine(list, v)
  PROVE  ThenOK(Clear(id, list))
<1> DEFINE then == Clear(id, list)
<1>1. then.kind = "clear" /\ then.id = id /\ then.list = list /\ then.before = tabs
  BY DEF Clear
<1>2. id \in Base
  BY IdsArePages DEF ListOK, Base
<1>3. then \in Then
  BY <1>2 DEF Clear, Then, ListOK
<1> HIDE DEF then
<1>4. ThenOK(then)
  BY <1>1, <1>2, <1>3 DEF ThenOK, TL!Has
<1> QED BY <1>4 DEF then

\* Where a navigation goes.
LEMMA Places == Base \subseteq Shown /\ {"login", "403", "404"} \subseteq Shown /\ Home \in Base
BY DEF Base, Shown

\* No navigation is under way, or one begins.
LEMMA BegunOK ==
  ASSUME NEW stage \in {"idle", "boot", "guard"}, NEW to \in Shown \cup {None}, NEW known \in BOOLEAN,
         NEW from \in Shown \cup {None}, NEW then, ThenOK(then),
         nav' = [Idle EXCEPT !.stage = stage, !.to = to, !.known = known, !.back = from,
                             !.then = then]
  PROVE  nav' \in Nav /\ nav'.then = then
<1>1. then \in Then
  BY DEF ThenOK
<1> QED BY <1>1 DEF Idle, Nav

\* No navigation is under way.
LEMMA IdleOK == Idle \in Nav /\ ThenOK(Idle.then) /\ Idle.then = NoThen
<1>1. NoThen \in Then
  BY PlainThens DEF ThenOK
<1>2. Idle.then = NoThen /\ Idle \in Nav
  BY <1>1 DEF Idle, Nav
<1> QED BY <1>2, PlainThens

\* A page loads, with nothing to follow.
LEMMA BootOK == \A to \in Shown : Boot(to) \in Nav /\ Boot(to).then = NoThen
<1>1. NoThen \in Then
  BY PlainThens DEF ThenOK
<1> QED BY <1>1 DEF Boot, Idle, Nav

\* The login form begins a navigation.
LEMMA StartedOK ==
  ASSUME NEW to \in Shown, NEW known \in BOOLEAN,
         nav' = [Idle EXCEPT !.stage = "guard", !.to = to, !.known = known]
  PROVE  nav' \in Nav /\ nav'.then = NoThen
<1>1. NoThen \in Then
  BY PlainThens DEF ThenOK
<1> QED BY <1>1 DEF Idle, Nav

\* router.push keeps the types.
LEMMA PushTypes ==
  ASSUME TypeInv, NEW to \in Base, NEW then, ThenOK(then), Push(to, then)
  PROVE  ThensOK' /\ overtaken' \in BOOLEAN
<1>1. \A t \in Pending(nav.then) \cup Pending(then) : ThenOK(t)
  BY DEF Pending, TypeInv, ThensOK
<1>2. \A t \in late' : ThenOK(t)
  BY <1>1 DEF Push, TypeInv, ThensOK
<1>3. overtaken' \in BOOLEAN
  BY DEF Push
<1>4. nav' \in Nav /\ ThenOK(nav'.then)
  <2>1. CASE to = page
    <3>1. nav' = Idle
      BY <2>1 DEF Push
    <3> QED BY <3>1, IdleOK
  <2>2. CASE to # page
    <3>1. nav' = [Idle EXCEPT !.stage = "guard", !.to = to, !.known = Known(to), !.back = None,
                              !.then = then]
      BY <2>2 DEF Push, Idle
    <3>2. Known(to) \in BOOLEAN /\ to \in Shown
      BY Places DEF Known
    <3> QED BY <3>1, <3>2, BegunOK
  <2> QED BY <2>1, <2>2
<1> QED BY <1>2, <1>3, <1>4 DEF ThensOK

\* The guard leaves what is to follow alone.
LEMMA GuardThens ==
  ASSUME TypeInv, nav' \in Nav, nav'.then = nav.then, \A t \in late' : t \in late \/ ThenOK(t)
  PROVE  ThensOK'
BY DEF TypeInv, ThensOK

\* What is kept of a list is a list of those tabs.
LEMMA OnlyKeeps ==
  ASSUME NEW list, ListOK(list), NEW ids
  PROVE  /\ ListOK(TL!Only(list, ids)) /\ TL!IdsIn(TL!Only(list, ids)) \subseteq TL!IdsIn(list)
         /\ \A u : Mine(list, u) => Mine(TL!Only(list, ids), u)
<1> DEFINE only == TL!Only(list, ids)
<1>1. only \in Seq(TL!Tab) /\ Sublist(only, list)
  BY OnlyKeepsInOrder DEF ListOK
<1> HIDE DEF only
<1>2. ListOK(only) /\ TL!IdsIn(only) \subseteq TL!IdsIn(list) /\ \A u : Mine(list, u) => Mine(only, u)
  BY <1>1, SublistsAreLists
<1> QED BY <1>2 DEF only

\* clearTabs: the pinned tabs stay, whoever owns them, and with no excludes no
\* other tab does.
LEMMA ClearedKeeps ==
  ASSUME NEW list, ListOK(list), NEW excludes
  PROVE  /\ ListOK(TL!Cleared(list, excludes))
         /\ \A u : Mine(list, u) => Mine(TL!Cleared(list, excludes), u)
         /\ \A u : Mine(TL!Cleared(list, {}), u)
<1>1. ListOK(TL!Cleared(list, excludes)) /\ \A u : Mine(list, u) => Mine(TL!Cleared(list, excludes), u)
  BY OnlyKeeps DEF TL!Cleared
<1> DEFINE ids == TL!FixedTabIds(list) \cup {}
           only == TL!Only(list, ids)
<1>2. /\ Sublist(only, list)
      /\ \A k \in DOMAIN only : only[k].id \in ids
  BY OnlyKeepsInOrder DEF ListOK
<1>3. only = TL!Cleared(list, {})
  BY DEF TL!Cleared
<1> HIDE DEF only
<1>4. ASSUME NEW k \in DOMAIN only PROVE TL!IsFixedTab(only[k])
  <2>1. PICK at \in [DOMAIN only -> DOMAIN list] : \A i \in DOMAIN only : only[i] = list[at[i]]
    BY <1>2 DEF Sublist
  <2>2. PICK j \in DOMAIN list : TL!IsFixedTab(list[j]) /\ list[j].id = only[k].id
    BY <1>2 DEF TL!FixedTabIds
  <2>3. j = at[k]
    BY <2>1, <2>2 DEF ListOK, TL!Distinct
  <2> QED BY <2>1, <2>2, <2>3
<1>5. \A u : Mine(only, u)
  BY <1>4 DEF Mine
<1> QED BY <1>1, <1>3, <1>5

\* The user who is logged in when a page is shown is one.
LEMMA ShownToUser ==
  MenusInv /\ TypeInv /\ nav.stage = "load" /\ nav.to \in Pages => user \in Users
<1> SUFFICES ASSUME MenusInv, TypeInv, nav.stage = "load", nav.to \in Pages PROVE user \in Users
  OBVIOUS
<1>1. nav.to # Home /\ Allowed(user, nav.to)
  BY NavigationConstants DEF MenusInv, NavInv, LoadIsAllowed
<1>2. user # None
  BY <1>1 DEF Allowed
<1> QED BY <1>2 DEF TypeInv, SessionOK

\* What the tab bar does with a page that is shown: the page has a tab, and of
\* the tabs none is another user's than of the list it began with, the tabs it
\* showed or, if it mounts, those that were cached.
LEMMA TabsOnKeeps ==
  ASSUME MenusInv, TypeInv, nav.stage = "load"
  PROVE  LET new == TabsOn(nav.to)
         IN /\ ListOK(new)
            /\ nav.to \in Base => nav.to = Home \/ TL!Has(new, nav.to)
            /\ \A u \in Users :
                 /\ user # None => u = user
                 /\ Mine(tabs, u)
                 /\ stored.tabs # None /\ nav.to \in Base => Mine(stored.tabs, u)
                 => Mine(new, u)
<1> DEFINE new == TabsOn(nav.to)
           p == nav.to
           cached == TL!ExtractTabs(stored.tabs, authRoutes)
<1>1. ListOK(tabs) /\ (stored.tabs # None => ListOK(stored.tabs))
  BY DEF TypeInv, ListsOK
<1>2. p \in Pages => user \in Users /\ user # None
  BY ShownToUser, Nobodies
<1>3. \/ p \notin Base /\ new = tabs
      \/ p \in Base /\ new = Followed(tabs, p)
      \/ p \in Base /\ stored.tabs # None /\ new = Followed(cached, p)
  BY DEF TabsOn
<1>4. ASSUME NEW list, ListOK(list), p \in Base, new = Followed(list, p)
      PROVE  /\ ListOK(new) /\ (p = Home \/ TL!Has(new, p))
             /\ \A u : (user # None => u = user) /\ Mine(list, u) => Mine(new, u)
  <2> DEFINE more == Followed(list, p)
  <2>1. /\ ListOK(more) /\ (user # None => p = Home \/ TL!Has(more, p))
        /\ user # None /\ Mine(list, user) => Mine(more, user)
        /\ user = None => more = list
    BY <1>2, <1>4, FollowedKeeps
  <2>2. p = Home \/ p \in Pages
    BY <1>4 DEF Base
  <2> HIDE DEF more
  <2>3. more = new
    BY <1>4 DEF more
  <2> HIDE DEF new, p
  <2> QED BY <1>2, <2>1, <2>2, <2>3
<1>5. CASE p \notin Base /\ new = tabs
  BY <1>1, <1>5
<1>6. CASE p \in Base /\ new = Followed(tabs, p)
  <2> HIDE DEF new, p
  <2> QED BY <1>1, <1>4, <1>6 DEF new, p
<1>7. CASE p \in Base /\ stored.tabs # None /\ new = Followed(cached, p)
  <2>1. ListOK(cached) /\ \A u : Mine(stored.tabs, u) => Mine(cached, u)
    BY <1>1, <1>7, OnlyKeeps DEF TL!ExtractTabs
  <2> HIDE DEF new, p, cached
  <2>2. /\ ListOK(new) /\ (p = Home \/ TL!Has(new, p))
        /\ \A u : (user # None => u = user) /\ Mine(cached, u) => Mine(new, u)
    BY <1>4, <1>7, <2>1
  <2> QED BY <1>7, <2>1, <2>2 DEF new, p
<1> QED BY <1>3, <1>5, <1>6, <1>7

\* The guard keeps the types.
LEMMA GuardTypes == ASSUME TypeInv, MenusInv, Guard PROVE TypeInv'
<1>1. /\ nav \in Nav /\ \A t \in late : ThenOK(t)
      /\ stored.token \in Users \cup {None}
  BY DEF TypeInv, ThensOK, SessionOK
<1>2. ASSUME nav' \in Nav, nav'.then = nav.then,
             UNCHANGED <<stored, user, authInit, authRoutes, page, back, late, events, torn,
                         tabs, active, overtaken>>, setupChecked' \in BOOLEAN
      PROVE  TypeInv'
  <2>1. ThensOK'
    BY <1>1, <1>2, GuardThens
  <2> QED BY <1>2, <2>1 DEF TypeInv, ListsOK, SessionOK, ShownOK, FlagsOK
<1>3. Known(nav.to) \in BOOLEAN /\ Known(Home) \in BOOLEAN
  BY DEF Known
<1>4. setupChecked \in BOOLEAN
  BY DEF TypeInv, FlagsOK
<1>5. ASSUME NEW to \in Shown, NEW known \in BOOLEAN, NEW from \in Shown \cup {None},
             \/ nav' = [Redirected(to) EXCEPT !.known = known]
             \/ nav' = [Redirected(to) EXCEPT !.back = from]
             \/ nav' = Redirected(to)
      PROVE  nav' \in Nav /\ nav'.then = nav.then
  BY <1>1, <1>5, ZenonT(30) DEF Redirected, Nav
<1>6. CASE GuardConstantRoutes
  <2>1. nav' = [nav EXCEPT !.stage = "guard", !.known = Known(nav.to)]
    BY <1>6 DEF GuardConstantRoutes
  <2>2. nav' \in Nav /\ nav'.then = nav.then
    BY <1>1, <1>3, <2>1 DEF Nav
  <2> QED BY <1>2, <1>4, <1>6, <2>2 DEF GuardConstantRoutes, tabVars
<1>7. ASSUME nav' = ToLogin PROVE nav' \in Nav /\ nav'.then = nav.then
  <2>1. PICK from \in Shown \cup {None} : nav' = [Redirected("login") EXCEPT !.back = from]
    BY <1>1, <1>7 DEF ToLogin, Nav
  <2> QED BY <1>5, <2>1, Places
<1>8. CASE GuardAnonymous
  <2>1. nav' = [nav EXCEPT !.stage = "load"] \/ nav' = [nav EXCEPT !.stage = "setup"]
        \/ nav' = ToLogin
    BY <1>8 DEF GuardAnonymous
  <2>2. nav' \in Nav /\ nav'.then = nav.then
    BY <1>1, <1>7, <2>1 DEF Nav
  <2>3. setupChecked' \in BOOLEAN
    BY <1>8 DEF GuardAnonymous
  <2> QED BY <1>2, <1>8, <2>2, <2>3 DEF GuardAnonymous
<1>9. CASE SetupNotNeeded
  BY <1>2, <1>4, <1>7, <1>9 DEF SetupNotNeeded, tabVars
<1>10. CASE GuardAuthRoutes
  <2>1. CASE user = None
    <3>1. nav' = [nav EXCEPT !.stage = "userinfo", !.asked = stored.token]
          /\ UNCHANGED <<authRoutes, authInit>>
      BY <1>10, <2>1 DEF GuardAuthRoutes
    <3>2. nav' \in Nav /\ nav'.then = nav.then
      BY <1>1, <3>1 DEF Nav
    <3> QED BY <1>2, <1>4, <1>10, <3>1, <3>2 DEF GuardAuthRoutes, tabVars
  <2>2. CASE user # None
    <3>1. InitAuth(user)
      BY <1>10, <2>2 DEF GuardAuthRoutes
    <3>2. nav' \in Nav /\ nav'.then = nav.then
      BY <1>1, <3>1 DEF InitAuth, Nav
    <3>3. authRoutes' \subseteq Base /\ authInit' \in BOOLEAN
      BY <3>1 DEF InitAuth, RoutesOf
    <3>4. ThensOK'
      BY <1>1, <1>10, <3>2, GuardThens DEF GuardAuthRoutes
    <3> QED BY <1>10, <3>3, <3>4 DEF GuardAuthRoutes, tabVars, TypeInv, ListsOK, SessionOK,
          ShownOK, FlagsOK
  <2> QED BY <2>1, <2>2
<1>11. CASE GuardChecks
  <2>1. \/ nav' = Redirected("403")
        \/ nav' = [nav EXCEPT !.stage = "load", !.to = "404"]
        \/ nav' = [Redirected(Home) EXCEPT !.known = Known(Home)]
        \/ nav' = [nav EXCEPT !.stage = "load"]
    BY <1>1, <1>11 DEF GuardChecks, Nav
  <2>2. nav' \in Nav /\ nav'.then = nav.then
    <3>1. CASE nav' = Redirected("403")
      BY <1>5, <3>1, Places
    <3>2. CASE nav' = [Redirected(Home) EXCEPT !.known = Known(Home)]
      BY <1>3, <1>5, <3>2, Places
    <3>3. CASE nav' = [nav EXCEPT !.stage = "load", !.to = "404"] \/ nav' = [nav EXCEPT !.stage = "load"]
      BY <1>1, <3>3, Places DEF Nav
    <3> QED BY <2>1, <3>1, <3>2, <3>3
  <2> QED BY <1>2, <1>4, <1>11, <2>2 DEF GuardChecks, tabVars
<1> QED BY <1>6, <1>8, <1>9, <1>10, <1>11 DEF Guard

\* The answer to /auth/getUserInfo keeps the types.
LEMMA UserInfoTypes ==
  ASSUME TypeInv, MenusInv, UserInfoLoaded \/ UserInfoRefused
  PROVE  TypeInv'
<1>1. PICK u : InitAuth(u)
  BY DEF UserInfoLoaded, UserInfoRefused
<1>2. nav' \in Nav /\ nav'.then = nav.then
  <2>1. nav \in Nav
    BY DEF TypeInv, ThensOK
  <2> QED BY <1>1, <2>1 DEF InitAuth, Nav
<1>3. authRoutes' \subseteq Base /\ authInit' \in BOOLEAN
  BY <1>1 DEF InitAuth, RoutesOf
<1>4. \A t \in late' : t \in late \/ ThenOK(t)
  BY PlainThens DEF UserInfoLoaded, UserInfoRefused, tabVars
<1>5. ThensOK'
  BY <1>2, <1>4, GuardThens
<1>6. SessionOK' /\ stored'.tabs = stored.tabs
  <2>1. CASE UserInfoLoaded
    <3>1. nav.asked \in Users \cup {None}
      BY DEF TypeInv, ThensOK, Nav
    <3> QED BY <1>3, <2>1, <3>1 DEF UserInfoLoaded, TypeInv, SessionOK
  <2>2. CASE UserInfoRefused
    BY <1>3, <2>2 DEF UserInfoRefused, TypeInv, SessionOK
  <2> QED BY <2>1, <2>2
<1>7. UNCHANGED <<page, back, events, torn, tabVars>>
  BY DEF UserInfoLoaded, UserInfoRefused
<1> QED BY <1>5, <1>6, <1>7 DEF tabVars, TypeInv, ListsOK, ShownOK, FlagsOK

\* resetStore, once its navigation is over, caches the tabs.
LEMMA ResetTypes ==
  ASSUME TypeInv, ResetRoutes, UNCHANGED user
  PROVE  SessionOK' /\ (stored'.tabs # None => ListOK(stored'.tabs))
<1>1. stored' = [stored EXCEPT !.tabs = tabs]
  BY DEF ResetRoutes
<1>2. stored' \in [token : Users \cup {None}, last : Users \cup {None}, tabs : {stored'.tabs}]
      /\ stored'.tabs = tabs
  BY <1>1 DEF TypeInv, SessionOK
<1> QED BY <1>2 DEF ResetRoutes, TypeInv, SessionOK, ListsOK

\* A page that is shown, and the code that goes on then, keep the types.
LEMMA ShowPageTypes == ASSUME TypeInv, MenusInv, ShowPage PROVE TypeInv'
<1> DEFINE then == nav.then
<1>1. nav \in Nav /\ ThenOK(then) /\ nav.stage = "load"
  BY DEF ShowPage, TypeInv, ThensOK
<1>2. ThensOK'
  <2>1. nav' = Idle /\ late' = late
    BY DEF ShowPage
  <2> QED BY <2>1, IdleOK DEF TypeInv, ThensOK
<1>3. ListOK(tabs')
  <2>1. ListOK(TabsOn(nav.to))
    BY <1>1, TabsOnKeeps
  <2>2. ListOK(then.list)
    BY <1>1 DEF ThenOK
  <2> QED BY <2>1, <2>2 DEF ShowPage
<1>4. SessionOK' /\ (stored'.tabs # None => ListOK(stored'.tabs))
  <2>1. CASE ResetRoutes
    BY <2>1, ResetTypes DEF ShowPage
  <2>2. CASE UNCHANGED <<stored, authInit, authRoutes>>
    BY <2>2 DEF ShowPage, TypeInv, SessionOK, ListsOK
  <2> QED BY <2>1, <2>2 DEF ShowPage
<1>5. ShownOK'
  <2>1. nav.to \in Shown \cup {None} /\ nav.back \in Shown \cup {None}
    BY <1>1 DEF Nav
  <2>2. then.kind \in {"switch", "close", "clear"} => then.id \in Base
    BY <1>1 DEF ThenOK
  <2>3. page' = nav.to /\ back' \in {nav.back, None}
    BY DEF ShowPage
  <2>4. active' = IF then.kind \in {"switch", "close", "clear"} THEN then.id
                  ELSE IF nav.to \in Base THEN nav.to ELSE active
    BY DEF ShowPage
  <2>5. active' \in Base \cup {None}
    <3> HIDE DEF then
    <3> QED BY <2>2, <2>4 DEF TypeInv, ShownOK
  <2> QED BY <2>1, <2>3, <2>5 DEF ShownOK
<1>6. FlagsOK'
  <2>1. overtaken' \in BOOLEAN
    BY DEF ShowPage
  <2> QED BY <2>1 DEF ShowPage, TypeInv, FlagsOK
<1> QED BY <1>2, <1>3, <1>4, <1>5, <1>6 DEF TypeInv, ListsOK

\* The code of a navigation that was given up goes on.
LEMMA GoOnLateTypes == ASSUME TypeInv, MenusInv, GoOnLate PROVE TypeInv'
<1>1. PICK then \in late :
        /\ late' = late \ {then}
        /\ IF then.kind = "clear" THEN tabs' = then.list /\ UNCHANGED <<stored, authInit, authRoutes>>
                                  ELSE ResetRoutes /\ UNCHANGED tabs
  BY DEF GoOnLate
<1>2. UNCHANGED <<setupChecked, user, page, back, nav, active, events, torn>>
  BY DEF GoOnLate
<1>3. overtaken' \in BOOLEAN
  <2>1. PICK t \in late :
          \/ overtaken' = (\/ overtaken \/ tabs # t.before
                           \/ TL!Has(tabs, page) /\ ~TL!Has(t.list, page))
          \/ overtaken' = (overtaken \/ ClearWaits)
    BY DEF GoOnLate
  <2> QED BY <2>1
<1>4. ThenOK(then) /\ ThensOK'
  BY <1>1, <1>2 DEF TypeInv, ThensOK
<1>5. ListsOK' /\ SessionOK'
  <2>1. CASE then.kind = "clear"
    BY <1>1, <1>2, <1>4, <2>1 DEF ThenOK, TypeInv, ListsOK, SessionOK
  <2>2. CASE then.kind # "clear"
    BY <1>1, <1>2, <2>2, ResetTypes DEF TypeInv, ListsOK
  <2> QED BY <2>1, <2>2
<1> QED BY <1>2, <1>3, <1>4, <1>5 DEF TypeInv, ShownOK, FlagsOK

\* Steps that leave the session and the page alone keep the types if they keep
\* those of the tabs and of the navigations.
LEMMA RestTypes ==
  ASSUME TypeInv, ThensOK', ListOK(tabs'), overtaken' \in BOOLEAN, Event,
         UNCHANGED <<setupChecked, stored, user, authInit, authRoutes, page, back, active, torn>>
  PROVE  TypeInv'
<1>1. events' \in 0..MaxEvents
  BY NavigationConstants DEF TypeInv, FlagsOK, Event
<1>2. FlagsOK'
  BY <1>1 DEF TypeInv, FlagsOK
<1>3. ListsOK' /\ SessionOK' /\ ShownOK'
  BY DEF TypeInv, ListsOK, SessionOK, ShownOK
<1> QED BY <1>2, <1>3 DEF TypeInv

\* A step that leaves the navigations alone too.
LEMMA QuietTypes ==
  ASSUME TypeInv, UNCHANGED <<nav, late, overtaken>>
  PROVE  ThensOK' /\ overtaken' \in BOOLEAN
BY DEF TypeInv, ThensOK, FlagsOK

\* clearTabs keeps the types, and leaves no tab of another user but pinned ones.
LEMMA ClearTabsTypes ==
  ASSUME TypeInv, NEW list, ListOK(list), \A v \in Users : Mine(tabs, v) => Mine(list, v),
         ClearTabs(list)
  PROVE  ThensOK' /\ ListOK(tabs') /\ overtaken' \in BOOLEAN
<1>1. ListOK(tabs)
  BY DEF TypeInv, ListsOK
<1>2. CASE UNCHANGED <<nav, late, overtaken>> /\ tabs' \in {tabs, list}
  BY <1>1, <1>2, QuietTypes
<1>3. CASE /\ Push(TL!LastOrHome(list), Clear(TL!LastOrHome(list), list))
           /\ UNCHANGED tabs
  <2> DEFINE next == TL!LastOrHome(list)
             then == Clear(next, list)
  <2>1. next \in TL!IdsIn(list) \cup {Home}
    BY LastIsOpen DEF ListOK
  <2>2. next \in Base
    BY <2>1, IdsArePages DEF ListOK, Base
  <2>3. Push(next, then)
    BY <1>3
  <2> HIDE DEF next
  <2>4. ThenOK(then)
    BY <1>1, <2>1, ClearOK
  <2> HIDE DEF then
  <2>5. ThensOK' /\ overtaken' \in BOOLEAN
    BY <2>2, <2>3, <2>4, PushTypes
  <2> QED BY <1>1, <1>3, <2>5
<1> QED BY <1>2, <1>3 DEF ClearTabs

\* What users do in the console keeps the types.
LEMMA BrowseTypes ==
  ASSUME TypeInv, MenusInv, Visit \/ SwitchTab \/ CloseTab \/ CloseOthers
  PROVE  TypeInv'
<1>1. ListOK(tabs) /\ TL!IdsIn(tabs) \subseteq Pages
  BY IdsArePages DEF TypeInv, ListsOK, ListOK
<1>2. Home \in Base /\ Pages \subseteq Base
  BY DEF Base
<1>3. CASE Visit
  <2>1. PICK p \in Base : Push(p, NoThen)
    BY <1>3 DEF Visit
  <2>2. ThensOK' /\ overtaken' \in BOOLEAN
    BY <2>1, PushTypes, PlainThens
  <2> QED BY <1>1, <1>3, <2>2, RestTypes DEF Visit
<1>4. CASE SwitchTab
  <2>1. PICK id \in TL!IdsIn(tabs) \cup {Home} : Push(id, Switch(id))
    BY <1>4 DEF SwitchTab
  <2>2. id \in Base /\ ThenOK(Switch(id))
    BY <1>1, <1>2, PlainThens
  <2>3. ThensOK' /\ overtaken' \in BOOLEAN
    BY <2>1, <2>2, PushTypes
  <2> QED BY <1>1, <1>4, <2>3, RestTypes DEF SwitchTab
<1>5. CASE CloseTab
  <2>1. PICK id \in TL!IdsIn(tabs) :
          /\ tabs' = TL!Without(tabs, id)
          /\ IF active = id
             THEN Push(TL!NextAfter(tabs, id), Close(TL!NextAfter(tabs, id)))
             ELSE UNCHANGED <<nav, late, overtaken>>
    BY <1>5 DEF CloseTab
  <2>2. ListOK(tabs') /\ TL!NextAfter(tabs, id) \in TL!IdsIn(tabs) \cup {Home}
    <3> DEFINE rest == TL!Without(tabs, id)
    <3>1. ListOK(rest) /\ TL!IdsIn(rest) = TL!IdsIn(tabs) \ {id}
          /\ TL!NextAfter(tabs, id) \in TL!IdsIn(rest) \cup {Home}
      BY <1>1, WithoutKeeps
    <3> HIDE DEF rest
    <3> QED BY <2>1, <3>1 DEF rest
  <2>3. ThensOK' /\ overtaken' \in BOOLEAN
    <3>1. CASE active = id
      <4>1. TL!NextAfter(tabs, id) \in Base
        BY <1>1, <1>2, <2>2
      <4> QED BY <2>1, <3>1, <4>1, PushTypes, PlainThens
    <3>2. CASE active # id
      BY <2>1, <3>2, QuietTypes
    <3> QED BY <3>1, <3>2
  <2> QED BY <1>5, <2>2, <2>3, RestTypes DEF CloseTab
<1>6. CASE CloseOthers
  <2>1. PICK excludes : ClearTabs(TL!Cleared(tabs, excludes))
    BY <1>6 DEF CloseOthers
  <2> DEFINE list == TL!Cleared(tabs, excludes)
  <2>2. ListOK(list) /\ \A v \in Users : Mine(tabs, v) => Mine(list, v)
    BY <1>1, ClearedKeeps
  <2> HIDE DEF list
  <2>3. ThensOK' /\ ListOK(tabs') /\ overtaken' \in BOOLEAN
    BY <2>1, <2>2, ClearTabsTypes DEF list
  <2> QED BY <1>6, <2>3, RestTypes DEF CloseOthers
<1> QED BY <1>3, <1>4, <1>5, <1>6

\* Who adopts a tab is a user, the one who is logged in if there is one, or
\* whoever logged out last.
LEMMA AdoptingUser ==
  ASSUME TypeInv, NEW owner \in Users
  PROVE  LastUser(owner) \in Users
BY DEF LastUser, TypeInv, SessionOK

\* Pinning and unpinning leave the list its tabs, in the order of a list; a user
\* who sees the tabs still sees hers, if it is she who adopts a tab.
LEMMA PinKeeps ==
  ASSUME TypeInv, PinTab
  PROVE  /\ ListOK(tabs') /\ TL!IdsIn(tabs') = TL!IdsIn(tabs)
         /\ \A v \in Users : Mine(tabs, v) /\ (\A owner : LastUser(owner) = v) => Mine(tabs', v)
<1>1. ListOK(tabs) /\ TL!IdsIn(tabs) \subseteq Pages
  BY IdsArePages DEF TypeInv, ListsOK, ListOK
<1>2. PICK id \in TL!IdsIn(tabs) :
        tabs' = IF TL!IsTabRetain(tabs, id)
                THEN LET list == TL!UnfixTab(tabs, id)
                     IN [list EXCEPT ![TL!IndexOf(list, id)].owner = LastUser(@)]
                ELSE TL!FixTab(tabs, id)
  BY DEF PinTab
<1>3. id # Home
  BY <1>1, NavigationConstants
<1>4. CASE ~TL!IsTabRetain(tabs, id)
  <2>1. id \notin TL!FixedTabIds(tabs)
    BY <1>4 DEF TL!IsTabRetain
  <2> DEFINE new == TL!FixTab(tabs, id)
  <2>2. ListOK(new) /\ TL!IdsIn(new) = TL!IdsIn(tabs) /\ \A u : Mine(tabs, u) => Mine(new, u)
    BY <1>1, <2>1, FixKeeps
  <2>3. tabs' = new
    BY <1>2, <1>4
  <2> HIDE DEF new
  <2> QED BY <2>2, <2>3
<1>5. CASE TL!IsTabRetain(tabs, id)
  <2>1. id \in TL!FixedTabIds(tabs)
    BY <1>3, <1>5 DEF TL!IsTabRetain
  <2> DEFINE list == TL!UnfixTab(tabs, id)
             i == TL!IndexOf(list, id)
             v == LastUser(list[i].owner)
             new == [list EXCEPT ![i].owner = v]
  <2>2. /\ ListOK(list) /\ TL!IdsIn(list) = TL!IdsIn(tabs)
        /\ \A k \in DOMAIN list : list[k].id # id =>
             \E j \in DOMAIN tabs : /\ list[k].owner = tabs[j].owner
                                    /\ TL!IsFixedTab(list[k]) <=> TL!IsFixedTab(tabs[j])
    BY <1>1, <2>1, UnfixKeeps
  <2>3. tabs' = new
    BY <1>2, <1>5
  <2> HIDE DEF list
  <2>4. i \in DOMAIN list /\ list[i].id = id
        /\ \A k \in DOMAIN list : list[k].id = id => k = i
    BY <2>2, IndexIsPlace DEF ListOK
  <2> HIDE DEF i
  <2>5. list[i].owner \in Users
    <3>1. list[i] \in TL!Tab
      BY <2>2, <2>4, LenProperties DEF ListOK
    <3> QED BY <3>1 DEF TL!Tab
  <2>6. v \in Users
    BY <2>5, AdoptingUser
  <2>7. /\ ListOK(new) /\ TL!IdsIn(new) = TL!IdsIn(list) /\ DOMAIN new = DOMAIN list
        /\ new[i].owner = v
        /\ \A k \in DOMAIN list : k # i => new[k] = list[k]
    <3> HIDE DEF v
    <3> QED BY <2>2, <2>4, <2>6, AdoptedKeeps
  <2>8. ASSUME NEW u \in Users, Mine(tabs, u), \A owner : LastUser(owner) = u
        PROVE  Mine(tabs', u)
    <3>1. v = u
      BY <2>8
    <3> HIDE DEF new, v
    <3>2. ASSUME NEW k \in DOMAIN new
          PROVE  \/ new[k].owner = u
                 \/ \E j \in DOMAIN tabs : /\ new[k].owner = tabs[j].owner
                                           /\ TL!IsFixedTab(new[k]) <=> TL!IsFixedTab(tabs[j])
      BY <2>2, <2>4, <2>7, <3>1
    <3>3. Mine(new, u)
      BY <2>8, <3>2, MineFrom
    <3> QED BY <2>3, <3>3
  <2> HIDE DEF new
  <2> QED BY <2>2, <2>3, <2>7, <2>8
<1> QED BY <1>4, <1>5

\* Who logs in and out, reloads and other browser tabs keep the types.
LEMMA SessionTypes ==
  ASSUME TypeInv, MenusInv, PinTab \/ Logout \/ Login \/ Reload \/ OtherTab
  PROVE  TypeInv'
<1>1. ListOK(tabs) /\ TL!IdsIn(tabs) \subseteq Pages
      /\ (stored.tabs # None => ListOK(stored.tabs))
  BY IdsArePages DEF TypeInv, ListsOK, ListOK
<1>2. events' \in 0..MaxEvents
  <2>1. Event
    BY DEF PinTab, Logout, Login, Reload, OtherTab
  <2> QED BY <2>1, NavigationConstants DEF TypeInv, FlagsOK, Event
<1>3. stored \in [token : Users \cup {None}, last : Users \cup {None}, tabs : {stored.tabs}]
      /\ user \in Users \cup {None}
  BY DEF TypeInv, SessionOK
<1>4. CASE PinTab
  <2>1. ListOK(tabs')
    BY <1>4, PinKeeps
  <2>2. ThensOK' /\ overtaken' \in BOOLEAN
    BY <1>4, QuietTypes DEF PinTab
  <2> QED BY <1>4, <2>1, <2>2, RestTypes DEF PinTab
<1>5. CASE Logout
  <2>1. nav' = [Idle EXCEPT !.stage = "guard", !.to = "login", !.known = TRUE, !.back = page,
                            !.then = Reset]
    BY <1>5 DEF Logout
  <2>2. nav' \in Nav /\ nav'.then = Reset
    <3>1. "login" \in Shown \cup {None} /\ page \in Shown \cup {None} /\ ThenOK(Reset)
      BY Places, PlainThens DEF TypeInv, ShownOK
    <3> QED BY <2>1, <3>1, BegunOK
  <2>3. \A t \in late' : ThenOK(t)
    BY <1>5 DEF Logout, Pending, TypeInv, ThensOK
  <2>4. ThensOK'
    BY <2>2, <2>3, PlainThens DEF ThensOK
  <2>5. SessionOK' /\ stored'.tabs = stored.tabs
    BY <1>3, <1>5 DEF Logout, TypeInv, SessionOK
  <2>6. FlagsOK'
    BY <1>2, <1>5 DEF Logout, TypeInv, FlagsOK
  <2> QED BY <1>1, <1>5, <2>4, <2>5, <2>6 DEF Logout, TypeInv, ListsOK, ShownOK
<1>6. CASE Login
  <2> DEFINE kept == TL!Cleared(tabs, {})
             waiting == Clear(TL!LastOrHome(kept), kept)
  <2>1. PICK u \in Users, cached \in {None, stored.tabs}, to \in {Home, back} \ {None} :
          /\ user' = u /\ stored' = [token |-> u, last |-> None, tabs |-> cached]
          /\ tabs' \in {kept, tabs}
          /\ nav' = [Idle EXCEPT !.stage = "guard", !.to = to, !.known = Known(to)]
          /\ \A t \in late' : t \in late \/ t = waiting
    <3>1. PICK u \in Users :
            /\ user' = u
            /\ stored' = [token |-> u, last |-> None,
                          tabs |-> IF NeedsClear(u) THEN None ELSE stored.tabs]
            /\ tabs' \in {kept, tabs}
            /\ LET to == IF NeedsClear(u) \/ back = None THEN Home ELSE back
               IN nav' = [Idle EXCEPT !.stage = "guard", !.to = to, !.known = Known(to)]
            /\ \A t \in late' : t \in late \/ t = waiting
      <4> HIDE DEF waiting
      <4> QED BY <1>6 DEF Login, waiting
    <3> DEFINE cached == IF NeedsClear(u) THEN None ELSE stored.tabs
               to == IF NeedsClear(u) \/ back = None THEN Home ELSE back
    <3>2. cached \in {None, stored.tabs} /\ to \in {Home, back} \ {None}
      BY NavigationConstants
    <3> HIDE DEF kept, waiting
    <3> QED BY <3>1, <3>2
  <2>2. ListOK(kept) /\ \A v \in Users : Mine(tabs, v) => Mine(kept, v)
    BY <1>1, ClearedKeeps
  <2>3. ThenOK(waiting)
    <3> HIDE DEF kept
    <3>1. TL!LastOrHome(kept) \in TL!IdsIn(kept) \cup {Home}
      BY <2>2, LastIsOpen DEF ListOK
    <3> QED BY <1>1, <2>2, <3>1, ClearOK
  <2> HIDE DEF kept, waiting
  <2>4. nav' \in Nav /\ nav'.then = NoThen
    <3>1. to \in Shown /\ Known(to) \in BOOLEAN
      BY Places DEF TypeInv, ShownOK, Known
    <3> QED BY <2>1, <3>1, StartedOK
  <2>5. ThensOK'
    BY <2>1, <2>3, <2>4, PlainThens DEF TypeInv, ThensOK
  <2>6. ListsOK'
    BY <1>1, <2>1, <2>2 DEF ListsOK
  <2>7. SessionOK'
    <3>1. UNCHANGED <<authInit, authRoutes>>
      BY <1>6 DEF Login
    <3> QED BY <2>1, <3>1 DEF TypeInv, SessionOK
  <2>8. FlagsOK' /\ ShownOK'
    BY <1>2, <1>6 DEF Login, TypeInv, FlagsOK, ShownOK
  <2> QED BY <2>5, <2>6, <2>7, <2>8 DEF TypeInv
<1>7. CASE Reload
  <2>1. PICK to \in Base \cup {"login"} : nav' = Boot(to)
    BY <1>7 DEF Reload
  <2>2. nav' \in Nav /\ nav'.then = NoThen
    <3>1. to \in Shown
      BY Places
    <3> QED BY <2>1, <3>1, BootOK
  <2>3. ThensOK'
    BY <1>7, <2>2, PlainThens DEF Reload, ThensOK
  <2>4. ListsOK' /\ SessionOK'
    <3>1. PICK expired \in BOOLEAN :
            stored' = [stored EXCEPT !.tabs = tabs, !.token = IF expired THEN None ELSE @]
      BY <1>7 DEF Reload
    <3>2. stored'.tabs = tabs /\ stored' \in [token : Users \cup {None}, last : Users \cup {None},
                                              tabs : {stored'.tabs}]
      BY <1>3, <3>1
    <3> QED BY <1>1, <1>7, <3>2, NoTabs DEF Reload, ListsOK, SessionOK
  <2>5. ShownOK' /\ FlagsOK'
    BY <1>2, <1>7 DEF Reload, TypeInv, ShownOK, FlagsOK
  <2> QED BY <2>3, <2>4, <2>5 DEF TypeInv
<1>8. CASE OtherTab
  <2>1. UNCHANGED <<user, authInit, authRoutes, page, back, nav, late, tabVars>> /\ torn' = TRUE
    BY <1>8 DEF OtherTab
  <2>2. SessionOK' /\ (stored'.tabs # None => ListOK(stored'.tabs))
    <3>1. PICK u \in Users \cup {None} :
            stored' = IF u = None THEN [stored EXCEPT !.token = None, !.last = stored.token]
                      ELSE [token |-> u, last |-> None, tabs |-> None]
      BY <1>8 DEF OtherTab
    <3> QED BY <1>1, <1>3, <2>1, <3>1 DEF TypeInv, SessionOK
  <2>3. ThensOK'
    BY <2>1 DEF tabVars, TypeInv, ThensOK
  <2> QED BY <1>1, <1>2, <2>1, <2>2, <2>3 DEF tabVars, TypeInv, ListsOK, ShownOK, FlagsOK
<1> QED BY <1>4, <1>5, <1>6, <1>7, <1>8

\* The way home keeps the types.
LEMMA BackToHomeTypes == ASSUME TypeInv, BackToHome PROVE TypeInv'
<1>1. Push(Home, NoThen) /\ Home \in Base /\ ThenOK(NoThen)
  BY Places, PlainThens DEF BackToHome
<1>2. ThensOK' /\ overtaken' \in BOOLEAN
  BY <1>1, PushTypes
<1>3. /\ tabs' = tabs /\ Event
      /\ UNCHANGED <<setupChecked, stored, user, authInit, authRoutes, page, back, active, torn>>
  BY DEF BackToHome
<1>4. ListOK(tabs')
  BY <1>3 DEF TypeInv, ListsOK
<1> QED BY <1>2, <1>3, <1>4, RestTypes

\* Chunks that do not load keep the types.
LEMMA ChunkFailsTypes == ASSUME TypeInv, ChunkFails \/ LateChunkFails PROVE TypeInv'
<1>1. events' \in 0..MaxEvents
  BY NavigationConstants DEF TypeInv, FlagsOK, Event, ChunkFails, LateChunkFails
<1>2. /\ UNCHANGED <<setupChecked, stored, user, authInit, authRoutes, page, back, tabs, active>>
      /\ torn' \in BOOLEAN /\ overtaken' \in BOOLEAN
  BY DEF ChunkFails, LateChunkFails, tabVars, TypeInv, FlagsOK
<1>3. ThensOK'
  <2>1. nav' \in {nav, Idle} /\ late' \subseteq late
    BY DEF ChunkFails, LateChunkFails
  <2> QED BY <2>1, IdleOK DEF TypeInv, ThensOK
<1>4. FlagsOK'
  BY <1>1, <1>2 DEF TypeInv, FlagsOK
<1>5. ListsOK' /\ SessionOK' /\ ShownOK'
  BY <1>2 DEF TypeInv, ListsOK, SessionOK, ShownOK
<1> QED BY <1>3, <1>4, <1>5 DEF TypeInv

\* Every step keeps the types.
LEMMA TypeInvNext == MenusInv /\ TypeInv /\ [NavNext]_vars => TypeInv'
<1> SUFFICES ASSUME MenusInv, TypeInv, [NavNext]_vars PROVE TypeInv'
  OBVIOUS
<1>1. CASE UNCHANGED vars
  BY <1>1 DEF vars, TypeInv, ThensOK, ListsOK, SessionOK, ShownOK, FlagsOK
<1> QED BY <1>1, GuardTypes, UserInfoTypes, ShowPageTypes, GoOnLateTypes, BrowseTypes, SessionTypes,
      BackToHomeTypes, ChunkFailsTypes DEF NavNext

\* The first state.
LEMMA TypeInvInit == NavInit => TypeInv
<1> SUFFICES ASSUME NavInit PROVE TypeInv
  OBVIOUS
<1>1. ThensOK
  <2>1. nav \in Nav /\ nav.then = NoThen
    BY Places, BootOK DEF NavInit
  <2> QED BY <2>1, PlainThens DEF NavInit, ThensOK
<1>2. ListsOK /\ SessionOK
  BY NoTabs DEF NavInit, ListsOK, SessionOK
<1>3. ShownOK
  BY DEF NavInit, ShownOK
<1>4. FlagsOK
  <2>1. 0 \in 0..MaxEvents
    BY NavigationConstants
  <2> QED BY <2>1 DEF NavInit, FlagsOK
<1> QED BY <1>1, <1>2, <1>3, <1>4 DEF TypeInv

\* Whatever interleaves, the state is well typed: above all, no page has two tabs.
THEOREM NavTypeCorrect == NavSpec => []NavTypeOK
<1>1. MenusInv /\ TypeInv /\ [NavNext]_vars => MenusInv' /\ TypeInv'
  BY MenusInvNext, TypeInvNext
<1> QED BY <1>1, MenusInvInit, TypeInvInit, TypesHold, PTL DEF NavSpec

\* Whatever is opened, closed, pinned, cached and restored, the tab bar shows the
\* tabs in the order in which they are stored: a cleared side of it is the side
\* that the user sees.
THEOREM TabsShownInStoredOrder == NavSpec => []ShownInStoredOrder
<1>1. MenusInv /\ TypeInv /\ [NavNext]_vars => MenusInv' /\ TypeInv'
  BY MenusInvNext, TypeInvNext
<1>2. TypeInv => ShownInStoredOrder
  BY SortedAlready DEF TypeInv, ListsOK, ShownInStoredOrder
<1> QED BY <1>1, <1>2, MenusInvInit, TypeInvInit, PTL DEF NavSpec

---------------------------------------------------------------------------
(* The highlighted tab                                                     *)

\* A close that has been begun and not ended is the only time at which the
\* highlighted tab need not be the page: its tab has gone.
Moving == nav.then.kind = "close"
Highlighted == active = page /\ (page = Home \/ TL!Has(tabs, page))
ActiveOK == overtaken \/ (page \in Base /\ ~Moving => Highlighted)

\* A navigation that is pushed to a page that is not shown keeps the highlight
\* in order, if the tabs keep that of the page or a close follows.
LEMMA PushActive ==
  ASSUME ActiveOK, page \in Base, NEW to, NEW then, Push(to, then),
         UNCHANGED <<page, active>>,
         Highlighted => \/ TL!IdsIn(tabs') = TL!IdsIn(tabs)
                        \/ then.kind = "close" /\ to # page
  PROVE  ActiveOK'
<1>1. CASE overtaken \/ Moving
  BY <1>1 DEF Push, Moving, ActiveOK
<1>2. CASE ~overtaken /\ ~Moving
  <2>1. Highlighted
    BY <1>2 DEF ActiveOK
  <2>2. CASE TL!IdsIn(tabs') = TL!IdsIn(tabs)
    BY <2>1, <2>2 DEF Highlighted, ActiveOK, TL!Has
  <2>3. CASE then.kind = "close" /\ to # page
    <3>1. nav'.then = then
      BY <2>3 DEF Push, Idle
    <3> QED BY <2>3, <3>1 DEF Moving, ActiveOK
  <2> QED BY <2>1, <2>2, <2>3
<1> QED BY <1>1, <1>2

\* Steps that leave the navigation, the page and the highlight alone need only
\* keep the tab of the page.
LEMMA StayActive ==
  ASSUME ActiveOK, UNCHANGED <<page, active>>, overtaken => overtaken',
         nav'.then = nav.then,
         Highlighted /\ page # Home => overtaken' \/ TL!Has(tabs', page)
  PROVE  ActiveOK'
BY DEF ActiveOK, Moving, Highlighted

\* The guard leaves what is to follow a navigation alone.
LEMMA GuardFollows ==
  ASSUME TypeInv, Guard
  PROVE  nav'.then = nav.then /\ UNCHANGED <<page, tabs, active, overtaken>>
<1>1. nav \in Nav
  BY DEF TypeInv, ThensOK
<1>2. UNCHANGED <<page, tabs, active, overtaken>>
  BY DEF Guard, GuardConstantRoutes, GuardAnonymous, SetupNotNeeded, GuardAuthRoutes, GuardChecks,
    tabVars
<1>3. ASSUME NEW known, NEW asked, NEW to, NEW from, NEW stage,
             \/ nav' = [nav EXCEPT !.stage = stage]
             \/ nav' = [nav EXCEPT !.stage = stage, !.known = known]
             \/ nav' = [nav EXCEPT !.stage = stage, !.asked = asked]
             \/ nav' = [nav EXCEPT !.stage = stage, !.to = to]
             \/ nav' = [nav EXCEPT !.stage = stage, !.asked = asked, !.known = known]
             \/ nav' = Redirected(to)
             \/ nav' = [Redirected(to) EXCEPT !.known = known]
             \/ nav' = [Redirected(to) EXCEPT !.back = from]
      PROVE  nav'.then = nav.then
  BY <1>1, <1>3 DEF Redirected, Nav
<1>4. CASE GuardConstantRoutes
  <2>1. \E known : nav' = [nav EXCEPT !.stage = "guard", !.known = known]
    BY <1>4 DEF GuardConstantRoutes
  <2> QED BY <1>2, <1>3, <2>1
<1>5. CASE GuardAnonymous \/ SetupNotNeeded
  <2>1. \/ \E stage : nav' = [nav EXCEPT !.stage = stage]
        \/ \E from : nav' = [Redirected("login") EXCEPT !.back = from]
    BY <1>5 DEF GuardAnonymous, SetupNotNeeded, ToLogin
  <2> QED BY <1>2, <1>3, <2>1
<1>6. CASE GuardAuthRoutes
  <2>1. \/ \E asked : nav' = [nav EXCEPT !.stage = "userinfo", !.asked = asked]
        \/ \E known : nav' = [nav EXCEPT !.stage = "guard", !.asked = None, !.known = known]
    BY <1>6 DEF GuardAuthRoutes, InitAuth
  <2> QED BY <1>2, <1>3, <2>1
<1>7. CASE GuardChecks
  <2>1. \/ nav' = Redirected("403")
        \/ nav' = [nav EXCEPT !.stage = "load", !.to = "404"]
        \/ \E known : nav' = [Redirected(Home) EXCEPT !.known = known]
        \/ nav' = [nav EXCEPT !.stage = "load"]
    BY <1>1, <1>7 DEF GuardChecks, Nav
  <2> QED BY <1>2, <1>3, <2>1
<1> QED BY <1>4, <1>5, <1>6, <1>7 DEF Guard

\* The answer to /auth/getUserInfo does so too.
LEMMA UserInfoFollows ==
  ASSUME TypeInv, UserInfoLoaded \/ UserInfoRefused
  PROVE  nav'.then = nav.then /\ UNCHANGED <<page, tabs, active, overtaken>>
<1>1. nav \in Nav
  BY DEF TypeInv, ThensOK
<1>2. PICK u : InitAuth(u)
  BY DEF UserInfoLoaded, UserInfoRefused
<1>3. nav'.then = nav.then
  BY <1>1, <1>2 DEF InitAuth, Nav
<1> QED BY <1>3 DEF UserInfoLoaded, UserInfoRefused, tabVars

\* A page that is shown is highlighted, unless what was to follow was meant for
\* another.
LEMMA ShowPageActive == ASSUME TypeInv, MenusInv, ActiveOK, ShowPage PROVE ActiveOK'
<1> DEFINE then == nav.then
           kinds == {"switch", "close", "clear"}
<1>1. ThenOK(then) /\ then \in Then /\ nav.stage = "load"
  BY DEF ShowPage, TypeInv, ThensOK, ThenOK
<1>2. /\ page' = nav.to /\ nav' = Idle
      /\ tabs' = IF then.kind = "clear" THEN then.list ELSE TabsOn(nav.to)
      /\ active' = IF then.kind \in kinds THEN then.id ELSE IF nav.to \in Base THEN nav.to ELSE active
      /\ overtaken \/ then.id \notin {None, nav.to} => overtaken'
  BY DEF ShowPage
<1> SUFFICES ASSUME ~overtaken', nav.to \in Base PROVE Highlighted'
  BY <1>2 DEF ActiveOK
<1>3. then.kind \in kinds => then.id \in Base
  BY <1>1 DEF ThenOK
<1>4. None \notin Base
  BY NavigationConstants DEF Base
<1>5. then.kind \in kinds => then.id = nav.to
  BY <1>2, <1>3, <1>4
<1>6. active' = page'
  <2> HIDE DEF then, kinds
  <2> QED BY <1>2, <1>5
<1>7. nav.to = Home \/ TL!Has(TabsOn(nav.to), nav.to)
  BY <1>1, TabsOnKeeps
<1>8. then.kind = "clear" => nav.to = Home \/ TL!Has(then.list, nav.to)
  BY <1>1, <1>5 DEF ThenOK
<1>9. page' = Home \/ TL!Has(tabs', page')
  <2> HIDE DEF then
  <2> QED BY <1>2, <1>7, <1>8
<1> QED BY <1>6, <1>9 DEF Highlighted

\* A clear that goes on late takes the tab of the page only as a change that is
\* recorded.
LEMMA GoOnLateActive == ASSUME TypeInv, ActiveOK, GoOnLate PROVE ActiveOK'
<1>1. UNCHANGED <<page, nav, active>>
  BY DEF GoOnLate
<1>2. \/ tabs' = tabs /\ (overtaken => overtaken')
      \/ \E then \in late :
           /\ tabs' = then.list
           /\ overtaken \/ (TL!Has(tabs, page) /\ ~TL!Has(then.list, page)) => overtaken'
  BY DEF GoOnLate
<1> QED BY <1>1, <1>2, StayActive DEF Highlighted

\* What users do with tabs keeps the highlight on the page.
LEMMA BrowseActive ==
  ASSUME TypeInv, ActiveOK, Visit \/ SwitchTab \/ CloseTab \/ CloseOthers \/ PinTab
  PROVE  ActiveOK'
<1>1. UNCHANGED <<page, active>> /\ page \in Base
  BY DEF Visit, SwitchTab, CloseTab, CloseOthers, PinTab
<1>2. ListOK(tabs) /\ TL!IdsIn(tabs) \subseteq Pages /\ Home \notin Pages
  BY IdsArePages, NavigationConstants DEF TypeInv, ListsOK, ListOK
<1>3. CASE Visit \/ SwitchTab
  <2>1. \E to, then : Push(to, then)
    BY <1>3 DEF Visit, SwitchTab
  <2>2. tabs' = tabs
    BY <1>3 DEF Visit, SwitchTab
  <2> QED BY <1>1, <2>1, <2>2, PushActive
<1>4. CASE CloseTab
  <2>1. PICK id \in TL!IdsIn(tabs) :
          /\ tabs' = TL!Without(tabs, id)
          /\ IF active = id
             THEN Push(TL!NextAfter(tabs, id), Close(TL!NextAfter(tabs, id)))
             ELSE UNCHANGED <<nav, late, overtaken>>
    BY <1>4 DEF CloseTab
  <2> DEFINE rest == TL!Without(tabs, id)
             next == TL!NextAfter(tabs, id)
  <2>2. TL!IdsIn(rest) = TL!IdsIn(tabs) \ {id} /\ next \in TL!IdsIn(rest) \cup {Home}
    BY <1>2, WithoutKeeps
  <2> HIDE DEF rest, next
  <2>3. CASE active = id
    <3>1. Push(next, Close(next))
      BY <2>1, <2>3 DEF next
    <3>2. Close(next).kind = "close" /\ next # id
      BY <1>2, <2>2 DEF Close, NoThen
    <3>3. Highlighted => next # page
      BY <2>3, <3>2 DEF Highlighted
    <3> QED BY <1>1, <3>1, <3>2, <3>3, PushActive
  <2>4. CASE active # id
    <3>1. Highlighted /\ page # Home => TL!Has(tabs', page)
      BY <2>1, <2>2, <2>4 DEF Highlighted, TL!Has, rest
    <3> QED BY <1>1, <2>1, <2>4, <3>1, StayActive
  <2> QED BY <2>3, <2>4
<1>5. CASE CloseOthers
  <2>1. PICK excludes : ClearTabs(TL!Cleared(tabs, excludes))
    BY <1>5 DEF CloseOthers
  <2> DEFINE list == TL!Cleared(tabs, excludes)
             next == TL!LastOrHome(list)
  <2>2. ListOK(list)
    BY <1>2, ClearedKeeps
  <2> HIDE DEF list
  <2>3. ClearTabs(list)
    BY <2>1 DEF list
  <2>4. next \in TL!IdsIn(list) \cup {Home}
    BY <2>2, LastIsOpen DEF ListOK
  <2>5. CASE list = tabs
    <3>1. UNCHANGED <<tabs, nav, late, overtaken>>
      BY <2>3, <2>5 DEF ClearTabs
    <3> QED BY <1>1, <3>1, StayActive DEF Highlighted
  <2>6. CASE list # tabs /\ active \notin TL!IdsIn(tabs) \ TL!IdsIn(list)
    <3>1. tabs' = list /\ UNCHANGED <<nav, late, overtaken>>
      BY <2>3, <2>6 DEF ClearTabs
    <3> QED BY <1>1, <2>6, <3>1, StayActive DEF Highlighted, TL!Has
  <2>7. CASE active \in TL!IdsIn(tabs) \ TL!IdsIn(list)
    <3>1. Push(next, Clear(next, list)) /\ UNCHANGED tabs
      BY <2>3, <2>7 DEF ClearTabs
    <3> QED BY <1>1, <3>1, PushActive
  <2> QED BY <2>5, <2>6, <2>7
<1>6. CASE PinTab
  <2>1. TL!IdsIn(tabs') = TL!IdsIn(tabs)
    BY <1>6, PinKeeps
  <2>2. UNCHANGED <<nav, overtaken>>
    BY <1>6 DEF PinTab
  <2> QED BY <1>1, <2>1, <2>2, StayActive DEF Highlighted, TL!Has
<1> QED BY <1>3, <1>4, <1>5, <1>6

\* Every step keeps it.
LEMMA ActiveNext == MenusInv /\ TypeInv /\ ActiveOK /\ [NavNext]_vars => ActiveOK'
<1> SUFFICES ASSUME MenusInv, TypeInv, ActiveOK, [NavNext]_vars PROVE ActiveOK'
  OBVIOUS
<1>1. CASE Guard
  BY <1>1, GuardFollows, StayActive DEF Highlighted
<1>2. CASE UserInfoLoaded \/ UserInfoRefused
  BY <1>2, UserInfoFollows, StayActive DEF Highlighted
<1>3. CASE ShowPage
  BY <1>3, ShowPageActive
<1>4. CASE GoOnLate
  BY <1>4, GoOnLateActive
<1>5. CASE Visit \/ SwitchTab \/ CloseTab \/ CloseOthers \/ PinTab
  BY <1>5, BrowseActive
<1>6. CASE Logout
  BY <1>6 DEF Logout, ActiveOK, Moving, Highlighted
<1>7. CASE Login
  BY <1>7, Nobodies DEF Login, ActiveOK
<1>8. CASE Reload
  <2>1. None \notin Base
    BY NavigationConstants DEF Base
  <2> QED BY <1>8, <2>1 DEF Reload, ActiveOK
<1>9. CASE OtherTab
  BY <1>9 DEF OtherTab, tabVars, ActiveOK, Moving, Highlighted
<1>10. CASE ChunkFails
  <2>1. CASE Moving
    BY <1>10, <2>1 DEF ChunkFails, ActiveOK, Moving
  <2>2. CASE ~Moving
    BY <1>10, <2>2 DEF ChunkFails, ActiveOK, Highlighted
  <2> QED BY <2>1, <2>2
<1>11. CASE LateChunkFails
  BY <1>11 DEF LateChunkFails, tabVars, ActiveOK, Moving, Highlighted
<1>12. CASE BackToHome
  BY <1>12, Nobodies DEF BackToHome, ActiveOK
<1>13. CASE UNCHANGED vars
  BY <1>13 DEF vars, ActiveOK, Moving, Highlighted
<1> QED BY <1>1, <1>2, <1>3, <1>4, <1>5, <1>6, <1>7, <1>8, <1>9, <1>10, <1>11, <1>12, <1>13
      DEF NavNext

\* When nothing is under way, the highlighted tab is that of the page, which has
\* one, however navigations gave each other up - unless a switch or close was
\* redirected or cut short.
THEOREM ActiveTabIsThePage == NavSpec => []ActiveTabIsPage
<1>1. MenusInv /\ TypeInv /\ ActiveOK /\ [NavNext]_vars => MenusInv' /\ TypeInv' /\ ActiveOK'
  BY MenusInvNext, TypeInvNext, ActiveNext
<1>2. NavInit => ActiveOK
  BY NavigationConstants DEF NavInit, ActiveOK, Base
<1>3. ActiveOK => ActiveTabIsPage
  <2>1. nav = Idle => ~Moving
    BY DEF Moving, Idle, NoThen
  <2> QED BY <2>1 DEF ActiveOK, Highlighted, ActiveTabIsPage, Settled
<1> QED BY <1>1, <1>2, <1>3, MenusInvInit, TypeInvInit, PTL DEF NavSpec

---------------------------------------------------------------------------
(* Whose tabs are shown                                                    *)

\* Who sees the tabs next: the user who is logged in, or the one who logged out
\* last, if he comes back, or else whoever logs in.
Sees(v) == IF user # None THEN v = user ELSE IF stored.last # None THEN v = stored.last ELSE TRUE

\* A clear that waits takes the tabs of others.
WillGo(v) == \E then \in late : then.kind = "clear" /\ Mine(then.list, v)

\* Whoever sees the tabs finds no tabs of others but those that are pinned.
TabsAreTheirs == \A v \in Users : Sees(v) => Mine(tabs, v) \/ WillGo(v)

\* So does whoever holds the token, or held it last, in the cached tabs.
Holds(v) == stored.token = v \/ (stored.token = None /\ stored.last = v)
CachedAreTheirs == stored.tabs # None => \A v \in Users : Holds(v) => Mine(stored.tabs, v)

\* Whoever logged out is recorded until the next login.  A page of the console
\* is shown to a user, or to whoever has just logged out.
LastOK ==
  /\ stored.token # None => stored.last = None
  /\ page \in Base => user # None \/ stored.last # None
  /\ nav.stage = "load" /\ nav.to \in Base => user # None

OwnersOK == ~torn => LastOK /\ (~overtaken => TabsAreTheirs /\ CachedAreTheirs)

\* Whoever holds the token, or held it last, sees the tabs.
LEMMA HoldersSee ==
  ASSUME MenusInv, TypeInv, ~torn, LastOK, NEW v \in Users, Holds(v)
  PROVE  Sees(v)
<1>1. v # None /\ (user # None => stored.token = user)
  BY Nobodies DEF MenusInv, MenusOK, SessionIsUser
<1>2. CASE stored.token = v
  BY <1>1, <1>2 DEF LastOK, Sees
<1>3. CASE stored.token = None /\ stored.last = v
  <2>1. user = None
    BY <1>3, NoTokenNoUser
  <2> QED BY <1>1, <1>3, <2>1 DEF Sees
<1> QED BY <1>2, <1>3 DEF Holds

\* The tabs that are cached when no clear waits are those of whoever comes back.
LEMMA TabsToCache ==
  ASSUME MenusInv, TypeInv, OwnersOK, ~torn, ~overtaken, ~ClearWaits,
         NEW v \in Users, Holds(v)
  PROVE  Mine(tabs, v)
<1>1. Mine(tabs, v) \/ WillGo(v)
  BY HoldersSee DEF OwnersOK, TabsAreTheirs
<1>2. ~WillGo(v)
  BY DEF WillGo, ClearWaits
<1> QED BY <1>1, <1>2

\* Steps of a session, during which the tabs lose none of their owners' names.
LEMMA KeepOwners ==
  ASSUME OwnersOK, ~torn, ~overtaken, UNCHANGED <<stored, user>>,
         \A v \in Users : Sees(v) /\ Mine(tabs, v) => Mine(tabs', v), late \subseteq late'
  PROVE  TabsAreTheirs' /\ CachedAreTheirs'
<1>1. TabsAreTheirs /\ CachedAreTheirs
  BY DEF OwnersOK
<1>2. \A v : Sees(v)' <=> Sees(v)
  BY DEF Sees
<1>3. \A v : WillGo(v) => WillGo(v)'
  BY DEF WillGo
<1>4. TabsAreTheirs'
  BY <1>1, <1>2, <1>3 DEF TabsAreTheirs
<1>5. CachedAreTheirs'
  BY <1>1 DEF CachedAreTheirs, Holds
<1> QED BY <1>4, <1>5

\* The guard keeps it: a page of the console is loaded only for a user.
LEMMA GuardOwners == ASSUME MenusInv, TypeInv, OwnersOK, Guard PROVE OwnersOK'
<1>1. UNCHANGED <<stored, user, page, late, tabs, torn, overtaken>>
  BY DEF Guard, GuardConstantRoutes, GuardAnonymous, SetupNotNeeded, GuardAuthRoutes, GuardChecks,
    tabVars
<1>2. nav \in Nav
  BY DEF TypeInv, ThensOK
<1> SUFFICES ASSUME ~torn PROVE LastOK' /\ (~overtaken => TabsAreTheirs' /\ CachedAreTheirs')
  BY <1>1 DEF OwnersOK
<1>3. ~overtaken => TabsAreTheirs' /\ CachedAreTheirs'
  BY <1>1, KeepOwners
<1>4. nav'.stage = "load" /\ nav'.to \in Base => user # None
  <2>1. CASE GuardConstantRoutes \/ SetupNotNeeded \/ GuardAuthRoutes
    <3>1. nav'.stage \in {"guard", "userinfo"}
      BY <1>2, <2>1 DEF GuardConstantRoutes, SetupNotNeeded, GuardAuthRoutes, InitAuth, ToLogin,
        Redirected, Nav
    <3> QED BY <3>1
  <2>2. CASE GuardAnonymous
    <3>1. \/ nav.to \in Constant /\ nav' = [nav EXCEPT !.stage = "load"]
          \/ nav' = [nav EXCEPT !.stage = "setup"]
          \/ nav' = ToLogin
      BY <2>2 DEF GuardAnonymous
    <3>2. nav'.stage = "load" => nav'.to \in Constant
      BY <1>2, <3>1, Zenon DEF ToLogin, Redirected, Nav
    <3> QED BY <3>2, Nobodies DEF Constant
  <2>3. CASE GuardChecks
    <3>1. user # None \/ ~authInit
      BY NoTokenNoUser, <2>3 DEF GuardChecks, MenusInv, MenusOK, SessionIsUser, RoutesAreUsers
    <3> QED BY <2>3, <3>1 DEF GuardChecks
  <2> QED BY <2>1, <2>2, <2>3 DEF Guard
<1>5. LastOK'
  BY <1>1, <1>4 DEF OwnersOK, LastOK
<1> QED BY <1>3, <1>5

\* The answer to /auth/getUserInfo: of those who might have seen the tabs, the
\* token's user does.
LEMMA UserInfoOwners ==
  ASSUME MenusInv, TypeInv, OwnersOK, UserInfoLoaded \/ UserInfoRefused
  PROVE  OwnersOK'
<1>1. UNCHANGED <<page, tabs, torn, overtaken>> /\ nav'.stage = "guard"
  <2>1. PICK u : InitAuth(u)
    BY DEF UserInfoLoaded, UserInfoRefused
  <2>2. nav \in Nav
    BY DEF TypeInv, ThensOK
  <2>3. nav'.stage = "guard"
    BY <2>1, <2>2 DEF InitAuth, Nav
  <2> QED BY <2>3 DEF UserInfoLoaded, UserInfoRefused, tabVars
<1> SUFFICES ASSUME ~torn PROVE LastOK' /\ (~overtaken => TabsAreTheirs' /\ CachedAreTheirs')
  BY <1>1 DEF OwnersOK
<1>2. nav.stage = "userinfo"
  BY DEF UserInfoLoaded, UserInfoRefused
<1>3. /\ user = None /\ nav.asked = stored.token /\ stored.token \in Users /\ stored.token # None
      /\ stored.last = None
  BY <1>2, Nobodies DEF MenusInv, MenusOK, TokensOK, SessionIsUser, OwnersOK, LastOK
<1>4. \A v \in Users : Sees(v)
  BY <1>3 DEF Sees
<1>5. late \subseteq late' /\ stored'.last = stored.last /\ stored'.tabs = stored.tabs
      /\ (stored'.token = stored.token \/ stored'.token = None)
  <2>1. stored \in [token : Users \cup {None}, last : Users \cup {None}, tabs : {stored.tabs}]
    BY DEF TypeInv, SessionOK
  <2> QED BY <2>1 DEF UserInfoLoaded, UserInfoRefused
<1>6. LastOK'
  <2>1. page \notin Base
    BY <1>3 DEF OwnersOK, LastOK
  <2> QED BY <1>1, <1>3, <1>5, <2>1 DEF LastOK
<1>7. ASSUME ~overtaken PROVE TabsAreTheirs' /\ CachedAreTheirs'
  <2>1. \A v \in Users : Mine(tabs, v) \/ WillGo(v)
    BY <1>4, <1>7 DEF OwnersOK, TabsAreTheirs
  <2>2. \A v : WillGo(v) => WillGo(v)'
    BY <1>5 DEF WillGo
  <2>3. TabsAreTheirs'
    BY <1>1, <2>1, <2>2 DEF TabsAreTheirs
  <2>4. \A v \in Users : Holds(v)' => Holds(v)
    BY <1>3, <1>5, Nobodies DEF Holds
  <2>5. CachedAreTheirs'
    BY <1>5, <1>7, <2>4 DEF OwnersOK, CachedAreTheirs
  <2> QED BY <2>3, <2>5
<1> QED BY <1>6, <1>7

\* resetStore caches the tabs of whoever logs out.
LEMMA ResetOwners ==
  ASSUME MenusInv, TypeInv, OwnersOK, ~torn, ~overtaken, ~ClearWaits, ResetRoutes
  PROVE  CachedAreTheirs' /\ stored'.last = stored.last /\ stored'.token = stored.token
<1>1. stored' = [stored EXCEPT !.tabs = tabs]
  BY DEF ResetRoutes
<1>2. stored'.tabs = tabs /\ stored'.last = stored.last /\ stored'.token = stored.token
  BY <1>1 DEF TypeInv, SessionOK
<1>3. \A v : Holds(v)' <=> Holds(v)
  BY <1>2 DEF Holds
<1> QED BY <1>2, <1>3, TabsToCache DEF CachedAreTheirs

\* A reset is pending: no token is stored, and nobody is logged in.
LEMMA ResetMeansNobody ==
  ASSUME MenusInv, ~torn, ResetPending(nav.then, late)
  PROVE  stored.token = None /\ user = None
<1>1. stored.token = None
  BY DEF MenusInv, MenusOK, SessionIsUser
<1> QED BY <1>1, NoTokenNoUser

\* The tab bar shows the page to its user: the tabs it restores are those he
\* held.
LEMMA TabsOnOwners ==
  ASSUME MenusInv, TypeInv, OwnersOK, ~torn, ~overtaken, nav.stage = "load"
  PROVE  \A v \in Users : Sees(v) => Mine(TabsOn(nav.to), v) \/ WillGo(v)
<1> SUFFICES ASSUME NEW v \in Users, Sees(v), ~WillGo(v) PROVE Mine(TabsOn(nav.to), v)
  OBVIOUS
<1>1. Mine(tabs, v)
  BY DEF OwnersOK, TabsAreTheirs
<1>2. user # None => v = user /\ stored.token = user
  BY DEF Sees, MenusInv, MenusOK, SessionIsUser
<1>3. stored.tabs # None /\ nav.to \in Base => Mine(stored.tabs, v)
  <2>1. nav.to \in Base => user # None
    BY DEF OwnersOK, LastOK
  <2> QED BY <1>2, <2>1 DEF OwnersOK, CachedAreTheirs, Holds
<1> QED BY <1>1, <1>2, <1>3, TabsOnKeeps

\* A page that is shown, and what follows, keep the tabs their users'.
LEMMA ShowPageOwners == ASSUME MenusInv, TypeInv, OwnersOK, ShowPage PROVE OwnersOK'
<1> DEFINE then == nav.then
<1>1. /\ nav.stage = "load" /\ page' = nav.to /\ nav' = Idle
      /\ tabs' = IF then.kind = "clear" THEN then.list ELSE TabsOn(nav.to)
      /\ overtaken \/ (then.kind = "clear" /\ TabsOn(nav.to) # then.before)
           \/ (then.kind = "reset" /\ ClearWaits) => overtaken'
      /\ IF then.kind = "reset" THEN ResetRoutes ELSE UNCHANGED stored
      /\ UNCHANGED <<user, late, torn>>
  BY DEF ShowPage
<1>2. ThenOK(then)
  BY DEF TypeInv, ThensOK
<1> SUFFICES ASSUME ~torn PROVE LastOK' /\ (~overtaken' => TabsAreTheirs' /\ CachedAreTheirs')
  BY <1>1 DEF OwnersOK
<1>3. stored'.last = stored.last /\ stored'.token = stored.token
  <2>1. stored' = [stored EXCEPT !.tabs = tabs] \/ stored' = stored
    BY <1>1 DEF ResetRoutes
  <2> QED BY <2>1 DEF TypeInv, SessionOK
<1>4. LastOK'
  <2>1. nav'.stage = "idle"
    BY <1>1 DEF Idle
  <2>2. page' \in Base => user # None
    BY <1>1 DEF OwnersOK, LastOK
  <2> QED BY <1>1, <1>3, <2>1, <2>2 DEF OwnersOK, LastOK
<1>5. ASSUME ~overtaken' PROVE TabsAreTheirs' /\ CachedAreTheirs'
  <2>1. ~overtaken
    BY <1>1, <1>5
  <2>2. \A v \in Users : Sees(v) => Mine(TabsOn(nav.to), v) \/ WillGo(v)
    BY <1>1, <2>1, TabsOnOwners
  <2>3. \A v : (Sees(v)' <=> Sees(v)) /\ (WillGo(v)' <=> WillGo(v))
    BY <1>1, <1>3 DEF Sees, WillGo
  <2>4. TabsAreTheirs'
    <3>1. ASSUME NEW v \in Users, Sees(v) PROVE Mine(tabs', v) \/ WillGo(v)
      <4>1. CASE then.kind = "clear"
        <5>1. TabsOn(nav.to) = then.before /\ tabs' = then.list
          BY <1>1, <1>5, <4>1
        <5> QED BY <1>2, <2>2, <3>1, <4>1, <5>1 DEF ThenOK
      <4>2. CASE then.kind # "clear"
        BY <1>1, <2>2, <3>1, <4>2
      <4> QED BY <4>1, <4>2
    <3> QED BY <2>3, <3>1 DEF TabsAreTheirs
  <2>5. CachedAreTheirs'
    <3>1. CASE then.kind = "reset"
      <4>1. ~ClearWaits /\ ResetRoutes
        BY <1>1, <1>5, <3>1
      <4> QED BY <2>1, <4>1, ResetOwners
    <3>2. CASE then.kind # "reset"
      <4>1. stored' = stored
        BY <1>1, <3>2
      <4> QED BY <2>1, <4>1 DEF OwnersOK, CachedAreTheirs, Holds
    <3> QED BY <3>1, <3>2
  <2> QED BY <2>4, <2>5
<1> QED BY <1>4, <1>5

\* The code of a navigation that was given up goes on: a clear takes the tabs of
\* others, unless they have changed.
LEMMA GoOnLateOwners == ASSUME MenusInv, TypeInv, OwnersOK, GoOnLate PROVE OwnersOK'
<1>1. PICK then \in late :
        /\ late' = late \ {then}
        /\ \/ /\ then.kind = "clear" /\ tabs' = then.list /\ UNCHANGED stored
              /\ overtaken \/ tabs # then.before => overtaken'
           \/ /\ then.kind # "clear" /\ ResetRoutes /\ UNCHANGED tabs
              /\ overtaken \/ ClearWaits => overtaken'
  BY DEF GoOnLate
<1>2. UNCHANGED <<user, page, nav, torn>>
  BY DEF GoOnLate
<1>3. ThenOK(then)
  BY DEF TypeInv, ThensOK
<1> SUFFICES ASSUME ~torn PROVE LastOK' /\ (~overtaken' => TabsAreTheirs' /\ CachedAreTheirs')
  BY <1>2 DEF OwnersOK
<1>4. stored'.last = stored.last /\ stored'.token = stored.token
  <2>1. stored' = [stored EXCEPT !.tabs = tabs] \/ stored' = stored
    BY <1>1 DEF ResetRoutes
  <2> QED BY <2>1 DEF TypeInv, SessionOK
<1>5. LastOK'
  BY <1>2, <1>4 DEF OwnersOK, LastOK
<1>6. ASSUME ~overtaken' PROVE TabsAreTheirs' /\ CachedAreTheirs'
  <2>1. ~overtaken
    BY <1>1, <1>6
  <2>2. \A v : Sees(v)' <=> Sees(v)
    BY <1>2, <1>4 DEF Sees
  <2>3. \A v \in Users : Sees(v) => Mine(tabs, v) \/ WillGo(v)
    BY <2>1 DEF OwnersOK, TabsAreTheirs
  <2>4. \A v : WillGo(v) =>
          WillGo(v)' \/ (then.kind = "clear" /\ Mine(then.list, v))
    BY <1>1 DEF WillGo
  <2>5. TabsAreTheirs'
    <3>1. ASSUME NEW v \in Users, Sees(v) PROVE Mine(tabs', v) \/ WillGo(v)'
      <4>1. CASE then.kind = "clear"
        <5>1. tabs = then.before /\ tabs' = then.list
          BY <1>1, <1>6, <4>1
        <5>2. Mine(tabs, v) => Mine(tabs', v)
          BY <1>3, <4>1, <5>1 DEF ThenOK
        <5> QED BY <2>3, <2>4, <3>1, <5>1, <5>2
      <4>2. CASE then.kind # "clear"
        <5>1. tabs' = tabs
          BY <1>1, <4>2
        <5> QED BY <2>3, <2>4, <3>1, <4>2, <5>1
      <4> QED BY <4>1, <4>2
    <3> QED BY <2>2, <3>1 DEF TabsAreTheirs
  <2>6. CachedAreTheirs'
    <3>1. CASE then.kind = "clear"
      <4>1. stored' = stored
        BY <1>1, <3>1
      <4> QED BY <2>1, <4>1 DEF OwnersOK, CachedAreTheirs, Holds
    <3>2. CASE then.kind # "clear"
      <4>1. ResetRoutes /\ ~ClearWaits
        BY <1>1, <1>6, <3>2
      <4> QED BY <2>1, <4>1, ResetOwners
    <3> QED BY <3>1, <3>2
  <2> QED BY <2>5, <2>6
<1> QED BY <1>5, <1>6

\* What users do with tabs: nobody gets a tab of another one.
LEMMA BrowseOwners ==
  ASSUME MenusInv, TypeInv, OwnersOK, Visit \/ SwitchTab \/ CloseTab \/ CloseOthers \/ PinTab
  PROVE  OwnersOK'
<1>1. UNCHANGED <<stored, user, page, torn>> /\ page \in Base
  BY DEF Visit, SwitchTab, CloseTab, CloseOthers, PinTab
<1>2. ListOK(tabs)
  BY DEF TypeInv, ListsOK
<1>3. ASSUME NEW to, NEW then, Push(to, then)
      PROVE  late \subseteq late' /\ nav'.stage # "load" /\ (overtaken => overtaken')
  <2>1. late \subseteq late' /\ (overtaken => overtaken')
    BY <1>3 DEF Push
  <2>2. nav'.stage \in {"idle", "guard"}
    <3>1. CASE to = page
      BY <1>3, <3>1 DEF Push, Idle
    <3>2. CASE to # page
      BY <1>3, <3>2 DEF Push, Idle
    <3> QED BY <3>1, <3>2
  <2> QED BY <2>1, <2>2
<1> DEFINE Fine == /\ late \subseteq late' /\ (nav'.stage # "load" \/ nav' = nav)
                   /\ overtaken => overtaken'
                   /\ \A v \in Users : Sees(v) /\ Mine(tabs, v) => Mine(tabs', v)
<1> SUFFICES ASSUME ~torn PROVE LastOK' /\ (~overtaken' => TabsAreTheirs' /\ CachedAreTheirs')
  BY <1>1 DEF OwnersOK
<1>4. ASSUME Visit \/ SwitchTab PROVE Fine
  <2>1. \E to, then : Push(to, then)
    BY <1>4 DEF Visit, SwitchTab
  <2>2. tabs' = tabs
    BY <1>4 DEF Visit, SwitchTab
  <2> QED BY <1>3, <2>1, <2>2
<1>5. ASSUME CloseTab PROVE Fine
  <2>1. PICK id \in TL!IdsIn(tabs) :
          /\ tabs' = TL!Without(tabs, id)
          /\ IF active = id
             THEN Push(TL!NextAfter(tabs, id), Close(TL!NextAfter(tabs, id)))
             ELSE UNCHANGED <<nav, late, overtaken>>
    BY <1>5 DEF CloseTab
  <2>2. \A u : Mine(tabs, u) => Mine(tabs', u)
    <3> DEFINE rest == TL!Without(tabs, id)
    <3>1. \A u : Mine(tabs, u) => Mine(rest, u)
      BY <1>2, WithoutKeeps
    <3>2. rest = tabs'
      BY <2>1
    <3> HIDE DEF rest
    <3> QED BY <3>1, <3>2
  <2> QED BY <1>3, <2>1, <2>2
<1>6. ASSUME CloseOthers PROVE Fine
  <2>1. PICK excludes : ClearTabs(TL!Cleared(tabs, excludes))
    BY <1>6 DEF CloseOthers
  <2> DEFINE list == TL!Cleared(tabs, excludes)
  <2>2. \A u : Mine(tabs, u) => Mine(list, u)
    BY <1>2, ClearedKeeps
  <2> HIDE DEF list
  <2>3. ClearTabs(list)
    BY <2>1 DEF list
  <2> QED BY <1>3, <2>2, <2>3 DEF ClearTabs
<1>7. ASSUME PinTab PROVE Fine
  <2>1. UNCHANGED <<nav, late, overtaken>>
    BY <1>7 DEF PinTab
  <2>2. ASSUME NEW v \in Users, Sees(v), Mine(tabs, v) PROVE Mine(tabs', v)
    <3>1. user # None \/ stored.last # None
      BY <1>1, <2>2 DEF OwnersOK, LastOK
    <3>2. \A owner : LastUser(owner) = v
      BY <2>2, <3>1 DEF Sees, LastUser
    <3> QED BY <1>7, <2>2, <3>2, PinKeeps
  <2> QED BY <2>1, <2>2
<1> HIDE DEF Fine
<1>8. Fine
  BY <1>4, <1>5, <1>6, <1>7
<1>9. LastOK'
  BY <1>1, <1>8 DEF Fine, OwnersOK, LastOK
<1>10. ASSUME ~overtaken' PROVE TabsAreTheirs' /\ CachedAreTheirs'
  <2>1. ~overtaken
    BY <1>8, <1>10 DEF Fine
  <2> QED BY <1>1, <1>8, <2>1, KeepOwners DEF Fine
<1> QED BY <1>9, <1>10

\* Logout records the user, who is then the only one to find the tabs.
LEMMA LogoutOwners == ASSUME MenusInv, TypeInv, OwnersOK, Logout PROVE OwnersOK'
<1>1. /\ user # None /\ page' = page /\ user' = None /\ UNCHANGED <<tabs, torn>>
      /\ stored' = [stored EXCEPT !.token = None, !.last = user]
      /\ late \subseteq late' /\ (overtaken => overtaken')
      /\ nav' = [Idle EXCEPT !.stage = "guard", !.to = "login", !.known = TRUE,
                             !.back = page, !.then = Reset]
  BY DEF Logout
<1>2. stored'.token = None /\ stored'.last = user /\ stored'.tabs = stored.tabs
  BY <1>1 DEF TypeInv, SessionOK
<1>3. nav'.stage = "guard"
  BY <1>1 DEF Idle
<1> SUFFICES ASSUME ~torn PROVE LastOK' /\ (~overtaken' => TabsAreTheirs' /\ CachedAreTheirs')
  BY <1>1 DEF OwnersOK
<1>4. LastOK'
  BY <1>1, <1>2, <1>3 DEF LastOK
<1>5. ASSUME ~overtaken' PROVE TabsAreTheirs' /\ CachedAreTheirs'
  <2>1. TabsAreTheirs /\ CachedAreTheirs
    BY <1>1, <1>5 DEF OwnersOK
  <2>2. ASSUME NEW v \in Users, Sees(v)' PROVE Mine(tabs', v) \/ WillGo(v)'
    <3>1. v = user
      BY <1>1, <1>2, <2>2 DEF Sees
    <3>2. Mine(tabs, v) \/ WillGo(v)
      BY <1>1, <2>1, <3>1 DEF TabsAreTheirs, Sees
    <3> QED BY <1>1, <3>2 DEF WillGo
  <2>3. TabsAreTheirs'
    BY <2>2 DEF TabsAreTheirs
  <2>4. ASSUME NEW v \in Users, Holds(v)' PROVE Holds(v)
    <3>1. v = user
      BY <1>2, <2>4, Nobodies DEF Holds
    <3>2. stored.token = user
      BY <1>1 DEF MenusInv, MenusOK, SessionIsUser
    <3> QED BY <3>1, <3>2 DEF Holds
  <2>5. CachedAreTheirs'
    BY <1>2, <2>1, <2>4 DEF CachedAreTheirs
  <2> QED BY <2>3, <2>5
<1> QED BY <1>4, <1>5

\* Login: checkTabClear takes the tabs of others, at once or late, and the cached
\* ones, unless the user is the one who logged out last.
LEMMA LoginOwners == ASSUME MenusInv, TypeInv, OwnersOK, Login PROVE OwnersOK'
<1> DEFINE kept == TL!Cleared(tabs, {})
           waiting == Clear(TL!LastOrHome(kept), kept)
<1>1. PICK u \in Users :
        LET waits == NeedsClear(u) /\ active \in TL!IdsIn(tabs) \ TL!IdsIn(kept) IN
        /\ user' = u
        /\ stored' = [token |-> u, last |-> None,
                      tabs |-> IF NeedsClear(u) THEN None ELSE stored.tabs]
        /\ tabs' = IF NeedsClear(u) /\ ~waits THEN kept ELSE tabs
        /\ LET to == IF NeedsClear(u) \/ back = None THEN Home ELSE back
           IN nav' = [Idle EXCEPT !.stage = "guard", !.to = to, !.known = Known(to)]
        /\ late' = late \cup (IF waits THEN {waiting} ELSE {})
  BY DEF Login
<1>2. page = "login" /\ nav = Idle /\ UNCHANGED <<page, torn, overtaken>>
  BY DEF Login
<1>3. waiting.kind = "clear" /\ waiting.list = kept
  BY DEF Clear
<1>4. Mine(kept, u)
  BY ClearedKeeps DEF TypeInv, ListsOK
<1> HIDE DEF kept, waiting
<1>5. nav'.stage = "guard"
  <2>1. \E to : nav' = [Idle EXCEPT !.stage = "guard", !.to = to, !.known = Known(to)]
    BY <1>1
  <2> QED BY <2>1 DEF Idle
<1>6. /\ stored'.token = u /\ stored'.last = None
      /\ NeedsClear(u) => stored'.tabs = None
      /\ ~NeedsClear(u) => stored'.tabs = stored.tabs /\ tabs' = tabs
      /\ NeedsClear(u) => tabs' = kept \/ waiting \in late'
      /\ late \subseteq late'
  BY <1>1
<1> SUFFICES ASSUME ~torn PROVE LastOK' /\ (~overtaken' => TabsAreTheirs' /\ CachedAreTheirs')
  BY <1>2 DEF OwnersOK
<1>7. LastOK'
  BY <1>2, <1>5, <1>6, Nobodies DEF LastOK
<1>8. user = None
  <2>1. nav.stage = "idle"
    BY <1>2 DEF Idle
  <2> QED BY <1>2, <2>1 DEF MenusInv, MenusOK, PagesHaveRoutes
<1>9. ~NeedsClear(u) => stored.last = u /\ stored.last # None /\ stored.token = None
  BY Nobodies DEF NeedsClear, OwnersOK, LastOK
<1>10. ASSUME ~overtaken' PROVE TabsAreTheirs' /\ CachedAreTheirs'
  <2>1. TabsAreTheirs /\ CachedAreTheirs
    BY <1>2, <1>10 DEF OwnersOK
  <2>2. Mine(tabs', u) \/ WillGo(u)'
    <3>1. CASE NeedsClear(u)
      BY <1>3, <1>4, <1>6, <3>1 DEF WillGo
    <3>2. CASE ~NeedsClear(u)
      <4>1. Sees(u)
        BY <1>8, <1>9, <3>2 DEF Sees
      <4>2. Mine(tabs, u) \/ WillGo(u)
        BY <2>1, <4>1 DEF TabsAreTheirs
      <4> QED BY <1>6, <3>2, <4>2 DEF WillGo
    <3> QED BY <3>1, <3>2
  <2>3. TabsAreTheirs'
    BY <1>1, <2>2, Nobodies DEF TabsAreTheirs, Sees
  <2>4. CachedAreTheirs'
    <3>1. ASSUME NEW v \in Users, Holds(v)' PROVE v = u
      BY <1>6, <3>1, Nobodies DEF Holds
    <3>2. ~NeedsClear(u) => Holds(u)
      BY <1>9 DEF Holds
    <3> QED BY <1>6, <2>1, <3>1, <3>2 DEF CachedAreTheirs
  <2> QED BY <2>3, <2>4
<1> QED BY <1>7, <1>10

\* A reload caches the tabs of whoever comes back, and shows none.
LEMMA ReloadOwners == ASSUME MenusInv, TypeInv, OwnersOK, Reload PROVE OwnersOK'
<1>1. /\ user' = None /\ page' = None /\ late' = {} /\ tabs' = <<>> /\ UNCHANGED torn
      /\ overtaken \/ ClearWaits => overtaken'
  BY DEF Reload
<1>2. PICK expired \in BOOLEAN, p \in Base \cup {"login"} :
        /\ nav' = Boot(p)
        /\ stored' = [stored EXCEPT !.tabs = tabs, !.token = IF expired THEN None ELSE @]
  BY DEF Reload
<1>3. /\ stored'.tabs = tabs /\ stored'.last = stored.last
      /\ stored'.token = stored.token \/ stored'.token = None
  BY <1>2 DEF TypeInv, SessionOK
<1>4. nav'.stage = "boot"
  BY <1>2 DEF Boot, Idle
<1>5. None \notin Base
  BY NavigationConstants DEF Base
<1> SUFFICES ASSUME ~torn PROVE LastOK' /\ (~overtaken' => TabsAreTheirs' /\ CachedAreTheirs')
  BY <1>1 DEF OwnersOK
<1>6. LastOK'
  BY <1>1, <1>3, <1>4, <1>5 DEF OwnersOK, LastOK
<1>7. ASSUME ~overtaken' PROVE TabsAreTheirs' /\ CachedAreTheirs'
  <2>1. TabsAreTheirs'
    BY <1>1, NoTabs DEF TabsAreTheirs
  <2>2. ASSUME NEW v \in Users, Holds(v)' PROVE Holds(v)
    <3>1. stored.token # None => stored.last = None
      BY DEF OwnersOK, LastOK
    <3> QED BY <1>3, <2>2, <3>1, Nobodies DEF Holds
  <2>3. CachedAreTheirs'
    BY <1>1, <1>3, <1>7, <2>2, TabsToCache DEF CachedAreTheirs
  <2> QED BY <2>1, <2>3
<1> QED BY <1>6, <1>7

\* The way home changes no tab.
LEMMA BackToHomeOwners == ASSUME OwnersOK, BackToHome PROVE OwnersOK'
<1>1. /\ UNCHANGED <<stored, user, page, tabs, torn>>
      /\ late \subseteq late' /\ (overtaken => overtaken')
  BY DEF BackToHome, Push
<1>2. Push(Home, NoThen) /\ Home # page
  BY NavigationConstants DEF BackToHome
<1>3. nav'.stage # "load"
  BY <1>2 DEF Push, Idle
<1>4. ~torn => LastOK'
  BY <1>1, <1>3 DEF OwnersOK, LastOK
<1> QED BY <1>1, <1>4, KeepOwners DEF OwnersOK

\* A chunk that does not load changes none either, unless that is on record.
LEMMA ChunkFailsOwners == ASSUME OwnersOK, ChunkFails \/ LateChunkFails PROVE OwnersOK'
<1>1. CASE LateChunkFails
  BY <1>1 DEF LateChunkFails, OwnersOK
<1>2. CASE ChunkFails
  <2>1. UNCHANGED <<stored, user, page, tabs, late>> /\ (torn => torn')
        /\ (overtaken => overtaken') /\ nav'.stage = "idle"
    BY <1>2 DEF ChunkFails, Idle
  <2>2. ~torn => LastOK'
    BY <2>1 DEF OwnersOK, LastOK
  <2> QED BY <2>1, <2>2, KeepOwners DEF OwnersOK
<1> QED BY <1>1, <1>2

\* Every step keeps the tabs their users'.
LEMMA OwnersNext == MenusInv /\ TypeInv /\ OwnersOK /\ [NavNext]_vars => OwnersOK'
<1> SUFFICES ASSUME MenusInv, TypeInv, OwnersOK, [NavNext]_vars PROVE OwnersOK'
  OBVIOUS
<1>1. CASE OtherTab
  BY <1>1 DEF OtherTab, OwnersOK
<1>2. CASE UNCHANGED vars
  <2>1. UNCHANGED <<stored, user, page, nav, late, tabs, torn, overtaken>>
    BY <1>2 DEF vars
  <2>2. ~torn => LastOK'
    BY <2>1 DEF OwnersOK, LastOK
  <2> QED BY <2>1, <2>2, KeepOwners DEF OwnersOK
<1> QED BY <1>1, <1>2, GuardOwners, UserInfoOwners, ShowPageOwners, GoOnLateOwners, BrowseOwners,
      LogoutOwners, LoginOwners, ReloadOwners, BackToHomeOwners, ChunkFailsOwners DEF NavNext

\* However logins, logouts, reloads, expired tokens and late clears interleave, a
\* user who sees the console, with nothing under way, finds no tab of the user
\* before but those that were pinned - unless another browser tab exchanged the
\* token, a chunk that did not load cut a login or logout, or a switch, close or clear was redirected or cut short.
THEOREM OnlyPinsCross == NavSpec => []OnlyPinsCrossUsers
<1>1. MenusInv /\ TypeInv /\ OwnersOK /\ [NavNext]_vars => MenusInv' /\ TypeInv' /\ OwnersOK'
  BY MenusInvNext, TypeInvNext, OwnersNext
<1>2. NavInit => OwnersOK
  <2> SUFFICES ASSUME NavInit PROVE OwnersOK
    OBVIOUS
  <2>1. nav.stage = "boot" /\ page \notin Base
    BY NavigationConstants DEF NavInit, Boot, Idle, Base
  <2>2. LastOK
    BY <2>1 DEF NavInit, LastOK
  <2>3. TabsAreTheirs /\ CachedAreTheirs
    BY NoTabs DEF NavInit, TabsAreTheirs, CachedAreTheirs
  <2> QED BY <2>2, <2>3 DEF OwnersOK
<1>3. TypeInv /\ OwnersOK => OnlyPinsCrossUsers
  <2> SUFFICES ASSUME TypeInv, OwnersOK, late = {}, user # None, ~torn, ~overtaken
               PROVE  Mine(tabs, user)
    BY DEF Settled, OnlyPinsCrossUsers, Mine
  <2>1. user \in Users /\ Sees(user) /\ ~WillGo(user)
    BY DEF TypeInv, SessionOK, Sees, WillGo
  <2> QED BY <2>1 DEF OwnersOK, TabsAreTheirs
<1> QED BY <1>1, <1>2, <1>3, MenusInvInit, TypeInvInit, PTL DEF NavSpec
=============================================================================
