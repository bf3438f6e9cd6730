------------------------- MODULE ConsoleNavigation -------------------------
(***************************************************************************)
(* One browser tab of the admin console: the route guard, the route and    *)
(* auth stores and the tab store around vue-router.                        *)
(*                                                                         *)
(* A navigation runs the guard, which may wait for /auth/getUserInfo, and  *)
(* then loads the page's chunk; a newer one cancels it.  Code that awaits  *)
(* a navigation goes on when that navigation ends: the continuation of a   *)
(* cancelled one runs later, whenever its chunk arrives.  Other browser    *)
(* tabs change what localStorage holds at any time.                        *)
(***************************************************************************)
EXTENDS Naturals, Sequences, FiniteSets

CONSTANTS
  Users, Supers,  \* who logs in; those with the static super role
  Pages,          \* auth routes with roles, each on the base layout
  Restricted,     \* pages whose roles leave the other users out
  Listed,         \* pages whose path is its route's path (no :id)
  Home, None,
  MaxEvents       \* bound on what users and other tabs do, and on failed chunks

ASSUME NavigationConstants ==
  /\ Supers \subseteq Users
  /\ Restricted \subseteq Pages /\ Listed \subseteq Pages
  /\ Home \notin Pages /\ None \notin Users \cup Pages \cup Nat \cup {Home}
  /\ {Home, None} \cap {"login", "403", "404"} = {}
  /\ Pages \cap {"login", "403", "404"} = {}
  /\ MaxEvents \in Nat

VARIABLES
  stored,     \* localStorage: token (by its user), lastLoginUserId, globalTabs
  user,       \* userInfo of the auth store
  authInit,   \* isInitAuthRoute
  authRoutes, \* the auth routes in vue-router and, with them, the menus
  page,       \* the route that is shown
  back,       \* the redirect query of the login page
  setupChecked, \* the module flag: /setup has been asked for
  nav,        \* the navigation under way
  late,       \* continuations of cancelled navigations
  tabs,       \* the tabs ref of the tab store
  active,     \* activeTabId
  events,     \* user and environment events so far
  torn,       \* history: another tab changed the token under this page, or a login, a
              \* logout or what waited in late was cut off by a chunk that did not load
  overtaken   \* history: a switch or close was redirected, or cut short by a later
              \* navigation or change

vars == <<stored, user, authInit, authRoutes, page, back, setupChecked, nav, late, tabs,
          active, events, torn, overtaken>>
tabVars == <<tabs, active, overtaken, setupChecked>>

TL == INSTANCE TabList WITH Ids <- Pages, Owners <- Users, NotFixed <- None

Base == Pages \cup {Home}
LoginNeedsLogin == {"403", "404"}
Constant == {"login", "403", "404"}
Shown == Pages \cup {Home, "login", "403", "404"}
Allowed(u, p) == p = Home \/ (u # None /\ (u \in Supers \/ p \notin Restricted))
RoutesOf(u) == {p \in Base : Allowed(u, p)}

NoThen == [kind |-> "none", id |-> None, list |-> <<>>, before |-> <<>>]
Switch(id) == [NoThen EXCEPT !.kind = "switch", !.id = id]
Close(id) == [NoThen EXCEPT !.kind = "close", !.id = id]
Clear(id, list) == [kind |-> "clear", id |-> id, list |-> list, before |-> tabs]
Reset == [NoThen EXCEPT !.kind = "reset"]

Idle == [stage |-> "idle", to |-> None, known |-> FALSE, asked |-> None,
         back |-> None, then |-> NoThen]
Then == [kind : {"none", "switch", "close", "clear", "reset"}, id : Base \cup {None},
         list : Seq(TL!Tab), before : Seq(TL!Tab)]
Nav == [stage : {"idle", "boot", "guard", "setup", "userinfo", "load"},
        to : Shown \cup {None}, known : BOOLEAN, asked : Users \cup {None},
        back : Shown \cup {None}, then : Then]

NavTypeOK ==
  /\ stored \in [token : Users \cup {None}, last : Users \cup {None},
                 tabs : Seq(TL!Tab) \cup {None}]
  /\ user \in Users \cup {None}
  /\ authInit \in BOOLEAN
  /\ authRoutes \subseteq Base
  /\ page \in Shown \cup {None}
  /\ back \in Shown \cup {None}
  /\ setupChecked \in BOOLEAN
  /\ nav \in Nav
  /\ late \subseteq Then
  /\ tabs \in Seq(TL!Tab) /\ TL!Distinct(tabs)
  /\ active \in Base \cup {None}
  /\ events \in 0..MaxEvents
  /\ torn \in BOOLEAN /\ overtaken \in BOOLEAN

Boot(p) == [Idle EXCEPT !.stage = "boot", !.to = p]

NavInit ==
  /\ stored = [token |-> None, last |-> None, tabs |-> None]
  /\ user = None /\ authInit = FALSE /\ authRoutes = {}
  /\ page = None /\ back = None
  /\ nav = Boot(Home) /\ late = {} /\ setupChecked = FALSE
  /\ tabs = <<>> /\ active = None
  /\ events = 0 /\ torn = FALSE /\ overtaken = FALSE

---------------------------------------------------------------------------
(* vue-router                                                              *)

Known(p) == p \in {"login", "403"} \/ p \in authRoutes

\* What is left to do when a navigation is given up.
Pending(then) == IF then.kind \in {"clear", "reset"} THEN {then} ELSE {}

\* router.push: the navigation under way is cancelled, and one to the page
\* that is shown fails as a duplicate.
Push(to, then) ==
  /\ IF to = page
     THEN /\ nav' = Idle
          /\ late' = late \cup Pending(nav.then) \cup Pending(then)
     ELSE /\ nav' = [Idle EXCEPT !.stage = "guard", !.to = to, !.known = Known(to), !.then = then]
          /\ late' = late \cup Pending(nav.then)
  /\ overtaken' = (overtaken \/ nav.then.kind \in {"close", "clear"})

Redirected(to) == [nav EXCEPT !.stage = "guard", !.to = to, !.known = TRUE, !.asked = None]

---------------------------------------------------------------------------
(* The guard: initRoute, then the checks of createRouteGuard.              *)

\* initConstantRoute, once in a page's life, then the same path again.
GuardConstantRoutes ==
  /\ nav.stage = "boot"
  /\ nav' = [nav EXCEPT !.stage = "guard", !.known = Known(nav.to)]
  /\ UNCHANGED <<stored, user, authInit, authRoutes, page, back, late, events, torn, tabVars>>

ToLogin == [Redirected("login") EXCEPT !.back = IF nav.to = Home THEN None ELSE nav.to]

\* Without a stored token only the constant routes are shown.
GuardAnonymous ==
  /\ nav.stage = "guard" /\ stored.token = None
  /\ nav' = IF nav.known /\ nav.to \in Constant THEN [nav EXCEPT !.stage = "load"]
            ELSE IF setupChecked THEN ToLogin
            ELSE [nav EXCEPT !.stage = "setup"]
  /\ setupChecked' = (setupChecked \/ nav'.stage = "setup")
  /\ UNCHANGED <<stored, user, authInit, authRoutes, page, back, late, events, torn,
                 tabs, active, overtaken>>

\* redirectToSetupIfNeeded asks once and marks that before it waits, so a newer
\* navigation does not.  The system has been set up: there are users.
SetupNotNeeded ==
  /\ nav.stage = "setup"
  /\ nav' = ToLogin
  /\ UNCHANGED <<stored, user, authInit, authRoutes, page, back, late, events, torn, tabVars>>

\* initStaticAuthRoute: the routes the user's roles allow, all of them for the
\* super role; a path that matched nothing is matched again.
InitAuth(u) ==
  /\ authRoutes' = RoutesOf(u)
  /\ authInit' = TRUE
  /\ nav' = [nav EXCEPT !.stage = "guard", !.asked = None,
                        !.known = @ \/ Known(nav.to) \/ nav.to \in RoutesOf(u)]

GuardAuthRoutes ==
  /\ nav.stage = "guard" /\ stored.token # None /\ ~authInit
  /\ IF user = None
     THEN /\ nav' = [nav EXCEPT !.stage = "userinfo", !.asked = stored.token]
          /\ UNCHANGED <<authRoutes, authInit>>
     ELSE InitAuth(user)
  /\ UNCHANGED <<stored, user, page, back, late, events, torn, tabVars>>

UserInfoLoaded ==
  /\ nav.stage = "userinfo"
  /\ user' = nav.asked
  /\ InitAuth(nav.asked)
  /\ UNCHANGED <<stored, page, back, late, events, torn, tabVars>>

\* The token is dead: resetStore, whose push to /login the guard's own
\* redirect overtakes, and the auth routes of a user without roles.
UserInfoRefused ==
  /\ nav.stage = "userinfo"
  /\ stored' = [stored EXCEPT !.token = None]
  /\ InitAuth(None)
  /\ late' = late \cup {Reset}
  /\ UNCHANGED <<user, page, back, events, torn, tabVars>>

\* The role check, made of every navigation whatever the router holds.
TrustsTheRouter(u, p) == p \in authRoutes
HasAuth(u, p) == Allowed(u, p)

GuardChecks ==
  /\ nav.stage = "guard" /\ stored.token # None /\ authInit
  /\ nav' = CASE ~nav.known -> IF nav.to \in Listed THEN Redirected("403")
                               ELSE [nav EXCEPT !.stage = "load", !.to = "404"]
              [] nav.known /\ nav.to = "login" -> [Redirected(Home) EXCEPT !.known = Known(Home)]
              [] nav.known /\ nav.to = "403" -> [nav EXCEPT !.stage = "load"]
              [] OTHER -> IF HasAuth(user, nav.to) THEN [nav EXCEPT !.stage = "load"]
                          ELSE Redirected("403")
  /\ UNCHANGED <<stored, user, authInit, authRoutes, page, back, late, events, torn, tabVars>>

---------------------------------------------------------------------------
(* The page is shown: the tab bar mounts or follows, then the code that    *)
(* awaited the navigation goes on.                                         *)

Opened(p) == [id |-> p, fixed |-> None, owner |-> user]
Followed(list, p) ==
  IF p = Home \/ user = None THEN list ELSE TL!AddTab(list, Opened(p))

RestoresOnly(p) ==
  IF p \notin Base \/ page \in Base \/ stored.tabs = None THEN tabs
  ELSE TL!ExtractTabs(stored.tabs, authRoutes)

\* initTabStore when the base layout mounts, addTab when it stays.
TabsOn(p) ==
  IF p \notin Base THEN tabs
  ELSE IF page \in Base \/ stored.tabs = None THEN Followed(tabs, p)
  ELSE Followed(TL!ExtractTabs(stored.tabs, authRoutes), p)

\* The tabs that are about to be cached hold some that a clear has given up.
ClearWaits == \E then \in late \cup {nav.then} : then.kind = "clear"

CachesTabsOnly == stored' = [stored EXCEPT !.tabs = tabs] /\ UNCHANGED <<authInit, authRoutes>>

\* What resetStore does once /login is shown: the tabs are cached, the auth
\* routes and with them the menus removed.
ResetRoutes ==
  /\ stored' = [stored EXCEPT !.tabs = tabs]
  /\ authInit' = FALSE
  /\ authRoutes' = {}

ShowPage ==
  LET then == nav.then IN
  /\ nav.stage = "load"
  /\ page' = nav.to
  /\ back' = IF nav.to = "login" THEN nav.back ELSE None
  /\ nav' = Idle
  /\ tabs' = IF then.kind = "clear" THEN then.list ELSE TabsOn(nav.to)
  /\ active' = IF then.kind \in {"switch", "close", "clear"} THEN then.id
               ELSE IF nav.to \in Base THEN nav.to ELSE active
  /\ overtaken' = \/ overtaken
                  \/ then.id \notin {None, nav.to}  \* a redirect ended elsewhere
                  \/ then.kind = "clear" /\ TabsOn(nav.to) # then.before
                  \/ then.kind = "reset" /\ ClearWaits
  /\ IF then.kind = "reset"
     THEN ResetRoutes
     ELSE UNCHANGED <<stored, authInit, authRoutes>>
  /\ UNCHANGED <<setupChecked, user, late, events, torn>>

\* A cancelled navigation's code goes on: clearTabs writes the list it
\* computed before it waited, resetStore caches the tabs and resets the routes.
GoOnLate ==
  \E then \in late :
    /\ late' = late \ {then}
    /\ IF then.kind = "clear"
       THEN /\ tabs' = then.list
            /\ overtaken' = \/ overtaken
                            \/ tabs # then.before
                            \/ TL!Has(tabs, page) /\ ~TL!Has(then.list, page)
            /\ UNCHANGED <<stored, authInit, authRoutes>>
       ELSE ResetRoutes /\ UNCHANGED tabs /\ overtaken' = (overtaken \/ ClearWaits)
    /\ UNCHANGED <<setupChecked, user, page, back, nav, active, events, torn>>

---------------------------------------------------------------------------
(* Chunks that do not load: the push rejects, the page stays, and the code *)
(* that awaited the push does not go on.                                   *)

Event == events < MaxEvents /\ events' = events + 1

\* A logout has emptied storage and store by then, but the routes are there
\* still; a login has stored its user, and the login page stays.
ChunkFails ==
  /\ Event /\ nav.stage = "load"
  /\ nav' = Idle
  /\ torn' = (torn \/ nav.then = Reset \/ page = "login")
  /\ overtaken' = (overtaken \/ nav.then.kind = "close")
  /\ UNCHANGED <<setupChecked, stored, user, authInit, authRoutes, page, back, late, tabs, active>>

\* Of a cancelled navigation; some of these needed no chunk.
LateChunkFails ==
  /\ Event /\ late # {}
  /\ \E then \in late : late' = late \ {then}
  /\ torn' = TRUE
  /\ UNCHANGED <<stored, user, authInit, authRoutes, page, back, nav, tabVars>>

---------------------------------------------------------------------------
(* The user                                                                *)

\* A menu entry, a link or a tab of the tab bar.
Visit ==
  /\ Event /\ page \in Base
  /\ \E p \in Base : Push(p, NoThen)
  /\ UNCHANGED <<setupChecked, stored, user, authInit, authRoutes, page, back, torn, tabs, active>>

\* The button of the pages 403 and 404, which have no menus.
BackToHome ==
  /\ Event /\ page \in {"403", "404"}
  /\ Push(Home, NoThen)
  /\ UNCHANGED <<setupChecked, stored, user, authInit, authRoutes, page, back, torn, tabs, active>>

SwitchTab ==
  /\ Event /\ page \in Base
  /\ \E id \in TL!IdsIn(tabs) \cup {Home} : Push(id, Switch(id))
  /\ UNCHANGED <<setupChecked, stored, user, authInit, authRoutes, page, back, torn, tabs, active>>

\* removeTab, of tabs that are neither home nor pinned.
CloseTab ==
  /\ Event /\ page \in Base
  /\ \E id \in TL!IdsIn(tabs) :
       /\ ~TL!IsTabRetain(tabs, id)
       /\ tabs' = TL!Without(tabs, id)
       /\ IF active = id
          THEN LET next == TL!NextAfter(tabs, id) IN Push(next, Close(next))
          ELSE UNCHANGED <<nav, late, overtaken>>
  /\ UNCHANGED <<setupChecked, stored, user, authInit, authRoutes, page, back, active, torn>>

\* clearTabs: at once, or after the tab that stays is shown.
ClearTabs(list) ==
  IF list = tabs THEN UNCHANGED <<tabs, nav, late, overtaken>>
  ELSE IF active \notin TL!IdsIn(tabs) \ TL!IdsIn(list)
  THEN tabs' = list /\ UNCHANGED <<nav, late, overtaken>>
  ELSE LET next == TL!LastOrHome(list)
       IN Push(next, Clear(next, list)) /\ UNCHANGED tabs

CloseOthers ==
  /\ Event /\ page \in Base
  /\ \E id \in TL!IdsIn(tabs) \cup {Home} :
       \/ ClearTabs(TL!Cleared(tabs, {id}))
       \/ ~TL!IsTabRetain(tabs, id) /\ ClearTabs(TL!Cleared(tabs, TL!LeftExcludes(tabs, id)))
       \/ ClearTabs(TL!Cleared(tabs, TL!RightExcludes(tabs, id)))
  /\ UNCHANGED <<setupChecked, stored, user, authInit, authRoutes, page, back, active, torn>>

LastUser(owner) == IF user # None THEN user ELSE IF stored.last # None THEN stored.last ELSE owner

PinTab ==
  /\ Event /\ page \in Base
  /\ \E id \in TL!IdsIn(tabs) :
       tabs' = IF TL!IsTabRetain(tabs, id)
               THEN LET list == TL!UnfixTab(tabs, id)  \* whoever unpins a tab adopts it
                    IN [list EXCEPT ![TL!IndexOf(list, id)].owner = LastUser(@)]
               ELSE TL!FixTab(tabs, id)
  /\ UNCHANGED <<setupChecked, stored, user, authInit, authRoutes, page, back, nav, late,
                 active, torn, overtaken>>

\* resetStore: the user is recorded and forgotten, then /login, then the rest.
Logout ==
  /\ Event /\ page \in Base /\ user # None
  /\ stored' = [stored EXCEPT !.token = None, !.last = user]
  /\ user' = None
  /\ nav' = [Idle EXCEPT !.stage = "guard", !.to = "login", !.known = TRUE,
                         !.back = page, !.then = Reset]
  /\ late' = late \cup Pending(nav.then)
  /\ overtaken' = (overtaken \/ nav.then.kind \in {"close", "clear"})
  /\ UNCHANGED <<setupChecked, authInit, authRoutes, page, back, torn, tabs, active>>

\* checkTabClear: only the user who logged out last finds the tabs again.
NeverClears(u) == FALSE
NeedsClear(u) == stored.last # u

\* login: another user's tabs go, but for the pinned ones, and home is shown;
\* the same user returns to where the session ended.  The form is busy until
\* the redirect has ended, and the continuation of the push to /login has run
\* when its page is shown.
Login ==
  /\ Event /\ page = "login" /\ nav = Idle /\ Reset \notin late
  /\ \E u \in Users :
       LET kept == TL!Cleared(tabs, {})
           waits == NeedsClear(u) /\ active \in TL!IdsIn(tabs) \ TL!IdsIn(kept) IN
       /\ user' = u
       /\ stored' = [token |-> u, last |-> None,
                     tabs |-> IF NeedsClear(u) THEN None ELSE stored.tabs]
       /\ tabs' = IF NeedsClear(u) /\ ~waits THEN kept ELSE tabs
       /\ LET to == IF NeedsClear(u) \/ back = None THEN Home ELSE back IN
          /\ nav' = [Idle EXCEPT !.stage = "guard", !.to = to, !.known = Known(to)]
          /\ late' = late \cup (IF waits THEN {Clear(TL!LastOrHome(kept), kept)} ELSE {})
  /\ UNCHANGED <<setupChecked, authInit, authRoutes, page, back, active, torn, overtaken>>

\* The page is unloaded (by the user, or by handleAuthExpired, which removes
\* the token first) and loads again; beforeunload caches the tabs.
Reload ==
  /\ Event
  /\ \E expired \in BOOLEAN, p \in Base \cup {"login"} :
       /\ nav' = Boot(IF expired THEN "login" ELSE p)
       /\ stored' = [stored EXCEPT !.tabs = tabs, !.token = IF expired THEN None ELSE @]
  /\ user' = None /\ authInit' = FALSE /\ authRoutes' = {}
  /\ page' = None /\ back' = None /\ late' = {} /\ setupChecked' = FALSE
  /\ tabs' = <<>> /\ active' = None
  /\ overtaken' = (overtaken \/ ClearWaits)
  /\ UNCHANGED torn

\* Another browser tab logs out, or a user logs in there.
OtherTab ==
  /\ Event
  /\ \E u \in Users \cup {None} :
       /\ u # stored.token
       /\ stored' = IF u = None THEN [stored EXCEPT !.token = None, !.last = stored.token]
                    ELSE [token |-> u, last |-> None, tabs |-> None]
  /\ torn' = TRUE
  /\ UNCHANGED <<user, authInit, authRoutes, page, back, nav, late, tabVars>>

Guard == GuardConstantRoutes \/ GuardAnonymous \/ SetupNotNeeded \/ GuardAuthRoutes \/ GuardChecks
NavNext ==
  \/ Guard \/ UserInfoLoaded \/ UserInfoRefused \/ ShowPage \/ GoOnLate
  \/ ChunkFails \/ LateChunkFails
  \/ Visit \/ BackToHome \/ SwitchTab \/ CloseTab \/ CloseOthers \/ PinTab
  \/ Logout \/ Login \/ Reload \/ OtherTab

\* The guard is JavaScript that runs; requests are answered, and chunks arrive or
\* do not.
NavFairness ==
  /\ WF_vars(Guard \/ UserInfoLoaded \/ UserInfoRefused \/ ShowPage)
  /\ WF_vars(GoOnLate)

NavSpec == NavInit /\ [][NavNext]_vars /\ NavFairness

---------------------------------------------------------------------------
(* Properties                                                              *)

Settled == nav = Idle /\ late = {}

\* A navigation ends on a page only if the roles of the user allow it, although
\* the router may hold the routes of the user before and the guard waits.
PageAllowsUser ==
  [][page' # page /\ page' \in Pages => Allowed(user', page')]_vars

\* The menus are those of the user who is logged in, unless another browser tab
\* exchanged the user under this one or a chunk tore a login or logout apart.
MenusMatchUser ==
  Settled /\ page \in Base /\ user # None /\ ~torn => authRoutes = RoutesOf(user)

\* When nothing is under way, the highlighted tab is the page that is shown,
\* and the page has a tab, unless a switch or close was redirected or cut short.
ActiveTabIsPage ==
  Settled /\ page \in Base =>
    overtaken \/ (active = page /\ (page = Home \/ TL!Has(tabs, page)))

\* The tabs are shown in the order in which they are stored, which "close
\* left" and "close right" act upon.
ShownInStoredOrder == TL!AllTabs(tabs) = tabs

\* A user finds no tab of the user before but those that were pinned, unless
\* another browser tab exchanged the user, a chunk tore a login or logout apart,
\* or a switch, close or clear was redirected or cut short.
OnlyPinsCrossUsers ==
  Settled /\ page \in Base /\ user # None /\ ~torn /\ ~overtaken =>
    \A i \in DOMAIN tabs : tabs[i].owner = user \/ TL!IsFixedTab(tabs[i])

\* No guard redirects for ever: every navigation ends.
NavigationSettles == (nav # Idle) ~> (nav = Idle)

=============================================================================
