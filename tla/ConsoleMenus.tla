---------------------------- MODULE ConsoleMenus ----------------------------
(***************************************************************************)
(* The menus of the console beside its pages: which menu is highlighted    *)
(* while users click menus, follow links and switch tabs, while            *)
(* navigations overtake each other, and in each of the six layouts.        *)
(*                                                                         *)
(* A mixed menu highlights what was clicked before the navigation has      *)
(* happened, and corrects itself when the name of the page changes or, in  *)
(* one layout, when the mouse leaves the sider.  Until then a navigation   *)
(* that is overtaken or fails leaves the wrong menu highlighted.           *)
(*                                                                         *)
(* The pages of the blank layout (login, 403, 404) have no menus, tabs and *)
(* links; the base layout is mounted anew behind them.                     *)
(***************************************************************************)
EXTENDS ConsoleRoutes, ConsoleLayouts

CONSTANTS
  Tabs,   \* pages that tabs of the tab bar lead to
  NoTarget

ASSUME NoTargetIsNoPage == NoTarget \notin Names

VARIABLES
  role,       \* of the user who is logged in
  page,       \* name of the page that is shown
  target,     \* where a navigation that has not ended goes, or NoTarget
  layout,     \* the layout mode
  highlight,  \* activeFirstLevelMenuKey
  mixSiderFixed,
  astray      \* history: the navigation was given up that the highlight was set for

menuVars == <<role, page, target, layout, highlight, mixSiderFixed, astray>>
siderVars == <<layout, mixSiderFixed>>

\* The layouts whose first level highlights what was clicked, and those where
\* the mouse can leave a sider, which then puts the highlight right.
MixModes == {mode \in LayoutModes : ActiveMenu[mode].mixed}
ResetModes ==
  {mode \in LayoutModes : ActiveMenu[mode].resets /\ SiderWidth(mode, FALSE) > 0}

OnBase == RouteOf[page].layout = "base"

MenusTypeOK ==
  /\ role \in Roles
  /\ page \in Names /\ target \in Names \cup {NoTarget}
  /\ layout \in LayoutModes
  /\ highlight \in Names
  /\ mixSiderFixed \in BOOLEAN
  /\ astray \in BOOLEAN

\* The pages behind the login that a role may open.
OpenTo(r) == {q.name : q \in FilterAuthRoutesByRoles(AuthRoutes, {r})}

\* The layout is mounted when a page loads.
Mounted(p, r) ==
  /\ page = p /\ role = r /\ target = NoTarget
  /\ highlight = SelectedKey[p]
  /\ astray = FALSE

MenusInit ==
  /\ layout \in LayoutModes
  /\ mixSiderFixed \in BOOLEAN
  /\ \E r \in Roles : \E p \in OpenTo(r) : Mounted(p, r)

---------------------------------------------------------------------------
(* Navigations                                                             *)

\* The highlight was set for a click whose page has not been reached.
Ahead == highlight # SelectedKey[page]

\* A push cancels the one that has not ended.  One to the page that is shown
\* ends at once, unless it is for another record.
Push(to) == target' = to \/ (to = page /\ target' = NoTarget)

HandleSelectFirstLevelMenu(k) ==
  /\ OnBase /\ layout \in MixModes
  /\ k \in MenuKeys[role]
  /\ highlight' = k
  /\ Push(k)
  /\ astray' = FALSE
  /\ UNCHANGED <<role, page, siderVars>>

\* The other pushes leave the highlight as it is.
PushesOnly(to) ==
  /\ Push(to)
  /\ astray' = Ahead
  /\ UNCHANGED <<role, page, highlight, siderVars>>

\* The menu of the vertical and the horizontal layout, breadcrumbs and search.
PushByKey(k) == OnBase /\ k \in MenuKeys[role] /\ PushesOnly(k)

FollowLink(to) == to \in RenderedLinks(page, role) /\ PushesOnly(to)

\* A tab is a path, and may be one that another user pinned.
SwitchTab(to) == OnBase /\ to \in Tabs /\ PushesOnly(LandsOn(to, role))

BackToHome == page \in {"403", "404"} /\ PushesOnly("home")

\* watch(route.name), and the layout's mount behind a page without it.
KeepsHighlight(p) == IF RouteOf[p].hideInMenu THEN highlight ELSE p
GetActiveFirstLevelMenuKey(p) == SelectedKey[p]
Arrive ==
  /\ target # NoTarget
  /\ page' = target /\ target' = NoTarget
  /\ IF page' # page
     THEN highlight' = GetActiveFirstLevelMenuKey(page') /\ astray' = FALSE
     ELSE UNCHANGED <<highlight, astray>>
  /\ UNCHANGED <<role, siderVars>>

\* The chunk of the page does not load.
NavigationFails ==
  /\ target # NoTarget /\ target' = NoTarget
  /\ astray' = Ahead
  /\ UNCHANGED <<role, page, highlight, siderVars>>

\* A logout as far as the menus see it (ConsoleLogin and ConsoleNavigation have
\* its steps): whatever is clicked meanwhile ends at the login page as well.
LeavesForLogin ==
  /\ OnBase
  /\ page' = "login" /\ target' = NoTarget
  /\ highlight' = GetActiveFirstLevelMenuKey("login") /\ astray' = FALSE
  /\ UNCHANGED <<role, siderVars>>

\* redirectFromLogin: only the user who left goes back to the page they were on.
LoginAs(r) ==
  /\ page = "login"
  /\ role' = r
  /\ target' \in IF r = role THEN OpenTo(r) ELSE {"home"}
  /\ UNCHANGED <<page, highlight, astray, siderVars>>

---------------------------------------------------------------------------
(* The sider                                                               *)

HandleResetActiveMenu ==
  /\ OnBase /\ layout \in ResetModes /\ ~mixSiderFixed
  /\ highlight' = GetActiveFirstLevelMenuKey(page)
  /\ astray' = FALSE
  /\ UNCHANGED <<role, page, target, siderVars>>

\* The pin is in a part of the sider that has no width without a second level:
\* the keyboard reaches it.
ToggleMixSiderFixed ==
  /\ OnBase /\ ActiveMenu[layout].resets
  /\ mixSiderFixed' = ~mixSiderFixed
  /\ UNCHANGED <<role, page, target, layout, highlight, astray>>

\* Another menu component is mounted; what it highlights is the layout's.
SetThemeLayout(mode) ==
  /\ OnBase /\ mode # layout
  /\ layout' = mode
  /\ UNCHANGED <<role, page, target, highlight, mixSiderFixed, astray>>

MenusNext ==
  \/ Arrive \/ NavigationFails \/ BackToHome \/ LeavesForLogin
  \/ HandleResetActiveMenu \/ ToggleMixSiderFixed
  \/ \E k \in MenuKeys[role] : HandleSelectFirstLevelMenu(k) \/ PushByKey(k)
  \/ \E k \in LinksOf[page] : FollowLink(k)
  \/ \E k \in Tabs : SwitchTab(k)
  \/ \E mode \in LayoutModes : SetThemeLayout(mode)
  \/ \E r \in Roles : LoginAs(r)

MenusSpec == MenusInit /\ [][MenusNext]_menuVars

---------------------------------------------------------------------------
(* Properties                                                              *)

\* The highlighted menu is one the user has, also after another user's login,
\* and it is that of the page shown or of the page the navigation under way
\* leads to.  It is wrong only if the navigation it was set for was overtaken
\* or failed, and no longer than until the name of the page changes.
HighlightFollowsPage ==
  ~RouteOf[page].constant =>
    /\ highlight \in MenuKeys[role]
    /\ highlight = SelectedKey[page] \/ highlight = target \/ astray

\* Whoever may open a page has the menu it belongs to: it can be highlighted,
\* and the breadcrumbs begin with it.  All its links are there for this user;
\* only the home page has links that are not rendered for everyone.
PageHasItsMenu ==
  ~RouteOf[page].constant =>
    /\ SelectedKey[page] \in MenuKeys[role]
    /\ BreadcrumbsAt(page, role) # <<>> /\ BreadcrumbsAt(page, role)[1] = SelectedKey[page]
    /\ page # "home" => RenderedLinks(page, role) = LinksOf[page]
=============================================================================
