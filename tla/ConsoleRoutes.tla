---------------------------- MODULE ConsoleRoutes ----------------------------
(***************************************************************************)
(* The route table of the admin console and what is computed from it: the  *)
(* routes a role may open, the menus built from them, the menu a page      *)
(* belongs to, its breadcrumbs, the menus the search goes through and the  *)
(* links the pages show.                                                   *)
(***************************************************************************)
EXTENDS Naturals, Sequences, FiniteSets, SequencesExt

Roles == {"ADMIN", "OPS", "FINANCE", "AUDITOR"}
Everyone == {}  \* a route without roles
Operators == {"ADMIN", "OPS"}
Payers == {"ADMIN", "OPS", "FINANCE"}
Admins == {"ADMIN"}

\* A route with a menu of its own, one shown under another's menu, and one
\* that is there for everybody.  No route has children.
MenuRoute(name, order, roles) ==
  [name |-> name, order |-> order, roles |-> roles, activeMenu |-> name,
   hideInMenu |-> FALSE, constant |-> FALSE, layout |-> "base"]
UnderMenu(name, menu, roles) ==
  [MenuRoute(name, 0, roles) EXCEPT !.activeMenu = menu, !.hideInMenu = TRUE]
ConstantRoute(name, layout) ==
  [UnderMenu(name, name, Everyone) EXCEPT !.constant = TRUE, !.layout = layout]

BuiltinRoutes ==
  {ConstantRoute("403", "blank"), ConstantRoute("404", "blank"),
   ConstantRoute("500", "blank"), ConstantRoute("iframe-page", "base"),
   ConstantRoute("login", "blank")}
DetailForPayers ==
  {MenuRoute("home", 1, Everyone), MenuRoute("merchants", 2, Operators),
   UnderMenu("merchant-detail", "merchants", Payers)}
MerchantRoutes ==
  {MenuRoute("home", 1, Everyone), MenuRoute("merchants", 2, Operators)} \cup
  {UnderMenu(name, "merchants", Operators) :
     name \in {"merchant-detail", "merchant-channel-new", "channel-detail"}}
PaymentRoutes ==
  {MenuRoute("payments", 3, Payers), UnderMenu("payment-detail", "payments", Payers),
   MenuRoute("refunds", 4, Payers), UnderMenu("refund-detail", "refunds", Payers),
   UnderMenu("refund-new", "refunds", Payers)}
OperationRoutes ==
  {MenuRoute("reconciliation", 5, Payers),
   UnderMenu("reconciliation-detail", "reconciliation", Payers),
   MenuRoute("webhook-out", 6, Operators),
   UnderMenu("webhook-out-delivery-log-detail", "webhook-out", Operators),
   MenuRoute("integrations", 7, Admins),
   UnderMenu("integration-detail", "integrations", Admins),
   MenuRoute("system", 8, Admins)}

GeneratedRoutes == BuiltinRoutes \cup MerchantRoutes \cup PaymentRoutes \cup OperationRoutes
Names == {r.name : r \in GeneratedRoutes}
RouteOf == [name \in Names |-> CHOOSE r \in GeneratedRoutes : r.name = name]

\* The routes whose path has a parameter that is filled in.
WithParameter ==
  {"iframe-page", "merchant-detail", "merchant-channel-new", "channel-detail", "payment-detail",
   "refund-detail", "reconciliation-detail", "webhook-out-delivery-log-detail",
   "integration-detail"}

---------------------------------------------------------------------------
(* Roles                                                                   *)

ConstantRoutes == {r \in GeneratedRoutes : r.constant}
AuthRoutes == GeneratedRoutes \ ConstantRoutes
FilterAuthRoutesByRoles(routes, roles) ==
  {r \in routes : r.roles = {} \/ r.roles \cap roles # {}}

\* What the router knows while a user of this role is logged in.
InitAuthRoute(role) ==
  ConstantRoutes \cup
  (IF role = "ADMIN" THEN AuthRoutes ELSE FilterAuthRoutesByRoles(AuthRoutes, {role}))

\* A value for each of the Roles, as a record: TLC evaluates it once.
ByRole(Of(_)) == [ADMIN |-> Of("ADMIN"), OPS |-> Of("OPS"),
                  FINANCE |-> Of("FINANCE"), AUDITOR |-> Of("AUDITOR")]
Registered == ByRole(LAMBDA role : {r.name : r \in InitAuthRoute(role)})

\* Where a path leads that this role's router does not match: the guard looks
\* the path up as it stands among all routes, and with a parameter filled in it
\* is none of theirs.
LandsOn(to, role) ==
  IF to \in Registered[role] THEN to ELSE IF to \in WithParameter THEN "404" ELSE "403"

---------------------------------------------------------------------------
(* Menus                                                                   *)

SortRoutesByOrder(routes) ==
  [i \in 1..Cardinality(routes) |->
     CHOOSE r \in routes : Cardinality({s \in routes : s.order < r.order}) = i - 1]
MenuRoutes(role, names) == {r \in InitAuthRoute(role) : ~r.hideInMenu /\ r.name \in names}
MenusAmong(role, names) ==
  LET sorted == SortRoutesByOrder(MenuRoutes(role, names))
  IN [i \in DOMAIN sorted |-> sorted[i].name]
GetGlobalMenus(role) == MenusAmong(role, Names)
MenuKeys == ByRole(LAMBDA role : ToSet(GetGlobalMenus(role)))

\* The menu a page belongs to: its own, or the one it names, or none but itself.
ActiveMenuOnly ==
  [page \in Names |->
     IF ~RouteOf[page].hideInMenu THEN page
     ELSE IF RouteOf[page].constant THEN "undefined" ELSE RouteOf[page].activeMenu]
SelectedKey ==
  [page \in Names |->
     IF RouteOf[page].hideInMenu THEN RouteOf[page].activeMenu ELSE page]

BreadcrumbsAt(page, role) ==
  IF page \in MenuKeys[role] THEN <<page>>
  ELSE IF RouteOf[page].activeMenu \in MenuKeys[role]
       THEN <<RouteOf[page].activeMenu, page>>
       ELSE <<>>

---------------------------------------------------------------------------
(* Links                                                                   *)

\* The backend's dashboard has the same navigation for everyone; the home page
\* knows a route for each of its keys but "invoices".
DashboardKeys ==
  {"merchants", "channels", "orders", "refunds", "invoices", "webhook-logs",
   "reconciliation", "external-readiness"}
NavRouteByKey ==
  [key \in DashboardKeys \ {"invoices"} |->
     CASE key \in {"merchants", "channels"} -> "merchants"
       [] key = "orders" -> "payments"
       [] key = "refunds" -> "refunds"
       [] key = "webhook-logs" -> "webhook-out"
       [] key = "reconciliation" -> "reconciliation"
       [] key = "external-readiness" -> "integrations"]
NavigableItems == {NavRouteByKey[key] : key \in DashboardKeys \cap DOMAIN NavRouteByKey}

LinksOf == [page \in Names |->
  CASE page = "home" -> NavigableItems
    [] page = "merchants" -> {"merchant-detail"}
    [] page = "merchant-detail" -> {"channel-detail", "merchant-channel-new", "merchants"}
    [] page = "merchant-channel-new" -> {"merchant-detail", "channel-detail"}
    [] page = "channel-detail" -> {"merchant-detail"}
    [] page = "payments" -> {"payment-detail"}
    [] page = "payment-detail" -> {"refund-new"}
    [] page = "refunds" -> {"refund-new", "refund-detail"}
    [] page = "refund-new" -> {"refund-detail"}
    [] page = "reconciliation" -> {"reconciliation-detail"}
    [] page = "webhook-out" -> {"webhook-out-delivery-log-detail"}
    [] page = "integrations" -> {"integration-detail"}
    [] OTHER -> {}]

\* vue-router cannot resolve a link by the name of a route that is not there:
\* the RouterLink throws while it renders, and Vue shows nothing in its place.
RenderedLinks(page, role) == LinksOf[page] \cap Registered[role]
=============================================================================
