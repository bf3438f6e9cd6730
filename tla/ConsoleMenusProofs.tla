------------------------- MODULE ConsoleMenusProofs -------------------------
(***************************************************************************)
(* The menus of the console and the search through them, for any tabs and  *)
(* keywords: what the sorting of the routes yields, which menus a role     *)
(* has, that the highlight follows the page, and that Enter leaves a page  *)
(* only from the search.                                                   *)
(***************************************************************************)
EXTENDS ConsoleMenus, ConsoleSearch, FiniteSetTheorems, TLAPS

-----------------------------------------------------------------------------
(* Sorting.                                                                *)

\* What sortRoutesByOrder returns for routes with different orders: those
\* routes, each of them, in the order of their orders.
THEOREM SortedRoutes ==
  ASSUME NEW routes, NEW n \in Nat,
         \A r \in routes : r.order \in 1..n,
         \A r, s \in routes : r.order = s.order => r = s
  PROVE  LET sorted == SortRoutesByOrder(routes)
         IN /\ Cardinality(routes) \in Nat
            /\ DOMAIN sorted = 1..Cardinality(routes)
            /\ \A i \in DOMAIN sorted : sorted[i] \in routes
            /\ \A r \in routes : \E i \in DOMAIN sorted : sorted[i] = r
            /\ \A i, j \in DOMAIN sorted : i < j => sorted[i].order < sorted[j].order
  <1> DEFINE Below(r) == {s \in routes : s.order < r.order}
             size == Cardinality(routes)
             orders == [r \in routes |-> r.order]
             rank == [r \in routes |-> Cardinality(Below(r))]
             sorted == SortRoutesByOrder(routes)
  <1>1. IsFiniteSet(routes) /\ size \in Nat
    <2>1. orders \in Injection(routes, 1..n)
      BY DEF Injection, IsInjective
    <2>2. IsFiniteSet(1..n)
      BY FS_Interval
    <2> QED  BY <2>1, <2>2, FS_Injection, FS_CardinalityType
  <1>2. \A r \in routes : Below(r) \subseteq routes /\ r \notin Below(r)
    OBVIOUS
  <1>3. \A r \in routes : IsFiniteSet(Below(r)) /\ Cardinality(Below(r)) \in 0..(size - 1)
    <2> SUFFICES ASSUME NEW r \in routes
                 PROVE  IsFiniteSet(Below(r)) /\ Cardinality(Below(r)) \in 0..(size - 1)
      OBVIOUS
    <2> DEFINE below == Below(r)
    <2>1. below \in SUBSET routes /\ below # routes
      BY <1>2
    <2> HIDE DEF below
    <2>2. /\ IsFiniteSet(below) /\ Cardinality(below) <= size /\ Cardinality(below) # size
          /\ Cardinality(below) \in Nat
      BY <1>1, <2>1, FS_Subset, FS_CardinalityType
    <2>3. Cardinality(below) \in 0..(size - 1)
      BY <1>1, <2>2
    <2> QED  BY <2>2, <2>3 DEF below
  <1>4. \A r, s \in routes : r.order < s.order => rank[r] < rank[s]
    <2> SUFFICES ASSUME NEW r \in routes, NEW s \in routes, r.order < s.order
                 PROVE  Cardinality(Below(r)) < Cardinality(Below(s))
      OBVIOUS
    <2> DEFINE low == Below(r)
               high == Below(s)
    <2>1. low \in SUBSET high /\ r \in high /\ r \notin low
      OBVIOUS
    <2>2. IsFiniteSet(high) /\ Cardinality(high) \in Nat /\ Cardinality(low) \in Nat
      BY <1>3
    <2> HIDE DEF low, high
    <2>3. Cardinality(low) <= Cardinality(high) /\ Cardinality(low) # Cardinality(high)
      BY <2>1, <2>2, FS_Subset
    <2>4. Cardinality(low) < Cardinality(high)
      BY <2>2, <2>3
    <2> QED  BY <2>4 DEF low, high
  <1>5. rank \in Injection(routes, 0..(size - 1))
    <2>1. rank \in [routes -> 0..(size - 1)]
      BY <1>3
    <2>2. \A r, s \in routes : rank[r] = rank[s] => r = s
      <3> SUFFICES ASSUME NEW r \in routes, NEW s \in routes, rank[r] = rank[s]
                   PROVE  r.order = s.order
        OBVIOUS
      <3>1. rank[r] \in Int /\ r.order \in Int /\ s.order \in Int
        BY <2>1
      <3> HIDE DEF rank
      <3> QED  BY <1>4, <3>1
    <2> HIDE DEF rank
    <2> QED  BY <2>1, <2>2 DEF Injection, IsInjective
  <1>6. rank \in Surjection(routes, 0..(size - 1))
    <2>1. IsFiniteSet(0..(size - 1)) /\ Cardinality(0..(size - 1)) = size
      BY <1>1, FS_Interval
    <2> HIDE DEF rank
    <2> QED  BY <1>1, <1>5, <2>1, FS_Injection
  <1>7. \A r \in routes : rank[r] = Cardinality(Below(r))
    OBVIOUS
  <1>8. /\ DOMAIN sorted = 1..size
        /\ \A i \in 1..size : sorted[i] = CHOOSE r \in routes : Cardinality(Below(r)) = i - 1
    BY DEF SortRoutesByOrder
  <1> HIDE DEF rank, sorted, size, Below
  <1>9. \A i \in 1..size : sorted[i] \in routes /\ rank[sorted[i]] = i - 1
    <2> SUFFICES ASSUME NEW i \in 1..size
                 PROVE  sorted[i] \in routes /\ rank[sorted[i]] = i - 1
      OBVIOUS
    <2>1. i - 1 \in 0..(size - 1)
      BY <1>1
    <2>2. \E r \in routes : rank[r] = i - 1
      BY <1>6, <2>1 DEF Surjection
    <2>3. \E r \in routes : Cardinality(Below(r)) = i - 1
      BY <1>7, <2>2
    <2> QED  BY <1>7, <1>8, <2>3
  <1>10. ASSUME NEW r \in routes
         PROVE  \E i \in 1..size : sorted[i] = r
    <2>1. rank[r] \in 0..(size - 1)
      BY <1>5 DEF Injection
    <2>2. rank[r] + 1 \in 1..size /\ (rank[r] + 1) - 1 = rank[r]
      BY <1>1, <2>1
    <2>3. sorted[rank[r] + 1] \in routes /\ rank[sorted[rank[r] + 1]] = rank[r]
      BY <1>9, <2>2
    <2>4. sorted[rank[r] + 1] = r
      BY <1>5, <2>3 DEF Injection, IsInjective
    <2> QED  BY <2>2, <2>4
  <1>11. ASSUME NEW i \in 1..size, NEW j \in 1..size, i < j
         PROVE  sorted[i].order < sorted[j].order
    <2>1. /\ sorted[i] \in routes /\ rank[sorted[i]] = i - 1
          /\ sorted[j] \in routes /\ rank[sorted[j]] = j - 1
      BY <1>9
    <2>2. ~(rank[sorted[j]] < rank[sorted[i]]) /\ rank[sorted[i]] # rank[sorted[j]]
      BY <1>1, <1>11, <2>1
    <2>3. ~(sorted[j].order < sorted[i].order) /\ sorted[i].order # sorted[j].order
      BY <1>4, <2>1, <2>2
    <2>4. sorted[i].order \in Int /\ sorted[j].order \in Int
      BY <2>1
    <2> QED  BY <2>3, <2>4
  <1> QED  BY <1>1, <1>8, <1>9, <1>10, <1>11 DEF sorted, size

-----------------------------------------------------------------------------
(* The route table.                                                        *)

\* The routes that have a menu of their own.
Shown ==
  {MenuRoute("home", 1, Everyone), MenuRoute("merchants", 2, Operators),
   MenuRoute("payments", 3, Payers), MenuRoute("refunds", 4, Payers),
   MenuRoute("reconciliation", 5, Payers), MenuRoute("webhook-out", 6, Operators),
   MenuRoute("integrations", 7, Admins), MenuRoute("system", 8, Admins)}

\* A route is shown in the menus unless it is hidden.
LEMMA ShownRoutes ==
  Shown = {r \in GeneratedRoutes : ~r.hideInMenu}
  <1>1. \A r \in Shown : ~r.hideInMenu
    BY DEF Shown, MenuRoute
  <1>2. Shown \subseteq GeneratedRoutes
    BY DEF Shown, GeneratedRoutes, MerchantRoutes, PaymentRoutes, OperationRoutes
  <1>3. ASSUME NEW name, NEW menu, NEW roles
        PROVE  UnderMenu(name, menu, roles).hideInMenu
    BY DEF UnderMenu, MenuRoute
  <1>4. ASSUME NEW name, NEW at
        PROVE  ConstantRoute(name, at).hideInMenu
    <2>1. ConstantRoute(name, at) =
            [UnderMenu(name, name, Everyone) EXCEPT !.constant = TRUE, !.layout = at]
      BY DEF ConstantRoute
    <2> QED  BY <2>1 DEF UnderMenu, MenuRoute
  <1>5. \A r \in BuiltinRoutes : r.hideInMenu
    BY <1>4 DEF BuiltinRoutes
  <1>6. \A r \in MerchantRoutes : r \in Shown \/ r.hideInMenu
    BY <1>3 DEF MerchantRoutes, Shown
  <1>7. \A r \in PaymentRoutes : r \in Shown \/ r.hideInMenu
    BY <1>3 DEF PaymentRoutes, Shown
  <1>8. \A r \in OperationRoutes : r \in Shown \/ r.hideInMenu
    BY <1>3 DEF OperationRoutes, Shown
  <1>9. \A r \in GeneratedRoutes : r \in Shown \/ r.hideInMenu
    BY <1>5, <1>6, <1>7, <1>8 DEF GeneratedRoutes
  <1> QED  BY <1>1, <1>2, <1>9

\* Their orders are those of the menus, all different.
LEMMA ShownAreOrdered ==
  /\ \A r \in Shown : r.order \in 1..8
  /\ \A r, s \in Shown : r.order = s.order => r = s
  BY DEF Shown, MenuRoute

\* No role's router knows a route that is not in the table.
LEMMA RegisteredRoutes ==
  ASSUME NEW r
  PROVE  InitAuthRoute(r) \subseteq GeneratedRoutes
  BY DEF InitAuthRoute, ConstantRoutes, AuthRoutes, FilterAuthRoutesByRoles

\* The menus of a role among some names are those of its routes that are shown,
\* each once: a sequence of names.
LEMMA MenusAreRoutes ==
  ASSUME NEW r, NEW names
  PROVE  /\ MenusAmong(r, names) \in Seq(Names)
         /\ ToSet(MenusAmong(r, names)) = {route.name : route \in MenuRoutes(r, names)}
  <1> DEFINE routes == MenuRoutes(r, names)
             sorted == SortRoutesByOrder(routes)
             menus == MenusAmong(r, names)
  <1>1. routes \subseteq Shown /\ routes \subseteq GeneratedRoutes
    BY RegisteredRoutes, ShownRoutes DEF MenuRoutes
  <1>2. /\ \A x \in routes : x.order \in 1..8
        /\ \A x, y \in routes : x.order = y.order => x = y
    BY <1>1, ShownAreOrdered
  <1>3. menus = [i \in DOMAIN sorted |-> sorted[i].name]
    BY DEF MenusAmong
  <1> HIDE DEF routes, sorted, menus
  <1>4. /\ Cardinality(routes) \in Nat
        /\ DOMAIN sorted = 1..Cardinality(routes)
        /\ \A i \in DOMAIN sorted : sorted[i] \in routes
        /\ \A x \in routes : \E i \in DOMAIN sorted : sorted[i] = x
    BY <1>2, SortedRoutes DEF sorted
  <1>5. \A x \in routes : x.name \in Names
    BY <1>1 DEF Names
  <1>6. menus \in Seq(Names)
    BY <1>3, <1>4, <1>5
  <1>7. ToSet(menus) = {menus[i] : i \in DOMAIN menus}
    BY DEF ToSet
  <1>8. ToSet(menus) = {x.name : x \in routes}
    BY <1>3, <1>4, <1>7
  <1> QED  BY <1>6, <1>8 DEF menus, routes

\* The menus a role can click are the shown routes its router knows.
LEMMA KeysAreShown ==
  ASSUME NEW r \in Roles
  PROVE  /\ Registered[r] = {x.name : x \in InitAuthRoute(r)}
         /\ MenuKeys[r] = {x.name : x \in InitAuthRoute(r) \cap Shown}
  <1>1. MenuKeys[r] = ToSet(GetGlobalMenus(r))
    BY DEF MenuKeys, ByRole, Roles
  <1>2. Registered[r] = {x.name : x \in InitAuthRoute(r)}
    BY DEF Registered, ByRole, Roles
  <1>3. MenuRoutes(r, Names) = InitAuthRoute(r) \cap Shown
    <2>1. \A x \in InitAuthRoute(r) : x.name \in Names
      BY RegisteredRoutes DEF Names
    <2> QED  BY <2>1, RegisteredRoutes, ShownRoutes DEF MenuRoutes
  <1>4. MenuKeys[r] = {x.name : x \in MenuRoutes(r, Names)}
    BY <1>1, MenusAreRoutes DEF GetGlobalMenus
  <1> QED  BY <1>2, <1>3, <1>4

\* A route is called what its definition calls it.
LEMMA RoutesAreNamed ==
  ASSUME NEW name, NEW a, NEW b
  PROVE  /\ MenuRoute(name, a, b).name = name
         /\ UnderMenu(name, a, b).name = name
         /\ ConstantRoute(name, a).name = name
  <1>1. MenuRoute(name, a, b).name = name /\ UnderMenu(name, a, b).name = name
    BY DEF MenuRoute, UnderMenu
  <1>2. ConstantRoute(name, a).name = name
    <2>1. ConstantRoute(name, a) =
            [UnderMenu(name, name, Everyone) EXCEPT !.constant = TRUE, !.layout = a]
      BY DEF ConstantRoute
    <2> QED  BY <2>1 DEF UnderMenu, MenuRoute
  <1> QED  BY <1>1, <1>2

\* The name of a route is its own.
LEMMA NamesAreUnique ==
  \A x, y \in GeneratedRoutes : x.name = y.name => x = y
  <1>1. /\ \A x \in BuiltinRoutes : x.name \in {"403", "404", "500", "iframe-page", "login"}
        /\ \A x, y \in BuiltinRoutes : x.name = y.name => x = y
    BY RoutesAreNamed DEF BuiltinRoutes
  <1>2. /\ \A x \in MerchantRoutes :
             x.name \in {"home", "merchants", "merchant-detail", "merchant-channel-new",
                         "channel-detail"}
        /\ \A x, y \in MerchantRoutes : x.name = y.name => x = y
    BY RoutesAreNamed DEF MerchantRoutes
  <1>3. /\ \A x \in PaymentRoutes :
             x.name \in {"payments", "payment-detail", "refunds", "refund-detail", "refund-new"}
        /\ \A x, y \in PaymentRoutes : x.name = y.name => x = y
    BY RoutesAreNamed DEF PaymentRoutes
  <1>4. /\ \A x \in OperationRoutes :
             x.name \in {"reconciliation", "reconciliation-detail", "webhook-out",
                         "webhook-out-delivery-log-detail", "integrations",
                         "integration-detail", "system"}
        /\ \A x, y \in OperationRoutes : x.name = y.name => x = y
    BY RoutesAreNamed DEF OperationRoutes
  <1> QED  BY <1>1, <1>2, <1>3, <1>4 DEF GeneratedRoutes

\* A route is found by its name.
LEMMA FoundByName ==
  \A x \in GeneratedRoutes : x.name \in Names /\ RouteOf[x.name] = x
  BY NamesAreUnique DEF RouteOf, Names

\* And so are a page's route, and the menu the page belongs to.
LEMMA PagesAreRoutes ==
  ASSUME NEW p \in Names
  PROVE  /\ RouteOf[p] \in GeneratedRoutes
         /\ RouteOf[p].name = p
         /\ SelectedKey[p] =
              IF RouteOf[p].hideInMenu THEN RouteOf[p].activeMenu ELSE p
  BY DEF RouteOf, Names, SelectedKey

\* Every page, hidden or not, belongs to a page.
LEMMA KeysAreNames ==
  ASSUME NEW p \in Names
  PROVE  SelectedKey[p] \in Names
  <1>1. \A x \in BuiltinRoutes : x.activeMenu = x.name
    <2>1. ASSUME NEW name, NEW at PROVE ConstantRoute(name, at).activeMenu = name
      <3>1. ConstantRoute(name, at) =
              [UnderMenu(name, name, Everyone) EXCEPT !.constant = TRUE, !.layout = at]
        BY DEF ConstantRoute
      <3> QED  BY <3>1 DEF UnderMenu, MenuRoute
    <2> QED  BY <2>1, RoutesAreNamed DEF BuiltinRoutes
  <1>2. {"home", "merchants", "payments", "refunds", "reconciliation", "webhook-out",
         "integrations", "system"} \subseteq Names
    <2>1. \A x \in Shown : x.name \in Names
      BY ShownRoutes DEF Names
    <2> QED  BY <2>1, RoutesAreNamed DEF Shown
  <1>3. ASSUME NEW x \in MerchantRoutes \cup PaymentRoutes \cup OperationRoutes
        PROVE  x.activeMenu \in Names
    <2>1. ASSUME NEW name, NEW a, NEW b
          PROVE  MenuRoute(name, a, b).activeMenu = name /\ UnderMenu(name, a, b).activeMenu = a
      BY DEF MenuRoute, UnderMenu
    <2>2. CASE x \in MerchantRoutes
      BY <1>2, <2>1, <2>2 DEF MerchantRoutes
    <2>3. CASE x \in PaymentRoutes
      BY <1>2, <2>1, <2>3 DEF PaymentRoutes
    <2>4. CASE x \in OperationRoutes
      BY <1>2, <2>1, <2>4 DEF OperationRoutes
    <2> QED  BY <1>3, <2>2, <2>3, <2>4
  <1>4. \A x \in GeneratedRoutes : x.activeMenu \in Names
    BY <1>1, <1>3 DEF GeneratedRoutes, Names
  <1> QED  BY <1>4, PagesAreRoutes

\* A menu that can be clicked is the menu of its own page.
LEMMA KeysAreTheirOwn ==
  ASSUME NEW r \in Roles, NEW k \in MenuKeys[r]
  PROVE  k \in Names /\ k \in Registered[r] /\ SelectedKey[k] = k
  <1>1. PICK x \in InitAuthRoute(r) \cap Shown : k = x.name
    BY KeysAreShown
  <1>2. x \in GeneratedRoutes /\ ~x.hideInMenu
    BY ShownRoutes
  <1>3. k \in Names /\ RouteOf[k] = x
    BY <1>1, <1>2, FoundByName
  <1>4. k \in Registered[r]
    BY <1>1, KeysAreShown
  <1> QED  BY <1>2, <1>3, <1>4, PagesAreRoutes

\* The routes that are not constant.
Tables == MerchantRoutes \cup PaymentRoutes \cup OperationRoutes

\* What the constructors of the table say of roles and menus.
LEMMA RoutesSay ==
  ASSUME NEW name, NEW a, NEW roles
  PROVE  /\ MenuRoute(name, a, roles).roles = roles
         /\ MenuRoute(name, a, roles).activeMenu = name
         /\ ~MenuRoute(name, a, roles).constant
         /\ ~MenuRoute(name, a, roles).hideInMenu
         /\ UnderMenu(name, a, roles).roles = roles
         /\ UnderMenu(name, a, roles).activeMenu = a
         /\ ~UnderMenu(name, a, roles).constant
  BY DEF MenuRoute, UnderMenu

\* The routes that need a role are those of the tables.
LEMMA AuthRoutesAreTables ==
  AuthRoutes = Tables
  <1>1. \A x \in BuiltinRoutes : x.constant
    <2>1. ASSUME NEW name, NEW at PROVE ConstantRoute(name, at).constant
      <3>1. ConstantRoute(name, at) =
              [UnderMenu(name, name, Everyone) EXCEPT !.constant = TRUE, !.layout = at]
        BY DEF ConstantRoute
      <3> QED  BY <3>1 DEF UnderMenu, MenuRoute
    <2> QED  BY <2>1 DEF BuiltinRoutes
  <1>2. \A x \in MerchantRoutes : ~x.constant
    BY RoutesSay DEF MerchantRoutes
  <1>3. \A x \in PaymentRoutes : ~x.constant
    BY RoutesSay DEF PaymentRoutes
  <1>4. \A x \in OperationRoutes : ~x.constant
    BY RoutesSay DEF OperationRoutes
  <1> QED  BY <1>1, <1>2, <1>3, <1>4 DEF AuthRoutes, ConstantRoutes, GeneratedRoutes, Tables

\* A role may open a route of the tables if the route asks for no role, or for
\* this one; an administrator may open them all.
LEMMA MayOpen ==
  ASSUME NEW r \in Roles, NEW x \in Tables
  PROVE  x \in InitAuthRoute(r) <=> r = "ADMIN" \/ x.roles = {} \/ r \in x.roles
  <1>1. x \in AuthRoutes /\ x \notin ConstantRoutes
    BY AuthRoutesAreTables DEF AuthRoutes
  <1>2. x.roles \cap {r} # {} <=> r \in x.roles
    OBVIOUS
  <1> QED  BY <1>1, <1>2 DEF InitAuthRoute, FilterAuthRoutesByRoles

\* The menu a route belongs to asks for the same roles, and is shown.
LEMMA MenuAsksTheSame ==
  ASSUME NEW x \in Tables
  PROVE  /\ \E m \in Shown : m.name = x.activeMenu /\ m.roles = x.roles
         /\ ~x.hideInMenu => x.activeMenu = x.name
  <1> USE RoutesSay, RoutesAreNamed DEF Shown
  <1>1. CASE x \in MerchantRoutes
    <2>1. \E m \in Shown : m.name = x.activeMenu /\ m.roles = x.roles
      BY <1>1 DEF MerchantRoutes
    <2>2. x \in Shown => x.activeMenu = x.name
      OBVIOUS
    <2> QED  BY <2>1, <2>2, <1>1, ShownRoutes DEF GeneratedRoutes
  <1>2. CASE x \in PaymentRoutes
    <2>1. \E m \in Shown : m.name = x.activeMenu /\ m.roles = x.roles
      BY <1>2 DEF PaymentRoutes
    <2>2. x \in Shown => x.activeMenu = x.name
      OBVIOUS
    <2> QED  BY <2>1, <2>2, <1>2, ShownRoutes DEF GeneratedRoutes
  <1>3. CASE x \in OperationRoutes
    <2>1. \E m \in Shown : m.name = x.activeMenu /\ m.roles = x.roles
      BY <1>3 DEF OperationRoutes
    <2>2. x \in Shown => x.activeMenu = x.name
      OBVIOUS
    <2> QED  BY <2>1, <2>2, <1>3, ShownRoutes DEF GeneratedRoutes
  <1> QED  BY <1>1, <1>2, <1>3 DEF Tables

\* Everyone may open the home page.
LEMMA HomeIsOpen ==
  ASSUME NEW r \in Roles
  PROVE  "home" \in Registered[r]
  <1> DEFINE home == MenuRoute("home", 1, Everyone)
  <1>1. home \in Tables
    BY DEF Tables, MerchantRoutes
  <1>2. home.roles = {} /\ home.name = "home"
    BY RoutesSay, RoutesAreNamed DEF Everyone
  <1> HIDE DEF home
  <1>3. home \in InitAuthRoute(r)
    BY <1>1, <1>2, MayOpen
  <1> QED  BY <1>2, <1>3, KeysAreShown

\* The links of a page other than home lead to routes that ask for the roles
\* the page asks for.
LEMMA LinksAskTheSame ==
  ASSUME NEW x \in Tables, x.name # "home", NEW q \in LinksOf[x.name]
  PROVE  \E y \in Tables : y.name = q /\ y.roles = x.roles
  <1> USE RoutesSay, RoutesAreNamed
  <1>0. x.name \in Names
    BY FoundByName DEF GeneratedRoutes, Tables
  <1>1. CASE x \in MerchantRoutes
    <2>1. /\ x.roles = Operators
          /\ x.name \in {"merchants", "merchant-detail", "merchant-channel-new", "channel-detail"}
      BY <1>1 DEF MerchantRoutes
    <2>2. q \in {"merchants", "merchant-detail", "merchant-channel-new", "channel-detail"}
      BY <1>0, <2>1 DEF LinksOf
    <2>3. \E y \in MerchantRoutes : y.name = q /\ y.roles = Operators
      BY <2>2 DEF MerchantRoutes
    <2> QED  BY <2>1, <2>3 DEF Tables
  <1>2. CASE x \in PaymentRoutes
    <2>1. /\ x.roles = Payers
          /\ x.name \in {"payments", "payment-detail", "refunds", "refund-detail", "refund-new"}
      BY <1>2 DEF PaymentRoutes
    <2>2. q \in {"payment-detail", "refund-new", "refund-detail"}
      BY <1>0, <2>1 DEF LinksOf
    <2>3. \E y \in PaymentRoutes : y.name = q /\ y.roles = Payers
      BY <2>2 DEF PaymentRoutes
    <2> QED  BY <2>1, <2>3 DEF Tables
  <1>3. CASE x \in OperationRoutes
    <2>1. \/ x.name = "reconciliation" /\ x.roles = Payers
          \/ x.name = "webhook-out" /\ x.roles = Operators
          \/ x.name = "integrations" /\ x.roles = Admins
          \/ x.name \in {"reconciliation-detail", "webhook-out-delivery-log-detail",
                         "integration-detail", "system"}
      BY <1>3 DEF OperationRoutes
    <2>2. \/ q = "reconciliation-detail" /\ x.roles = Payers
          \/ q = "webhook-out-delivery-log-detail" /\ x.roles = Operators
          \/ q = "integration-detail" /\ x.roles = Admins
      BY <1>0, <2>1 DEF LinksOf
    <2>3. \E y \in OperationRoutes : y.name = q /\ y.roles = x.roles
      BY <2>2 DEF OperationRoutes
    <2> QED  BY <2>3 DEF Tables
  <1> QED  BY <1>1, <1>2, <1>3 DEF Tables

\* Whoever may open a page has its menu, and may follow its links.
LEMMA OpenPageHasItsMenu ==
  ASSUME NEW r \in Roles, NEW p \in Registered[r], ~RouteOf[p].constant
  PROVE  /\ SelectedKey[p] \in MenuKeys[r]
         /\ BreadcrumbsAt(p, r) # <<>> /\ BreadcrumbsAt(p, r)[1] = SelectedKey[p]
         /\ p # "home" => LinksOf[p] \subseteq Registered[r]
  <1>1. PICK x \in InitAuthRoute(r) : p = x.name
    BY KeysAreShown
  <1>2. x \in GeneratedRoutes /\ p \in Names /\ RouteOf[p] = x
    BY <1>1, RegisteredRoutes, FoundByName
  <1>3. x \in Tables
    BY <1>2, AuthRoutesAreTables DEF AuthRoutes, ConstantRoutes
  <1>4. SelectedKey[p] = x.activeMenu
    BY <1>1, <1>2, <1>3, PagesAreRoutes, MenuAsksTheSame
  <1>5. x.activeMenu \in MenuKeys[r]
    <2>1. PICK m \in Shown : m.name = x.activeMenu /\ m.roles = x.roles
      BY <1>3, MenuAsksTheSame
    <2>2. m \in Tables
      BY DEF Shown, Tables, MerchantRoutes, PaymentRoutes, OperationRoutes
    <2>3. m \in InitAuthRoute(r)
      BY <1>3, <2>1, <2>2, MayOpen
    <2> QED  BY <2>1, <2>3, KeysAreShown
  <1>6. BreadcrumbsAt(p, r) # <<>> /\ BreadcrumbsAt(p, r)[1] = SelectedKey[p]
    <2>1. CASE p \in MenuKeys[r]
      BY <2>1, KeysAreTheirOwn DEF BreadcrumbsAt
    <2>2. CASE p \notin MenuKeys[r]
      BY <1>2, <1>4, <1>5, <2>2 DEF BreadcrumbsAt
    <2> QED  BY <2>1, <2>2
  <1>7. ASSUME p # "home", NEW q \in LinksOf[p]
        PROVE  q \in Registered[r]
    <2>1. PICK y \in Tables : y.name = q /\ y.roles = x.roles
      BY <1>1, <1>3, <1>7, LinksAskTheSame
    <2>2. y \in InitAuthRoute(r)
      BY <1>3, <2>1, MayOpen
    <2> QED  BY <2>1, <2>2, KeysAreShown
  <1> QED  BY <1>4, <1>5, <1>6, <1>7

-----------------------------------------------------------------------------
(* The highlighted menu.                                                   *)

\* Every page a role's router knows is a name of the table.
LEMMA RegisteredAreNames ==
  ASSUME NEW r \in Roles
  PROVE  Registered[r] \subseteq Names
  BY KeysAreShown, RegisteredRoutes DEF Names

\* Whatever the pages a user may open, they are known to the router.
LEMMA OpenAreRegistered ==
  ASSUME NEW r \in Roles
  PROVE  OpenTo(r) \subseteq Registered[r]
  BY KeysAreShown DEF OpenTo, InitAuthRoute, FilterAuthRoutesByRoles

\* Every router knows the login page and the pages of errors, and the login
\* page has a layout without menus.
LEMMA BlankPagesAreThere ==
  /\ \A r \in Roles : {"403", "404", "login"} \subseteq Registered[r]
  /\ RouteOf["login"].layout = "blank"
  <1> DEFINE login == ConstantRoute("login", "blank")
             no == ConstantRoute("403", "blank")
             lost == ConstantRoute("404", "blank")
  <1>1. \A x \in {login, no, lost} : x \in GeneratedRoutes /\ x.constant /\ x.layout = "blank"
    <2>1. ASSUME NEW name
          PROVE  /\ ConstantRoute(name, "blank").constant
                 /\ ConstantRoute(name, "blank").layout = "blank"
      <3>1. ConstantRoute(name, "blank") =
              [UnderMenu(name, name, Everyone) EXCEPT !.constant = TRUE, !.layout = "blank"]
        BY DEF ConstantRoute
      <3> QED  BY <3>1 DEF UnderMenu, MenuRoute
    <2> QED  BY <2>1 DEF GeneratedRoutes, BuiltinRoutes
  <1>2. login.name = "login" /\ no.name = "403" /\ lost.name = "404"
    BY RoutesAreNamed
  <1> HIDE DEF login, no, lost
  <1>3. \A r \in Roles : {login, no, lost} \subseteq InitAuthRoute(r)
    BY <1>1 DEF InitAuthRoute, ConstantRoutes
  <1>4. \A r \in Roles : {"403", "404", "login"} \subseteq Registered[r]
    BY <1>2, <1>3, KeysAreShown
  <1>5. RouteOf["login"] = login
    BY <1>1, <1>2, FoundByName
  <1> QED  BY <1>1, <1>4, <1>5

\* Wherever a tab's path leads, the router knows it in the end.
LEMMA LandingsAreRegistered ==
  ASSUME NEW r \in Roles, NEW to
  PROVE  LandsOn(to, r) \in Registered[r]
  BY BlankPagesAreThere DEF LandsOn

\* The page shown, and the one a navigation leads to, are the user's.
OnTheWay ==
  /\ page \in Registered[role]
  /\ target \in Registered[role] \cup {NoTarget}

\* What is highlighted is the page's menu or, where there are menus, one that
\* was clicked: the navigation there goes on, or has been given up.
HighlightLeads ==
  \/ highlight = SelectedKey[page]
  \/ /\ OnBase /\ highlight \in MenuKeys[role]
     /\ highlight = target \/ astray

MenusInv == MenusTypeOK /\ OnTheWay /\ HighlightLeads

\* A push that only pushes keeps the highlight, and knows when it is ahead.
LEMMA PushesStep ==
  ASSUME MenusInv, NEW to \in Registered[role], PushesOnly(to)
  PROVE  MenusInv'
  <1>1. to \in Names /\ target' \in {to, NoTarget}
    BY RegisteredAreNames DEF PushesOnly, Push, MenusInv, MenusTypeOK
  <1>2. MenusTypeOK'
    BY <1>1 DEF MenusInv, MenusTypeOK, PushesOnly, Ahead, siderVars
  <1> QED  BY <1>1, <1>2 DEF MenusInv, OnTheWay, HighlightLeads, PushesOnly, Ahead, OnBase

\* Every click, link, tab, arrival, failure, layout, logout and login leaves
\* the menus well typed, the pages the user's and the highlight on its way.
LEMMA MenusStep ==
  ASSUME MenusInv, [MenusNext]_menuVars
  PROVE  MenusInv'
  <1> USE DEF MenusInv, MenusTypeOK, OnTheWay, siderVars
  <1>0. Registered[role] \subseteq Names /\ (\A p \in Names : SelectedKey[p] \in Names)
    BY RegisteredAreNames, KeysAreNames
  <1>1. CASE Arrive
    <2>1. target \in Registered[role] /\ target \in Names /\ SelectedKey[target] \in Names
      BY <1>0, <1>1 DEF Arrive
    <2>2. CASE page' # page
      BY <1>1, <2>1, <2>2 DEF Arrive, GetActiveFirstLevelMenuKey, HighlightLeads
    <2>3. CASE page' = page
      <3>1. SelectedKey[page] = page \/ highlight # target \/ highlight \notin MenuKeys[role]
        BY <1>1, <2>3, KeysAreTheirOwn DEF Arrive
      <3>2. HighlightLeads'
        BY <1>1, <2>3, <3>1 DEF Arrive, HighlightLeads, OnBase
      <3> QED  BY <1>1, <2>1, <2>3, <3>2 DEF Arrive
    <2> QED  BY <2>2, <2>3
  <1>2. CASE NavigationFails
    BY <1>2 DEF NavigationFails, HighlightLeads, Ahead, OnBase
  <1>3. CASE HandleResetActiveMenu
    BY <1>0, <1>3 DEF HandleResetActiveMenu, GetActiveFirstLevelMenuKey, HighlightLeads
  <1>4. CASE ToggleMixSiderFixed
    BY <1>4 DEF ToggleMixSiderFixed, HighlightLeads, OnBase
  <1>5. ASSUME NEW k, HandleSelectFirstLevelMenu(k)
        PROVE  MenusInv'
    <2>1. k \in Names /\ k \in Registered[role] /\ SelectedKey[k] = k /\ k \in MenuKeys[role]
      BY <1>5, KeysAreTheirOwn DEF HandleSelectFirstLevelMenu
    <2>2. target' = k \/ (page = k /\ target' = NoTarget)
      BY <1>5 DEF HandleSelectFirstLevelMenu, Push
    <2>3. HighlightLeads'
      BY <1>5, <2>1, <2>2 DEF HandleSelectFirstLevelMenu, HighlightLeads, OnBase
    <2> QED  BY <1>5, <2>1, <2>2, <2>3 DEF HandleSelectFirstLevelMenu
  <1>6. ASSUME NEW k, PushByKey(k) \/ FollowLink(k)
        PROVE  MenusInv'
    <2>1. k \in Registered[role] /\ PushesOnly(k)
      BY <1>6, KeysAreTheirOwn DEF PushByKey, FollowLink, RenderedLinks
    <2> QED  BY <2>1, PushesStep
  <1>7. ASSUME NEW k, SwitchTab(k)
        PROVE  MenusInv'
    BY <1>7, LandingsAreRegistered, PushesStep DEF SwitchTab
  <1>8. CASE BackToHome
    BY <1>8, HomeIsOpen, PushesStep DEF BackToHome
  <1>9. ASSUME NEW mode \in LayoutModes, SetThemeLayout(mode)
        PROVE  MenusInv'
    BY <1>9 DEF SetThemeLayout, HighlightLeads, OnBase
  <1>10. CASE LeavesForLogin
    <2>1. "login" \in Registered[role] /\ "login" \in Names
      BY <1>0, BlankPagesAreThere
    <2> QED  BY <1>0, <1>10, <2>1 DEF LeavesForLogin, GetActiveFirstLevelMenuKey, HighlightLeads
  <1>11. ASSUME NEW r \in Roles, LoginAs(r)
         PROVE  MenusInv'
    <2>1. highlight = SelectedKey[page]
      BY <1>11, BlankPagesAreThere DEF LoginAs, HighlightLeads, OnBase
    <2>2. page \in Registered[r] /\ target' \in Registered[r]
      <3>1. target' \in OpenTo(r) \cup {"home"}
        BY <1>11 DEF LoginAs
      <3> QED  BY <1>11, <3>1, BlankPagesAreThere, OpenAreRegistered, HomeIsOpen DEF LoginAs
    <2>3. target' \in Names
      BY <2>2, RegisteredAreNames
    <2> QED  BY <1>11, <2>1, <2>2, <2>3 DEF LoginAs, HighlightLeads
  <1>12. CASE UNCHANGED menuVars
    BY <1>12 DEF menuVars, HighlightLeads, OnBase
  <1> QED  BY <1>1, <1>2, <1>3, <1>4, <1>5, <1>6, <1>7, <1>8, <1>9, <1>10, <1>11, <1>12 DEF MenusNext

\* The invariant of the menus.
LEMMA MenusSafe == MenusSpec => []MenusInv
  <1>1. MenusInit => MenusInv
    <2> SUFFICES ASSUME MenusInit
                 PROVE  MenusInv
      OBVIOUS
    <2>0. PICK r \in Roles : \E p \in OpenTo(r) : Mounted(p, r)
      BY DEF MenusInit
    <2>1. PICK p \in OpenTo(r) : Mounted(p, r)
      BY <2>0
    <2>2. p \in Registered[r] /\ p \in Names /\ SelectedKey[p] \in Names
      BY OpenAreRegistered, RegisteredAreNames, KeysAreNames
    <2> QED  BY <2>1, <2>2 DEF MenusInit, Mounted, MenusInv, MenusTypeOK, OnTheWay, HighlightLeads
  <1>2. MenusInv /\ [MenusNext]_menuVars => MenusInv'
    BY MenusStep
  <1> QED  BY <1>1, <1>2, PTL DEF MenusSpec

\* Every reachable state of the menus is well typed.
THEOREM MenusTypeCorrect == MenusSpec => []MenusTypeOK
  <1>1. MenusInv => MenusTypeOK
    BY DEF MenusInv
  <1> QED  BY <1>1, MenusSafe, PTL

\* The highlighted menu is one the user has, and that of the page or of the
\* page on its way, unless the navigation it was set for was overtaken or
\* failed; in every layout, for any tabs, and whoever logs in after whom.
THEOREM HighlightIsThePages == MenusSpec => []HighlightFollowsPage
  <1>1. MenusInv => HighlightFollowsPage
    <2> SUFFICES ASSUME MenusInv, ~RouteOf[page].constant
                 PROVE  /\ highlight \in MenuKeys[role]
                        /\ highlight = SelectedKey[page] \/ highlight = target \/ astray
      BY DEF HighlightFollowsPage
    <2>1. SelectedKey[page] \in MenuKeys[role]
      BY OpenPageHasItsMenu DEF MenusInv, MenusTypeOK, OnTheWay
    <2> QED  BY <2>1 DEF MenusInv, HighlightLeads
  <1> QED  BY <1>1, MenusSafe, PTL

\* Whoever may open a page has its menu and its breadcrumbs and, but for the
\* home page, all its links.
THEOREM PagesHaveTheirMenu == MenusSpec => []PageHasItsMenu
  <1>1. MenusInv => PageHasItsMenu
    BY OpenPageHasItsMenu DEF MenusInv, MenusTypeOK, OnTheWay, PageHasItsMenu, RenderedLinks
  <1> QED  BY <1>1, MenusSafe, PTL

-----------------------------------------------------------------------------
(* The search.                                                             *)

\* Nothing is found with an empty keyword.
LEMMA BlankFindsNothing ==
  ASSUME NEW r
  PROVE  MenusAmong(r, Blank) = <<>>
  <1> DEFINE menus == MenusAmong(r, Blank)
  <1>1. menus \in Seq(Names) /\ ToSet(menus) = {x.name : x \in MenuRoutes(r, Blank)}
    BY MenusAreRoutes
  <1>2. MenuRoutes(r, Blank) = {}
    BY DEF MenuRoutes, Blank
  <1> HIDE DEF menus
  <1>3. {menus[i] : i \in DOMAIN menus} = {}
    BY <1>1, <1>2 DEF ToSet
  <1>4. DOMAIN menus = 1..Len(menus) /\ Len(menus) \in Nat
    BY <1>1
  <1>5. Len(menus) = 0
    <2>1. DOMAIN menus = {}
      BY <1>3
    <2> QED  BY <1>4, <2>1
  <1>6. menus = <<>>
    BY <1>1, <1>5
  <1> QED  BY <1>6 DEF menus

\* The table of results says what a search of a role's menus finds.
LEMMA FoundAreMenus ==
  ASSUME NEW r \in Roles, NEW k \in Keywords \cup {Blank}
  PROVE  FoundBy[r][k] = MenusAmong(r, k)
  BY DEF FoundBy, ByRole, Roles

\* The dialog has nothing typed or listed unless it is shown, fades out or is
\* about to close; and no Enter came when it had not.
SearchIsClean ==
  /\ ~strayEnter
  /\ keyword # Blank \/ resultOptions # <<>> => visible \/ leaving \/ closing > 0

\* The types of the search, with its results as a sequence.
SearchTyped ==
  /\ SearchTypeOK
  /\ resultOptions \in Seq(Names)

\* Every key, click, timer and search leaves the dialog well typed.
LEMMA SearchTypeStep ==
  ASSUME SearchTyped, [SearchNext]_searchVars
  PROVE  SearchTyped'
  <1> USE DEF SearchTyped, SearchTypeOK, StartsClosing
  <1>1. CASE Open \/ ClickMask
    BY <1>1 DEF Open, ClickMask
  <1>8. CASE HandleClose \/ AfterLeave \/ HandleEnter
    <2>1. /\ closing' = closing + 1 /\ closing < MaxClosing
          /\ leaving' = leaving \/ leaving' = FALSE
          /\ UNCHANGED <<searcher, visible, keyword, debounce, resultOptions, activePath>>
      BY <1>8 DEF HandleClose, AfterLeave, HandleEnter
    <2>2. closing' \in 0..MaxClosing
      BY <2>1, SearchConstants
    <2>3. leaving' \in BOOLEAN
      BY <2>1
    <2> QED  BY <2>1, <2>2, <2>3
  <1>2. CASE Search
    <2>1. /\ resultOptions' = FoundBy[searcher][keyword]
          /\ resultOptions' \in Seq(Names)
      BY <1>2, MenusAreRoutes, FoundAreMenus DEF Search
    <2>2. resultOptions' # <<>> => activePath' \in ToSet(resultOptions')
      <3> SUFFICES ASSUME resultOptions' # <<>>
                   PROVE  resultOptions'[1] \in ToSet(resultOptions')
        BY <1>2 DEF Search, FirstPath
      <3>1. 1 \in DOMAIN resultOptions'
        BY <2>1
      <3> QED  BY <3>1 DEF ToSet
    <2> QED  BY <1>2, <2>1, <2>2 DEF Search
  <1>3. CASE HandleArrow
    <2> DEFINE n == Len(resultOptions)
               i == CHOOSE j \in 1..n : resultOptions[j] = activePath
    <2>1. n \in Nat \ {0} /\ DOMAIN resultOptions = 1..n
      BY <1>3 DEF HandleArrow
    <2>2. \E j \in 1..n : resultOptions[j] = activePath
      BY <1>3, <2>1 DEF HandleArrow, ToSet
    <2>3. i \in 1..n
      BY <2>2
    <2>4. PICK to \in {Down(i, n), Up(i, n)} : activePath' = resultOptions[to]
      BY <1>3 DEF HandleArrow
    <2> HIDE DEF n, i
    <2>5. to \in 1..n
      BY <2>1, <2>3, <2>4 DEF Down, Up
    <2>6. activePath' \in ToSet(resultOptions)
      BY <2>1, <2>4, <2>5 DEF ToSet
    <2> QED  BY <1>3, <2>6 DEF HandleArrow
  <1>4. CASE Closed
    <2>1. FoundBy[searcher][Blank] = <<>> /\ <<>> \in Seq(Names)
      BY BlankFindsNothing, FoundAreMenus
    <2>2. closing' \in 0..MaxClosing
      BY <1>4, SearchConstants DEF Closed
    <2>3. leaving' \in BOOLEAN /\ visible' \in BOOLEAN
      BY <1>4 DEF Closed
    <2> QED  BY <1>4, <2>1, <2>2, <2>3 DEF Closed, ClearsKeyword
  <1>5. ASSUME NEW k \in Keywords \cup {Blank}, Type(k) PROVE SearchTyped'
    BY <1>5 DEF Type
  <1>6. ASSUME NEW m \in Names, HandleMouseEnter(m) PROVE SearchTyped'
    BY <1>6 DEF HandleMouseEnter
  <1>7. CASE UNCHANGED searchVars
    BY <1>7 DEF searchVars
  <1> QED  BY <1>1, <1>2, <1>3, <1>4, <1>5, <1>6, <1>7, <1>8 DEF SearchNext

\* Nothing is typed or found behind a closed dialog, however late the debounced
\* search and the timers of handleClose come.
LEMMA SearchCleanStep ==
  ASSUME SearchTyped, SearchIsClean, [SearchNext]_searchVars
  PROVE  SearchIsClean'
  <1>0. closing \in Nat
    BY DEF SearchTyped, SearchTypeOK
  <1> USE DEF SearchIsClean, StartsClosing
  <1>1. CASE Open \/ HandleClose \/ ClickMask \/ AfterLeave
    BY <1>0, <1>1 DEF Open, HandleClose, ClickMask, AfterLeave
  <1>2. CASE HandleEnter
    <2>1. visible \/ leaving \/ closing # 0
      <3>1. visible \/ leaving \/ closing > 0
        BY <1>2 DEF HandleEnter
      <3> QED  BY <1>0, <3>1
    <2>2. ~strayEnter'
      BY <1>2, <2>1 DEF HandleEnter
    <2>3. closing' > 0
      <3>1. closing' = closing + 1
        BY <1>2 DEF HandleEnter
      <3> QED  BY <1>0, <3>1
    <2> QED  BY <2>2, <2>3
  <1>3. CASE Search
    <2>1. keyword = Blank => resultOptions' = <<>>
      BY <1>3, BlankFindsNothing, FoundAreMenus DEF Search, SearchTyped, SearchTypeOK
    <2> QED  BY <1>3, <2>1 DEF Search
  <1>4. CASE HandleArrow
    BY <1>4 DEF HandleArrow
  <1>5. CASE Closed
    BY <1>5 DEF Closed, ClearsKeyword
  <1>6. ASSUME NEW k \in Keywords \cup {Blank}, Type(k) PROVE SearchIsClean'
    BY <1>6 DEF Type
  <1>7. ASSUME NEW m \in Names, HandleMouseEnter(m) PROVE SearchIsClean'
    BY <1>7 DEF HandleMouseEnter
  <1>8. CASE UNCHANGED searchVars
    BY <1>8 DEF searchVars
  <1> QED  BY <1>1, <1>2, <1>3, <1>4, <1>5, <1>6, <1>7, <1>8 DEF SearchNext

\* The invariant of the search.
LEMMA SearchSafe == SearchSpec => [](SearchTyped /\ SearchIsClean)
  <1>1. SearchInit => SearchTyped /\ SearchIsClean
    <2> SUFFICES ASSUME SearchInit
                 PROVE  SearchTyped /\ SearchIsClean
      OBVIOUS
    <2>1. FoundBy[searcher][Blank] = <<>> /\ <<>> \in Seq(Names)
      <3>1. searcher \in Roles
        BY DEF SearchInit
      <3> QED  BY <3>1, BlankFindsNothing, FoundAreMenus
    <2>2. closing \in 0..MaxClosing
      <3>1. closing = 0
        BY DEF SearchInit
      <3> QED  BY <3>1, SearchConstants
    <2>3. SearchTyped
      BY <2>1, <2>2 DEF SearchInit, SearchTyped, SearchTypeOK
    <2>4. SearchIsClean
      BY DEF SearchInit, SearchIsClean
    <2> QED  BY <2>3, <2>4
  <1>2. SearchTyped /\ SearchIsClean /\ [SearchNext]_searchVars => (SearchTyped /\ SearchIsClean)'
    BY SearchTypeStep, SearchCleanStep
  <1> QED  BY <1>1, <1>2, PTL DEF SearchSpec

\* Every reachable state of the search is well typed: the active result is
\* one of those listed, whatever the arrows, the mouse and a new search do.
THEOREM SearchTypeCorrect == SearchSpec => []SearchTypeOK
  <1>1. SearchTyped => SearchTypeOK
    BY DEF SearchTyped
  <1> QED  BY <1>1, SearchSafe, PTL

\* Enter leaves a page only while the search is open or closing, and a closed
\* search has nothing listed.
THEOREM EnterStaysInSearch == SearchSpec => []EnterOnlyInSearch
  <1>1. SearchTyped /\ SearchIsClean => EnterOnlyInSearch
    BY DEF SearchTyped, SearchTypeOK, SearchIsClean, EnterOnlyInSearch
  <1> QED  BY <1>1, SearchSafe, PTL
=============================================================================
