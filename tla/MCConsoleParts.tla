--------------------------- MODULE MCConsoleParts ---------------------------
(***************************************************************************)
(* The parts of the console that share no state, in one run: a behaviour   *)
(* is one of the part that its first state chooses, and the others rest.   *)
(***************************************************************************)
EXTENDS ConsolePages, ConsoleMenus, ConsoleSearch, ConsoleLook, ConsoleLogin

VARIABLE part

allVars == <<pageVars, menuVars, searchVars, lookVars, loginVars, part>>

EveryPage == Pages
Elsewhere == {"home"}
SomeTabs == {"home", "payment-detail", "merchants"}
SomeKeywords == {{"refunds", "reconciliation"}, {"home", "merchants", "system"}}
SomeSettings == {"tab", "watermark", "enableUserName", "enableTime", "breadcrumb"}

\* A command whose reload fails, and another command: that takes four requests,
\* which one of the pages with such commands has.
SomeSends == [p \in Pages |-> IF p = "reconciliation" THEN 4 ELSE 3]

\* Where the parts rest that the behaviour is not about.
PagesRest == route = [page |-> "refund-new", id |-> Self] /\ admin
MenusRest == role = "ADMIN" /\ page = "home" /\ layout = "vertical" /\ mixSiderFixed
SearchRest == searcher = "ADMIN"
LoginRest == accepted = {}

PartsInit ==
  /\ part \in {"pages", "menus", "search", "look", "login"}
  /\ PagesInit /\ (part # "pages" => PagesRest)
  /\ MenusInit /\ (part # "menus" => MenusRest)
  /\ SearchInit /\ (part # "search" => SearchRest)
  /\ LookInit
  /\ LoginInit /\ (part # "login" => LoginRest)

PagesPart ==
  part = "pages" /\ PagesNext /\ UNCHANGED <<menuVars, searchVars, lookVars, loginVars, part>>
MenusPart ==
  part = "menus" /\ MenusNext /\ UNCHANGED <<pageVars, searchVars, lookVars, loginVars, part>>
SearchPart ==
  part = "search" /\ SearchNext /\ UNCHANGED <<pageVars, menuVars, lookVars, loginVars, part>>
LookPart ==
  part = "look" /\ LookNext /\ UNCHANGED <<pageVars, menuVars, searchVars, loginVars, part>>
LoginPart ==
  part = "login" /\ LoginNext /\ UNCHANGED <<pageVars, menuVars, searchVars, lookVars, part>>

PartsNext == PagesPart \/ MenusPart \/ SearchPart \/ LookPart \/ LoginPart

PartsSpec == PartsInit /\ [][PartsNext]_allVars
=============================================================================
