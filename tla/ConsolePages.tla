---------------------------- MODULE ConsolePages ----------------------------
(***************************************************************************)
(* The pages of the admin console: what each loads when it is mounted, the *)
(* commands its buttons send through adminFetch, and what happens to the   *)
(* page when the answers come, in whatever order, also after it was left.  *)
(*                                                                         *)
(* Every page is one pattern: a load, a flag per button (or per group of   *)
(* buttons) that spins and blocks it, and commands whose answer is shown,  *)
(* reloads the page, is only reported, or leads to another page.  The      *)
(* views below say what each page makes of it.                             *)
(***************************************************************************)
EXTENDS Naturals

CONSTANTS
  Ids,        \* ids of records; on the page of users, user names
  Self,       \* the user who is logged in
  FirstPages, \* pages the console is opened at
  NextPages, \* pages menus, tabs and links lead to, besides other ids of a page
  Nil,
  MaxSends,   \* bound on the requests a user may send from each page
  MaxChanges  \* bound on what others change meanwhile

ASSUME PagesConstants ==
  /\ Self \in Ids /\ Nil \notin Ids
  /\ MaxChanges \in Nat

VARIABLES
  route,     \* the page that is shown and the id in its path
  admin,     \* the user has the role ADMIN
  version,   \* how often the backend's records changed
  pending,   \* the payments and reconciliation runs that are still pending
  shown,     \* the data the page shows, as the backend held them
  activity,  \* the integration whose relay log the page holds
  editing,   \* the user whom the page of users edits
  flags,     \* loading flags that are set
  requests,  \* requests of this page and of earlier ones
  sends, changes,
  owed,      \* history: the version the page's last command produced, unless a load
             \* has failed since, which the page reports
  overlapped \* history: requests of the page were in flight together

pageVars == <<route, admin, version, pending, shown, activity, editing, flags,
              requests, sends, changes, owed, overlapped>>

---------------------------------------------------------------------------
(* The views                                                               *)

\* A button: the flag that blocks it while its request runs, what the answer
\* does, and what the button needs to be shown.  The confirm buttons of the
\* popconfirms, clickable until the handler's promise is settled, and the test
\* of the integrations have no flag ("none"): they send as often as clicked.
Button(flag, does, needs) == [flag |-> flag, does |-> does, page |-> Nil, needs |-> needs]
Leads(flag, to, needs) == [flag |-> flag, does |-> "go", page |-> to, needs |-> needs]
View(shows, buttons) == [shows |-> shows, buttons |-> buttons]
NoButtons == [b \in {} |-> b]

Home == View("list", NoButtons)
Merchants == View("list", [create |-> Leads("submitting", "merchant-detail", {"admin"})])
RecordButtons(parent) ==
  LET needs == {"admin", "data"} IN
  [save |-> Button("saving", "show", needs),
   bind |-> Button("binding", "show", needs),
   unbind |-> Button("binding", "show", needs),
   verify |-> Button("verifying", "note", needs),
   archive |-> Leads("archiving", parent, needs)]
MerchantDetail == View("record", RecordButtons("merchants"))
ChannelDetail == View("record", RecordButtons("merchant-detail"))
ChannelNew == View("nothing", [create |-> Leads("submitting", "channel-detail", {})])
Payments == View("list", [create |-> Leads("none", "payment-detail", {})])
PaymentDetail == View("record", [cancel |-> Button("none", "show", {"pending"})])
Refunds == View("list", NoButtons)
RefundNew == View("nothing", [create |-> Leads("none", "refund-detail", {})])
RefundDetail == View("record", NoButtons)
Reconciliation == View("list", [ack |-> Button("none", "reload", {"pending", "row"})])
ReconciliationDetail == View("list", NoButtons)
Integrations ==
  View("list", [create |-> Button("saving", "reload", {}),
                test |-> Button("none", "note", {"row"})])
IntegrationDetail ==
  View("record", [test |-> Button("actionLoading", "activity", {}),
                  redispatch |-> Button("actionLoading", "activity", {"activity"})])
WebhookOut ==
  View("list", [create |-> Button("integrationSubmitting", "note", {}),
                bulk |-> Button("none", "note", {})])
DeliveryLog == View("record", [redispatch |-> Button("none", "show", {})])
System ==
  View("list", [create |-> Button("submitting", "reload", {"admin", "notEditing"}),
                edit |-> Button("submitting", "reload", {"admin", "editing"}),
                delete |-> Button("none", "reload", {"admin", "row", "other"})])

Pages ==
  {"home", "merchants", "merchant-detail", "merchant-channel-new", "channel-detail",
   "payments", "payment-detail", "refunds", "refund-new", "refund-detail",
   "reconciliation", "reconciliation-detail", "integrations", "integration-detail",
   "webhook-out", "webhook-out-delivery-log-detail", "system"}
Views == [p \in Pages |->
  CASE p = "home" -> Home
    [] p = "merchants" -> Merchants
    [] p = "merchant-detail" -> MerchantDetail
    [] p = "merchant-channel-new" -> ChannelNew
    [] p = "channel-detail" -> ChannelDetail
    [] p = "payments" -> Payments
    [] p = "payment-detail" -> PaymentDetail
    [] p = "refunds" -> Refunds
    [] p = "refund-new" -> RefundNew
    [] p = "refund-detail" -> RefundDetail
    [] p = "reconciliation" -> Reconciliation
    [] p = "reconciliation-detail" -> ReconciliationDetail
    [] p = "integrations" -> Integrations
    [] p = "integration-detail" -> IntegrationDetail
    [] p = "webhook-out" -> WebhookOut
    [] p = "webhook-out-delivery-log-detail" -> DeliveryLog
    [] p = "system" -> System]
ASSUME PagesBounds == FirstPages \subseteq Pages /\ MaxSends \in [Pages -> Nat]

AdminPages == {"system", "integrations", "integration-detail"}
MayOpen(p) == admin \/ p \notin AdminPages

---------------------------------------------------------------------------
(* State                                                                   *)

ButtonsOf(p) == Views[p].buttons
FlagsOf(p) == {ButtonsOf(p)[b].flag : b \in DOMAIN ButtonsOf(p)} \ {"none"}
AllFlags == {"loading"} \cup UNION {FlagsOf(p) : p \in Pages}
AllButtons == UNION {DOMAIN ButtonsOf(p) : p \in Pages}
Route == [page : Pages, id : Ids]
Snapshot == [version : Nat, pending : SUBSET Ids]
Request ==
  [n : Nat, page : Pages, id : Ids, button : {"load"} \cup AllButtons, item : Ids,
   role : BOOLEAN, live : BOOLEAN,
   stage : {"sent", "served"}, ok : BOOLEAN, got : Snapshot \cup {Nil},
   clears : SUBSET AllFlags]

PagesTypeOK ==
  /\ route \in Route /\ admin \in BOOLEAN
  /\ version \in Nat /\ pending \subseteq Ids
  /\ shown = Nil \/ shown \in [route : Route, data : Snapshot]
  /\ activity \in Ids \cup {Nil} /\ editing \in Ids \cup {Nil}
  /\ flags \subseteq {"loading"} \cup FlagsOf(route.page)
  /\ sends \in Nat /\ owed \in Nat /\ changes \in 0..MaxChanges /\ overlapped \in BOOLEAN
  /\ requests \subseteq Request
  /\ \A q, r \in requests : q.n = r.n => q = r
  /\ \A r \in requests : r.live => r.page = route.page

Live == {r \in requests : r.live}
Snap(v, open) == [version |-> v, pending |-> open]
NewRequest(n, at, button, item, role, clears) ==
  [n |-> n, page |-> at.page, id |-> at.id, button |-> button, item |-> item,
   role |-> role, live |-> TRUE, stage |-> "sent", ok |-> FALSE, got |-> Nil,
   clears |-> clears]
\* A merchant's page asks for the merchant and for its channels and waits for
\* both; the version is that of the merchant, which its commands change.
Load(n, at, clears) == NewRequest(n, at, "load", at.id, FALSE, {"loading"} \cup clears)
Loads(p) == Views[p].shows # "nothing"

\* A page is an instance of its own for every path: a new one is empty and
\* loads; the commands earlier ones sent go on without them, their loads are
\* of no use to anybody.
ReusesView(at) == at.page # route.page
NewInstance(at) == at # route
StaysMounted(rs) == rs
Unmounted(rs) == {[r EXCEPT !.live = FALSE] : r \in {q \in rs : q.button # "load"}}
Mount(at, rs) ==
  /\ route' = at
  /\ shown' = Nil /\ activity' = Nil /\ editing' = Nil
  /\ owed' = 0 /\ overlapped' = FALSE
  /\ flags' = IF Loads(at.page) THEN {"loading"} ELSE {}
  /\ requests' = Unmounted(rs) \cup
                 (IF Loads(at.page) THEN {Load(sends + 1, at, {})} ELSE {})
  /\ sends' = sends + 1
GoTo(at, rs) ==
  IF NewInstance(at) THEN Mount(at, rs)
  ELSE /\ route' = at /\ requests' = rs /\ sends' = sends + 1
       /\ UNCHANGED <<shown, activity, editing, flags, owed, overlapped>>

PagesInit ==
  /\ route \in [page : FirstPages, id : Ids]
  /\ admin \in BOOLEAN /\ MayOpen(route.page)
  /\ version = 0 /\ pending = Ids
  /\ shown = Nil /\ activity = Nil /\ editing = Nil
  /\ flags = IF Loads(route.page) THEN {"loading"} ELSE {}
  /\ requests = IF Loads(route.page) THEN {Load(1, route, {})} ELSE {}
  /\ sends = 1 /\ changes = 0
  /\ owed = 0 /\ overlapped = FALSE

---------------------------------------------------------------------------
(* The user                                                                *)

Sends(request) ==
  /\ sends < MaxSends[route.page]
  /\ sends' = sends + 1
  /\ requests' = requests \cup {request}
  /\ flags' = flags \cup request.clears
  /\ overlapped' = (overlapped \/ Live # {})
  /\ UNCHANGED <<route, admin, version, pending, shown, activity, editing, changes, owed>>

Refresh ==
  /\ Loads(route.page) /\ "loading" \notin flags
  /\ Sends(Load(sends + 1, route, {}))

\* What a button needs before it can be clicked for an item.
Offered(button, item) ==
  LET needs == button.needs IN
  /\ "admin" \in needs => admin
  /\ "data" \in needs => shown # Nil
  /\ "row" \in needs => shown # Nil
  /\ "row" \notin needs /\ editing = Nil => item = route.id
  /\ "pending" \in needs => shown # Nil /\ item \in shown.data.pending
  /\ "activity" \in needs => activity # Nil
  /\ "editing" \in needs => item = editing
  /\ "notEditing" \in needs => editing = Nil
  /\ "other" \in needs => item # Self

\* submitEdit sends the role its form holds; startEdit fills the user's own in.
SendsRole(b) == b = "edit"
Click(b) ==
  LET button == ButtonsOf(route.page)[b] IN
  /\ button.flag \notin flags
  /\ \E item \in Ids :
       /\ Offered(button, item)
       /\ Sends(NewRequest(sends + 1, route, b, item, SendsRole(b), {button.flag} \ {"none"}))

StartEdit(u) ==
  /\ route.page = "system" /\ admin /\ shown # Nil
  /\ editing # u
  /\ editing' = u
  /\ UNCHANGED <<route, admin, version, pending, shown, activity, flags,
                 requests, sends, changes, owed, overlapped>>

CancelEdit ==
  /\ editing # Nil
  /\ editing' = Nil
  /\ UNCHANGED <<route, admin, version, pending, shown, activity, flags,
                 requests, sends, changes, owed, overlapped>>

\* Menus, tabs and links.
Visit(p, i) ==
  /\ sends < MaxSends[route.page] /\ MayOpen(p) /\ [page |-> p, id |-> i] # route
  /\ p \in NextPages \cup {route.page}
  /\ GoTo([page |-> p, id |-> i], requests)
  /\ UNCHANGED <<admin, version, pending, changes>>

\* The reload button of the tab bar renders the page anew.
ReloadPage ==
  /\ sends < MaxSends[route.page]
  /\ Mount(route, requests)
  /\ UNCHANGED <<admin, version, pending, changes>>

\* The form of a new channel sends a user who is not ADMIN back.
LeaveChannelForm ==
  /\ route.page = "merchant-channel-new" /\ ~admin
  /\ Mount([route EXCEPT !.page = "merchant-detail"], requests)
  /\ UNCHANGED <<admin, version, pending, changes>>

---------------------------------------------------------------------------
(* The backend                                                             *)

ButtonOf(r) == ButtonsOf(r.page)[r.button]
Served(r, ok, got) == [r EXCEPT !.stage = "served", !.ok = ok, !.got = got]

\* A command of a record that is no longer pending, and an edit of one's own
\* role, are refused; others may be.
Acceptable(r) ==
  /\ "pending" \in ButtonOf(r).needs => r.item \in pending
  /\ r.item = Self => ~r.role

ServeLoad(r) ==
  /\ r.stage = "sent" /\ r.button = "load"
  /\ \E ok \in BOOLEAN : requests' = (requests \ {r}) \cup
       {Served(r, ok, IF ok THEN Snap(version, pending) ELSE Nil)}
  /\ UNCHANGED <<route, admin, version, pending, shown, activity, editing, flags,
                 sends, changes, owed, overlapped>>

\* Executed, refused, or executed without an answer.
Command(r) ==
  /\ r.stage = "sent" /\ r.button # "load"
  /\ \E executed \in {FALSE, Acceptable(r)} :
       /\ version' = IF executed THEN version + 1 ELSE version
       /\ pending' = IF executed /\ "pending" \in ButtonOf(r).needs
                     THEN pending \ {r.item} ELSE pending
       /\ \E ok \in {FALSE, executed} : requests' = (requests \ {r}) \cup
            {Served(r, ok, IF ok THEN Snap(version', pending') ELSE Nil)}
  /\ UNCHANGED <<route, admin, shown, activity, editing, flags, sends,
                 changes, owed, overlapped>>

OthersChange(i) ==
  /\ changes < MaxChanges
  /\ changes' = changes + 1 /\ version' = version + 1
  /\ pending' = pending \ {i}
  /\ UNCHANGED <<route, admin, shown, activity, editing, flags, requests,
                 sends, owed, overlapped>>

---------------------------------------------------------------------------
(* Answers                                                                 *)

\* What finally takes back.
ClearsAll(r) == {}
ClearsOnSuccess(r) == IF r.ok THEN flags \ r.clears ELSE flags
FlagsAfter(r) == flags \ r.clears

LoadAnswered(r) ==
  /\ r.stage = "served" /\ r.button = "load"
  /\ requests' = requests \ {r}
  /\ IF r.live
     THEN /\ shown' = IF r.ok THEN [route |-> [page |-> r.page, id |-> r.id], data |-> r.got]
                      ELSE shown
          /\ owed' = IF r.ok THEN owed ELSE 0
          /\ flags' = FlagsAfter(r)
     ELSE UNCHANGED <<shown, owed, flags>>
  /\ UNCHANGED <<route, admin, version, pending, activity, editing, sends, changes,
                 overlapped>>

\* The answer is the record, a relay log, or only worth a message.
CommandShown(r) ==
  LET does == ButtonOf(r).does IN
  /\ r.stage = "served" /\ r.button # "load"
  /\ ~r.ok \/ does \in {"show", "activity", "note"}
  /\ requests' = requests \ {r}
  /\ IF r.live
     THEN /\ shown' = IF r.ok /\ does = "show"
                      THEN [route |-> [page |-> r.page, id |-> r.id], data |-> r.got]
                      ELSE shown
          /\ activity' = IF r.ok /\ does = "activity" THEN r.id ELSE activity
          /\ owed' = IF r.ok /\ does = "show" THEN r.got.version ELSE owed
          /\ flags' = FlagsAfter(r)
     ELSE UNCHANGED <<shown, activity, owed, flags>>
  /\ UNCHANGED <<route, admin, version, pending, editing, sends, changes, overlapped>>

\* The page loads again before the command's own flag is taken back.
NoReload(r, rs) == rs
AndReload(r, rs) ==
  IF r.live THEN rs \cup {Load(sends + 1, route, r.clears)} ELSE rs
CommandReloads(r) ==
  /\ r.stage = "served" /\ r.button # "load"
  /\ r.ok /\ ButtonOf(r).does = "reload"
  /\ sends' = sends + 1
  /\ requests' = AndReload(r, requests \ {r})
  /\ IF r.live
     THEN /\ flags' = flags \cup {"loading"}
          /\ owed' = r.got.version
          /\ editing' = IF r.button = "edit" THEN Nil ELSE editing
          /\ overlapped' = (overlapped \/ Live # {r})
     ELSE UNCHANGED <<flags, owed, editing, overlapped>>
  /\ UNCHANGED <<route, admin, version, pending, shown, activity, changes>>

\* A page that was left still pushes to where its command leads.
CommandLeads(r) ==
  /\ r.stage = "served" /\ r.button # "load"
  /\ r.ok /\ ButtonOf(r).does = "go"
  /\ \E i \in Ids : GoTo([page |-> ButtonOf(r).page, id |-> i], requests \ {r})
  /\ UNCHANGED <<admin, version, pending, changes>>

PagesNext ==
  \/ Refresh \/ CancelEdit \/ ReloadPage \/ LeaveChannelForm
  \/ \E b \in DOMAIN ButtonsOf(route.page) : Click(b)
  \/ \E i \in Ids : StartEdit(i) \/ OthersChange(i)
  \/ \E p \in Pages, i \in Ids : Visit(p, i)
  \/ \E r \in requests :
       \/ ServeLoad(r) \/ Command(r) \/ LoadAnswered(r)
       \/ CommandShown(r) \/ CommandReloads(r) \/ CommandLeads(r)

PagesSpec == PagesInit /\ [][PagesNext]_pageVars

---------------------------------------------------------------------------
(* Properties                                                              *)

\* However late an answer comes, a page shows the record its path names, and
\* an integration's page offers only that integration's log for redispatch.
AnswersStayOnTheirPage ==
  /\ shown # Nil => shown.route = route
  /\ activity # Nil => activity = route.id

\* Of the buttons that share a loading flag there is never more than one request
\* in flight, and none while the reload that follows a command still runs.
\* Eight buttons have no flag and no such protection (a payment, a refund, a
\* cancel, an ack, a test, two redispatches and the deletion of a user).
FlaggedSendOnce ==
  \A q, r \in Live : (q.clears \cap r.clears) \ {"loading"} # {} => q = r

\* A page whose requests are answered shows what its user last did, unless
\* requests crossed or a load failed, which was reported.
ShowsOwnChange ==
  Live = {} /\ ~overlapped /\ shown # Nil => shown.data.version >= owed

\* A flag that is set is one that a request in flight will take back, whatever
\* becomes of it: no button spins for ever.
FlagsClear == flags \subseteq UNION {r.clears : r \in Live}
=============================================================================
