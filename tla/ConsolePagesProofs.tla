------------------------- MODULE ConsolePagesProofs -------------------------
(***************************************************************************)
(* Proofs about ConsolePages: the invariants of every page, for any ids,   *)
(* any pages to start from and to go to, and any number of requests.       *)
(*                                                                         *)
(* The inductive invariant is stated part by part, over the parts of the   *)
(* state it relates, so that what a request that is added, answered or     *)
(* given up does to a part is a lemma of its own.                          *)
(***************************************************************************)
EXTENDS ConsolePages, TLAPS

At(r) == [page |-> r.page, id |-> r.id]

\* Requests carry different numbers, commands come from a button of their page,
\* and an answer is the state of the backend at some earlier time.
RequestsOK(rs, top, v) ==
  /\ rs \subseteq Request
  /\ \A q, r \in rs : q.n = r.n => q = r
  /\ \A r \in rs :
       /\ r.n <= top
       /\ r.button # "load" => r.button \in DOMAIN ButtonsOf(r.page)
       /\ r.ok => r.got \in Snapshot /\ r.got.version <= v

\* The requests of the page that is shown, and its flags.
LiveOK(rs, at, fl) ==
  /\ \A r \in rs : r.live => At(r) = at /\ r.clears \ {"loading"} \subseteq fl
  /\ \A q, r \in rs : q.live /\ r.live /\ (q.clears \cap r.clears) \ {"loading"} # {} => q = r
  /\ \A f \in fl : \E r \in rs : r.live /\ f \in r.clears

\* What the page shows is not older than what it owes, or a load is under way.
OwedOK(rs, over, data, debt, v) ==
  /\ debt <= v
  /\ ~over =>
       /\ \A q, r \in rs : q.live /\ r.live => q = r
       /\ \A r \in rs : r.live /\ r.button = "load" /\ r.ok => r.got.version >= debt
       /\ (\A r \in rs : r.live => r.button # "load") /\ data # Nil => data.data.version >= debt

ScalarsOK ==
  /\ route \in Route /\ admin \in BOOLEAN
  /\ version \in Nat /\ pending \subseteq Ids
  /\ shown = Nil \/ shown \in [route : Route, data : Snapshot]
  /\ activity \in Ids \cup {Nil} /\ editing \in Ids \cup {Nil}
  /\ flags \subseteq {"loading"} \cup FlagsOf(route.page)
  /\ sends \in Nat /\ owed \in Nat /\ changes \in 0..MaxChanges /\ overlapped \in BOOLEAN

PagesInv ==
  /\ ScalarsOK
  /\ AnswersStayOnTheirPage
  /\ RequestsOK(requests, sends, version)
  /\ LiveOK(requests, route, flags)
  /\ OwedOK(requests, overlapped, shown, owed, version)

---------------------------------------------------------------------------
(* The views                                                               *)

\* A command that leads to a page leads to another one than its own.
LeadsElsewhere(p) ==
  \A b \in DOMAIN ButtonsOf(p) :
    ButtonsOf(p)[b].does = "go" => ButtonsOf(p)[b].page \in Pages \ {p}

\* So it is on every page, whatever button of it is clicked.
LEMMA ButtonsLeadElsewhere == ASSUME NEW p \in Pages PROVE LeadsElsewhere(p)
<1> USE DEF Pages, LeadsElsewhere, ButtonsOf, Views, View, Button, Leads
<1>1. CASE p = "home" BY <1>1 DEF Home, NoButtons
<1>2. CASE p = "merchants" BY <1>2 DEF Merchants
<1>3. CASE p = "merchant-detail" BY <1>3 DEF MerchantDetail, RecordButtons
<1>4. CASE p = "merchant-channel-new" BY <1>4 DEF ChannelNew
<1>5. CASE p = "channel-detail" BY <1>5 DEF ChannelDetail, RecordButtons
<1>6. CASE p = "payments" BY <1>6 DEF Payments
<1>7. CASE p = "payment-detail" BY <1>7 DEF PaymentDetail
<1>8. CASE p = "refunds" BY <1>8 DEF Refunds, NoButtons
<1>9. CASE p = "refund-new" BY <1>9 DEF RefundNew
<1>10. CASE p = "refund-detail" BY <1>10 DEF RefundDetail, NoButtons
<1>11. CASE p = "reconciliation" BY <1>11 DEF Reconciliation
<1>12. CASE p = "reconciliation-detail" BY <1>12 DEF ReconciliationDetail, NoButtons
<1>13. CASE p = "integrations" BY <1>13 DEF Integrations
<1>14. CASE p = "integration-detail" BY <1>14 DEF IntegrationDetail
<1>15. CASE p = "webhook-out" BY <1>15 DEF WebhookOut
<1>16. CASE p = "webhook-out-delivery-log-detail" BY <1>16 DEF DeliveryLog
<1>17. CASE p = "system" BY <1>17 DEF System
<1> QED BY <1>1, <1>2, <1>3, <1>4, <1>5, <1>6, <1>7, <1>8, <1>9, <1>10, <1>11, <1>12,
           <1>13, <1>14, <1>15, <1>16, <1>17

\* The flag of a button is one of its page's, unless the button has none.
LEMMA ButtonsHaveFlags ==
  ASSUME NEW p \in Pages, NEW b \in DOMAIN ButtonsOf(p)
  PROVE  {ButtonsOf(p)[b].flag} \ {"none"} \subseteq FlagsOf(p)
BY DEF FlagsOf

\* A page's flags are among all.
LEMMA FlagsAreFlags ==
  ASSUME NEW p \in Pages PROVE {"loading"} \cup FlagsOf(p) \subseteq AllFlags
BY DEF AllFlags

---------------------------------------------------------------------------
(* Requests that are added, answered and given up                          *)

\* A request q that a page has just sent.
NewRequestOf(q, n, at, b, clears) ==
  /\ q \in Request /\ q.n = n /\ At(q) = at /\ q.page = at.page /\ q.live /\ ~q.ok
  /\ q.button = b /\ q.clears = clears

\* What a page sends is a request of it.
LEMMA NewIsRequest ==
  ASSUME NEW n \in Nat, NEW at \in Route, NEW b \in {"load"} \cup AllButtons, NEW item \in Ids,
         NEW role \in BOOLEAN, NEW clears \in SUBSET AllFlags
  PROVE  NewRequestOf(NewRequest(n, at, b, item, role, clears), n, at, b, clears)
<1> DEFINE q == NewRequest(n, at, b, item, role, clears)
           answers == Snapshot \cup {Nil}
           buttons == {"load"} \cup AllButtons
<1>1. at = [page |-> at.page, id |-> at.id] /\ at.page \in Pages /\ at.id \in Ids
  BY DEF Route
<1>2. q = [n |-> n, page |-> at.page, id |-> at.id, button |-> b, item |-> item,
           role |-> role, live |-> TRUE, stage |-> "sent", ok |-> FALSE, got |-> Nil,
           clears |-> clears]
  BY DEF NewRequest
<1>3. b \in buttons /\ Nil \in answers
  OBVIOUS
<1> HIDE DEF answers, buttons, q
<1>4. q \in [n : Nat, page : Pages, id : Ids, button : buttons, item : Ids,
             role : BOOLEAN, live : BOOLEAN, stage : {"sent", "served"}, ok : BOOLEAN,
             got : answers, clears : SUBSET AllFlags]
  BY <1>1, <1>2, <1>3
<1>5. q \in Request
  BY <1>4 DEF Request, answers, buttons
<1>6. At(q) = at
  BY <1>1, <1>2 DEF At
<1>7. q.n = n /\ q.page = at.page /\ q.live = TRUE /\ q.ok = FALSE
      /\ q.button = b /\ q.clears = clears
  BY <1>2
<1> QED BY <1>5, <1>6, <1>7 DEF q, NewRequestOf

\* So is its load.
LEMMA LoadIsRequest ==
  ASSUME NEW n \in Nat, NEW at \in Route, NEW clears \in SUBSET AllFlags
  PROVE  NewRequestOf(Load(n, at, clears), n, at, "load", {"loading"} \cup clears)
<1>1. at.id \in Ids /\ "load" \in {"load"} \cup AllButtons /\ FALSE \in BOOLEAN
  BY DEF Route
<1>2. {"loading"} \cup clears \in SUBSET AllFlags
  BY DEF AllFlags
<1> QED BY <1>1, <1>2, NewIsRequest DEF Load

\* A new request has a number of its own.
LEMMA AddRequest ==
  ASSUME NEW rs, NEW top \in Nat, NEW v \in Nat, RequestsOK(rs, top, v),
         NEW q \in Request, q.n = top + 1, ~q.ok,
         q.button # "load" => q.button \in DOMAIN ButtonsOf(q.page)
  PROVE  RequestsOK(rs \cup {q}, top + 1, v)
<1>1. \A r \in rs : r.n \in Nat /\ r.n <= top
  BY DEF RequestsOK, Request
<1>2. \A r \in rs : r.n # q.n /\ r.n <= top + 1
  BY <1>1
<1>3. \A a, b \in rs \cup {q} : a.n = b.n => a = b
  BY <1>2 DEF RequestsOK
<1> QED BY <1>2, <1>3 DEF RequestsOK

\* Requests that are dropped leave the others as they were.
LEMMA DropRequests ==
  ASSUME NEW rs, NEW top \in Nat, NEW v, RequestsOK(rs, top, v), NEW qs \in SUBSET rs,
         NEW more \in Nat, top <= more
  PROVE  RequestsOK(qs, more, v)
<1>1. \A r \in rs : r.n \in Nat
  BY DEF RequestsOK, Request
<1> QED BY <1>1 DEF RequestsOK

\* An answered request is the request it was, but for its answer.
LEMMA ServedRequest ==
  ASSUME NEW r \in Request, NEW ok \in BOOLEAN, NEW got \in Snapshot \cup {Nil}
  PROVE  LET q == Served(r, ok, got) IN
         /\ q \in Request /\ q.ok = ok /\ q.got = got /\ q.stage = "served"
         /\ q.n = r.n /\ At(q) = At(r) /\ q.page = r.page /\ q.id = r.id
         /\ q.button = r.button /\ q.live = r.live /\ q.clears = r.clears
<1> DEFINE answers == Snapshot \cup {Nil}
           buttons == {"load"} \cup AllButtons
           q == Served(r, ok, got)
<1>1. r \in [n : Nat, page : Pages, id : Ids, button : buttons, item : Ids,
             role : BOOLEAN, live : BOOLEAN, stage : {"sent", "served"}, ok : BOOLEAN,
             got : answers, clears : SUBSET AllFlags]
  BY DEF Request
<1>2. got \in answers
  OBVIOUS
<1>3. q = [r EXCEPT !.stage = "served", !.ok = ok, !.got = got]
  BY DEF Served
<1> HIDE DEF answers, buttons, q
<1>4. q \in [n : Nat, page : Pages, id : Ids, button : buttons, item : Ids,
             role : BOOLEAN, live : BOOLEAN, stage : {"sent", "served"}, ok : BOOLEAN,
             got : answers, clears : SUBSET AllFlags]
  BY <1>1, <1>2, <1>3
<1>5. q \in Request
  BY <1>4 DEF Request, answers, buttons
<1>6. q.ok = ok /\ q.got = got /\ q.stage = "served"
  BY <1>1, <1>3
<1>7. q.n = r.n /\ q.page = r.page /\ q.id = r.id
      /\ q.button = r.button /\ q.live = r.live /\ q.clears = r.clears
  BY <1>1, <1>3
<1>8. At(q) = At(r)
  BY <1>7 DEF At
<1> QED BY <1>5, <1>6, <1>7, <1>8 DEF q

\* An answer is not newer than the backend.
LEMMA AnswerRequest ==
  ASSUME NEW rs, NEW top \in Nat, NEW v \in Nat, RequestsOK(rs, top, v), NEW w \in Nat, v <= w,
         NEW r \in rs, NEW ok \in BOOLEAN, NEW got \in Snapshot \cup {Nil},
         ok => got \in Snapshot /\ got.version <= w
  PROVE  RequestsOK((rs \ {r}) \cup {Served(r, ok, got)}, top, w)
<1> DEFINE q == Served(r, ok, got)
<1>1. r \in Request
  BY DEF RequestsOK
<1>2. /\ q \in Request /\ q.ok = ok /\ q.got = got
      /\ q.n = r.n /\ q.page = r.page /\ q.button = r.button
  BY <1>1, ServedRequest
<1> HIDE DEF q
<1>3. \A a, b \in (rs \ {r}) \cup {q} : a.n = b.n => a = b
  BY <1>2 DEF RequestsOK
<1>4. ASSUME NEW a \in rs
      PROVE  a.ok => a.got \in Snapshot /\ a.got.version <= w
  <2>1. a.ok => a.got \in Snapshot /\ a.got.version <= v
    BY DEF RequestsOK
  <2>2. a.ok => a.got.version \in Nat
    BY <2>1 DEF Snapshot
  <2> QED BY <2>1, <2>2
<1>5. \A a \in (rs \ {r}) \cup {q} :
        /\ a.n <= top
        /\ a.button # "load" => a.button \in DOMAIN ButtonsOf(a.page)
        /\ a.ok => a.got \in Snapshot /\ a.got.version <= w
  BY <1>2, <1>4 DEF RequestsOK
<1>6. (rs \ {r}) \cup {q} \subseteq Request
  BY <1>2 DEF RequestsOK
<1>7. RequestsOK((rs \ {r}) \cup {q}, top, w)
  BY <1>3, <1>5, <1>6 DEF RequestsOK
<1> QED BY <1>7 DEF q

\* The requests of a page that is left are commands, and nobody's.
LEMMA LeaveRequests ==
  ASSUME NEW rs, NEW top \in Nat, NEW v, RequestsOK(rs, top, v)
  PROVE  RequestsOK(Unmounted(rs), top, v) /\ \A q \in Unmounted(rs) : ~q.live
<1>1. ASSUME NEW r \in rs
      PROVE  LET q == [r EXCEPT !.live = FALSE] IN
             /\ q \in Request /\ q.live = FALSE
             /\ q.n = r.n /\ q.page = r.page /\ q.button = r.button /\ q.ok = r.ok /\ q.got = r.got
  <2> DEFINE answers == Snapshot \cup {Nil}
             buttons == {"load"} \cup AllButtons
             q == [r EXCEPT !.live = FALSE]
  <2>1. r \in [n : Nat, page : Pages, id : Ids, button : buttons, item : Ids,
               role : BOOLEAN, live : BOOLEAN, stage : {"sent", "served"}, ok : BOOLEAN,
               got : answers, clears : SUBSET AllFlags]
    BY DEF RequestsOK, Request
  <2> HIDE DEF answers, buttons
  <2>2. q \in [n : Nat, page : Pages, id : Ids, button : buttons, item : Ids,
               role : BOOLEAN, live : BOOLEAN, stage : {"sent", "served"}, ok : BOOLEAN,
               got : answers, clears : SUBSET AllFlags]
    BY <2>1
  <2>3. /\ q.live = FALSE
        /\ q.n = r.n /\ q.page = r.page /\ q.button = r.button /\ q.ok = r.ok /\ q.got = r.got
    BY <2>1
  <2> QED BY <2>2, <2>3 DEF Request, answers, buttons
<1>2. ASSUME NEW q \in Unmounted(rs)
      PROVE  \E r \in rs : q = [r EXCEPT !.live = FALSE]
  BY DEF Unmounted
<1>3. ASSUME NEW a \in Unmounted(rs), NEW b \in Unmounted(rs), a.n = b.n
      PROVE  a = b
  <2>1. PICK r \in rs : a = [r EXCEPT !.live = FALSE]
    BY <1>2
  <2>2. PICK t \in rs : b = [t EXCEPT !.live = FALSE]
    BY <1>2
  <2>3. r.n = t.n
    BY <1>1, <1>3, <2>1, <2>2
  <2>4. r = t
    BY <2>3 DEF RequestsOK
  <2> QED BY <2>1, <2>2, <2>4
<1>4. ASSUME NEW a \in Unmounted(rs)
      PROVE  /\ a \in Request /\ ~a.live /\ a.n <= top
             /\ a.button # "load" => a.button \in DOMAIN ButtonsOf(a.page)
             /\ a.ok => a.got \in Snapshot /\ a.got.version <= v
  <2>1. PICK r \in rs : a = [r EXCEPT !.live = FALSE]
    BY <1>2
  <2>2. /\ a \in Request /\ a.live = FALSE
        /\ a.n = r.n /\ a.page = r.page /\ a.button = r.button /\ a.ok = r.ok /\ a.got = r.got
    BY <1>1, <2>1
  <2> QED BY <2>2 DEF RequestsOK
<1> QED BY <1>3, <1>4 DEF RequestsOK

\* The page whose request is being answered waits for it as before.
LEMMA ServedLive ==
  ASSUME NEW rs, NEW at, NEW fl, LiveOK(rs, at, fl), NEW r \in rs, NEW q,
         At(q) = At(r), q.live = r.live, q.clears = r.clears
  PROVE  LiveOK((rs \ {r}) \cup {q}, at, fl)
<1> DEFINE qs == (rs \ {r}) \cup {q}
<1>1. \A a \in qs : a.live => At(a) = at /\ a.clears \ {"loading"} \subseteq fl
  BY DEF LiveOK
<1>2. \A a, b \in qs : a.live /\ b.live /\ (a.clears \cap b.clears) \ {"loading"} # {} => a = b
  BY DEF LiveOK
<1>3. ASSUME NEW f \in fl
      PROVE  \E a \in qs : a.live /\ f \in a.clears
  <2>1. PICK a \in rs : a.live /\ f \in a.clears
    BY DEF LiveOK
  <2>2. CASE a = r
    BY <2>1, <2>2
  <2>3. CASE a # r
    BY <2>1, <2>3
  <2> QED BY <2>2, <2>3
<1> QED BY <1>1, <1>2, <1>3 DEF LiveOK

\* An answer takes back the flags of its request, and no other request's.
LEMMA AnsweredLive ==
  ASSUME NEW rs, NEW at, NEW fl, LiveOK(rs, at, fl), NEW r \in rs
  PROVE  /\ r.live => LiveOK(rs \ {r}, at, fl \ r.clears)
         /\ ~r.live => LiveOK(rs \ {r}, at, fl)
<1>1. \A a, b \in rs \ {r} :
        a.live /\ b.live /\ (a.clears \cap b.clears) \ {"loading"} # {} => a = b
  BY DEF LiveOK
<1>2. CASE r.live
  <2>1. ASSUME NEW a \in rs \ {r}, a.live
        PROVE  At(a) = at /\ a.clears \ {"loading"} \subseteq fl \ r.clears
    <3>1. At(a) = at /\ a.clears \ {"loading"} \subseteq fl
      BY <2>1 DEF LiveOK
    <3>2. (a.clears \cap r.clears) \ {"loading"} = {}
      BY <1>2, <2>1 DEF LiveOK
    <3> QED BY <3>1, <3>2
  <2>2. ASSUME NEW f \in fl \ r.clears
        PROVE  \E a \in rs \ {r} : a.live /\ f \in a.clears
    BY DEF LiveOK
  <2> QED BY <1>1, <1>2, <2>1, <2>2 DEF LiveOK
<1>3. CASE ~r.live
  <2>1. ASSUME NEW f \in fl
        PROVE  \E a \in rs \ {r} : a.live /\ f \in a.clears
    BY <1>3 DEF LiveOK
  <2>2. \A a \in rs \ {r} : a.live => At(a) = at /\ a.clears \ {"loading"} \subseteq fl
    BY DEF LiveOK
  <2> QED BY <1>1, <1>3, <2>1, <2>2 DEF LiveOK
<1> QED BY <1>2, <1>3

\* A request that is sent adds its flags; they were not set, but for "loading".
LEMMA SentLive ==
  ASSUME NEW rs, NEW at, NEW fl, LiveOK(rs, at, fl), NEW q, q.live, At(q) = at,
         \A r \in rs : r.live => (q.clears \cap r.clears) \ {"loading"} = {},
         NEW gl, fl \subseteq gl, gl \subseteq fl \cup q.clears, q.clears \ {"loading"} \subseteq gl
  PROVE  LiveOK(rs \cup {q}, at, gl)
<1>1. \A r \in rs \cup {q} : r.live => At(r) = at /\ r.clears \ {"loading"} \subseteq gl
  BY DEF LiveOK
<1>2. ASSUME NEW a \in rs \cup {q}, NEW b \in rs \cup {q},
             a.live, b.live, (a.clears \cap b.clears) \ {"loading"} # {}
      PROVE  a = b
  BY <1>2 DEF LiveOK
<1>3. ASSUME NEW f \in gl
      PROVE  \E r \in rs \cup {q} : r.live /\ f \in r.clears
  BY DEF LiveOK
<1> QED BY <1>1, <1>2, <1>3 DEF LiveOK

\* What the backend answers a load, or anything it answers a command, is not
\* older than what the page owes.
LEMMA ServedOwed ==
  ASSUME NEW rs, NEW over, NEW data, NEW debt \in Nat, NEW v \in Nat, NEW w \in Nat, v <= w,
         OwedOK(rs, over, data, debt, v), NEW r \in rs, NEW q,
         q.live = r.live, q.button = r.button,
         q.button = "load" /\ q.ok => q.got.version = v
  PROVE  OwedOK((rs \ {r}) \cup {q}, over, data, debt, w)
<1> DEFINE qs == (rs \ {r}) \cup {q}
<1>1. debt <= w /\ v >= debt
  BY DEF OwedOK
<1>2. ASSUME ~over
      PROVE  /\ \A a, b \in qs : a.live /\ b.live => a = b
             /\ \A a \in qs : a.live /\ a.button = "load" /\ a.ok => a.got.version >= debt
             /\ (\A a \in qs : a.live => a.button # "load") /\ data # Nil => data.data.version >= debt
  <2>1. \A a, b \in qs : a.live /\ b.live => a = b
    BY <1>2 DEF OwedOK
  <2>2. ASSUME NEW a \in qs, a.live, a.button = "load", a.ok
        PROVE  a.got.version >= debt
    <3>1. CASE a = q
      BY <1>1, <2>2, <3>1
    <3>2. CASE a # q
      BY <1>2, <2>2, <3>2 DEF OwedOK
    <3> QED BY <3>1, <3>2
  <2>3. ASSUME \A a \in qs : a.live => a.button # "load", data # Nil
        PROVE  data.data.version >= debt
    <3>1. \A a \in rs : a.live => a.button # "load"
      BY <2>3
    <3> QED BY <1>2, <2>3, <3>1 DEF OwedOK
  <2> QED BY <2>1, <2>2, <2>3
<1> QED BY <1>1, <1>2 DEF OwedOK

---------------------------------------------------------------------------
(* The user                                                                *)

\* A page sends a request whose flags are not set.
LEMMA SendsStep ==
  ASSUME PagesInv, NEW q \in Request, Sends(q),
         q.n = sends + 1, At(q) = route, q.live, ~q.ok,
         q.button # "load" => q.button \in DOMAIN ButtonsOf(q.page),
         q.clears \subseteq {"loading"} \cup FlagsOf(route.page), q.clears \cap flags = {}
  PROVE  PagesInv'
<1>1. ScalarsOK'
  <2>1. flags' \subseteq {"loading"} \cup FlagsOf(route'.page)
    BY DEF PagesInv, ScalarsOK, Sends
  <2>2. sends' \in Nat /\ overlapped' \in BOOLEAN
    BY DEF PagesInv, ScalarsOK, Sends
  <2> QED BY <2>1, <2>2 DEF PagesInv, ScalarsOK, Sends
<1>2. AnswersStayOnTheirPage'
  BY DEF PagesInv, AnswersStayOnTheirPage, Sends
<1>3. sends \in Nat /\ version \in Nat /\ owed \in Nat /\ overlapped \in BOOLEAN
  BY DEF PagesInv, ScalarsOK
<1>4. RequestsOK(requests \cup {q}, sends + 1, version)
  BY <1>3, AddRequest DEF PagesInv
<1>5. \A r \in requests : r.live => (q.clears \cap r.clears) \ {"loading"} = {}
  BY DEF PagesInv, LiveOK
<1>6. LiveOK(requests \cup {q}, route, flags \cup q.clears)
  BY <1>5, SentLive DEF PagesInv
<1>7. OwedOK(requests \cup {q}, overlapped \/ Live # {}, shown, owed, version)
  <2>1. owed <= version
    BY DEF PagesInv, OwedOK
  <2>2. ASSUME ~(overlapped \/ Live # {})
        PROVE  /\ \A a, b \in requests \cup {q} : a.live /\ b.live => a = b
               /\ \A a \in requests \cup {q} :
                    a.live /\ a.button = "load" /\ a.ok => a.got.version >= owed
               /\ (\A a \in requests \cup {q} : a.live => a.button # "load") /\ shown # Nil
                  => shown.data.version >= owed
    <3>1. \A a \in requests : ~a.live
      BY <2>2 DEF Live
    <3>2. shown # Nil => shown.data.version >= owed
      BY <2>2, <3>1 DEF PagesInv, OwedOK
    <3> QED BY <3>1, <3>2
  <2> QED BY <2>1, <2>2 DEF OwedOK
<1> QED BY <1>1, <1>2, <1>4, <1>6, <1>7 DEF PagesInv, Sends

\* The refresh button, which spins while a load is under way.
LEMMA RefreshStep == PagesInv /\ Refresh => PagesInv'
<1> SUFFICES ASSUME PagesInv, Refresh PROVE PagesInv'
  OBVIOUS
<1> DEFINE q == Load(sends + 1, route, {})
<1>1. sends + 1 \in Nat /\ route \in Route /\ {} \in SUBSET AllFlags
  BY DEF PagesInv, ScalarsOK
<1>2. NewRequestOf(q, sends + 1, route, "load", {"loading"} \cup {})
  BY <1>1, LoadIsRequest
<1>3. "loading" \notin flags /\ Sends(q)
  BY DEF Refresh
<1> HIDE DEF q
<1> QED BY <1>2, <1>3, SendsStep DEF NewRequestOf

\* A button, which is blocked while its flag is set.
LEMMA ClickStep ==
  ASSUME PagesInv, NEW b \in DOMAIN ButtonsOf(route.page), Click(b)
  PROVE  PagesInv'
<1> DEFINE flag == ButtonsOf(route.page)[b].flag
           q(item) == NewRequest(sends + 1, route, b, item, SendsRole(b), {flag} \ {"none"})
<1>1. PICK item \in Ids : Sends(q(item))
  BY DEF Click
<1>2. flag \notin flags
  BY DEF Click
<1>3. sends + 1 \in Nat /\ route \in Route /\ route.page \in Pages
  BY DEF PagesInv, ScalarsOK, Route
<1>4. {flag} \ {"none"} \subseteq FlagsOf(route.page)
  BY <1>3, ButtonsHaveFlags
<1>5. {flag} \ {"none"} \in SUBSET AllFlags
  BY <1>3, <1>4, FlagsAreFlags
<1>6. b \in {"load"} \cup AllButtons
  BY <1>3 DEF AllButtons
<1>7. SendsRole(b) \in BOOLEAN
  BY DEF SendsRole
<1> HIDE DEF flag
<1>8. NewRequestOf(q(item), sends + 1, route, b, {flag} \ {"none"})
  BY <1>3, <1>5, <1>6, <1>7, NewIsRequest
<1> HIDE DEF q
<1> QED BY <1>1, <1>2, <1>4, <1>8, SendsStep DEF NewRequestOf

---------------------------------------------------------------------------
(* A page is opened                                                        *)

\* A new page owes nothing, shows nothing, and waits for its own load alone.
LEMMA MountStep ==
  ASSUME PagesInv, NEW at \in Route, NEW rs, RequestsOK(rs, sends, version), Mount(at, rs),
         UNCHANGED <<admin, version, pending, changes>>
  PROVE  PagesInv'
<1> DEFINE kept == Unmounted(rs)
           q == Load(sends + 1, at, {})
<1>1. sends \in Nat /\ version \in Nat /\ sends + 1 \in Nat /\ {} \in SUBSET AllFlags
  BY DEF PagesInv, ScalarsOK
<1>2. RequestsOK(kept, sends, version) /\ \A a \in kept : ~a.live
  BY <1>1, LeaveRequests
<1>3. NewRequestOf(q, sends + 1, at, "load", {"loading"} \cup {})
  BY <1>1, LoadIsRequest
<1>4. /\ route' = at /\ shown' = Nil /\ activity' = Nil /\ editing' = Nil
      /\ owed' = 0 /\ overlapped' = FALSE /\ sends' = sends + 1
      /\ flags' = IF Loads(at.page) THEN {"loading"} ELSE {}
      /\ requests' = kept \cup (IF Loads(at.page) THEN {q} ELSE {})
  BY DEF Mount
<1> HIDE DEF kept, q
<1>5. ScalarsOK'
  <2>1. flags' \subseteq {"loading"} \cup FlagsOf(route'.page)
    BY <1>4
  <2>2. route' \in Route /\ shown' = Nil /\ sends' \in Nat /\ owed' \in Nat
        /\ overlapped' \in BOOLEAN
    BY <1>1, <1>4
  <2> QED BY <1>4, <2>1, <2>2 DEF PagesInv, ScalarsOK
<1>6. AnswersStayOnTheirPage'
  BY <1>4 DEF AnswersStayOnTheirPage
<1>7. CASE Loads(at.page)
  <2>1. requests' = kept \cup {q} /\ flags' = {"loading"}
    BY <1>4, <1>7
  <2>2. RequestsOK(kept \cup {q}, sends + 1, version)
    BY <1>1, <1>2, <1>3, AddRequest DEF NewRequestOf
  <2>3. q.live /\ At(q) = at /\ q.clears = {"loading"} /\ ~q.ok /\ q.button = "load"
    BY <1>3 DEF NewRequestOf
  <2>4. LiveOK(kept \cup {q}, at, {"loading"})
    BY <1>2, <2>3 DEF LiveOK
  <2>5. OwedOK(kept \cup {q}, FALSE, Nil, 0, version)
    BY <1>1, <1>2, <2>3 DEF OwedOK
  <2> QED BY <1>4, <1>5, <1>6, <2>1, <2>2, <2>4, <2>5 DEF PagesInv
<1>8. CASE ~Loads(at.page)
  <2>1. requests' = kept /\ flags' = {}
    BY <1>4, <1>8
  <2>2. RequestsOK(kept, sends + 1, version)
    BY <1>1, <1>2, DropRequests
  <2>3. LiveOK(kept, at, {})
    BY <1>2 DEF LiveOK
  <2>4. OwedOK(kept, FALSE, Nil, 0, version)
    BY <1>1, <1>2 DEF OwedOK
  <2> QED BY <1>4, <1>5, <1>6, <2>1, <2>2, <2>3, <2>4 DEF PagesInv
<1> QED BY <1>7, <1>8

\* Menus, tabs and links: another page, or the same for another id.
LEMMA VisitStep ==
  ASSUME PagesInv, NEW p \in Pages, NEW i \in Ids, Visit(p, i)
  PROVE  PagesInv'
<1> DEFINE at == [page |-> p, id |-> i]
<1>1. at \in Route /\ RequestsOK(requests, sends, version)
  BY DEF PagesInv, Route
<1>2. Mount(at, requests) /\ UNCHANGED <<admin, version, pending, changes>>
  BY DEF Visit, GoTo, NewInstance
<1> QED BY <1>1, <1>2, MountStep

\* The reload button renders the page anew.
LEMMA ReloadPageStep == PagesInv /\ ReloadPage => PagesInv'
<1>1. PagesInv => route \in Route /\ RequestsOK(requests, sends, version)
  BY DEF PagesInv, ScalarsOK
<1> QED BY <1>1, MountStep DEF ReloadPage

\* The form of a new channel sends a user who is not ADMIN back.
LEMMA LeaveChannelFormStep == PagesInv /\ LeaveChannelForm => PagesInv'
<1> SUFFICES ASSUME PagesInv, LeaveChannelForm PROVE PagesInv'
  OBVIOUS
<1>1. route \in [page : Pages, id : Ids] /\ RequestsOK(requests, sends, version)
  BY DEF PagesInv, ScalarsOK, Route
<1>2. "merchant-detail" \in Pages
  BY DEF Pages
<1>3. [route EXCEPT !.page = "merchant-detail"] \in Route
  BY <1>1, <1>2 DEF Route
<1> QED BY <1>1, <1>3, MountStep DEF LeaveChannelForm

\* The form of a user is filled in.
LEMMA StartEditStep == ASSUME PagesInv, NEW u \in Ids, StartEdit(u) PROVE PagesInv'
<1>1. ScalarsOK' /\ AnswersStayOnTheirPage'
  BY DEF PagesInv, ScalarsOK, AnswersStayOnTheirPage, StartEdit
<1> QED BY <1>1 DEF PagesInv, StartEdit

\* The form of a user is emptied.
LEMMA CancelEditStep == PagesInv /\ CancelEdit => PagesInv'
<1> SUFFICES ASSUME PagesInv, CancelEdit PROVE PagesInv'
  OBVIOUS
<1>1. ScalarsOK' /\ AnswersStayOnTheirPage'
  BY DEF PagesInv, ScalarsOK, AnswersStayOnTheirPage, CancelEdit
<1> QED BY <1>1 DEF PagesInv, CancelEdit

---------------------------------------------------------------------------
(* The backend                                                             *)

\* What the backend holds is a snapshot of its version.
LEMMA SnapIsSnapshot ==
  ASSUME NEW v \in Nat, NEW open \in SUBSET Ids
  PROVE  Snap(v, open) \in Snapshot /\ Snap(v, open).version = v
BY DEF Snap, Snapshot

\* The answer to a load is the state of the backend.
LEMMA ServeLoadStep ==
  ASSUME PagesInv, NEW r \in requests, ServeLoad(r) PROVE PagesInv'
<1> DEFINE got(ok) == IF ok THEN Snap(version, pending) ELSE Nil
<1>1. PICK ok \in BOOLEAN : requests' = (requests \ {r}) \cup {Served(r, ok, got(ok))}
  BY DEF ServeLoad
<1>2. sends \in Nat /\ version \in Nat /\ owed \in Nat /\ pending \in SUBSET Ids /\ r \in Request
  BY DEF PagesInv, ScalarsOK, RequestsOK
<1>3. Snap(version, pending) \in Snapshot /\ Snap(version, pending).version = version
  BY <1>2, SnapIsSnapshot
<1>4. got(ok) \in Snapshot \cup {Nil} /\ (ok => got(ok) \in Snapshot /\ got(ok).version = version)
  BY <1>3
<1> DEFINE g == got(ok)
           q == Served(r, ok, g)
<1> HIDE DEF got, g
<1>5. g \in Snapshot \cup {Nil} /\ (ok => g \in Snapshot /\ g.version = version)
  BY <1>4 DEF g
<1>6. RequestsOK((requests \ {r}) \cup {q}, sends, version)
  BY <1>2, <1>5, AnswerRequest DEF PagesInv
<1>7. /\ q.ok = ok /\ q.got = g /\ At(q) = At(r) /\ q.live = r.live
      /\ q.clears = r.clears /\ q.button = r.button
  BY <1>2, <1>5, ServedRequest
<1> HIDE DEF q
<1>8. LiveOK((requests \ {r}) \cup {q}, route, flags)
  BY <1>7, ServedLive DEF PagesInv
<1>9. OwedOK((requests \ {r}) \cup {q}, overlapped, shown, owed, version)
  <2>1. q.button = "load" /\ q.ok => q.got.version = version
    BY <1>5, <1>7
  <2>2. version <= version /\ OwedOK(requests, overlapped, shown, owed, version)
    BY <1>2 DEF PagesInv
  <2> QED BY <1>2, <1>7, <2>1, <2>2, ServedOwed
<1>10. ScalarsOK' /\ AnswersStayOnTheirPage'
  BY DEF PagesInv, ScalarsOK, AnswersStayOnTheirPage, ServeLoad
<1>11. requests' = (requests \ {r}) \cup {q}
  BY <1>1 DEF q, g
<1> QED BY <1>6, <1>8, <1>9, <1>10, <1>11 DEF PagesInv, ServeLoad

\* The answer to a command is the state of the backend after it.
LEMMA CommandStep ==
  ASSUME PagesInv, NEW r \in requests, Command(r) PROVE PagesInv'
<1> DEFINE got(ok) == IF ok THEN Snap(version', pending') ELSE Nil
<1>0. sends \in Nat /\ version \in Nat /\ owed \in Nat /\ pending \in SUBSET Ids /\ r \in Request
  BY DEF PagesInv, ScalarsOK, RequestsOK
<1>1. PICK executed \in {FALSE, Acceptable(r)} :
        /\ version' = IF executed THEN version + 1 ELSE version
        /\ pending' = IF executed /\ "pending" \in ButtonOf(r).needs
                      THEN pending \ {r.item} ELSE pending
        /\ \E ok \in {FALSE, executed} :
             requests' = (requests \ {r}) \cup {Served(r, ok, got(ok))}
  BY DEF Command
<1>2. PICK ok \in {FALSE, executed} :
        requests' = (requests \ {r}) \cup {Served(r, ok, got(ok))}
  BY <1>1
<1>3. version' \in Nat /\ version <= version' /\ pending' \in SUBSET Ids
  BY <1>0, <1>1
<1>4. Acceptable(r) \in BOOLEAN
  BY DEF Acceptable
<1>5. ok \in BOOLEAN
  BY <1>1, <1>2, <1>4
<1>6. Snap(version', pending') \in Snapshot /\ Snap(version', pending').version = version'
  BY <1>3, SnapIsSnapshot
<1>7. got(ok) \in Snapshot \cup {Nil} /\ (ok => got(ok) \in Snapshot /\ got(ok).version <= version')
  BY <1>3, <1>6
<1> DEFINE g == got(ok)
           q == Served(r, ok, g)
<1> HIDE DEF got, g
<1>8. g \in Snapshot \cup {Nil} /\ (ok => g \in Snapshot /\ g.version <= version')
  BY <1>7 DEF g
<1>9. RequestsOK((requests \ {r}) \cup {q}, sends, version')
  BY <1>0, <1>3, <1>5, <1>8, AnswerRequest DEF PagesInv
<1>10. /\ q.ok = ok /\ q.got = g /\ At(q) = At(r) /\ q.live = r.live
       /\ q.clears = r.clears /\ q.button = r.button
  BY <1>0, <1>5, <1>8, ServedRequest
<1> HIDE DEF q
<1>11. LiveOK((requests \ {r}) \cup {q}, route, flags)
  BY <1>10, ServedLive DEF PagesInv
<1>12. r.button # "load"
  BY DEF Command
<1>13. OwedOK((requests \ {r}) \cup {q}, overlapped, shown, owed, version')
  BY <1>0, <1>3, <1>10, <1>12, ServedOwed DEF PagesInv
<1>14. ScalarsOK' /\ AnswersStayOnTheirPage'
  BY <1>3 DEF PagesInv, ScalarsOK, AnswersStayOnTheirPage, Command
<1>15. requests' = (requests \ {r}) \cup {q}
  BY <1>2 DEF q, g
<1> QED BY <1>9, <1>11, <1>13, <1>14, <1>15 DEF PagesInv, Command

\* Others may change the records at any time.
LEMMA OthersChangeStep ==
  ASSUME PagesInv, NEW i \in Ids, OthersChange(i) PROVE PagesInv'
<1>1. version \in Nat /\ sends \in Nat /\ owed \in Nat /\ version' = version + 1
  BY DEF PagesInv, ScalarsOK, OthersChange
<1>2. ScalarsOK'
  <2>1. changes' \in 0..MaxChanges
    BY PagesConstants DEF PagesInv, ScalarsOK, OthersChange
  <2> QED BY <1>1, <2>1 DEF PagesInv, ScalarsOK, OthersChange
<1>3. AnswersStayOnTheirPage'
  BY DEF PagesInv, AnswersStayOnTheirPage, OthersChange
<1>4. RequestsOK(requests, sends, version + 1)
  <2>1. ASSUME NEW a \in requests
        PROVE  a.ok => a.got \in Snapshot /\ a.got.version <= version + 1
    <3>1. a.ok => a.got \in Snapshot /\ a.got.version <= version
      BY DEF PagesInv, RequestsOK
    <3>2. a.ok => a.got.version \in Nat
      BY <3>1 DEF Snapshot
    <3> QED BY <1>1, <3>1, <3>2
  <2> QED BY <2>1 DEF PagesInv, RequestsOK
<1>5. OwedOK(requests, overlapped, shown, owed, version + 1)
  <2>1. owed <= version + 1
    BY <1>1 DEF PagesInv, OwedOK
  <2> QED BY <2>1 DEF PagesInv, OwedOK
<1> QED BY <1>1, <1>2, <1>3, <1>4, <1>5 DEF PagesInv, OthersChange

---------------------------------------------------------------------------
(* Answers                                                                 *)

\* An answer that comes to a page that was left changes nothing a page owes.
LEMMA LateOwed ==
  ASSUME NEW rs, NEW over, NEW data, NEW debt, NEW v, OwedOK(rs, over, data, debt, v),
         NEW r \in rs, ~r.live
  PROVE  OwedOK(rs \ {r}, over, data, debt, v)
<1>1. (\A a \in rs \ {r} : a.live => a.button # "load")
      => \A a \in rs : a.live => a.button # "load"
  OBVIOUS
<1> QED BY <1>1 DEF OwedOK

\* An answer the page waited for leaves, unless requests crossed, no request of
\* the page: what it shows then must have what it owes.
LEMMA PaidOwed ==
  ASSUME NEW rs, NEW over, NEW data, NEW debt, NEW v, OwedOK(rs, over, data, debt, v),
         NEW r \in rs, r.live, NEW seen, NEW due, due <= v,
         ~over /\ seen # Nil => seen.data.version >= due
  PROVE  OwedOK(rs \ {r}, over, seen, due, v)
<1>1. ~over => \A a \in rs \ {r} : ~a.live
  BY DEF OwedOK
<1> QED BY <1>1 DEF OwedOK

\* What the request of a page was answered.
LEMMA AnswerOfPage ==
  ASSUME PagesInv, NEW r \in requests
  PROVE  /\ r \in Request /\ sends \in Nat /\ version \in Nat /\ owed \in Nat
         /\ r.live => At(r) = route
         /\ r.ok => r.got \in Snapshot /\ r.got.version \in Nat /\ r.got.version <= version
         /\ RequestsOK(requests \ {r}, sends, version)
<1>1. sends \in Nat /\ version \in Nat /\ owed \in Nat /\ RequestsOK(requests, sends, version)
  BY DEF PagesInv, ScalarsOK
<1>2. RequestsOK(requests \ {r}, sends, version)
  BY <1>1, DropRequests
<1>3. r \in Request /\ (r.ok => r.got \in Snapshot /\ r.got.version <= version)
  BY <1>1 DEF RequestsOK
<1>4. r.ok => r.got.version \in Nat
  BY <1>3 DEF Snapshot
<1>5. r.live => At(r) = route
  BY DEF PagesInv, LiveOK
<1> QED BY <1>1, <1>2, <1>3, <1>4, <1>5

\* A page that is answered the record of its own path shows that record.
LEMMA ShownOK ==
  ASSUME PagesInv, NEW r \in requests, r.live, r.ok
  PROVE  LET seen == [route |-> [page |-> r.page, id |-> r.id], data |-> r.got] IN
         /\ seen \in [route : Route, data : Snapshot]
         /\ seen.route = route /\ seen.data.version = r.got.version
<1> DEFINE seen == [route |-> [page |-> r.page, id |-> r.id], data |-> r.got]
<1>1. route \in Route
  BY DEF PagesInv, ScalarsOK
<1>2. At(r) = route /\ r.got \in Snapshot
  BY AnswerOfPage
<1>3. [page |-> r.page, id |-> r.id] = route
  BY <1>2 DEF At
<1>4. seen = [route |-> route, data |-> r.got]
  BY <1>3
<1> HIDE DEF seen
<1>5. seen \in [route : Route, data : Snapshot]
  BY <1>1, <1>2, <1>4
<1>6. seen.route = route /\ seen.data.version = r.got.version
  BY <1>4
<1> QED BY <1>5, <1>6 DEF seen

\* The answer to a load.
LEMMA LoadAnsweredStep ==
  ASSUME PagesInv, NEW r \in requests, LoadAnswered(r) PROVE PagesInv'
<1> DEFINE seen == [route |-> [page |-> r.page, id |-> r.id], data |-> r.got]
<1>1. /\ r \in Request /\ sends \in Nat /\ version \in Nat /\ owed \in Nat
      /\ RequestsOK(requests \ {r}, sends, version)
  BY AnswerOfPage
<1>2. CASE r.live
  <2>1. /\ requests' = requests \ {r} /\ flags' = flags \ r.clears
        /\ shown' = (IF r.ok THEN seen ELSE shown) /\ owed' = (IF r.ok THEN owed ELSE 0)
        /\ UNCHANGED <<route, admin, version, pending, activity, editing, sends, changes, overlapped>>
    BY <1>2 DEF LoadAnswered, FlagsAfter
  <2>2. r.ok => seen \in [route : Route, data : Snapshot]
                /\ seen.route = route /\ seen.data.version = r.got.version
    BY <1>2, ShownOK
  <2> HIDE DEF seen
  <2>3. LiveOK(requests \ {r}, route, flags \ r.clears)
    BY <1>2, AnsweredLive DEF PagesInv
  <2>4. owed' <= version /\ owed' \in Nat
    <3>1. owed <= version
      BY DEF PagesInv, OwedOK
    <3> QED BY <1>1, <2>1, <3>1
  <2>5. ~overlapped /\ shown' # Nil => shown'.data.version >= owed'
    <3>1. CASE r.ok
      <4>1. ~overlapped => r.got.version >= owed
        BY <1>2, <3>1 DEF PagesInv, OwedOK, LoadAnswered
      <4> QED BY <2>1, <2>2, <3>1, <4>1
    <3>2. CASE ~r.ok
      <4>1. shown = Nil \/ shown \in [route : Route, data : Snapshot]
        BY DEF PagesInv, ScalarsOK
      <4>2. shown # Nil => shown.data.version \in Nat
        BY <4>1 DEF Snapshot
      <4>3. shown # Nil => shown.data.version >= 0
        BY <4>2
      <4> QED BY <2>1, <3>2, <4>3
    <3> QED BY <3>1, <3>2
  <2>6. OwedOK(requests \ {r}, overlapped, shown', owed', version)
    BY <1>2, <2>4, <2>5, PaidOwed DEF PagesInv
  <2>7. AnswersStayOnTheirPage'
    <3>1. shown' # Nil => shown'.route = route
      BY <2>1, <2>2 DEF PagesInv, AnswersStayOnTheirPage
    <3> QED BY <2>1, <3>1 DEF PagesInv, AnswersStayOnTheirPage
  <2>8. ScalarsOK'
    <3>1. shown' = Nil \/ shown' \in [route : Route, data : Snapshot]
      BY <2>1, <2>2 DEF PagesInv, ScalarsOK
    <3>2. flags' \subseteq {"loading"} \cup FlagsOf(route'.page)
      BY <2>1 DEF PagesInv, ScalarsOK
    <3> QED BY <2>1, <2>4, <3>1, <3>2 DEF PagesInv, ScalarsOK
  <2> QED BY <1>1, <2>1, <2>3, <2>6, <2>7, <2>8 DEF PagesInv
<1>3. CASE ~r.live
  <2>1. /\ requests' = requests \ {r}
        /\ UNCHANGED <<route, admin, version, pending, shown, activity, editing, flags,
                       sends, changes, owed, overlapped>>
    BY <1>3 DEF LoadAnswered
  <2>2. LiveOK(requests \ {r}, route, flags)
    BY <1>3, AnsweredLive DEF PagesInv
  <2>3. OwedOK(requests \ {r}, overlapped, shown, owed, version)
    BY <1>3, LateOwed DEF PagesInv
  <2>4. ScalarsOK' /\ AnswersStayOnTheirPage'
    BY <2>1 DEF PagesInv, ScalarsOK, AnswersStayOnTheirPage
  <2> QED BY <1>1, <2>1, <2>2, <2>3, <2>4 DEF PagesInv
<1> QED BY <1>2, <1>3

\* The answer to a command that is shown, a relay log, or only a message.
LEMMA CommandShownStep ==
  ASSUME PagesInv, NEW r \in requests, CommandShown(r) PROVE PagesInv'
<1> DEFINE seen == [route |-> [page |-> r.page, id |-> r.id], data |-> r.got]
           does == ButtonOf(r).does
<1>1. /\ r \in Request /\ sends \in Nat /\ version \in Nat /\ owed \in Nat
      /\ RequestsOK(requests \ {r}, sends, version)
  BY AnswerOfPage
<1>2. CASE r.live
  <2>1. /\ requests' = requests \ {r} /\ flags' = flags \ r.clears
        /\ shown' = (IF r.ok /\ does = "show" THEN seen ELSE shown)
        /\ activity' = (IF r.ok /\ does = "activity" THEN r.id ELSE activity)
        /\ owed' = (IF r.ok /\ does = "show" THEN r.got.version ELSE owed)
        /\ UNCHANGED <<route, admin, version, pending, editing, sends, changes, overlapped>>
    BY <1>2 DEF CommandShown, FlagsAfter
  <2>2. r.ok => /\ seen \in [route : Route, data : Snapshot]
                /\ seen.route = route /\ seen.data.version = r.got.version
                /\ r.got.version \in Nat /\ r.got.version <= version
    BY <1>2, ShownOK, AnswerOfPage
  <2> HIDE DEF seen, does
  <2>3. LiveOK(requests \ {r}, route, flags \ r.clears)
    BY <1>2, AnsweredLive DEF PagesInv
  <2>4. owed <= version
    BY DEF PagesInv, OwedOK
  <2>5. owed' <= version /\ owed' \in Nat
    BY <1>1, <2>1, <2>2, <2>4
  <2>6. ~overlapped /\ shown' # Nil => shown'.data.version >= owed'
    <3>1. CASE r.ok /\ does = "show"
      BY <2>1, <2>2, <3>1
    <3>2. CASE ~(r.ok /\ does = "show")
      <4>1. ~overlapped => \A a \in requests : a.live => a = r
        BY <1>2 DEF PagesInv, OwedOK
      <4>2. r.button # "load"
        BY DEF CommandShown
      <4>3. ~overlapped => \A a \in requests : a.live => a.button # "load"
        BY <4>1, <4>2
      <4>4. ~overlapped /\ shown # Nil => shown.data.version >= owed
        BY <4>3 DEF PagesInv, OwedOK
      <4> QED BY <2>1, <3>2, <4>4
    <3> QED BY <3>1, <3>2
  <2>7. OwedOK(requests \ {r}, overlapped, shown', owed', version)
    BY <1>2, <2>5, <2>6, PaidOwed DEF PagesInv
  <2>8. r.id = route.id
    <3>1. At(r) = route
      BY <1>2, AnswerOfPage
    <3> QED BY <3>1 DEF At
  <2>9. AnswersStayOnTheirPage'
    <3>1. shown' # Nil => shown'.route = route
      BY <2>1, <2>2 DEF PagesInv, AnswersStayOnTheirPage
    <3>2. activity' # Nil => activity' = route.id
      BY <2>1, <2>8 DEF PagesInv, AnswersStayOnTheirPage
    <3> QED BY <2>1, <3>1, <3>2 DEF AnswersStayOnTheirPage
  <2>10. ScalarsOK'
    <3>1. shown' = Nil \/ shown' \in [route : Route, data : Snapshot]
      BY <2>1, <2>2 DEF PagesInv, ScalarsOK
    <3>2. flags' \subseteq {"loading"} \cup FlagsOf(route'.page)
      BY <2>1 DEF PagesInv, ScalarsOK
    <3>3. activity' \in Ids \cup {Nil}
      BY <2>1, <2>8 DEF PagesInv, ScalarsOK, Route
    <3> QED BY <2>1, <2>5, <3>1, <3>2, <3>3 DEF PagesInv, ScalarsOK
  <2> QED BY <1>1, <2>1, <2>3, <2>7, <2>9, <2>10 DEF PagesInv
<1>3. CASE ~r.live
  <2>1. /\ requests' = requests \ {r}
        /\ UNCHANGED <<route, admin, version, pending, shown, activity, editing, flags,
                       sends, changes, owed, overlapped>>
    BY <1>3 DEF CommandShown
  <2>2. LiveOK(requests \ {r}, route, flags)
    BY <1>3, AnsweredLive DEF PagesInv
  <2>3. OwedOK(requests \ {r}, overlapped, shown, owed, version)
    BY <1>3, LateOwed DEF PagesInv
  <2>4. ScalarsOK' /\ AnswersStayOnTheirPage'
    BY <2>1 DEF PagesInv, ScalarsOK, AnswersStayOnTheirPage
  <2> QED BY <1>1, <2>1, <2>2, <2>3, <2>4 DEF PagesInv
<1> QED BY <1>2, <1>3

\* The answer to a command after which the page loads again: the flag of the
\* command is taken back by the load.
LEMMA CommandReloadsStep ==
  ASSUME PagesInv, NEW r \in requests, CommandReloads(r) PROVE PagesInv'
<1>1. /\ r \in Request /\ sends \in Nat /\ version \in Nat /\ owed \in Nat
      /\ RequestsOK(requests \ {r}, sends, version)
  BY AnswerOfPage
<1>2. AnswersStayOnTheirPage'
  BY DEF PagesInv, AnswersStayOnTheirPage, CommandReloads
<1>3. CASE r.live
  <2> DEFINE q == Load(sends + 1, route, r.clears)
             rs == requests \ {r}
  <2>1. /\ requests' = rs \cup {q} /\ flags' = flags \cup {"loading"} /\ sends' = sends + 1
        /\ owed' = r.got.version /\ overlapped' = (overlapped \/ Live # {r})
        /\ editing' = (IF r.button = "edit" THEN Nil ELSE editing)
        /\ UNCHANGED <<route, admin, version, pending, shown, activity, changes>>
    BY <1>3 DEF CommandReloads, AndReload
  <2>2. r.clears \in SUBSET AllFlags /\ route \in Route /\ sends + 1 \in Nat
    BY <1>1 DEF Request, PagesInv, ScalarsOK
  <2>3. NewRequestOf(q, sends + 1, route, "load", {"loading"} \cup r.clears)
    BY <2>2, LoadIsRequest
  <2> HIDE DEF q
  <2>4. /\ q \in Request /\ q.n = sends + 1 /\ At(q) = route /\ q.live /\ ~q.ok
        /\ q.button = "load" /\ q.clears = {"loading"} \cup r.clears
    BY <2>3 DEF NewRequestOf
  <2>5. RequestsOK(rs \cup {q}, sends + 1, version)
    BY <1>1, <2>4, AddRequest
  <2>6. LiveOK(rs \cup {q}, route, flags \cup {"loading"})
    <3>1. \A a \in rs \cup {q} : a.live =>
             At(a) = route /\ a.clears \ {"loading"} \subseteq flags \cup {"loading"}
      <4>1. \A a \in requests : a.live => At(a) = route /\ a.clears \ {"loading"} \subseteq flags
        BY DEF PagesInv, LiveOK
      <4>2. r.clears \ {"loading"} \subseteq flags
        BY <1>3, <4>1
      <4> QED BY <2>4, <4>1, <4>2
    <3>2. \A a, b \in requests :
            a.live /\ b.live /\ (a.clears \cap b.clears) \ {"loading"} # {} => a = b
      BY DEF PagesInv, LiveOK
    <3>3. \A a \in rs : a.live => (a.clears \cap q.clears) \ {"loading"} = {}
      <4>1. \A a \in rs : a.live => (a.clears \cap r.clears) \ {"loading"} = {}
        BY <1>3, <3>2
      <4> QED BY <2>4, <4>1
    <3>4. \A a, b \in rs \cup {q} :
            a.live /\ b.live /\ (a.clears \cap b.clears) \ {"loading"} # {} => a = b
      BY <3>2, <3>3
    <3>5. ASSUME NEW f \in flags \cup {"loading"}
          PROVE  \E a \in rs \cup {q} : a.live /\ f \in a.clears
      <4>1. CASE f = "loading"
        BY <2>4, <4>1
      <4>2. CASE f \in flags
        <5>1. PICK a \in requests : a.live /\ f \in a.clears
          BY <4>2 DEF PagesInv, LiveOK
        <5> QED BY <2>4, <5>1
      <4> QED BY <4>1, <4>2
    <3> QED BY <3>1, <3>4, <3>5 DEF LiveOK
  <2>7. r.got.version \in Nat /\ r.got.version <= version
    <3>1. r.ok
      BY DEF CommandReloads
    <3> QED BY <3>1, AnswerOfPage
  <2>8. OwedOK(rs \cup {q}, overlapped \/ Live # {r}, shown, r.got.version, version)
    <3>1. ~(overlapped \/ Live # {r}) => \A a \in rs : ~a.live
      BY DEF Live
    <3> QED BY <2>4, <2>7, <3>1 DEF OwedOK
  <2>9. ScalarsOK'
    <3>1. flags' \subseteq {"loading"} \cup FlagsOf(route'.page)
      BY <2>1 DEF PagesInv, ScalarsOK
    <3>2. editing' \in Ids \cup {Nil} /\ owed' \in Nat /\ sends' \in Nat
      BY <1>1, <2>1, <2>7 DEF PagesInv, ScalarsOK
    <3>3. overlapped' \in BOOLEAN
      BY <2>1 DEF PagesInv, ScalarsOK
    <3> QED BY <2>1, <3>1, <3>2, <3>3 DEF PagesInv, ScalarsOK
  <2> HIDE DEF rs
  <2> QED BY <1>2, <2>1, <2>5, <2>6, <2>8, <2>9 DEF PagesInv
<1>4. CASE ~r.live
  <2>1. /\ requests' = requests \ {r} /\ sends' = sends + 1
        /\ UNCHANGED <<route, admin, version, pending, shown, activity, editing, flags,
                       changes, owed, overlapped>>
    BY <1>4 DEF CommandReloads, AndReload
  <2>2. RequestsOK(requests \ {r}, sends + 1, version)
    BY <1>1, DropRequests
  <2>3. LiveOK(requests \ {r}, route, flags)
    BY <1>4, AnsweredLive DEF PagesInv
  <2>4. OwedOK(requests \ {r}, overlapped, shown, owed, version)
    BY <1>4, LateOwed DEF PagesInv
  <2>5. ScalarsOK'
    BY <2>1 DEF PagesInv, ScalarsOK
  <2> QED BY <1>2, <2>1, <2>2, <2>3, <2>4, <2>5 DEF PagesInv
<1> QED BY <1>3, <1>4

\* The answer to a command that leads to another page, also when the page was left.
LEMMA CommandLeadsStep ==
  ASSUME PagesInv, NEW r \in requests, CommandLeads(r) PROVE PagesInv'
<1>1. /\ r \in Request /\ sends \in Nat /\ version \in Nat /\ owed \in Nat
      /\ RequestsOK(requests \ {r}, sends, version)
  BY AnswerOfPage
<1>2. PICK i \in Ids : GoTo([page |-> ButtonOf(r).page, id |-> i], requests \ {r})
  BY DEF CommandLeads
<1>3. UNCHANGED <<admin, version, pending, changes>>
  BY DEF CommandLeads
<1>4. ButtonOf(r).page \in Pages \ {r.page}
  <2>1. r.page \in Pages
    BY <1>1 DEF Request
  <2>2. LeadsElsewhere(r.page)
    BY <2>1, ButtonsLeadElsewhere
  <2>3. r.button \in DOMAIN ButtonsOf(r.page)
    BY DEF PagesInv, RequestsOK, CommandLeads
  <2>4. ButtonsOf(r.page)[r.button].does = "go"
    BY DEF CommandLeads, ButtonOf
  <2> QED BY <2>2, <2>3, <2>4 DEF LeadsElsewhere, ButtonOf
<1> DEFINE to == ButtonOf(r).page
           at == [page |-> to, id |-> i]
<1> HIDE DEF to
<1>5. to \in Pages \ {r.page} /\ GoTo(at, requests \ {r})
  BY <1>2, <1>4 DEF to
<1>6. at \in Route /\ at.page = to
  BY <1>5 DEF Route
<1> HIDE DEF at
<1>7. CASE at # route
  <2>1. Mount(at, requests \ {r})
    BY <1>5, <1>7 DEF GoTo, NewInstance
  <2> QED BY <1>1, <1>3, <1>6, <2>1, MountStep
<1>8. CASE at = route
  <2>1. /\ requests' = requests \ {r} /\ sends' = sends + 1 /\ route' = route
        /\ UNCHANGED <<shown, activity, editing, flags, owed, overlapped>>
    BY <1>5, <1>8 DEF GoTo, NewInstance
  <2>2. ~r.live
    <3>1. r.live => At(r) = route
      BY AnswerOfPage
    <3>2. At(r).page = r.page
      BY DEF At
    <3> QED BY <1>5, <1>6, <1>8, <3>1, <3>2
  <2>3. RequestsOK(requests \ {r}, sends + 1, version)
    BY <1>1, DropRequests
  <2>4. LiveOK(requests \ {r}, route, flags)
    BY <2>2, AnsweredLive DEF PagesInv
  <2>5. OwedOK(requests \ {r}, overlapped, shown, owed, version)
    BY <2>2, LateOwed DEF PagesInv
  <2>6. ScalarsOK' /\ AnswersStayOnTheirPage'
    BY <1>3, <2>1 DEF PagesInv, ScalarsOK, AnswersStayOnTheirPage
  <2> QED BY <1>3, <2>1, <2>3, <2>4, <2>5, <2>6 DEF PagesInv
<1> QED BY <1>7, <1>8

---------------------------------------------------------------------------
(* The specification                                                       *)

\* A console that is opened shows a page that loads.
LEMMA PagesInitInv == ASSUME PagesInit PROVE PagesInv
<1> DEFINE q == Load(1, route, {})
<1>1. route \in Route /\ version = 0 /\ {} \in SUBSET AllFlags /\ 1 \in Nat
  BY PagesBounds DEF PagesInit, Route
<1>2. NewRequestOf(q, 1, route, "load", {"loading"} \cup {})
  BY <1>1, LoadIsRequest
<1>3. /\ flags = (IF Loads(route.page) THEN {"loading"} ELSE {})
      /\ requests = (IF Loads(route.page) THEN {q} ELSE {})
      /\ shown = Nil /\ activity = Nil /\ sends = 1 /\ owed = 0 /\ overlapped = FALSE
  BY DEF PagesInit
<1> HIDE DEF q
<1>4. ScalarsOK
  <2>1. flags \subseteq {"loading"} \cup FlagsOf(route.page)
    BY <1>3
  <2>2. changes \in 0..MaxChanges
    BY PagesConstants DEF PagesInit
  <2>3. admin \in BOOLEAN /\ pending \subseteq Ids /\ editing \in Ids \cup {Nil}
    BY DEF PagesInit
  <2> QED BY <1>1, <1>3, <2>1, <2>2, <2>3 DEF ScalarsOK
<1>5. AnswersStayOnTheirPage
  BY <1>3 DEF AnswersStayOnTheirPage
<1>6. /\ q \in Request /\ q.n = 1 /\ At(q) = route /\ q.live /\ ~q.ok
      /\ q.button = "load" /\ q.clears = {"loading"}
  BY <1>2 DEF NewRequestOf
<1>7. RequestsOK(requests, 1, 0)
  BY <1>3, <1>6 DEF RequestsOK
<1>8. LiveOK(requests, route, flags)
  BY <1>3, <1>6 DEF LiveOK
<1>9. OwedOK(requests, FALSE, Nil, 0, 0)
  BY <1>3, <1>6 DEF OwedOK
<1> QED BY <1>1, <1>3, <1>4, <1>5, <1>7, <1>8, <1>9 DEF PagesInv

\* Every step keeps the invariant.
LEMMA PagesInvNext == PagesInv /\ [PagesNext]_pageVars => PagesInv'
<1> SUFFICES ASSUME PagesInv, [PagesNext]_pageVars PROVE PagesInv'
  OBVIOUS
<1>1. CASE Refresh BY <1>1, RefreshStep
<1>2. CASE CancelEdit BY <1>2, CancelEditStep
<1>3. CASE ReloadPage BY <1>3, ReloadPageStep
<1>4. CASE LeaveChannelForm BY <1>4, LeaveChannelFormStep
<1>5. ASSUME NEW b \in DOMAIN ButtonsOf(route.page), Click(b) PROVE PagesInv'
  BY <1>5, ClickStep
<1>6. ASSUME NEW i \in Ids, StartEdit(i) PROVE PagesInv'
  BY <1>6, StartEditStep
<1>7. ASSUME NEW i \in Ids, OthersChange(i) PROVE PagesInv'
  BY <1>7, OthersChangeStep
<1>8. ASSUME NEW p \in Pages, NEW i \in Ids, Visit(p, i) PROVE PagesInv'
  BY <1>8, VisitStep
<1>9. ASSUME NEW r \in requests,
             \/ ServeLoad(r) \/ Command(r) \/ LoadAnswered(r)
             \/ CommandShown(r) \/ CommandReloads(r) \/ CommandLeads(r)
      PROVE  PagesInv'
  <2>1. CASE ServeLoad(r) BY <2>1, ServeLoadStep
  <2>2. CASE Command(r) BY <2>2, CommandStep
  <2>3. CASE LoadAnswered(r) BY <2>3, LoadAnsweredStep
  <2>4. CASE CommandShown(r) BY <2>4, CommandShownStep
  <2>5. CASE CommandReloads(r) BY <2>5, CommandReloadsStep
  <2>6. CASE CommandLeads(r) BY <2>6, CommandLeadsStep
  <2> QED BY <1>9, <2>1, <2>2, <2>3, <2>4, <2>5, <2>6
<1>10. CASE UNCHANGED pageVars
  <2>1. ScalarsOK' /\ AnswersStayOnTheirPage'
    BY <1>10 DEF PagesInv, ScalarsOK, AnswersStayOnTheirPage, pageVars
  <2> QED BY <1>10, <2>1 DEF PagesInv, pageVars
<1>11. PagesNext \/ UNCHANGED pageVars
  OBVIOUS
<1> QED BY <1>1, <1>2, <1>3, <1>4, <1>5, <1>6, <1>7, <1>8, <1>9, <1>10, <1>11 DEF PagesNext

\* What the invariant says of a page is what the runs check.
LEMMA PagesInvMeans ==
  ASSUME PagesInv
  PROVE  PagesTypeOK /\ FlaggedSendOnce /\ ShowsOwnChange /\ FlagsClear
<1>1. PagesTypeOK
  <2>1. \A r \in requests : r.live => r.page = route.page
    BY DEF PagesInv, LiveOK, At
  <2>2. requests \subseteq Request /\ \A q, r \in requests : q.n = r.n => q = r
    BY DEF PagesInv, RequestsOK
  <2> QED BY <2>1, <2>2 DEF PagesInv, ScalarsOK, PagesTypeOK
<1>2. FlaggedSendOnce
  BY DEF PagesInv, LiveOK, FlaggedSendOnce, Live
<1>3. ShowsOwnChange
  BY DEF PagesInv, OwedOK, ShowsOwnChange, Live
<1>4. FlagsClear
  BY DEF PagesInv, LiveOK, FlagsClear, Live
<1> QED BY <1>1, <1>2, <1>3, <1>4

\* In every state the invariant holds.
LEMMA PagesSafe == PagesSpec => []PagesInv
<1> QED BY PagesInitInv, PagesInvNext, PTL DEF PagesSpec

\* The state of the pages has its type: requests are numbered apart, and only
\* requests of the page that is shown are live.
THEOREM PagesTypeCorrect == PagesSpec => []PagesTypeOK
<1>1. PagesInv => PagesTypeOK
  BY PagesInvMeans
<1> QED BY <1>1, PagesSafe, PTL

\* Whatever pages the user goes to while requests are in flight, and in whatever
\* order they are answered, a page shows the record of its own path (the views
\* key their state by the path and drop answers once they are unmounted).
THEOREM PagesShowTheirRecord == PagesSpec => []AnswersStayOnTheirPage
<1>1. PagesInv => AnswersStayOnTheirPage
  BY DEF PagesInv
<1> QED BY <1>1, PagesSafe, PTL

\* A button that spins sends nothing: the buttons that share a flag have one
\* request in flight at most, the reload that follows a command included.  The
\* buttons without a flag are not meant, and may have two.
THEOREM FlaggedButtonsSendOnce == PagesSpec => []FlaggedSendOnce
<1>1. PagesInv => FlaggedSendOnce
  BY PagesInvMeans
<1> QED BY <1>1, PagesSafe, PTL

\* A page that waits for nothing shows what its user did, if its requests did
\* not cross and its loads did not fail.
THEOREM PagesShowOwnChange == PagesSpec => []ShowsOwnChange
<1>1. PagesInv => ShowsOwnChange
  BY PagesInvMeans
<1> QED BY <1>1, PagesSafe, PTL

\* Every flag that spins belongs to a request in flight that takes it back.
THEOREM PagesFlagsClear == PagesSpec => []FlagsClear
<1>1. PagesInv => FlagsClear
  BY PagesInvMeans
<1> QED BY <1>1, PagesSafe, PTL
=============================================================================
