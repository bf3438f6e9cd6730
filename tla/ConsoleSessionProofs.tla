------------------------ MODULE ConsoleSessionProofs ------------------------
(***************************************************************************)
(* Theorems about ConsoleSession, for any number of tabs, commands and     *)
(* logins.                                                                 *)
(***************************************************************************)
EXTENDS ConsoleSession, FiniteSetTheorems, TLAPS

Typed ==
  /\ stored \in Pairs \cup {None}
  /\ access \subseteq Pairs
  /\ refresh \in [Pairs -> {"unissued", "usable", "consumed", "expired"}]
  /\ page \in [Tabs -> Page]
  /\ call \in [Calls -> Call]
  /\ executed \in [Calls -> 0..2]
  /\ detached \subseteq Pairs \X Unanswered
  /\ lost \subseteq Pairs
  /\ sentBy \subseteq Tabs \X Pairs
  /\ logins \in 0..MaxLogins

\* A command in a page's hands has a page, and one that waits a page whose
\* exchange will settle.
CallsHavePages ==
  \A c \in Calls :
    /\ call[c].step \in {"sent", "denied", "waiting", "resent", "deniedAgain"}
         => call[c].tab \in Tabs
    /\ call[c].step = "waiting" => Exchanging(call[c].tab)

\* A command that was executed is over, also for the page.
ExecutedIsDone ==
  \A c \in Calls : executed[c] = 0 \/ (executed[c] = 1 /\ call[c].step = "done")

\* A page's token belongs to its exchange, its answer to one that is answered.
ExchangeHasToken ==
  \A t \in Tabs :
    /\ page[t].token # None <=> Exchanging(t)
    /\ page[t].answer # None => page[t].inflight = "answered"

\* No page has ever had the refresh token p.
Unsent(p) ==
  /\ stored # p /\ \A d \in detached : d[1] # p
  /\ \A t \in Tabs : page[t].token # p /\ <<t, p>> \notin sentBy

\* What is not issued is nowhere, and what an exchange was answered with is
\* good, and nowhere else.
UnissuedIsUnknown ==
  \A p \in Pairs : refresh[p] = "unissued" =>
    Unsent(p) /\ \A t \in Tabs : page[t].answer # p
AnswerIsFresh ==
  \A t \in Tabs : page[t].answer # None =>
    /\ refresh[page[t].answer] \in {"usable", "expired"}
    /\ Unsent(page[t].answer)
    /\ \A u \in Tabs : u # t => page[u].answer # page[t].answer

\* Whoever reads the stored token later may find it used up by an exchange
\* that nobody waits for.
DetachedIsLost == \A d \in detached : d[1] \in lost

\* A page that has sent the stored token is exchanging now.
SenderIsExchanging == \A t \in Tabs : <<t, stored>> \in sentBy => Exchanging(t)

CallsInv == CallsHavePages /\ ExecutedIsDone
TokensInv ==
  /\ ExchangeHasToken /\ UnissuedIsUnknown /\ AnswerIsFresh /\ SenderIsExchanging
  /\ DetachedIsLost
  /\ StoredTokenIsExchangeable
SessInv == Typed /\ CallsInv /\ TokensInv

\* No token is missing: None stands for its absence.
LEMMA NoneIsNoPair == None \notin Pairs
<1>1. Cardinality(Calls) \in Nat
  BY FS_CardinalityType, SessionConstants
<1> QED BY <1>1, SessionConstants DEF Pairs

\* With every tab at /login and nothing issued the invariant holds.
LEMMA InvInit == SessInit => SessInv
<1> SUFFICES ASSUME SessInit PROVE SessInv
  OBVIOUS
<1> USE NoneIsNoPair DEF SessInit
<1>1. Typed
  BY SessionConstants DEF Typed, Page, Call, LoginPage, Exchange
<1>2. CallsHavePages /\ ExecutedIsDone
  BY DEF CallsHavePages, ExecutedIsDone
<1>3. ExchangeHasToken
  BY DEF ExchangeHasToken, Exchanging, Unanswered, LoginPage
<1>4. UnissuedIsUnknown /\ AnswerIsFresh /\ SenderIsExchanging
  BY DEF UnissuedIsUnknown, AnswerIsFresh, SenderIsExchanging, Unsent, LoginPage
<1>5. StoredTokenIsExchangeable /\ DetachedIsLost
  BY DEF StoredTokenIsExchangeable, DetachedIsLost
<1> QED BY <1>1, <1>2, <1>3, <1>4, <1>5 DEF SessInv, CallsInv, TokensInv

---------------------------------------------------------------------------
(* Types                                                                   *)

\* An answered exchange is one of a page.
LEMMA AnsweredType ==
  ASSUME NEW pg \in Page, NEW p \in Pairs \cup {None}
  PROVE  Answered(pg, p) \in Page
  BY DEF Page, Answered, Exchange

\* handleAuthExpired leaves a page.
LEMMA AuthExpiredType ==
  ASSUME NEW pg \in Page
  PROVE  AuthExpired(pg) \in Page
  BY DEF Page, AuthExpired

\* handleAuthExpired does not touch refreshInflight.
LEMMA AuthExpiredKeepsExchange ==
  ASSUME NEW pg \in Page
  PROVE  /\ AuthExpired(pg).inflight = pg.inflight
         /\ AuthExpired(pg).token = pg.token /\ AuthExpired(pg).answer = pg.answer
  BY DEF Page, AuthExpired

\* A command that is over is a command.
LEMMA DoneType == Done \in Call
  BY DEF Call, Done

\* What the handlers assign to a page is a page.
LEMMA PageSteps ==
  ASSUME NEW pg \in Page, NEW p \in Pairs \cup {None}
  PROVE  /\ [pg EXCEPT !.inflight = "found"] \in Page
         /\ [pg EXCEPT !.inflight = "consumed"] \in Page
         /\ [pg EXCEPT !.inflight = "stale"] \in Page
         /\ [pg EXCEPT !.inflight = "sent", !.token = p] \in Page
         /\ [pg EXCEPT !.inflight = "none", !.token = None, !.answer = None] \in Page
         /\ [pg EXCEPT !.auth = "userinfo", !.asked = p] \in Page
         /\ [pg EXCEPT !.at = "login", !.auth = "none", !.asked = None] \in Page
  <1>1. /\ [pg EXCEPT !.inflight = "found"] \in Page
        /\ [pg EXCEPT !.inflight = "consumed"] \in Page
        /\ [pg EXCEPT !.inflight = "stale"] \in Page
    BY DEF Page, Exchange, Unanswered
  <1>2. [pg EXCEPT !.inflight = "sent", !.token = p] \in Page
    BY DEF Page, Exchange, Unanswered
  <1>3. [pg EXCEPT !.inflight = "none", !.token = None, !.answer = None] \in Page
    BY DEF Page, Exchange
  <1>4. [pg EXCEPT !.auth = "userinfo", !.asked = p] \in Page
    BY DEF Page
  <1>5. [pg EXCEPT !.at = "login", !.auth = "none", !.asked = None] \in Page
    BY DEF Page
  <1> QED BY <1>1, <1>2, <1>3, <1>4, <1>5

\* What the backend keeps in hand of an exchange is that exchange.
LEMMA GivenUpType ==
  ASSUME NEW pg \in Page, pg.inflight \in Unanswered => pg.token # None
  PROVE  /\ GivenUp(pg) \subseteq Pairs \X Unanswered
         /\ \A d \in GivenUp(pg) : d[1] = pg.token /\ pg.inflight \in Unanswered
  BY DEF Page, GivenUp

\* A page that has just been loaded is a page.
LEMMA LoginPageType ==
  ASSUME NEW p \in Pairs \cup {None}
  PROVE  /\ LoginPage \in Page
         /\ [LoginPage EXCEPT !.at = "app", !.auth = "userinfo", !.asked = p] \in Page
  BY DEF Page, LoginPage, Exchange

\* What the handlers assign to a command is a command.
LEMMA CallSteps ==
  ASSUME NEW r \in Call, NEW p \in Pairs \cup {None}
  PROVE  /\ [r EXCEPT !.step = "denied", !.token = None] \in Call
         /\ [r EXCEPT !.step = "deniedAgain", !.token = None] \in Call
         /\ [r EXCEPT !.step = "resent", !.token = p] \in Call
         /\ [r EXCEPT !.step = "waiting"] \in Call
         /\ [r EXCEPT !.step = "gone", !.tab = None] \in Call
  BY DEF Call

---------------------------------------------------------------------------
(* Steps that leave the exchanges alone                                    *)

SameExchanges ==
  \A t \in Tabs :
    /\ page'[t].inflight = page[t].inflight
    /\ page'[t].token = page[t].token /\ page'[t].answer = page[t].answer

\* A step that at most clears the stored pair keeps what is known of tokens.
LEMMA TokensKept ==
  ASSUME SessInv, SameExchanges, stored' \in {stored, None},
         UNCHANGED <<refresh, detached, lost, sentBy>>
  PROVE  TokensInv'
  <1> USE NoneIsNoPair DEF SessInv, TokensInv, SameExchanges, Exchanging
  <1>1. ExchangeHasToken'
    BY DEF ExchangeHasToken
  <1>2. UnissuedIsUnknown' /\ AnswerIsFresh'
    BY DEF UnissuedIsUnknown, AnswerIsFresh, Unsent, Typed, Page
  <1>3. SenderIsExchanging'
    BY DEF SenderIsExchanging, Typed
  <1>4. StoredTokenIsExchangeable' /\ DetachedIsLost'
    BY DEF StoredTokenIsExchangeable, DetachedIsLost
  <1> QED BY <1>1, <1>2, <1>3, <1>4

\* A command's step that is not the beginning of a wait.
LEMMA CallsKept ==
  ASSUME SessInv, SameExchanges,
         \A c \in Calls :
           \/ call'[c] = call[c] /\ executed'[c] = executed[c]
           \/ call'[c].step = "done" /\ executed'[c] \in {0, 1}
           \/ /\ call'[c].step \in {"sent", "denied", "deniedAgain"} /\ call'[c].tab \in Tabs
              /\ executed'[c] = 0
  PROVE  CallsInv'
  BY DEF SessInv, CallsInv, CallsHavePages, ExecutedIsDone, SameExchanges, Exchanging

\* An access token's end changes nothing the tabs know.
LEMMA ExpireAccessStep ==
  ASSUME SessInv, NEW p \in Pairs, ExpireAccess(p)
  PROVE  SessInv'
  <1> USE DEF ExpireAccess
  <1>1. Typed'
    BY DEF SessInv, Typed
  <1>2. SameExchanges
    BY DEF SameExchanges
  <1> QED BY <1>1, <1>2, TokensKept, CallsKept DEF SessInv

\* The backend serves a command: it was never executed before.
LEMMA ServeStep ==
  ASSUME SessInv, NEW c \in Calls, Serve(c)
  PROVE  SessInv'
  <1>1. executed[c] = 0 /\ call[c] \in Call
    BY DEF Serve, SessInv, CallsInv, ExecutedIsDone, Typed
  <1>2. call[c].step \in {"sent", "resent"} => call[c].tab \in Tabs
    BY DEF SessInv, CallsInv, CallsHavePages
  <1>3. Typed'
    <2>1. call' \in [Calls -> Call]
      BY <1>1, CallSteps, DoneType DEF Serve, SessInv, Typed
    <2> QED BY <1>1, <2>1 DEF Serve, SessInv, Typed
  <1>4. SameExchanges
    BY DEF Serve, SameExchanges
  <1>5. \A d \in Calls : d # c => call'[d] = call[d] /\ executed'[d] = executed[d]
    BY DEF Serve, SessInv, Typed
  <1>6. \/ call'[c].step = "done" /\ executed'[c] \in {0, 1}
        \/ /\ call'[c].step \in {"denied", "deniedAgain"} /\ call'[c].tab \in Tabs
           /\ executed'[c] = 0
    <2>1. CASE call[c].token \in access
      BY <2>1, <1>1 DEF Serve, SessInv, Typed, Done
    <2>2. CASE call[c].token \notin access
      <3>1. executed'[c] = 0
        BY <2>2, <1>1 DEF Serve
      <3>2. CASE call[c].step = "sent"
        <4>1. call' = [call EXCEPT ![c] = [@ EXCEPT !.step = "denied", !.token = None]]
          BY <2>2, <3>2 DEF Serve
        <4> QED BY <4>1, <3>1, <3>2, <1>1, <1>2 DEF SessInv, Typed, Call
      <3>3. CASE call[c].step = "resent"
        <4>1. call' = [call EXCEPT ![c] = [@ EXCEPT !.step = "deniedAgain", !.token = None]]
          BY <2>2, <3>3 DEF Serve
        <4> QED BY <4>1, <3>1, <3>3, <1>1, <1>2 DEF SessInv, Typed, Call
      <3>4. CASE call[c].step = "gone"
        <4>1. call' = [call EXCEPT ![c] = Done]
          BY <2>2, <3>4 DEF Serve
        <4> QED BY <4>1, <3>1, <1>1 DEF SessInv, Typed, Done
      <3> QED BY <3>2, <3>3, <3>4 DEF Serve
    <2> QED BY <2>1, <2>2
  <1>7. CallsInv'
    BY <1>4, <1>5, <1>6, CallsKept
  <1>8. TokensInv'
    BY <1>4, TokensKept DEF Serve
  <1> QED BY <1>3, <1>7, <1>8 DEF SessInv

\* A lost connection ends a command, executed or not.
LEMMA FetchFailsStep ==
  ASSUME SessInv, NEW c \in Calls, FetchFails(c)
  PROVE  SessInv'
  <1>1. executed[c] = 0
    BY DEF FetchFails, SessInv, CallsInv, ExecutedIsDone, Typed
  <1>2. call' = [call EXCEPT ![c] = Done]
    BY DEF FetchFails, AfterNetworkError
  <1>3. Typed'
    BY <1>1, <1>2, DoneType DEF FetchFails, SessInv, Typed
  <1>4. SameExchanges
    BY DEF FetchFails, SameExchanges
  <1>5. CallsInv'
    BY <1>1, <1>2, <1>4, CallsKept DEF FetchFails, SessInv, Typed, Done
  <1>6. TokensInv'
    BY <1>4, TokensKept DEF FetchFails
  <1> QED BY <1>3, <1>5, <1>6 DEF SessInv

\* A command starts on the page that sends it.
LEMMA SendStep ==
  ASSUME SessInv, NEW t \in Tabs, NEW c \in Calls, Send(t, c)
  PROVE  SessInv'
  <1> USE DEF Send
  <1>1. Typed'
    BY DEF SessInv, Typed, Call
  <1>2. SameExchanges
    BY DEF SameExchanges
  <1>3. executed[c] = 0
    BY DEF SessInv, CallsInv, ExecutedIsDone
  <1>4. CallsInv'
    BY <1>2, <1>3, CallsKept DEF SessInv, Typed
  <1>5. TokensInv'
    BY <1>2, TokensKept
  <1> QED BY <1>1, <1>4, <1>5 DEF SessInv

\* A second 401 clears the stored pair.
LEMMA HandleDeniedAgainStep ==
  ASSUME SessInv, NEW c \in Calls, HandleDeniedAgain(c)
  PROVE  SessInv'
  <1> USE DEF HandleDeniedAgain
  <1>1. /\ call[c].tab \in Tabs /\ executed[c] = 0
        /\ page \in [Tabs -> Page] /\ call \in [Calls -> Call]
    BY DEF SessInv, CallsInv, CallsHavePages, ExecutedIsDone, Typed
  <1>2. Typed'
    <2>1. page' \in [Tabs -> Page] /\ call' \in [Calls -> Call]
      BY <1>1, AuthExpiredType, DoneType
    <2> QED BY <2>1 DEF SessInv, Typed
  <1>3. SameExchanges
    BY <1>1 DEF SameExchanges, AuthExpired, Page
  <1>4. CallsInv'
    BY <1>1, <1>3, CallsKept DEF Done
  <1>5. TokensInv'
    BY <1>3, TokensKept
  <1> QED BY <1>2, <1>4, <1>5 DEF SessInv

\* A refused login clears the stored pair of every tab.
LEMMA LoginRefusedStep ==
  ASSUME SessInv, NEW t \in Tabs, LoginRefused(t)
  PROVE  SessInv'
  <1> USE DEF LoginRefused
  <1>1. Typed'
    BY DEF SessInv, Typed
  <1>2. SameExchanges
    BY DEF SameExchanges
  <1> QED BY <1>1, <1>2, TokensKept, CallsKept DEF SessInv

\* The answer about the user moves the page, not its exchange.
LEMMA UserInfoAnsweredStep ==
  ASSUME SessInv, NEW t \in Tabs, UserInfoAnswered(t)
  PROVE  SessInv'
  <1>1. page \in [Tabs -> Page] /\ page[t] \in Page
    BY DEF SessInv, Typed
  <1>2. \/ page' = [page EXCEPT ![t] = [@ EXCEPT !.at = "app", !.auth = "loaded", !.asked = None]]
        \/ page' = [page EXCEPT ![t] = [@ EXCEPT !.at = "login", !.auth = "none", !.asked = None]]
    BY <1>1 DEF UserInfoAnswered
  <1>3. stored' \in {stored, None}
    BY DEF UserInfoAnswered
  <1>4. Typed'
    <2>1. [page[t] EXCEPT !.at = "app", !.auth = "loaded", !.asked = None] \in Page
      BY <1>1 DEF Page
    <2>2. page' \in [Tabs -> Page]
      BY <1>1, <1>2, <2>1, PageSteps
    <2> QED BY <1>3, <2>2 DEF UserInfoAnswered, SessInv, Typed
  <1>5. SameExchanges
    <2>1. ASSUME NEW a, NEW b,
                 page' = [page EXCEPT ![t] = [@ EXCEPT !.at = a, !.auth = b, !.asked = None]]
          PROVE  SameExchanges
      BY <1>1, <2>1 DEF SameExchanges, Page
    <2> QED BY <1>2, <2>1
  <1>6. CallsInv'
    BY <1>5, CallsKept DEF UserInfoAnswered
  <1>7. TokensInv'
    BY <1>3, <1>5, TokensKept DEF UserInfoAnswered
  <1> QED BY <1>4, <1>6, <1>7 DEF SessInv

\* A logout clears the stored pair and leaves the exchange alone.
LEMMA LogoutStep ==
  ASSUME SessInv, NEW t \in Tabs, Logout(t)
  PROVE  SessInv'
  <1> USE DEF Logout
  <1>1. page \in [Tabs -> Page]
    BY DEF SessInv, Typed
  <1>2. Typed'
    <2>1. page' \in [Tabs -> Page]
      BY <1>1 DEF Page
    <2> QED BY <2>1 DEF SessInv, Typed
  <1>3. SameExchanges
    BY <1>1 DEF SameExchanges, Page
  <1> QED BY <1>2, <1>3, TokensKept, CallsKept DEF SessInv

---------------------------------------------------------------------------
(* The tokens                                                              *)

\* A refresh token over age was issued and is still exchangeable in name.
LEMMA ExpireRefreshStep ==
  ASSUME SessInv, NEW p \in Pairs, ExpireRefresh(p)
  PROVE  SessInv'
  <1> USE NoneIsNoPair DEF ExpireRefresh, SessInv
  <1>1. Typed'
    BY DEF Typed
  <1>2. CallsInv'
    BY CallsKept DEF SameExchanges
  <1>3. TokensInv'
    BY DEF TokensInv, ExchangeHasToken, UnissuedIsUnknown, AnswerIsFresh, Unsent,
      SenderIsExchanging, DetachedIsLost, StoredTokenIsExchangeable, Exchanging, Unanswered,
      Typed, Page
  <1> QED BY <1>1, <1>2, <1>3

\* An exchange that its page has given up is at another stage, or over.
LEMMA DetachedGoesOn ==
  ASSUME SessInv, NEW q \in Pairs, NEW from, NEW to \in SUBSET Unanswered,
         Detached(q, from, to)
  PROVE  /\ detached' \subseteq Pairs \X Unanswered
         /\ q \in lost /\ DetachedIsLost'
         /\ \A r \in Pairs : Unsent(r) => Unsent(r)'
         /\ \A r \in Pairs : Unsent(r) => r # q
         /\ CallsInv'
  <1> USE DEF Detached
  <1>1. <<q, from>> \in detached /\ \A d \in detached' : d[1] = q \/ d \in detached
    OBVIOUS
  <1>2. detached' \subseteq Pairs \X Unanswered
    BY DEF SessInv, Typed
  <1>3. q \in lost
    BY <1>1 DEF SessInv, TokensInv, DetachedIsLost
  <1>4. DetachedIsLost'
    BY <1>1, <1>3 DEF SessInv, TokensInv, DetachedIsLost
  <1>5. \A r \in Pairs : Unsent(r) => r # q
    BY <1>1 DEF Unsent
  <1>6. \A r \in Pairs : Unsent(r) => Unsent(r)'
    BY <1>1, <1>5 DEF Unsent
  <1>7. CallsInv'
    BY CallsKept DEF SameExchanges
  <1> QED BY <1>2, <1>3, <1>4, <1>5, <1>6, <1>7

\* Its token is looked for.
LEMMA FindDetachedStep ==
  ASSUME SessInv, NEW q \in Pairs, FindDetached(q)
  PROVE  SessInv'
  <1> USE NoneIsNoPair DEF SessInv
  <1> DEFINE to == IF refresh[q] = "usable" THEN {"found"} ELSE {}
  <1>1. Detached(q, "sent", to) /\ UNCHANGED <<access, refresh>> /\ to \in SUBSET Unanswered
    BY DEF FindDetached, Unanswered
  <1>2. /\ detached' \subseteq Pairs \X Unanswered
        /\ DetachedIsLost' /\ CallsInv'
        /\ \A r \in Pairs : Unsent(r) => Unsent(r)'
    BY <1>1, DetachedGoesOn
  <1>3. Typed'
    BY <1>1, <1>2 DEF Detached, Typed
  <1>4. TokensInv'
    BY <1>1, <1>2 DEF Detached, TokensInv, ExchangeHasToken, UnissuedIsUnknown, AnswerIsFresh,
      SenderIsExchanging, StoredTokenIsExchangeable, Exchanging, Typed, Page
  <1> QED BY <1>2, <1>3, <1>4

\* Its token is used up: it is among the lost, and no answer's.
LEMMA ConsumeDetachedStep ==
  ASSUME SessInv, NEW q \in Pairs, ConsumeDetached(q)
  PROVE  SessInv'
  <1> USE NoneIsNoPair DEF SessInv
  <1>1. /\ Detached(q, "found", {"consumed"}) /\ UNCHANGED access
        /\ refresh' = [refresh EXCEPT ![q] = "consumed"]
    BY DEF ConsumeDetached
  <1>2. /\ detached' \subseteq Pairs \X Unanswered /\ q \in lost
        /\ DetachedIsLost' /\ CallsInv'
        /\ \A r \in Pairs : Unsent(r) => Unsent(r)'
        /\ \A r \in Pairs : Unsent(r) => r # q
    BY <1>1, DetachedGoesOn DEF Unanswered
  <1>3. Typed'
    BY <1>1, <1>2 DEF Detached, Typed
  <1>4. TokensInv'
    BY <1>1, <1>2 DEF Detached, TokensInv, ExchangeHasToken, UnissuedIsUnknown, AnswerIsFresh,
      SenderIsExchanging, StoredTokenIsExchangeable, Exchanging, Typed, Page
  <1> QED BY <1>2, <1>3, <1>4

\* Its new pair is one that nobody has seen, and nobody will.
LEMMA SaveDetachedStep ==
  ASSUME SessInv, NEW q \in Pairs, SaveDetached(q)
  PROVE  SessInv'
  <1> USE NoneIsNoPair DEF SessInv
  <1>1. Detached(q, "consumed", {})
    BY DEF SaveDetached
  <1>2. PICK p \in Pairs :
          /\ refresh[p] = "unissued"
          /\ refresh' = [refresh EXCEPT ![p] = "usable"] /\ access' = access \cup {p}
    BY DEF SaveDetached, Issue
  <1>3. /\ detached' \subseteq Pairs \X Unanswered
        /\ DetachedIsLost' /\ CallsInv'
        /\ \A r \in Pairs : Unsent(r) => Unsent(r)'
    BY <1>1, DetachedGoesOn
  <1>4. Typed'
    BY <1>1, <1>2, <1>3 DEF Detached, Typed
  <1>5. TokensInv'
    BY <1>1, <1>2, <1>3 DEF Detached, TokensInv, ExchangeHasToken, UnissuedIsUnknown,
      AnswerIsFresh, SenderIsExchanging, StoredTokenIsExchangeable, Exchanging, Typed, Page
  <1> QED BY <1>3, <1>4, <1>5

\* The token's row is read before it is consumed.
LEMMA FindRefreshTokenStep ==
  ASSUME SessInv, NEW t \in Tabs, FindRefreshToken(t)
  PROVE  SessInv'
  <1> USE NoneIsNoPair DEF FindRefreshToken, SessInv
  <1>1. page[t] \in Page /\ page \in [Tabs -> Page] /\ page[t].answer = None
    BY DEF Typed, TokensInv, ExchangeHasToken
  <1>2. page' \in [Tabs -> Page]
    BY <1>1, PageSteps, AnsweredType
  <1>3. /\ \A u \in Tabs : u # t => page'[u] = page[u]
        /\ page'[t].inflight \in {"found", "answered"}
        /\ page'[t].token = page[t].token /\ page'[t].answer = None
    BY <1>1 DEF Answered, Page
  <1>4. Typed'
    BY <1>2 DEF Typed
  <1>5. CallsInv'
    BY <1>3 DEF CallsInv, CallsHavePages, ExecutedIsDone, Exchanging, Unanswered
  <1>6. TokensInv'
    BY <1>1, <1>3 DEF TokensInv, ExchangeHasToken, UnissuedIsUnknown, AnswerIsFresh, Unsent,
      SenderIsExchanging, DetachedIsLost, StoredTokenIsExchangeable, Exchanging, Unanswered
  <1> QED BY <1>4, <1>5, <1>6

\* The token that is used up is in its page's hands, and no answer's.
LEMMA ConsumeRefreshTokenStep ==
  ASSUME SessInv, NEW t \in Tabs, ConsumeRefreshToken(t)
  PROVE  SessInv'
  <1> USE NoneIsNoPair DEF SessInv
  <1>1. /\ page[t] \in Page /\ page \in [Tabs -> Page] /\ page[t].answer = None
        /\ page[t].inflight = "found" /\ page[t].token \in Pairs
        /\ refresh' = [refresh EXCEPT ![page[t].token] = "consumed"]
        /\ page' = [page EXCEPT ![t] = [@ EXCEPT !.inflight = "consumed"]]
        /\ UNCHANGED <<stored, access, call, executed, detached, lost, sentBy, logins>>
    BY DEF ConsumeRefreshToken, Typed, TokensInv, ExchangeHasToken, Exchanging, Unanswered, Page
  <1>2. page' \in [Tabs -> Page]
    BY <1>1, PageSteps
  <1>3. /\ \A u \in Tabs : u # t => page'[u] = page[u]
        /\ page'[t].inflight = "consumed"
        /\ page'[t].token = page[t].token /\ page'[t].answer = None
    BY <1>1 DEF Page
  <1>4. Typed'
    BY <1>1, <1>2 DEF Typed
  <1>5. CallsInv'
    BY <1>1, <1>3 DEF CallsInv, CallsHavePages, ExecutedIsDone, Exchanging, Unanswered
  <1>6. ExchangeHasToken' /\ SenderIsExchanging' /\ DetachedIsLost'
    BY <1>1, <1>3 DEF TokensInv, ExchangeHasToken, SenderIsExchanging, DetachedIsLost,
      Exchanging, Unanswered
  <1>7. \A r \in Pairs : Unsent(r) => Unsent(r)' /\ r # page[t].token
    BY <1>1, <1>3 DEF Unsent
  <1>8. UnissuedIsUnknown' /\ AnswerIsFresh'
    BY <1>1, <1>3, <1>7 DEF TokensInv, UnissuedIsUnknown, AnswerIsFresh, Typed, Page
  <1>9. StoredTokenIsExchangeable'
    BY <1>1, <1>3 DEF TokensInv, StoredTokenIsExchangeable, Exchanging, Unanswered, Typed
  <1> QED BY <1>4, <1>5, <1>6, <1>8, <1>9 DEF TokensInv

\* The new pair is one nobody has seen.
LEMMA SaveAuthorizationStep ==
  ASSUME SessInv, NEW t \in Tabs, SaveAuthorization(t)
  PROVE  SessInv'
  <1> USE NoneIsNoPair DEF SessInv
  <1>1. /\ page[t] \in Page /\ page \in [Tabs -> Page] /\ page[t].answer = None
        /\ page[t].inflight = "consumed" /\ page[t].token \in Pairs
        /\ UNCHANGED <<stored, call, executed, detached, lost, sentBy, logins>>
    BY DEF SaveAuthorization, Typed, TokensInv, ExchangeHasToken, Exchanging, Unanswered, Page
  <1>2. PICK p \in Pairs :
          /\ refresh[p] = "unissued"
          /\ refresh' = [refresh EXCEPT ![p] = "usable"]
          /\ access' = access \cup {p}
          /\ page' = [page EXCEPT ![t] = Answered(@, p)]
    BY DEF SaveAuthorization, Issue
  <1>3. page' \in [Tabs -> Page]
    BY <1>1, <1>2, AnsweredType
  <1>4. /\ \A u \in Tabs : u # t => page'[u] = page[u]
        /\ page'[t].inflight = "answered"
        /\ page'[t].token = page[t].token /\ page'[t].answer = p
    BY <1>1, <1>2 DEF Answered, Page
  <1>5. Typed'
    BY <1>1, <1>2, <1>3 DEF Typed
  <1>6. CallsInv'
    BY <1>1, <1>4 DEF CallsInv, CallsHavePages, ExecutedIsDone, Exchanging, Unanswered
  <1>7. Unsent(p) /\ \A u \in Tabs : page[u].answer # p
    BY <1>2 DEF TokensInv, UnissuedIsUnknown
  <1>8. refresh'[p] = "usable" /\ \A q \in Pairs : q # p => refresh'[q] = refresh[q]
    BY <1>1, <1>2 DEF Typed
  <1>9. ExchangeHasToken' /\ SenderIsExchanging' /\ DetachedIsLost'
    BY <1>1, <1>4 DEF TokensInv, ExchangeHasToken, SenderIsExchanging, DetachedIsLost,
      Exchanging, Unanswered
  <1>10. \A r \in Pairs : Unsent(r) => Unsent(r)'
    BY <1>1, <1>4 DEF Unsent
  <1>11. UnissuedIsUnknown'
    BY <1>1, <1>4, <1>7, <1>8, <1>10 DEF TokensInv, UnissuedIsUnknown
  <1>12. AnswerIsFresh'
    <2> SUFFICES ASSUME NEW u \in Tabs, page'[u].answer # None
                 PROVE  /\ refresh'[page'[u].answer] \in {"usable", "expired"}
                        /\ Unsent(page[u].answer)'
                        /\ \A v \in Tabs : v # u => page'[v].answer # page'[u].answer
      BY DEF AnswerIsFresh
    <2>1. CASE u = t
      BY <2>1, <1>4, <1>7, <1>8, <1>10 DEF Unsent
    <2>2. CASE u # t
      <3>1. /\ page'[u].answer = page[u].answer /\ page[u].answer \in Pairs
            /\ Unsent(page[u].answer) /\ page[u].answer # p
            /\ refresh[page[u].answer] \in {"usable", "expired"}
            /\ \A v \in Tabs : v # u => page[v].answer # page[u].answer
        BY <2>2, <1>1, <1>4, <1>7 DEF TokensInv, AnswerIsFresh, Typed, Page
      <3>2. refresh'[page[u].answer] = refresh[page[u].answer]
        BY <3>1, <1>8
      <3>3. \A v \in Tabs : v # u => page'[v].answer # page'[u].answer
        BY <3>1, <1>4
      <3>4. Unsent(page[u].answer)'
        BY <3>1, <1>10 DEF Unsent
      <3> QED BY <3>1, <3>2, <3>3, <3>4
    <2> QED BY <2>1, <2>2
  <1>13. StoredTokenIsExchangeable'
    BY <1>1, <1>4, <1>7, <1>8 DEF TokensInv, StoredTokenIsExchangeable, Unsent, Exchanging,
      Unanswered, Typed
  <1> QED BY <1>1, <1>5, <1>6, <1>9, <1>11, <1>12, <1>13 DEF TokensInv

\* The connection of an exchange fails: its token counts as lost.
LEMMA RefreshFailsStep ==
  ASSUME SessInv, NEW t \in Tabs, RefreshFails(t)
  PROVE  SessInv'
  <1> USE NoneIsNoPair DEF SessInv
  <1>1. /\ page[t] \in Page /\ page \in [Tabs -> Page] /\ page[t].token \in Pairs
        /\ page' = [page EXCEPT ![t] = Answered(@, None)]
        /\ detached' = detached \cup GivenUp(page[t])
        /\ lost' = lost \cup {page[t].token}
        /\ UNCHANGED <<stored, access, refresh, call, executed, sentBy, logins>>
    BY DEF RefreshFails, Typed, TokensInv, ExchangeHasToken, Exchanging, Page
  <1>2. /\ \A u \in Tabs : u # t => page'[u] = page[u]
        /\ page'[t].inflight = "answered"
        /\ page'[t].token = page[t].token /\ page'[t].answer = None
    BY <1>1 DEF Answered, Page
  <1>0. /\ detached' \subseteq Pairs \X Unanswered
        /\ \A d \in detached' : d \in detached \/ d[1] = page[t].token
    BY <1>1, NoneIsNoPair, GivenUpType DEF Typed
  <1>3. Typed'
    BY <1>0, <1>1, AnsweredType DEF Typed
  <1>4. CallsInv'
    BY <1>1, <1>2 DEF CallsInv, CallsHavePages, ExecutedIsDone, Exchanging, Unanswered
  <1>5. ExchangeHasToken' /\ SenderIsExchanging'
    BY <1>1, <1>2 DEF TokensInv, ExchangeHasToken, SenderIsExchanging, Exchanging
  <1>6. \A r \in Pairs : Unsent(r) => Unsent(r)'
    BY <1>0, <1>1, <1>2 DEF Unsent
  <1>7. UnissuedIsUnknown' /\ AnswerIsFresh'
    BY <1>1, <1>2, <1>6 DEF TokensInv, UnissuedIsUnknown, AnswerIsFresh, Typed, Page
  <1>8. DetachedIsLost' /\ StoredTokenIsExchangeable'
    BY <1>0, <1>1, <1>2 DEF TokensInv, DetachedIsLost, StoredTokenIsExchangeable, Exchanging
  <1> QED BY <1>3, <1>4, <1>5, <1>7, <1>8 DEF TokensInv

\* A login stores a pair nobody has seen.
LEMMA LoginAcceptedStep ==
  ASSUME SessInv, NEW t \in Tabs, LoginAccepted(t)
  PROVE  SessInv'
  <1> USE NoneIsNoPair DEF SessInv
  <1>1. PICK p \in Pairs :
          /\ refresh[p] = "unissued"
          /\ refresh' = [refresh EXCEPT ![p] = "usable"]
          /\ access' = access \cup {p}
          /\ stored' = p
          /\ page' = [page EXCEPT ![t].auth = "userinfo", ![t].asked = p]
    BY DEF LoginAccepted, Issue
  <1>2. /\ page \in [Tabs -> Page] /\ page[t] \in Page
        /\ UNCHANGED <<call, executed, detached, lost, sentBy>>
    BY DEF LoginAccepted, Typed
  <1>3. Typed'
    <2>1. page' \in [Tabs -> Page]
      BY <1>1, <1>2, PageSteps
    <2>2. logins' \in 0..MaxLogins
      BY SessionConstants DEF LoginAccepted, Typed
    <2> QED BY <1>1, <1>2, <2>1, <2>2 DEF Typed
  <1>4. SameExchanges
    BY <1>1, <1>2 DEF SameExchanges, Page
  <1>5. CallsInv'
    BY <1>2, <1>4, CallsKept
  <1>6. Unsent(p) /\ \A u \in Tabs : page[u].answer # p
    BY <1>1 DEF TokensInv, UnissuedIsUnknown
  <1>7. ExchangeHasToken' /\ SenderIsExchanging'
    BY <1>1, <1>2, <1>4, <1>6 DEF TokensInv, ExchangeHasToken, SenderIsExchanging, Unsent,
      SameExchanges, Exchanging
  <1>8. UnissuedIsUnknown' /\ AnswerIsFresh'
    BY <1>1, <1>2, <1>4, <1>6 DEF TokensInv, UnissuedIsUnknown, AnswerIsFresh, Unsent,
      SameExchanges, Typed, Page
  <1>9. StoredTokenIsExchangeable' /\ DetachedIsLost'
    BY <1>1, <1>2 DEF TokensInv, StoredTokenIsExchangeable, DetachedIsLost, Typed
  <1> QED BY <1>2, <1>3, <1>5, <1>7, <1>8, <1>9 DEF TokensInv

\* refreshTokenOnce settles: with a pair that was nowhere before, or without.
LEMMA RefreshSettlesStep ==
  ASSUME SessInv, NEW t \in Tabs, RefreshSettles(t)
  PROVE  SessInv'
  <1> USE NoneIsNoPair DEF SessInv
  <1> DEFINE pair == page[t].answer
             idle == [page[t] EXCEPT !.inflight = "none", !.token = None, !.answer = None]
  <1>1. /\ page[t] \in Page /\ page \in [Tabs -> Page] /\ call \in [Calls -> Call]
        /\ page[t].inflight = "answered" /\ pair \in Pairs \cup {None}
        /\ UNCHANGED <<access, refresh, executed, detached, lost, sentBy, logins>>
    BY DEF RefreshSettles, Typed, Page
  <1>2. stored' = pair /\ page' \in {[page EXCEPT ![t] = idle], [page EXCEPT ![t] = AuthExpired(idle)]}
    BY DEF RefreshSettles, KeptPair
  <1>3. idle \in Page
    BY <1>1, PageSteps
  <1>4. /\ \A u \in Tabs : u # t => page'[u] = page[u]
        /\ page'[t].inflight = "none" /\ page'[t].token = None /\ page'[t].answer = None
    <2>1. idle.inflight = "none" /\ idle.token = None /\ idle.answer = None
      BY <1>1 DEF Page
    <2>2. page'[t] \in {idle, AuthExpired(idle)} /\ \A u \in Tabs : u # t => page'[u] = page[u]
      BY <1>1, <1>2
    <2> HIDE DEF idle
    <2> QED BY <1>3, <2>1, <2>2, AuthExpiredKeepsExchange
  <1>5. \A c \in Calls :
          IF c \notin Waiters(t) THEN call'[c] = call[c]
          ELSE call'[c] \in {[call[c] EXCEPT !.step = "resent", !.token = stored'], Done}
    BY DEF RefreshSettles
  <1>6. Typed'
    <2>1. page' \in [Tabs -> Page]
      BY <1>1, <1>2, <1>3, AuthExpiredType
    <2>2. ASSUME NEW c \in Calls PROVE call'[c] \in Call
      <3>1. call[c] \in Call /\ stored' \in Pairs \cup {None}
        BY <1>1, <1>2
      <3>2. [call[c] EXCEPT !.step = "resent", !.token = stored'] \in Call
        BY <3>1, CallSteps
      <3> QED BY <1>5, <3>1, <3>2, DoneType
    <2>3. call' \in [Calls -> Call]
      BY <2>2 DEF RefreshSettles
    <2> QED BY <1>1, <1>2, <2>1, <2>3 DEF Typed
  <1>7. CallsInv'
    <2> SUFFICES ASSUME NEW c \in Calls
                 PROVE  /\ call'[c].step \in {"sent", "denied", "waiting", "resent", "deniedAgain"}
                             => call'[c].tab \in Tabs
                        /\ call'[c].step = "waiting" => Exchanging(call[c].tab)'
                        /\ executed'[c] = 0 \/ (executed'[c] = 1 /\ call'[c].step = "done")
      BY DEF CallsInv, CallsHavePages, ExecutedIsDone
    <2>1. CASE c \in Waiters(t)
      <3>1. executed[c] = 0 /\ call[c].tab = t /\ call[c] \in Call
        BY <2>1, <1>1 DEF Waiters, CallsInv, ExecutedIsDone
      <3>2. call'[c] \in {[call[c] EXCEPT !.step = "resent", !.token = stored'], Done}
        BY <1>5, <2>1
      <3>3. call'[c].step = "done" \/ (call'[c].step = "resent" /\ call'[c].tab = t)
        <4>1. CASE call'[c] = [call[c] EXCEPT !.step = "resent", !.token = stored']
          BY <4>1, <3>1 DEF Call
        <4>2. CASE call'[c] = Done
          BY <4>2 DEF Done
        <4> QED BY <3>2, <4>1, <4>2
      <3> QED BY <1>1, <3>1, <3>3
    <2>2. CASE c \notin Waiters(t)
      <3>1. call'[c] = call[c]
        BY <1>5, <2>2
      <3>2. call[c].step = "waiting" => Exchanging(call[c].tab)'
        BY <2>2, <3>1, <1>4 DEF Waiters, CallsInv, CallsHavePages, Exchanging
      <3> QED BY <1>1, <3>1, <3>2 DEF CallsInv, CallsHavePages, ExecutedIsDone
    <2> QED BY <2>1, <2>2
  <1>8. pair # None =>
          /\ refresh[pair] \in {"usable", "expired"} /\ Unsent(pair)
          /\ \A u \in Tabs : u # t => page[u].answer # pair
    BY DEF TokensInv, AnswerIsFresh
  <1>9. ExchangeHasToken' /\ StoredTokenIsExchangeable'
    BY <1>1, <1>2, <1>4, <1>8 DEF TokensInv, ExchangeHasToken, StoredTokenIsExchangeable,
      Exchanging, Unanswered
  <1>10. SenderIsExchanging'
    BY <1>1, <1>2, <1>8 DEF SenderIsExchanging, Unsent, Typed
  <1>11. UnissuedIsUnknown'
    BY <1>1, <1>2, <1>4, <1>8 DEF TokensInv, UnissuedIsUnknown, Unsent
  <1>12. AnswerIsFresh'
    <2> SUFFICES ASSUME NEW u \in Tabs, page'[u].answer # None
                 PROVE  /\ refresh'[page'[u].answer] \in {"usable", "expired"}
                        /\ Unsent(page[u].answer)'
                        /\ \A v \in Tabs : v # u => page'[v].answer # page'[u].answer
      BY DEF AnswerIsFresh
    <2>1. u # t /\ page'[u] = page[u] /\ page[u].answer # None
      BY <1>4
    <2>2. /\ refresh[page[u].answer] \in {"usable", "expired"} /\ Unsent(page[u].answer)
          /\ \A v \in Tabs : v # u => page[v].answer # page[u].answer
      BY <2>1 DEF TokensInv, AnswerIsFresh
    <2>3. Unsent(page[u].answer)'
      BY <2>1, <2>2, <1>1, <1>2, <1>4 DEF Unsent
    <2> QED BY <2>1, <2>2, <2>3, <1>1, <1>4
  <1> QED BY <1>1, <1>6, <1>7, <1>9, <1>10, <1>11, <1>12 DEF TokensInv, DetachedIsLost

\* A first 401 joins the exchange, starts one, or ends the session.
LEMMA HandleDeniedStep ==
  ASSUME SessInv, NEW c \in Calls, HandleDenied(c)
  PROVE  SessInv'
  <1> USE NoneIsNoPair DEF SessInv
  <1> DEFINE t == call[c].tab
  <1>1. /\ t \in Tabs /\ page[t] \in Page /\ page \in [Tabs -> Page]
        /\ call[c] \in Call /\ call \in [Calls -> Call] /\ executed[c] = 0
        /\ UNCHANGED <<access, refresh, executed, detached, lost, logins>>
    BY DEF HandleDenied, Typed, CallsInv, CallsHavePages, ExecutedIsDone
  <1>2. ASSUME stored' \in {stored, None}, call' = [call EXCEPT ![c] = Done], UNCHANGED sentBy,
               page' \in [Tabs -> Page], SameExchanges
        PROVE  SessInv'
    <2>1. Typed'
      BY <1>1, <1>2, DoneType DEF Typed
    <2>2. CallsInv'
      BY <1>1, <1>2, CallsKept DEF Done
    <2>3. TokensInv'
      BY <1>1, <1>2, TokensKept
    <2> QED BY <2>1, <2>2, <2>3
  <1>3. CASE page[t].inflight = "stale"
    <2>1. /\ stored' = None /\ call' = [call EXCEPT ![c] = Done] /\ UNCHANGED sentBy
          /\ page' = [page EXCEPT ![t] = AuthExpired(@)]
      BY <1>3 DEF HandleDenied, JoinsInflight
    <2>2. page' \in [Tabs -> Page]
      BY <1>1, <2>1, AuthExpiredType
    <2>3. SameExchanges
      BY <1>1, <2>1 DEF SameExchanges, AuthExpired, Page
    <2> QED BY <1>2, <2>1, <2>2, <2>3
  <1>4. CASE Exchanging(t)
    <2>1. call' = [call EXCEPT ![c].step = "waiting"] /\ UNCHANGED <<stored, page, sentBy>>
      BY <1>4 DEF HandleDenied, JoinsInflight, Exchanging, Unanswered
    <2>2. SameExchanges
      BY <2>1 DEF SameExchanges
    <2>3. [call[c] EXCEPT !.step = "waiting"] \in Call
      BY <1>1, CallSteps
    <2>4. Typed'
      BY <1>1, <2>1, <2>3 DEF Typed
    <2>5. CallsInv'
      BY <1>1, <1>4, <2>1 DEF CallsInv, CallsHavePages, ExecutedIsDone, Exchanging, Call
    <2>6. TokensInv'
      BY <1>1, <2>1, <2>2, TokensKept
    <2> QED BY <2>4, <2>5, <2>6
  <1>5. CASE page[t].inflight = "none" /\ stored = None
    <2>1. /\ call' = [call EXCEPT ![c] = Done] /\ UNCHANGED <<stored, sentBy>>
          /\ page' = [page EXCEPT ![t] = AuthExpired([@ EXCEPT !.inflight = "stale"])]
      BY <1>5 DEF HandleDenied, JoinsInflight
    <2>2. [page[t] EXCEPT !.inflight = "stale"] \in Page
      BY <1>1, PageSteps
    <2>3. page' \in [Tabs -> Page]
      BY <1>1, <2>1, <2>2, AuthExpiredType
    <2>4. /\ \A u \in Tabs : u # t => page'[u] = page[u]
          /\ page'[t].inflight = "stale"
          /\ page'[t].token = page[t].token /\ page'[t].answer = page[t].answer
      BY <1>1, <2>1, <2>2 DEF AuthExpired, Page
    <2>5. Typed'
      BY <1>1, <2>1, <2>3, DoneType DEF Typed
    <2>6. CallsInv'
      BY <1>1, <1>5, <2>1, <2>4 DEF CallsInv, CallsHavePages, ExecutedIsDone, Exchanging,
        Unanswered, Done
    <2>7. TokensInv'
      <3>1. /\ UNCHANGED <<stored, refresh, detached, lost, sentBy>>
            /\ \A u \in Tabs : page'[u].token = page[u].token /\ page'[u].answer = page[u].answer
        BY <1>1, <2>1, <2>4
      <3>2. ExchangeHasToken' /\ SenderIsExchanging' /\ StoredTokenIsExchangeable'
        BY <1>1, <1>5, <2>4, <3>1 DEF TokensInv, ExchangeHasToken, SenderIsExchanging,
          StoredTokenIsExchangeable, Exchanging, Unanswered
      <3>3. \A r \in Pairs : Unsent(r) => Unsent(r)'
        BY <3>1 DEF Unsent
      <3>4. UnissuedIsUnknown'
        BY <1>1, <3>1, <3>3 DEF TokensInv, UnissuedIsUnknown
      <3>5. AnswerIsFresh'
        <4>1. \A u \in Tabs : page[u].answer # None => page[u].answer \in Pairs
          BY <1>1 DEF Typed, Page
        <4> QED BY <1>1, <3>1, <3>3, <4>1 DEF TokensInv, AnswerIsFresh
      <3> QED BY <3>1, <3>2, <3>4, <3>5 DEF TokensInv, DetachedIsLost
    <2> QED BY <2>5, <2>6, <2>7
  <1>6. CASE page[t].inflight = "none" /\ stored # None
    <2>1. /\ call' = [call EXCEPT ![c].step = "waiting"]
          /\ page' = [page EXCEPT ![t].inflight = "sent", ![t].token = stored]
          /\ sentBy' = sentBy \cup {<<t, stored>>} /\ UNCHANGED stored
      BY <1>6 DEF HandleDenied, JoinsInflight
    <2>2. stored \in Pairs /\ page[t].answer = None
      BY <1>1, <1>6 DEF Typed, TokensInv, ExchangeHasToken
    <2>3. /\ \A u \in Tabs : u # t => page'[u] = page[u]
          /\ page'[t].inflight = "sent"
          /\ page'[t].token = stored /\ page'[t].answer = None
      BY <1>1, <2>1, <2>2 DEF Page
    <2>4. page' \in [Tabs -> Page] /\ call' \in [Calls -> Call]
      BY <1>1, <2>1, <2>2, PageSteps, CallSteps
    <2>5. Typed'
      BY <1>1, <2>1, <2>2, <2>4 DEF Typed
    <2>6. CallsInv'
      BY <1>1, <2>1, <2>3 DEF CallsInv, CallsHavePages, ExecutedIsDone, Exchanging, Unanswered, Call
    <2>7. ExchangeHasToken' /\ SenderIsExchanging' /\ StoredTokenIsExchangeable'
      BY <1>1, <2>1, <2>2, <2>3 DEF TokensInv, ExchangeHasToken, SenderIsExchanging,
        StoredTokenIsExchangeable, Exchanging, Unanswered
    <2>8. \A r \in Pairs : r # stored /\ Unsent(r) => Unsent(r)'
      BY <1>1, <2>1, <2>3 DEF Unsent
    <2>9. UnissuedIsUnknown' /\ AnswerIsFresh'
      <3>1. /\ UNCHANGED refresh
            /\ \A u \in Tabs : page'[u].answer = page[u].answer
            /\ \A u \in Tabs : page[u].answer # None => page[u].answer \in Pairs
        BY <1>1, <2>2, <2>3 DEF Typed, Page
      <3>2. \A r \in Pairs : Unsent(r) => Unsent(r)'
        BY <2>8 DEF Unsent
      <3>3. UnissuedIsUnknown'
        BY <1>1, <3>1, <3>2 DEF TokensInv, UnissuedIsUnknown
      <3>4. AnswerIsFresh'
        BY <1>1, <3>1, <3>2 DEF TokensInv, AnswerIsFresh
      <3> QED BY <3>3, <3>4
    <2> QED BY <1>1, <2>5, <2>6, <2>7, <2>9 DEF TokensInv, DetachedIsLost
  <1> QED BY <1>1, <1>3, <1>4, <1>5, <1>6 DEF Page, Exchange, Exchanging

\* A page load forgets the page's exchange and its commands.
LEMMA ReloadStep ==
  ASSUME SessInv, NEW t \in Tabs, Reload(t)
  PROVE  SessInv'
  <1> USE NoneIsNoPair DEF SessInv
  <1> DEFINE new == IF stored = None THEN LoginPage
                    ELSE [LoginPage EXCEPT !.at = "app", !.auth = "userinfo", !.asked = stored]
  <1>1. /\ page[t] \in Page /\ page \in [Tabs -> Page] /\ call \in [Calls -> Call]
        /\ page[t].token # None <=> Exchanging(t)
        /\ page' = [page EXCEPT ![t] = new]
        /\ detached' = detached \cup GivenUp(page[t])
        /\ lost' = lost \cup (IF Exchanging(t) THEN {page[t].token} ELSE {})
        /\ sentBy' = sentBy \ ({t} \X Pairs)
        /\ UNCHANGED <<stored, access, refresh, executed, logins>>
    BY DEF Reload, Typed, TokensInv, ExchangeHasToken, Exchanging
  <1>2. new \in Page /\ new.inflight = "none" /\ new.token = None /\ new.answer = None
    BY LoginPageType DEF Typed, LoginPage
  <1>3. /\ \A u \in Tabs : u # t => page'[u] = page[u]
        /\ page'[t].inflight = "none" /\ page'[t].token = None /\ page'[t].answer = None
    BY <1>1, <1>2
  <1>0. /\ detached' \subseteq Pairs \X Unanswered
        /\ \A d \in detached' : d \in detached \/ (d[1] = page[t].token /\ Exchanging(t))
    BY <1>1, GivenUpType DEF Typed, Exchanging
  <1>4. \A c \in Calls :
          IF call[c].tab # t THEN call'[c] = call[c]
          ELSE call'[c] \in {[call[c] EXCEPT !.step = "gone", !.tab = None], Done}
               /\ (executed[c] = 1 => call'[c] = Done)
    <2> SUFFICES ASSUME NEW c \in Calls
                 PROVE  IF call[c].tab # t THEN call'[c] = call[c]
                        ELSE call'[c] \in {[call[c] EXCEPT !.step = "gone", !.tab = None], Done}
                             /\ (executed[c] = 1 => call'[c] = Done)
      OBVIOUS
    <2>1. call'[c] = IF call[c].tab # t THEN call[c]
                     ELSE IF call[c].step \in {"sent", "resent"}
                          THEN [call[c] EXCEPT !.step = "gone", !.tab = None]
                          ELSE Done
      BY DEF Reload
    <2>2. executed[c] = 1 => call[c].step = "done"
      BY DEF CallsInv, ExecutedIsDone
    <2> QED BY <2>1, <2>2
  <1>5. Typed'
    <2>1. call' \in [Calls -> Call]
      <3>1. \A c \in Calls : call'[c] \in Call
        BY <1>1, <1>4, CallSteps, DoneType
      <3> QED BY <3>1 DEF Reload
    <2>2. lost' \subseteq Pairs
      BY <1>1 DEF Typed, Page
    <2>3. page' \in [Tabs -> Page]
      BY <1>1, <1>2
    <2> QED BY <1>0, <1>1, <2>1, <2>2, <2>3 DEF Typed
  <1>6. CallsInv'
    <2> SUFFICES ASSUME NEW c \in Calls
                 PROVE  /\ call'[c].step \in {"sent", "denied", "waiting", "resent", "deniedAgain"}
                             => call'[c].tab \in Tabs
                        /\ call'[c].step = "waiting" => Exchanging(call[c].tab)'
                        /\ executed'[c] = 0 \/ (executed'[c] = 1 /\ call'[c].step = "done")
      BY DEF CallsInv, CallsHavePages, ExecutedIsDone
    <2>1. CASE call[c].tab = t
      <3>1. call'[c].step \in {"gone", "done"} /\ (executed[c] = 1 => call'[c].step = "done")
        <4>1. call[c] \in Call
          BY <1>1
        <4>2. /\ call'[c] \in {[call[c] EXCEPT !.step = "gone", !.tab = None], Done}
              /\ executed[c] = 1 => call'[c] = Done
          BY <2>1, <1>4
        <4>3. CASE call'[c] = [call[c] EXCEPT !.step = "gone", !.tab = None]
          <5>1. call'[c].step = "gone"
            BY <4>1, <4>3 DEF Call
          <5>2. executed[c] # 1
            BY <4>2, <5>1 DEF Done
          <5> QED BY <5>1, <5>2
        <4>4. CASE call'[c] = Done
          BY <4>4 DEF Done
        <4> QED BY <4>2, <4>3, <4>4
      <3> QED BY <3>1, <1>1 DEF CallsInv, ExecutedIsDone
    <2>2. CASE call[c].tab # t
      BY <2>2, <1>1, <1>3, <1>4, ZenonT(30) DEF CallsInv, CallsHavePages, ExecutedIsDone,
        Exchanging, Unanswered
    <2> QED BY <2>1, <2>2
  <1>7. ExchangeHasToken' /\ SenderIsExchanging'
    BY <1>1, <1>3 DEF TokensInv, ExchangeHasToken, SenderIsExchanging, Exchanging, Unanswered, Typed
  <1>8. \A r \in Pairs : Unsent(r) => Unsent(r)'
    BY <1>0, <1>1, <1>3 DEF Unsent
  <1>9. UnissuedIsUnknown' /\ AnswerIsFresh'
    BY <1>1, <1>3, <1>8 DEF TokensInv, UnissuedIsUnknown, AnswerIsFresh, Typed, Page
  <1>10. DetachedIsLost' /\ StoredTokenIsExchangeable'
    BY <1>0, <1>1, <1>3 DEF TokensInv, DetachedIsLost, StoredTokenIsExchangeable, Exchanging
  <1> QED BY <1>5, <1>6, <1>7, <1>9, <1>10 DEF TokensInv

---------------------------------------------------------------------------
(* The specification                                                       *)

\* Every action of the console and of its backend preserves the invariant.
LEMMA InvNext == SessInv /\ [SessNext]_vars => SessInv'
<1> SUFFICES ASSUME SessInv, [SessNext]_vars PROVE SessInv'
  OBVIOUS
<1>1. ASSUME NEW p \in Pairs,
             \/ ExpireAccess(p) \/ ExpireRefresh(p)
             \/ FindDetached(p) \/ ConsumeDetached(p) \/ SaveDetached(p)
      PROVE  SessInv'
  BY <1>1, ExpireAccessStep, ExpireRefreshStep, FindDetachedStep, ConsumeDetachedStep,
    SaveDetachedStep
<1>2. ASSUME NEW c \in Calls,
             Serve(c) \/ FetchFails(c) \/ HandleDenied(c) \/ HandleDeniedAgain(c)
      PROVE  SessInv'
  BY <1>2, ServeStep, FetchFailsStep, HandleDeniedStep, HandleDeniedAgainStep
<1>3. ASSUME NEW t \in Tabs, NEW c \in Calls, Send(t, c)
      PROVE  SessInv'
  BY <1>3, SendStep
<1>4. ASSUME NEW t \in Tabs,
             \/ FindRefreshToken(t) \/ ConsumeRefreshToken(t) \/ SaveAuthorization(t)
             \/ RefreshSettles(t) \/ RefreshFails(t)
      PROVE  SessInv'
  BY <1>4, FindRefreshTokenStep, ConsumeRefreshTokenStep, SaveAuthorizationStep,
    RefreshSettlesStep, RefreshFailsStep
<1>5. ASSUME NEW t \in Tabs,
             \/ LoginAccepted(t) \/ LoginRefused(t)
             \/ UserInfoAnswered(t) \/ Logout(t) \/ Reload(t)
      PROVE  SessInv'
  BY <1>5, LoginAcceptedStep, LoginRefusedStep, UserInfoAnsweredStep, LogoutStep, ReloadStep
<1>6. CASE UNCHANGED vars
  <2>1. SameExchanges
    BY <1>6 DEF vars, SameExchanges
  <2>2. CallsInv' /\ TokensInv'
    BY <1>6, <2>1, CallsKept, TokensKept DEF vars
  <2>3. Typed'
    BY <1>6 DEF vars, SessInv, Typed
  <2> QED BY <2>2, <2>3 DEF SessInv
<1> QED BY <1>1, <1>2, <1>3, <1>4, <1>5, <1>6 DEF SessNext

\* The invariant holds in every state the console's tabs can reach together.
THEOREM SessionInvariant == SessSpec => []SessInv
<1>1. SessInit => SessInv
  BY InvInit
<1>2. SessInv /\ [SessNext]_vars => SessInv'
  BY InvNext
<1> QED BY <1>1, <1>2, PTL DEF SessSpec

\* Tokens, pages and commands keep their types, and a command waits only for
\* an exchange that has not settled.
THEOREM SessionTypes == SessSpec => []SessTypeOK
<1>1. SessInv => SessTypeOK
  BY DEF SessInv, Typed, CallsInv, CallsHavePages, SessTypeOK
<1> QED BY <1>1, SessionInvariant, PTL

\* However many tabs share the tokens, a command that adminFetch repeats after
\* a 401 is executed once at most.
THEOREM CommandsExecuteOnce == SessSpec => []ExecutedAtMostOnce
<1>1. SessInv => ExecutedAtMostOnce
  BY DEF SessInv, CallsInv, ExecutedIsDone, ExecutedAtMostOnce
<1> QED BY <1>1, SessionInvariant, PTL

\* The stored refresh token is good, over age, being exchanged, or one whose
\* answer was lost: no tab stores a token another tab has already used up.
THEOREM StoredTokenWorks == SessSpec => []StoredTokenIsExchangeable
<1>1. SessInv => StoredTokenIsExchangeable
  BY DEF SessInv, TokensInv
<1> QED BY <1>1, SessionInvariant, PTL

\* Once the backend has found a page's refresh token, the page's next exchange
\* has to wait until this one is settled.
LEMMA ExchangeMovesOn ==
  ASSUME SessInv, [SessNext]_vars, NEW t \in Tabs,
         page[t].inflight \in {"found", "consumed", "answered"}
  PROVE  page'[t].inflight # "sent"
<1>1. page \in [Tabs -> Page] /\ \A u \in Tabs : page[u] \in Page
  BY DEF SessInv, Typed
<1> DEFINE Quiet == page'[t].inflight # "sent"
<1>2. CASE page'[t] = page[t]
  BY <1>2
<1>3. ASSUME NEW u \in Tabs, NEW r, page' = [page EXCEPT ![u] = r], u # t
      PROVE  Quiet
  BY <1>1, <1>3
<1>4. ASSUME NEW c \in Calls,
             Serve(c) \/ FetchFails(c) \/ HandleDenied(c) \/ HandleDeniedAgain(c)
      PROVE  Quiet
  <2>1. CASE Serve(c) \/ FetchFails(c)
    BY <2>1 DEF Serve, FetchFails
  <2>2. CASE HandleDeniedAgain(c)
    <3>1. call[c].tab \in Tabs
      BY <2>2 DEF HandleDeniedAgain, SessInv, CallsInv, CallsHavePages
    <3> QED BY <1>1, <2>2, <3>1, AuthExpiredKeepsExchange DEF HandleDeniedAgain
  <2>3. CASE HandleDenied(c)
    <3>1. call[c].tab \in Tabs
      BY <2>3 DEF HandleDenied, SessInv, CallsInv, CallsHavePages
    <3>2. CASE call[c].tab = t
      BY <2>3, <3>2 DEF HandleDenied, JoinsInflight
    <3>3. CASE call[c].tab # t
      BY <1>1, <2>3, <3>1, <3>3 DEF HandleDenied
    <3> QED BY <3>2, <3>3
  <2> QED BY <1>4, <2>1, <2>2, <2>3
<1>5. ASSUME NEW u \in Tabs,
             \/ FindRefreshToken(u) \/ ConsumeRefreshToken(u) \/ SaveAuthorization(u)
             \/ RefreshSettles(u) \/ RefreshFails(u)
      PROVE  Quiet
  <2>1. CASE u # t
    BY <1>1, <1>5, <2>1 DEF FindRefreshToken, ConsumeRefreshToken, SaveAuthorization,
      RefreshSettles, RefreshFails
  <2>2. CASE u = t /\ (FindRefreshToken(u) \/ SaveAuthorization(u) \/ RefreshFails(u))
    <3>1. page[t].inflight # "sent" /\ page[t] \in Page
      BY <1>1
    <3>2. page'[t] \in {Answered(page[t], p) : p \in Pairs \cup {None}}
      BY <1>1, <2>2, <3>1 DEF FindRefreshToken, SaveAuthorization, RefreshFails
    <3>3. \A p : Answered(page[t], p).inflight = "answered"
      BY <3>1 DEF Answered, Page
    <3> QED BY <3>2, <3>3
  <2>4. CASE u = t /\ ConsumeRefreshToken(u)
    BY <1>1, <2>4 DEF ConsumeRefreshToken, Page
  <2>3. CASE u = t /\ RefreshSettles(u)
    <3> DEFINE idle == [page[t] EXCEPT !.inflight = "none", !.token = None, !.answer = None]
    <3>1. idle \in Page /\ idle.inflight = "none"
      <4>1. page[t] \in Page
        BY <1>1
      <4>2. idle \in Page
        BY <4>1, PageSteps
      <4>3. idle.inflight = "none"
        BY <4>1 DEF Page
      <4> QED BY <4>2, <4>3
    <3>2. page'[t] \in {idle, AuthExpired(idle)}
      BY <1>1, <2>3 DEF RefreshSettles
    <3> HIDE DEF idle
    <3> QED BY <3>1, <3>2, AuthExpiredKeepsExchange
  <2> QED BY <1>5, <2>1, <2>2, <2>3, <2>4
<1>6. ASSUME NEW u \in Tabs,
             \/ LoginAccepted(u) \/ LoginRefused(u)
             \/ UserInfoAnswered(u) \/ Logout(u) \/ Reload(u)
      PROVE  Quiet
  <2>1. CASE LoginAccepted(u) \/ LoginRefused(u) \/ Logout(u)
    BY <1>1, <2>1 DEF LoginAccepted, LoginRefused, Logout, Page
  <2>2. CASE UserInfoAnswered(u)
    <3>1. \/ page' = [page EXCEPT ![u] = [@ EXCEPT !.at = "app", !.auth = "loaded", !.asked = None]]
          \/ page' = [page EXCEPT ![u] = [@ EXCEPT !.at = "login", !.auth = "none", !.asked = None]]
      BY <1>1, <2>2 DEF UserInfoAnswered
    <3>2. ASSUME NEW a, NEW b,
                 page' = [page EXCEPT ![u] = [@ EXCEPT !.at = a, !.auth = b, !.asked = None]]
          PROVE  page'[t].inflight = page[t].inflight
      BY <1>1, <3>2 DEF Page
    <3> QED BY <3>1, <3>2
  <2>3. CASE Reload(u)
    BY <1>1, <2>3, LoginPageType DEF Reload, LoginPage
  <2> QED BY <1>6, <2>1, <2>2, <2>3
<1>7. ASSUME NEW u \in Tabs, NEW c \in Calls, Send(u, c)
      PROVE  Quiet
  BY <1>7 DEF Send
<1>8. ASSUME NEW p \in Pairs,
             \/ ExpireAccess(p) \/ ExpireRefresh(p)
             \/ FindDetached(p) \/ ConsumeDetached(p) \/ SaveDetached(p)
      PROVE  Quiet
  BY <1>8 DEF ExpireAccess, ExpireRefresh, FindDetached, ConsumeDetached, SaveDetached, Detached
<1>9. CASE UNCHANGED vars
  BY <1>9 DEF vars
<1> QED BY <1>4, <1>5, <1>6, <1>7, <1>8, <1>9 DEF SessNext

\* refreshTokenOnce is single-flight: whatever order the refusals come in, a
\* page never sends the same refresh token a second time.
THEOREM PagesSendTokensOnce == SessSpec => OneExchangePerToken
<1> DEFINE Step == \A c \in Calls :
             (call[c].step = "denied" /\ page'[call[c].tab].inflight = "sent"
                /\ page[call[c].tab].inflight # "sent")
             => <<call[c].tab, stored>> \notin sentBy
<1>1. SessInv /\ [SessNext]_vars => [Step]_vars
  <2> SUFFICES ASSUME SessInv, [SessNext]_vars, NEW c \in Calls,
                      call[c].step = "denied",
                      page'[call[c].tab].inflight = "sent",
                      page[call[c].tab].inflight # "sent",
                      <<call[c].tab, stored>> \in sentBy
               PROVE  FALSE
    OBVIOUS
  <2> DEFINE t == call[c].tab
  <2>1. t \in Tabs /\ page[t].inflight \in {"found", "consumed", "answered"}
    BY DEF SessInv, CallsInv, CallsHavePages, TokensInv, SenderIsExchanging, Exchanging, Unanswered
  <2>2. page \in [Tabs -> Page] /\ page[t] \in Page
    BY <2>1 DEF SessInv, Typed
  <2> QED BY <2>1, <2>2, ExchangeMovesOn
<1> QED BY <1>1, SessionInvariant, PTL DEF SessSpec, OneExchangePerToken
=============================================================================
