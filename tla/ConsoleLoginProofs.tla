------------------------- MODULE ConsoleLoginProofs -------------------------
(***************************************************************************)
(* Theorems about ConsoleLogin, for any number of logins and timers.       *)
(***************************************************************************)
EXTENDS ConsoleLogin, TLAPS

\* Whatever crosses: a navigation leads away from the page that is shown, only
\* a login is taken home, and what awaits one is a login that runs.  Token and
\* user are set, and reset, together.
NavIsAwaited ==
  /\ nav # NoNav => nav.to \in {"login", "home"} \ {shownPage}
  /\ nav.by # Nobody => stage[nav.by] = "redirect"
  /\ nav.to = "home" => nav.by # Nobody
  /\ userInfo = token

\* Logins that do not cross run one at a time, on the login page.
OneAtATime ==
  /\ \A a, b \in InFlight : a = b
  /\ InFlight # {} => shownPage = "login" /\ loginLoading

\* The storage is ahead of the store while the user is asked for; after that
\* the two agree, while the login waits for its page and when it has it.
StoreIsWhole ==
  /\ token # Nobody \/ shownPage = "home" => token = storedToken
  /\ \A a \in Attempts :
       /\ stage[a] = "login" => token = Nobody
       /\ stage[a] = "userInfo" => token = Nobody /\ storedToken = a
       /\ stage[a] = "redirect" => token = a

LoginInv == NavIsAwaited /\ (~crossed => OneAtATime /\ StoreIsWhole)

\* Types are preserved by whatever happens to the form, its requests, its
\* navigations and its messages.
LEMMA TypesNext == LoginTypeOK /\ [LoginNext]_loginVars => LoginTypeOK'
<1> SUFFICES ASSUME LoginTypeOK, [LoginNext]_loginVars PROVE LoginTypeOK'
  OBVIOUS
<1> USE DEF LoginTypeOK, authVars, storeVars
<1>0. /\ displayed \in [Messages -> Nat] /\ errTimers \in 0..MaxTimers /\ errMsgStack \subseteq Messages
      /\ stage \in [Attempts -> Stages] /\ nav.by \in Attempts \cup {Nobody}
      /\ nav # NoNav => nav.to \in {"login", "home"}
  BY DEF Navs, NoNav
<1>a. ASSUME NEW by \in Attempts \cup {Nobody}, RouterPush(by)
      PROVE  nav' \in Navs \cup {NoNav}
  BY <1>a DEF RouterPush, Navs, Landing
<1>c. ASSUME ResetStore
      PROVE  /\ {storedToken', token', userInfo'} \subseteq Attempts \cup {Nobody}
             /\ shownPage' = shownPage /\ crossed' \in BOOLEAN
             /\ nav' \in Navs \cup {NoNav}
  <2>1. UNCHANGED nav \/ RouterPush(Nobody)
    BY <1>c DEF ResetStore
  <2> QED BY <1>a, <1>c, <2>1 DEF ResetStore, ClearAuthStorage
<1>1. ASSUME NEW a \in Attempts, NEW enter \in BOOLEAN, Submit(a, enter)
      PROVE  LoginTypeOK'
  BY <1>1 DEF Submit, messageVars, Stages
<1>2. ASSUME NEW a \in Attempts, LoginAccepted(a)
      PROVE  LoginTypeOK'
  BY <1>2 DEF LoginAccepted, TokenLater, messageVars, Stages
<1>3. ASSUME NEW m \in Messages, ShowErrorMsg(m)
      PROVE  errMsgStack' \subseteq Messages /\ displayed' \in [Messages -> Nat] /\ UNCHANGED errTimers
  <2>1. displayed[m] + 1 \in Nat
    BY <1>0
  <2> QED BY <1>0, <1>3, <2>1 DEF ShowErrorMsg
<1>4. ASSUME NEW a \in Attempts, LoginRefused(a)
      PROVE  LoginTypeOK'
  <2>1. PICK m \in Messages : ShowErrorMsg(m)
    BY <1>4 DEF LoginRefused, FlatError, Messages
  <2> QED BY <1>c, <1>3, <1>4, <2>1 DEF LoginRefused, Over, Stages
<1>5. ASSUME NEW a \in Attempts, UserInfoAnswered(a)
      PROVE  LoginTypeOK'
  BY <1>a, <1>5 DEF UserInfoAnswered, Over, messageVars, Stages
<1>6. ASSUME NEW a \in Attempts, UserInfoRefused(a)
      PROVE  LoginTypeOK'
  <2>1. ShowErrorMsg("request failed") /\ "request failed" \in Messages
    BY <1>6 DEF UserInfoRefused, Messages
  <2> QED BY <1>3, <1>6, <2>1 DEF UserInfoRefused, Over, Stages
<1>7. ASSUME NEW m \in Messages, MessageLeaves(m)
      PROVE  LoginTypeOK'
  <2>1. displayed[m] \in Nat /\ displayed[m] > 0
    BY <1>0, <1>7 DEF MessageLeaves
  <2>2. displayed[m] - 1 \in Nat
    BY <2>1
  <2>3. displayed' \in [Messages -> Nat]
    BY <1>0, <1>7, <2>2 DEF MessageLeaves
  <2>4. errTimers' \in 0..MaxTimers
    BY <1>0, <1>7, LoginConstants DEF MessageLeaves
  <2> QED BY <1>7, <2>3, <2>4 DEF MessageLeaves, Unstacked
<1>8. CASE EmptyStack
  <2>1. errTimers' \in 0..MaxTimers
    BY <1>0, <1>8, LoginConstants DEF EmptyStack
  <2> QED BY <1>8, <2>1 DEF EmptyStack
<1>9. CASE Logout
  BY <1>c, <1>9 DEF Logout, messageVars
<1>10. CASE LoginOrRegister
  BY <1>a, <1>10 DEF LoginOrRegister, messageVars
<1>11. CASE RedirectEnds
  BY <1>0, <1>11 DEF RedirectEnds, EndsFor, messageVars, Stages
<1>12. CASE RedirectFails
  BY <1>0, <1>12 DEF RedirectFails, messageVars, Stages
<1>13. ASSUME NEW a \in Attempts, GivenUp(a)
       PROVE  LoginTypeOK'
  BY <1>13 DEF GivenUp, messageVars, Stages
<1>14. CASE UNCHANGED loginVars
  BY <1>14 DEF loginVars
<1> QED BY <1>1, <1>2, <1>4, <1>5, <1>6, <1>7, <1>8, <1>9, <1>10, <1>11, <1>12, <1>13, <1>14
  DEF LoginNext

\* Before the first login everything has its type.
LEMMA TypesInit == LoginInit => LoginTypeOK
<1> SUFFICES ASSUME LoginInit PROVE LoginTypeOK
  OBVIOUS
<1>1. displayed \in [Messages -> Nat] /\ stage \in [Attempts -> Stages]
  BY DEF LoginInit, Stages
<1>2. errTimers \in 0..MaxTimers
  BY LoginConstants DEF LoginInit
<1> QED BY <1>1, <1>2 DEF LoginInit, LoginTypeOK

\* The login form, its store and its messages keep their types.
THEOREM LoginTypes == LoginSpec => []LoginTypeOK
<1> QED BY TypesInit, TypesNext, PTL DEF LoginSpec

\* Navigations stay awaited, and token and user together, whatever crosses.
LEMMA AwaitedNext == LoginTypeOK /\ NavIsAwaited /\ [LoginNext]_loginVars => NavIsAwaited'
<1> SUFFICES ASSUME LoginTypeOK, NavIsAwaited, [LoginNext]_loginVars PROVE NavIsAwaited'
  OBVIOUS
<1> USE LoginConstants DEF NavIsAwaited, authVars, storeVars
<1>0. /\ stage \in [Attempts -> Stages] /\ shownPage \in {"login", "home"}
      /\ nav \in Navs \cup {NoNav}
  BY DEF LoginTypeOK
<1>1. NoNav.to = "none" /\ NoNav.by = Nobody
  BY DEF NoNav
<1>2. ASSUME NEW a \in Attempts, NEW s \in Stages, stage[a] # "redirect",
             stage' = [stage EXCEPT ![a] = s]
      PROVE  nav.by # Nobody => stage'[nav.by] = "redirect"
  BY <1>0, <1>1, <1>2 DEF Navs
<1>3. ASSUME NEW a \in Attempts, NEW enter \in BOOLEAN, Submit(a, enter)
      PROVE  NavIsAwaited'
  BY <1>2, <1>3 DEF Submit, Stages
<1>4. ASSUME NEW a \in Attempts, LoginAccepted(a)
      PROVE  NavIsAwaited'
  BY <1>2, <1>4 DEF LoginAccepted, TokenLater, Stages
<1>5. ASSUME NEW by \in Attempts \cup {Nobody}, RouterPush(by)
      PROVE  /\ nav' = NoNav \/ nav' = [to |-> Landing(storedToken'), by |-> by]
             /\ nav' # NoNav => nav'.to \in {"login", "home"} \ {shownPage} /\ nav'.by = by
             /\ nav'.to = "home" => storedToken' # Nobody
  BY <1>1, <1>5 DEF RouterPush, Landing
<1>6. ASSUME ResetStore, nav.by # Nobody => stage'[nav.by] = "redirect"
      PROVE  NavIsAwaited'
  <2>1. CASE UNCHANGED nav
    BY <1>6, <2>1 DEF ResetStore
  <2>2. CASE RouterPush(Nobody)
    BY <1>1, <1>5, <1>6, <2>2 DEF ResetStore, ClearAuthStorage
  <2> QED BY <1>6, <2>1, <2>2 DEF ResetStore
<1>7. ASSUME NEW a \in Attempts, LoginRefused(a)
      PROVE  NavIsAwaited'
  BY <1>2, <1>6, <1>7 DEF LoginRefused, Over, Stages
<1>8. ASSUME NEW a \in Attempts, UserInfoAnswered(a)
      PROVE  NavIsAwaited'
  <2>1. CASE nav' = NoNav
    BY <1>1, <1>8, <2>1 DEF UserInfoAnswered
  <2>2. CASE nav' # NoNav
    <3>1. stage'[a] = "redirect"
      BY <1>0, <1>8, <2>2 DEF UserInfoAnswered
    <3> QED BY <1>5, <1>8, <2>2, <3>1 DEF UserInfoAnswered
  <2> QED BY <2>1, <2>2
<1>9. ASSUME NEW a \in Attempts, UserInfoRefused(a)
      PROVE  NavIsAwaited'
  BY <1>2, <1>9 DEF UserInfoRefused, Over, Stages
<1>10. CASE Logout
  BY <1>6, <1>10 DEF Logout
<1>11. CASE LoginOrRegister
  BY <1>1, <1>5, <1>11 DEF LoginOrRegister
<1>12. CASE RedirectEnds
  BY <1>1, <1>12 DEF RedirectEnds
<1>13. CASE RedirectFails
  BY <1>1, <1>13 DEF RedirectFails
<1>14. ASSUME NEW a \in Attempts, GivenUp(a)
       PROVE  NavIsAwaited'
  BY <1>0, <1>1, <1>14 DEF GivenUp, Navs
<1>15. CASE UNCHANGED <<stage, authVars>>
  BY <1>15
<1>16. ASSUME NEW m \in Messages, MessageLeaves(m)
       PROVE  UNCHANGED <<stage, authVars>>
  BY <1>16 DEF MessageLeaves
<1> QED BY <1>3, <1>4, <1>7, <1>8, <1>9, <1>10, <1>11, <1>12, <1>13, <1>14, <1>15, <1>16
  DEF LoginNext, EmptyStack, loginVars

\* No step of a login, a logout or a navigation breaks the agreement of store
\* and storage, as long as no login crosses another; a reset that finds no
\* login running establishes it.
LEMMA LoginInvNext == LoginTypeOK /\ LoginInv /\ [LoginNext]_loginVars => LoginInv'
<1> SUFFICES ASSUME LoginTypeOK, LoginInv, [LoginNext]_loginVars, ~crossed'
             PROVE  OneAtATime' /\ StoreIsWhole'
  BY AwaitedNext DEF LoginInv
<1> USE LoginConstants DEF OneAtATime, StoreIsWhole, InFlight, Running, authVars, storeVars
<1>0. /\ stage \in [Attempts -> Stages] /\ loginLoading \in BOOLEAN
      /\ shownPage \in {"login", "home"} /\ nav \in Navs \cup {NoNav}
      /\ ~crossed => OneAtATime /\ StoreIsWhole
      /\ NavIsAwaited
  BY DEF LoginTypeOK, LoginInv
<1>1. ASSUME NEW a \in Attempts, NEW enter \in BOOLEAN, Submit(a, enter)
      PROVE  OneAtATime' /\ StoreIsWhole'
  <2>1. ~crossed /\ InFlight = {} /\ token = Nobody /\ stage' = [stage EXCEPT ![a] = "login"]
    BY <1>1 DEF Submit
  <2>2. \A b \in Attempts : b # a => stage'[b] \notin Running
    BY <1>0, <2>1
  <2>3. stage'[a] = "login"
    BY <1>0, <2>1
  <2> QED BY <1>0, <1>1, <2>1, <2>2, <2>3 DEF Submit
<1>2. ASSUME NEW a \in Attempts, LoginAccepted(a)
      PROVE  OneAtATime' /\ StoreIsWhole'
  BY <1>0, <1>2 DEF LoginAccepted, TokenLater
<1>3. ASSUME NEW a \in Attempts, ~crossed, stage[a] \in Running,
             stage' = [stage EXCEPT ![a] = "over"]
      PROVE  \A b \in Attempts : stage'[b] \notin Running
  BY <1>0, <1>3
<1>4. ASSUME ResetStore, \A a \in Attempts : stage'[a] \notin Running
      PROVE  OneAtATime' /\ StoreIsWhole'
  BY <1>4 DEF ResetStore, ClearAuthStorage
<1>5. ASSUME NEW a \in Attempts, LoginRefused(a)
      PROVE  OneAtATime' /\ StoreIsWhole'
  <2>1. CASE \A b \in Attempts : stage'[b] \notin Running
    BY <1>4, <1>5, <2>1 DEF LoginRefused
  <2>2. CASE \E b \in Attempts : stage'[b] \in Running
    <3>1. ~crossed
      BY <1>5, <2>2 DEF LoginRefused, ResetStore
    <3> QED BY <1>3, <1>5, <2>2, <3>1 DEF LoginRefused, Over
  <2> QED BY <2>1, <2>2
<1>6. ASSUME NEW a \in Attempts, UserInfoAnswered(a)
      PROVE  OneAtATime' /\ StoreIsWhole'
  <2>1. ~crossed /\ storedToken = a /\ shownPage = "login" /\ loginLoading
    BY <1>0, <1>6 DEF UserInfoAnswered
  <2>2. nav' = [to |-> "home", by |-> a]
    BY <1>6, <2>1 DEF UserInfoAnswered, RouterPush, Landing
  <2>3. stage' = [stage EXCEPT ![a] = "redirect"] /\ UNCHANGED loginLoading
    BY <1>6, <2>2 DEF UserInfoAnswered, NoNav
  <2> QED BY <1>0, <1>6, <2>1, <2>3 DEF UserInfoAnswered
<1>7. ASSUME NEW a \in Attempts, UserInfoRefused(a)
      PROVE  OneAtATime' /\ StoreIsWhole'
  <2>1. \A b \in Attempts : stage'[b] \notin Running
    BY <1>3, <1>7 DEF UserInfoRefused, Over
  <2> QED BY <1>0, <1>7, <2>1 DEF UserInfoRefused
<1>8. CASE Logout
  <2>1. CASE \A b \in Attempts : stage'[b] \notin Running
    BY <1>4, <1>8, <2>1 DEF Logout
  <2>2. CASE \E b \in Attempts : stage'[b] \in Running
    <3>1. ~crossed
      BY <1>8, <2>2 DEF Logout, ResetStore
    <3> QED BY <1>0, <1>8, <2>2, <3>1 DEF Logout
  <2> QED BY <2>1, <2>2
<1>9. CASE LoginOrRegister
  BY <1>0, <1>9 DEF LoginOrRegister
<1>10. ASSUME nav # NoNav, nav' = NoNav,
              nav.by = Nobody => UNCHANGED stage,
              nav.by # Nobody => stage' = [stage EXCEPT ![nav.by] = "over"],
              UNCHANGED <<storeVars, crossed>>, shownPage' \in {shownPage, nav.to},
              InFlight' # {} => loginLoading' = loginLoading
       PROVE  OneAtATime' /\ StoreIsWhole'
  <2>1. ~crossed
    BY <1>10
  <2>2. CASE nav.by = Nobody
    <3>1. nav.to = "login" /\ shownPage = "home" /\ InFlight = {}
      BY <1>0, <1>10, <2>1, <2>2 DEF NavIsAwaited
    <3>2. UNCHANGED stage
      BY <1>10, <2>2
    <3> QED BY <1>0, <1>10, <2>1, <3>1, <3>2
  <2>3. CASE nav.by # Nobody
    <3>1. nav.by \in Attempts /\ stage[nav.by] = "redirect"
      BY <1>0, <2>3 DEF NavIsAwaited, Navs, NoNav
    <3>2. \A b \in Attempts : stage'[b] \notin Running
      BY <1>3, <1>10, <2>1, <2>3, <3>1
    <3>3. token = nav.by /\ token = storedToken
      BY <1>0, <2>1, <3>1
    <3> QED BY <1>10, <3>2, <3>3
  <2> QED BY <2>2, <2>3
<1>11. CASE RedirectEnds
  <2>1. nav.by # Nobody => InFlight' = {}
    BY <1>0, <1>3, <1>11 DEF RedirectEnds, EndsFor, NavIsAwaited, Navs, NoNav
  <2> QED BY <1>10, <1>11, <2>1 DEF RedirectEnds, EndsFor
<1>12. CASE RedirectFails
  BY <1>10, <1>12 DEF RedirectFails
<1>13. ASSUME NEW a \in Attempts, GivenUp(a)
       PROVE  OneAtATime' /\ StoreIsWhole'
  <2>1. \A b \in Attempts : stage'[b] \notin Running
    BY <1>3, <1>13 DEF GivenUp
  <2> QED BY <1>0, <1>13, <2>1 DEF GivenUp
<1>14. CASE UNCHANGED <<stage, loginLoading, authVars, crossed>>
  BY <1>0, <1>14
<1>15. ASSUME NEW m \in Messages, MessageLeaves(m)
       PROVE  UNCHANGED <<stage, loginLoading, authVars, crossed>>
  BY <1>15 DEF MessageLeaves
<1> QED BY <1>1, <1>2, <1>5, <1>6, <1>7, <1>8, <1>9, <1>11, <1>12, <1>13, <1>14, <1>15
  DEF LoginNext, EmptyStack, loginVars

\* Token and user are one login's, whatever crosses.  As long as no login has
\* crossed another since the last reset, who is past the login page or on the
\* way there is the user of the stored token, and a form that does not load
\* has no login running.
THEOREM LoginsAreWhole == LoginSpec => []LoginIsWhole
<1>1. LoginInit => LoginInv
  BY DEF LoginInit, LoginInv, NavIsAwaited, NoNav, OneAtATime, StoreIsWhole, InFlight, Running
<1>2. LoginTypeOK /\ LoginInv => LoginIsWhole
  <2> SUFFICES ASSUME LoginTypeOK, LoginInv PROVE LoginIsWhole
    OBVIOUS
  <2>1. nav.by # Nobody => nav.by \in Attempts
    BY DEF LoginTypeOK, Navs, NoNav
  <2>2. ~crossed /\ nav.to = "home" => token # Nobody
    BY <2>1, LoginConstants DEF LoginInv, NavIsAwaited, StoreIsWhole
  <2> QED BY <2>2 DEF LoginTypeOK, LoginInv, NavIsAwaited, OneAtATime, StoreIsWhole, LoginIsWhole
<1> QED BY <1>1, <1>2, TypesInit, TypesNext, LoginInvNext, PTL DEF LoginSpec

\* A message leaves the stack of showErrorMsg with its last text on the screen.
LEMMA MessagesNext == LoginTypeOK /\ ErrorsAreSeen /\ [LoginNext]_loginVars => ErrorsAreSeen'
<1> SUFFICES ASSUME LoginTypeOK, ErrorsAreSeen, [LoginNext]_loginVars PROVE ErrorsAreSeen'
  OBVIOUS
<1>0. displayed \in [Messages -> Nat] /\ errMsgStack \subseteq Messages
  BY DEF LoginTypeOK
<1>1. ASSUME NEW m \in Messages, ShowErrorMsg(m)
      PROVE  ErrorsAreSeen'
  BY <1>0, <1>1 DEF ShowErrorMsg, ErrorsAreSeen
<1>2. ASSUME NEW m \in Messages, MessageLeaves(m)
      PROVE  ErrorsAreSeen'
  BY <1>0, <1>2 DEF MessageLeaves, Unstacked, ErrorsAreSeen
<1>3. ASSUME NEW a \in Attempts, LoginRefused(a) \/ UserInfoRefused(a)
      PROVE  ErrorsAreSeen'
  BY <1>1, <1>3 DEF LoginRefused, UserInfoRefused, FlatError, Messages
<1>4. CASE EmptyStack
  BY <1>4 DEF EmptyStack, ErrorsAreSeen
<1>5. CASE UNCHANGED messageVars
  BY <1>5 DEF messageVars, ErrorsAreSeen
<1> QED BY <1>2, <1>3, <1>4, <1>5
  DEF LoginNext, Submit, LoginAccepted, UserInfoAnswered, GivenUp, Logout, LoginOrRegister, RedirectEnds,
      RedirectFails, messageVars, loginVars

\* An error whose text is stacked, and so is not shown again, is on the screen.
THEOREM StackedErrorsAreSeen == LoginSpec => []ErrorsAreSeen
<1>1. LoginInit => ErrorsAreSeen
  BY DEF LoginInit, ErrorsAreSeen
<1> QED BY <1>1, TypesInit, TypesNext, MessagesNext, PTL DEF LoginSpec
=============================================================================
