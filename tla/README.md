# MMPay in TLA+

MMPay is a self-hosted payment gateway: a Spring Boot application over PostgreSQL that takes
provider callbacks, lets operators cancel, refund and redispatch, and keeps an HMAC-chained audit
trail; and a Vue console, `frontend-admin`, in which they do so. This directory models the parts of
both whose correctness depends on interleaving, failure and order, checks them with TLC on small
instances, and proves the central properties with TLAPS for every number of rows, events, threads,
writers, browser tabs, commands, users and logins.

Paths of the backend are relative to `src/backend`; `app/` stands for
`mmpay-app/src/main/java/com/imgltd/mmpay`, `V12x` for the migrations of `mmpay-gateway-core`.
Paths of the console are relative to `src/frontend-admin/src`.

## 1. Inventory

| Component | State | Operations | Interacts with | What makes it correct |
|---|---|---|---|---|
| Payment intents (`app/payment/PaymentService`, `PaymentRepository`, V124, V125, V129) | `payment_intents`, `provider_events`, `transactions` | `acceptCallback`, `cancelPaymentIntent`; `createIntent` (always rejects) | audit trail, inside the same transaction | an event settles once and wholly; no lost update; terminal rows stay; last settled outcome is the status |
| Audit trail (`app/audit`, `mmpay-audit-verifier`, V200) | `audit_event`, its sequence, advisory lock 7341 | `append`, `events`, `verify` | joined by every writing transaction | one linked chain in id order, which verifies |
| Refunds | `refunds`, total guard trigger | `cancelRefund`; `createRefund` (always rejects) | audit trail, outside a transaction | the audit says what happened |
| Delivery logs | `delivery_logs`, a session advisory lock per integration | `redispatchDeliveryLog`, `bulkRedispatch` | connection pool, audit trail | an event has one live row and never none |
| Reconciliation (`ReconciliationRunner`) | `reconciliation_runs`, lock 7342 | daily job, `ackReconciliationRun` | other replicas | one row a day |
| Webhook dispatcher (`mmpay-webhook-out`) | reserved and delivered id sets | `dispatch` | the target | an event is not delivered again once delivered |
| Merchants and channels (`app/merchant`) | `merchants`, `channels` | create, patch, archive, verify binding | credentials, audit trail | archive is final; no update lost; no active channel under an archived merchant |
| Idempotency-Key store | in-memory map with expiry | `get`, `put` | `createMerchant` | one key, one creation |
| Users and tokens (`app/iam`) | `sys_user`, `oauth2_authorization` | issue, refresh (three autocommitted statements), authenticate, create, patch, delete | setup, console | a refresh token buys one exchange; a deleted user has no token |
| Setup (`app/setup`) | one-time token, lock 7340, rate buckets | submit form, bootstrap from environment | users | one administrator, and a way to make it |
| License relay (`app/app/integrations`, `mmpay-license-relay`) | `license_relay_targets`, `license_relay_logs`, token buckets | forward, test, redispatch, create | the vendor target, audit trail | every forward is logged; the bucket bounds the rate |
| Provider adapters, callback verification, credential references | none | pure functions of one request | | |
| Degraded mode | a flag fixed at start | guard on writes | | |
| Dashboard, deploy, scripts, governance | | | | no state of the running system |

The console runs in browser tabs that share one localStorage; each tab has its own stores.

| Component | State | Operations | Interacts with | What makes it correct |
|---|---|---|---|---|
| Tokens and `adminFetch` (`service/api/admin.ts`, `store/modules/auth`) | tokens in localStorage, `refreshInflight` of each page | send, refuse, refresh, repeat, log in, log out, reload | other tabs, the backend's token service | one exchange per refresh token; a command runs once and ends |
| Navigation (`router/guard`, `store/modules/route`) | route, auth routes, menus, the user | guard, `initAuthRoute`, `resetStore` | tokens, tab bar | a page is shown to whom its roles allow; menus are the user's; every navigation ends |
| Tab bar (`store/modules/tab`) | open and pinned tabs, active tab, cached tabs | add, close, clear, pin, switch | navigation, which it awaits | the active tab is the page; nobody finds another user's tabs |
| Pages (`views`) | what is shown, loading flags, requests in flight | load, click, edit, leave | `adminFetch`, navigation | answers reach the record they are about; a button with a loading flag sends once; no flag is stuck |
| Menus and layouts (`layouts`, `packages/materials`) | highlighted menu, layout | click, reset, switch layout | navigation, theme | the highlight is the page's, or that of a navigation; every page has its menu |
| Search (`global-search`) | dialog, results, timers | type, choose, close | navigation | Enter acts only on what is shown |
| Theme and mobile layout (`store/modules/theme`, `app`, `theme-drawer`) | settings, their copies in localStorage, the layout put aside | change, preset, reset, shrink, grow, load | menus | a wide window finds its layout again; the menus stay in reach |
| Login form and request layer (`views/_builtin/login`, `service/request`, `packages/axios`) | loading flag, auth store, stack of messages | submit, two requests, errors | tokens, navigation | the store has one login's token and user, up to the page it leads to; no error is swallowed |

What is hard here: several request threads and several replicas over one database at READ
COMMITTED; transactions that wait for one another on rows, unique keys and advisory locks; error
paths that write after a statement of their transaction has failed; operations of several
autocommitted statements; redelivered and reordered callbacks; processes that die between two
statements; precision lost on the way into a column. In the console, JavaScript runs one task at a
time, and the hazards are what changes across an `await`: answers out of order or after their page
is gone, navigations that overtake each other with continuations that still run, several tabs
writing one localStorage, timers, and pages that are unloaded at any moment. `PROJECT.json` lists each hazard at its line
with the properties that cover it.

PostgreSQL is the database modelled. The tests use H2 and an in-memory audit store, which neither
abort a transaction on its first failed statement nor undo an audit row on rollback: two of the
findings below live in that difference.

## 2. Modules

| Module | Models | Depends on |
|---|---|---|
| `PaymentLedger` | what the payment service promises: accepting an event and cancelling are single steps | |
| `PaymentLifecycle` | the same service statement by statement, with transactions, locks and failures | `PaymentLedger` (refined) |
| `MCPaymentLifecycle` | symmetry for TLC | `PaymentLifecycle` |
| `PaymentProofs` | its theorems | `PaymentLifecycle`, TLAPS |
| `AuditStore` | the audit chain with concurrent transactions, rollback and verification | |
| `MCAuditStore` | symmetry for TLC | `AuditStore` |
| `AuditStoreProofs` | its theorems | `AuditStore`, TLAPS |
| `ConsoleSession` | tokens, `adminFetch` and the auth store in several browser tabs | |
| `ConsoleSessionProofs` | its theorems | `ConsoleSession`, TLAPS |
| `TabList` | what the tab store computes on lists of tabs (operators only) | |
| `ConsoleNavigation` | guard, router, auth routes and tab store of one browser tab | `TabList` (instance) |
| `ConsoleNavigationProofs` | what the tab store does to lists of any length; theorems about navigation and tabs | `ConsoleNavigation`, TLAPS |
| `ConsolePages` | every page with its loads and commands | |
| `ConsolePagesProofs` | its theorems | `ConsolePages`, TLAPS |
| `ConsoleRoutes`, `ConsoleLayouts` | the route table and the menus of each role; the six layouts (operators only) | |
| `ConsoleMenus` | the highlighted menu beside the navigations | `ConsoleRoutes`, `ConsoleLayouts` |
| `ConsoleSearch` | the search dialog | `ConsoleRoutes` |
| `ConsoleMenusProofs` | what sorting the routes does; theorems about menus and search | `ConsoleMenus`, `ConsoleSearch`, TLAPS |
| `ConsoleLook` | theme settings and the mobile layout | `ConsoleLayouts` |
| `ConsoleLookProofs` | its theorems | `ConsoleLook`, TLAPS |
| `ConsoleLogin` | the login form, its two requests, error messages | |
| `ConsoleLoginProofs` | its theorems | `ConsoleLogin`, TLAPS |
| `MCConsoleSession`, `MCConsoleNavigation`, `MCConsoleParts` | instances for TLC; the last explores pages, menus, search, look and login side by side | the modules above |

### PaymentLifecycle

A worker is a request thread with its connection. `tx[w]` is its transaction: the next statement
(`pc`), the request, and every write it has not committed (`inserted` for the event row, `row` for
the intent row, `audit` for its audit rows). The other variables are the committed tables and the
two kinds of lock. One action is one statement that another transaction can wait for or observe:

| Action | Code |
|---|---|
| `ReceiveCallback`, `ReceiveCancel` | `PaymentAdminController.providerCallback`, `cancelPaymentIntent` |
| `InsertEvent` | `insertProviderEvent`: waits for an uncommitted row of the same key (`KeyFree`); a committed one aborts the transaction |
| `ReadIntent`, `UpdateIntent` | `applyProviderState`: SELECT and cancelled check, then an UPDATE guarded only by the terminal trigger (`TerminalGuard`); the INSERT into `transactions` cannot wait and is part of it |
| `AuditCallback` | the two audit rows of an accepted callback, under the audit lock |
| `RaceLost` | the catch block: audits and rethrows, or fails in an aborted transaction |
| `CancelRead`, `CancelUpdate`, `AuditCancel` | `cancelPendingIntent` and the audit row |
| `Commit`, `Rollback` | the end of the `@Transactional` method; the reply of a commit may be lost |
| `ConnectionLost` | the process or its connection dies at any statement |

Rows start in any status the migrated table may hold, or absent. Amounts, currencies, timestamps
and signatures do not influence control and are left out; a callback's status is `succeeded`,
`failed` or any other string, which the code treats as success. Advisory lock and audit row of one
append are one step here (the trail's own concurrency is `AuditStore`).

### AuditStore

A writer is an application transaction that appends one or more rows: `TakeChainLock`
(`PostgresAuditLock.withLock`, reentrant and held to the end of the transaction), `PreviousHmac`,
`InsertRow` (draws the id outside the transaction's undo), then `Commit` or `Rollback`.
`VerifyTrail` is `GET /api/admin/audit/verify`. An HMAC covers the row's id, which is unique, so
the id stands for it. `StoredTimestamp` is what the TIMESTAMPTZ column keeps of a nanosecond
instant: a row whose stored instant differs from the hashed one fails `RowHmacMatches`.

### ConsoleSession

A page is a browser tab's document: where it is, whether its user is known, and its
`refreshInflight` with the refresh token it sent and the answer it got. A call is one command sent
through `adminFetch`. An action is one task of an event loop, microtasks included: `RefreshSettles`
writes the new pair (`KeptPair`) and resumes every waiter, because the promise they share resolves
in that task. `stored` is localStorage, read when a request is sent (`Send`, `HandleDenied`).

| Action | Code |
|---|---|
| `Send`, `Serve`, `FetchFails` | the fetch of `adminFetch`, served, refused with 401, or lost before or after it was executed |
| `HandleDenied` | first 401: `refreshTokenOnce` up to its fetch, or its early return, whose promise stays (`"stale"`) |
| `RefreshSettles`, `RefreshFails` | the rest of `refreshTokenOnce`, and `adminFetch` going on |
| `HandleDeniedAgain` | second 401: `handleAuthExpired` |
| `LoginAccepted`, `LoginRefused`, `UserInfoAnswered`, `Logout` | the auth store |
| `Reload` | the page is unloaded at any moment and loads again; its requests live on without it |
| `FindRefreshToken`, `ConsumeRefreshToken`, `SaveAuthorization` | `OpaqueTokenService.refresh` with `JdbcIamRepository`: the SELECT of the token, the UPDATE that consumes it and the INSERT of the new pair, each committed on its own; the UPDATE does not ask whether somebody else consumed it since |
| `FindDetached`, `ConsumeDetached`, `SaveDetached` | the same statements for a page that has given the exchange up |
| `ExpireAccess`, `ExpireRefresh` | the instants of the two tokens, which the queries of `JdbcIamRepository` compare with now |

`RefreshFails` may come at any of the three statements: the connection is lost, or the backend
fails between two of them, and then the token is consumed and no pair was saved. What it leaves in
`detached` has no fairness, so it may also stop there. `detached` is a set: two exchanges of one
token that have got to the same statement and that nobody waits for are one, because a second one
could only issue another pair that nobody receives.

### ConsoleNavigation and TabList

`nav` is the navigation under way with its stage (constant routes, guard, `/setup` probe,
`getUserInfo`, chunk) and with what the code that awaited it will do (`then`). A push cancels it;
what was to follow runs later (`late`, `GoOnLate`) with the list of tabs it computed before:
`clearTabs` and `resetStore` go on whether or not their navigation succeeded. `GuardChecks` is
`createRouteGuard` and `initRoute` after initialization; `UserInfoRefused` shows `resetStore` inside
the guard. `OtherTab` changes localStorage under the page. A chunk that does not load rejects the
push, and the code that awaited it stops there (`ChunkFails`; `LateChunkFails` for a navigation that
was cancelled, a superset, since some of those needed no chunk). `torn` remembers that this cut a login, a
logout or a late continuation off, or that another tab changed the token. `BackToHome` is the button
of the pages 403 and 404. `TabList` holds the pure functions of
`store/modules/tab/shared.ts`; pages are model values, and a tab carries who opened it. What stays
of a list (`Only`) and the order in which the bar shows it (`AllTabs`, a stable sort) rank every tab
by the number of tabs before it, which can be reasoned about without recurring over the list.

### The other parts of the console

`ConsolePages` describes every view as a value (`View`, `Button`): what it loads, which flag blocks
a button, what the answer of a command does. One set of actions (`Click`, `Command`,
`LoadAnswered`, `CommandShown`, `CommandReloads`, `CommandLeads`, `Mount`) then stands for the
handlers of all of them. Requests of a page that was left stay in flight and still act, as in the
code: a command may lead the user away from another page. `owed` is the version that the page's
last command produced: the page has to show it, unless a load has failed since, which the page
reports. Eight buttons set no flag (`clears` is empty): create a payment, cancel one, create a
refund, acknowledge a run, test an integration, redispatch webhooks and a log, delete a user. Two of
their requests may be in flight, here as in the code, and `FlaggedSendOnce` is about the others.
The two requests that the page of a merchant awaits together (`Promise.all`) are one load: both must
have succeeded before it shows anything, but the data of one answer may be older than those of the
other, which one version cannot say.

`ConsoleRoutes` is the route table with its roles and the menus derived from it, `ConsoleLayouts`
what each of the six layouts shows. The menus of a role are the routes it may open, sorted by their
order (`MenusAmong`); what the search finds are those among the menus its keyword matches. `ConsoleMenus` highlights a menu when it is clicked and corrects
it when the name of the route changes (`Arrive`), the mouse leaves the sider, or the base layout is
mounted again behind a blank page. A navigation can be overtaken by another push, or its chunk may
fail to load (`NavigationFails`); both leave a highlight that was set for it `astray`. Links are
those a page renders: `router-link` resolves its target while it renders and throws for a name the
router does not have, so the cards of the home page that a role has no route for are not there.
Tabs push a path, which always resolves: one that another user pinned ends at 403 or 404
(`LandsOn`), pages of the blank layout with a way home. Going back with the browser's button is not
modelled. `ConsoleSearch` has the debounce and the timers of `handleClose`, which runs again when
the dialog has faded out. `ConsoleLook` keeps the settings in use, those that were loaded (what
`$reset` goes back to), those in localStorage and the backup of the wide layout; the few switches of
the theme that it has beside the layout are there because `$reset`, the copy in localStorage and the
backup treat all settings alike.

`ConsoleLogin` lets logins overlap, as the Enter key does. A login is three awaits: its request, that
for the user, and the navigation to the page it leads to (`redirect`); the store has user and token
during the third, with the form still shown and loading. `nav` is the navigation under way and the
login that awaits it. Its chunk may fail (`RedirectFails`: `endLoading` is not reached), and another
push overtakes it (`GivenUp`). A logout empties storage and store and then pushes; the page stays
until the push has ended. `crossed` marks logins that overlap or begin with somebody logged in; a
reset with no login running ends it.

These five share no variable: `MCConsoleParts` chooses in its first state which of them the
behaviour is about, so that one run explores each part wholly and no product of them.

## 3. Runs

| Run | Instance | Shows |
|---|---|---|
| `PaymentRace.cfg` | 2 intents, 2 events, 3 threads; about 30 000 states | `EventsSettleAtomically`, `StatusIsLastSettled`, `VersionCountsChanges`, and that `PaymentInv` is an invariant |
| `PaymentRefines.cfg` | 1 intent, 2 events, 2 threads, fair; about 23 000 states | `ImplementsLedger`, `TerminalStaysTerminal`, `RequestsFinish` |
| `AuditConcurrent.cfg` | 3 transactions of up to 2 rows, whole-microsecond clock; about 70 000 states | `ChainLinked`, `AppendsInIdOrder`, `TrailVerifies`, and that `ChainInv` is an invariant |
| `PaymentLateCallback.cfg` | expected violation | finding 1 |
| `PaymentDuplicate.cfg` | expected violation | finding 2 |
| `PaymentDomain.cfg` | created intents only; expected violation | finding 3 |
| `AuditNanoClock.cfg` | expected violation | finding 4 |
| `ConsoleSession.cfg` | 2 tabs, 2 commands, 1 login, fair; about 149 000 states | `ExecutedAtMostOnce`, `OneExchangePerToken`, `StoredTokenIsExchangeable`, `CallsSettle` |
| `ConsoleNavigation.cfg` | 2 users (one a super user), 2 pages, 7 events of users, other tabs and failed chunks, fair; about 429 000 states | `PageAllowsUser`, `MenusMatchUser`, `ActiveTabIsPage`, `ShownInStoredOrder`, `OnlyPinsCrossUsers`, `NavigationSettles` |
| `ConsoleParts.cfg` | all pages, 2 records, 3 sends from a page (4 from reconciliation); all roles and layouts, 3 pages with tabs; 2 keywords; 3 changes of settings; 3 logins; about 572 000 states | pages: `AnswersStayOnTheirPage`, `FlaggedSendOnce`, `ShowsOwnChange`, `FlagsClear`; menus: `HighlightFollowsPage`, `PageHasItsMenu`; search: `EnterOnlyInSearch`; look: `LayoutComesBack`, `MenusInReach`; login: `LoginIsWhole`, `ErrorsAreSeen` |
| `ConsoleStaleRefresh.cfg` | expected violation | finding 5 |
| `ConsoleLayoutLost.cfg` | expected violation | finding 6 |

Bounds. Two transactions are enough for each pairwise race (SELECT then UPDATE, INSERT of one key,
lock hand-over); the third thread adds a waiter behind a waiter and a cancel between two
callbacks. Each event can be delivered any number of times, so two events give redelivery and
overwriting in one run. Nothing in the payment model needs a counter bound: an accepted event
cannot be accepted again, so versions and trails are finite. In the audit model `MaxId` stops
transactions from beginning once the sequence has passed it and `MaxAppends` bounds the rows of
one transaction (the code appends at most two); both stop growth only, and the theorems hold for
every value. Symmetry is used only in runs without liveness. No deadlock is possible in a run of the backend.

In the console's session two tabs give every race over localStorage and two commands a caller that
joins another's exchange; with one login and two commands three pairs of tokens can be issued, so a
stored pair can be replaced twice. `MaxEvents` bounds what users and other tabs do in the
navigation, with the chunks that do not load, not the guard's own steps: seven events are a login, pages opened and pinned, a logout
and the next user's login. `MaxSends`, `MaxChanges`, `MaxClosing`, `MaxEdits` and `MaxTimers` bound
requests, changes by others, timers and changes of settings. Three sends are a load, a command and
its reload; reconciliation has a fourth, for a command after a reload that failed. Three logins let
a third begin while the first two cross. The three tabs of the
menus are the home page, one that auditors may not open, and one that finance may not open either. A console at rest may stay so: its runs do not check for
deadlock.

Fairness (`PaymentLifecycle!Fairness`). A thread runs its request to the end, and PostgreSQL grants
row, key and advisory locks in queue order, so a statement that is enabled again and again is
eventually run: strong fairness of the statements that wait, weak fairness of the end of a
transaction. Arrivals and lost connections are not fair. `RequestsFinish` then says that the event
key, the row and the audit lock, always taken in this order, never block one another for ever.

`SessFairness`: the backend answers every request and a page handles every answer (weak fairness of
`Serve`, the three statements of the exchange, `HandleDenied`, `HandleDeniedAgain` and `RefreshSettles`).
Users, lost connections, failures of the backend, detached exchanges, expiry and reloads are not
fair. `NavFairness`: the guard is JavaScript
that runs, requests are answered and chunks arrive or do not, so its steps and the continuations in `late`
are weakly fair. `CallsSettle` and `NavigationSettles` then exclude a call that waits for an
exchange nobody settles, and guards that redirect to each other for ever.

## 4. Findings

1. *A refused callback leaves no audit row.* `PaymentService.java:80-83` audits
   `state_inconsistent` in the transaction that the rethrown exception rolls back;
   `P3PaymentLifecycleContractTest.java:110` expects the row and passes because its audit store is in
   memory.
2. *A redelivered event is a server error.* The failed INSERT aborts the PostgreSQL transaction, so
   the UPDATE of `duplicate_count` (`PaymentRepository.java:101-103`) raises as well and the branch
   that returns the current intent is not reached; `docs/architecture/idempotency.md:5-6` wants
   duplicates detected explicitly. State is not changed, which `EventsSettleAtomically` confirms.
3. *Callbacks ignore the domain lifecycle.* `PaymentIntent.java:37-40` lets only a submitted intent
   succeed; `applyProviderState` accepts any status but cancelled and leaves the rest to the
   terminal trigger. `SucceedsOnlyFromSubmitted` states the record's rule; the run starts with
   created intents, and its trace takes one from `pending` to `succeeded` with one callback.
4. *The trail fails its own verification.* `JdbcAuditEventStore.java:41` hashes nanoseconds and line
   73 stores microseconds. Tests use fixed clocks of whole seconds.
5. *A settled promise ends a good session.* `service/api/admin.ts:406` returns before the `try` when
   no refresh token is stored, so `finally` never clears `refreshInflight`. A page at `/login` is not
   reloaded: after a logout with a call in flight and a new login, the next 401 joins the old promise
   of `false` and the user is logged out with a usable refresh token stored. The release notes
   (`docs/release/v1.0.0-hotfix.1-release-notes.md:41`) claim that this race is gone.
6. *The layout of a wide window is lost.* `watch(isMobile)` is immediate
   (`store/modules/app/index.ts:87-113`): a page that loads while the window is small backs up the
   layout of a small page over the one that was put aside.

Met while modelling, in no run: a page that loads with an expired access token logs out although
its refresh token is good (`auth/index.ts:168-173`); the dashboard has cards for pages the
role's router does not have, whose links fail to render (`views/home/index.vue:15-31`); an edit of one's own user always sends the role, which
the backend refuses (`views/system/index.vue:69-87`); a forbidden page with an id in its path is
answered with 404 instead of 403 (`route/index.ts:294-309`); two notifications of a new version may
be shown (`plugins/app.ts:24-33`); a click on a menu whose navigation is overtaken, or whose
chunk does not load, leaves the highlight there, in three of the mixed layouts until another page
is reached (`HighlightFollowsPage` says `astray`); a login whose page's chunk does not load leaves
the form loading with the user logged in; a logout whose login page does not load leaves the auth
routes of the user (`resetStore` stops at `auth/index.ts:57`, before `routeStore.resetStore`), so the
next login without a reload keeps the routes and menus of the user before (`MenusMatchUser` and
`OnlyPinsCrossUsers` say `torn`; `PageAllowsUser` holds even then, by the guard's own check); a login that fails while another succeeds resets what the
other stored (`LoginIsWhole` still asks for one user and token in the store then, and for the rest
once a reset found no login running); answers of two
loads may be shown in the wrong order (`ShowsOwnChange` excludes it); a page whose reload after a
command failed keeps the old data although the command succeeded, and shows them also after the next
command that fails (`owed` is forgotten then; an earlier form of `ShowsOwnChange`, which did not
forget it, held only because three sends were too few, as its proof showed).

## 5. Proofs

All theorems hold for every set of intents, events, threads and writers; the assumptions are
`NoneIsFresh` (the marker `None` is none of the values it stands beside) and `AuditConstants`
(instants and bounds are natural numbers); for the console `SessionConstants` (finitely many
commands; `None` is neither a tab nor a number), `NavigationConstants` (the named pages differ and
`None` is none of the values it stands beside), `LoginConstants`, `PagesConstants` and `PagesBounds`
(every page has its own bound on sends), `NoTargetIsNoPage`, `SearchConstants` and `BackupConstants`
(markers are none of the values they stand beside).

`PaymentProofs`. The properties are not inductive: that the last settled outcome is the status
depends on what transactions in progress may still write. `PaymentInv` says what a transaction may
rely on between its UPDATE and its COMMIT, one conjunct per reason:
`WriteIsLocked` (a written row is locked by its writer), `KeyIsFresh` (an inserted key is not
committed and nobody else's), `WriteIsCurrent` (the write was computed from the committed row it
replaces, which the lock has kept unchanged), `RequestIsTyped`, `AuditIsWhole`. One lemma per
action shows that it re-establishes `TxInv` for its own worker (`*Step`) and `StepKeepsOthers` that
it leaves the others' alone; only `Commit` changes committed rows (`OnlyCommitPublishes`). From it:

- `TypeCorrect`, `LocksProtectWrites`: `TypeOK` and `PaymentInv` are invariant.
- `TerminalIsFinal`: `Spec => TerminalStaysTerminal`.
- `LastSettledWins`: `Spec => []StatusIsLastSettled`.
- `EventsSettleWithTheirAudit`: `Spec => []EventsSettleAtomically`, and `NoUpdateIsLost`:
  `Spec => []VersionCountsChanges`. Both count committed rows: `Count` is the cardinality of a set of
  indexes, which one `Append` changes by one or not at all (`CountAppend`); `CallbackAppends` and
  `CancelAppends` say which rows the commit of a request appends, and `CountsAgree` is the invariant.
  `EventsSettleExactlyOnce` is the part that relates events and transaction rows.
- `RefinesLedger`: `Spec => ImplementsLedger`; `Commit` maps to `Accept` or `Cancel`, every other
  step to a stutter.

`AuditStoreProofs`. `ChainInv` is `WritersHoldLock` (whoever has read the chain's end or has
uncommitted rows holds the lock, so at most one does), `IdsGrow` (the sequence is above every row,
uncommitted rows above committed ones) and `VisibleChainLinked` (what a transaction sees is a
linked chain and the HMAC it read is that of its last row). From it `ChainIsLinked` and
`RowsAppendInIdOrder`. `WholeMicrosecondsVerify` is `Spec => []TrailVerifies` under the assumption
`WholeMicroseconds` on the clock. The code does not guarantee it, which is finding 4: the theorem
says that rounding is all that can keep the trail from verifying.

`ConsoleSessionProofs`. That a stored refresh token works depends on where every pair has been.
`SessInv` follows a pair from its issue: what is not issued is nowhere (`UnissuedIsUnknown`); a pair
an exchange was answered with is good and nowhere else yet (`AnswerIsFresh`, `Unsent`), so it may be
stored; whoever has sent the stored token is exchanging it now (`SenderIsExchanging`), so nobody
sends it again; a token whose exchange goes on without its page counts as lost (`DetachedIsLost`,
with `DetachedGoesOn` for the three statements). For the commands,
`CallsHavePages` and `ExecutedIsDone`: a command is repeated only after a 401, which is not an
execution. `TokensKept` and `CallsKept` serve the actions that leave the exchanges alone, one lemma
each the others. From it:

- `SessionInvariant`, `SessionTypes`: `SessInv` and `SessTypeOK` are invariant.
- `CommandsExecuteOnce`: `SessSpec => []ExecutedAtMostOnce`.
- `StoredTokenWorks`: `SessSpec => []StoredTokenIsExchangeable`.
- `PagesSendTokensOnce`: `SessSpec => OneExchangePerToken`, with `ExchangeMovesOn`.

`ConsoleNavigationProofs`. `LoadIsAllowed`: a page that is being loaded is allowed for the user in
the store, because nobody logs in or out without giving the navigation up. With the shape of a
navigation (`NavShape`) it is inductive, and `PagesAllowUsers` is `NavSpec => PageAllowsUser`.
`MenusAreTheUsers` is `NavSpec => []MenusMatchUser`. It needs to know who still owes a reset:
`SessionIsUser` (a user has the token; while a `resetStore` has not gone on there is none),
`RoutesAreUsers` (auth routes are the user's, or their reset is pending, here or in `late`) and
`PagesHaveRoutes` (a user who sees or loads a page of the console has initialized routes).

The theorems on tabs rest on what the store's functions do to a list of any length. Up to
`OnlyKeepsInOrder` the module is about `TabList`: that a rank is taken by each tab and by one only
follows from the theorems on injections between finite sets, and every operation keeps `ListOK`
(distinct ids; pinned tabs first, numbered upwards) and adds nobody else's tabs (`Mine`): `FixKeeps`,
`UnfixKeeps`, `WithoutKeeps`, `ClearedKeeps`, `FollowedKeeps`, `AdoptedKeeps`, `TabsOnKeeps`. Then:

- `NavTypeCorrect`: `NavSpec => []NavTypeOK`, and `TabsShownInStoredOrder`: `[]ShownInStoredOrder`.
  `TypeInv` asks `ListOK` also of the cached tabs, which a reload brings back, and of the list held by
  every clear that still waits for its navigation (`ThenOK`), which it will store whatever has
  happened since.
- `ActiveTabIsThePage`: `[]ActiveTabIsPage`. The highlight may leave the page only while the
  navigation of a close or clear goes on (`ActiveOK`).
- `OnlyPinsCross`: `[]OnlyPinsCrossUsers`. The property speaks of the tabs a user sees; `OwnersOK` says
  whose they have to be before that: of whoever sees them next (`Sees`), also in the cache
  (`CachedAreTheirs`), unless a clear that waits will take the others (`WillGo`), and that whoever
  logged out is on record until the next login (`LastOK`).

`ConsolePagesProofs`. `PagesInv` states each part over the part of the state it relates:
`RequestsOK` (requests have different numbers, and an answer is the backend's state at some earlier
time), `LiveOK` (a live request is one of the instance that is shown and holds the flags it will
take back, no two commands hold the same flag, and every flag that is set is held) and `OwedOK`
(what the page shows is no older than what it owes, or a load is under way). What a request that is
sent, answered or given up does to each part is a lemma. From it `PagesTypeCorrect`,
`PagesShowTheirRecord`, `FlaggedButtonsSendOnce`, `PagesShowOwnChange` and `PagesFlagsClear`. The last three
are about the pages' own commands, whatever pages users go to and however many requests they send.

`ConsoleMenusProofs`. What `SortRoutesByOrder` returns is a theorem of its own, `SortedRoutes`: its
definition ranks every route by the number of routes before it, and that a rank is taken by each
route and by one only follows from the theorems on injections between finite sets, without
induction. The lemmas after it are about the route table: names are unique, every menu is a route's,
whoever may open a page may open the page of its menu (`MenuAsksTheSame`) and, the home page
excepted, those it links to (`LinksAskTheSame`). `LandingsAreRegistered`: whatever path a tab has, it
ends at a page the router knows. `MenusInv` is inductive: the page and the one on the way are of the
user's router (`OnTheWay`), and the highlight is that of the page, or of the navigation under way, or
that one was given up (`HighlightLeads`). From it `HighlightIsThePages`,
`PagesHaveTheirMenu` and `MenusTypeCorrect`. `SearchIsClean` (nothing is typed or listed unless the
dialog is shown, fades out or is about to close) gives `EnterStaysInSearch`; with
`SearchTypeCorrect`, these hold for any keywords and any number of timers.

`ConsoleLookProofs`. `LookInv`: a wide page has put nothing aside; the layout that was chosen is the
one put aside while the page is small, and the page's own otherwise, unless a reload has lost it
(finding 6); and the drawer, the tab bar and the small layout keep a button for the menus. From it
`LookTypeCorrect`, `LayoutComesBackAlways` and `MenusStayInReach`.

`ConsoleLoginProofs`. `NavIsAwaited` holds always: a navigation leads away from the page shown, one
that leads behind the login is awaited by a login in its third stage, and the store has token and
user of one login. While no two logins have crossed there is one at a time, on the login page, and the
storage is ahead of the store only while the user is asked for; from then on the three agree, through
the navigation and after it (`OneAtATime`, `StoreIsWhole`). A reset with no login running makes that
true again whatever crossed before. From these `LoginsAreWhole`. `StackedErrorsAreSeen` is inductive with the types
(`LoginTypes`).

Only model-checked: the liveness properties `RequestsFinish`, `CallsSettle` and `NavigationSettles`,
which are beyond the prover. Every other property of a passing run is stated by a theorem.

## 6. Plan

Done: the payment service, the audit trail and the console with their proofs. What may follow, in
this order:

1. `AdminOperations`: refund cancel, single and bulk redispatch, reconciliation and its
   acknowledgement as sequences of autocommitted statements over a pool of connections, with session
   locks that belong to connections. Redispatch binds the text of an event id to a UUID column, which
   PostgreSQL refuses unless the JDBC URL says `stringtype=unspecified` (the repository's do not; H2
   accepts it): whether the connection accepts text as a UUID will be a constant, as for the
   `row_uid` of `MerchantAdmin`.
2. `IamTokens` and setup: refresh, deletion and creation of users by concurrent requests, the
   bootstrap lock, beside the exchange that `ConsoleSession` has.
3. `MerchantAdmin` with the idempotency store: archive is final, recreation of an id, lost fields,
   channels of archived merchants.
4. `WebhookDispatch`: the reserve, mark and release protocol against at-most-once delivery.
5. `LicenseRelay`: forward, log and audit; the token bucket against its bound.
6. Restore segments in the audit verifier.

## 7. Not modelled

- Provider adapters, callback verification and credential references (pure functions of one
  request), degraded mode (a constant), the dashboard's reads, deployment and release scripts.
- Code of the console's template that no page reaches: table hooks and components, `use-request`,
  `alova`, echarts and the modules of the old home page, the forms for codes, registration and
  password reset, the branches for expired-token codes.
- The notification of a new version, third-level menus and expanded keys, the color package, texts
  and switching of languages, the tab bar's scrolling, sizes and animations.
- Of a navigation that is cancelled, the redirect its guard may still return; `resetRouteCache`; the
  browser's own back and forward.
