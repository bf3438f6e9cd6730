---------------------------- MODULE ConsoleSearch ----------------------------
(***************************************************************************)
(* The search for a menu: a dialog whose keys are listened to whether it   *)
(* is shown or not, a search that waits for a pause of the typing, and a   *)
(* close that empties the dialog a moment later, twice: for the key that   *)
(* closed it and when the dialog has faded out.                            *)
(***************************************************************************)
EXTENDS ConsoleRoutes

CONSTANTS
  Keywords,   \* keywords, each as the set of menus whose titles contain it
  MaxClosing  \* bound on the timers of handleClose that run together

ASSUME SearchConstants == MaxClosing \in Nat \ {0}

VARIABLES
  searcher,      \* the role whose menus are searched
  visible,       \* the dialog is shown
  leaving,       \* it fades out
  closing,       \* timers of handleClose that run
  keyword,       \* as the set of menus it matches
  debounce,      \* a search waits for a pause of the typing
  resultOptions, \* the results that are listed
  activePath,    \* the one that Enter opens, "" for none
  strayEnter     \* history: Enter left the page with no dialog open or closing

searchVars == <<searcher, visible, leaving, closing, keyword, debounce,
                resultOptions, activePath, strayEnter>>

Blank == {}
\* The results that are listed for a keyword.
FoundBy == ByRole(LAMBDA r : [k \in Keywords \cup {Blank} |-> MenusAmong(r, k)])

SearchTypeOK ==
  /\ searcher \in Roles
  /\ visible \in BOOLEAN /\ leaving \in BOOLEAN /\ debounce \in BOOLEAN
  /\ closing \in 0..MaxClosing
  /\ keyword \in Keywords \cup {Blank}
  /\ \E k \in Keywords \cup {Blank} : resultOptions = FoundBy[searcher][k]
  /\ resultOptions # <<>> => activePath \in ToSet(resultOptions)

SearchInit ==
  /\ searcher \in Roles
  /\ visible = FALSE /\ leaving = FALSE /\ debounce = FALSE
  /\ closing = 0
  /\ keyword = Blank /\ resultOptions = <<>> /\ activePath = ""
  /\ strayEnter = FALSE

Open ==
  /\ ~visible /\ ~leaving
  /\ visible' = TRUE
  /\ UNCHANGED <<searcher, leaving, closing, keyword, debounce, resultOptions,
                 activePath, strayEnter>>

Type(k) ==
  /\ visible
  /\ keyword' = k /\ debounce' = TRUE
  /\ UNCHANGED <<searcher, visible, leaving, closing, resultOptions, activePath, strayEnter>>

KeepsPath(found) == activePath
FirstPath(found) == IF found = <<>> THEN "" ELSE found[1]
Search ==
  /\ debounce
  /\ debounce' = FALSE
  /\ resultOptions' = FoundBy[searcher][keyword]
  /\ activePath' = FirstPath(resultOptions')
  /\ UNCHANGED <<searcher, visible, leaving, closing, keyword, strayEnter>>

Down(i, n) == IF i = n THEN 1 ELSE i + 1
Up(i, n) == IF i = 1 THEN n ELSE i - 1
HandleArrow ==
  /\ resultOptions # <<>>
  /\ LET n == Len(resultOptions)
         i == CHOOSE j \in 1..n : resultOptions[j] = activePath
     IN \E to \in {Down(i, n), Up(i, n)} : activePath' = resultOptions[to]
  /\ UNCHANGED <<searcher, visible, leaving, closing, keyword, debounce,
                 resultOptions, strayEnter>>

HandleMouseEnter(m) ==
  /\ visible /\ m \in ToSet(resultOptions)
  /\ activePath' = m
  /\ UNCHANGED <<searcher, visible, leaving, closing, keyword, debounce,
                 resultOptions, strayEnter>>

StartsClosing ==
  /\ closing < MaxClosing
  /\ closing' = closing + 1

\* Enter, a click on a result, and with nothing listed not even a close.
HandleEnter ==
  /\ resultOptions # <<>> /\ activePath # ""
  /\ StartsClosing
  /\ strayEnter' = (strayEnter \/ (~visible /\ ~leaving /\ closing = 0))
  /\ UNCHANGED <<searcher, visible, leaving, keyword, debounce, resultOptions, activePath>>

HandleClose ==
  /\ StartsClosing
  /\ UNCHANGED <<searcher, visible, leaving, keyword, debounce, resultOptions,
                 activePath, strayEnter>>

\* A click beside the dialog hides it at once.
ClickMask ==
  /\ visible
  /\ visible' = FALSE /\ leaving' = TRUE
  /\ UNCHANGED <<searcher, closing, keyword, debounce, resultOptions, activePath, strayEnter>>

\* The timer of handleClose.
KeepsKeyword == UNCHANGED keyword
ClearsKeyword == keyword' = Blank
Closed ==
  /\ closing > 0
  /\ closing' = closing - 1
  /\ visible' = FALSE /\ leaving' = (leaving \/ visible)
  /\ resultOptions' = <<>> /\ ClearsKeyword
  /\ UNCHANGED <<searcher, debounce, activePath, strayEnter>>

\* The dialog has faded out, which closes it once more.
AfterLeave ==
  /\ leaving
  /\ leaving' = FALSE
  /\ StartsClosing
  /\ UNCHANGED <<searcher, visible, keyword, debounce, resultOptions, activePath, strayEnter>>

SearchNext ==
  \/ Open \/ Search \/ HandleArrow \/ HandleEnter \/ HandleClose \/ ClickMask
  \/ Closed \/ AfterLeave
  \/ \E k \in Keywords \cup {Blank} : Type(k)
  \/ \E m \in Names : HandleMouseEnter(m)

SearchSpec == SearchInit /\ [][SearchNext]_searchVars

\* Enter, which forms and other dialogs use too, leaves the page only while
\* the search is open or has just been closed, however late its search comes.
EnterOnlyInSearch ==
  /\ ~strayEnter
  /\ ~visible /\ ~leaving /\ closing = 0 => resultOptions = <<>>
=============================================================================
