------------------------------ MODULE TabList ------------------------------
(***************************************************************************)
(* The open tabs of the console as the tab store keeps them: a sequence of *)
(* tabs with distinct ids, the pinned ones numbered by their fixedIndex.   *)
(* The home tab is held apart and never stored.  Operators only: what the  *)
(* store's functions compute before and after they navigate.               *)
(***************************************************************************)
EXTENDS Naturals, Sequences, FiniteSets

CONSTANTS
  Ids,     \* tab ids (no route is multiTab: the path of the page)
  Owners,  \* users: a tab remembers who opened it (history)
  Home,    \* the id of the home tab
  NotFixed \* fixedIndex of a tab that is not pinned: no number

Tab == [id : Ids, fixed : Nat \cup {NotFixed}, owner : Owners]

IsFixedTab(tab) == tab.fixed # NotFixed
IdsIn(tabs) == {tabs[i].id : i \in DOMAIN tabs}
Has(tabs, id) == id \in IdsIn(tabs)
Distinct(tabs) == \A i, j \in DOMAIN tabs : tabs[i].id = tabs[j].id => i = j
IndexOf(tabs, id) == CHOOSE i \in DOMAIN tabs : tabs[i].id = id
FixedTabIds(tabs) == {tabs[i].id : i \in {j \in DOMAIN tabs : IsFixedTab(tabs[j])}}
IsTabRetain(tabs, id) == id = Home \/ id \in FixedTabIds(tabs)

AlwaysAppends(tabs, tab) == IF tab.id = Home THEN tabs ELSE Append(tabs, tab)

\* addTab: the home tab and a tab that is open already are not added again.
AddTab(tabs, tab) ==
  IF tab.id = Home \/ Has(tabs, tab.id) THEN tabs ELSE Append(tabs, tab)

RemoveAt(tabs, i) == SubSeq(tabs, 1, i - 1) \o SubSeq(tabs, i + 1, Len(tabs))
InsertAt(tabs, i, tab) == SubSeq(tabs, 1, i - 1) \o <<tab>> \o SubSeq(tabs, i, Len(tabs))
MoveTo(tabs, from, to, tab) == InsertAt(RemoveAt(tabs, from), to, tab)

\* removeTab: the tab to its right is shown next, else the one to its left,
\* else home.
NextAfter(tabs, id) ==
  LET i == IndexOf(tabs, id) IN
  IF i < Len(tabs) THEN tabs[i + 1].id
  ELSE IF i > 1 THEN tabs[i - 1].id ELSE Home
Without(tabs, id) == RemoveAt(tabs, IndexOf(tabs, id))

\* The tabs with these ids, in the order of the list: as many are before each as
\* its place says.
Only(tabs, ids) ==
  LET kept == {i \in DOMAIN tabs : tabs[i].id \in ids}
      place(i) == Cardinality({j \in kept : j < i}) + 1
  IN [k \in 1..Cardinality(kept) |-> tabs[CHOOSE i \in kept : place(i) = k]]

\* clearTabs keeps the pinned tabs and the excluded ones.
Cleared(tabs, excludes) == Only(tabs, FixedTabIds(tabs) \cup excludes)
LastOrHome(tabs) == IF tabs = <<>> THEN Home ELSE tabs[Len(tabs)].id

\* The excludes of clearLeftTabs and clearRightTabs.
LeftExcludes(tabs, id) == IdsIn(SubSeq(tabs, IndexOf(tabs, id), Len(tabs)))
RightExcludes(tabs, id) ==
  IF id = Home THEN {} ELSE IdsIn(SubSeq(tabs, 1, IndexOf(tabs, id)))

\* reorderFixedTabs numbers the pinned tabs from 0, in stored order.
Reordered(tabs) ==
  [i \in DOMAIN tabs |->
    IF IsFixedTab(tabs[i])
    THEN [tabs[i] EXCEPT !.fixed = Cardinality({j \in 1..(i - 1) : IsFixedTab(tabs[j])})]
    ELSE tabs[i]]

FixedCount(tabs) == Cardinality(FixedTabIds(tabs))

\* fixTab moves the tab behind the pinned ones; unfixTab behind those that
\* stay pinned.
FixedInPlace(tabs, id) ==
  LET i == IndexOf(tabs, id)
  IN [tabs EXCEPT ![i].fixed = FixedCount(tabs)]
FixTab(tabs, id) ==
  LET i == IndexOf(tabs, id)
      count == FixedCount(tabs)
      tab == [tabs[i] EXCEPT !.fixed = count]
  IN Reordered(MoveTo(tabs, i, count + 1, tab))
UnfixTab(tabs, id) ==
  LET i == IndexOf(tabs, id)
      tab == [tabs[i] EXCEPT !.fixed = NotFixed]
      count == FixedCount([tabs EXCEPT ![i] = tab])
  IN Reordered(MoveTo(tabs, i, count + 1, tab))

\* getAllTabs: what the tab bar shows behind the home tab, the pinned tabs
\* sorted by fixedIndex (a stable sort) and then the others.
AllTabs(tabs) ==
  LET open == {i \in DOMAIN tabs : tabs[i].id # Home}
      before(i, j) == \/ IsFixedTab(tabs[i]) /\ ~IsFixedTab(tabs[j])
                      \/ IsFixedTab(tabs[i]) /\ IsFixedTab(tabs[j]) /\ tabs[i].fixed < tabs[j].fixed
                      \/ tabs[i].fixed = tabs[j].fixed /\ i < j
      place(i) == Cardinality({j \in open : before(j, i)}) + 1
  IN [k \in 1..Cardinality(open) |-> tabs[CHOOSE i \in open : place(i) = k]]

\* extractTabsByAllRoutes: of the cached tabs, those whose route exists.
ExtractTabs(tabs, routes) == Only(tabs, routes)
=============================================================================
