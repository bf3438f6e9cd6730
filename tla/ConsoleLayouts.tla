--------------------------- MODULE ConsoleLayouts ---------------------------
(***************************************************************************)
(* The six layouts of the console: which component shows the menus and     *)
(* where, and what the header and the sider are in each.  No menu of the   *)
(* console has children, so a menu of the second level is always empty.    *)
(***************************************************************************)
EXTENDS Naturals

LayoutModes == {"vertical", "vertical-mix", "vertical-hybrid-header-first",
                "horizontal", "top-hybrid-sidebar-first", "top-hybrid-header-first"}

\* A menu component: the part of the page its first level is in, whether that
\* level highlights what was clicked or the menu of the page, and whether the
\* highlight is put right when the mouse leaves the sider.
VerticalMenu              == [place |-> "sider",  mixed |-> FALSE, resets |-> FALSE]
VerticalMixMenu           == [place |-> "sider",  mixed |-> TRUE,  resets |-> TRUE]
VerticalHybridHeaderFirst == [place |-> "header", mixed |-> TRUE,  resets |-> TRUE]
HorizontalMenu            == [place |-> "header", mixed |-> FALSE, resets |-> FALSE]
TopHybridSidebarFirst     == [place |-> "sider",  mixed |-> TRUE,  resets |-> FALSE]
TopHybridHeaderFirst      == [place |-> "header", mixed |-> TRUE,  resets |-> FALSE]

ActiveMenu == [mode \in LayoutModes |->
  CASE mode = "vertical" -> VerticalMenu
    [] mode = "vertical-mix" -> VerticalMixMenu
    [] mode = "vertical-hybrid-header-first" -> VerticalHybridHeaderFirst
    [] mode = "horizontal" -> HorizontalMenu
    [] mode = "top-hybrid-sidebar-first" -> TopHybridSidebarFirst
    [] mode = "top-hybrid-header-first" -> TopHybridHeaderFirst]

HeaderProps(mode) ==
  [showMenu |-> mode \notin {"vertical", "vertical-mix"},
   showMenuToggler |-> mode = "vertical"]

SiderVisible(mode) == mode # "horizontal"

\* The widths of theme settings nobody changed.
Width == 220
CollapsedWidth == 64
MixWidth == 90
MixCollapsedWidth == 64
SiderWidth(mode, collapsed) ==
  CASE mode \in {"top-hybrid-header-first", "vertical-hybrid-header-first"} -> 0
    [] mode \in {"vertical-mix", "top-hybrid-sidebar-first"} ->
         IF collapsed THEN MixCollapsedWidth ELSE MixWidth
    [] OTHER -> IF collapsed THEN CollapsedWidth ELSE Width

\* The sider of a wide page, and of a small one, where it is a drawer.
SiderShows(mode, mobile, collapsed) ==
  /\ SiderVisible(mode)
  /\ IF mobile THEN ~collapsed ELSE SiderWidth(mode, collapsed) > 0

\* The first level of the menus can be clicked, perhaps after the toggler.
MenusShow(mode, mobile, collapsed) ==
  IF ActiveMenu[mode].place = "header"
  THEN HeaderProps(mode).showMenu
  ELSE SiderShows(mode, mobile, collapsed) \/ HeaderProps(mode).showMenuToggler
=============================================================================
