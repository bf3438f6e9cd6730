---------------------------- MODULE ConsoleLook ----------------------------
(***************************************************************************)
(* The theme settings of the console and what becomes of its layout when   *)
(* the window shrinks to a phone's width and grows again, when pages are   *)
(* reloaded or killed, when a preset is applied and settings are reset.    *)
(*                                                                         *)
(* Settings are written to localStorage when a page unloads; the layout    *)
(* that a small window puts aside is written at once, under a key of its   *)
(* own.                                                                    *)
(***************************************************************************)
EXTENDS ConsoleLayouts

CONSTANTS
  Touched,    \* the settings users change, of those the drawer has
  MaxEdits,   \* bound on the changes of settings
  NoBackup

ASSUME LookConstants == MaxEdits \in Nat

VARIABLES
  settings,      \* the theme store
  loaded,        \* what its $reset goes back to
  stored,        \* themeSettings of localStorage
  backup,        \* backupThemeSettingBeforeIsMobile of localStorage, or NoBackup
  isMobile,
  siderCollapse,
  fullContent,   \* header and sider are hidden
  drawer,        \* the theme drawer is open, over everything else
  edits,         \* how often settings were changed
  chosen,        \* history: the layout of the wide page, as it was left
  lost,          \* history: a small page was loaded again while small
  resetSmall     \* history: settings were reset while the page was small

lookVars == <<settings, loaded, stored, backup, isMobile, siderCollapse, fullContent,
              drawer, edits, chosen, lost, resetSmall>>
historyVars == <<chosen, lost, resetSmall>>

\* Of the settings only those that hide others, that exclude each other, or
\* that decide where menus are; sizes, animations and texts are left out.
SettingValues ==
  [themeScheme |-> {"light", "dark", "auto"}, grayscale |-> BOOLEAN, colourWeakness |-> BOOLEAN,
   recommendColor |-> BOOLEAN, themeColor |-> {"own", "other"}, isInfoFollowPrimary |-> BOOLEAN,
   mode |-> LayoutModes, scrollMode |-> {"content", "wrapper"}, animate |-> BOOLEAN,
   breadcrumb |-> BOOLEAN, showIcon |-> BOOLEAN, multilingual |-> BOOLEAN,
   globalSearch |-> BOOLEAN, tab |-> BOOLEAN, cache |-> BOOLEAN,
   closeTabByMiddleClick |-> BOOLEAN, fixedHeaderAndTab |-> BOOLEAN, inverted |-> BOOLEAN,
   autoSelectFirstMenu |-> BOOLEAN, footer |-> BOOLEAN, fixed |-> BOOLEAN, right |-> BOOLEAN,
   watermark |-> BOOLEAN, enableUserName |-> BOOLEAN, enableTime |-> BOOLEAN]
Settings(s) ==
  DOMAIN s = DOMAIN SettingValues /\ \A key \in DOMAIN s : s[key] \in SettingValues[key]

themeSettings ==
  [themeScheme |-> "light", grayscale |-> FALSE, colourWeakness |-> FALSE,
   recommendColor |-> FALSE, themeColor |-> "own", isInfoFollowPrimary |-> TRUE,
   mode |-> "vertical", scrollMode |-> "content", animate |-> TRUE,
   breadcrumb |-> TRUE, showIcon |-> TRUE, multilingual |-> TRUE, globalSearch |-> TRUE,
   tab |-> TRUE, cache |-> TRUE, closeTabByMiddleClick |-> FALSE,
   fixedHeaderAndTab |-> TRUE, inverted |-> FALSE, autoSelectFirstMenu |-> FALSE,
   footer |-> TRUE, fixed |-> FALSE, right |-> TRUE,
   watermark |-> FALSE, enableUserName |-> FALSE, enableTime |-> FALSE]

\* The presets of src/theme/preset, over the default settings.
Presets ==
  LET named(changed) == [key \in DOMAIN themeSettings |->
        IF key \in DOMAIN changed THEN changed[key] ELSE themeSettings[key]]
  IN {themeSettings,
      named([themeScheme |-> "dark"]),
      named([recommendColor |-> TRUE, themeColor |-> "other"]),
      named([breadcrumb |-> FALSE, multilingual |-> FALSE, globalSearch |-> FALSE,
             footer |-> FALSE])}

Backups == [layout : LayoutModes, siderCollapse : BOOLEAN]
ASSUME BackupConstants == NoBackup \notin Backups
OneWatermark(s) == ~(s.enableUserName /\ s.enableTime)

LookTypeOK ==
  /\ \A s \in {settings, loaded, stored} : Settings(s) /\ OneWatermark(s)
  /\ backup \in Backups \cup {NoBackup} /\ chosen \in Backups
  /\ isMobile => backup # NoBackup
  /\ {isMobile, siderCollapse, fullContent, drawer, lost, resetSmall} \subseteq BOOLEAN
  /\ edits \in 0..MaxEdits

---------------------------------------------------------------------------
(* The width of the window                                                 *)

\* watch(isMobile): the page of these settings becomes small, or wide again.
Shrunk(s) ==
  /\ isMobile' = TRUE
  /\ settings' = [s EXCEPT !.mode = "vertical"]
  /\ siderCollapse' = TRUE
PutAside(s, collapsed) == backup' = [layout |-> s.mode, siderCollapse |-> collapsed]

KeepsBackup == backup
Restored == NoBackup
Grown(s, collapsed) ==
  /\ isMobile' = FALSE
  /\ IF backup # NoBackup
     THEN /\ settings' = [s EXCEPT !.mode = backup.layout]
          /\ siderCollapse' = backup.siderCollapse
     ELSE settings' = s /\ siderCollapse' = collapsed
  /\ backup' = Restored

BecomeMobile ==
  /\ ~isMobile
  /\ Shrunk(settings) /\ PutAside(settings, siderCollapse)
  /\ resetSmall' = FALSE
  /\ UNCHANGED <<loaded, stored, fullContent, drawer, edits, chosen, lost>>

BecomeWide ==
  /\ isMobile
  /\ Grown(settings, siderCollapse)
  /\ resetSmall' = FALSE
  /\ UNCHANGED <<loaded, stored, fullContent, drawer, edits, chosen, lost>>

\* A page unloads, or dies without unloading, and one loads in a window that is
\* small or not.  What a small page put aside lasts; a wide page's choice is
\* what was stored.
Caches(saves) == IF saves THEN settings ELSE stored
LoadPage(saves, small) ==
  LET cached == Caches(saves) IN
  /\ stored' = cached /\ loaded' = cached
  /\ IF small THEN Shrunk(cached) /\ PutAside(cached, FALSE) ELSE Grown(cached, FALSE)
  /\ fullContent' = FALSE /\ drawer' = FALSE
  /\ chosen' = IF isMobile THEN chosen ELSE [layout |-> cached.mode, siderCollapse |-> FALSE]
  /\ lost' = (isMobile /\ (lost \/ small))
  /\ resetSmall' = FALSE
  /\ UNCHANGED edits

---------------------------------------------------------------------------
(* The header, the sider and the tab bar                                   *)

\* The toggler of the header or, in a sider with two levels, of the sider.
HasToggler ==
  \/ HeaderProps(settings.mode).showMenuToggler /\ ~fullContent
  \/ /\ ActiveMenu[settings.mode].mixed /\ ActiveMenu[settings.mode].place = "sider"
     /\ SiderShows(settings.mode, isMobile, siderCollapse) /\ (fullContent => isMobile)
SetSiderCollapse(collapsed) ==
  /\ siderCollapse' = collapsed
  /\ chosen' = IF isMobile THEN chosen ELSE [chosen EXCEPT !.siderCollapse = collapsed]
  /\ UNCHANGED <<settings, loaded, stored, backup, isMobile, fullContent, drawer, edits,
                 lost, resetSmall>>
ToggleSiderCollapse == ~drawer /\ HasToggler /\ SetSiderCollapse(~siderCollapse)
HandleClickMask ==
  /\ ~drawer /\ isMobile /\ ~siderCollapse /\ SiderVisible(settings.mode)
  /\ SetSiderCollapse(TRUE)

ToggleFullContent ==
  /\ ~drawer /\ settings.tab
  /\ fullContent' = ~fullContent
  /\ UNCHANGED <<settings, loaded, stored, backup, isMobile, siderCollapse, drawer, edits,
                 historyVars>>

ThemeDrawer ==
  /\ ~drawer => ~fullContent
  /\ drawer' = ~drawer
  /\ UNCHANGED <<settings, loaded, stored, backup, isMobile, siderCollapse, fullContent,
                 edits, historyVars>>

---------------------------------------------------------------------------
(* The theme drawer                                                        *)

\* What its forms offer for these settings; a system that is dark makes the
\* scheme "auto" dark.
ThemeSchema(s, dark) ==
  {"themeScheme", "grayscale", "colourWeakness"} \cup
  (IF ~dark /\ s.mode \in {"vertical", "vertical-mix", "vertical-hybrid-header-first"}
   THEN {"inverted"} ELSE {})
ThemeColor == {"recommendColor", "isInfoFollowPrimary", "themeColor"}
ContentSettings(s) ==
  {"scrollMode", "animate"} \cup (IF s.scrollMode = "wrapper" THEN {"fixedHeaderAndTab"} ELSE {})
HeaderSettings(s) == {"breadcrumb"} \cup (IF s.breadcrumb THEN {"showIcon"} ELSE {})
TabSettings(s) == {"tab"} \cup (IF s.tab THEN {"cache", "closeTabByMiddleClick"} ELSE {})
SiderSettings(s) ==
  IF s.mode \in {"vertical", "vertical-mix", "horizontal"} THEN {} ELSE {"autoSelectFirstMenu"}
FooterSettings(s) ==
  {"footer"} \cup
  (IF s.footer /\ s.scrollMode = "wrapper" THEN {"fixed"} ELSE {}) \cup
  (IF s.footer /\ s.mode \in {"top-hybrid-sidebar-first", "top-hybrid-header-first"}
   THEN {"right"} ELSE {})
GlobalSettings == {"multilingual", "globalSearch"}
WatermarkSettings(s) ==
  {"watermark"} \cup (IF s.watermark THEN {"enableUserName", "enableTime"} ELSE {})

DarkMode(s, osDark) == s.themeScheme = "dark" \/ (s.themeScheme = "auto" /\ osDark)
InDrawer(s, osDark) ==
  ThemeSchema(s, DarkMode(s, osDark)) \cup ThemeColor \cup ContentSettings(s) \cup
  HeaderSettings(s) \cup TabSettings(s) \cup SiderSettings(s) \cup FooterSettings(s) \cup
  GlobalSettings \cup WatermarkSettings(s)

\* A change of the settings, and what it means for the wide page's layout.
Changed(s) ==
  /\ drawer
  /\ edits < MaxEdits /\ edits' = edits + 1
  /\ settings' = s
  /\ chosen' = IF isMobile THEN chosen ELSE [chosen EXCEPT !.layout = s.mode]
  /\ UNCHANGED <<loaded, stored, backup, isMobile, siderCollapse, fullContent, drawer, lost>>

\* The two setters of the watermark's content switch each other off.
BothOn(s, key, on) == [s EXCEPT ![key] = on]
SetSwitch(s, key, on) ==
  LET other == CASE key = "enableUserName" /\ on -> "enableTime"
                 [] key = "enableTime" /\ on -> "enableUserName"
                 [] OTHER -> key
  IN [s EXCEPT ![other] = FALSE, ![key] = on]
ChangeSetting(key, osDark) ==
  /\ key \in InDrawer(settings, osDark)
  /\ \E on \in SettingValues[key] \ {settings[key]} : Changed(SetSwitch(settings, key, on))
  /\ UNCHANGED resetSmall

AlwaysEnabled == TRUE
LayoutModeEnabled == ~isMobile
ChooseLayout(mode) ==
  /\ LayoutModeEnabled
  /\ Changed([settings EXCEPT !.mode = mode])
  /\ UNCHANGED resetSmall

ApplyPreset(preset) ==
  /\ Changed(preset)
  /\ resetSmall' = FALSE

\* $reset: back to what was loaded, not to the defaults.
HandleReset ==
  /\ Changed(loaded)
  /\ resetSmall' = isMobile

\* The switch of the header.
ToggleThemeScheme ==
  /\ ~drawer /\ ~fullContent
  /\ edits < MaxEdits /\ edits' = edits + 1
  /\ settings' = [settings EXCEPT !.themeScheme =
                    CASE @ = "light" -> "dark" [] @ = "dark" -> "auto" [] @ = "auto" -> "light"]
  /\ UNCHANGED <<loaded, stored, backup, isMobile, siderCollapse, fullContent, drawer,
                 historyVars>>

---------------------------------------------------------------------------

\* The console is opened for the first time, in a wide window.
LookInit ==
  /\ settings = themeSettings /\ loaded = themeSettings /\ stored = themeSettings
  /\ backup = NoBackup
  /\ isMobile = FALSE /\ siderCollapse = FALSE /\ fullContent = FALSE /\ drawer = FALSE
  /\ edits = 0
  /\ chosen = [layout |-> themeSettings.mode, siderCollapse |-> FALSE]
  /\ lost = FALSE /\ resetSmall = FALSE

LookNext ==
  \/ BecomeMobile \/ BecomeWide
  \/ \E saves, small \in BOOLEAN : LoadPage(saves, small)
  \/ ToggleSiderCollapse \/ HandleClickMask \/ ToggleFullContent \/ ThemeDrawer
  \/ \E key \in Touched, osDark \in BOOLEAN : ChangeSetting(key, osDark)
  \/ \E mode \in LayoutModes : ChooseLayout(mode)
  \/ \E preset \in Presets : ApplyPreset(preset)
  \/ HandleReset \/ ToggleThemeScheme

LookSpec == LookInit /\ [][LookNext]_lookVars

---------------------------------------------------------------------------
(* Properties                                                              *)

\* A wide page has the layout and the sider that the last wide page was left
\* with, however often the window shrank, grew, was closed or died meanwhile,
\* unless a small page was loaded again while it was small.
LayoutComesBack ==
  ~isMobile /\ ~lost =>
    /\ backup = NoBackup
    /\ chosen = [layout |-> settings.mode, siderCollapse |-> siderCollapse]

\* The app store's claim: a page that is no longer small recovers what was put
\* aside before it was.  A small page that is loaded again puts aside "vertical".
LayoutRecovered == ~isMobile => settings.mode = chosen.layout

\* There is always a way to the menus: they or their toggler are shown, or the
\* tab bar is, which ends the full content; settings that are reset on a small
\* page may be those of a layout without a toggler.
MenusInReach ==
  IF fullContent THEN settings.tab
  ELSE resetSmall \/ MenusShow(settings.mode, isMobile, siderCollapse)
=============================================================================
