-------------------------- MODULE ConsoleLookProofs --------------------------
(***************************************************************************)
(* Proofs about ConsoleLook: that the layout of a wide page comes back and *)
(* that the menus stay in reach, for any number of changes of any settings.*)
(***************************************************************************)
EXTENDS ConsoleLook, TLAPS

SettingsOK(s) == Settings(s) /\ OneWatermark(s)

\* A wide page has put nothing aside, and a small one what the wide one had; the
\* drawer covers the button of the full content; a small page has the layout
\* with a toggler, but for a reset.
LookInv ==
  /\ LookTypeOK
  /\ ~isMobile => backup = NoBackup
  /\ ~lost => chosen = IF isMobile THEN backup
                       ELSE [layout |-> settings.mode, siderCollapse |-> siderCollapse]
  /\ drawer => ~fullContent
  /\ fullContent => settings.tab
  /\ isMobile /\ ~resetSmall => settings.mode = "vertical"

---------------------------------------------------------------------------
(* Settings                                                                *)

\* The default settings are settings.
LEMMA DefaultsOK ==
  SettingsOK(themeSettings) /\ themeSettings.mode = "vertical" /\ themeSettings.tab = TRUE
<1>1. DOMAIN themeSettings = DOMAIN SettingValues
  BY DEF themeSettings, SettingValues
<1>2. DOMAIN themeSettings =
      {"themeScheme", "grayscale", "colourWeakness", "recommendColor", "themeColor",
       "isInfoFollowPrimary", "mode", "scrollMode", "animate", "breadcrumb",
       "showIcon", "multilingual", "globalSearch", "tab", "cache",
       "closeTabByMiddleClick", "fixedHeaderAndTab", "inverted", "autoSelectFirstMenu", "footer",
       "fixed", "right", "watermark", "enableUserName", "enableTime"}
  BY DEF themeSettings
<1>3.
      /\ themeSettings["themeScheme"] \in SettingValues["themeScheme"]
      /\ themeSettings["grayscale"] \in SettingValues["grayscale"]
      /\ themeSettings["colourWeakness"] \in SettingValues["colourWeakness"]
      /\ themeSettings["recommendColor"] \in SettingValues["recommendColor"]
      /\ themeSettings["themeColor"] \in SettingValues["themeColor"]
      /\ themeSettings["isInfoFollowPrimary"] \in SettingValues["isInfoFollowPrimary"]
      /\ themeSettings["mode"] \in SettingValues["mode"]
      /\ themeSettings["scrollMode"] \in SettingValues["scrollMode"]
      /\ themeSettings["animate"] \in SettingValues["animate"]
      /\ themeSettings["breadcrumb"] \in SettingValues["breadcrumb"]
      /\ themeSettings["showIcon"] \in SettingValues["showIcon"]
      /\ themeSettings["multilingual"] \in SettingValues["multilingual"]
      /\ themeSettings["globalSearch"] \in SettingValues["globalSearch"]
      /\ themeSettings["tab"] \in SettingValues["tab"]
      /\ themeSettings["cache"] \in SettingValues["cache"]
      /\ themeSettings["closeTabByMiddleClick"] \in SettingValues["closeTabByMiddleClick"]
      /\ themeSettings["fixedHeaderAndTab"] \in SettingValues["fixedHeaderAndTab"]
      /\ themeSettings["inverted"] \in SettingValues["inverted"]
      /\ themeSettings["autoSelectFirstMenu"] \in SettingValues["autoSelectFirstMenu"]
      /\ themeSettings["footer"] \in SettingValues["footer"]
      /\ themeSettings["fixed"] \in SettingValues["fixed"]
      /\ themeSettings["right"] \in SettingValues["right"]
      /\ themeSettings["watermark"] \in SettingValues["watermark"]
      /\ themeSettings["enableUserName"] \in SettingValues["enableUserName"]
      /\ themeSettings["enableTime"] \in SettingValues["enableTime"]
  BY DEF themeSettings, SettingValues, LayoutModes
<1>4. \A key \in DOMAIN themeSettings : themeSettings[key] \in SettingValues[key]
  BY <1>2, <1>3
<1>5. themeSettings.enableUserName = FALSE /\ themeSettings.mode = "vertical"
      /\ themeSettings.tab = TRUE
  BY DEF themeSettings
<1> QED BY <1>1, <1>4, <1>5 DEF SettingsOK, Settings, OneWatermark

\* So are the presets, and each has the layout with a toggler.
LEMMA PresetsOK ==
  ASSUME NEW preset \in Presets PROVE SettingsOK(preset) /\ preset.mode = "vertical"
<1> DEFINE named(changed) == [key \in DOMAIN themeSettings |->
             IF key \in DOMAIN changed THEN changed[key] ELSE themeSettings[key]]
           dark == [themeScheme |-> "dark"]
           colours == [recommendColor |-> TRUE, themeColor |-> "other"]
           compact == [breadcrumb |-> FALSE, multilingual |-> FALSE, globalSearch |-> FALSE,
                       footer |-> FALSE]
<1>1. preset \in {themeSettings, named(dark), named(colours), named(compact)}
  BY DEF Presets
<1>2. /\ {"mode", "enableUserName", "enableTime"} \subseteq DOMAIN themeSettings
      /\ themeSettings["enableUserName"] = FALSE /\ themeSettings["mode"] = "vertical"
  BY DEF themeSettings
<1>3. ASSUME NEW changed, "mode" \notin DOMAIN changed, "enableUserName" \notin DOMAIN changed,
             \A key \in DOMAIN changed : changed[key] \in SettingValues[key]
      PROVE  SettingsOK(named(changed)) /\ named(changed).mode = "vertical"
  <2>1. Settings(themeSettings)
    BY DefaultsOK DEF SettingsOK
  <2>2. Settings(named(changed))
    BY <1>3, <2>1 DEF Settings
  <2>3. named(changed)["mode"] = "vertical" /\ named(changed)["enableUserName"] = FALSE
    BY <1>2, <1>3
  <2>4. named(changed).mode = named(changed)["mode"]
        /\ named(changed).enableUserName = named(changed)["enableUserName"]
    OBVIOUS
  <2> HIDE DEF named
  <2> QED BY <2>2, <2>3, <2>4 DEF SettingsOK, OneWatermark
<1>4. SettingsOK(named(dark)) /\ named(dark).mode = "vertical"
  <2>1. DOMAIN dark = {"themeScheme"} /\ dark["themeScheme"] \in SettingValues["themeScheme"]
    BY DEF SettingValues
  <2> HIDE DEF dark, named
  <2> QED BY <1>3, <2>1
<1>5. SettingsOK(named(colours)) /\ named(colours).mode = "vertical"
  <2>1. /\ DOMAIN colours = {"recommendColor", "themeColor"}
        /\ colours["recommendColor"] \in SettingValues["recommendColor"]
        /\ colours["themeColor"] \in SettingValues["themeColor"]
    BY DEF SettingValues
  <2> HIDE DEF colours, named
  <2> QED BY <1>3, <2>1
<1>6. SettingsOK(named(compact)) /\ named(compact).mode = "vertical"
  <2>1. /\ DOMAIN compact = {"breadcrumb", "multilingual", "globalSearch", "footer"}
        /\ compact["breadcrumb"] \in SettingValues["breadcrumb"]
        /\ compact["multilingual"] \in SettingValues["multilingual"]
        /\ compact["globalSearch"] \in SettingValues["globalSearch"]
        /\ compact["footer"] \in SettingValues["footer"]
    BY DEF SettingValues
  <2> HIDE DEF compact, named
  <2> QED BY <1>3, <2>1
<1> HIDE DEF named
<1> QED BY <1>1, <1>4, <1>5, <1>6, DefaultsOK

\* A layout that is chosen leaves the other settings alone.
LEMMA ModeSet ==
  ASSUME NEW s, SettingsOK(s), NEW mode \in LayoutModes
  PROVE  /\ SettingsOK([s EXCEPT !.mode = mode])
         /\ [s EXCEPT !.mode = mode].mode = mode /\ [s EXCEPT !.mode = mode].tab = s.tab
<1> DEFINE t == [s EXCEPT !.mode = mode]
<1>1. SettingValues["mode"] = LayoutModes
      /\ {"mode", "tab", "enableUserName", "enableTime"} \subseteq DOMAIN SettingValues
  BY DEF SettingValues
<1>2. DOMAIN s = DOMAIN SettingValues /\ \A key \in DOMAIN s : s[key] \in SettingValues[key]
  BY DEF SettingsOK, Settings
<1>3. DOMAIN t = DOMAIN s /\ t["mode"] = mode
      /\ \A key \in DOMAIN s \ {"mode"} : t[key] = s[key]
  BY <1>1, <1>2
<1>4. t.mode = t["mode"] /\ t.tab = t["tab"] /\ s.tab = s["tab"]
      /\ t.enableUserName = t["enableUserName"] /\ t.enableTime = t["enableTime"]
      /\ s.enableUserName = s["enableUserName"] /\ s.enableTime = s["enableTime"]
  OBVIOUS
<1> HIDE DEF t
<1>5. Settings(t)
  BY <1>1, <1>2, <1>3 DEF Settings
<1>6. t.enableUserName = s.enableUserName /\ t.enableTime = s.enableTime /\ t.tab = s.tab
      /\ t.mode = mode
  BY <1>1, <1>2, <1>3, <1>4
<1>7. SettingsOK(t)
  BY <1>5, <1>6 DEF SettingsOK, OneWatermark
<1> QED BY <1>6, <1>7 DEF t

\* The switches of the drawer keep the settings settings, and the two contents
\* of the watermark apart.
LEMMA SwitchSet ==
  ASSUME NEW s, SettingsOK(s), NEW key, NEW on \in SettingValues[key]
  PROVE  /\ SettingsOK(SetSwitch(s, key, on))
         /\ key # "mode" => SetSwitch(s, key, on).mode = s.mode
<1> DEFINE other == CASE key = "enableUserName" /\ on -> "enableTime"
                      [] key = "enableTime" /\ on -> "enableUserName"
                      [] OTHER -> key
           t == [s EXCEPT ![other] = FALSE, ![key] = on]
<1>1. /\ SettingValues["enableUserName"] = BOOLEAN /\ SettingValues["enableTime"] = BOOLEAN
      /\ {"mode", "enableUserName", "enableTime"} \subseteq DOMAIN SettingValues
  BY DEF SettingValues
<1>2. DOMAIN s = DOMAIN SettingValues /\ \A k \in DOMAIN s : s[k] \in SettingValues[k]
  BY DEF SettingsOK, Settings
<1>3. SetSwitch(s, key, on) = t
  BY DEF SetSwitch
<1>4. other \in {"enableTime", "enableUserName", key}
  OBVIOUS
<1>5. /\ key = "enableUserName" /\ on => other = "enableTime"
      /\ key = "enableTime" /\ on => other = "enableUserName"
      /\ key \notin {"enableUserName", "enableTime"} => other = key
  OBVIOUS
<1> HIDE DEF other
<1>6. DOMAIN t = DOMAIN s
      /\ \A k \in DOMAIN s : t[k] = IF k = key THEN on ELSE IF k = other THEN FALSE ELSE s[k]
  OBVIOUS
<1>7. t.mode = t["mode"] /\ s.mode = s["mode"]
      /\ t.enableUserName = t["enableUserName"] /\ t.enableTime = t["enableTime"]
      /\ s.enableUserName = s["enableUserName"] /\ s.enableTime = s["enableTime"]
  OBVIOUS
<1> HIDE DEF t
<1>8. Settings(t)
  <2>1. ASSUME NEW k \in DOMAIN s PROVE t[k] \in SettingValues[k]
    <3>1. CASE k = key BY <1>6, <3>1
    <3>2. CASE k # key /\ k = other BY <1>1, <1>4, <1>6, <3>2
    <3>3. CASE k # key /\ k # other BY <1>2, <1>6, <3>3
    <3> QED BY <3>1, <3>2, <3>3
  <2> QED BY <1>2, <1>6, <2>1 DEF Settings
<1>9. OneWatermark(t)
  <2>1. ~(s["enableUserName"] /\ s["enableTime"])
    BY <1>7 DEF SettingsOK, OneWatermark
  <2>2. ~(t["enableUserName"] /\ t["enableTime"])
    BY <1>1, <1>2, <1>5, <1>6, <2>1
  <2> QED BY <1>7, <2>2 DEF OneWatermark
<1>10. key # "mode" => t.mode = s.mode
  <2>1. key # "mode" => other # "mode"
    BY <1>4
  <2> QED BY <1>1, <1>2, <1>6, <1>7, <2>1
<1> QED BY <1>3, <1>8, <1>9, <1>10 DEF SettingsOK

---------------------------------------------------------------------------
(* The width of the window                                                 *)

\* What the type invariant says of each part.
LEMMA LookParts ==
  LookTypeOK <=>
    /\ SettingsOK(settings) /\ SettingsOK(loaded) /\ SettingsOK(stored)
    /\ backup \in Backups \cup {NoBackup} /\ chosen \in Backups
    /\ isMobile => backup # NoBackup
    /\ isMobile \in BOOLEAN /\ siderCollapse \in BOOLEAN /\ fullContent \in BOOLEAN
    /\ drawer \in BOOLEAN /\ lost \in BOOLEAN /\ resetSmall \in BOOLEAN
    /\ edits \in 0..MaxEdits
BY DEF LookTypeOK, SettingsOK

\* So after a step.
LEMMA LookPartsNext ==
  LookTypeOK' <=>
    /\ SettingsOK(settings') /\ SettingsOK(loaded') /\ SettingsOK(stored')
    /\ backup' \in Backups \cup {NoBackup} /\ chosen' \in Backups
    /\ isMobile' => backup' # NoBackup
    /\ isMobile' \in BOOLEAN /\ siderCollapse' \in BOOLEAN /\ fullContent' \in BOOLEAN
    /\ drawer' \in BOOLEAN /\ lost' \in BOOLEAN /\ resetSmall' \in BOOLEAN
    /\ edits' \in 0..MaxEdits
BY DEF LookTypeOK, SettingsOK

\* What is put aside is a layout.
LEMMA PutAsideOK ==
  ASSUME NEW s, SettingsOK(s), NEW collapsed \in BOOLEAN
  PROVE  /\ [layout |-> s.mode, siderCollapse |-> collapsed] \in Backups
         /\ [layout |-> s.mode, siderCollapse |-> collapsed] # NoBackup
         /\ s.mode \in LayoutModes
<1>1. s["mode"] \in LayoutModes
  BY DEF SettingsOK, Settings, SettingValues
<1>2. s.mode = s["mode"]
  OBVIOUS
<1>3. [layout |-> s.mode, siderCollapse |-> collapsed] \in Backups
  BY <1>1, <1>2 DEF Backups
<1> QED BY <1>1, <1>2, <1>3, BackupConstants

\* The window shrinks.
LEMMA BecomeMobileStep == LookInv /\ BecomeMobile => LookInv'
<1> SUFFICES ASSUME LookInv, BecomeMobile PROVE LookInv'
  OBVIOUS
<1>1. SettingsOK(settings) /\ siderCollapse \in BOOLEAN /\ ~isMobile
  BY LookParts DEF LookInv, BecomeMobile
<1>2. "vertical" \in LayoutModes
  BY DEF LayoutModes
<1>3. /\ isMobile' = TRUE /\ settings' = [settings EXCEPT !.mode = "vertical"]
      /\ siderCollapse' = TRUE /\ resetSmall' = FALSE
      /\ backup' = [layout |-> settings.mode, siderCollapse |-> siderCollapse]
      /\ UNCHANGED <<loaded, stored, fullContent, drawer, edits, chosen, lost>>
  BY DEF BecomeMobile, Shrunk, PutAside
<1>4. SettingsOK(settings') /\ settings'.mode = "vertical" /\ settings'.tab = settings.tab
  BY <1>1, <1>2, <1>3, ModeSet
<1>5. backup' \in Backups /\ backup' # NoBackup
  BY <1>1, <1>3, PutAsideOK
<1>6. LookTypeOK'
  BY <1>3, <1>4, <1>5, LookParts, LookPartsNext DEF LookInv
<1>7. ~lost => chosen = [layout |-> settings.mode, siderCollapse |-> siderCollapse]
  BY <1>1 DEF LookInv
<1> QED BY <1>3, <1>4, <1>6, <1>7 DEF LookInv

\* A page that grows has what was put aside.
LEMMA GrownOK ==
  ASSUME NEW s, SettingsOK(s), NEW collapsed \in BOOLEAN, Grown(s, collapsed),
         backup \in Backups \cup {NoBackup}
  PROVE  /\ SettingsOK(settings') /\ siderCollapse' \in BOOLEAN
         /\ isMobile' = FALSE /\ backup' = NoBackup /\ settings'.tab = s.tab
         /\ [layout |-> settings'.mode, siderCollapse |-> siderCollapse'] =
              IF backup # NoBackup THEN backup ELSE [layout |-> s.mode, siderCollapse |-> collapsed]
<1>1. isMobile' = FALSE /\ backup' = NoBackup
  BY DEF Grown, Restored
<1>2. CASE backup # NoBackup
  <2>1. backup \in [layout : LayoutModes, siderCollapse : BOOLEAN]
    BY <1>2 DEF Backups
  <2>2. settings' = [s EXCEPT !.mode = backup.layout] /\ siderCollapse' = backup.siderCollapse
    BY <1>2 DEF Grown
  <2>3. backup.layout \in LayoutModes /\ backup.siderCollapse \in BOOLEAN
        /\ backup = [layout |-> backup.layout, siderCollapse |-> backup.siderCollapse]
    BY <2>1
  <2>4. SettingsOK(settings') /\ settings'.mode = backup.layout /\ settings'.tab = s.tab
    BY <2>2, <2>3, ModeSet
  <2>5. [layout |-> settings'.mode, siderCollapse |-> siderCollapse'] = backup
    BY <2>2, <2>3, <2>4
  <2> QED BY <1>1, <1>2, <2>2, <2>3, <2>4, <2>5
<1>3. CASE backup = NoBackup
  BY <1>1, <1>3 DEF Grown
<1> QED BY <1>2, <1>3

\* The window grows.
LEMMA BecomeWideStep == LookInv /\ BecomeWide => LookInv'
<1> SUFFICES ASSUME LookInv, BecomeWide PROVE LookInv'
  OBVIOUS
<1>1. /\ SettingsOK(settings) /\ siderCollapse \in BOOLEAN /\ isMobile /\ backup # NoBackup
      /\ backup \in Backups \cup {NoBackup}
  BY LookParts DEF LookInv, BecomeWide
<1>2. /\ Grown(settings, siderCollapse) /\ resetSmall' = FALSE
      /\ UNCHANGED <<loaded, stored, fullContent, drawer, edits, chosen, lost>>
  BY DEF BecomeWide
<1>3. /\ SettingsOK(settings') /\ siderCollapse' \in BOOLEAN
      /\ isMobile' = FALSE /\ backup' = NoBackup /\ settings'.tab = settings.tab
      /\ [layout |-> settings'.mode, siderCollapse |-> siderCollapse'] = backup
  BY <1>1, <1>2, GrownOK
<1>4. LookTypeOK'
  BY <1>2, <1>3, LookParts, LookPartsNext DEF LookInv
<1> QED BY <1>1, <1>2, <1>3, <1>4 DEF LookInv

\* A page unloads or dies, and another one loads.
LEMMA LoadPageStep ==
  ASSUME LookInv, NEW saves \in BOOLEAN, NEW small \in BOOLEAN, LoadPage(saves, small)
  PROVE  LookInv'
<1> DEFINE cached == Caches(saves)
<1>1. /\ SettingsOK(settings) /\ SettingsOK(stored) /\ isMobile \in BOOLEAN /\ lost \in BOOLEAN
      /\ backup \in Backups \cup {NoBackup} /\ chosen \in Backups /\ edits \in 0..MaxEdits
      /\ (isMobile => backup # NoBackup) /\ (~isMobile => backup = NoBackup)
  BY LookParts DEF LookInv
<1>2. SettingsOK(cached)
  BY <1>1 DEF Caches
<1>3. /\ stored' = cached /\ loaded' = cached
      /\ (IF small THEN Shrunk(cached) /\ PutAside(cached, FALSE) ELSE Grown(cached, FALSE))
      /\ fullContent' = FALSE /\ drawer' = FALSE
      /\ chosen' = (IF isMobile THEN chosen ELSE [layout |-> cached.mode, siderCollapse |-> FALSE])
      /\ lost' = (isMobile /\ (lost \/ small))
      /\ resetSmall' = FALSE /\ edits' = edits
  BY DEF LoadPage
<1> HIDE DEF cached
<1>4. [layout |-> cached.mode, siderCollapse |-> FALSE] \in Backups
      /\ [layout |-> cached.mode, siderCollapse |-> FALSE] # NoBackup
  BY <1>2, PutAsideOK
<1>5. chosen' \in Backups
  BY <1>1, <1>3, <1>4
<1>6. lost' \in BOOLEAN
  BY <1>3
<1>7. CASE small
  <2>1. /\ isMobile' = TRUE /\ settings' = [cached EXCEPT !.mode = "vertical"]
        /\ siderCollapse' = TRUE
        /\ backup' = [layout |-> cached.mode, siderCollapse |-> FALSE]
    BY <1>3, <1>7 DEF Shrunk, PutAside
  <2>2. "vertical" \in LayoutModes
    BY DEF LayoutModes
  <2>3. SettingsOK(settings') /\ settings'.mode = "vertical"
    BY <1>2, <2>1, <2>2, ModeSet
  <2>4. LookTypeOK'
    BY <1>1, <1>2, <1>3, <1>4, <1>5, <1>6, <2>1, <2>3, LookPartsNext
  <2>5. ~lost' => chosen' = backup'
    BY <1>3, <1>7, <2>1
  <2> QED BY <1>3, <2>1, <2>3, <2>4, <2>5 DEF LookInv
<1>8. CASE ~small
  <2>1. /\ SettingsOK(settings') /\ siderCollapse' \in BOOLEAN
        /\ isMobile' = FALSE /\ backup' = NoBackup
        /\ [layout |-> settings'.mode, siderCollapse |-> siderCollapse'] =
             IF backup # NoBackup THEN backup ELSE [layout |-> cached.mode, siderCollapse |-> FALSE]
    BY <1>1, <1>2, <1>3, <1>8, GrownOK
  <2>2. LookTypeOK'
    BY <1>1, <1>2, <1>3, <1>5, <1>6, <2>1, LookPartsNext
  <2>3. ~lost' => chosen' = [layout |-> settings'.mode, siderCollapse |-> siderCollapse']
    <3>1. CASE isMobile
      <4>1. ~lost => chosen = backup
        BY <3>1 DEF LookInv
      <4> QED BY <1>1, <1>3, <2>1, <3>1, <4>1
    <3>2. CASE ~isMobile
      BY <1>1, <1>3, <2>1, <3>2
    <3> QED BY <3>1, <3>2
  <2> QED BY <1>3, <2>1, <2>2, <2>3 DEF LookInv
<1> QED BY <1>7, <1>8

---------------------------------------------------------------------------
(* The header, the sider and the tab bar                                   *)

\* A layout of which one part changes.
LEMMA ChosenParts ==
  ASSUME NEW c \in Backups, NEW mode \in LayoutModes, NEW collapsed \in BOOLEAN
  PROVE  /\ [c EXCEPT !.siderCollapse = collapsed] \in Backups
         /\ [c EXCEPT !.layout = mode] \in Backups
         /\ [c EXCEPT !.siderCollapse = collapsed] =
              [layout |-> c.layout, siderCollapse |-> collapsed]
         /\ [c EXCEPT !.layout = mode] = [layout |-> mode, siderCollapse |-> c.siderCollapse]
BY DEF Backups

\* The sider of a wide page is its user's.
LEMMA SetSiderCollapseStep ==
  ASSUME LookInv, NEW collapsed \in BOOLEAN, SetSiderCollapse(collapsed)
  PROVE  LookInv'
<1>1. /\ siderCollapse' = collapsed
      /\ chosen' = (IF isMobile THEN chosen ELSE [chosen EXCEPT !.siderCollapse = collapsed])
      /\ UNCHANGED <<settings, loaded, stored, backup, isMobile, fullContent, drawer, edits,
                     lost, resetSmall>>
  BY DEF SetSiderCollapse
<1>2. chosen \in Backups
  BY LookParts DEF LookInv
<1>3. "vertical" \in LayoutModes
  BY DEF LayoutModes
<1>4. [chosen EXCEPT !.siderCollapse = collapsed] \in Backups
      /\ [chosen EXCEPT !.siderCollapse = collapsed] =
           [layout |-> chosen.layout, siderCollapse |-> collapsed]
  BY <1>2, <1>3, ChosenParts
<1>5. LookTypeOK'
  BY <1>1, <1>2, <1>4, LookParts, LookPartsNext DEF LookInv
<1>6. ~lost => chosen' = IF isMobile THEN backup
                         ELSE [layout |-> settings.mode, siderCollapse |-> collapsed]
  <2>1. CASE isMobile
    BY <1>1, <2>1 DEF LookInv
  <2>2. CASE ~isMobile
    <3>1. ~lost => chosen = [layout |-> settings.mode, siderCollapse |-> siderCollapse]
      BY <2>2 DEF LookInv
    <3>2. ~lost => chosen.layout = settings.mode
      BY <3>1
    <3> QED BY <1>1, <1>4, <2>2, <3>2
  <2> QED BY <2>1, <2>2
<1>7. /\ ~isMobile => backup = NoBackup
      /\ drawer => ~fullContent
      /\ fullContent => settings.tab
      /\ isMobile /\ ~resetSmall => settings.mode = "vertical"
  BY DEF LookInv
<1> QED BY <1>1, <1>5, <1>6, <1>7 DEF LookInv

\* Its togglers.
LEMMA SiderSteps == LookInv /\ (ToggleSiderCollapse \/ HandleClickMask) => LookInv'
<1>1. (~siderCollapse) \in BOOLEAN /\ TRUE \in BOOLEAN
  OBVIOUS
<1>2. ASSUME LookInv, ToggleSiderCollapse PROVE LookInv'
  BY <1>1, <1>2, SetSiderCollapseStep DEF ToggleSiderCollapse
<1>3. ASSUME LookInv, HandleClickMask PROVE LookInv'
  BY <1>1, <1>3, SetSiderCollapseStep DEF HandleClickMask
<1> QED BY <1>2, <1>3

\* The full content, which needs the tab bar, and the drawer, which needs the
\* header, exclude each other.
LEMMA CoverSteps == LookInv /\ (ToggleFullContent \/ ThemeDrawer) => LookInv'
<1> SUFFICES ASSUME LookInv, ToggleFullContent \/ ThemeDrawer PROVE LookInv'
  OBVIOUS
<1>1. /\ UNCHANGED <<settings, loaded, stored, backup, isMobile, siderCollapse, edits,
                     chosen, lost, resetSmall>>
      /\ \/ ~drawer /\ settings.tab /\ fullContent' = ~fullContent /\ drawer' = drawer
         \/ (~drawer => ~fullContent) /\ fullContent' = fullContent /\ drawer' = ~drawer
  BY DEF ToggleFullContent, ThemeDrawer, historyVars
<1>2. fullContent \in BOOLEAN /\ drawer \in BOOLEAN
  BY LookParts DEF LookInv
<1>3. fullContent' \in BOOLEAN /\ drawer' \in BOOLEAN
  BY <1>1, <1>2
<1>4. LookTypeOK'
  BY <1>1, <1>3, LookParts, LookPartsNext DEF LookInv
<1>5. (drawer => ~fullContent) /\ (fullContent => settings.tab)
  BY DEF LookInv
<1>6. (drawer' => ~fullContent') /\ (fullContent' => settings.tab)
  BY <1>1, <1>2, <1>5
<1> QED BY <1>1, <1>4, <1>6 DEF LookInv

---------------------------------------------------------------------------
(* The theme drawer                                                        *)

\* Settings are changed in the drawer, which the full content has no button for.
\* A small page keeps the layout with a toggler, but for a reset.
LEMMA ChangedStep ==
  ASSUME LookInv, NEW s, SettingsOK(s), Changed(s), resetSmall' \in BOOLEAN,
         isMobile /\ ~resetSmall' => s.mode = "vertical"
  PROVE  LookInv'
<1>1. /\ drawer /\ edits < MaxEdits /\ edits' = edits + 1 /\ settings' = s
      /\ chosen' = (IF isMobile THEN chosen ELSE [chosen EXCEPT !.layout = s.mode])
      /\ UNCHANGED <<loaded, stored, backup, isMobile, siderCollapse, fullContent, drawer, lost>>
  BY DEF Changed
<1>2. chosen \in Backups /\ siderCollapse \in BOOLEAN /\ edits \in 0..MaxEdits
  BY LookParts DEF LookInv
<1>3. edits' \in 0..MaxEdits
  BY <1>1, <1>2, LookConstants
<1>4. s.mode \in LayoutModes
  BY <1>2, PutAsideOK
<1>5. [chosen EXCEPT !.layout = s.mode] \in Backups
      /\ [chosen EXCEPT !.layout = s.mode] =
           [layout |-> s.mode, siderCollapse |-> chosen.siderCollapse]
  BY <1>2, <1>4, ChosenParts
<1>6. LookTypeOK'
  BY <1>1, <1>2, <1>3, <1>5, LookParts, LookPartsNext DEF LookInv
<1>7. ~lost => chosen' = IF isMobile THEN backup
                         ELSE [layout |-> s.mode, siderCollapse |-> siderCollapse]
  <2>1. CASE isMobile
    BY <1>1, <2>1 DEF LookInv
  <2>2. CASE ~isMobile
    <3>1. ~lost => chosen = [layout |-> settings.mode, siderCollapse |-> siderCollapse]
      BY <2>2 DEF LookInv
    <3>2. ~lost => chosen.siderCollapse = siderCollapse
      BY <3>1
    <3> QED BY <1>1, <1>5, <2>2, <3>2
  <2> QED BY <2>1, <2>2
<1>8. (~isMobile => backup = NoBackup) /\ ~fullContent
  BY <1>1 DEF LookInv
<1> QED BY <1>1, <1>6, <1>7, <1>8 DEF LookInv

\* The layout is not among the settings of the forms.
LEMMA LayoutNotInDrawer == ASSUME NEW s, NEW osDark PROVE "mode" \notin InDrawer(s, osDark)
BY DEF InDrawer, ThemeSchema, ThemeColor, ContentSettings, HeaderSettings, TabSettings,
       SiderSettings, FooterSettings, GlobalSettings, WatermarkSettings

\* A setting is changed.
LEMMA ChangeSettingStep ==
  ASSUME LookInv, NEW key, NEW osDark, ChangeSetting(key, osDark)
  PROVE  LookInv'
<1>1. PICK on \in SettingValues[key] : Changed(SetSwitch(settings, key, on))
  BY DEF ChangeSetting
<1>2. key # "mode" /\ resetSmall' = resetSmall
  BY LayoutNotInDrawer DEF ChangeSetting
<1>3. SettingsOK(settings) /\ resetSmall \in BOOLEAN
      /\ (isMobile /\ ~resetSmall => settings.mode = "vertical")
  BY LookParts DEF LookInv
<1> DEFINE s == SetSwitch(settings, key, on)
<1>4. SettingsOK(s) /\ s.mode = settings.mode
  BY <1>2, <1>3, SwitchSet
<1> HIDE DEF s
<1>5. Changed(s)
  BY <1>1 DEF s
<1> QED BY <1>2, <1>3, <1>4, <1>5, ChangedStep

\* A layout is chosen, on a wide page.
LEMMA ChooseLayoutStep ==
  ASSUME LookInv, NEW mode \in LayoutModes, ChooseLayout(mode)
  PROVE  LookInv'
<1> DEFINE s == [settings EXCEPT !.mode = mode]
<1>1. SettingsOK(settings) /\ resetSmall \in BOOLEAN
  BY LookParts DEF LookInv
<1>2. SettingsOK(s)
  BY <1>1, ModeSet
<1>3. Changed(s) /\ ~isMobile /\ resetSmall' = resetSmall
  BY DEF ChooseLayout, LayoutModeEnabled
<1> HIDE DEF s
<1> QED BY <1>1, <1>2, <1>3, ChangedStep

\* A preset is applied.
LEMMA ApplyPresetStep ==
  ASSUME LookInv, NEW preset \in Presets, ApplyPreset(preset)
  PROVE  LookInv'
<1>1. SettingsOK(preset) /\ preset.mode = "vertical"
  BY PresetsOK
<1>2. Changed(preset) /\ resetSmall' = FALSE
  BY DEF ApplyPreset
<1> QED BY <1>1, <1>2, ChangedStep

\* The settings are reset.
LEMMA HandleResetStep == LookInv /\ HandleReset => LookInv'
<1> SUFFICES ASSUME LookInv, HandleReset PROVE LookInv'
  OBVIOUS
<1>1. SettingsOK(loaded) /\ isMobile \in BOOLEAN
  BY LookParts DEF LookInv
<1>2. Changed(loaded) /\ resetSmall' = isMobile
  BY DEF HandleReset
<1> QED BY <1>1, <1>2, ChangedStep

\* The scheme is switched in the header.
LEMMA ToggleThemeSchemeStep == LookInv /\ ToggleThemeScheme => LookInv'
<1> SUFFICES ASSUME LookInv, ToggleThemeScheme PROVE LookInv'
  OBVIOUS
<1> DEFINE next == CASE settings.themeScheme = "light" -> "dark"
                     [] settings.themeScheme = "dark" -> "auto"
                     [] settings.themeScheme = "auto" -> "light"
           s == [settings EXCEPT !.themeScheme = next]
<1>1. /\ edits < MaxEdits /\ edits' = edits + 1 /\ settings' = s
      /\ UNCHANGED <<loaded, stored, backup, isMobile, siderCollapse, fullContent, drawer,
                     chosen, lost, resetSmall>>
  BY DEF ToggleThemeScheme, historyVars
<1>2. SettingsOK(settings) /\ edits \in 0..MaxEdits
  BY LookParts DEF LookInv
<1>3. /\ SettingValues["themeScheme"] = {"light", "dark", "auto"}
      /\ {"themeScheme", "mode", "tab", "enableUserName", "enableTime"} \subseteq DOMAIN SettingValues
  BY DEF SettingValues
<1>4. DOMAIN settings = DOMAIN SettingValues
      /\ \A key \in DOMAIN settings : settings[key] \in SettingValues[key]
  BY <1>2 DEF SettingsOK, Settings
<1>5. settings.themeScheme = settings["themeScheme"]
  OBVIOUS
<1>6. next \in SettingValues["themeScheme"]
  BY <1>3, <1>4, <1>5
<1> HIDE DEF next
<1>7. DOMAIN s = DOMAIN settings /\ s["themeScheme"] = next
      /\ \A key \in DOMAIN settings \ {"themeScheme"} : s[key] = settings[key]
  BY <1>3, <1>4
<1>8. s.mode = s["mode"] /\ settings.mode = settings["mode"]
      /\ s.tab = s["tab"] /\ settings.tab = settings["tab"]
      /\ s.enableUserName = s["enableUserName"] /\ s.enableTime = s["enableTime"]
      /\ settings.enableUserName = settings["enableUserName"]
      /\ settings.enableTime = settings["enableTime"]
  OBVIOUS
<1> HIDE DEF s
<1>9. Settings(s)
  BY <1>3, <1>4, <1>6, <1>7 DEF Settings
<1>10. s.mode = settings.mode /\ s.tab = settings.tab
       /\ s.enableUserName = settings.enableUserName /\ s.enableTime = settings.enableTime
  BY <1>3, <1>4, <1>7, <1>8
<1>11. SettingsOK(s)
  BY <1>2, <1>9, <1>10 DEF SettingsOK, OneWatermark
<1>12. edits' \in 0..MaxEdits
  BY <1>1, <1>2, LookConstants
<1>13. LookTypeOK'
  BY <1>1, <1>11, <1>12, LookParts, LookPartsNext DEF LookInv
<1>14. settings'.mode = settings.mode /\ settings'.tab = settings.tab
  BY <1>1, <1>10
<1> QED BY <1>1, <1>13, <1>14 DEF LookInv

---------------------------------------------------------------------------
(* The specification                                                       *)

\* The console opens with the default settings.
LEMMA LookInitInv == LookInit => LookInv
<1> SUFFICES ASSUME LookInit PROVE LookInv
  OBVIOUS
<1>1. SettingsOK(settings) /\ SettingsOK(loaded) /\ SettingsOK(stored)
      /\ settings.mode = "vertical" /\ settings = themeSettings
  BY DefaultsOK DEF LookInit
<1>2. chosen \in Backups
  BY <1>1, PutAsideOK DEF LookInit
<1>3. edits \in 0..MaxEdits
  BY LookConstants DEF LookInit
<1>4. LookTypeOK
  BY <1>1, <1>2, <1>3, LookParts DEF LookInit
<1> QED BY <1>1, <1>4 DEF LookInit, LookInv

\* Every step keeps the invariant.
LEMMA LookInvNext == LookInv /\ [LookNext]_lookVars => LookInv'
<1> SUFFICES ASSUME LookInv, [LookNext]_lookVars PROVE LookInv'
  OBVIOUS
<1>1. CASE BecomeMobile BY <1>1, BecomeMobileStep
<1>2. CASE BecomeWide BY <1>2, BecomeWideStep
<1>3. ASSUME NEW saves \in BOOLEAN, NEW small \in BOOLEAN, LoadPage(saves, small) PROVE LookInv'
  BY <1>3, LoadPageStep
<1>4. CASE ToggleSiderCollapse \/ HandleClickMask BY <1>4, SiderSteps
<1>5. CASE ToggleFullContent \/ ThemeDrawer BY <1>5, CoverSteps
<1>6. ASSUME NEW key \in Touched, NEW osDark \in BOOLEAN, ChangeSetting(key, osDark) PROVE LookInv'
  BY <1>6, ChangeSettingStep
<1>7. ASSUME NEW mode \in LayoutModes, ChooseLayout(mode) PROVE LookInv'
  BY <1>7, ChooseLayoutStep
<1>8. ASSUME NEW preset \in Presets, ApplyPreset(preset) PROVE LookInv'
  BY <1>8, ApplyPresetStep
<1>9. CASE HandleReset BY <1>9, HandleResetStep
<1>10. CASE ToggleThemeScheme BY <1>10, ToggleThemeSchemeStep
<1>11. CASE UNCHANGED lookVars
  <2>1. /\ UNCHANGED <<settings, loaded, stored, backup, isMobile, siderCollapse, fullContent,
                       drawer, edits, chosen, lost, resetSmall>>
    BY <1>11 DEF lookVars
  <2>2. LookTypeOK'
    BY <2>1, LookParts, LookPartsNext DEF LookInv
  <2> QED BY <2>1, <2>2 DEF LookInv
<1> QED BY <1>1, <1>2, <1>3, <1>4, <1>5, <1>6, <1>7, <1>8, <1>9, <1>10, <1>11 DEF LookNext

\* In every state the invariant holds.
LEMMA LookSafe == LookSpec => []LookInv
<1> QED BY LookInitInv, LookInvNext, PTL DEF LookSpec

\* The state of the console's look has its type: the settings and their stored
\* copies are whole, and never is the watermark to show the user and the time.
THEOREM LookTypeCorrect == LookSpec => []LookTypeOK
<1>1. LookInv => LookTypeOK
  BY DEF LookInv
<1> QED BY <1>1, LookSafe, PTL

\* A wide page has the layout and the sider the last wide page was left with
\* (the app store's watch of isMobile and the store of the theme), unless a
\* small page was loaded again while it was small.
THEOREM LayoutComesBackAlways == LookSpec => []LayoutComesBack
<1>1. LookInv => LayoutComesBack
  BY DEF LookInv, LayoutComesBack
<1> QED BY <1>1, LookSafe, PTL

\* In a wide window every layout shows its menus or their toggler.
LEMMA WideMenusShow ==
  ASSUME NEW mode \in LayoutModes, NEW collapsed PROVE MenusShow(mode, FALSE, collapsed)
<1> USE DEF LayoutModes, MenusShow, ActiveMenu
<1>1. CASE mode = "vertical"
  BY <1>1 DEF VerticalMenu, HeaderProps
<1>2. CASE mode \in {"vertical-mix", "top-hybrid-sidebar-first"}
  <2>1. SiderWidth(mode, collapsed) \in {MixCollapsedWidth, MixWidth} /\ SiderVisible(mode)
    BY <1>2 DEF SiderWidth, SiderVisible
  <2>2. SiderShows(mode, FALSE, collapsed)
    BY <2>1 DEF SiderShows, MixCollapsedWidth, MixWidth
  <2> QED BY <1>2, <2>2 DEF VerticalMixMenu, TopHybridSidebarFirst
<1>3. CASE mode \in {"vertical-hybrid-header-first", "horizontal", "top-hybrid-header-first"}
  BY <1>3 DEF VerticalHybridHeaderFirst, HorizontalMenu, TopHybridHeaderFirst, HeaderProps
<1> QED BY <1>1, <1>2, <1>3

\* The layout of a small window has a toggler.
LEMMA SmallMenusShow ==
  ASSUME NEW collapsed, NEW small PROVE MenusShow("vertical", small, collapsed)
BY DEF LayoutModes, MenusShow, ActiveMenu, HeaderProps, VerticalMenu

\* Whatever settings are changed and however the window changes meanwhile, the
\* menus or their toggler are shown, or the tab bar whose button ends the full
\* content is, unless settings were reset on a small page.
THEOREM MenusStayInReach == LookSpec => []MenusInReach
<1>1. ASSUME LookInv PROVE MenusInReach
  <2>1. isMobile \in BOOLEAN /\ settings.mode \in LayoutModes
    <3>1. SettingsOK(settings) /\ isMobile \in BOOLEAN /\ siderCollapse \in BOOLEAN
      BY <1>1, LookParts DEF LookInv
    <3> QED BY <3>1, PutAsideOK
  <2>2. isMobile = FALSE => MenusShow(settings.mode, isMobile, siderCollapse)
    BY <2>1, WideMenusShow
  <2>3. isMobile /\ ~resetSmall => MenusShow(settings.mode, isMobile, siderCollapse)
    BY <1>1, SmallMenusShow DEF LookInv
  <2>4. fullContent => settings.tab
    BY <1>1 DEF LookInv
  <2> QED BY <2>1, <2>2, <2>3, <2>4 DEF MenusInReach
<1> QED BY <1>1, LookSafe, PTL
=============================================================================
