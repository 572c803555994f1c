-------------------------------- MODULE Theme --------------------------------
(***************************************************************************)
(* The theme of the client (ThemeProvider.tsx, ThemeToggle.tsx): what is   *)
(* stored, what is remembered when the store refuses, what the page        *)
(* carries and what the components show.  A store may refuse writes        *)
(* (its quota) or be blocked, reads too; another tab may write it.         *)
(***************************************************************************)
EXTENDS FiniteSets

CONSTANT ThemeFaults  \* of "quota", "blocked", "other tab"

ASSUME ThemeAssumption == ThemeFaults \subseteq {"quota", "blocked", "other tab"}

Preferences == {"light", "dark", "system"}
Resolved == {"light", "dark"}

VARIABLES themeStored, \* of the key: a preference, or "absent", or "junk"
          memory,      \* memoryPreference
          desynced,    \* storageDesynced
          access,      \* what the store allows: "all", "reads", "nothing"
          osDark,      \* prefers-color-scheme
          attribute,   \* data-theme: resolved, or "none"
          themeShown,  \* [preference, resolved]: what the provider gave last
          unseen       \* history: the store changed, or was blocked, behind the page

themeVars == <<themeStored, memory, desynced, access, osDark, attribute, themeShown, unseen>>

-----------------------------------------------------------------------------
(* Definitions                                                             *)

\* Slip: what a write could not change is read again.
ReadsWhatIsStored(stored, mem, desync, acc) ==
  IF acc = "nothing" THEN mem ELSE IF stored \in Preferences THEN stored ELSE "dark"

\* readStoredPreference, of a store that may throw.
ReadOf(stored, mem, desync, acc) ==
  IF desync \/ acc = "nothing" THEN mem
  ELSE IF stored \in Preferences THEN stored ELSE "dark"

ReadPreference == ReadOf(themeStored, memory, desynced, access)

Resolve(preference, dark) ==
  IF preference = "system" THEN IF dark THEN "dark" ELSE "light" ELSE preference

Snapshot(preference, dark) ==
  [preference |-> preference, resolved |-> Resolve(preference, dark)]

\* light, dark, system, and again.
ThemeCycle == [light |-> "dark", dark |-> "system", system |-> "light"]

\* The script in the page's head, before the first paint.
Bootstrap(stored, acc, dark) ==
  IF acc = "nothing" THEN "none"
  ELSE Resolve(IF stored \in Preferences THEN stored ELSE "dark", dark)

\* A page loads: the module's variables start again and the first client
\* render takes the place of the server's.
Load(stored, acc) ==
  /\ memory' = "dark" /\ desynced' = FALSE
  /\ attribute' = Bootstrap(stored, acc, osDark)
  /\ themeShown' = Snapshot(ReadOf(stored, "dark", FALSE, acc), osDark)
  /\ unseen' = (acc = "nothing")

-----------------------------------------------------------------------------
(* Actions                                                                 *)

ThemeReload == Load(themeStored, access) /\ UNCHANGED <<themeStored, access, osDark>>

SetPreference(next) ==
  /\ memory' = next /\ attribute' = Resolve(next, osDark)
  /\ IF access = "all" THEN themeStored' = next /\ desynced' = FALSE
     ELSE desynced' = TRUE /\ UNCHANGED themeStored
  /\ themeShown' = Snapshot(ReadOf(themeStored', next, desynced', access), osDark)
  /\ unseen' = FALSE
  /\ UNCHANGED <<access, osDark>>

Toggle == SetPreference(ThemeCycle[themeShown.preference])

\* The settings page offers each.
Choose == \E next \in Preferences : SetPreference(next)

OnSystemChange ==
  /\ osDark' = ~ osDark
  /\ IF ReadPreference = "system"
     THEN attribute' = Resolve("system", osDark') /\ themeShown' = Snapshot("system", osDark')
     ELSE UNCHANGED <<attribute, themeShown>>
  /\ UNCHANGED <<themeStored, memory, desynced, access, unseen>>

\* A render for another reason reads the store again.
Rerender ==
  /\ themeShown' = Snapshot(ReadPreference, osDark)
  /\ UNCHANGED <<themeStored, memory, desynced, access, osDark, attribute, unseen>>

AccessChanges ==
  /\ \/ access' = "all"
     \/ "quota" \in ThemeFaults /\ access' = "reads"
     \/ "blocked" \in ThemeFaults /\ access' = "nothing"
  /\ unseen' = (unseen \/ "nothing" \in {access, access'})
  /\ UNCHANGED <<themeStored, memory, desynced, osDark, attribute, themeShown>>

OtherTab ==
  /\ "other tab" \in ThemeFaults /\ themeStored' \in Preferences \cup {"absent"}
  /\ unseen' = TRUE
  /\ UNCHANGED <<memory, desynced, access, osDark, attribute, themeShown>>

ThemeInit ==
  /\ themeStored \in Preferences \cup {"absent", "junk"} /\ access = "all" /\ osDark \in BOOLEAN
  /\ memory = "dark" /\ desynced = FALSE
  /\ attribute = Bootstrap(themeStored, access, osDark)
  /\ themeShown = Snapshot(ReadPreference, osDark) /\ unseen = FALSE

ThemeNext ==
  \/ ThemeReload \/ Toggle \/ Choose \/ OnSystemChange \/ Rerender \/ AccessChanges \/ OtherTab

ThemeSpec == ThemeInit /\ [][ThemeNext]_themeVars

-----------------------------------------------------------------------------
(* Properties                                                              *)

ThemeTypeOK ==
  /\ themeStored \in Preferences \cup {"absent", "junk"} /\ memory \in Preferences
  /\ desynced \in BOOLEAN /\ osDark \in BOOLEAN
  /\ access \in {"all", "reads", "nothing"} /\ attribute \in Resolved \cup {"none"}
  /\ themeShown \in [preference : Preferences, resolved : Resolved] /\ unseen \in BOOLEAN

\* The page carries the theme that the control shows, and that is the
\* preference as it resolves now (ThemeProvider.tsx:10-14), unless another tab
\* has written the store, or the browser blocked it, since the page was loaded
\* or the theme chosen.
ThemeIsApplied ==
  ~ unseen =>
    /\ themeShown.preference = ReadPreference
    /\ themeShown.resolved = Resolve(themeShown.preference, osDark)
    /\ attribute = themeShown.resolved

\* A press of the control shows the next mode whatever the store does
\* (ThemeProvider.tsx:77-83: "the control could never switch back").
ToggleSwitches ==
  [][Toggle => /\ themeShown'.preference = ThemeCycle[themeShown.preference]
               /\ attribute' = themeShown'.resolved]_themeVars
=============================================================================
