------------------------------ MODULE Preferences -----------------------------
\* The theme and the polling interval: kept in localStorage and read by two
\* components at once, the application and, while it is open, the settings screen
\* (src/frontend/src/config/preferences.ts, hooks/usePreferences.ts,
\* features/settings/SettingsView.tsx, components/shell/ShellMenu.tsx).
EXTENDS Integers

CONSTANTS
    POLL_CHOICES,  \* the intervals offered, in seconds
    StoredPolls    \* what may be found in localStorage, as an interval; 0 is no number

MIN_POLL == 2
MAX_POLL == 300
DEFAULT_PREFERENCES == [theme |-> "system", poll |-> 5]

ASSUME PreferencesAssumption ==
    StoredPolls \subseteq Nat /\ POLL_CHOICES \subseteq MIN_POLL .. MAX_POLL

Themes == {"light", "dark", "system"}

VARIABLES
    os,           \* the theme of the operating system
    stored,       \* what localStorage holds, as it was written
    app,          \* the preferences the application has read
    settings,     \* those the settings screen has read; Closed when it is not open
    html,         \* data-theme of the document
    chosen,       \* what the person has chosen last, or found when the page was loaded
    missed,       \* what was chosen in the other copy since each of the two has read
    overwritten   \* what is in localStorage as a copy wrote it that had missed the choice

choiceVars == <<chosen, missed, overwritten>>
prefsVars == <<os, stored, app, settings, html, choiceVars>>

Fields == {"theme", "poll"}
Copies == {"app", "settings"}

Closed == [theme |-> "closed", poll |-> 0]

\* An interval out of range is brought into it; what is not one of the themes,
\* or not a number, is the default.
ParsePreferences(raw) ==
    [theme |-> IF raw.theme \in Themes THEN raw.theme ELSE DEFAULT_PREFERENCES.theme,
     poll |-> CASE raw.poll = 0 -> DEFAULT_PREFERENCES.poll
                [] raw.poll \in 1 .. MIN_POLL -> MIN_POLL
                [] raw.poll > MAX_POLL -> MAX_POLL
                [] OTHER -> raw.poll]

ResolveTheme(theme, system) == IF theme = "system" THEN system ELSE theme

\* The document follows whichever of the two has its theme changed; the
\* application's effect runs after the screen's.
HtmlAfter(appTheme, settingsTheme, system) ==
    LET was == ResolveTheme(app.theme, os)
        is == ResolveTheme(appTheme, system)
    IN  CASE is # was -> is
          [] is = was /\ settingsTheme \in Themes
                /\ (settings = Closed \/ ResolveTheme(settingsTheme, system) # ResolveTheme(settings.theme, os)) ->
                    ResolveTheme(settingsTheme, system)
          [] OTHER -> html

\* A load of the page that finds raw in localStorage.
Loaded(raw) ==
    /\ stored = raw
    /\ app = ParsePreferences(raw)
    /\ settings = Closed
    /\ html = ResolveTheme(app.theme, os)
    /\ chosen = app /\ missed = [c \in Copies |-> {}] /\ overwritten = {}

PreferencesInit ==
    /\ os \in {"light", "dark"}
    /\ \E theme \in Themes \cup {"other"}, poll \in StoredPolls : Loaded([theme |-> theme, poll |-> poll])

\* setPreferences: of the fields the person chooses a copy takes over the new values,
\* and it writes all of its own, whatever the other copy has written since it read.
Chosen(copy, fields, next) ==
    /\ chosen' = [f \in Fields |-> IF f \in fields THEN next[f] ELSE chosen[f]]
    /\ missed' = [c \in Copies |-> IF c = copy THEN missed[c] \ fields ELSE missed[c] \cup fields]
    /\ overwritten' = missed[copy] \ fields

\* The hook of the application, from the menu.
\* mutant: nothing is written to localStorage
ChooseUnsaved(theme) ==
    /\ app' = [app EXCEPT !.theme = theme]
    /\ html' = HtmlAfter(theme, settings.theme, os)
    /\ Chosen("app", {"theme"}, app')
    /\ UNCHANGED <<os, stored, settings>>
ChooseInTheMenu(theme) ==
    /\ app' = [app EXCEPT !.theme = theme]
    /\ stored' = app'
    /\ html' = HtmlAfter(theme, settings.theme, os)
    /\ Chosen("app", {"theme"}, app')
    /\ UNCHANGED <<os, settings>>

\* The settings screen has a hook, and so a copy, of its own.
OpenSettings ==
    /\ settings = Closed
    /\ settings' = ParsePreferences(stored)
    /\ html' = HtmlAfter(app.theme, settings'.theme, os)
    /\ missed' = [missed EXCEPT !["settings"] = overwritten]
    /\ UNCHANGED <<os, stored, app, chosen, overwritten>>

CloseSettings == settings # Closed /\ settings' = Closed /\ UNCHANGED <<os, stored, app, html, choiceVars>>

ChooseInSettings(fields, next) ==
    /\ settings # Closed
    /\ settings' = next
    /\ stored' = next
    /\ html' = HtmlAfter(app.theme, next.theme, os)
    /\ Chosen("settings", fields, next)
    /\ UNCHANGED <<os, app>>
ChooseTheme == \E theme \in Themes : ChooseInSettings({"theme"}, [settings EXCEPT !.theme = theme])
ChoosePoll == \E poll \in POLL_CHOICES : ChooseInSettings({"poll"}, [settings EXCEPT !.poll = poll])
RestoreDefaults == ChooseInSettings(Fields, DEFAULT_PREFERENCES)

\* The operating system changes its theme; both copies listen.
SystemChanges ==
    /\ os' = IF os = "light" THEN "dark" ELSE "light"
    /\ html' = HtmlAfter(app.theme, settings.theme, os')
    /\ UNCHANGED <<stored, app, settings, choiceVars>>

Reload ==
    /\ app' = ParsePreferences(stored)
    /\ settings' = Closed
    /\ html' = ResolveTheme(app'.theme, os)
    /\ chosen' = app' /\ missed' = [c \in Copies |-> {}] /\ overwritten' = {}
    /\ UNCHANGED <<os, stored>>

PreferencesNext ==
    \/ \E theme \in Themes : ChooseInTheMenu(theme)
    \/ OpenSettings \/ CloseSettings
    \/ ChooseTheme \/ ChoosePoll \/ RestoreDefaults
    \/ SystemChanges
    \/ Reload

PreferencesSpec == PreferencesInit /\ [][PreferencesNext]_prefsVars

-------------------------------------------------------------------------------
(* What must hold. *)

\* Whatever localStorage holds, the poller's interval neither hammers the server
\* nor stops (config/preferences.ts:34 "Below 2s the API would be hammered").
IntervalIsBearable ==
    /\ app.poll \in MIN_POLL .. MAX_POLL
    /\ settings # Closed => settings.poll \in MIN_POLL .. MAX_POLL

\* Of the theme and of the interval each, a reload reads what was chosen last, in the
\* menu or on the settings screen; but for a copy that had not read the choice and has
\* written all of its own since, for the sake of the other field.  So does whoever
\* looks at a copy, but for what the other one was told (hooks/usePreferences.ts:29-35).
ReloadReadsTheLastChoice ==
    \A f \in Fields :
        /\ f \notin overwritten => ParsePreferences(stored)[f] = chosen[f]
        /\ f \notin missed["app"] => app[f] = chosen[f]
        /\ settings # Closed /\ f \notin missed["settings"] => settings[f] = chosen[f]

\* What was chosen is kept, and what is kept can be lived with.
PreferencesHold == IntervalIsBearable /\ ReloadReadsTheLastChoice
===============================================================================
