------------------------------ MODULE ApiSettings -----------------------------
\* Where the API is and with which key: the configuration in force, its copy in
\* localStorage and the form that changes both
\* (src/frontend/src/config/settings.ts, hooks/useConfig.ts,
\* features/settings/SettingsView.tsx).
EXTENDS Integers

CONSTANT MaxSaves   \* bound: times the configuration is saved

\* A text that is typed: its words, "" for none, and whether a space follows.
FieldText(words) == [words : words, space : BOOLEAN]
Trim(text) == [text EXCEPT !.space = FALSE]
Words(words) == [words |-> words, space |-> FALSE]

Urls == {"", "localhost", "u"}
Keys == {"", "k"}
DEFAULT_CONFIG == [url |-> Words("localhost"), key |-> Words("")]

\* A form that is not on the screen.
NoForm == [url |-> Words("not open"), key |-> Words(""), saved |-> FALSE, revealed |-> FALSE]

VARIABLES
    config,      \* in force: what requests are sent with
    kept,        \* what localStorage holds
    draft,       \* the form: its two fields, "saved", and whether the key is shown
    epoch        \* grows with every save; the source of the data is another one

settingsVars == <<config, kept, draft, epoch>>

OrDefault(text) == IF Trim(text).words = "" THEN DEFAULT_CONFIG.url ELSE Trim(text)

\* What is stored is read back with its address trimmed, and its key as it is.
ParseConfig(raw) == [url |-> OrDefault(raw.url), key |-> raw.key]

\* A save trims both.
Normalize(next) == [url |-> OrDefault(next.url), key |-> Trim(next.key)]

ApiSettingsInit ==
    /\ kept \in [url : FieldText(Urls), key : {Words(k) : k \in Keys}]
    /\ config = ParseConfig(kept)
    /\ draft = NoForm /\ epoch = 0

\* The effect that shows what is in force, in the fields, when it has changed.
FormFor(next, form) ==
    IF next # config THEN [form EXCEPT !.url = next.url, !.key = next.key] ELSE form

\* mutant: what is written is what was typed
SavedAsTyped(next) == next
SaveConfig(next) == Normalize(next)

UpdateConfig(next) ==
    /\ epoch < MaxSaves /\ epoch' = epoch + 1
    /\ config' = Normalize(next)
    /\ kept' = SaveConfig(next)

OpenForm ==
    /\ draft = NoForm
    /\ draft' = [url |-> config.url, key |-> config.key, saved |-> FALSE, revealed |-> FALSE]
    /\ UNCHANGED <<config, kept, epoch>>
LeaveForm == draft # NoForm /\ draft' = NoForm /\ UNCHANGED <<config, kept, epoch>>

Edited(form) == [form EXCEPT !.saved = FALSE]

EditUrl ==
    /\ draft # NoForm
    /\ \E text \in FieldText(Urls) : draft' = Edited([draft EXCEPT !.url = text])
    /\ UNCHANGED <<config, kept, epoch>>
EditKey ==
    /\ draft # NoForm
    /\ \E text \in FieldText(Keys) : draft' = Edited([draft EXCEPT !.key = text])
    /\ UNCHANGED <<config, kept, epoch>>
Reveal ==
    /\ draft # NoForm
    /\ draft' = [draft EXCEPT !.revealed = ~@]
    /\ UNCHANGED <<config, kept, epoch>>

HandleSubmit ==
    /\ draft # NoForm
    /\ UpdateConfig([url |-> draft.url, key |-> draft.key])
    /\ draft' = [FormFor(config', draft) EXCEPT !.saved = TRUE]

\* "Limpar chave" saves the address as it stands in the form, too.
ClearKey ==
    /\ draft # NoForm
    /\ UpdateConfig([url |-> draft.url, key |-> Words("")])
    /\ draft' = FormFor(config', [draft EXCEPT !.key = Words(""), !.saved = FALSE, !.revealed = FALSE])

\* A reload, or another visit.
ReloadPage ==
    /\ config' = ParseConfig(kept)
    /\ draft' = NoForm
    /\ epoch > 0 /\ epoch' = 0
    /\ UNCHANGED kept

ApiSettingsNext ==
    \/ OpenForm \/ LeaveForm \/ EditUrl \/ EditKey \/ Reveal
    \/ HandleSubmit \/ ClearKey \/ ReloadPage

ApiSettingsSpec == ApiSettingsInit /\ [][ApiSettingsNext]_settingsVars

-------------------------------------------------------------------------------
(* What must hold. *)

\* "Configuração salva" is said of what is in force: while it is on the screen the
\* fields read, once trimmed, as the address and the key requests are sent with
\* (SettingsView.tsx:55-66, 157-159).
SavedIsInForce ==
    draft.saved => Normalize([url |-> draft.url, key |-> draft.key]) = config

\* A reload changes neither the server that is asked nor the key: what is stored
\* reads as what is in force, at every step (useConfig.ts:24-32).
ReloadKeepsTheServer == ParseConfig(kept) = config

\* The form, what is in force and what is stored are one configuration.
SettingsScreenIsTrue == SavedIsInForce /\ ReloadKeepsTheServer
===============================================================================
