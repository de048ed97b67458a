------------------------------- MODULE MCParts --------------------------------
\* The parts of the system that keep no state in common, in one instance for TLC:
\* each has a scene of its own, in which the others stand still.  The modules of
\* functions have a scene together, in which one of their calls is considered.
EXTENDS Providers, Attempt, Intake, Evidence, Client, Routes, Preferences, Boards, Coachmark, Health, Ingestion, ApiSettings, Messages, Windowing, Polling

VARIABLE scene   \* which part plays

Init ==
    /\ scene \in {"calls", "attempt", "intake", "preferences", "health", "ingestion", "settings", "list", "polling"}
    /\ input = NoCall
    /\ AttemptInit /\ (scene # "attempt" => choices = <<"local", "local", <<>>>>)
    /\ IntakeInit
    /\ PreferencesInit /\ (scene # "preferences" => os = "light" /\ stored = DEFAULT_PREFERENCES)
    /\ HealthInit /\ (scene # "health" => server = "s1")
    /\ IngestionInit /\ (scene # "ingestion" => ~signed)
    /\ ApiSettingsInit /\ (scene # "settings" => kept = DEFAULT_CONFIG)
    /\ WindowingInit /\ (scene # "list" => items = 1)
    /\ PollingInit /\ (scene # "polling" => activePoll = 5 /\ listPoll = 5 /\ listDue = 1)

Call ==
    /\ input = NoCall
    /\ \/ input' \in MergeCalls
       \/ input' \in ProviderCalls
       \/ input' \in SettingsCalls
       \/ input' \in QuoteCalls
       \/ input' \in TurnCalls
       \/ input' \in Requests
       \/ input' \in Rows
       \/ input' \in HashCalls
       \/ input' \in BoardCalls
       \/ input' \in MetricsCalls
       \/ input' \in ScreenCalls
       \/ input' \in PlaceCalls
       \/ input' \in TabCalls
       \/ input' \in MessageCalls

Next ==
    \/ scene = "calls" /\ Call
       /\ UNCHANGED <<scene, attemptVars, intakeVars, prefsVars, healthVars, ingestionVars, settingsVars, windowVars, pollingVars>>
    \/ scene = "attempt" /\ AttemptNext
       /\ UNCHANGED <<scene, input, intakeVars, prefsVars, healthVars, ingestionVars, settingsVars, windowVars, pollingVars>>
    \/ scene = "intake" /\ IntakeNext
       /\ UNCHANGED <<scene, input, attemptVars, prefsVars, healthVars, ingestionVars, settingsVars, windowVars, pollingVars>>
    \/ scene = "preferences" /\ PreferencesNext
       /\ UNCHANGED <<scene, input, attemptVars, intakeVars, healthVars, ingestionVars, settingsVars, windowVars, pollingVars>>
    \/ scene = "health" /\ HealthNext
       /\ UNCHANGED <<scene, input, attemptVars, intakeVars, prefsVars, ingestionVars, settingsVars, windowVars, pollingVars>>
    \/ scene = "ingestion" /\ IngestionNext
       /\ UNCHANGED <<scene, input, attemptVars, intakeVars, prefsVars, healthVars, settingsVars, windowVars, pollingVars>>
    \/ scene = "settings" /\ ApiSettingsNext
       /\ UNCHANGED <<scene, input, attemptVars, intakeVars, prefsVars, healthVars, ingestionVars, windowVars, pollingVars>>
    \/ scene = "list" /\ WindowingNext
       /\ UNCHANGED <<scene, input, attemptVars, intakeVars, prefsVars, healthVars, ingestionVars, settingsVars, pollingVars>>
    \/ scene = "polling" /\ PollingNext
       /\ UNCHANGED <<scene, input, attemptVars, intakeVars, prefsVars, healthVars, ingestionVars, settingsVars, windowVars>>

vars == <<scene, input, attemptVars, intakeVars, prefsVars, healthVars, ingestionVars, settingsVars, windowVars, pollingVars>>

\* The fairness of each part, in its scene.
Fairness ==
    /\ WF_attemptVars(scene = "attempt" /\ WorkHorse)
    /\ WF_intakeVars(scene = "intake" /\ ReconcileRows)
    /\ WF_healthVars(scene = "health" /\ Beat)
    /\ \A s \in HealthSlots :
        WF_healthVars(scene = "health" /\ ServerSays(s)) /\ WF_healthVars(scene = "health" /\ AnswerComes(s))
    /\ WF_ingestionVars(scene = "ingestion" /\ WebhookRuns) /\ WF_ingestionVars(scene = "ingestion" /\ AnswerArrives)

Spec == Init /\ [][Next]_vars /\ Fairness

\* The readout of the top bar (Health), in the scene where it is asked.
ReadoutComesToSettle == (scene = "health") => ReadoutSettles

\* Whatever a part begins ends: a work-horse (Attempt), a check of the health
\* screen, a submission, and the doubt of the readout in the top bar.
WhatBeginsEnds == WorkHorseEnds /\ CheckEnds /\ SubmissionEnds /\ ReadoutComesToSettle
===============================================================================
