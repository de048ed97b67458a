-------------------------------- MODULE Health --------------------------------
\* What the interface says of the server: the health screen with its own check,
\* its newest request and its token, and the readout of the top bar that asks
\* again every half minute (src/frontend/src/features/health/HealthView.tsx,
\* components/shell/LiveStatus.tsx, api/telemetry.ts).  The demonstration has the
\* same screen and no server.
EXTENDS Integers, FiniteSets

CONSTANTS
    Servers,       \* addresses the API may be configured to
    HealthSlots,   \* bound: checks in flight at once
    MaxChecks,     \* bound: checks of one visit of the health screen
    MaxMoves       \* bound: visits, mode switches, configurations, outages

\* The demonstration answers in place of a server.
ASSUME HealthAssumption == "demo" \notin Servers

VARIABLES
    uiMode,    \* "api" or "demo"
    server,    \* the address configured
    health,    \* what each server would say: "ok", "unhealthy" (a 503), or nothing, "down"
    panel,     \* the health screen: [open, state, checking, run, from]
    sample,    \* the request the screen shows, NoSample in the demonstration
    last,      \* the last request recorded; the module keeps it across modes
    readout,    \* the readout's state
    flights,   \* [HealthSlots -> checks in flight]
    moves

healthVars == <<uiMode, server, health, panel, sample, last, readout, flights, moves>>

NoSample == "no request"
Shut == [open |-> FALSE, state |-> "loading", checking |-> FALSE, run |-> 0, from |-> 0]
NoFlight == [of |-> "none", run |-> 0, server |-> "none", said |-> "none"]

\* A check: the screen's with its token, the readout's, or one whose asker is gone.
Flight(of, run, to) == [of |-> of, run |-> run, server |-> to, said |-> "pending"]

Asked == IF uiMode = "api" THEN server ELSE "demo"

\* fs with the checks of `new`, a sequence, in free slots.
Sent(fs, new) ==
    LET free == {s \in HealthSlots : fs[s] = NoFlight}
        place == CHOOSE p \in [DOMAIN new -> free] : \A j, k \in DOMAIN new : j < k => p[j] < p[k]
    IN  [s \in HealthSlots |-> IF \E k \in DOMAIN new : place[k] = s
                               THEN new[CHOOSE k \in DOMAIN new : place[k] = s] ELSE fs[s]]
Room(fs, new) == Cardinality({s \in HealthSlots : fs[s] = NoFlight}) >= Cardinality(DOMAIN new)

Orphaned(fs, askers) == [s \in HealthSlots |-> IF fs[s].of \in askers THEN [fs[s] EXCEPT !.of = "gone", !.run = 0] ELSE fs[s]]

\* check() at the mount of the screen; in development StrictMode runs it twice.
FirstChecks(n, to) == [k \in 1 .. n |-> Flight("panel", k, to)]
Visited(n) == [open |-> TRUE, state |-> "loading", checking |-> TRUE, run |-> n, from |-> 0]

\* The screen subscribes to the requests in the API's mode alone.
SampleAtMount(mode) == IF mode = "api" THEN last ELSE NoSample

Move == moves < MaxMoves /\ moves' = moves + 1

HealthInit ==
    /\ uiMode = "api" /\ panel = Shut /\ sample = NoSample /\ last = NoSample
    /\ server \in Servers
    /\ health \in [Servers -> {"ok"}]
    /\ readout = "loading"
    /\ flights = Sent([s \in HealthSlots |-> NoFlight], <<Flight("readout", 0, server)>>)
    /\ moves = 0

OpenHealth ==
    /\ ~panel.open
    /\ Move
    /\ \E n \in 1 .. 2 :
        LET new == FirstChecks(n, Asked)
        IN  Room(flights, new) /\ flights' = Sent(flights, new) /\ panel' = Visited(n)
    /\ sample' = SampleAtMount(uiMode)
    /\ UNCHANGED <<uiMode, server, health, last, readout>>

CloseHealth ==
    /\ panel.open
    /\ panel' = Shut /\ sample' = NoSample
    /\ flights' = Orphaned(flights, {"panel"})
    /\ UNCHANGED <<uiMode, server, health, last, readout, moves>>

\* "Verificar agora": the button is disabled during a check.
CheckNow ==
    /\ panel.open /\ ~panel.checking /\ panel.run < MaxChecks
    /\ panel' = [panel EXCEPT !.checking = TRUE, !.run = @ + 1]
    /\ LET new == <<Flight("panel", panel.run + 1, Asked)>>
       IN  Room(flights, new) /\ flights' = Sent(flights, new)
    /\ UNCHANGED <<uiMode, server, health, sample, last, readout, moves>>

\* The readout's interval, in the API's mode.
Beat ==
    /\ uiMode = "api"
    /\ LET new == <<Flight("readout", 0, server)>>
       IN  Room(flights, new) /\ flights' = Sent(flights, new)
    /\ UNCHANGED <<uiMode, server, health, panel, sample, last, readout, moves>>

\* The other mode is another tree: what was mounted is not any more, and the
\* page, which the switch keeps, is mounted anew.
SwitchMode ==
    /\ Move
    /\ uiMode' = IF uiMode = "api" THEN "demo" ELSE "api"
    /\ LET to == IF uiMode' = "api" THEN server ELSE "demo"
           new == (IF panel.open THEN FirstChecks(1, to) ELSE <<>>)
           beat == IF uiMode' = "api" THEN [k \in {3} |-> Flight("readout", 0, to)] ELSE <<>>
           both == [k \in DOMAIN new \cup DOMAIN beat |-> IF k \in DOMAIN new THEN new[k] ELSE beat[k]]
       IN  /\ Room(flights, both)
           /\ flights' = Sent(Orphaned(flights, {"panel", "readout"}), both)
    /\ panel' = IF panel.open THEN Visited(1) ELSE Shut
    /\ sample' = IF panel.open THEN SampleAtMount(uiMode') ELSE NoSample
    /\ readout' = "loading"
    /\ UNCHANGED <<server, health, last>>

\* The settings screen saves another address: the readout stays, and asks it.
Reconfigure ==
    /\ uiMode = "api" /\ ~panel.open
    /\ Move
    /\ server' \in Servers \ {server}
    /\ LET new == <<Flight("readout", 0, server')>>
       IN  Room(flights, new) /\ flights' = Sent(flights, new)
    /\ UNCHANGED <<uiMode, health, panel, sample, last, readout>>

HealthChanges ==
    /\ Move
    /\ \E v \in Servers, said \in {"ok", "unhealthy", "down"} :
        health[v] # said /\ health' = [health EXCEPT ![v] = said]
    /\ UNCHANGED <<uiMode, server, panel, sample, last, readout, flights>>

\* The server, or the demonstration, says how it is at that moment.
ServerSays(s) ==
    /\ flights[s].said = "pending"
    /\ flights' = [flights EXCEPT ![s].said = IF flights[s].server = "demo" THEN "ok" ELSE health[flights[s].server]]
    /\ UNCHANGED <<uiMode, server, health, panel, sample, last, readout, moves>>

\* The answer of the screen's newest check, and of no other, is shown.
\* mutant: whichever comes
AnyAnswer(f) == f.of = "panel"
Newest(f) == f.of = "panel" /\ f.run = panel.run

\* The check is over, whether it failed or not.
CheckingAfter(f) == FALSE

StatusAfter(f) == f.said

\* An answer, or its failure, comes: the client records a request to a server
\* before whoever asked hears of it.
AnswerComes(s) ==
    LET f == flights[s]
    IN  /\ f.said \notin {"pending", "none"}
        /\ flights' = [flights EXCEPT ![s] = NoFlight]
        /\ last' = IF f.server = "demo" THEN last ELSE f.said
        /\ sample' = IF panel.open /\ uiMode = "api" /\ f.server # "demo" THEN f.said ELSE sample
        /\ panel' = IF Newest(f)
                    THEN [panel EXCEPT !.state = f.said, !.checking = CheckingAfter(f), !.from = f.run]
                    ELSE panel
        /\ readout' = IF f.of = "readout" THEN StatusAfter(f) ELSE readout
        /\ UNCHANGED <<uiMode, server, health, moves>>

HealthNext ==
    \/ OpenHealth \/ CloseHealth \/ CheckNow
    \/ Beat
    \/ SwitchMode \/ Reconfigure \/ HealthChanges
    \/ \E s \in HealthSlots : ServerSays(s) \/ AnswerComes(s)

HealthSpec == HealthInit /\ [][HealthNext]_healthVars

\* Requests are answered or fail; the interval fires.
HealthFairness ==
    /\ WF_healthVars(Beat)
    /\ \A s \in HealthSlots : WF_healthVars(ServerSays(s)) /\ WF_healthVars(AnswerComes(s))

-------------------------------------------------------------------------------
(* What is rendered. *)

\* LiveHealth: the card of the API, the card of the last request and the button.
\* The demonstration's answer is one no server gave.
LiveHealth ==
    [api |-> CASE panel.state = "loading"               -> "checking"
               [] panel.state = "ok" /\ uiMode = "demo" -> "simulated"
               [] panel.state = "ok" /\ uiMode = "api"  -> "answered 200"
               [] panel.state = "unhealthy"             -> "degraded"
               [] panel.state = "down"                  -> "diagnosis",
     request |-> IF uiMode = "api" THEN sample ELSE NoSample,
     button |-> ~panel.checking]

\* The readout's dot and words.
Tone ==
    CASE readout = "ok"        -> "on the air"
      [] readout = "unhealthy" -> "degraded"
      [] readout = "down"      -> "unreachable"
      [] readout = "loading"   -> "checking"

-------------------------------------------------------------------------------
(* What must hold. *)

\* What the screen shows once no check is under way is the answer of the check
\* that was asked for last (HealthView.tsx:79 "a slow first check must never
\* overwrite a newer manual one").
NewestCheckIsShown ==
    panel.open /\ ~panel.checking => panel.from = panel.run

\* The screen shows the last request of the API's mode, made before it was opened
\* or since, and none in the demonstration, whatever the API's mode did before it
\* in the same tab; and it reports no 200 of a server nobody asked
\* (HealthView.tsx:109-118, 153-156).
RequestShownIsTheLast ==
    panel.open =>
        /\ LiveHealth.request = IF uiMode = "api" THEN last ELSE NoSample
        /\ LiveHealth.api = "answered 200" => LiveHealth.request # NoSample

\* The button that checks comes back: no check is under way for ever.
CheckEnds == [](panel.open /\ ~LiveHealth.button => <>(panel.checking = FALSE))

\* Once nobody changes the mode, the address or the servers' health any more, the
\* readout of the top bar comes to say how the configured server is and says so
\* from then on, whatever was in flight (LiveStatus.tsx:31-44).
ReadoutSettles ==
    <>[](uiMode = "api" =>
            Tone = CASE health[server] = "ok"        -> "on the air"
                     [] health[server] = "unhealthy" -> "degraded"
                     [] health[server] = "down"      -> "unreachable")

\* The health screen speaks of the check that was asked for last and of the last
\* request of its own mode.
HealthIsOfTheLastAsked == NewestCheckIsShown /\ RequestShownIsTheLast
===============================================================================
