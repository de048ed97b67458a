--------------------------------- MODULE Tour ---------------------------------
(***************************************************************************)
(* The guided tour (features/tour) over the demonstration.  The step on    *)
(* screen is in the address bar, with the interview it opens; while there  *)
(* is one, the page is inert but for the step's target and the tour's own  *)
(* buttons.  The back button and a reload change the address without       *)
(* asking the tour.                                                        *)
(***************************************************************************)
EXTENDS Demo

CONSTANT MaxReloads   \* bound: reloads of the page

\* The tour simulates an interview, so there is an id for one.
ASSUME TourAssumption == MaxReloads \in Nat /\ MaxRuntime > 0

VARIABLES
    hash,      \* the address bar: step 0 is a page outside the tour
    behind,    \* the history entry behind it, NULL when there is none
    stored,    \* the step localStorage resumes at, 0 when there is none
    reloads

tourVars == <<hash, behind, stored>>
vars     == <<demoVars, tourVars, reloads>>

-------------------------------------------------------------------------------
\* TOUR_STEPS

TOUR_STEPS == 1 .. 9

RequiresAfterScorecard(n) ==   \* mutant
    CASE n = 3 -> "midway" [] n \in 5 .. 8 -> "processed" [] OTHER -> NULL

Requires(n) ==
    CASE n = 3 -> "midway" [] n \in 4 .. 8 -> "processed" [] OTHER -> NULL

\* The step opens the page of the interview.
OpensInterview(n) == n \in 4 .. 7

StartsSimulation(n) == n = 2

\* Its target is the panel of the decision.
IsDecision(n) == n = 7

HasNext(n) == n \in TOUR_STEPS \ {9}

Hashes  == [step : 0 .. 9, id : Ids \cup {NULL}]
Outside == [step |-> 0, id |-> NULL]

\* No requirement and no history entry are none of those there are.
ASSUME NoStepAssumption == NULL \notin {"midway", "processed"} \cup Hashes

HashOf(n, id) == [step |-> n, id |-> IF OpensInterview(n) THEN id ELSE NULL]

\* navigate: a new history entry, unless it is where the tab already is.
Navigate(h) ==
    /\ hash' = h
    /\ behind' = IF h = hash THEN behind ELSE hash
    /\ stored' = IF h.step = 0 THEN stored ELSE h.step

-------------------------------------------------------------------------------
\* The tour

\* show: prepares what the step requires, and goes there.
Show(n) ==
    IF Requires(n) # NULL
    THEN Prepare(Requires(n)) /\ Navigate(HashOf(n, demo'.simulated))
    ELSE Navigate(HashOf(n, NULL)) /\ UNCHANGED demoVars

\* TourLauncher and LandingView: from the first step, or where it was left.
Start ==
    /\ hash.step = 0
    /\ \/ Show(1)
       \/ stored > 1 /\ Show(stored)
    /\ UNCHANGED reloads

\* The button of step 2 or, when an interview is walked already, "Próximo" alone.
StartSimulation ==
    /\ StartsSimulation(hash.step)
    /\ IF playing = NULL THEN Simulate ELSE UNCHANGED demoVars
    /\ Navigate(HashOf(hash.step + 1, NULL))
    /\ UNCHANGED reloads

GoNext ==
    /\ HasNext(hash.step) /\ ~StartsSimulation(hash.step)
    /\ Show(hash.step + 1)
    /\ UNCHANGED reloads

GoPrevious ==
    /\ hash.step > 1
    /\ Show(hash.step - 1)
    /\ UNCHANGED reloads

\* close, or "Próximo" on the last step: the page stays, the tour is done when
\* the last step was on screen.
Close ==
    /\ hash.step # 0
    /\ hash' = [hash EXCEPT !.step = 0]
    /\ behind' = hash
    /\ stored' = IF hash.step = 9 THEN 0 ELSE hash.step
    /\ UNCHANGED <<demoVars, reloads>>

-------------------------------------------------------------------------------
\* The browser

Back ==
    /\ behind # NULL
    /\ hash' = behind
    /\ behind' = NULL
    /\ stored' = IF behind.step = 0 THEN stored ELSE behind.step
    /\ UNCHANGED <<demoVars, reloads>>

\* The initialiser of DemoProvider: the address decides what is prepared.
LoadedDemo(n) ==
    IF Requires(n) = NULL THEN InitialDemo ELSE Prepared(InitialDemo, Requires(n))

Reload ==
    /\ reloads < MaxReloads
    /\ reloads' = reloads + 1
    /\ demo' = LoadedDemo(hash.step)
    /\ playing' = NULL /\ timer' = FALSE /\ moves' = {}
    /\ UNCHANGED tourVars

-------------------------------------------------------------------------------
\* The demonstration under the tour

\* Anything a visitor may do outside the tour; some of it is on other pages.
Visit ==
    /\ hash.step = 0
    /\ \/ Simulate
       \/ \E e \in Externals \cup {NULL} : Create(e)
       \/ \E i \in Ids, to \in TERMINAL_STATUSES : Decide(i, to)
       \/ \E i \in Ids : Reprocess(i)
       \/ Reset
    /\ UNCHANGED <<tourVars, reloads>>

\* "Pode testar": the decision of the step that is about it.
TryDecision ==
    /\ IsDecision(hash.step) /\ hash.id # NULL
    /\ \E to \in TERMINAL_STATUSES : Decide(hash.id, to)
    /\ UNCHANGED <<tourVars, reloads>>

Play == Played /\ UNCHANGED <<tourVars, reloads>>

Init ==
    /\ DemoInit
    /\ hash = Outside /\ behind = NULL /\ stored = 0
    /\ reloads = 0

Next ==
    \/ Start \/ StartSimulation \/ GoNext \/ GoPrevious \/ Close
    \/ Back \/ Reload
    \/ Visit \/ TryDecision \/ Play

Spec == Init /\ [][Next]_vars

-------------------------------------------------------------------------------
\* Properties

\* The interview has its scorecard, decided on or not.
HasScorecard(i) == Settled(StatusOf(demo, i))

\* In a tab that has neither been reloaded nor reset, with no failed interview
\* reprocessed, a step that requires an interview has one, and a step that opens
\* its page finds the scorecard there, and still does when one comes back to it:
\* after the simulation that step 2 starts, after a new one, through the back
\* button and after a decision (features/tour/TourProvider.tsx:87-98, steps.ts:9-12).
StepsFindTheirInterview ==
    reloads + demo.generation = 0 /\ (\A i \in FailedSeeds : StatusOf(demo, i) = FALHOU) =>
        /\ hash.step # 0 /\ Requires(hash.step) # NULL => demo.simulated # NULL
        /\ OpensInterview(hash.step) => HasScorecard(hash.id)

\* The tour's own buttons lead to an interview that is there and processed,
\* whatever was reset, reloaded, reprocessed or interrupted before.
TourPreparesItsStep ==
    [][hash' # hash /\ behind' = hash /\ OpensInterview(hash.step)'
          => HasScorecard(hash.id)']_vars
===============================================================================
