--------------------------------- MODULE Demo ---------------------------------
(***************************************************************************)
(* The demonstration: the reducer that imitates the backend                *)
(* (demo/state.ts), the actions of its data source that reach the reducer  *)
(* (demoSource.ts) and the walk of one interview through the pipeline      *)
(* (DemoProvider.tsx).                                                     *)
(*                                                                         *)
(* An action is a click, or the end of a timer or of a view transition,    *)
(* with the render and the effects that follow it.  The interviews of the  *)
(* dataset that are neither failed nor waiting for a decision never change *)
(* and are left out.  What is shown around an interview - its artefacts,   *)
(* its card in the funnel, its trail, its notifications - is in Staging.   *)
(***************************************************************************)
EXTENDS InterviewStatus, Naturals

CONSTANTS
    FailedSeeds,   \* interviews of the dataset in FALHOU
    ReadySeeds,    \* interviews of the dataset in AGUARDANDO
    Externals,     \* external ids typed on the ingestion screen
    MaxRuntime,    \* bound: interviews created between two resets
    MaxResets,     \* bound: resets
    NULL

ASSUME DemoAssumption ==
    /\ {MaxRuntime, MaxResets} \subseteq Nat
    /\ NULL \notin FailedSeeds \cup ReadySeeds \cup Externals \cup Nat \cup InterviewStatuses
    /\ FailedSeeds \cap ReadySeeds = {}
    /\ (FailedSeeds \cup ReadySeeds) \cap Nat = {}   \* demo-<slug> is no runtime id

VARIABLES
    demo,      \* DemoState
    playing,   \* playingId, NULL when nothing is walked
    timer,     \* the timer of the walk is set
    moves      \* interviews whose step waits for a view transition to begin

demoVars == <<demo, playing, timer, moves>>

-------------------------------------------------------------------------------
\* The reducer

Runtime == 1 .. MaxRuntime   \* runtimeInterviewId: their sequence numbers
Seeds   == FailedSeeds \cup ReadySeeds
Ids     == Seeds \cup Runtime

\* Seconds of the virtual clock.
STEP_MS == 45

WriteAtOnce == 0   \* mutant

WRITE_MS == 1

Interviews == [status : InterviewStatuses, external : Externals \cup {NULL}, at : Nat]

\* An interview that is not there is none that is.
ASSUME NoInterviewAssumption == NULL \notin Interviews

Row(s, e, t) == [status |-> s, external |-> e, at |-> t]

\* The dataset is older than the anchor, at which the clock starts.
SeedStamp == 0
Anchor    == 1

InitialDemo ==
    [interviews |-> [i \in Ids |->
         IF i \in FailedSeeds THEN Row(FALHOU, NULL, SeedStamp)
         ELSE IF i \in ReadySeeds THEN Row(AGUARDANDO, NULL, SeedStamp)
         ELSE NULL],
     elapsed    |-> Anchor,
     sequence   |-> 0,
     simulated  |-> NULL,
     generation |-> 0]

NEXT_STATUS == [s \in {RECEBIDA, TRANSCREVENDO, DIARIZANDO, PONTUANDO} |->
    CASE s = RECEBIDA      -> TRANSCREVENDO
      [] s = TRANSCREVENDO -> DIARIZANDO
      [] s = DIARIZANDO    -> PONTUANDO
      [] s = PONTUANDO     -> AGUARDANDO]

StatusOf(d, i) == IF i = NULL \/ d.interviews[i] = NULL THEN NULL ELSE d.interviews[i].status

\* An interview is written: its status, and the instant of the clock it moves to.
Written(d, i, s, now) ==
    [d EXCEPT !.elapsed = now, !.interviews[i].status = s, !.interviews[i].at = now]

\* step: nothing happens to an interview that is not in mid-pipeline.
Stepped(d, i) ==
    IF StatusOf(d, i) \in DOMAIN NEXT_STATUS
    THEN Written(d, i, NEXT_STATUS[StatusOf(d, i)], d.elapsed + STEP_MS)
    ELSE d

\* insertRuntime
Inserted(d, e) ==
    LET id == d.sequence + 1 IN
    [d EXCEPT !.sequence = id, !.interviews[id] = Row(RECEBIDA, e, d.elapsed)]

\* simulate; its external ids are not among those a visitor types.
Simulated(d) == [Inserted(d, NULL) EXCEPT !.simulated = d.sequence + 1]

FORWARD_ORDER(s) ==
    CASE s = RECEBIDA -> 1 [] s = TRANSCREVENDO -> 2 [] s = DIARIZANDO -> 3
      [] s = PONTUANDO -> 4 [] s = AGUARDANDO -> 5 [] OTHER -> 0

TargetTooEarly(level) ==   \* mutant
    CASE level = "midway" -> DIARIZANDO [] level = "processed" -> PONTUANDO

LEVEL_TARGET(level) ==
    CASE level = "midway" -> DIARIZANDO [] level = "processed" -> AGUARDANDO

\* prepareSimulation: the steps still missing, one after the other.
Prepared(d, level) ==
    LET next    == IF d.simulated = NULL THEN Simulated(d) ELSE d
        id      == next.simulated
        rank    == FORWARD_ORDER(StatusOf(next, id))
        missing == FORWARD_ORDER(LEVEL_TARGET(level)) - rank
    IN  IF rank = 0 \/ missing <= 0 THEN next
        ELSE Written(next, id, LEVEL_TARGET(level), next.elapsed + missing * STEP_MS)

MayPrepare(d) == d.simulated # NULL \/ d.sequence < MaxRuntime

Deduplicated(d, e) ==
    e # NULL /\ \E i \in Ids : d.interviews[i] # NULL /\ d.interviews[i].external = e

\* create: an external id that is known creates nothing.
Created(d, e) == IF Deduplicated(d, e) THEN d ELSE Inserted(d, e)

-------------------------------------------------------------------------------
\* The provider

PLAYABLE == {RECEBIDA, TRANSCREVENDO, DIARIZANDO, PONTUANDO}

EffectOnIdOnly(p, d) == p # playing   \* mutant

\* The dependencies of the effect, playingId and playingStatus, have changed.
EffectRuns(p, d) == <<p, StatusOf(d, p)>> # <<playing, StatusOf(demo, playing)>>

\* The render of the state d with the interview p walked, and its effect: a walk
\* that is over ends, any other sets its timer when its interview has moved.
Render(d, p) ==
    /\ demo' = d
    /\ IF StatusOf(d, p) \in PLAYABLE
       THEN /\ playing' = p
            /\ timer' = (EffectRuns(p, d) \/ timer)
       ELSE /\ playing' = NULL
            /\ timer' = FALSE

DemoInit ==
    /\ demo = InitialDemo
    /\ playing = NULL /\ timer = FALSE /\ moves = {}

\* The buttons that simulate, disabled or inert while an interview is walked.
Simulate ==
    /\ playing = NULL
    /\ demo.sequence < MaxRuntime
    /\ Render(Simulated(demo), demo.sequence + 1)
    /\ UNCHANGED moves

\* controls.prepare, which ends any walk.
Prepare(level) ==
    /\ MayPrepare(demo)
    /\ Render(Prepared(demo, level), NULL)
    /\ UNCHANGED moves

Create(e) ==
    /\ Deduplicated(demo, e) \/ demo.sequence < MaxRuntime
    /\ Render(Created(demo, e), playing)
    /\ UNCHANGED moves

Decide(i, to) ==
    /\ StatusOf(demo, i) = AGUARDANDO
    /\ Render(Written(demo, i, to, demo.elapsed + WRITE_MS), playing)
    /\ UNCHANGED moves

\* The interview reprocessed becomes the one that is walked.
Reprocess(i) ==
    /\ StatusOf(demo, i) = FALHOU
    /\ Render(Written(demo, i, TRANSCREVENDO, demo.elapsed + WRITE_MS), i)
    /\ UNCHANGED moves

Reset ==
    /\ demo.generation < MaxResets
    /\ Render([InitialDemo EXCEPT !.generation = demo.generation + 1], NULL)
    /\ UNCHANGED moves

\* The timer fires and asks for a view transition.
Fire ==
    /\ timer
    /\ timer' = FALSE
    /\ moves' = moves \cup {playing}
    /\ UNCHANGED <<demo, playing>>

\* The transition begins, or there is none: the interview asked for then steps,
\* whatever has become of it.
Move(i) ==
    /\ i \in moves
    /\ moves' = moves \ {i}
    /\ Render(Stepped(demo, i), playing)

Played == Fire \/ \E i \in Ids : Move(i)

DemoNext ==
    \/ Simulate
    \/ \E e \in Externals \cup {NULL} : Create(e)
    \/ \E i \in Ids, to \in TERMINAL_STATUSES : Decide(i, to)
    \/ \E i \in Ids : Reprocess(i)
    \/ \E level \in {"midway", "processed"} : Prepare(level)
    \/ Reset
    \/ Played

DemoSpec == DemoInit /\ [][DemoNext]_demoVars

\* Timers fire, and a view transition that was asked for calls back.
DemoFairness == WF_demoVars(Fire) /\ \A i \in Ids : WF_demoVars(Move(i))

FairDemoSpec == DemoSpec /\ DemoFairness

-------------------------------------------------------------------------------
\* Properties

\* Two contents of a row never have the same updated_at, across a reset too: the
\* projection of the shared list tells them apart by nothing else
\* (demo/state.ts:92-99, lib/projection.ts:120-129).
StampsTellRowsApart ==
    [][\A i \in Ids : NULL \notin {demo.interviews[i], demo.interviews'[i]}
          /\ demo.interviews[i].status # demo.interviews'[i].status
          => demo.interviews[i].at # demo.interviews'[i].at]_demoVars

\* A walk comes to its end, in review, decided, failed or reset, so the button
\* that simulates is never disabled for good (DemoProvider.tsx:79-104).
PlaybackEnds == playing # NULL ~> playing = NULL
===============================================================================
