-------------------------------- MODULE Staging --------------------------------
(***************************************************************************)
(* What the demonstration stages around its interviews: the artefacts that *)
(* come with a status, the funnel of candidates, the audit trail, the      *)
(* delivery log and the answers of the ingestion (demo/state.ts,           *)
(* demo/dataset.ts, demo/demoSource.ts).  They are kept beside the rows of *)
(* Demo, and every action of Demo writes them with the row.                *)
(***************************************************************************)
EXTENDS Demo, Sequences, FiniteSets

CONSTANTS
    HandStages,    \* columns to which a person moves a card
    MaxHandMoves   \* bound: cards that are where a person put them

FUNNEL_STAGES == {"triagem", "entrevista", "revisao", "proposta", "encerrado"}

ASSUME StagingAssumption == HandStages \subseteq FUNNEL_STAGES /\ MaxHandMoves \in Nat

VARIABLES
    staged,   \* the rest of DemoState, what the interviews hold, and lastIngestion
    answer,   \* what createInterview answered in this step, NULL if it was not called
    byHand    \* history: cards that are where a person put them

stagingVars == <<demoVars, staged, answer, byHand>>

-------------------------------------------------------------------------------
\* artifactsFor; the one interview of the dataset without dialogue never moves.
ArtifactsFor(s) ==
    CASE s = DIARIZANDO -> {"transcription"}
      [] s = PONTUANDO  -> {"transcription", "diarization"}
      [] s \in {AGUARDANDO} \cup TERMINAL_STATUSES -> {"transcription", "diarization", "scorecard"}
      [] OTHER -> {}

\* The dataset: artefacts, initialFunnelStages, no decision, and in the delivery log
\* the instant its notifications are dated from, NULL for an interview without any.
InitialStaged ==
    [artefacts |-> [i \in Ids |-> ArtifactsFor(StatusOf(InitialDemo, i))],
     stageById |-> [i \in Ids |-> IF i \in ReadySeeds THEN "revisao" ELSE "entrevista"],
     audit     |-> [i \in Ids |-> <<>>],
     delivery  |-> [i \in Ids |-> IF i \in ReadySeeds THEN SeedStamp ELSE NULL],
     last      |-> NULL]

StagingInit == DemoInit /\ staged = InitialStaged /\ answer = NULL /\ byHand = {}

\* The answer of the webhook for an interview.
Accepted(id, s, deduplicated) == [id |-> id, status |-> s, deduplicated |-> deduplicated]

\* insertRuntime: the interview arrives, and joins those that are interviewed.
Arrived(st, id) ==
    [st EXCEPT !.stageById[id] = "entrevista", !.last = Accepted(id, RECEBIDA, FALSE)]

\* step: the artefacts of the status it reaches; of an interview that becomes ready
\* notifications are logged, and its card is moved to the review.
Advanced(st, id, s, at) ==
    [st EXCEPT !.artefacts[id] = ArtifactsFor(s),
               !.delivery[id]  = IF s = AGUARDANDO THEN at ELSE @,
               !.stageById[id] = IF s = AGUARDANDO THEN "revisao" ELSE @]

\* mutant: a preparation does not log the notifications its last step sends
UnnotifiedPreparation(st, d, new) ==
    LET id == new.simulated
        there == IF d.simulated = NULL THEN Arrived(st, id) ELSE st
    IN  IF StatusOf(new, id) = StatusOf(d, id) THEN there
        ELSE [Advanced(there, id, StatusOf(new, id), new.elapsed) EXCEPT !.delivery = st.delivery]

\* prepareSimulation: a simulation when there is none, and the steps still missing,
\* of which the last writes over what the others did.
PreparedStaged(st, d, new) ==
    LET id == new.simulated
        there == IF d.simulated = NULL THEN Arrived(st, id) ELSE st
    IN  IF StatusOf(new, id) = StatusOf(d, id) THEN there
        ELSE Advanced(there, id, StatusOf(new, id), new.elapsed)

\* The interview an external id already names.
Known(d, e) == CHOOSE i \in Ids : d.interviews[i] # NULL /\ d.interviews[i].external = e

\* create, which records what it answers.
CreatedStaged(st, d, e) ==
    IF Deduplicated(d, e)
    THEN [st EXCEPT !.last = Accepted(Known(d, e), StatusOf(d, Known(d, e)), TRUE)]
    ELSE Arrived(st, d.sequence + 1)

\* createInterview works its answer out by itself, from the state before.
AnswerTo(d, e) ==
    IF Deduplicated(d, e) THEN Accepted(Known(d, e), StatusOf(d, Known(d, e)), TRUE)
    ELSE Accepted(d.sequence + 1, RECEBIDA, FALSE)

\* decide: an entry in the trail, and the card to the column of the verdict.
DecidedStaged(st, i, to, now) ==
    [st EXCEPT !.audit[i] = Append(@, [verdict |-> to, at |-> now]),
               !.stageById[i] = IF to = APROVADA THEN "proposta" ELSE "encerrado"]

-------------------------------------------------------------------------------
StagedSimulate ==
    /\ Simulate
    /\ staged' = Arrived(staged, demo.sequence + 1)
    /\ answer' = NULL /\ UNCHANGED byHand

StagedPrepare(level) ==
    /\ Prepare(level)
    /\ staged' = PreparedStaged(staged, demo, demo')
    /\ byHand' = IF staged'.delivery # staged.delivery THEN byHand \ {demo'.simulated} ELSE byHand
    /\ answer' = NULL

StagedCreate(e) ==
    /\ Create(e)
    /\ staged' = CreatedStaged(staged, demo, e)
    /\ answer' = AnswerTo(demo, e)
    /\ UNCHANGED byHand

StagedDecide(i, to) ==
    /\ Decide(i, to)
    /\ staged' = DecidedStaged(staged, i, to, demo'.elapsed)
    /\ byHand' = byHand \ {i}
    /\ answer' = NULL

\* Reprocessing writes the row alone: artefacts, card and trail stay.
StagedReprocess(i) ==
    /\ Reprocess(i)
    /\ answer' = NULL /\ UNCHANGED <<staged, byHand>>

\* A step of the walk, which changes nothing of an interview that cannot move.
StagedMove(i) ==
    /\ Move(i)
    /\ staged' = IF demo' = demo THEN staged
                 ELSE Advanced(staged, i, StatusOf(demo', i), demo'.elapsed)
    /\ byHand' = IF demo' # demo /\ StatusOf(demo', i) = AGUARDANDO THEN byHand \ {i} ELSE byHand
    /\ answer' = NULL

StagedFire ==
    /\ Fire
    /\ answer' = NULL /\ UNCHANGED <<staged, byHand>>

\* A person moves a card (moveFunnel): any card, to any column, whatever its status.
MoveFunnel(i, stage) ==
    /\ StatusOf(demo, i) # NULL
    /\ Cardinality(byHand \cup {i}) <= MaxHandMoves
    /\ staged' = [staged EXCEPT !.stageById[i] = stage]
    /\ byHand' = byHand \cup {i}
    /\ answer' = NULL /\ UNCHANGED demoVars

\* mutant: what is kept beside the rows survives them
ResetOfTheRowsAlone == Reset /\ answer' = NULL /\ byHand' = {} /\ UNCHANGED staged

StagedReset == Reset /\ answer' = NULL /\ byHand' = {} /\ staged' = InitialStaged

StagingNext ==
    \/ StagedSimulate
    \/ \E e \in Externals \cup {NULL} : StagedCreate(e)
    \/ \E i \in Ids, to \in TERMINAL_STATUSES : StagedDecide(i, to)
    \/ \E i \in Ids : StagedReprocess(i)
    \/ \E level \in {"midway", "processed"} : StagedPrepare(level)
    \/ StagedReset
    \/ StagedFire
    \/ \E i \in Ids : StagedMove(i)
    \/ \E i \in Ids, stage \in HandStages : MoveFunnel(i, stage)

StagingSpec == StagingInit /\ [][StagingNext]_stagingVars

\* What is staged follows Demo step by step, so the fairness is that of Demo.
FairStagingSpec == StagingSpec /\ DemoFairness

-------------------------------------------------------------------------------
(* Properties. *)

Present == {i \in Ids : demo.interviews[i] # NULL}

\* What the worker may have committed of an interview whose status is one of the
\* pipeline's: the checkpoints before that status, or, between the commit of a
\* checkpoint and that of the status it leads to, one more (app/tasks.py:117-175).
LeftByTheWorker(s) ==
    CASE s = RECEBIDA      -> {{}}
      [] s = TRANSCREVENDO -> {{}, {"transcription"}}
      [] s = DIARIZANDO    -> {{"transcription"}, {"transcription", "diarization"}}
      [] s = PONTUANDO     -> {{"transcription", "diarization"}, {"transcription", "diarization", "scorecard"}}
      [] OTHER             -> {{"transcription", "diarization", "scorecard"}}

\* What is shown of an interview that has not failed is what the worker may have left
\* of it, whichever way it came to its status - walked, prepared, decided, reprocessed
\* (dataset.ts:354-407, "mirroring the order in which app/tasks.py writes them").  Of a
\* failed one the worker leaves what its job had committed, which depends on the stage
\* that failed; the dataset stages every failed one without artefacts, also the one
\* whose error_log names the scoring, so nothing is said of FALHOU here.
StagedAsTheWorkerLeavesIt ==
    \A i \in Present :
        StatusOf(demo, i) # FALHOU => staged.artefacts[i] \in LeftByTheWorker(StatusOf(demo, i))

\* The trail of an interview is its decision: one entry if it was decided, of that
\* verdict and of the instant the row was written; none if it was not, although a
\* reset gives its number to another interview (state.ts:228-247, 365-371).
TrailIsTheDecision ==
    \A i \in Present :
        staged.audit[i] = IF StatusOf(demo, i) \in TERMINAL_STATUSES
                   THEN <<[verdict |-> StatusOf(demo, i), at |-> demo.interviews[i].at]>>
                   ELSE <<>>

\* Notifications are logged of the interviews that have a scorecard, and of no
\* other, dated no later than the last write to the row (state.ts:162-170, dataset.ts:583-633).
DeliveredOncePerScorecard ==
    \A i \in Present :
        /\ staged.delivery[i] # NULL <=> "scorecard" \in staged.artefacts[i]
        /\ staged.delivery[i] # NULL => staged.delivery[i] <= demo.interviews[i].at

\* A card nobody has touched since its interview last became ready or was decided
\* is in the column of its status (state.ts:171-173, 243-246).
CardIsWhereItsStatusSays ==
    \A i \in Present \ byHand :
        staged.stageById[i] = CASE StatusOf(demo, i) = AGUARDANDO -> "revisao"
                         [] StatusOf(demo, i) = APROVADA   -> "proposta"
                         [] StatusOf(demo, i) = REJEITADA  -> "encerrado"
                         [] OTHER                          -> "entrevista"

\* The id the ingestion screen is answered with is that of an interview that is
\* there, in the status it was told, and is what the inspector shows: the source
\* and the reducer work it out apart (demoSource.ts:121-145, state.ts:281-311).
AnswerIsWhatWasStored ==
    answer # NULL => answer = staged.last /\ StatusOf(demo, answer.id) = answer.status

\* An interview of the demonstration that has not failed is one the worker could have
\* left, and none was announced that the worker would not have announced.
StagedAsByTheWorker == StagedAsTheWorkerLeavesIt /\ DeliveredOncePerScorecard

\* What is kept apart from the row by its id - the trail, the card, the answer to
\* who created it - is about that row, whichever interview had the id before.
RecordsAreOfTheirRow == TrailIsTheDecision /\ CardIsWhereItsStatusSays /\ AnswerIsWhatWasStored
===============================================================================
