# A verification of scorecard-pipeline in TLA+

This directory models the parts of scorecard-pipeline in which something can go
wrong that no unit test would easily reach: the pipeline that takes an interview
from a webhook to a human decision (PostgreSQL rows, RQ jobs, workers, API
processes, a reconciliation routine), what one job does to its machine (files,
models, a conversation with a model, notifications), and the frontend, where
several asynchronous parties write what a screen shows and where many pure
functions have to agree with each other and with the server. The models are
checked with TLC on small instances; every safety property of the passing runs is
also proved with TLAPS for every value of the constants, under the assumptions and
for the inputs that [proofs](#proofs) names. What TLC alone checks is liveness.

Contents: [the system](#the-system) · [hard behaviour](#what-is-hard-about-it) ·
[modules](#modules) · [pipeline](#the-pipeline) · [one job](#one-job-and-the-intake) ·
[frontend](#the-frontend) ·
[runs](#runs-and-what-they-show) · [findings](#findings) · [bounds](#bounds) ·
[fairness](#fairness) · [proofs](#proofs) · [left out](#what-is-not-modelled) ·
[plan](#plan)

## The system

| Part | State it keeps | Operations | Correct when |
| --- | --- | --- | --- |
| Interview state machine (`app/models.py`) | one row per interview: status, transcript, dialogue, scorecard, approval token, error log | `transition_to`, checked against `VALID_TRANSITIONS` | statuses only move along the table |
| Pipeline worker (`app/tasks.py`) | a SQLAlchemy session over one row | `process_interview`: select for update, resume or start, transcribe, diarize, score, publish, notify; `_record_failure` | a status is never ahead of the work; the scorecard is about the stored transcript and dialogue |
| Job queue (`app/queue.py`, `run_worker.py`) | RQ's queue and scheduled registry in Redis | `enqueue_processing`, retry with backoff, startup validation | faults are retried; duplicates are harmless; a worker that starts can run |
| Reconciliation and retention (`app/maintenance.py`) | none | `requeue_stale_interviews`, `purge_old_interviews` | a received interview is eventually picked up |
| Interview API (`app/main.py`) | none between requests | recording webhook, decision, decision link, reprocessing, reads | a recording is taken once; a decision is taken once, on an open interview |
| Speech and audio (`app/services.py`, `app/audio_processor.py`) | a temporary file, models in memory | download, convert, transcribe, diarize, merge | sentences keep their speaker; files do not leak; two model families never share the memory |
| Scoring (`app/scoring.py`, `app/text_utils.py`) | the conversation with the model | score, validate the evidence | a valid scorecard or an error, in bounded attempts that see what was wrong |
| Notifications (`app/notifications.py`) | none | deliver the decision link | every channel is tried; a link that was delivered works |
| Authentication (`app/security.py`), configuration (`app/config.py`), logging | none | key, signature, token | a refusal can be told from a failure |
| Shared list (`data/InterviewsProvider.tsx`, `lib/projection.ts`, `hooks/usePolling.ts`) | rows, projection cache, announcement history, job titles | load, poll, switch dataset | every screen shows the list last received, of its own dataset |
| Review screen (`InterviewDetailView.tsx`, `DecisionActions.tsx`, `FailurePanel.tsx`) | the interview shown, the confirmation, the rollback notice | load, poll, decide, reprocess | one decision at a time; what is shown ends up true |
| Demonstration (`demo/*`) | a reducer that imitates the backend with its funnel, trail, delivery log and answers; one walk | simulate, prepare, create, ingest, decide, move a card, reprocess, reset, step | walks end; what is kept beside a row is about that row |
| Guided tour (`features/tour/*`) | the step in the address bar, the place to resume at, the spotlight | start, next, previous, close, place, trap the keyboard | the step's interview is there, its target can be seen and used |
| Routing and preferences (`app/routes.ts`, `config/*`, `features/settings`) | the address, theme and interval, API address and key, each with a copy in localStorage | parse, write, choose, save, clear, reload | an address reopens its page; what a reload finds is what was chosen last, and where it is not is known |
| Evidence and transcript (`lib/evidence.ts`, `lib/transcript.ts`, `Transcript.tsx`, `EvidenceBadge.tsx`) | none | locate a quote, nearest passage, highlight | the screen agrees with the worker about a quote |
| API client (`api/*`, `errorTaxonomy.ts`) | the last request | request, normalize, explain | a failure is explained by its cause |
| Dashboard, list, approvals (`lib/metrics.ts`, `lib/status.ts`, `features/*`) | a scroll position | count, filter, sort, window | the screens agree; nobody waits unseen |
| Health, ingestion, integrations (`features/*`, `LiveStatus.tsx`) | a check under way, a form, a preview | check, submit, preview | what is shown is of the last thing asked |
| Remaining screens, scripts | see [below](#what-is-not-modelled) | | |

How they meet. The webhook commits a row and then enqueues a job: two stores, no
transaction around both. A worker takes a job, locks the row with
`SELECT ... FOR UPDATE SKIP LOCKED`, and commits after every step, so the row is
the checkpoint a later job resumes from and the lock lasts only until the first
commit. A failure is recorded in a transaction of its own and re-raised to RQ,
which schedules a retry. Reconciliation, reprocessing and the webhook add jobs
without knowing which are already there. Publishing an interview issues a token
that the decision link carries; a decision revokes it. In the browser, polling and
user actions send requests whose answers come back in any order to components
that may meanwhile show something else; the demonstration replaces the server by a
reducer that answers at once and is advanced by timers and view transitions.

## What is hard about it

- **Duplicate jobs.** Webhook, reconciliation, reprocessing and RQ retries each
  enqueue on their own. The row lock orders the starts, not the work.
- **Statuses are checked on a copy.** `transition_to` looks at the session's row;
  the UPDATE does not look at the database's.
- **Any step may fail or be killed**, before or after its commit, including the
  step that records the failure, the enqueue that follows an insert, and the
  notification that follows a publication.
- **Retries** are scheduled in a registry only RQ's scheduler empties.
- **Several API processes** look an external id up, insert and enqueue in three
  statements, and the provider repeats what it thinks was lost.
- **Late answers** in the browser: for another interview, for another API, from
  before a decision, after the check that replaced them.
- **Two copies of one truth**: a preference in two components, a configuration in
  a form, in force and in localStorage, a Slack message in Python and in
  TypeScript, a quote searched by two languages, a status counted by five screens.
- **Effects and renders** of one React commit run in an order that matters.
- **Timers and view transitions** of the demonstration call back after a reset, a
  replacement or a preparation of what they were about.
- **Records beside a row** of the demonstration are keyed by an id that a reset
  gives to another interview.
- **The address bar and the state of a page** are moved apart by the back button,
  a reload and a reset.
- **Boundaries**: touching intervals, empty texts, accents, periods of one day, a
  list at its threshold, a target half off the screen.

Every hazard, with its line and the properties that watch it, is in
`PROJECT.json`.

## Modules

| Module | Models | Uses |
| --- | --- | --- |
| `InterviewStatus` | the statuses and `VALID_TRANSITIONS` | |
| `Lifecycle` | the abstract promise of one interview to its users | `InterviewStatus` |
| `Pipeline` | rows, locks, queue, workers, API handlers, routines | `InterviewStatus` |
| `PipelineProperties` | properties, inductive invariant, fairness | `Pipeline`, instantiates `Lifecycle` |
| `PipelineProofs`, `OneWorkerProofs` | theorems for any number of workers; for one | `PipelineProperties`, `TLAPS` |
| `Attempt` | one job as its work-horse runs it: the temporary file, the models, the conversation, the channels | |
| `Intake` | the provider's webhooks and several API processes | |
| `Cases` | the one variable of the modules of functions, the call considered; what a filter keeps of a sequence, and a stable sort | |
| `Speech` | the three transcription drivers, the diarizer and the merge | `Cases` |
| `Providers` | what the settings select, require and are shown as | `Speech` |
| `Messages` | the Slack and webhook messages, sent and previewed, and what their links decide | `Cases`, `InterviewStatus` |
| `Review`, `ReviewProofs` | review screen, its requests, the server | `InterviewStatus` |
| `SharedList`, `SharedListProofs` | list provider, projection, announcements | |
| `Demo`, `Staging` | demo reducer and the walk; what it keeps beside the rows | `InterviewStatus`; `Demo` |
| `Tour` | guided tour over the demonstration | `Demo` |
| `Coachmark` | the tour's spotlight, blockers, place and keyboard | `Cases` |
| `Evidence` | the worker's and the screen's search for a quote | `Cases` |
| `Client` | request, error, normalization, diagnosis | `Cases` |
| `Routes` | addresses and the links around every screen | `Cases` |
| `Polling` | the timers of the list and of an open interview, which renders set anew | |
| `Preferences`, `ApiSettings` | theme and interval; where the API is | |
| `Boards` | dashboard, board, list, approvals, numbers of a period | `Cases`, `InterviewStatus` |
| `Windowing` | the rows of the list that are in the page | |
| `Health` | health screen, its checks, the readout of the top bar, the last request | |
| `Ingestion` | the ingestion form and its webhook | |
| `DemoProofs`, `TourProofs` | theorems about the demonstration and what it stages, and about the tour | `Demo`, `Staging`; `Tour`, `DemoProofs`; `TLAPS` |
| `CallsProofs` | theorems about the modules of functions `Speech`, `Providers`, `Client`, `Messages`, `Evidence`, `Boards` | those, `TLAPS` |
| `PartsProofs` | theorems about `Intake`, `Attempt`, `ApiSettings`, `Preferences`, `Health`, `Ingestion`, `Windowing`, `Polling`, `Routes`, `Coachmark` | those, `TLAPS` |
| `MCPipeline`, `MCReview`, `MCSharedList`, `MCDemo`, `MCTour`, `MCParts` | instances for TLC | |

`MCParts` puts together the modules that share no variable: each has a scene in
which it moves and the others stand still, and the modules of functions share a
scene in which one of their calls is considered. Scenes cannot influence each
other, so what holds in `MCParts` holds of each module.

A definition whose comment says `mutant` is not part of the model: it is the form
its neighbour would take with a plausible bug, and shows that the property named
in `PROJECT.json` notices that bug.

## The pipeline

A step of `Pipeline` is one database transaction, one Redis command, or one
failure. The correspondence:

| TLA+ | Code |
| --- | --- |
| `row[i]` | the row of `interviews`; `token = 0` is a NULL `approval_token`, `error` says whether `error_log` is set |
| `lock[i]` | the worker whose transaction holds `FOR UPDATE` on the row |
| `queue`, `scheduled` | RQ's list and `ScheduledJobRegistry`, a job being an interview and its retries left |
| `held`, `stage`, `reading`, `mem` | a worker's job, its place in `process_interview`, whether it is between a `commit()` and the `refresh()` after it, and its session's copy |
| `api[p]` | the handler an API process is in, between its two steps |
| `WebhookInsert`, `WebhookEnqueue` | `recording_webhook`: the commit, then `enqueue_processing` |
| `ReadForAction`, `ReadForDecisionLink`, `CommitDecision` | `interview_action`, `interview_decision`, `_apply_decision` |
| `Reprocess`, `Reconcile`, `Purge` | `reprocess_interview`, one row of each maintenance routine |
| `SelectForUpdate`, `SelectNothingToDo`, `SelectMissing` | the three ways the first SELECT ends |
| `Resume` ... `Await`, `Refresh` | the commits of `_run_pipeline` and the refreshes between them |
| `Notify`, `NotifyDropped` | `notify_approval` and what its dispatcher swallows |
| `Raise`, `RaiseAlways`, `FailRead`, `FailWrite`, `FailureLost`, `Crash` | exceptions, `_record_failure`, a killed process |
| `ScheduledFires` | RQ's scheduler, if some worker runs it |

A commit writes only the columns the session changed, over whatever the row is by
then (`Save`); that is what SQLAlchemy's unit of work sends, and why one job can
overwrite another's status without touching its transcript. What a step computes
takes effect only with its commit, so transcribing and storing the transcript are
one action. Transcripts, dialogues and scorecards are model values that remember
what they were made from: a scorecard is the pair of transcript and dialogue it
judges. `Empty` is the empty list, which the code stores and then treats as
missing. RQ and PostgreSQL are external: their behaviour is taken from how the
code calls them.

`Lifecycle` is what a user of the service relies on: statuses along
`VALID_TRANSITIONS`, a scorecard published together with `AGUARDANDO_APROVACAO`
and constant from then on, a decision that stands until the row is purged. With
one worker and one API process, `Pipeline` implements it under the mapping
`status <- row[i].status`, `published <-` the scorecard of a settled row. With
two workers it does not (see [findings](#findings)); docs/adr/0001 (line 18)
proposes exactly that, "adding RQ workers", to scale.

## One job and the intake

`Attempt` takes the jobs of one interview apart, one after the other, where
`Pipeline` has one action per stage. Of the row it keeps what a job looks at: the
status (`committed`), the checkpoints that are not empty (`saved`), and whether the
transcription names its speakers (`labelled`). Every commit may fail, or succeed and
be followed by a `refresh` that fails (`MoveOn`), and the failure may or may not be
recorded (`RecordFailure`). What
is refined is what a job takes from its machine: `OpenDownload`, `Chunk` and
`DownloadEnds` are `download_audio`, with a size limit and a removal that may
itself fail; the transcription takes the file that is downloaded, or the path as it
is, and the diarization downloads only if no earlier stage did; `models` is the
memory, emptied (`Evicted`) between the stages; `messages` is the
conversation, `BeginScoring` and `Ask` the loop that corrects it; `Publish` is the
commit that makes the interview await its approver, `NotifyUnread` the read after it
that fails, and `Notify` tells one channel per step. `cutShort` remembers what kept
a job that had published from telling them. `Killed` takes the process away at any of them. RQ
forks a process per job, so `models` is empty when one starts.

`Intake` has any number of API processes. `LookUp`, `Insert` (over the unique
constraint on `external_id`, which turns the second of two inserts into an answer
500) and `Enqueue202` are the statements of `recording_webhook`; a delivery may be sent
twice at once, and again until it is answered. `Anonymous` recordings have no
external id, and promise nothing about duplicates.

`Speech` and `Providers` are functions: the transcription drivers and the diarizer
with every way they fail, `diarize_audio` with its passthrough, the merge, the
consolidated text and dialogue, the startup check, the driver a job uses, and what
`GET /integrations` says. A job of `Providers` hears speech or silence, or finds a
transcription stored with or without speakers. `Messages` renders a scorecard as the worker does and as
the integrations screen does, and follows a button's address to the endpoint it
reaches.

## The frontend

`Review` has a request per slot. The server reads or executes it in one step and
the browser handles the answer in another, using the id and the interview of the
render that sent it, as the closures of `load` and `handleDecide` do. `GoTo` keeps
the component mounted, which is what `App.tsx` does by giving it no key; `Leave`
unmounts it. The busy flag of `FailurePanel` is `busy`: a panel that is mounted anew
has a new one, so a second reprocessing can be sent while the first is in flight.

`Polling` has the two timers of an open interview, in seconds. `usePolling` sets its
timer anew whenever its component renders, because the default of `isHidden` is
another function each time and its effect depends on it; so `Restart` is what a
render of the provider, with the screen in it, does to both, and which of two timers
that are due together fires first is the order in which they were set. A timer fires
at its time; the delay of a busy or throttled page is not modelled, nor is a rebuilt
source, which would poll at once.

`SharedList` covers both modes: over the API a list is asked for, read and
received in three steps; over the demonstration it is read in the commit that
follows an action. A step of the provider is a React commit with its effects in
source order, which is what decides `HeardAtSwitch` and `CacheAtSwitch`. It
assumes that two contents of a row with one `updated_at` are equal: the backend's
`onupdate` gives that for the API, and for the demonstration `Demo` checks it
(`StampsTellRowsApart`).

`Demo` is the reducer of `demo/state.ts` restricted to the rows it can change,
with its virtual clock, and the effect of `DemoProvider` that walks one interview:
`Fire` is the timer, `Move` the callback of the view transition, `Render` the state
with the effect that follows. `Staging` adds to every one of its actions what the
code writes in the same reduction: the artefacts a status comes with, the funnel
and the cards a person moves, the audit trail, the delivery log, and the answer the
source computes apart from the reducer. `Tour` puts the tour's buttons, the back
button and a reload on top of `Demo`. While a step is on screen the page is inert
except for the step's target, so other visitor actions happen only outside the
tour.

`Health`, `Ingestion`, `Preferences`, `ApiSettings` and `Windowing` are one screen
each with what it talks to. `Health` has requests in slots, as `Review` does, a
server whose health changes and an address that moves; the run id of the screen and
its absence in the top bar are what its properties are about. `Preferences` has the
two copies that two mounted components hold, and three variables of its own beside
them: what was chosen last, what each copy has missed of it, and what has been
written over it. `Windowing` has the position the
browser is at, the one React was told, and the frame between them.

The other modules are functions, considered one call at a time. A text of
`Evidence` is a sequence of characters among a letter, another, a capital, an
accent that stands apart, a full stop and a space, because the two searches differ
in how they treat exactly those. `Client` answers a request of each kind of endpoint
in every state of server, origin, credentials, id and payload, with the 400 and 500
of the webhook and the 422 of an id that is none, and follows it to what is shown: the
diagnosis of a load (`ErrorState`), or the words a form or a button repeats (`Told`).
`Routes` parses every hash of a small grammar, in both builds, and
opens every link of the frame around the page it gives. `Boards` puts one list on
every screen that reads it. `Coachmark` places every target and coachmark of a
grid of sizes.

## Runs and what they show

| Run | Instance | States | Properties |
| --- | --- | --- | --- |
| `one_worker` | 2 interviews (one without `job_id`), 1 worker, 1 API process, 2 faults, 1 retry, an API that may return an empty transcript, no pyannote, no RQ scheduler: the processes docker-compose.yml starts, with Deepgram and no `HF_TOKEN` as in .env.example | 529 k | `ScorecardMatchesCheckpoints`, `LinkWorksUntilDecision`, `FailureIsExplained`, `Lifecycle` (refinement), `ReceivedIsPickedUp` (liveness) |
| `many_workers` | 1 interview, 2 workers, duplicate jobs, empty transcripts, pyannote, RQ scheduler, 1 fault | 712 k | `StatusBacked`, `PipelineInvariant` (of which `TypeOK`, `LockedCopyIsCurrent` and `StartsUnderLock` are conjuncts) |
| `faults_are_masked` | 1 interview, 1 worker, RQ scheduler, as many faults as retries | 5 k | `FaultsAreMasked` (liveness) |
| `review` | 2 interviews, 2 requests in flight, 1 fault | 652 k | `OneDecisionInFlight`, `NoPhantomDecision` |
| `list` | both modes, 1 interview, 2 requests, a dataset switch, 2 writes, 1 fault | 299 k | `SummariesAreCurrent`, `TitlesAreCurrent`, `DemoIsReread`, `ListCatchesUp` (liveness) |
| `demo` | 1 failed interview, 1 in review, 1 created or ingested, 1 reset, 1 card moved by hand | 350 k | `StagedAsByTheWorker`, `RecordsAreOfTheirRow`, `StampsTellRowsApart`, `PlaybackEnds` (liveness) |
| `tour` | 1 failed interview, 2 simulated, 1 reset, 1 reload | 854 k | `StepsFindTheirInterview`, `TourPreparesItsStep` |
| `parts` | the other modules, a scene each | 167 k | see the next table |
| `decision_overwritten` | 2 workers, no fault | | `DecisionStands`, violated |
| `retries_never_run` | 1 worker, 1 fault | | `RetriesRun`, violated |
| `review_wrong_interview` | 2 interviews, no fault | | `DecidesOnTheOneShown`, violated |
| `list_reset_announced` | the demonstration, one action, one reset | | `ResetIsSilent`, violated |

The properties of `parts`, most of them conjunctions of named parts:

| Property | Parts | Says |
| --- | --- | --- |
| `MergeIsFaithful` | `SpeakerIsTheOneHeardMost`, `SpeechSurvives` | a sentence goes to who is heard in it longest, counted instant by instant; none is lost or repeated on the way to the dialogue |
| `SettingsReadAlike` | `StartedWorkerCanRun`, `ShownAsItRuns` | a worker that starts has what a job needs, whatever it hears or finds stored, but for the diarizer Deepgram is started without; what the operator is shown is what runs |
| `ResourcesAccounted` | `TempFilesAccounted`, `ModelsNeverCoexist` | a file is on disk while its job uses it, unless the job was killed or the removal failed; two model families never share the memory |
| `ModelSeesItsMistakes` | | the model is asked at most three times, with its answers and what was wrong with each |
| `EveryChannelTried` | | when a job that published is over it has tried every channel once and in order, whichever failed, unless it was killed after that commit, or could not read the row again, and then it has tried none |
| `OneInterviewPerRecording`, `StoredIsEnqueued` | | concurrent webhooks make one interview and are answered with it; a stored one is enqueued in the end |
| `QuotesAreRead` | `MarkedIsTheQuote`, `PassageIsReadable`, `FlaggedIsNowhereToBeRead` | the screen finds a quote exactly when the worker's exact rule does; a hint is whole words; a flagged quote is in no turn |
| `AnswersAreUnderstood` | `DiagnosisMatchesTheCause`, `EncodingDoesNotMatter` | the failure of a load is explained by its cause, another is told in the server's words; a column encoded twice gives the same screen |
| `AddressesHold` | `LinksReopenThePage`, `LinksLandWhereTheySay` | an address and its page determine each other; no link leads to a page its build or mode lacks |
| `SettingsScreenIsTrue` | `SavedIsInForce`, `ReloadKeepsTheServer` | form, configuration in force and stored configuration are one |
| `PreferencesHold` | `IntervalIsBearable`, `ReloadReadsTheLastChoice` | the interval is within bounds whatever localStorage holds; a reload reads the last choice of the menu or of the settings, of each field, unless a copy that had missed it wrote over it |
| `ScreensAgree` | `NobodyIsLostOnTheBoard`, `TilesCountWhatTheyList`, `NobodyWaitsUnseen`, `NumbersAddUp`, `NothingIsNotUnknown` | the screens over one list count, list and flag the same interviews, and none says more than is known |
| `TargetAndCoachmarkAreUsable` | `OnlyTheHoleIsLive`, `CoachmarkIsOnTheScreen`, `ScrolledTargetIsNotCovered`, `TabStaysInTheCoachmark` | the target can be seen and used, nothing else can, the coachmark can be read |
| `HealthIsOfTheLastAsked` | `NewestCheckIsShown`, `RequestShownIsTheLast` | of the check asked for last, of the last request of its own mode |
| `PreviewIsTrue` | `PreviewIsWhatIsSent`, `ButtonsDecideWhatTheySay`, `PreviewIsTheOneChosen` | the preview is the worker's message without its token; buttons decide what they say while they should |
| `RowsOnScreenAreRendered` | | a row in the viewport is in the page |
| `SubmissionsAreTrue` | `ResendingIsHarmless`, `DoneIsTrue` | a resent submission creates nothing; what the form says was done was done |
| `WhatBeginsEnds` | `WorkHorseEnds`, `CheckEnds`, `SubmissionEnds`, `ReadoutComesToSettle` | liveness of a job, a check, a submission, the readout |
| `OpenInterviewKeepsUp` | | with the list polled every five seconds or less often, between two reads of the open interview the list is polled once, and once more for each answer about the interview |

`StagedAsByTheWorker` is `StagedAsTheWorkerLeavesIt` and
`DeliveredOncePerScorecard`; `RecordsAreOfTheirRow` is `TrailIsTheDecision`,
`CardIsWhereItsStatusSays` and `AnswerIsWhatWasStored`.

In words:

- In the deployment the repository ships, failures, crashes, duplicate jobs and
  resumptions never break the promise of `Lifecycle`; the scorecard a human sees
  was made from the transcript and dialogue stored beside it (pyannote with an empty
  transcript aside, see below); a delivered link
  works exactly as long as the decision is open; a failed interview has its
  reason; and no lost enqueue strands an interview in `RECEBIDA`.
- With several workers less is true: statuses stay backed by checkpoints, and
  what happens between `SELECT FOR UPDATE` and the first commit is safe.
- If RQ's scheduler ran, as many faults as a job has retries would never keep an
  interview from its approver.
- A job gives back what it takes, and ends, whatever the recording's server, the
  model and the channels answer; the unique constraint is enough for several API
  processes.
- A reviewer never has two decisions under way in one dialog, an optimistic status
  disappears unless the server agrees, and, from five seconds between polls of the
  list on, an open interview is read about as often as the list.
- The list shows what was last received, however answers overtake one another,
  and catches up; the demonstration's list is never stale.
- A walk of the demonstration ends, whatever interrupts it, leaves at each status
  what the worker would have stored, and the tour's own buttons always open an interview that is
  ready.
- The two implementations of the quote search and of the Slack message agree, and
  so do the screens that read the one list.

What some properties leave out, because the code does:

- `PassageIsReadable` promises a word in the hint only if no sentence was cut off
  after it; of `a. . b` a full stop is left.
- `NoPhantomDecision` speaks of the interview in the address bar: when a late answer
  shows another one (the finding below), its optimistic status can survive its
  request.
- `StepsFindTheirInterview` excludes tabs that were reloaded, reset or in which a
  failed interview was reprocessed.
- `StagedAsByTheWorker` excepts failed interviews, `StartedWorkerCanRun` the diarizer
  that a Deepgram worker is started without (`StartedWithoutDiarizer`),
  `EveryChannelTried` a job cut short after its publishing commit,
  `ReloadReadsTheLastChoice` a choice written over unread, and
  `OpenInterviewKeepsUp` a list polled more often than every five seconds. Each of
  these exceptions happens, and is among the observations.
- `ShownAsItRuns` is about providers spelled as documented, `PreviewIsWhatIsSent`
  about a base address that needs no cleaning, `DiagnosisMatchesTheCause` about the
  cause the browser can see, and `RowsOnScreenAreRendered` not about the position
  kept across the threshold. The cases outside are among the observations.

The `tour` run uses a view, `Timeless`, that leaves out the instants of the demo's
clock. No guard, no other variable and no property of `Tour` reads them, so states
that differ in them alone have the same behaviours.

## Findings

Each is a run TLC ends with a counterexample, and is quoted in `PROJECT.json`.

1. **A decision can be taken back** (`decision_overwritten`, `app/tasks.py:128`).
   The first commit of a job releases the row lock (`app/tasks.py:115`), so a
   second job of the same interview, for instance one that reconciliation added,
   is processed beside it by another worker. The slower one writes its status over
   the decision. `app/tasks.py:59-60` says the lock prevents this and
   `app/maintenance.py:7-8` that re-enqueueing is safe.
2. **RQ retries never run** (`retries_never_run`, `run_worker.py:67`).
   `Retry(interval=...)` schedules a failed job, and `worker.work()` is called
   without the scheduler that would enqueue it again.
3. **A decision on the wrong interview** (`review_wrong_interview`,
   `InterviewDetailView.tsx:48`). After going from one interview to another, a
   late answer shows the first while the decision goes to the second.
4. **A reset is announced** (`list_reset_announced`, `InterviewsProvider.tsx:163`).
   The effect that empties the announcement history is followed, in the same
   commit, by the one that fills it with the rows still on screen.

Observed with the same models, and not kept as runs:

- A transcription that came back as an empty list is stored, treated as missing
  and done again by every resumed job (`app/tasks.py:119`). If pyannote then
  computes speaker turns for it, and a later attempt gets a text, the turns are not
  computed again (`tasks.py:132` looks at the dialogue, not at its age): the
  scorecard is made of a transcript and a dialogue that do not belong together.
  `one_worker` with `Pyannote = TRUE` shows it; the run and the theorem about
  `ScorecardMatchesCheckpoints` exclude it, the first because that worker has no
  pyannote, the second by `NoEmptyDialogue`.
- A worker killed between commits leaves a row in the middle of the pipeline,
  which neither reconciliation (`RECEBIDA` only) nor reprocessing (`FALHOU` only)
  picks up; only the job's own retry would, see 2.
- After a change of API, a list of the previous one that arrives late is shown
  until the next poll (`InterviewsProvider.tsx:86`), and a new projector starts
  with the rows of the previous dataset in its cache (`:145`).
- A decision whose answer is lost is reported as not recorded although the server
  may have recorded it (`InterviewDetailView.tsx:106`); the load that follows shows
  the truth.
- Reprocessing a second failed interview of the demonstration while a first is
  walked leaves the first in `TRANSCREVENDO` (`DemoProvider.tsx:64`).
- Step 2 of the tour simulates nothing while a reprocessed interview is walked, so
  step 3 may have no interview (`TourProvider.tsx:134`); and after a reload or a
  reset the back button may reach a step whose interview is gone.

Of the worker and the API:

- Two API processes can both read `AGUARDANDO_APROVACAO` and both answer 200 to
  opposite decisions (`app/main.py:300`); the deployment runs one.
- A webhook whose row was committed but whose `session.refresh` failed answers 500;
  the provider's next delivery and reconciliation make up for it.
- A job that has committed `AGUARDANDO_APROVACAO` and then fails to refresh the row
  (`tasks.py:43,176`) or to read it for the notification (`services.py:263-264`) tells
  no channel; its retry finds nothing to do, so no channel is ever told.
- A Deepgram worker starts without pyannote and without `HF_TOKEN`, and needs them
  for a silent recording (Deepgram then returns no segment to take a speaker from,
  `audio_processor.py:266-270`, `services.py:197`) as for a transcript stored by
  another provider; the job then fails at its diarization. The comment of
  `run_worker.py:37-40` names the second case only.
- RQ forks a process per job, so the model cache of `audio_processor.py` is empty
  whenever a job starts.
- `_transcription_integration` does not lower the provider's name and shows an
  unknown one as not configured, while the worker lowers it and falls back to the
  local model.
- A base address with a trailing slash gives decision links with `//interviews`,
  which answer 404; the preview strips the slash.
- A doubly encoded null transcription stays the text `null`.

Of the interface:

- An exception the API does not handle is answered outside the CORS middleware, so
  a page of another origin diagnoses an unreachable server.
- A status the client does not know is in the category "processing" and in no
  column of the board; `decodeURIComponent` throws on `#/entrevistas/%`.
- The reader scrolls to an index of all turns among the children a search has
  filtered (`Transcript.tsx:52`), and says the quote is highlighted although the
  search may hide its turn. The badge searches the whole text and the highlight one
  turn, so a quote across two turns has a badge and no highlight.
- Trimming the nearest passage can leave nothing but punctuation of it: of `a. . b`
  the sentence after the second stop and then the one before the first are dropped
  (`evidence.ts:164-169`), and the hint is a full stop.
- With the list polled every two seconds, the first interval the settings offer, the
  timer of an open interview that is processed (five seconds) is set anew before it
  fires, so the page is not read again until something else renders or loads it
  (`usePolling.ts:22,76`, `InterviewDetailView.tsx:62`; `frontend/README.md:238` speaks
  of one polling loop for the whole application).
- A theme chosen in the menu while the settings are open is written with the interval
  the application had read, over an interval chosen in the settings since; a theme or an
  interval chosen in the settings is written with what they had read of the other.
  What is chosen in the settings reaches the running application, the interval of its
  poll and the theme its menu shows, only at the next load of the page (`usePreferences.ts:29-35`,
  `App.tsx:61,90`, `SettingsView.tsx:42`).
- No load is answered with 400, so `invalid_state` of the taxonomy is never shown by a
  load; an id that is none (422) is shown as an unexpected error that sends the reader
  to the log of the API.
- The readout of the top bar has no run id (`LiveStatus.tsx:30`), so until the next
  beat it may show the answer for the previous address.
- A list that shrinks below the threshold and grows again keeps its scroll position,
  and is blank until the next scroll.
- A queue entry nobody checked shows "0 de 0" with the icon of success; 99.6 %
  verified rounds to 100 %; after a failed refresh only the list says that its rows
  are old.
- A blank address saved while the default is in force leaves the field blank under
  "saved"; clearing the key also saves an address that was only typed.
- The skip link `#conteudo` is a route, and leaves the page.
- The spotlight of a target off the screen is followed off it, and the space
  reserved for the coachmark ignores the padding around the hole.
- The dataset of the demonstration is staged, says `dataset.ts:354`, as `app/tasks.py`
  leaves it. Its `marina-esboco` failed in `score_interview` (`dataset.ts:199-209`,
  `:288-296`) without the transcript and the dialogue that the worker stores before
  it scores, and reprocessing takes it to `TRANSCREVENDO` where the worker would
  resume at `PONTUANDO`.
- A hand-moved card keeps its age, which is the row's; an immediate decision in the
  demonstration is dated before the notifications that announce it; an ingested
  interview of the demonstration stays `RECEBIDA`.

## Bounds

| Bound | Why it is enough |
| --- | --- |
| `MaxFaults` | two faults let the recovery from a failure fail as well |
| `MaxRetries` | 1 or 2 instead of 3: the last retry and one before it |
| `MaxEnqueues` | per interview, one more than the faults: reconciliation can replace every job that was lost and duplicate one that was not |
| `MaxTokens` | a first link and one that replaces it |
| `Slots` | two requests at once are what it takes to overtake |
| `MaxSwitches`, `MaxResets`, `MaxReloads` | one before and one after; what a second would bring is what the first left |
| `MaxWrites` | two: a write that an answer misses and one that it has; the reset of the demonstration reuses a revision with two |
| `MaxRuntime` | the interview of the tour and one a visitor starts beside it |
| `MaxHandMoves`, `HandStages` | one card moved by hand, before or after its interview moves by itself, to a column before or after the review |
| `SpeechTexts`, `Speakers`, `Horizon` | two speakers and three instants: intervals apart, touching, nested, equal and empty; up to three turns for a tie and its order; a blank text |
| `MaxBytes`, `MaxJobs`, `MaxKills` | a byte within the limit and one beyond; a job and one that resumes after a kill |
| `ApiProcesses`, `Recordings`, `Anonymous`, `MaxDeliveries`, `MaxOutages` | two processes over one external id, a recording without one beside it, a repeated delivery, and an outage before and after the insert |
| `Chars`, `MaxText`, `MAX_WINDOWS`, `DANGLING` | texts of up to three characters of six: a match at the start, in the middle, at the end, and a word before or after it; fewer windows than a text has. Texts of four and of six characters of fewer letters are added for the hint, which drops a fragment of a sentence of up to `DANGLING` characters on either side |
| `POLL_CHOICES`, `StoredPolls` | stored intervals below, within and beyond what is allowed, and none |
| `VISIBLE`, `MaxRows` | a column with more cards than it shows |
| `PAD`, `GAP`, `MARGIN`, `POP_WIDTH`, `SHEET_BELOW` | the code's pixels in a grid: screens narrower and wider than a sheet, targets in each corner, partly and wholly off the screen |
| `Servers`, `HealthSlots`, `MaxChecks`, `MaxMoves` | two addresses, a check that overtakes another while the top bar asks, and two changes of server, health or mode |
| `MaxSubmits`, `MaxSaves`, `MaxEvaluations` | a submission, its repetition and one more; a save after a save; two competencies |
| `ActivePolls`, `MaxCalls`, `MaxTurns` | the shortest interval offered, below the five seconds of an open interview, and the usual one; two requests of a kind that overlap; more polls of the list between two reads of the interview than the property allows |
| `Threshold`, `RowHeight`, `ViewportHeight`, `Overscan`, `MaxItems` | two rows and a bit on the screen, and lists on both sides of the threshold |
| one entry of browser history (`behind` in `Tour`) | going back twice is going back from where one back led, except for addresses two navigations old |

The bounds on faults and writes also make them finite, as the liveness properties
need: a list that never stands still is never caught up with.

## Fairness

- A worker that can take its next step takes it; an API process finishes its
  handler: they are processes that run. Faults, being separate actions, are never
  forced or forbidden.
- `Reconcile` is fair because the repository runs `python -m app.maintenance` from
  cron. `ScheduledFires` is fair, but enabled only when `WithScheduler` says that a
  worker runs the scheduler.
- Nothing is assumed of users: they decide and reprocess when and if they like.
- A work-horse runs, and what it calls answers or fails: the downloads have a size
  limit and every client a timeout. A kill is never forced. Of the intake only the
  reconciliation is fair: neither the provider's repetition nor the process that
  inserted is relied on.
- The health of a server, the address and the mode change at will; `ReadoutSettles`
  is about the time after they stop. The half-minute beat of the top bar goes on.
- In the browser React commits what changed, the list of a visible tab is polled
  again, requests are answered or fail, the demo's timers fire and a view
  transition that was asked for calls back.

## Proofs

Eight modules hold the proofs. Each theorem is about any value of the constants
that the assumption of its module allows. These assumptions say that numbers are
numbers, that what is declared a subset is one, and that `NULL` is none of the
values it stands beside; beyond that:

- `PipelineAssumption`: the empty transcript is no text.
- `DemoAssumption`: no interview of the dataset has a number for an id (their ids
  are words, `demo-<slug>`), and none is both failed and in review;
  `TourAssumption`: an interview can be simulated.
- `SpeechAssumption`: no speaker is labelled `UNKNOWN`, the name the merge gives to a
  sentence in which nobody is heard. `EvidenceAssumption`: the hint compares at least
  one window.
- `HealthAssumption`: "demo", which stands for the demonstration's answers, is no
  server.
- `WindowingAssumption`: a list long enough to be windowed is higher than the
  viewport. `CoachmarkAssumption`: the padding of the hole is within the margin, and
  a screen too wide for a sheet has room for the coachmark and two margins.

| Theorem | Says |
| --- | --- |
| `PipelineProofs.TypeCorrect` | `Spec => []TypeOK` |
| `PipelineProofs.InvariantHolds` | `Spec => []PipelineInvariant` |
| `PipelineProofs.StatusIsBacked` | `Spec => []StatusBacked` |
| `PipelineProofs.LockProtectsRead` | `Spec => []LockedCopyIsCurrent` |
| `PipelineProofs.StartIsExclusive` | `Spec => []StartsUnderLock` |
| `OneWorkerProofs.LinksWork` | `OneWorker => (Spec => []LinkWorksUntilDecision)` |
| `OneWorkerProofs.FailuresExplained` | `OneWorker => (Spec => []FailureIsExplained)` |
| `OneWorkerProofs.ScorecardsMatch` | `OneWorker /\ NoEmptyDialogue => (Spec => []ScorecardMatchesCheckpoints)` |
| `OneWorkerProofs.ImplementsLifecycle` | `OneWorker /\ OneApi => (Spec => Lifecycle)` |
| `PartsProofs.RecordingsAreTakenOnce` | `IntakeSpec => []OneInterviewPerRecording` |
| `PartsProofs.ResourcesAreAccounted` | `AttemptSpec => []ResourcesAccounted` |
| `PartsProofs.ChannelsAllTold` | `AttemptSpec => []EveryChannelTried` |
| `PartsProofs.MistakesAreSeen` | `AttemptSpec => []ModelSeesItsMistakes` |
| `ReviewProofs.ReviewTypeCorrect` | `Spec => []TypeOK` |
| `ReviewProofs.DecisionsDoNotCross` | `Spec => []OneDecisionInFlight` |
| `ReviewProofs.OptimismEnds` | `Spec => []NoPhantomDecision` |
| `SharedListProofs.ListTypeCorrect` | `Spec => []TypeOK` |
| `SharedListProofs.SummariesStayCurrent` | `Spec => []SummariesAreCurrent` |
| `SharedListProofs.TitlesStayCurrent` | `Spec => []TitlesAreCurrent` |
| `SharedListProofs.DemoStaysRead` | `Spec => []DemoIsReread` |
| `DemoProofs.StampsAlwaysTellRowsApart` | `DemoSpec => StampsTellRowsApart` |
| `DemoProofs.StagingImplementsDemo` | `StagingSpec => DemoSpec` |
| `DemoProofs.StagedStampsTellRowsApart` | `StagingSpec => StampsTellRowsApart` |
| `DemoProofs.DemoLooksLikeTheWorker` | `StagingSpec => []StagedAsByTheWorker` |
| `DemoProofs.RecordsStayWithTheirRow` | `StagingSpec => []RecordsAreOfTheirRow` |
| `TourProofs.StepsAlwaysFindTheirInterview` | `Spec => []StepsFindTheirInterview` |
| `TourProofs.TourAlwaysPreparesItsStep` | `Spec => TourPreparesItsStep` |
| `PartsProofs.SettingsScreenStaysTrue` | `ApiSettingsSpec => []SettingsScreenIsTrue` |
| `PartsProofs.PreferencesAlwaysHold` | `PreferencesSpec => []PreferencesHold` |
| `PartsProofs.HealthStaysOfTheLastAsked` | `HealthSpec => []HealthIsOfTheLastAsked` |
| `PartsProofs.SubmissionsStayTrue` | `IngestionSpec => SubmissionsAreTrue` |
| `PartsProofs.RowsOnScreenAreAlwaysRendered` | `WindowingSpec => []RowsOnScreenAreRendered` |
| `PartsProofs.OpenInterviewAlwaysKeepsUp` | `PollingSpec => []OpenInterviewKeepsUp` |
| `PartsProofs.AddressesAlwaysHold` | `AddressesHold`, of a hash of any segments and whole numbers |
| `PartsProofs.CoachmarkIsAlwaysUsable` | `input \in AnyPlace \cup AnyTab => TargetAndCoachmarkAreUsable` |
| `CallsProofs.SettingsAlwaysReadAlike` | `SettingsReadAlike`, of all settings and jobs |
| `CallsProofs.AnswersAreAlwaysUnderstood` | `AnswersAreUnderstood`, of all requests, servers and columns |
| `CallsProofs.PreviewIsAlwaysTrue` | `PreviewIsTrue`, of any number of evaluations and rows |
| `CallsProofs.QuotesAreAlwaysRead` | `input \in AnyQuote \cup AnyTurns => QuotesAreRead` |
| `CallsProofs.MergeIsAlwaysFaithful` | `MergeIsFaithful`, of any transcription, turns and answer of a provider |
| `CallsProofs.ScreensAlwaysAgree` | `ScreensAgree`, of any list of interviews |

The type invariants of `Review` and `SharedList` are proved and not run.

**Pipeline.** `StatusBacked` is not inductive: that a job may move a row to
`PONTUANDO` depends on the dialogue its session has seen, and on nobody having taken
it away since. `PipelineInvariant` adds what the argument needs: `JobHeld` (a worker
at a stage has a job), `RowInUse` (the row under a job or a handler exists and does
not go back to `RECEBIDA`), `WorkersBacked` (every stage has the checkpoints it
relies on, in the row and in the session's copy), `LockedCopyIsCurrent` and
`StartsUnderLock` (the copy from which a job starts or resumes is the row). The key
fact is that checkpoints are only ever written, never cleared, by any step but the
purge, which waits for jobs and handlers; the lemmas on `Keeps` and `Backs` state it
once. The proof has a lemma per kind of step of a worker (taking a job, committing,
refreshing, raising, recording a failure, ending), one per handler and routine, and
`OtherWorkerOK` and `SameApiOK` for the actors a step leaves alone.

**One worker.** `SoloInvariant` is inductive together with `PipelineInvariant`. Its
core is `WorkerSound`: with nobody else at work, the session is the row wherever the
worker decides on it, the row has the status `BeforeCommit` names for the stage, and
after the commit the one `AfterCommit` names; so nobody can decide meanwhile, and
every status written is one the row may move to. The exception is a failure being
recorded, which a decision may cross: both statuses are then settled, and neither
allows `FALHOU`. `RowSound` says when a token lives and what a dialogue and a
scorecard were made from, `ApiSound` that a decision under way is about an open
interview. `CommitSound` shows of every commit that the row after it is sound and
that it `Moves` as `Lifecycle` allows; the refinement then needs a case per action
that writes a row, and everything else stutters. The first three theorems hold for
any number of API processes; the refinement needs one, or two decisions could cross.

**Intake.** `IntakeInvariant` adds to what is promised that a process about to
enqueue has a stored row of its own recording (`EnqueuesItsOwn`), because that row
is what it will answer. The constraint is used in one place: an insert appends only
a row that differs from those there.

**Attempt.** Four invariants, each inductive over its own variables.
`FilesInvariant` ties a temporary file to the stage: nothing is downloaded once a
job has its audio, and a job that ends has neither. `ModelsInvariant` says which
stages have an empty memory. `ChannelsInvariant` says that what was sent is a
prefix of the channels, complete when a published job has left `notify` without a
kill or a failed read, and empty after the failed read. `MistakesInvariant` names the length of the conversation: it is
`Conversation(k)` for the number `k` of answers so far, each in its place with its
correction, and the loop extends it by one of either or ends.

**Review.** `ReviewInvariant` adds to `OneDecisionInFlight` that requests carry what
they were sent with (`RequestsSound`), that a screen there is about some interview
(`ScreenThere`), that a decision in flight keeps its dialog submitting
(`Submitting`), and that a decided status on the screen is the server's or that of
a decision under way (`Explained`); `NoPhantomDecision` follows from the last.

**Shared list.** The difficulty is that the projection reuses a cached summary
whenever the instant of a row is unchanged. `Coherent` says that two contents with
one instant, wherever held (the server, a request, the list shown, the cache), are
equal, and `Dated` that nothing held is newer than the server; with them every
summary shown is of the row received. A reset of the demonstration takes the clock
back before the provider has heard of it; while that is so (`Resetting`) both are
said only of the rows the demonstration starts with. For the demonstration's own
list `DemoInvariant` is enough: the revision grows with every write and only a reset
takes it back, which also changes the dataset, so a list loaded at the revision in
force is the list of the rows in force.

**Demonstration.** Every reducer action is shown once, as an operator on a state, to
lead from a `Possible` state to a `Possible` one that it `TellsApart` from the first;
the actions of the walk, of `Staging` and of `Tour` then cite those lemmas.
`Possible` says what the argument about instants needs: no row is newer than the
clock, and a row of the dataset that still has the dataset's instant has its first
status. So a write, which moves the clock, gives a row an instant it never had, and
a reset, which gives back the first instant, gives back the first status with it.
The loops of the reducer (`prepareSimulation`, and the walk to its end) are bounded
by the order of the statuses and are unfolded.

**Staging.** `StagingInvariant` ties each record to the row of its id (`OfItsRow`):
the artefacts are those of the status, the audit has the decision of a decided row
and nothing otherwise, a delivery goes with a scorecard, and a card no hand has moved
is in the column of its status. It has to say this of ids no interview has yet as
well, because the next interview with that id takes over what is kept there; that is
where a reset could have gone wrong. Actions that write one row cite `Elsewhere` for
the others.

**Tour.** What a step needs of the demonstration (`Finds`) is said of the address
and of the entry behind it, to which the back button returns. No action but a reset
takes from the demonstration what the tour needs (`Kept`: the simulated interview, a
scorecard); that an interview under way is the simulated one excludes that step 2
finds another walked and simulates none.

**Settings and preferences.** `SettingsInvariant` adds that what is in force is
trimmed and not blank, so that storing it and reading it again changes nothing;
`PreferencesInvariant` that what is in memory is within bounds while what is stored
may be anything, and that a copy which has missed nothing of a field holds the last
choice of it.

**Health.** `HealthInvariant` adds to the property that a check in flight for the
screen is one of the mode it is in, that while it is open its sample is the last
request of that mode, and that a screen that had an answer from the API has a request
to show. The run id keeps an overtaken answer from counting. Placing several new checks into free slots is a `CHOOSE`, whose existence
is a lemma about finite sets.

**Ingestion.** Three parts: `OnePerPress` bounds the received recordings by the
presses of the button, `IdsDiffer` says that a non-empty external id was received
once, and `AnswerTrue` that an answer on its way names what was received. The
property compares a state with the next, and follows from the invariant before the
step.

**Polling.** `PollingInvariant` adds that once the list has had all the polls it may
have, the interview's timer is the next to fire (`InterviewIsNext`). After a render
both start together and the interview's was set first, so with a list polled every
five seconds or less often it is.

**Windowing.** `WindowInvariant` says where the component believes the element to be:
at its true position, or at one of which a scroll event or a frame is still to tell,
or, `stale`, at that of an element that has since been made anew. The rest is
arithmetic of rows and pixels, with products of a height by a number of rows.

**Routes.** `Page` characterises what parsing can yield; a page is what its own
address is parsed into (`ReopenIs`), every hash of the domain is parsed into a
page (`ParsedIsPage`; not `#/entrevistas/%`, on which the code throws), and so every link of the frame, being a page, lands where it says.

**Coachmark.** `AnyPlace` has every screen too wide for a sheet on which the
coachmark fits under the masthead, and every target not wholly beyond its sides. The
order of Tab is shown for the controls there are, at any step: `AnyTab`.

**The modules of functions.** What a call may be is a set of its own for each
theorem, of inputs of any size; the calls of the run are among them.

- *Settings and answers.* What a setting, a request or an answer is made of is a few
  cases, whatever the names and endpoints, and the proofs go through them.
- *Messages.* The two lists of blocks are compared place by place: where the blocks
  of the `k`-th evaluation begin and how many there are, then the buttons. The theorem
  asks that the tokens are not the placeholder of the preview and that ids are not
  empty.
- *Quotes.* Both cleanings keep some positions of a text. The proof relates the
  positions themselves: the screen's cleaning emits what the worker's keeps, and
  remembers where it stood, so a match in the one is a match in the other and what
  lies between its ends cleans to the quote. The texts of turns are joined with
  blanks; that a quote found in one turn is found in the whole is a fact about
  positions in the joined text.
- *Speech.* The merge is a stable sort of sentences that were each given a speaker. A
  sort is a permutation of the positions (`Sorts`): what comes first is what has
  fewest before it. Overlaps are counted instants, added turn by turn. Texts in the
  order in which they begin are not moved; the theorem asks for that order of what
  the local model and OpenAI answer, which is how they answer. Deepgram's utterances
  are not sorted, and nothing is asked of them.
- *Boards.* Every queue and table is a filter followed by a stable sort: some
  positions of the list, each once, in the order of their ranks (`Arranges`). So a
  queue has as many rows as its tile counts, and two queues of the same people have
  the same members whatever their order. Sums are added row by row (`SumAdds`), and
  the scores of a row are counted score by score; the median is the number at a
  position, with as many positions up to it as the property speaks of. The
  theorem is about lists that have each interview once, with scores that are absent
  or from 1 to 5, and, for the numbers of a period, statuses the client knows: one of
  the future is counted in `total` and in no part of it.

Filters, joins and sums are loops in the code. Here they are positions of a
sequence (`Only`, `Ascending`, `SortedBy`) or recursive functions on `0 .. n`, so
nothing needs an induction over sequences: `StepByStep` is induction on the numbers
up to `n`, shown with a least counterexample, and `RecursionExists` builds the
recursive function from it one value at a time.

The last steps are temporal and combine the initial and the inductive lemma.

Model-checked only: all liveness (`ReceivedIsPickedUp`, `FaultsAreMasked`,
`ListCatchesUp`, `PlaybackEnds`, `StoredIsEnqueued`, `WhatBeginsEnds`), since fairness and `ENABLED` are outside what the proof system
handles.

## What is not modelled

- The constant-time comparison and the HMAC (`app/security.py`); which endpoint asks
  for what, and what it answers without, is in `Client`.
- Reading the environment, bounds of settings, logging.
- The address rules of `validate_recording_url`, the serialization of a row,
  `retry_count`, the prompt, the libraries behind the providers, and the fuzzy score
  of rapidfuzz, on which the worker falls back when a substring is not found.
- Two API processes that decide at once (see the observations).
- The render of the windowed list comes a task after the frame that asks for it; the
  frame and its render are one step.
- `diarize_audio` also takes a dictionary with segments (`services.py:205-210`), which
  no driver returns; it is left out.
- In an address, a segment that is a property every JavaScript object inherits
  (`#/constructor`, which `BY_PATH` in `routes.ts:71` finds) and one that is no valid
  percent encoding; numbers are whole, or one between 0 and 1.
- The search field of the transcript reader, the sort fields of the list, wording,
  dates and numbers (`format.ts`), the static showcase of the health screen, and the
  code samples of the inspector.
- Of the demonstration: the texts of transcripts, rubric and scorecards
  (`dataset.ts`, `reference.generated.ts`), and the review screen over it, whose
  source changes with every action.
- Screens that only render (landing, layout, icons), and the development and
  screenshot scripts, which run outside the system.

## Plan

Done: the pipeline with its abstract lifecycle, a job and the intake, the review
screen and the shared list, the demonstration and what it stages, the tour and its
coachmark, and the functions and screens of `MCParts`, with the proofs of what is
safe about them. Next:

1. The search of the transcript reader, with the position it scrolls to
   (`Transcript.tsx:52`).
2. The review screen over the demonstration, composed with `Staging`.
3. Decisions of two API processes (`app/main.py:300`).
