------------------------------- MODULE Pipeline -------------------------------
(***************************************************************************)
(* The processing pipeline of one deployment: the interview rows in        *)
(* PostgreSQL, the RQ queue and its scheduled registry in Redis, the RQ    *)
(* workers running process_interview, the API processes, reconciliation    *)
(* and retention (app/tasks.py, app/main.py, app/queue.py,                 *)
(* app/maintenance.py, run_worker.py).                                     *)
(*                                                                         *)
(* A step is one database transaction, one Redis command or one failure.   *)
(* A worker keeps, in mem, the row as its session last read it; a commit   *)
(* writes only the columns the session changed, over whatever the row is   *)
(* by then, and the refresh that follows is another transaction.  What a   *)
(* step computes (transcribing, diarizing, scoring) takes effect only with *)
(* the commit that stores it, so both are one action.                      *)
(***************************************************************************)
EXTENDS InterviewStatus, Naturals, Sequences

CONSTANTS
    Interviews,     \* interview ids
    Workers,        \* RQ worker processes; docker-compose.yml starts one
    Apis,           \* uvicorn processes; docker-compose.yml starts one
    HasJob,         \* the interviews whose webhook carried a job_id
    Texts,          \* the non-empty transcripts
    Labelled,       \* the transcripts whose segments carry speaker labels
    Empty, Turns,   \* the empty list; speaker turns without any text
    AsrResults,     \* what the configured provider may return
    Pyannote,       \* BOOLEAN: the worker can run pyannote
    WithScheduler,  \* BOOLEAN: a worker runs RQ's scheduler
    MaxRetries,     \* settings.job_max_retries
    MaxTokens,      \* bound: approval tokens issued to one interview
    MaxEnqueues,    \* bound: jobs the API and reconciliation submit for one interview
    MaxFaults,      \* bound: exceptions, crashes and failed calls
    NULL

Transcripts  == Texts \cup {Empty}
Diarizations == Texts \cup {Empty, Turns}
Scorecards   == [transcription : Transcripts, diarization : Diarizations]

Job == [iv : Interviews, left : 0 .. MaxRetries]

ASSUME PipelineAssumption ==
    /\ HasJob \subseteq Interviews
    /\ Labelled \subseteq Texts
    /\ Empty \notin Texts
    /\ AsrResults \subseteq Transcripts
    /\ {Pyannote, WithScheduler} \subseteq BOOLEAN
    /\ {MaxRetries, MaxTokens, MaxEnqueues, MaxFaults} \subseteq Nat
    /\ NULL \notin Interviews \cup Workers \cup Diarizations \cup Scorecards \cup Job

VARIABLES
    row,        \* the interviews table, [Interviews -> Row]
    lock,       \* FOR UPDATE lock on a row, [Interviews -> Workers \cup {NULL}]
    queue,      \* RQ's "default" queue, Seq(Job)
    scheduled,  \* ScheduledJobRegistry: how many jobs of each interview and retries left
    held,       \* the job a worker runs, [Workers -> Job \cup {NULL}]
    stage,      \* where the worker is in process_interview
    reading,    \* the stage's commit is done and session.refresh is not
    mem,        \* the worker's session copy of the row
    api,        \* the handler an API process is in
    issued,     \* tokens issued per interview: a new one is a value never used
    links,      \* tokens of the decision links delivered
    enqueued,   \* jobs submitted so far for each interview
    faults      \* faults so far

dbVars     == <<row, lock>>
rqVars     == <<queue, scheduled>>
workerVars == <<held, stage, reading, mem>>
vars == <<row, lock, queue, scheduled, held, stage, reading, mem, api,
          issued, links, enqueued, faults>>

-------------------------------------------------------------------------------
\* Values

Row == [status        : InterviewStatuses \cup {ABSENT, PURGED},
        transcription : Transcripts \cup {NULL},
        diarization   : Diarizations \cup {NULL},
        scorecard     : Scorecards \cup {NULL},
        token         : 0 .. MaxTokens,          \* 0: no approval_token
        error         : BOOLEAN]                 \* error_log is set

NoRow == [status |-> ABSENT, transcription |-> NULL, diarization |-> NULL,
          scorecard |-> NULL, token |-> 0, error |-> FALSE]

NewRow == [NoRow EXCEPT !.status = RECEBIDA]

\* Positions in process_interview where a transaction is next.
PipelineStages == {"resume", "receive", "transcribe", "toDiarize", "diarize",
                   "toScore", "score", "await", "notify"}
Stages == {"idle", "select", "failRead", "failWrite"} \cup PipelineStages

Idle == [op |-> "idle", iv |-> NULL, to |-> NULL]

Handler == {Idle}
           \cup [op : {"enqueue"}, iv : Interviews, to : {NULL}]
           \cup [op : {"decide"}, iv : Interviews, to : TERMINAL_STATUSES]

\* `not interview.transcription_raw`: a checkpoint that is an empty list counts
\* as missing.
Falsy(checkpoint) == checkpoint \in {NULL, Empty}

\* What diarize_audio can return for a transcript; {} when it can only raise.
DiarizeResults(tr) ==
    IF tr \in Labelled THEN {tr}
    ELSE IF ~Pyannote THEN {}
    ELSE IF tr \in Texts THEN {tr} ELSE {Empty, Turns}

-------------------------------------------------------------------------------
\* The control flow of _run_pipeline between two transactions

ResumeStatus(m) ==
    IF Falsy(m.transcription) THEN TRANSCREVENDO
    ELSE IF Falsy(m.diarization) THEN DIARIZANDO ELSE PONTUANDO

\* Mutants, the form each definition below would take with a plausible slip, are
\* marked so; no specification uses them.
Step4Unscored(m) == IF m.status # PONTUANDO THEN "return" ELSE "await"   \* mutant

Step4(m) == IF m.status # PONTUANDO THEN "return"
            ELSE IF Falsy(m.scorecard) THEN "score" ELSE "await"

Step3Undiarized(m) == IF m.status # DIARIZANDO THEN Step4(m) ELSE "toScore"   \* mutant

Step3(m) == IF m.status # DIARIZANDO THEN Step4(m)
            ELSE IF Falsy(m.diarization) THEN "diarize" ELSE "toScore"

Step2(m) == IF m.status # TRANSCREVENDO THEN Step3(m)
            ELSE IF Falsy(m.transcription) THEN "transcribe" ELSE "toDiarize"

Step1(m) == IF m.status = RECEBIDA THEN "receive" ELSE Step2(m)

Entry(m) == IF m.status = FALHOU THEN "resume" ELSE Step1(m)

\* The stage that follows stage s once the session has been refreshed to m.
Continue(s, m) ==
    CASE s = "resume"     -> Step1(m)
      [] s = "receive"    -> Step2(m)
      [] s = "transcribe" -> "toDiarize"
      [] s = "toDiarize"  -> Step3(m)
      [] s = "diarize"    -> "toScore"
      [] s = "toScore"    -> Step4(m)
      [] s = "score"      -> "await"
      [] s = "await"      -> "notify"

-------------------------------------------------------------------------------
\* Shared pieces of the actions

\* An UPDATE waits while another session holds the row lock.
MayWrite(w, i) == lock[i] \in {NULL, w}

LockKept(w) == lock   \* mutant

\* Commit and rollback both end the transaction that held the lock.
LockAfter(w) == [i \in Interviews |-> IF lock[i] = w THEN NULL ELSE lock[i]]

\* FOR UPDATE
LockFor(i, w) == [lock EXCEPT ![i] = w]

Enqueue(i) ==
    /\ enqueued[i] < MaxEnqueues
    /\ enqueued' = [enqueued EXCEPT ![i] = @ + 1]
    /\ queue' = Append(queue, [iv |-> i, left |-> MaxRetries])

Fault == faults < MaxFaults /\ faults' = faults + 1

WorkerIdle(w) ==
    /\ held' = [held EXCEPT ![w] = NULL]
    /\ stage' = [stage EXCEPT ![w] = "idle"]
    /\ reading' = [reading EXCEPT ![w] = FALSE]
    /\ mem' = [mem EXCEPT ![w] = NoRow]

\* process_interview returned.
JobDone(w) == WorkerIdle(w) /\ UNCHANGED scheduled

RetriesAllButLast(j) == j.left > 1   \* mutant

RetriesLeft(j) == j.left > 0

\* process_interview raised or its process died: RQ schedules the job again
\* after the interval, or gives it up when no retry is left.
JobFailed(w) ==
    LET j == held[w] IN
    /\ WorkerIdle(w)
    /\ scheduled' = IF RetriesLeft(j)
                    THEN [scheduled EXCEPT ![j.iv][j.left - 1] = @ + 1]
                    ELSE scheduled

\* _commit up to session.commit(): the row becomes `new`, which differs from it
\* only in the columns this session changed ...
Save(w, new) ==
    LET i == held[w].iv IN
    /\ MayWrite(w, i)
    /\ row' = [row EXCEPT ![i] = new]
    /\ lock' = LockAfter(w)
    /\ reading' = [reading EXCEPT ![w] = TRUE]
    /\ UNCHANGED <<rqVars, held, stage, mem, api, links, enqueued, faults>>

\* ... which is none when the session already had the status it moves to.
SaveNothing(w) ==
    /\ lock' = LockAfter(w)
    /\ reading' = [reading EXCEPT ![w] = TRUE]
    /\ UNCHANGED <<row, rqVars, held, stage, mem, api, links, enqueued, faults>>

At(w, s) == stage[w] = s /\ ~reading[w]

-------------------------------------------------------------------------------
\* API processes

Init ==
    /\ row = [i \in Interviews |-> NoRow]
    /\ lock = [i \in Interviews |-> NULL]
    /\ queue = <<>>
    /\ scheduled = [i \in Interviews |-> [l \in 0 .. MaxRetries |-> 0]]
    /\ held = [w \in Workers |-> NULL]
    /\ stage = [w \in Workers |-> "idle"]
    /\ reading = [w \in Workers |-> FALSE]
    /\ mem = [w \in Workers |-> NoRow]
    /\ api = [p \in Apis |-> Idle]
    /\ issued = [i \in Interviews |-> 0]
    /\ links = [i \in Interviews |-> {}]
    /\ enqueued = [i \in Interviews |-> 0]
    /\ faults = 0

\* recording_webhook, up to the commit of the new row.  A redelivery that finds
\* the row by its external_id changes nothing.
WebhookInsert(p, i) ==
    /\ api[p] = Idle
    /\ row[i].status = ABSENT
    /\ row' = [row EXCEPT ![i] = NewRow]
    /\ api' = [api EXCEPT ![p] = [op |-> "enqueue", iv |-> i, to |-> NULL]]
    /\ UNCHANGED <<lock, rqVars, workerVars, issued, links, enqueued, faults>>

\* ... its call of enqueue_processing ...
WebhookEnqueue(p) ==
    /\ api[p].op = "enqueue"
    /\ Enqueue(api[p].iv)
    /\ api' = [api EXCEPT ![p] = Idle]
    /\ UNCHANGED <<dbVars, scheduled, workerVars, issued, links, faults>>

\* ... which fails, or any handler whose process dies or whose database call
\* fails between its two steps: what it had yet to do is not done.
HandlerFails(p) ==
    /\ api[p] # Idle
    /\ Fault
    /\ api' = [api EXCEPT ![p] = Idle]
    /\ UNCHANGED <<dbVars, rqVars, workerVars, issued, links, enqueued>>

\* interview_action: the status check of _apply_decision, on the row as read.
ReadForAction(p, i, to) ==
    /\ api[p] = Idle
    /\ row[i].status = AGUARDANDO
    /\ api' = [api EXCEPT ![p] = [op |-> "decide", iv |-> i, to |-> to]]
    /\ UNCHANGED <<dbVars, rqVars, workerVars, issued, links, enqueued, faults>>

\* interview_decision: someone follows a delivered link; its token must be the
\* row's.
ReadForDecisionLink(p, i, t, to) ==
    /\ t \in links[i]
    /\ t = row[i].token
    /\ ReadForAction(p, i, to)

DecidedTokenKept(r, to) == [r EXCEPT !.status = to]   \* mutant

\* One-time links stop working after a decision.
Decided(r, to) == [r EXCEPT !.status = to, !.token = 0]

\* _apply_decision: the transition is checked on the status read before, and the
\* UPDATE waits for the row lock.
CommitDecision(p) ==
    LET i == api[p].iv IN
    /\ api[p].op = "decide"
    /\ lock[i] = NULL
    /\ row' = [row EXCEPT ![i] = Decided(row[i], api[p].to)]
    /\ api' = [api EXCEPT ![p] = Idle]
    /\ UNCHANGED <<lock, rqVars, workerVars, issued, links, enqueued, faults>>

\* reprocess_interview: enqueues and leaves the status alone.
Reprocess(p, i) ==
    /\ api[p] = Idle
    /\ row[i].status = FALHOU
    /\ Enqueue(i)
    /\ UNCHANGED <<dbVars, scheduled, workerVars, api, issued, links, faults>>

StaleFailed(r) == r.status = FALHOU   \* mutant

\* What requeue_stale_interviews selects.
Stale(r) == r.status = RECEBIDA

\* One row of requeue_stale_interviews.  Fifteen minutes may pass between any two
\* steps, except inside an API handler.
Reconcile(i) ==
    /\ Stale(row[i])
    /\ \A p \in Apis : api[p].iv # i
    /\ Enqueue(i)
    /\ UNCHANGED <<dbVars, scheduled, workerVars, api, issued, links, faults>>

\* One row of purge_old_interviews.  The retention is at least a day and a job
\* or a request at most two hours, so nothing is at work on a row that old.
Purge(i) ==
    /\ row[i].status \in TERMINAL_STATUSES
    /\ \A w \in Workers : held[w] # NULL => held[w].iv # i
    /\ \A p \in Apis : api[p].iv # i
    /\ row' = [row EXCEPT ![i] = [NoRow EXCEPT !.status = PURGED]]
    /\ UNCHANGED <<lock, rqVars, workerVars, api, issued, links, enqueued, faults>>

-------------------------------------------------------------------------------
\* Workers: taking a job

Dequeue(w) ==
    /\ stage[w] = "idle"
    /\ queue # <<>>
    /\ held' = [held EXCEPT ![w] = Head(queue)]
    /\ queue' = Tail(queue)
    /\ stage' = [stage EXCEPT ![w] = "select"]
    /\ UNCHANGED <<dbVars, scheduled, reading, mem, api, issued, links, enqueued, faults>>

\* SELECT ... FOR UPDATE SKIP LOCKED returns the row: the session keeps the lock.
SelectForUpdate(w) ==
    LET i == held[w].iv IN
    /\ stage[w] = "select"
    /\ Live(row[i].status) /\ lock[i] = NULL
    /\ ~Settled(row[i].status)
    /\ lock' = LockFor(i, w)
    /\ mem' = [mem EXCEPT ![w] = row[i]]
    /\ stage' = [stage EXCEPT ![w] = Entry(row[i])]
    /\ UNCHANGED <<row, rqVars, held, reading, api, issued, links, enqueued, faults>>

\* The row is locked by another worker, or settled: the job ends quietly.
SelectNothingToDo(w) ==
    LET i == held[w].iv IN
    /\ stage[w] = "select"
    /\ Live(row[i].status)
    /\ lock[i] # NULL \/ Settled(row[i].status)
    /\ JobDone(w)
    /\ UNCHANGED <<dbVars, queue, api, issued, links, enqueued, faults>>

\* The row is gone: ValueError, outside the block that records failures.
SelectMissing(w) ==
    /\ stage[w] = "select"
    /\ ~Live(row[held[w].iv].status)
    /\ JobFailed(w)
    /\ UNCHANGED <<dbVars, queue, api, issued, links, enqueued, faults>>

-------------------------------------------------------------------------------
\* Workers: _run_pipeline

Resume(w) ==
    /\ At(w, "resume")
    /\ Save(w, [row[held[w].iv] EXCEPT !.status = ResumeStatus(mem[w])])
    /\ UNCHANGED issued

Receive(w) ==
    /\ At(w, "receive")
    /\ Save(w, [row[held[w].iv] EXCEPT !.status = TRANSCREVENDO])
    /\ UNCHANGED issued

Transcribe(w) ==
    /\ At(w, "transcribe")
    /\ \E t \in AsrResults :
          Save(w, [row[held[w].iv] EXCEPT !.transcription = t])
    /\ UNCHANGED issued

Diarize(w) ==
    /\ At(w, "diarize")
    /\ \E d \in DiarizeResults(mem[w].transcription) :
          Save(w, [row[held[w].iv] EXCEPT !.diarization = d])
    /\ UNCHANGED issued

\* transition_to on the status as last refreshed, then the commit.
MoveTo(w, to) ==
    \/ /\ mem[w].status = to
       /\ SaveNothing(w)
    \/ /\ to \in VALID_TRANSITIONS[mem[w].status]
       /\ Save(w, [row[held[w].iv] EXCEPT !.status = to])

ToDiarize(w) == At(w, "toDiarize") /\ MoveTo(w, DIARIZANDO) /\ UNCHANGED issued

ToScore(w) == At(w, "toScore") /\ MoveTo(w, PONTUANDO) /\ UNCHANGED issued

\* The scorecard judges the transcript and the dialogue the session holds.
Score(w) ==
    /\ At(w, "score")
    /\ held[w].iv \in HasJob
    /\ Save(w, [row[held[w].iv] EXCEPT !.scorecard =
                  [transcription |-> mem[w].transcription,
                   diarization |-> mem[w].diarization]])
    /\ UNCHANGED issued

\* A fresh approval token, the transition and the cleared error_log, in one
\* commit of the columns that differ from the session's copy.
Await(w) ==
    LET i == held[w].iv
        m == mem[w]
        r == [row[i] EXCEPT !.token = issued[i] + 1]
        s == IF m.error THEN [r EXCEPT !.error = FALSE] ELSE r
    IN
    /\ At(w, "await")
    /\ MayTransition(m.status, AGUARDANDO)
    /\ issued[i] < MaxTokens
    /\ issued' = [issued EXCEPT ![i] = @ + 1]
    /\ Save(w, IF m.status = AGUARDANDO THEN s ELSE [s EXCEPT !.status = AGUARDANDO])

\* session.refresh, and the control flow up to the next transaction.
Refresh(w) ==
    LET i == held[w].iv
        next == Continue(stage[w], row[i])
    IN
    /\ reading[w]
    /\ \/ /\ next = "return"
          /\ JobDone(w)
       \/ /\ next # "return"
          /\ stage' = [stage EXCEPT ![w] = next]
          /\ mem' = [mem EXCEPT ![w] = row[i]]
          /\ reading' = [reading EXCEPT ![w] = FALSE]
          /\ UNCHANGED <<scheduled, held>>
    /\ UNCHANGED <<dbVars, queue, api, issued, links, enqueued, faults>>

\* notify_approval reads the row again and hands its token, if it still has one,
\* to the channels ...
Notify(w) ==
    LET r == row[held[w].iv] IN
    /\ At(w, "notify")
    /\ links' = IF r.scorecard # NULL /\ r.token # 0
                THEN [links EXCEPT ![held[w].iv] = @ \cup {r.token}]
                ELSE links
    /\ JobDone(w)
    /\ UNCHANGED <<dbVars, queue, api, issued, enqueued, faults>>

\* ... whose failures the dispatcher logs and forgets.
NotifyDropped(w) ==
    /\ At(w, "notify")
    /\ Fault
    /\ JobDone(w)
    /\ UNCHANGED <<dbVars, queue, api, issued, links, enqueued>>

-------------------------------------------------------------------------------
\* Workers: failures

\* An exception reaches process_interview's handler: session.rollback().
Rollback(w) ==
    /\ lock' = LockAfter(w)
    /\ stage' = [stage EXCEPT ![w] = "failRead"]
    /\ reading' = [reading EXCEPT ![w] = FALSE]
    /\ mem' = [mem EXCEPT ![w] = NoRow]
    /\ UNCHANGED <<row, rqVars, held, api, issued, links, enqueued>>

\* A provider, the database or the job timeout raises anywhere in the pipeline.
Raise(w) ==
    /\ stage[w] \in PipelineStages
    /\ Fault
    /\ Rollback(w)

\* The exceptions the code raises on its own: an illegal transition, no job_id,
\* nothing that can diarize this transcript.
RaiseAlways(w) ==
    /\ ~reading[w]
    /\ \/ stage[w] = "toDiarize" /\ ~MayTransition(mem[w].status, DIARIZANDO)
       \/ stage[w] = "toScore" /\ ~MayTransition(mem[w].status, PONTUANDO)
       \/ stage[w] = "await" /\ ~MayTransition(mem[w].status, AGUARDANDO)
       \/ stage[w] = "score" /\ held[w].iv \notin HasJob
       \/ stage[w] = "diarize" /\ DiarizeResults(mem[w].transcription) = {}
    /\ Rollback(w)
    /\ UNCHANGED faults

\* _record_failure: session.get, in a transaction of its own (the row is there:
\* Purge waits for the job) ...
FailRead(w) ==
    LET i == held[w].iv IN
    /\ stage[w] = "failRead"
    /\ stage' = [stage EXCEPT ![w] = "failWrite"]
    /\ mem' = [mem EXCEPT ![w] = row[i]]
    /\ UNCHANGED <<dbVars, rqVars, held, reading, api, issued, links, enqueued, faults>>

FailedUnchecked(r, m) == [r EXCEPT !.error = TRUE, !.status = FALHOU]   \* mutant

FailedUnexplained(r, m) ==                                              \* mutant
    IF FALHOU \in VALID_TRANSITIONS[m.status] THEN [r EXCEPT !.status = FALHOU] ELSE r

\* The row with its error_log, and in FALHOU if the status read allows it.
Failed(r, m) ==
    LET e == [r EXCEPT !.error = TRUE] IN
    IF FALHOU \in VALID_TRANSITIONS[m.status] THEN [e EXCEPT !.status = FALHOU] ELSE e

\* ... then the commit of the failure; the exception goes on to RQ.
FailWrite(w) ==
    LET i == held[w].iv IN
    /\ stage[w] = "failWrite"
    /\ MayWrite(w, i)
    /\ row' = [row EXCEPT ![i] = Failed(row[i], mem[w])]
    /\ JobFailed(w)
    /\ UNCHANGED <<lock, queue, api, issued, links, enqueued, faults>>

\* _record_failure raises too: the failure is not recorded.
FailureLost(w) ==
    /\ stage[w] \in {"failRead", "failWrite"}
    /\ Fault
    /\ JobFailed(w)
    /\ UNCHANGED <<dbVars, queue, api, issued, links, enqueued>>

\* The process is killed (out of memory, redeploy): its connection drops, so the
\* database rolls back, and RQ finds the job abandoned.  An exception in the
\* SELECT has the same effect.
Crash(w) ==
    /\ held[w] # NULL
    /\ Fault
    /\ lock' = LockAfter(w)
    /\ JobFailed(w)
    /\ UNCHANGED <<row, queue, api, issued, links, enqueued>>

\* RQ's scheduler moves a due job back to the queue.
ScheduledFires(i, l) ==
    /\ WithScheduler
    /\ scheduled[i][l] > 0
    /\ scheduled' = [scheduled EXCEPT ![i][l] = @ - 1]
    /\ queue' = Append(queue, [iv |-> i, left |-> l])
    /\ UNCHANGED <<dbVars, workerVars, api, issued, links, enqueued, faults>>

-------------------------------------------------------------------------------

ApiStep(p) ==
    \/ \E i \in Interviews :
          \/ WebhookInsert(p, i)
          \/ Reprocess(p, i)
          \/ \E to \in TERMINAL_STATUSES :
                \/ ReadForAction(p, i, to)
                \/ \E t \in 1 .. MaxTokens : ReadForDecisionLink(p, i, t, to)
    \/ WebhookEnqueue(p)
    \/ HandlerFails(p)
    \/ CommitDecision(p)

\* What a worker does as long as nothing goes wrong around it.
WorkerStep(w) ==
    \/ Dequeue(w) \/ SelectForUpdate(w) \/ SelectNothingToDo(w) \/ SelectMissing(w)
    \/ Resume(w) \/ Receive(w) \/ Transcribe(w) \/ ToDiarize(w) \/ Diarize(w)
    \/ ToScore(w) \/ Score(w) \/ Await(w) \/ Refresh(w) \/ Notify(w)
    \/ RaiseAlways(w) \/ FailRead(w) \/ FailWrite(w)

WorkerFault(w) == NotifyDropped(w) \/ Raise(w) \/ FailureLost(w) \/ Crash(w)

Next ==
    \/ \E p \in Apis : ApiStep(p)
    \/ \E w \in Workers : WorkerStep(w) \/ WorkerFault(w)
    \/ \E i \in Interviews : Reconcile(i) \/ Purge(i)
    \/ \E i \in Interviews, l \in 0 .. MaxRetries : ScheduledFires(i, l)

Spec == Init /\ [][Next]_vars
==============================================================================
