-------------------------- MODULE PipelineProperties --------------------------
(***************************************************************************)
(* What the pipeline must keep true.  The first part holds for any number  *)
(* of workers and API processes; the second for the deployment             *)
(* docker-compose.yml starts, one of each.                                 *)
(***************************************************************************)
EXTENDS Pipeline, FiniteSets

TypeOK ==
    /\ row \in [Interviews -> Row]
    /\ lock \in [Interviews -> Workers \cup {NULL}]
    /\ queue \in Seq(Job)
    /\ scheduled \in [Interviews -> [0 .. MaxRetries -> Nat]]
    /\ held \in [Workers -> Job \cup {NULL}]
    /\ stage \in [Workers -> Stages]
    /\ reading \in [Workers -> BOOLEAN]
    /\ mem \in [Workers -> Row]
    /\ api \in [Apis -> Handler]
    /\ issued \in [Interviews -> 0 .. MaxTokens]
    /\ links \in [Interviews -> SUBSET (1 .. MaxTokens)]
    /\ enqueued \in [Interviews -> 0 .. MaxEnqueues]
    /\ faults \in 0 .. MaxFaults

-------------------------------------------------------------------------------
\* Any number of workers

\* The checkpoints a row in status s has behind it.
BackedBy(r, s) ==
    /\ s \in {DIARIZANDO, PONTUANDO, AGUARDANDO, APROVADA, REJEITADA} =>
          r.transcription # NULL
    /\ s \in {PONTUANDO, AGUARDANDO, APROVADA, REJEITADA} => r.diarization # NULL
    /\ s \in {AGUARDANDO, APROVADA, REJEITADA} => r.scorecard # NULL

\* A status is never ahead of the work: an interview in DIARIZANDO has a stored
\* transcript, one in PONTUANDO a stored dialogue too, and nobody is asked for a
\* decision, or gives one, without a stored scorecard.  However many duplicate
\* jobs interleave their commits over the same row, resume and fail
\* (app/tasks.py).
StatusBacked == \A i \in Interviews : BackedBy(row[i], row[i].status)

\* While a worker holds the row lock, its session copy is the row: no decision,
\* failure record or other job's commit slips in under SELECT ... FOR UPDATE
\* until the first commit of that worker (app/tasks.py:59-68).
LockedCopyIsCurrent ==
    \A i \in Interviews, w \in Workers :
        lock[i] = w => /\ held[w] # NULL /\ held[w].iv = i
                       /\ stage[w] \in PipelineStages \ {"notify"} /\ ~reading[w]
                       /\ mem[w] = row[i]

\* Starting a received interview and resuming a failed one, which counts a
\* retry by reading and writing retry_count, is done under the row lock: two
\* jobs of one interview are never both there.
StartsUnderLock ==
    \A w \in Workers :
        stage[w] \in {"resume", "receive"} /\ ~reading[w] => lock[held[w].iv] = w

-------------------------------------------------------------------------------
\* The inductive invariant behind the three properties above

\* A worker has a job exactly when it is not idle, and a commit to read back
\* only in the stages that commit.
JobHeld ==
    \A w \in Workers :
        /\ stage[w] = "idle" <=> held[w] = NULL
        /\ reading[w] => stage[w] \in PipelineStages \ {"notify"}

\* The row a worker or a handler is at work on is there, and does not go back
\* to RECEBIDA once a job has moved it.
RowInUse ==
    /\ \A w \in Workers :
          /\ stage[w] \notin {"idle", "select"} => Live(row[held[w].iv].status)
          /\ stage[w] \in PipelineStages \ {"receive"} \/ reading[w] =>
                row[held[w].iv].status # RECEBIDA
    /\ \A p \in Apis : api[p] # Idle => Live(row[api[p].iv].status)

\* The checkpoints a session at stage s relies on.
Behind(r, s) ==
    /\ s \in {"toDiarize", "diarize", "toScore", "score", "await", "notify"} =>
          r.transcription # NULL
    /\ s \in {"toScore", "score", "await", "notify"} => r.diarization # NULL
    /\ s \in {"await", "notify"} => r.scorecard # NULL

\* The checkpoint the commit of stage s stored.
StoredBy(r, s) ==
    /\ s = "transcribe" => r.transcription # NULL
    /\ s = "diarize" => r.diarization # NULL
    /\ s = "score" => r.scorecard # NULL

\* A worker never runs ahead of the checkpoints, neither those of the row nor
\* those of its copy, and a pending decision is about a complete interview.
WorkersBacked ==
    /\ \A w \in Workers :
          /\ Behind(row[held[w].iv], stage[w])
          /\ reading[w] => StoredBy(row[held[w].iv], stage[w])
          /\ ~reading[w] => Behind(mem[w], stage[w])
    /\ \A p \in Apis : api[p].op = "decide" => BackedBy(row[api[p].iv], AGUARDANDO)

PipelineInvariant ==
    /\ TypeOK
    /\ JobHeld
    /\ RowInUse
    /\ WorkersBacked
    /\ StatusBacked
    /\ LockedCopyIsCurrent
    /\ StartsUnderLock

-------------------------------------------------------------------------------
\* One worker and one API process

\* The scorecard published with AGUARDANDO_APROVACAO.
Published(r) == IF Settled(r.status) THEN r.scorecard ELSE NULL

L == INSTANCE Lifecycle WITH
        status    <- [i \in Interviews |-> row[i].status],
        published <- [i \in Interviews |-> Published(row[i])]

\* The pipeline implements Lifecycle: statuses move only along
\* VALID_TRANSITIONS although no UPDATE checks the status it overwrites, and the
\* scorecard a human judges is neither changed nor withdrawn afterwards.
Lifecycle == L!Spec

\* The scorecard a human is asked to judge was made from the transcript and the
\* dialogue stored beside it, whatever failed and was redone in between
\* (app/tasks.py:118-165).  A worker with pyannote whose provider returns an
\* empty transcript does not keep this: speaker turns computed for the empty
\* transcript stay when a resumed job stores another.
ScorecardMatchesCheckpoints ==
    \A i \in Interviews :
        LET r == row[i] IN
        Settled(r.status) =>
            /\ r.scorecard = [transcription |-> r.transcription,
                              diarization |-> r.diarization]
            /\ r.diarization \in DiarizeResults(r.transcription)

\* A decision link that was delivered works for as long as the decision is open,
\* and no longer (app/notifications.py:27-32, app/main.py:319).
LinkWorksUntilDecision ==
    \A i \in Interviews :
        /\ row[i].status = AGUARDANDO => links[i] \subseteq {row[i].token}
        /\ row[i].token # 0 => row[i].status = AGUARDANDO

\* error_log explains FALHOU: a failed interview always has one.
FailureIsExplained == \A i \in Interviews : row[i].status = FALHOU => row[i].error

-------------------------------------------------------------------------------
\* Claims the code does not keep

\* "Processing is idempotent (checkpointed), so re-enqueueing an already-queued
\* interview is safe" (app/maintenance.py:7-8): a decision taken stands.
DecisionStands ==
    [][\A i \in Interviews :
          row[i].status \in TERMINAL_STATUSES =>
              row'[i].status \in {row[i].status, PURGED}]_vars

\* "automatic retry with backoff" (README.md:90-91): a scheduled retry runs.
RetriesRun ==
    \A i \in Interviews, l \in 0 .. MaxRetries :
        scheduled[i][l] > 0 ~> scheduled[i][l] = 0

-------------------------------------------------------------------------------
\* Liveness

\* A worker between faults takes its next step, an API process finishes the
\* handler it is in, RQ's scheduler runs if a worker has one, and
\* `python -m app.maintenance` runs from cron.  Users decide and reprocess if
\* and when they like.
Fairness ==
    /\ \A w \in Workers : WF_vars(WorkerStep(w))
    /\ \A p \in Apis : WF_vars(WebhookEnqueue(p)) /\ WF_vars(CommitDecision(p))
    /\ \A i \in Interviews : WF_vars(Reconcile(i))
    /\ \A i \in Interviews, l \in 0 .. MaxRetries : WF_vars(ScheduledFires(i, l))

FairSpec == Spec /\ Fairness

\* A received interview does not stay RECEBIDA, whatever was lost on its way to
\* the queue or before the first commit: reconciliation covers the dual write of
\* recording_webhook (app/main.py:248-262).
ReceivedIsPickedUp ==
    \A i \in Interviews : row[i].status = RECEBIDA ~> row[i].status # RECEBIDA

\* With RQ's scheduler running, up to job_max_retries faults never strand an
\* interview: it reaches the approver, or FALHOU for a reason that does not pass.
FaultsAreMasked ==
    \A i \in Interviews :
        row[i].status = RECEBIDA ~> \/ Settled(row[i].status)
                                    \/ i \notin HasJob /\ row[i].status = FALHOU
==============================================================================
