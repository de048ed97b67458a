---------------------------- MODULE PipelineProofs ----------------------------
(***************************************************************************)
(* TLAPS proofs about Pipeline for any number of interviews, workers and   *)
(* API processes, and any bounds.                                          *)
(***************************************************************************)
EXTENDS PipelineProperties, TLAPS

-------------------------------------------------------------------------------
\* Types of the pieces the actions are built from

\* The values a row can hold are not NULL, which marks a missing checkpoint.
LEMMA NullIsNoValue ==
    /\ NULL \notin Interviews \cup Workers
    /\ NULL \notin Transcripts
    /\ NULL \notin Diarizations
    /\ NULL \notin Scorecards
BY PipelineAssumption DEF Transcripts, Diarizations

\* The control flow of _run_pipeline stays within its stages.
LEMMA ContinueType ==
    ASSUME NEW m, NEW s \in PipelineStages \ {"notify"}
    PROVE  Continue(s, m) \in PipelineStages \cup {"return"}
BY DEF Continue, Step1, Step2, Step3, Step4, PipelineStages

LEMMA EntryType ==
    ASSUME NEW m, Live(m.status), ~Settled(m.status)
    PROVE  Entry(m) \in PipelineStages \ {"notify"}
BY DEF Entry, Step1, Step2, Step3, Step4, PipelineStages, Settled, Live,
       InterviewStatuses, TERMINAL_STATUSES, RECEBIDA, TRANSCREVENDO, DIARIZANDO,
       PONTUANDO, AGUARDANDO, APROVADA, REJEITADA, FALHOU

LEMMA NoRowType == NoRow \in Row /\ NewRow \in Row /\ [NoRow EXCEPT !.status = PURGED] \in Row
<1>1. 0 \in 0 .. MaxTokens
  BY PipelineAssumption
<1>2. NoRow \in Row
  BY <1>1 DEF NoRow, Row
<1>3. ASSUME NEW s \in InterviewStatuses \cup {ABSENT, PURGED}
      PROVE  [NoRow EXCEPT !.status = s] \in Row
  BY <1>2, <1>3 DEF Row
<1>4. RECEBIDA \in InterviewStatuses
  BY DEF InterviewStatuses
<1>5. QED
  BY <1>2, <1>3, <1>4 DEF NewRow

\* The end of a job leaves the worker state and the registry well typed.
LEMMA JobEndType ==
    ASSUME TypeOK, NEW w \in Workers, held[w] # NULL, JobDone(w) \/ JobFailed(w)
    PROVE  /\ scheduled' \in [Interviews -> [0 .. MaxRetries -> Nat]]
           /\ held' \in [Workers -> Job \cup {NULL}]
           /\ stage' \in [Workers -> Stages]
           /\ reading' \in [Workers -> BOOLEAN]
           /\ mem' \in [Workers -> Row]
<1>1. WorkerIdle(w)
  BY DEF JobDone, JobFailed
<1>2. held' \in [Workers -> Job \cup {NULL}] /\ stage' \in [Workers -> Stages]
  BY <1>1 DEF WorkerIdle, TypeOK, Stages
<1>3. reading' \in [Workers -> BOOLEAN] /\ mem' \in [Workers -> Row]
  BY <1>1, NoRowType DEF WorkerIdle, TypeOK
<1>4. scheduled' \in [Interviews -> [0 .. MaxRetries -> Nat]]
  <2>1. CASE JobDone(w)
    BY <2>1 DEF JobDone, TypeOK
  <2>2. CASE JobFailed(w)
    <3> DEFINE j == held[w]
    <3>1. j \in Job
      BY DEF TypeOK
    <3>2. j.iv \in Interviews /\ j.left \in 0 .. MaxRetries
      BY <3>1 DEF Job
    <3>3. CASE RetriesLeft(j)
      <4>1. j.left - 1 \in 0 .. MaxRetries
        BY <3>2, <3>3, PipelineAssumption DEF RetriesLeft
      <4> DEFINE f == scheduled[j.iv]
                 g == [f EXCEPT ![j.left - 1] = @ + 1]
      <4>2. scheduled' = [scheduled EXCEPT ![j.iv] = g]
        BY <2>2, <3>3 DEF JobFailed
      <4>3. f \in [0 .. MaxRetries -> Nat]
        BY <3>2 DEF TypeOK
      <4> HIDE DEF f
      <4>4. \A k \in 0 .. MaxRetries : [f EXCEPT ![k] = @ + 1] \in [0 .. MaxRetries -> Nat]
        BY <4>3
      <4>5. g \in [0 .. MaxRetries -> Nat]
        BY <4>1, <4>4
      <4> HIDE DEF g
      <4>6. QED
        BY <3>2, <4>2, <4>5 DEF TypeOK
    <3>4. CASE ~RetriesLeft(j)
      BY <2>2, <3>4 DEF JobFailed, TypeOK
    <3>5. QED
      BY <3>3, <3>4
  <2>3. QED
    BY <2>1, <2>2
<1>5. QED
  BY <1>2, <1>3, <1>4

LEMMA LockAfterType ==
    ASSUME TypeOK, NEW w \in Workers
    PROVE  LockAfter(w) \in [Interviews -> Workers \cup {NULL}]
BY DEF LockAfter, TypeOK

\* A commit of a well typed row keeps everything but `issued` well typed.
LEMMA SaveType ==
    ASSUME TypeOK, NEW w \in Workers, held[w] # NULL, NEW new \in Row,
           Save(w, new) \/ SaveNothing(w), issued' \in [Interviews -> 0 .. MaxTokens]
    PROVE  TypeOK'
<1>1. held[w].iv \in Interviews
  BY DEF TypeOK, Job
<1>2. row' \in [Interviews -> Row]
  BY <1>1 DEF Save, SaveNothing, TypeOK
<1>3. lock' \in [Interviews -> Workers \cup {NULL}]
  BY LockAfterType DEF Save, SaveNothing
<1>4. reading' \in [Workers -> BOOLEAN]
  BY DEF Save, SaveNothing, TypeOK
<1>5. UNCHANGED <<queue, scheduled, held, stage, mem, api, links, enqueued, faults>>
  BY DEF Save, SaveNothing, rqVars
<1>6. QED
  BY <1>2, <1>3, <1>4, <1>5 DEF TypeOK

LEMMA EnqueueType ==
    ASSUME TypeOK, NEW i \in Interviews, Enqueue(i)
    PROVE  queue' \in Seq(Job) /\ enqueued' \in [Interviews -> 0 .. MaxEnqueues]
<1>1. MaxRetries \in Nat /\ MaxEnqueues \in Nat
  BY PipelineAssumption
<1>2. [iv |-> i, left |-> MaxRetries] \in Job
  BY <1>1 DEF Job
<1>3. QED
  BY <1>1, <1>2 DEF Enqueue, TypeOK

LEMMA FaultType ==
    ASSUME TypeOK, Fault
    PROVE  faults' \in 0 .. MaxFaults
<1>1. MaxFaults \in Nat
  BY PipelineAssumption
<1>2. QED
  BY <1>1 DEF Fault, TypeOK

\* What a handler of an API process does keeps the types.
LEMMA ApiType ==
    ASSUME TypeOK, NEW p \in Apis, ApiStep(p)
    PROVE  TypeOK'
<1> USE DEF rqVars, workerVars, dbVars
<1>1. Idle \in Handler
  BY DEF Handler
<1>2. api[p] # Idle => api[p].iv \in Interviews
  BY DEF TypeOK, Handler
<1>3. ASSUME NEW i \in Interviews, WebhookInsert(p, i)
      PROVE  TypeOK'
  <2>1. api'[p] \in Handler /\ api' = [api EXCEPT ![p] = api'[p]]
    BY <1>3 DEF WebhookInsert, Handler, TypeOK
  <2>2. api' \in [Apis -> Handler]
    BY <2>1 DEF TypeOK
  <2>3. row' \in [Interviews -> Row]
    BY <1>3, NoRowType DEF WebhookInsert, TypeOK
  <2>4. QED
    BY <1>3, <2>2, <2>3 DEF WebhookInsert, TypeOK
<1>4. ASSUME NEW i \in Interviews, Reprocess(p, i)
      PROVE  TypeOK'
  BY <1>4, EnqueueType DEF Reprocess, TypeOK
<1>5. ASSUME NEW i \in Interviews, NEW to \in TERMINAL_STATUSES, ReadForAction(p, i, to)
      PROVE  TypeOK'
  <2>1. api'[p] \in Handler /\ api' = [api EXCEPT ![p] = api'[p]]
    BY <1>5 DEF ReadForAction, Handler, TypeOK
  <2>2. QED
    BY <1>5, <2>1 DEF ReadForAction, TypeOK
<1>6. CASE WebhookEnqueue(p)
  <2>1. api[p].iv \in Interviews
    BY <1>2, <1>6 DEF WebhookEnqueue, Idle
  <2>2. api' \in [Apis -> Handler]
    BY <1>1, <1>6 DEF WebhookEnqueue, TypeOK
  <2>3. QED
    BY <1>6, <2>1, <2>2, EnqueueType DEF WebhookEnqueue, TypeOK
<1>7. CASE HandlerFails(p)
  BY <1>1, <1>7, FaultType DEF HandlerFails, TypeOK
<1>8. CASE CommitDecision(p)
  <2>1. api[p].iv \in Interviews /\ api[p].to \in TERMINAL_STATUSES
    BY <1>8 DEF CommitDecision, TypeOK, Handler, Idle
  <2>2. [row[api[p].iv] EXCEPT !.status = api[p].to, !.token = 0] \in Row
    <3>1. row[api[p].iv] \in Row
      BY <2>1 DEF TypeOK
    <3>2. 0 \in 0 .. MaxTokens
      BY PipelineAssumption
    <3>3. api[p].to \in InterviewStatuses
      BY <2>1 DEF TERMINAL_STATUSES, InterviewStatuses
    <3>4. QED
      BY <3>1, <3>2, <3>3 DEF Row
  <2>3. row' \in [Interviews -> Row]
    BY <1>8, <2>1, <2>2 DEF CommitDecision, Decided, TypeOK
  <2>4. QED
    BY <1>1, <1>8, <2>3 DEF CommitDecision, Decided, TypeOK
<1>9. QED
  BY <1>3, <1>4, <1>5, <1>6, <1>7, <1>8 DEF ApiStep, ReadForDecisionLink

\* So do the routines that run beside them.
LEMMA RoutineType ==
    ASSUME TypeOK, NEW i \in Interviews,
           \/ Reconcile(i)
           \/ Purge(i)
           \/ \E l \in 0 .. MaxRetries : ScheduledFires(i, l)
    PROVE  TypeOK'
<1> USE DEF rqVars, workerVars, dbVars
<1>1. CASE Reconcile(i)
  BY <1>1, EnqueueType DEF Reconcile, TypeOK
<1>2. CASE Purge(i)
  BY <1>2, NoRowType DEF Purge, TypeOK
<1>3. ASSUME NEW l \in 0 .. MaxRetries, ScheduledFires(i, l)
      PROVE  TypeOK'
  <2>1. [iv |-> i, left |-> l] \in Job
    BY DEF Job
  <2>2. queue' \in Seq(Job)
    BY <1>3, <2>1 DEF ScheduledFires, TypeOK
  <2> DEFINE f == scheduled[i]
             g == [f EXCEPT ![l] = @ - 1]
  <2>3. f \in [0 .. MaxRetries -> Nat] /\ f[l] > 0
    BY <1>3 DEF ScheduledFires, TypeOK
  <2>4. scheduled' = [scheduled EXCEPT ![i] = g]
    BY <1>3 DEF ScheduledFires
  <2> HIDE DEF f
  <2>5. g \in [0 .. MaxRetries -> Nat]
    BY <2>3
  <2> HIDE DEF g
  <2>6. scheduled' \in [Interviews -> [0 .. MaxRetries -> Nat]]
    BY <2>4, <2>5 DEF TypeOK
  <2>7. QED
    BY <1>3, <2>2, <2>6 DEF ScheduledFires, TypeOK
<1>4. QED
  BY <1>1, <1>2, <1>3

\* Changing one column of a row.
LEMMA ColumnType ==
    ASSUME NEW r \in Row
    PROVE  /\ \A s \in InterviewStatuses : [r EXCEPT !.status = s] \in Row
           /\ \A t \in Transcripts : [r EXCEPT !.transcription = t] \in Row
           /\ \A d \in Diarizations : [r EXCEPT !.diarization = d] \in Row
           /\ \A c \in Scorecards : [r EXCEPT !.scorecard = c] \in Row
           /\ \A k \in 0 .. MaxTokens : [r EXCEPT !.token = k] \in Row
           /\ \A e \in BOOLEAN : [r EXCEPT !.error = e] \in Row
BY DEF Row

LEMMA StatusesAre ==
    /\ {TRANSCREVENDO, DIARIZANDO, PONTUANDO, AGUARDANDO, FALHOU} \subseteq InterviewStatuses
    /\ \A m : ResumeStatus(m) \in {TRANSCREVENDO, DIARIZANDO, PONTUANDO}
BY DEF InterviewStatuses, ResumeStatus

LEMMA DiarizeResultsType ==
    ASSUME NEW t \in Transcripts
    PROVE  DiarizeResults(t) \subseteq Diarizations
BY PipelineAssumption DEF DiarizeResults, Transcripts, Diarizations

\* A worker's commits keep the types, provided what the session holds at
\* diarization and scoring is complete.
LEMMA CommitType ==
    ASSUME TypeOK, JobHeld, WorkersBacked, NEW w \in Workers,
           \/ Resume(w) \/ Receive(w) \/ Transcribe(w) \/ ToDiarize(w)
           \/ Diarize(w) \/ ToScore(w) \/ Score(w) \/ Await(w)
    PROVE  TypeOK'
<1> DEFINE i == held[w].iv
           r == row[i]
<1>1. held[w] # NULL /\ stage[w] \in PipelineStages
  BY DEF JobHeld, Resume, Receive, Transcribe, ToDiarize, Diarize, ToScore, Score,
         Await, At, PipelineStages
<1>2. i \in Interviews /\ r \in Row /\ mem[w] \in Row
  BY <1>1 DEF TypeOK, Job
<1>3. issued \in [Interviews -> 0 .. MaxTokens]
  BY DEF TypeOK
<1> USE StatusesAre
<1>4. CASE Resume(w)
  <2>1. [r EXCEPT !.status = ResumeStatus(mem[w])] \in Row
    BY <1>2, ColumnType
  <2>2. QED
    BY <1>1, <1>3, <1>4, <2>1, SaveType DEF Resume
<1>5. CASE Receive(w)
  BY <1>1, <1>2, <1>3, <1>5, SaveType, ColumnType DEF Receive
<1>6. CASE Transcribe(w)
  <2>1. PICK t \in AsrResults : Save(w, [r EXCEPT !.transcription = t])
    BY <1>6 DEF Transcribe
  <2>2. [r EXCEPT !.transcription = t] \in Row
    BY <1>2, ColumnType, PipelineAssumption
  <2>3. QED
    BY <1>1, <1>3, <1>6, <2>1, <2>2, SaveType DEF Transcribe
<1>7. ASSUME NEW to \in {DIARIZANDO, PONTUANDO}, MoveTo(w, to), UNCHANGED issued
      PROVE  TypeOK'
  BY <1>1, <1>2, <1>3, <1>7, SaveType, ColumnType DEF MoveTo
<1>8. CASE Diarize(w)
  <2>1. PICK d \in DiarizeResults(mem[w].transcription) :
           Save(w, [r EXCEPT !.diarization = d])
    BY <1>8 DEF Diarize
  <2>2. mem[w].transcription \in Transcripts
    BY <1>2, <1>8 DEF Diarize, At, WorkersBacked, Behind, Row
  <2>3. [r EXCEPT !.diarization = d] \in Row
    BY <1>2, <2>2, ColumnType, DiarizeResultsType
  <2>4. QED
    BY <1>1, <1>3, <1>8, <2>1, <2>3, SaveType DEF Diarize
<1>9. CASE Score(w)
  <2> DEFINE c == [transcription |-> mem[w].transcription, diarization |-> mem[w].diarization]
  <2>1. c \in Scorecards
    BY <1>2, <1>9 DEF Score, At, WorkersBacked, Behind, Row, Scorecards
  <2>2. [r EXCEPT !.scorecard = c] \in Row
    BY <1>2, <2>1, ColumnType
  <2>3. QED
    BY <1>1, <1>3, <1>9, <2>2, SaveType DEF Score
<1>10. CASE Await(w)
  <2>1. issued[i] + 1 \in 0 .. MaxTokens
    BY <1>2, <1>3, <1>10, PipelineAssumption DEF Await
  <2>2. issued' \in [Interviews -> 0 .. MaxTokens]
    BY <1>2, <1>3, <1>10, <2>1 DEF Await
  <2> DEFINE t == [r EXCEPT !.token = issued[i] + 1]
             s == IF mem[w].error THEN [t EXCEPT !.error = FALSE] ELSE t
             n == IF mem[w].status = AGUARDANDO THEN s ELSE [s EXCEPT !.status = AGUARDANDO]
  <2>3. t \in Row
    BY <1>2, <2>1, ColumnType
  <2>4. s \in Row
    BY <2>3, ColumnType
  <2>5. n \in Row
    BY <2>4, ColumnType
  <2>6. Save(w, n)
    BY <1>10 DEF Await
  <2>7. QED
    BY <1>1, <2>2, <2>5, <2>6, SaveType
<1>11. QED
  BY <1>4, <1>5, <1>6, <1>7, <1>8, <1>9, <1>10 DEF ToDiarize, ToScore

\* The rest of what workers do keeps the types.
LEMMA WorkerType ==
    ASSUME TypeOK, JobHeld, NEW w \in Workers,
           \/ Dequeue(w) \/ SelectForUpdate(w) \/ SelectNothingToDo(w)
           \/ SelectMissing(w) \/ Refresh(w) \/ Notify(w) \/ RaiseAlways(w)
           \/ FailRead(w) \/ FailWrite(w) \/ WorkerFault(w)
    PROVE  TypeOK'
<1> USE DEF rqVars, dbVars
<1> DEFINE i == held[w].iv
<1>1. stage[w] # "idle" => held[w] # NULL /\ held[w] \in Job /\ i \in Interviews
  BY DEF JobHeld, TypeOK, Job
<1>2. CASE Dequeue(w)
  <2>1. Head(queue) \in Job /\ Tail(queue) \in Seq(Job)
    BY <1>2 DEF Dequeue, TypeOK
  <2>2. QED
    BY <1>2, <2>1 DEF Dequeue, TypeOK, Stages
<1>3. CASE SelectForUpdate(w)
  <2>1. Entry(row[i]) \in Stages
    BY <1>3, EntryType DEF SelectForUpdate, Stages
  <2>2. QED
    BY <1>1, <1>3, <2>1 DEF SelectForUpdate, LockFor, TypeOK
<1>4. CASE SelectNothingToDo(w)
  BY <1>1, <1>4, JobEndType DEF SelectNothingToDo, TypeOK
<1>5. CASE SelectMissing(w)
  BY <1>1, <1>5, JobEndType DEF SelectMissing, TypeOK
<1>6. CASE Refresh(w)
  <2>1. stage[w] \in PipelineStages \ {"notify"} /\ stage[w] # "idle"
    BY <1>6 DEF Refresh, JobHeld, PipelineStages
  <2>2. Continue(stage[w], row[i]) \in PipelineStages \cup {"return"}
    BY <2>1, ContinueType
  <2>3. CASE Continue(stage[w], row[i]) = "return"
    BY <1>1, <1>6, <2>1, <2>3, JobEndType DEF Refresh, TypeOK
  <2>4. CASE Continue(stage[w], row[i]) # "return"
    <3>1. /\ stage' = [stage EXCEPT ![w] = Continue(stage[w], row[i])]
          /\ mem' = [mem EXCEPT ![w] = row[i]]
          /\ reading' = [reading EXCEPT ![w] = FALSE]
          /\ UNCHANGED <<dbVars, rqVars, held, api, issued, links, enqueued, faults>>
      BY <1>6, <2>4 DEF Refresh
    <3>2. stage' \in [Workers -> Stages]
      BY <2>2, <2>4, <3>1 DEF TypeOK, Stages
    <3>3. row[i] \in Row
      BY <1>1, <2>1 DEF TypeOK
    <3>4. mem' \in [Workers -> Row] /\ reading' \in [Workers -> BOOLEAN]
      BY <3>1, <3>3 DEF TypeOK
    <3>5. QED
      BY <3>1, <3>2, <3>4 DEF TypeOK
  <2>5. QED
    BY <2>3, <2>4
<1>7. CASE Notify(w)
  <2>1. stage[w] # "idle" /\ held[w] # NULL /\ i \in Interviews
    BY <1>1, <1>7 DEF Notify, At
  <2>2. row[i].token # 0 => row[i].token \in 1 .. MaxTokens
    BY <2>1, PipelineAssumption DEF TypeOK, Row
  <2>3. links' \in [Interviews -> SUBSET (1 .. MaxTokens)]
    BY <1>7, <2>1, <2>2 DEF Notify, TypeOK
  <2>4. QED
    BY <1>7, <2>1, <2>3, JobEndType DEF Notify, TypeOK
<1>8. ASSUME Rollback(w), faults' \in 0 .. MaxFaults
      PROVE  TypeOK'
  BY <1>8, LockAfterType, NoRowType DEF Rollback, TypeOK, Stages
<1>9. CASE RaiseAlways(w)
  BY <1>8, <1>9 DEF RaiseAlways, TypeOK
<1>10. CASE FailRead(w)
  BY <1>1, <1>10 DEF FailRead, TypeOK, Stages
<1>11. CASE FailWrite(w)
  <2>1. held[w] # NULL /\ i \in Interviews
    BY <1>1, <1>11 DEF FailWrite
  <2> DEFINE r == [row[i] EXCEPT !.error = TRUE]
             n == IF FALHOU \in VALID_TRANSITIONS[mem[w].status]
                  THEN [r EXCEPT !.status = FALHOU] ELSE r
  <2>2. r \in Row
    BY <2>1, ColumnType DEF TypeOK
  <2>3. n \in Row
    BY <2>2, ColumnType, StatusesAre
  <2>4. row' = [row EXCEPT ![i] = n]
    BY <1>11 DEF FailWrite, Failed
  <2> HIDE DEF n
  <2>5. row' \in [Interviews -> Row]
    BY <2>1, <2>3, <2>4 DEF TypeOK
  <2>6. QED
    BY <1>11, <2>1, <2>5, JobEndType DEF FailWrite, TypeOK
<1>12. CASE WorkerFault(w)
  <2>1. CASE NotifyDropped(w)
    BY <1>1, <2>1, JobEndType, FaultType DEF NotifyDropped, At, TypeOK
  <2>2. CASE Raise(w)
    BY <1>8, <2>2, FaultType DEF Raise
  <2>3. CASE FailureLost(w)
    BY <1>1, <2>3, JobEndType, FaultType DEF FailureLost, TypeOK
  <2>4. CASE Crash(w)
    BY <2>4, JobEndType, FaultType, LockAfterType DEF Crash, TypeOK
  <2>5. QED
    BY <1>12, <2>1, <2>2, <2>3, <2>4 DEF WorkerFault
<1>13. QED
  BY <1>2, <1>3, <1>4, <1>5, <1>6, <1>7, <1>9, <1>10, <1>11, <1>12

LEMMA TypeInit == Init => TypeOK
<1>1. {MaxRetries, MaxTokens, MaxEnqueues, MaxFaults} \subseteq Nat
  BY PipelineAssumption
<1>2. Idle \in Handler
  BY DEF Handler
<1>3. <<>> \in Seq(Job)
  OBVIOUS
<1>4. QED
  BY <1>1, <1>2, <1>3, NoRowType DEF Init, TypeOK, Stages

-------------------------------------------------------------------------------
\* Rows only grow

\* What no step but a purge takes away from a row: its checkpoints, its
\* existence, and having left RECEBIDA.
Keeps(r, s) ==
    /\ r.transcription # NULL => s.transcription # NULL
    /\ r.diarization # NULL => s.diarization # NULL
    /\ r.scorecard # NULL => s.scorecard # NULL
    /\ Live(r.status) => Live(s.status)
    /\ Live(r.status) /\ r.status # RECEBIDA => s.status # RECEBIDA

\* The statuses are different values.
LEMMA StatusesDiffer ==
    /\ \A s \in {TRANSCREVENDO, DIARIZANDO, PONTUANDO, AGUARDANDO, FALHOU} \cup TERMINAL_STATUSES :
          Live(s) /\ s # RECEBIDA
    /\ ~Live(ABSENT) /\ ~Live(PURGED) /\ Live(RECEBIDA)
BY DEF Live, InterviewStatuses, TERMINAL_STATUSES, RECEBIDA, TRANSCREVENDO, DIARIZANDO,
       PONTUANDO, AGUARDANDO, APROVADA, REJEITADA, FALHOU, ABSENT, PURGED

\* A commit of one column keeps the row.
LEMMA ColumnKeeps ==
    ASSUME NEW r \in Row
    PROVE  /\ Keeps(r, r)
           /\ \A s \in {TRANSCREVENDO, DIARIZANDO, PONTUANDO, AGUARDANDO, FALHOU}
                        \cup TERMINAL_STATUSES : Keeps(r, [r EXCEPT !.status = s])
           /\ \A t \in Transcripts : Keeps(r, [r EXCEPT !.transcription = t])
           /\ \A d \in Diarizations : Keeps(r, [r EXCEPT !.diarization = d])
           /\ \A c \in Scorecards : Keeps(r, [r EXCEPT !.scorecard = c])
           /\ \A k : Keeps(r, [r EXCEPT !.token = k])
           /\ \A e : Keeps(r, [r EXCEPT !.error = e])
BY NullIsNoValue, StatusesDiffer DEF Keeps, Row

LEMMA KeepsTransitive ==
    ASSUME NEW q, NEW r, NEW s, Keeps(q, r), Keeps(r, s)
    PROVE  Keeps(q, s)
BY DEF Keeps

LEMMA KeepsBacks ==
    ASSUME NEW r, NEW s, Keeps(r, s), NEW x
    PROVE  /\ BackedBy(r, x) => BackedBy(s, x)
           /\ Behind(r, x) => Behind(s, x)
           /\ StoredBy(r, x) => StoredBy(s, x)
BY DEF Keeps, BackedBy, Behind, StoredBy

-------------------------------------------------------------------------------
\* The control flow stays behind the checkpoints

LEMMA ContinueBehind ==
    ASSUME NEW r, BackedBy(r, r.status), Live(r.status), r.status # RECEBIDA,
           NEW s \in PipelineStages \ {"notify"}, Behind(r, s), StoredBy(r, s)
    PROVE  Behind(r, Continue(s, r)) /\ Continue(s, r) \notin {"resume", "receive"}
<1>1. Step4(r) \in {"return", "score", "await"} /\ Behind(r, Step4(r))
  BY DEF Step4, BackedBy, Behind, Falsy, DIARIZANDO, PONTUANDO, AGUARDANDO, APROVADA, REJEITADA
<1>2. Step3(r) \in {"return", "score", "await", "diarize", "toScore"} /\ Behind(r, Step3(r))
  BY <1>1 DEF Step3, BackedBy, Behind, Falsy, DIARIZANDO, PONTUANDO, AGUARDANDO, APROVADA, REJEITADA
<1>3. /\ Step2(r) \notin {"resume", "receive"}
      /\ Behind(r, Step2(r))
  BY <1>2 DEF Step2, Behind, Falsy
<1>4. Step1(r) = Step2(r)
  BY DEF Step1
<1>5. s \in {"toDiarize", "diarize", "toScore", "score", "await", "resume", "receive", "transcribe"}
  BY DEF PipelineStages
<1>6. CASE s \in {"resume", "receive", "toDiarize", "toScore"}
  BY <1>1, <1>2, <1>3, <1>4, <1>6 DEF Continue
<1>7. CASE s \in {"transcribe", "diarize", "score", "await"}
  BY <1>7 DEF Continue, Behind, StoredBy
<1>8. QED
  BY <1>5, <1>6, <1>7

LEMMA EntryBehind ==
    ASSUME NEW r, BackedBy(r, r.status), Live(r.status), ~Settled(r.status)
    PROVE  /\ Behind(r, Entry(r))
           /\ Entry(r) # "receive" => r.status # RECEBIDA
<1>1. CASE r.status \in {FALHOU, RECEBIDA}
  BY <1>1, StatusesDiffer DEF Entry, Step1, Behind, RECEBIDA, FALHOU
<1>2. CASE r.status \in {TRANSCREVENDO, DIARIZANDO, PONTUANDO}
  BY <1>2 DEF Entry, Step1, Step2, Step3, Step4, Behind, BackedBy, Falsy, RECEBIDA, FALHOU,
     TRANSCREVENDO, DIARIZANDO, PONTUANDO, AGUARDANDO, APROVADA, REJEITADA
<1>3. QED
  BY <1>1, <1>2 DEF Live, InterviewStatuses, Settled, TERMINAL_STATUSES

LEMMA ResumeBacked ==
    ASSUME NEW r
    PROVE  BackedBy([r EXCEPT !.status = ResumeStatus(r)], ResumeStatus(r))
BY DEF ResumeStatus, BackedBy, Falsy, TRANSCREVENDO, DIARIZANDO, PONTUANDO, AGUARDANDO,
       APROVADA, REJEITADA

-------------------------------------------------------------------------------
\* What a commit of a worker does to its row

Commits(w) ==
    \/ Resume(w) \/ Receive(w) \/ Transcribe(w) \/ ToDiarize(w)
    \/ Diarize(w) \/ ToScore(w) \/ Score(w) \/ Await(w)

\* Only the row of its interview changes, no checkpoint is lost, the status it
\* ends with is backed, and the stage's own checkpoint is there.
LEMMA CommitEffect ==
    ASSUME PipelineInvariant, NEW w \in Workers, Commits(w)
    PROVE  LET i == held[w].iv IN
           /\ held[w] # NULL /\ i \in Interviews
           /\ stage[w] \in PipelineStages \ {"notify"} /\ ~reading[w]
           /\ \/ row' = row
              \/ MayWrite(w, i) /\ (\E n : row' = [row EXCEPT ![i] = n])
           /\ Keeps(row[i], row'[i])
           /\ row'[i].status # RECEBIDA
           /\ BackedBy(row'[i], row'[i].status)
           /\ StoredBy(row'[i], stage[w])
           /\ lock' = LockAfter(w)
           /\ reading' = [reading EXCEPT ![w] = TRUE]
           /\ UNCHANGED <<held, stage, mem, api>>
<1> DEFINE i == held[w].iv
           r == row[i]
           Goal(n) == /\ Keeps(r, n) /\ n.status # RECEBIDA
                      /\ BackedBy(n, n.status) /\ StoredBy(n, stage[w])
<1>1. stage[w] \in PipelineStages \ {"notify"} /\ ~reading[w] /\ held[w] # NULL
  BY DEF Commits, PipelineInvariant, JobHeld, Resume, Receive, Transcribe, ToDiarize,
         Diarize, ToScore, Score, Await, At, PipelineStages
<1>2. i \in Interviews /\ r \in Row
  BY <1>1 DEF PipelineInvariant, TypeOK, Job
<1>3. Live(r.status) /\ (stage[w] # "receive" => r.status # RECEBIDA)
  BY <1>1 DEF PipelineInvariant, RowInUse, PipelineStages
<1>4. BackedBy(r, r.status) /\ Behind(r, stage[w])
  BY <1>2 DEF PipelineInvariant, StatusBacked, WorkersBacked
<1>5. ASSUME NEW n, Save(w, n), Goal(n)
      PROVE  /\ MayWrite(w, i) /\ (\E x : row' = [row EXCEPT ![i] = x])
             /\ Goal(row'[i])
             /\ lock' = LockAfter(w)
             /\ reading' = [reading EXCEPT ![w] = TRUE]
             /\ UNCHANGED <<held, stage, mem, api>>
  <2>1. row' = [row EXCEPT ![i] = n] /\ MayWrite(w, i)
    BY <1>5 DEF Save
  <2>2. row'[i] = n
    BY <1>2, <2>1 DEF PipelineInvariant, TypeOK
  <2>3. QED
    BY <1>5, <2>1, <2>2 DEF Save
<1>6. \/ \E n : Save(w, n) /\ Goal(n)
      \/ SaveNothing(w) /\ stage[w] \in {"toDiarize", "toScore"}
  <2>1. CASE Resume(w)
    <3>1. mem[w] = r
      BY <1>1, <2>1 DEF Resume, At, PipelineInvariant, StartsUnderLock, LockedCopyIsCurrent, TypeOK, Job
    <3>2. Goal([r EXCEPT !.status = ResumeStatus(r)])
      BY <1>2, <2>1, ColumnKeeps, ResumeBacked, StatusesAre, StatusesDiffer
      DEF Resume, At, StoredBy, Row
    <3>3. QED
      BY <2>1, <3>1, <3>2 DEF Resume
  <2>2. CASE Receive(w)
    <3>1. Goal([r EXCEPT !.status = TRANSCREVENDO])
      BY <1>2, <2>2, ColumnKeeps DEF Receive, At, StoredBy, Row, BackedBy, RECEBIDA, TRANSCREVENDO,
         DIARIZANDO, PONTUANDO, AGUARDANDO, APROVADA, REJEITADA
    <3>2. QED
      BY <2>2, <3>1 DEF Receive
  <2>3. CASE Transcribe(w)
    <3>1. PICK t \in AsrResults : Save(w, [r EXCEPT !.transcription = t])
      BY <2>3 DEF Transcribe
    <3>2. t \in Transcripts /\ t # NULL
      BY <3>1, PipelineAssumption, NullIsNoValue
    <3> DEFINE n == [r EXCEPT !.transcription = t]
    <3>3. Keeps(r, n) /\ n.status = r.status /\ n.transcription # NULL
      BY <1>2, <3>2, ColumnKeeps DEF Row
    <3>4. Goal(n)
      BY <1>3, <1>4, <2>3, <3>3, KeepsBacks DEF StoredBy, Transcribe, At
    <3>5. QED
      BY <3>1, <3>4
  <2>4. ASSUME NEW to \in {DIARIZANDO, PONTUANDO}, MoveTo(w, to),
               stage[w] \in {"toDiarize", "toScore"},
               to = DIARIZANDO <=> stage[w] = "toDiarize"
        PROVE  \/ \E n : Save(w, n) /\ Goal(n)
               \/ SaveNothing(w) /\ stage[w] \in {"toDiarize", "toScore"}
    <3> DEFINE n == [r EXCEPT !.status = to]
    <3>1. Keeps(r, n) /\ n.status = to /\ n.status # RECEBIDA
      BY <1>2, ColumnKeeps, StatusesDiffer DEF Row
    <3>2. BackedBy(r, to)
      BY <1>4, <2>4 DEF Behind, BackedBy, DIARIZANDO, PONTUANDO, AGUARDANDO, APROVADA, REJEITADA
    <3>3. Goal(n)
      BY <2>4, <3>1, <3>2, KeepsBacks DEF StoredBy
    <3>4. QED
      BY <2>4, <3>3 DEF MoveTo
  <2>5. CASE ToDiarize(w)
    BY <2>4, <2>5 DEF ToDiarize, At, DIARIZANDO, PONTUANDO
  <2>6. CASE ToScore(w)
    BY <2>4, <2>6 DEF ToScore, At, DIARIZANDO, PONTUANDO
  <2>7. CASE Diarize(w)
    <3>1. PICK d \in DiarizeResults(mem[w].transcription) :
             Save(w, [r EXCEPT !.diarization = d])
      BY <2>7 DEF Diarize
    <3>2. mem[w].transcription \in Transcripts
      BY <1>1, <2>7 DEF Diarize, At, PipelineInvariant, WorkersBacked, Behind, TypeOK, Row
    <3>3. d \in Diarizations /\ d # NULL
      BY <3>2, DiarizeResultsType, NullIsNoValue
    <3> DEFINE n == [r EXCEPT !.diarization = d]
    <3>4. Keeps(r, n) /\ n.status = r.status /\ n.diarization # NULL
      BY <1>2, <3>3, ColumnKeeps DEF Row
    <3>5. Goal(n)
      BY <1>3, <1>4, <2>7, <3>4, KeepsBacks DEF StoredBy, Diarize, At
    <3>6. QED
      BY <3>1, <3>5
  <2>8. CASE Score(w)
    <3> DEFINE c == [transcription |-> mem[w].transcription, diarization |-> mem[w].diarization]
               n == [r EXCEPT !.scorecard = c]
    <3>1. c \in Scorecards
      BY <1>1, <2>8 DEF Score, At, PipelineInvariant, WorkersBacked, Behind, TypeOK, Row, Scorecards
    <3>2. c # NULL
      BY <3>1, NullIsNoValue
    <3>3. Keeps(r, n)
      BY <1>2, <3>1, ColumnKeeps
    <3>4. n.status = r.status /\ n.scorecard # NULL
      BY <1>2, <3>2 DEF Row
    <3>5. Goal(n)
      BY <1>3, <1>4, <2>8, <3>3, <3>4, KeepsBacks DEF StoredBy, Score, At
    <3>6. QED
      BY <2>8, <3>5 DEF Score
  <2>9. CASE Await(w)
    <3> DEFINE t == [r EXCEPT !.token = issued[i] + 1]
               s == IF mem[w].error THEN [t EXCEPT !.error = FALSE] ELSE t
               n == IF mem[w].status = AGUARDANDO THEN s ELSE [s EXCEPT !.status = AGUARDANDO]
    <3>1. issued[i] + 1 \in 0 .. MaxTokens
      BY <1>2, <2>9, PipelineAssumption DEF Await, PipelineInvariant, TypeOK
    <3>2. t \in Row /\ Keeps(r, t) /\ t.status = r.status
      <4>1. t \in Row
        BY <1>2, <3>1, ColumnType
      <4>2. Keeps(r, t)
        BY <1>2, ColumnKeeps
      <4>3. t.status = r.status
        BY <1>2 DEF Row
      <4>4. QED
        BY <4>1, <4>2, <4>3
    <3>3. s \in Row /\ Keeps(t, s) /\ s.status = t.status
      <4> HIDE DEF t
      <4>1. s \in Row
        BY <3>2, ColumnType
      <4>2. Keeps(t, s)
        BY <3>2, ColumnKeeps
      <4>3. s.status = t.status
        BY <3>2 DEF Row
      <4>4. QED
        BY <4>1, <4>2, <4>3
    <3>4. Keeps(s, n) /\ n.status \in {s.status, AGUARDANDO}
      <4> HIDE DEF s
      <4>1. Keeps(s, n)
        BY <3>3, ColumnKeeps
      <4>2. n.status \in {s.status, AGUARDANDO}
        BY <3>3 DEF Row
      <4>3. QED
        BY <4>1, <4>2
    <3>5. Keeps(r, n)
      BY <3>2, <3>3, <3>4, KeepsTransitive
    <3>6. n.status \in {r.status, AGUARDANDO}
      BY <3>2, <3>3, <3>4
    <3>7. n.status # RECEBIDA
      BY <1>3, <2>9, <3>6, StatusesDiffer DEF Await, At
    <3>8. BackedBy(r, AGUARDANDO)
      BY <1>4, <2>9 DEF Await, At, Behind, BackedBy
    <3>9. BackedBy(n, n.status)
      <4> HIDE DEF n
      <4>1. BackedBy(n, r.status) /\ BackedBy(n, AGUARDANDO)
        BY <1>4, <3>5, <3>8, KeepsBacks
      <4>2. QED
        BY <4>1, <3>6
    <3>10. StoredBy(n, stage[w])
      BY <2>9 DEF StoredBy, Await, At
    <3>11. Goal(n)
      <4> HIDE DEF n
      <4> QED
        BY <3>5, <3>7, <3>9, <3>10
    <3>12. Save(w, n)
      BY <2>9 DEF Await
    <3>13. QED
      BY <3>11, <3>12
  <2>10. QED
    BY <2>1, <2>2, <2>3, <2>5, <2>6, <2>7, <2>8, <2>9 DEF Commits
<1>7. CASE SaveNothing(w) /\ stage[w] \in {"toDiarize", "toScore"}
  BY <1>1, <1>2, <1>3, <1>4, <1>7, ColumnKeeps DEF SaveNothing, StoredBy
<1>8. QED
  BY <1>1, <1>2, <1>5, <1>6, <1>7

-------------------------------------------------------------------------------
\* The invariant, worker by worker and API process by API process

LockOK(w) ==
    /\ \A i \in Interviews :
          lock[i] = w => /\ held[w] # NULL /\ held[w].iv = i
                         /\ stage[w] \in PipelineStages \ {"notify"} /\ ~reading[w]
                         /\ mem[w] = row[i]
    /\ stage[w] \in {"resume", "receive"} /\ ~reading[w] => lock[held[w].iv] = w

RowOK(w) ==
    /\ stage[w] \notin {"idle", "select"} => Live(row[held[w].iv].status)
    /\ stage[w] \in PipelineStages \ {"receive"} \/ reading[w] =>
          row[held[w].iv].status # RECEBIDA
    /\ Behind(row[held[w].iv], stage[w])
    /\ reading[w] => StoredBy(row[held[w].iv], stage[w])

SessionOK(w) ==
    /\ stage[w] = "idle" <=> held[w] = NULL
    /\ reading[w] => stage[w] \in PipelineStages \ {"notify"}
    /\ ~reading[w] => Behind(mem[w], stage[w])

WorkerOK(w) == LockOK(w) /\ RowOK(w) /\ SessionOK(w)

ApiOK(p) ==
    /\ api[p] # Idle => Live(row[api[p].iv].status)
    /\ api[p].op = "decide" => BackedBy(row[api[p].iv], AGUARDANDO)

LEMMA InvariantByActor ==
    PipelineInvariant <=> /\ TypeOK /\ StatusBacked
                          /\ \A w \in Workers : WorkerOK(w)
                          /\ \A p \in Apis : ApiOK(p)
BY DEF PipelineInvariant, WorkerOK, LockOK, RowOK, SessionOK, ApiOK, JobHeld, RowInUse,
       WorkersBacked, LockedCopyIsCurrent, StartsUnderLock

\* A worker is fine after a step of somebody else that keeps its row and,
\* while it holds the lock, does not touch it.
LEMMA OtherWorkerOK ==
    ASSUME PipelineInvariant, NEW v \in Workers,
           held'[v] = held[v], stage'[v] = stage[v],
           reading'[v] = reading[v], mem'[v] = mem[v],
           stage[v] \notin {"idle", "select"} => Keeps(row[held[v].iv], row'[held[v].iv]),
           \A i \in Interviews : lock'[i] = v <=> lock[i] = v,
           \A i \in Interviews : lock[i] = v => row'[i] = row[i]
    PROVE  WorkerOK(v)'
<1>1. WorkerOK(v)
  BY InvariantByActor
<1>2. held[v] # NULL => held[v].iv \in Interviews
  BY DEF PipelineInvariant, TypeOK, Job
<1>3. LockOK(v)'
  BY <1>1, <1>2 DEF WorkerOK, LockOK, SessionOK
<1>4. RowOK(v)'
  <2>1. CASE stage[v] \in {"idle", "select"}
    BY <1>1, <2>1 DEF WorkerOK, SessionOK, RowOK, Behind, StoredBy, PipelineStages
  <2>2. CASE stage[v] \notin {"idle", "select"}
    <3> DEFINE r == row[held[v].iv]
               s == row'[held[v].iv]
    <3>1. Keeps(r, s)
      BY <2>2
    <3>2. /\ Behind(r, stage[v]) => Behind(s, stage[v])
          /\ StoredBy(r, stage[v]) => StoredBy(s, stage[v])
      BY <3>1, KeepsBacks
    <3>3. /\ Live(r.status) => Live(s.status)
          /\ Live(r.status) /\ r.status # RECEBIDA => s.status # RECEBIDA
      BY <3>1 DEF Keeps
    <3>4. RowOK(v) /\ (reading[v] => stage[v] \in PipelineStages)
      BY <1>1 DEF WorkerOK, SessionOK
    <3>5. /\ RowOK(v)' <=> /\ stage[v] \notin {"idle", "select"} => Live(s.status)
                           /\ stage[v] \in PipelineStages \ {"receive"} \/ reading[v] =>
                                 s.status # RECEBIDA
                           /\ Behind(s, stage[v])
                           /\ reading[v] => StoredBy(s, stage[v])
      BY DEF RowOK, Behind, StoredBy, Live
    <3>6. stage[v] \in PipelineStages => stage[v] \notin {"idle", "select"}
      BY DEF PipelineStages
    <3> HIDE DEF r, s
    <3>7. QED
      BY <3>2, <3>3, <3>4, <3>5, <3>6 DEF RowOK, r
  <2>3. QED
    BY <2>1, <2>2
<1>5. SessionOK(v)'
  BY <1>1 DEF WorkerOK, SessionOK, Behind
<1>6. QED
  BY <1>3, <1>4, <1>5 DEF WorkerOK

LEMMA SameApiOK ==
    ASSUME PipelineInvariant, NEW p \in Apis,
           api'[p] = Idle \/ api'[p] = api[p],
           api[p] # Idle => Keeps(row[api[p].iv], row'[api[p].iv])
    PROVE  ApiOK(p)'
<1>1. ApiOK(p)
  BY InvariantByActor
<1>2. CASE api'[p] = Idle
  BY <1>2 DEF ApiOK, Idle
<1>3. CASE api'[p] = api[p] /\ api[p] # Idle
  <2>1. /\ Live(row[api[p].iv].status) => Live(row'[api[p].iv].status)
        /\ BackedBy(row[api[p].iv], AGUARDANDO) => BackedBy(row'[api[p].iv], AGUARDANDO)
    BY <1>3, KeepsBacks DEF Keeps
  <2>2. QED
    BY <1>1, <1>3, <2>1 DEF ApiOK, Live, BackedBy
<1>4. QED
  BY <1>2, <1>3

-------------------------------------------------------------------------------
\* The steps of a worker

\* What a step of worker w leaves alone, and what it may do to the shared state.
StepOf(w) ==
    /\ \A v \in Workers \ {w} : /\ held'[v] = held[v] /\ stage'[v] = stage[v]
                                /\ reading'[v] = reading[v] /\ mem'[v] = mem[v]
    /\ api' = api
    /\ \A i \in Interviews : lock'[i] = lock[i] \/ {lock[i], lock'[i]} \subseteq {w, NULL}
    /\ \/ row' = row
       \/ LET i == held[w].iv IN
          /\ held[w] # NULL
          /\ MayWrite(w, i)
          /\ \E n : row' = [row EXCEPT ![i] = n]
          /\ Keeps(row[i], row'[i])
          /\ BackedBy(row'[i], row'[i].status)

LEMMA StepPreserves ==
    ASSUME PipelineInvariant, NEW w \in Workers, TypeOK', StepOf(w), WorkerOK(w)'
    PROVE  PipelineInvariant'
<1>1. \A i \in Interviews : row[i] \in Row
  BY DEF PipelineInvariant, TypeOK
<1>2. held[w] # NULL => held[w].iv \in Interviews
  BY DEF PipelineInvariant, TypeOK, Job
<1>3. \A i \in Interviews :
         /\ Keeps(row[i], row'[i])
         /\ BackedBy(row'[i], row'[i].status)
         /\ row'[i] # row[i] => lock[i] \in {NULL, w}
  BY <1>1, <1>2, ColumnKeeps DEF StepOf, MayWrite, PipelineInvariant, StatusBacked, TypeOK
<1>4. StatusBacked'
  BY <1>3 DEF StatusBacked, BackedBy
<1>5. ASSUME NEW v \in Workers, v # w
      PROVE  WorkerOK(v)'
  <2>1. v # NULL
    BY NullIsNoValue
  <2>2. /\ \A i \in Interviews : lock'[i] = v <=> lock[i] = v
        /\ \A i \in Interviews : lock[i] = v => row'[i] = row[i]
    BY <1>3, <1>5, <2>1 DEF StepOf
  <2>3. held[v] # NULL => held[v].iv \in Interviews
    BY DEF PipelineInvariant, TypeOK, Job
  <2>4. stage[v] \notin {"idle", "select"} => Keeps(row[held[v].iv], row'[held[v].iv])
    BY <1>3, <2>3 DEF PipelineInvariant, JobHeld
  <2>5. QED
    BY <1>5, <2>2, <2>4, OtherWorkerOK DEF StepOf
<1>6. ASSUME NEW p \in Apis
      PROVE  ApiOK(p)'
  <2>1. api[p] # Idle => api[p].iv \in Interviews
    BY DEF PipelineInvariant, TypeOK, Handler
  <2>2. QED
    BY <1>3, <2>1, SameApiOK DEF StepOf
<1>7. \A v \in Workers : WorkerOK(v)'
  BY <1>5
<1>8. QED
  BY <1>4, <1>6, <1>7 DEF PipelineInvariant, WorkerOK, LockOK, RowOK, SessionOK, ApiOK, JobHeld,
     RowInUse, WorkersBacked, LockedCopyIsCurrent, StartsUnderLock

LEMMA WorkerFacts ==
    ASSUME PipelineInvariant, NEW w \in Workers
    PROVE  /\ stage[w] # "idle" <=> held[w] # NULL
           /\ held[w] # NULL => held[w].iv \in Interviews /\ row[held[w].iv] \in Row
           /\ stage[w] \notin PipelineStages \ {"notify"} \/ reading[w] =>
                 \A i \in Interviews : lock[i] # w
           /\ w # NULL
BY NullIsNoValue DEF PipelineInvariant, JobHeld, TypeOK, Job, LockedCopyIsCurrent

LEMMA LockReleased ==
    ASSUME NEW w \in Workers, PipelineInvariant, lock' = LockAfter(w)
    PROVE  /\ \A i \in Interviews : lock'[i] # w
           /\ \A i \in Interviews : lock'[i] = lock[i] \/ {lock[i], lock'[i]} \subseteq {w, NULL}
BY NullIsNoValue DEF LockAfter

\* A worker whose job has ended.
LEMMA IdleOK ==
    ASSUME PipelineInvariant, NEW w \in Workers, WorkerIdle(w),
           \A i \in Interviews : lock'[i] # w
    PROVE  /\ WorkerOK(w)'
           /\ \A v \in Workers \ {w} : /\ held'[v] = held[v] /\ stage'[v] = stage[v]
                                       /\ reading'[v] = reading[v] /\ mem'[v] = mem[v]
<1>1. /\ held'[w] = NULL /\ stage'[w] = "idle" /\ ~reading'[w]
      /\ \A v \in Workers \ {w} : /\ held'[v] = held[v] /\ stage'[v] = stage[v]
                                  /\ reading'[v] = reading[v] /\ mem'[v] = mem[v]
  BY DEF WorkerIdle, PipelineInvariant, TypeOK
<1>2. WorkerOK(w)'
  BY <1>1 DEF WorkerOK, LockOK, RowOK, SessionOK, Behind, PipelineStages
<1>3. QED
  BY <1>1, <1>2

\* The steps that end a job without touching its row.
LEMMA EndStep ==
    ASSUME PipelineInvariant, NEW w \in Workers,
           \/ SelectNothingToDo(w) \/ SelectMissing(w) \/ Notify(w) \/ NotifyDropped(w)
           \/ FailureLost(w) \/ Crash(w)
           \/ Refresh(w) /\ Continue(stage[w], row[held[w].iv]) = "return"
    PROVE  StepOf(w) /\ WorkerOK(w)'
<1> USE DEF dbVars
<1>1. WorkerIdle(w) /\ row' = row /\ api' = api
  BY DEF SelectNothingToDo, SelectMissing, Notify, NotifyDropped, FailureLost, Crash,
         Refresh, JobDone, JobFailed
<1>2. \/ lock' = LockAfter(w)
      \/ lock' = lock /\ (\/ stage[w] \notin PipelineStages \ {"notify"}
                         \/ reading[w])
  BY DEF SelectNothingToDo, SelectMissing, Notify, NotifyDropped, FailureLost, Crash,
         Refresh, At, PipelineStages
<1>3. \A i \in Interviews : /\ lock'[i] # w
                            /\ lock'[i] = lock[i] \/ {lock[i], lock'[i]} \subseteq {w, NULL}
  BY <1>2, WorkerFacts, LockReleased
<1>4. QED
  BY <1>1, <1>3, IdleOK DEF StepOf

\* The steps that take a job and its row.
LEMMA TakeStep ==
    ASSUME PipelineInvariant, NEW w \in Workers, Dequeue(w) \/ SelectForUpdate(w)
    PROVE  StepOf(w) /\ WorkerOK(w)'
<1> USE DEF dbVars, rqVars
<1>1. CASE Dequeue(w)
  <2>1. /\ held'[w] \in Job /\ stage'[w] = "select" /\ reading'[w] = reading[w] /\ ~reading[w]
        /\ lock' = lock /\ row' = row /\ api' = api /\ mem' = mem
    <3>1. Head(queue) \in Job
      BY <1>1 DEF Dequeue, PipelineInvariant, TypeOK
    <3>2. stage[w] = "idle" /\ ~reading[w]
      BY <1>1 DEF Dequeue, PipelineInvariant, JobHeld, PipelineStages
    <3>3. QED
      BY <1>1, <3>1, <3>2 DEF Dequeue, PipelineInvariant, TypeOK
  <2>2. held'[w] # NULL
    BY <2>1, PipelineAssumption
  <2>3. \A v \in Workers \ {w} : /\ held'[v] = held[v] /\ stage'[v] = stage[v]
                                 /\ reading'[v] = reading[v] /\ mem'[v] = mem[v]
    BY <1>1 DEF Dequeue, PipelineInvariant, TypeOK
  <2>4. \A i \in Interviews : lock[i] # w
    BY <1>1, WorkerFacts DEF Dequeue, PipelineStages
  <2>5. WorkerOK(w)'
    BY <2>1, <2>2, <2>4 DEF WorkerOK, LockOK, RowOK, SessionOK, Behind, PipelineStages
  <2>6. QED
    BY <2>1, <2>3, <2>5 DEF StepOf
<1>2. CASE SelectForUpdate(w)
  <2> DEFINE i == held[w].iv
             r == row[i]
             e == Entry(r)
  <2>1. held[w] # NULL /\ i \in Interviews /\ r \in Row
    BY <1>2, WorkerFacts DEF SelectForUpdate
  <2>2. /\ held' = held /\ stage'[w] = e /\ reading' = reading /\ mem'[w] = r
        /\ lock' = [lock EXCEPT ![i] = w] /\ lock[i] = NULL
        /\ row' = row /\ api' = api
        /\ \A v \in Workers \ {w} : stage'[v] = stage[v] /\ mem'[v] = mem[v]
    BY <1>2 DEF SelectForUpdate, LockFor, PipelineInvariant, TypeOK
  <2>3. ~reading[w] /\ (\A k \in Interviews : lock[k] # w)
    BY <1>2, WorkerFacts DEF SelectForUpdate, PipelineStages, PipelineInvariant, JobHeld
  <2>4. Live(r.status) /\ BackedBy(r, r.status) /\ ~Settled(r.status)
    BY <1>2, <2>1 DEF SelectForUpdate, PipelineInvariant, StatusBacked
  <2>5. /\ e \in PipelineStages \ {"notify"}
        /\ Behind(r, e)
        /\ e # "receive" => r.status # RECEBIDA
    BY <2>4, EntryType, EntryBehind
  <2>6. \A k \in Interviews : /\ lock'[k] = w <=> k = i
                              /\ k # i => lock'[k] = lock[k]
    BY <2>1, <2>2, <2>3 DEF PipelineInvariant, TypeOK
  <2>7. LockOK(w)'
    BY <2>1, <2>2, <2>3, <2>5, <2>6 DEF LockOK
  <2>8. RowOK(w)'
    BY <2>2, <2>3, <2>4, <2>5 DEF RowOK, Behind, Live
  <2>9. SessionOK(w)'
    BY <2>1, <2>2, <2>3, <2>5 DEF SessionOK, Behind, PipelineStages
  <2>10. StepOf(w)
    BY <2>1, <2>2, <2>6 DEF StepOf
  <2>11. QED
    BY <2>7, <2>8, <2>9, <2>10 DEF WorkerOK
<1>3. QED
  BY <1>1, <1>2

\* The commits of the pipeline.
LEMMA CommitStep ==
    ASSUME PipelineInvariant, NEW w \in Workers, Commits(w)
    PROVE  StepOf(w) /\ WorkerOK(w)'
<1> DEFINE i == held[w].iv
<1>1. /\ held[w] # NULL /\ i \in Interviews
      /\ stage[w] \in PipelineStages \ {"notify"} /\ ~reading[w]
      /\ \/ row' = row
         \/ MayWrite(w, i) /\ (\E n : row' = [row EXCEPT ![i] = n])
      /\ Keeps(row[i], row'[i])
      /\ row'[i].status # RECEBIDA
      /\ BackedBy(row'[i], row'[i].status)
      /\ StoredBy(row'[i], stage[w])
      /\ lock' = LockAfter(w)
      /\ reading' = [reading EXCEPT ![w] = TRUE]
      /\ held' = held /\ stage' = stage /\ mem' = mem /\ api' = api
  BY CommitEffect
<1>2. reading'[w] /\ (\A v \in Workers \ {w} : reading'[v] = reading[v])
  BY <1>1 DEF PipelineInvariant, TypeOK
<1>3. /\ \A k \in Interviews : lock'[k] # w
      /\ \A k \in Interviews : lock'[k] = lock[k] \/ {lock[k], lock'[k]} \subseteq {w, NULL}
  BY <1>1, LockReleased
<1>4. StepOf(w)
  BY <1>1, <1>2, <1>3 DEF StepOf
<1>5. Live(row[i].status) /\ Behind(row[i], stage[w])
  BY <1>1 DEF PipelineInvariant, RowInUse, WorkersBacked, PipelineStages
<1>6. Live(row'[i].status) /\ Behind(row'[i], stage[w])
  BY <1>1, <1>5, KeepsBacks DEF Keeps
<1>7. LockOK(w)'
  BY <1>1, <1>2, <1>3 DEF LockOK
<1>8. RowOK(w)'
  BY <1>1, <1>2, <1>6 DEF RowOK, Behind, StoredBy, Live
<1>9. SessionOK(w)'
  BY <1>1, <1>2, WorkerFacts DEF SessionOK, PipelineStages
<1>10. QED
  BY <1>4, <1>7, <1>8, <1>9 DEF WorkerOK

\* The refresh that goes on to another transaction.
LEMMA RefreshStep ==
    ASSUME PipelineInvariant, NEW w \in Workers, Refresh(w),
           Continue(stage[w], row[held[w].iv]) # "return"
    PROVE  StepOf(w) /\ WorkerOK(w)'
<1> DEFINE i == held[w].iv
           r == row[i]
           n == Continue(stage[w], r)
<1>1. reading[w] /\ stage[w] \in PipelineStages \ {"notify"}
  BY DEF Refresh, PipelineInvariant, JobHeld
<1>2. held[w] # NULL /\ i \in Interviews
  BY <1>1, WorkerFacts DEF PipelineStages
<1>3. /\ stage'[w] = n /\ mem'[w] = r /\ ~reading'[w]
      /\ \A v \in Workers \ {w} : /\ stage'[v] = stage[v]
                                  /\ reading'[v] = reading[v] /\ mem'[v] = mem[v]
      /\ held' = held /\ row' = row /\ lock' = lock /\ api' = api
  BY DEF Refresh, PipelineInvariant, TypeOK, dbVars
<1>4. /\ Live(r.status) /\ r.status # RECEBIDA
      /\ BackedBy(r, r.status) /\ Behind(r, stage[w]) /\ StoredBy(r, stage[w])
  BY <1>1, <1>2 DEF PipelineInvariant, RowInUse, WorkersBacked, StatusBacked, PipelineStages
<1>5. Behind(r, n) /\ n \notin {"resume", "receive"} /\ n \in PipelineStages
  BY <1>1, <1>4, ContinueBehind, ContinueType
<1>6. \A k \in Interviews : lock[k] # w
  BY <1>1, WorkerFacts
<1>7. LockOK(w)'
  BY <1>3, <1>5, <1>6 DEF LockOK
<1>8. RowOK(w)'
  BY <1>3, <1>4, <1>5 DEF RowOK, Behind, Live
<1>9. SessionOK(w)'
  BY <1>2, <1>3, <1>5 DEF SessionOK, Behind, PipelineStages
<1>10. StepOf(w)
  BY <1>3 DEF StepOf
<1>11. QED
  BY <1>7, <1>8, <1>9, <1>10 DEF WorkerOK

\* An exception, and reading the row to record it.
LEMMA RaiseStep ==
    ASSUME PipelineInvariant, NEW w \in Workers, Raise(w) \/ RaiseAlways(w) \/ FailRead(w)
    PROVE  StepOf(w) /\ WorkerOK(w)'
<1> USE DEF dbVars
<1> DEFINE i == held[w].iv
<1>1. /\ stage[w] \in PipelineStages \cup {"failRead"} /\ stage[w] \notin {"idle", "select"}
      /\ held[w] # NULL
  BY WorkerFacts DEF Raise, RaiseAlways, FailRead, PipelineStages
<1>2. Live(row[i].status)
  BY <1>1 DEF PipelineInvariant, RowInUse
<1>3. /\ stage'[w] \in {"failRead", "failWrite"}
      /\ \A v \in Workers \ {w} : stage'[v] = stage[v] /\ mem'[v] = mem[v]
      /\ held' = held /\ row' = row /\ api' = api
  BY DEF Raise, RaiseAlways, FailRead, Rollback, PipelineInvariant, TypeOK
<1>4. ~reading'[w] /\ (\A v \in Workers \ {w} : reading'[v] = reading[v])
  BY DEF Raise, RaiseAlways, FailRead, Rollback, PipelineInvariant, TypeOK, JobHeld, PipelineStages
<1>5. \/ lock' = LockAfter(w)
      \/ lock' = lock /\ stage[w] \notin PipelineStages \ {"notify"}
  BY DEF Raise, RaiseAlways, FailRead, Rollback, PipelineStages
<1>6. \A k \in Interviews : /\ lock'[k] # w
                            /\ lock'[k] = lock[k] \/ {lock[k], lock'[k]} \subseteq {w, NULL}
  BY <1>5, WorkerFacts, LockReleased
<1>7. WorkerOK(w)'
  BY <1>1, <1>2, <1>3, <1>4, <1>6 DEF WorkerOK, LockOK, RowOK, SessionOK, Behind, Live, PipelineStages
<1>8. StepOf(w)
  BY <1>3, <1>4, <1>6 DEF StepOf
<1>9. QED
  BY <1>7, <1>8

\* Recording a failure.
LEMMA RecordStep ==
    ASSUME PipelineInvariant, NEW w \in Workers, FailWrite(w)
    PROVE  StepOf(w) /\ WorkerOK(w)'
<1> DEFINE i == held[w].iv
           r == row[i]
           e == [r EXCEPT !.error = TRUE]
           n == IF FALHOU \in VALID_TRANSITIONS[mem[w].status]
                THEN [e EXCEPT !.status = FALHOU] ELSE e
<1>1. held[w] # NULL /\ i \in Interviews /\ r \in Row
  BY WorkerFacts DEF FailWrite
<1>2. /\ MayWrite(w, i) /\ row' = [row EXCEPT ![i] = n]
      /\ lock' = lock /\ api' = api /\ WorkerIdle(w)
  BY DEF FailWrite, JobFailed, Failed
<1>3. row'[i] = n
  BY <1>1, <1>2 DEF PipelineInvariant, TypeOK
<1>4. e \in Row /\ Keeps(r, e) /\ e.status = r.status
  BY <1>1, ColumnType, ColumnKeeps DEF Row
<1>5. Keeps(e, n) /\ n.status \in {r.status, FALHOU}
  BY <1>4, ColumnKeeps DEF Row
<1>6. Keeps(r, n)
  BY <1>4, <1>5, KeepsTransitive
<1>7. BackedBy(n, n.status)
  <2>1. BackedBy(r, r.status)
    BY <1>1 DEF PipelineInvariant, StatusBacked
  <2>2. BackedBy(n, r.status) /\ BackedBy(n, FALHOU)
    BY <1>6, <2>1, KeepsBacks DEF BackedBy, FALHOU, DIARIZANDO, PONTUANDO, AGUARDANDO, APROVADA, REJEITADA
  <2>3. QED
    BY <1>5, <2>2
<1>8. \A k \in Interviews : lock'[k] # w
  BY <1>2, WorkerFacts DEF FailWrite, PipelineStages
<1>9. QED
  BY <1>1, <1>2, <1>3, <1>6, <1>7, <1>8, IdleOK DEF StepOf

LEMMA WorkerPreserves ==
    ASSUME PipelineInvariant, NEW w \in Workers, WorkerStep(w) \/ WorkerFault(w)
    PROVE  PipelineInvariant'
<1>1. TypeOK'
  BY CommitType, WorkerType DEF PipelineInvariant, WorkerStep
<1>2. StepOf(w) /\ WorkerOK(w)'
  BY EndStep, TakeStep, CommitStep, RefreshStep, RaiseStep, RecordStep
  DEF WorkerStep, WorkerFault, Commits
<1>3. QED
  BY <1>1, <1>2, StepPreserves

-------------------------------------------------------------------------------
\* The steps of everybody else

\* At most the row of interview i changes, and it is not locked; whoever is at
\* work on it finds what it had.
LEMMA OutsidePreserves ==
    ASSUME PipelineInvariant, TypeOK', NEW i \in Interviews,
           held' = held, stage' = stage, reading' = reading, mem' = mem, lock' = lock,
           \A k \in Interviews \ {i} : row'[k] = row[k],
           \/ row'[i] = row[i]
           \/ /\ BackedBy(row'[i], row'[i].status)
              /\ \A w \in Workers : lock[i] # w
              /\ \A w \in Workers :
                    stage[w] \notin {"idle", "select"} /\ held[w].iv = i =>
                        Keeps(row[i], row'[i])
              /\ \A p \in Apis : api[p] # Idle /\ api[p].iv = i => Keeps(row[i], row'[i]),
           \A p \in Apis : api'[p] \in {Idle, api[p]} \/ ApiOK(p)'
    PROVE  PipelineInvariant'
<1>1. \A k \in Interviews : row[k] \in Row /\ Keeps(row[k], row[k])
  BY ColumnKeeps DEF PipelineInvariant, TypeOK
<1>2. StatusBacked'
  BY DEF PipelineInvariant, StatusBacked, BackedBy
<1>3. ASSUME NEW w \in Workers
      PROVE  WorkerOK(w)'
  <2>1. stage[w] \notin {"idle", "select"} => held[w].iv \in Interviews
    BY WorkerFacts
  <2>2. stage[w] \notin {"idle", "select"} => Keeps(row[held[w].iv], row'[held[w].iv])
    BY <1>1, <2>1
  <2>3. \A k \in Interviews : lock[k] = w => row'[k] = row[k]
    OBVIOUS
  <2>4. QED
    BY <2>2, <2>3, OtherWorkerOK
<1>4. ASSUME NEW p \in Apis
      PROVE  ApiOK(p)'
  <2>1. api[p] # Idle => api[p].iv \in Interviews
    BY DEF PipelineInvariant, TypeOK, Handler
  <2>2. api[p] # Idle => Keeps(row[api[p].iv], row'[api[p].iv])
    BY <1>1, <2>1
  <2>3. QED
    BY <2>2, SameApiOK
<1>5. QED
  BY <1>2, <1>3, <1>4 DEF PipelineInvariant, WorkerOK, LockOK, RowOK, SessionOK, ApiOK, JobHeld,
     RowInUse, WorkersBacked, LockedCopyIsCurrent, StartsUnderLock

LEMMA AbsentUnlocked ==
    ASSUME PipelineInvariant, NEW i \in Interviews, ~Live(row[i].status)
    PROVE  /\ \A w \in Workers : lock[i] # w
           /\ \A w \in Workers : stage[w] \notin {"idle", "select"} => held[w].iv # i
           /\ \A p \in Apis : api[p] # Idle => api[p].iv # i
<1>1. \A w \in Workers : stage[w] \notin {"idle", "select"} => held[w].iv # i
  BY DEF PipelineInvariant, RowInUse
<1>2. \A w \in Workers : lock[i] # w
  BY <1>1 DEF PipelineInvariant, LockedCopyIsCurrent, PipelineStages
<1>3. QED
  BY <1>1, <1>2 DEF PipelineInvariant, RowInUse

LEMMA ApiPreserves ==
    ASSUME PipelineInvariant, NEW p \in Apis, ApiStep(p)
    PROVE  PipelineInvariant'
<1> USE DEF dbVars, rqVars, workerVars
<1>1. TypeOK'
  BY ApiType DEF PipelineInvariant
<1>2. ASSUME NEW i \in Interviews, WebhookInsert(p, i)
      PROVE  PipelineInvariant'
  <2>1. ~Live(row[i].status)
    BY <1>2, StatusesDiffer DEF WebhookInsert
  <2>2. /\ row'[i] = NewRow /\ (\A k \in Interviews \ {i} : row'[k] = row[k])
        /\ api'[p].iv = i /\ api'[p].op = "enqueue"
        /\ \A q \in Apis \ {p} : api'[q] = api[q]
        /\ held' = held /\ stage' = stage /\ reading' = reading /\ mem' = mem /\ lock' = lock
    BY <1>2 DEF WebhookInsert, PipelineInvariant, TypeOK
  <2>3. NewRow.status = RECEBIDA
    BY DEF NewRow, NoRow
  <2>4. ApiOK(p)'
    BY <2>2, <2>3, StatusesDiffer DEF ApiOK, Live
  <2>5. BackedBy(NewRow, RECEBIDA)
    BY DEF BackedBy, RECEBIDA, DIARIZANDO, PONTUANDO, AGUARDANDO, APROVADA, REJEITADA
  <2>6. QED
    BY <1>1, <2>1, <2>2, <2>3, <2>4, <2>5, AbsentUnlocked, OutsidePreserves
<1>3. ASSUME NEW i \in Interviews, NEW to \in TERMINAL_STATUSES, ReadForAction(p, i, to)
      PROVE  PipelineInvariant'
  <2>1. /\ row' = row /\ api'[p].iv = i /\ row[i].status = AGUARDANDO
        /\ \A q \in Apis \ {p} : api'[q] = api[q]
        /\ held' = held /\ stage' = stage /\ reading' = reading /\ mem' = mem /\ lock' = lock
    BY <1>3 DEF ReadForAction, PipelineInvariant, TypeOK
  <2>2. BackedBy(row[i], AGUARDANDO)
    BY <2>1 DEF PipelineInvariant, StatusBacked
  <2>3. ApiOK(p)'
    BY <2>1, <2>2, StatusesDiffer DEF ApiOK, Live, BackedBy
  <2>4. QED
    BY <1>1, <2>1, <2>3, OutsidePreserves
<1>4. CASE CommitDecision(p)
  <2> DEFINE i == api[p].iv
             n == [row[i] EXCEPT !.status = api[p].to, !.token = 0]
             m == [row[i] EXCEPT !.status = api[p].to]
  <2>1. i \in Interviews /\ api[p].to \in TERMINAL_STATUSES
    BY <1>4 DEF CommitDecision, PipelineInvariant, TypeOK, Handler, Idle
  <2>2. /\ row'[i] = n /\ (\A k \in Interviews \ {i} : row'[k] = row[k])
        /\ \A q \in Apis : api'[q] \in {Idle, api[q]}
        /\ held' = held /\ stage' = stage /\ reading' = reading /\ mem' = mem
        /\ lock' = lock /\ lock[i] = NULL
    BY <1>4, <2>1 DEF CommitDecision, Decided, PipelineInvariant, TypeOK
  <2>3. row[i] \in Row
    BY <2>1 DEF PipelineInvariant, TypeOK
  <2>4. m \in Row /\ Keeps(row[i], m)
    BY <2>1, <2>3, ColumnType, ColumnKeeps DEF TERMINAL_STATUSES, InterviewStatuses
  <2>5. n = [m EXCEPT !.token = 0] /\ n.status = api[p].to
    BY <2>3 DEF Row
  <2>6. Keeps(row[i], n)
    BY <2>4, <2>5, ColumnKeeps, KeepsTransitive
  <2>7. BackedBy(row[i], AGUARDANDO)
    BY <1>4 DEF CommitDecision, PipelineInvariant, WorkersBacked
  <2>8. BackedBy(n, api[p].to)
    BY <2>1, <2>6, <2>7, KeepsBacks DEF BackedBy, TERMINAL_STATUSES
  <2>9. \A w \in Workers : lock[i] # w
    BY <2>2, NullIsNoValue
  <2>10. BackedBy(row'[i], row'[i].status) /\ Keeps(row[i], row'[i])
    BY <2>2, <2>5, <2>6, <2>8
  <2> HIDE DEF i, n, m
  <2>11. QED
    BY <1>1, <2>1, <2>2, <2>9, <2>10, OutsidePreserves
<1>5. ASSUME row' = row, \A q \in Apis : api'[q] \in {Idle, api[q]},
             UNCHANGED <<held, stage, reading, mem, lock>>
      PROVE  PipelineInvariant'
  <2>1. CASE Interviews # {}
    BY <1>1, <1>5, <2>1, OutsidePreserves
  <2>2. CASE Interviews = {}
    <3>1. \A w \in Workers : held[w] = NULL /\ stage[w] = "idle" /\ ~reading[w]
      BY <2>2, WorkerFacts DEF PipelineInvariant, JobHeld, PipelineStages
    <3>2. \A q \in Apis : api[q] = Idle
      BY <2>2 DEF PipelineInvariant, TypeOK, Handler
    <3>3. QED
      BY <1>1, <1>5, <2>2, <3>1, <3>2 DEF PipelineInvariant, StatusBacked, JobHeld, RowInUse,
         WorkersBacked, LockedCopyIsCurrent, StartsUnderLock, Behind, StoredBy, PipelineStages, Idle
  <2>3. QED
    BY <2>1, <2>2
<1>6. CASE WebhookEnqueue(p) \/ HandlerFails(p) \/ (\E i \in Interviews : Reprocess(p, i))
  BY <1>5, <1>6 DEF WebhookEnqueue, HandlerFails, Reprocess, PipelineInvariant, TypeOK
<1>7. QED
  BY <1>2, <1>3, <1>4, <1>6 DEF ApiStep, ReadForDecisionLink

LEMMA RoutinePreserves ==
    ASSUME PipelineInvariant, NEW i \in Interviews,
           \/ Reconcile(i)
           \/ Purge(i)
           \/ \E l \in 0 .. MaxRetries : ScheduledFires(i, l)
    PROVE  PipelineInvariant'
<1> USE DEF dbVars, rqVars, workerVars
<1>1. TypeOK'
  BY RoutineType DEF PipelineInvariant
<1>2. CASE Purge(i)
  <2> DEFINE n == [NoRow EXCEPT !.status = PURGED]
  <2>1. /\ row'[i] = n /\ (\A k \in Interviews \ {i} : row'[k] = row[k])
        /\ api' = api
        /\ held' = held /\ stage' = stage /\ reading' = reading /\ mem' = mem /\ lock' = lock
    BY <1>2 DEF Purge, PipelineInvariant, TypeOK
  <2>2. n.status = PURGED
    BY DEF NoRow
  <2>3. BackedBy(n, n.status)
    BY <2>2 DEF BackedBy, PURGED, DIARIZANDO, PONTUANDO, AGUARDANDO, APROVADA, REJEITADA
  <2>4. /\ \A w \in Workers : lock[i] # w
        /\ \A w \in Workers : stage[w] \notin {"idle", "select"} => held[w].iv # i
        /\ \A p \in Apis : api[p].iv # i
    BY <1>2 DEF Purge, PipelineInvariant, LockedCopyIsCurrent, JobHeld
  <2> HIDE DEF n
  <2>5. QED
    BY <1>1, <2>1, <2>3, <2>4, OutsidePreserves
<1>3. CASE Reconcile(i) \/ (\E l \in 0 .. MaxRetries : ScheduledFires(i, l))
  BY <1>1, <1>3, OutsidePreserves DEF Reconcile, ScheduledFires
<1>4. QED
  BY <1>2, <1>3

-------------------------------------------------------------------------------
\* The invariant and the properties

LEMMA InitInvariant == Init => PipelineInvariant
<1> SUFFICES ASSUME Init PROVE PipelineInvariant
  OBVIOUS
<1>1. TypeOK
  BY TypeInit
<1>2. StatusBacked
  BY DEF Init, StatusBacked, BackedBy, NoRow, ABSENT, DIARIZANDO, PONTUANDO, AGUARDANDO, APROVADA, REJEITADA
<1>3. ASSUME NEW w \in Workers
      PROVE  WorkerOK(w)
  <2>1. /\ held[w] = NULL /\ stage[w] = "idle" /\ ~reading[w]
        /\ \A i \in Interviews : lock[i] # w
    BY NullIsNoValue DEF Init
  <2>2. QED
    BY <2>1 DEF WorkerOK, LockOK, RowOK, SessionOK, Behind, PipelineStages
<1>4. ASSUME NEW p \in Apis
      PROVE  ApiOK(p)
  BY DEF Init, ApiOK, Idle
<1>5. QED
  BY <1>1, <1>2, <1>3, <1>4, InvariantByActor

LEMMA NextPreserves == PipelineInvariant /\ [Next]_vars => PipelineInvariant'
<1> SUFFICES ASSUME PipelineInvariant, [Next]_vars
             PROVE  PipelineInvariant'
  OBVIOUS
<1>1. CASE Next
  BY <1>1, WorkerPreserves, ApiPreserves, RoutinePreserves DEF Next
<1>2. CASE UNCHANGED vars
  BY <1>2 DEF vars, PipelineInvariant, TypeOK, JobHeld, RowInUse, WorkersBacked, StatusBacked,
     LockedCopyIsCurrent, StartsUnderLock, BackedBy, Behind, StoredBy
<1>3. QED
  BY <1>1, <1>2

\* The pipeline never leaves PipelineInvariant, whatever the number of workers
\* and API processes and however they interleave and fail.
THEOREM InvariantHolds == Spec => []PipelineInvariant
<1>1. Init => PipelineInvariant
  BY InitInvariant
<1>2. PipelineInvariant /\ [Next]_vars => PipelineInvariant'
  BY NextPreserves
<1>3. QED
  BY <1>1, <1>2, PTL DEF Spec

\* Rows, queue, sessions and handlers only ever hold values the code gives them.
THEOREM TypeCorrect == Spec => []TypeOK
<1>1. PipelineInvariant => TypeOK
  BY DEF PipelineInvariant
<1>2. QED
  BY <1>1, InvariantHolds, PTL

\* A status is never ahead of the stored checkpoints, even when duplicate jobs
\* interleave their commits (app/tasks.py).
THEOREM StatusIsBacked == Spec => []StatusBacked
<1>1. PipelineInvariant => StatusBacked
  BY DEF PipelineInvariant
<1>2. QED
  BY <1>1, InvariantHolds, PTL

\* Until its first commit, what a worker read under SELECT ... FOR UPDATE stays
\* what the row holds (app/tasks.py:59-68).
THEOREM LockProtectsRead == Spec => []LockedCopyIsCurrent
<1>1. PipelineInvariant => LockedCopyIsCurrent
  BY DEF PipelineInvariant
<1>2. QED
  BY <1>1, InvariantHolds, PTL

\* Two workers never both start or resume the same interview (app/tasks.py:104-115).
THEOREM StartIsExclusive == Spec => []StartsUnderLock
<1>1. PipelineInvariant => StartsUnderLock
  BY DEF PipelineInvariant
<1>2. QED
  BY <1>1, InvariantHolds, PTL
==============================================================================
