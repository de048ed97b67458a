---------------------------- MODULE OneWorkerProofs ----------------------------
(***************************************************************************)
(* The deployment docker-compose.yml starts: one worker.  Its session is   *)
(* never behind the row, so what fails with several workers holds, for any *)
(* number of interviews, faults, retries and duplicate jobs.  With one API *)
(* process too, the pipeline implements Lifecycle.                         *)
(***************************************************************************)
EXTENDS PipelineProofs

OneWorker  == \A v, w \in Workers : v = w
OneApi     == \A p, q \in Apis : p = q

\* Speaker turns are never computed for a transcript that came back empty: the
\* provider returns none, or the worker has no pyannote to compute them with.
NoEmptyDialogue == Empty \notin AsrResults \/ ~Pyannote

-------------------------------------------------------------------------------
(* The inductive invariant. *)

Committing == PipelineStages \ {"notify"}

\* The status of the row before the commit of a stage, and what is missing in it.
BeforeCommit(s, r) ==
    /\ s = "resume" => r.status = FALHOU
    /\ s = "receive" => r.status = RECEBIDA
    /\ s \in {"transcribe", "toDiarize"} => r.status = TRANSCREVENDO
    /\ s \in {"diarize", "toScore"} => r.status = DIARIZANDO
    /\ s \in {"score", "await"} => r.status = PONTUANDO
    /\ s = "transcribe" => Falsy(r.transcription)
    /\ s = "diarize" => Falsy(r.diarization)
    /\ s = "score" => Falsy(r.scorecard)

\* The status of the row after it.
AfterCommit(s, r) ==
    /\ s = "resume" => r.status \in {TRANSCREVENDO, DIARIZANDO, PONTUANDO}
    /\ s \in {"receive", "transcribe"} => r.status = TRANSCREVENDO
    /\ s \in {"toDiarize", "diarize"} => r.status = DIARIZANDO
    /\ s \in {"toScore", "score"} => r.status = PONTUANDO
    /\ s = "await" => Settled(r.status)

\* The session is the row wherever the worker decides on it, but for a decision
\* taken while a failure is recorded.
WorkerSound(w) ==
    LET r == row[held[w].iv]
        s == stage[w]
    IN  /\ s \in Committing /\ ~reading[w] => mem[w] = r /\ BeforeCommit(s, r)
        /\ s \in Committing /\ reading[w] => AfterCommit(s, r)
        /\ s = "notify" => Settled(r.status)
        /\ s = "failWrite" => \/ mem[w].status = r.status
                              \/ Settled(mem[w].status) /\ Settled(r.status)

\* A dialogue is of the transcript beside it and a scorecard of both.
Matched(r) ==
    /\ r.transcription \in AsrResults \cup {NULL}
    /\ r.diarization # NULL => /\ r.transcription \in Texts
                              /\ r.diarization = r.transcription
                              /\ r.diarization \in DiarizeResults(r.transcription)
    /\ r.scorecard # NULL => /\ r.diarization # NULL
                            /\ r.scorecard = [transcription |-> r.transcription,
                                              diarization |-> r.diarization]

\* A token lives as long as the decision is open, its links are no older, and a
\* failure has its reason.
RowSound(i) ==
    /\ row[i].token # 0 => row[i].status = AGUARDANDO
    /\ row[i].status = FALHOU => row[i].error
    /\ links[i] # {} => Settled(row[i].status) \/ row[i].status = PURGED
    /\ row[i].status = AGUARDANDO => links[i] \subseteq {row[i].token}
    /\ NoEmptyDialogue => Matched(row[i])

\* A decision under way is about an interview that was open, and that nobody else
\* decides meanwhile when there is one API process.
ApiSound(p) ==
    api[p].op = "decide" => /\ Settled(row[api[p].iv].status)
                            /\ OneApi => row[api[p].iv].status = AGUARDANDO

SoloInvariant ==
    /\ \A i \in Interviews : RowSound(i)
    /\ \A w \in Workers : WorkerSound(w)
    /\ \A p \in Apis : ApiSound(p)

-------------------------------------------------------------------------------
(* Facts the steps share. *)

\* The statuses of the pipeline are open, and differ from each other.
LEMMA OpenStatuses ==
  /\ \A s \in {RECEBIDA, TRANSCREVENDO, DIARIZANDO, PONTUANDO, FALHOU, ABSENT, PURGED} : ~Settled(s)
  /\ Settled(AGUARDANDO) /\ (\A s \in TERMINAL_STATUSES : Settled(s) /\ s # FALHOU /\ s # PURGED /\ s # AGUARDANDO)
  /\ \A s : Settled(s) => s \in InterviewStatuses /\ FALHOU \notin VALID_TRANSITIONS[s]
                       /\ s \notin {FALHOU, PURGED, ABSENT}
BY DEF Settled, TERMINAL_STATUSES, VALID_TRANSITIONS, InterviewStatuses, ABSENT, PURGED, RECEBIDA, TRANSCREVENDO,
   DIARIZANDO, PONTUANDO, AGUARDANDO, APROVADA, REJEITADA, FALHOU

\* The transitions of the pipeline.
LEMMA StatusSteps ==
  /\ TRANSCREVENDO \in VALID_TRANSITIONS[RECEBIDA]
  /\ DIARIZANDO \in VALID_TRANSITIONS[TRANSCREVENDO] /\ TRANSCREVENDO # DIARIZANDO
  /\ PONTUANDO \in VALID_TRANSITIONS[DIARIZANDO] /\ DIARIZANDO # PONTUANDO
  /\ {TRANSCREVENDO, DIARIZANDO, PONTUANDO} \cap {AGUARDANDO, FALHOU} = {} /\ AGUARDANDO # FALHOU
  /\ VALID_TRANSITIONS[FALHOU] = {TRANSCREVENDO, DIARIZANDO, PONTUANDO}
BY DEF VALID_TRANSITIONS, InterviewStatuses, RECEBIDA, TRANSCREVENDO, DIARIZANDO, PONTUANDO, AGUARDANDO,
   APROVADA, REJEITADA, FALHOU

\* Before a commit nobody can decide, and no link is out.
LEMMA BeforeIsOpen ==
  ASSUME NEW s \in Committing, NEW r, BeforeCommit(s, r)
  PROVE  ~Settled(r.status) /\ r.status # PURGED /\ r.status \in InterviewStatuses
BY OpenStatuses DEF Committing, PipelineStages, BeforeCommit, InterviewStatuses, PURGED, RECEBIDA, TRANSCREVENDO,
   DIARIZANDO, PONTUANDO, FALHOU

\* One row and its links change at most, and every actor is sound after it.
LEMMA Assemble ==
  ASSUME SoloInvariant, NEW i \in Interviews,
         \A k \in Interviews \ {i} : row'[k] = row[k] /\ links'[k] = links[k],
         RowSound(i)', \A w \in Workers : WorkerSound(w)', \A p \in Apis : ApiSound(p)'
  PROVE  SoloInvariant'
BY DEF SoloInvariant, RowSound

\* With its job over a worker relies on nothing.
LEMMA IdleSound ==
  ASSUME TypeOK, NEW w \in Workers, WorkerIdle(w)
  PROVE  WorkerSound(w)'
BY DEF TypeOK, WorkerIdle, WorkerSound, Committing, PipelineStages

\* An API process is undisturbed when the status of what it decides is.
LEMMA SameApiSound ==
  ASSUME SoloInvariant, NEW p \in Apis, api'[p] = api[p],
         api[p].op = "decide" => row'[api[p].iv].status = row[api[p].iv].status
  PROVE  ApiSound(p)'
BY DEF SoloInvariant, ApiSound

LEMMA SameRowSound ==
  ASSUME SoloInvariant, NEW i \in Interviews, row'[i] = row[i], links'[i] = links[i]
  PROVE  RowSound(i)'
BY DEF SoloInvariant, RowSound

\* Steps that change no row and no link.
LEMMA NoRowChanges ==
  ASSUME SoloInvariant, row' = row, links' = links, api' = api,
         \A w \in Workers : WorkerSound(w)'
  PROVE  SoloInvariant'
BY SameRowSound, SameApiSound DEF SoloInvariant

-------------------------------------------------------------------------------
(* The commits of a job. *)

\* What a step of the worker may make of the row it is at work on.
Moves(r, n) ==
    \/ n.status = r.status /\ ~Settled(r.status)
    \/ /\ r.status \in InterviewStatuses /\ ~Settled(r.status)
       /\ n.status \in VALID_TRANSITIONS[r.status] /\ ~Settled(n.status)
    \/ r.status = PONTUANDO /\ n.status = AGUARDANDO /\ n.scorecard \in Scorecards

\* A commit that writes n over r, in which nobody could decide.
Writes(w, i, n) ==
    /\ row' = [row EXCEPT ![i] = n] /\ row'[i] = n
    /\ reading' = [reading EXCEPT ![w] = TRUE]
    /\ UNCHANGED <<held, stage, mem, api, links>>

LEMMA SaveWrites ==
  ASSUME TypeOK, NEW w \in Workers, NEW i \in Interviews, held[w].iv = i, NEW n, Save(w, n)
  PROVE  Writes(w, i, n)
BY DEF TypeOK, Save, Writes

\* The row after the commit is sound, and where the stage leaves it.
LEMMA CommitSound ==
  ASSUME PipelineInvariant, SoloInvariant, NEW w \in Workers, NEW i \in Interviews, held[w].iv = i, Commits(w)
  PROVE  /\ stage[w] \in Committing /\ ~reading[w] /\ BeforeCommit(stage[w], row[i])
         /\ \E n : Writes(w, i, n) /\ AfterCommit(stage[w], n) /\ Moves(row[i], n) /\ RowSound(i)'
<1> DEFINE r == row[i]
           m == mem[w]
<1>1. stage[w] \in Committing /\ ~reading[w]
  BY DEF Commits, Resume, Receive, Transcribe, ToDiarize, Diarize, ToScore, Score, Await, At, Committing, PipelineStages
<1>2. m = r /\ BeforeCommit(stage[w], r)
  BY <1>1 DEF SoloInvariant, WorkerSound
<1>3. ~Settled(r.status) /\ r.status \in InterviewStatuses /\ r.status # AGUARDANDO
  BY <1>1, <1>2, BeforeIsOpen, OpenStatuses
<1>4. r \in Row /\ RowSound(i) /\ r.token = 0 /\ links[i] = {}
  BY <1>1, <1>2, <1>3, BeforeIsOpen DEF PipelineInvariant, TypeOK, SoloInvariant, RowSound
<1>5. TypeOK
  BY DEF PipelineInvariant
<1>6. ASSUME NEW n \in Row, Writes(w, i, n), n.status \notin {AGUARDANDO, FALHOU}, ~Settled(n.status),
             n.token = 0, NoEmptyDialogue => Matched(n)
      PROVE  RowSound(i)'
  BY <1>4, <1>6 DEF Writes, RowSound
<1>7. ASSUME NEW s \in {TRANSCREVENDO, DIARIZANDO, PONTUANDO}, Save(w, [r EXCEPT !.status = s]),
             s \in VALID_TRANSITIONS[r.status]
      PROVE  \E n : Writes(w, i, n) /\ n.status = s /\ Moves(r, n) /\ RowSound(i)'
  <2> DEFINE n == [r EXCEPT !.status = s]
  <2>1. n \in Row /\ n.status = s /\ n.token = 0 /\ (Matched(r) => Matched(n))
    BY <1>4, StatusesAre, ColumnType DEF Row, Matched
  <2>2. Writes(w, i, n)
    BY <1>5, <1>7, SaveWrites
  <2>3. ~Settled(s) /\ s \notin {AGUARDANDO, FALHOU}
    BY OpenStatuses DEF TRANSCREVENDO, DIARIZANDO, PONTUANDO, FALHOU, AGUARDANDO
  <2>4. RowSound(i)'
    BY <1>4, <1>6, <2>1, <2>2, <2>3 DEF RowSound
  <2>5. Moves(r, n)
    BY <1>3, <1>7, <2>1, <2>3 DEF Moves
  <2> QED BY <2>1, <2>2, <2>4, <2>5
<1>8. CASE Resume(w)
  <2>1. r.status = FALHOU
    BY <1>2, <1>8 DEF Resume, At, BeforeCommit
  <2>2. ResumeStatus(m) \in {TRANSCREVENDO, DIARIZANDO, PONTUANDO} /\ ResumeStatus(m) \in VALID_TRANSITIONS[r.status]
    BY <2>1 DEF ResumeStatus, VALID_TRANSITIONS, InterviewStatuses, TRANSCREVENDO, DIARIZANDO, PONTUANDO, FALHOU,
       RECEBIDA, AGUARDANDO, APROVADA, REJEITADA
  <2>3. \E n : Writes(w, i, n) /\ n.status = ResumeStatus(m) /\ Moves(r, n) /\ RowSound(i)'
    BY <1>7, <1>8, <2>2 DEF Resume
  <2> QED BY <1>1, <1>2, <1>8, <2>2, <2>3 DEF Resume, At, AfterCommit
<1>9. CASE Receive(w)
  <2>1. r.status = RECEBIDA /\ TRANSCREVENDO \in VALID_TRANSITIONS[r.status]
    BY <1>2, <1>9, StatusSteps DEF Receive, At, BeforeCommit
  <2>2. \E n : Writes(w, i, n) /\ n.status = TRANSCREVENDO /\ Moves(r, n) /\ RowSound(i)'
    BY <1>7, <1>9, <2>1 DEF Receive
  <2> QED BY <1>1, <1>2, <1>9, <2>2 DEF Receive, At, AfterCommit
<1>10. CASE ToDiarize(w)
  <2>1. r.status = TRANSCREVENDO /\ m.status # DIARIZANDO /\ DIARIZANDO \in VALID_TRANSITIONS[r.status]
    BY <1>2, <1>10, StatusSteps DEF ToDiarize, At, BeforeCommit
  <2>2. \E n : Writes(w, i, n) /\ n.status = DIARIZANDO /\ Moves(r, n) /\ RowSound(i)'
    BY <1>7, <1>10, <2>1 DEF ToDiarize, MoveTo
  <2> QED BY <1>1, <1>2, <1>10, <2>2 DEF ToDiarize, At, AfterCommit
<1>11. CASE ToScore(w)
  <2>1. r.status = DIARIZANDO /\ m.status # PONTUANDO /\ PONTUANDO \in VALID_TRANSITIONS[r.status]
    BY <1>2, <1>11, StatusSteps DEF ToScore, At, BeforeCommit
  <2>2. \E n : Writes(w, i, n) /\ n.status = PONTUANDO /\ Moves(r, n) /\ RowSound(i)'
    BY <1>7, <1>11, <2>1 DEF ToScore, MoveTo
  <2> QED BY <1>1, <1>2, <1>11, <2>2 DEF ToScore, At, AfterCommit
<1>12. ASSUME NEW n \in Row, Save(w, n), n.status = r.status, n.token = r.token,
              r.status \in {TRANSCREVENDO, DIARIZANDO, PONTUANDO},
              NoEmptyDialogue => Matched(n)
       PROVE  Writes(w, i, n) /\ Moves(r, n) /\ RowSound(i)'
  <2>1. Writes(w, i, n) /\ Moves(r, n)
    BY <1>3, <1>5, <1>12, SaveWrites DEF Moves
  <2>2. n.status \notin {AGUARDANDO, FALHOU}
    BY <1>12, StatusSteps
  <2> QED BY <1>3, <1>4, <1>6, <1>12, <2>1, <2>2
<1>13. CASE Transcribe(w)
  <2>1. PICK t \in AsrResults : Save(w, [r EXCEPT !.transcription = t])
    BY <1>13 DEF Transcribe
  <2> DEFINE n == [r EXCEPT !.transcription = t]
  <2>2. stage[w] = "transcribe" /\ r.status = TRANSCREVENDO /\ Falsy(r.transcription)
    BY <1>2, <1>13 DEF Transcribe, At, BeforeCommit
  <2>3. /\ n \in Row /\ n.status = r.status /\ n.token = r.token
        /\ n.transcription = t /\ n.diarization = r.diarization /\ n.scorecard = r.scorecard
    BY <1>4, ColumnType, PipelineAssumption DEF Row
  <2>4. Matched(r) => Matched(n)
    BY <2>2, <2>3, PipelineAssumption, NullIsNoValue DEF Matched, Falsy, Diarizations
  <2>5. Writes(w, i, n) /\ Moves(r, n) /\ RowSound(i)'
    BY <1>4, <1>12, <2>1, <2>2, <2>3, <2>4 DEF RowSound
  <2> QED BY <1>1, <1>2, <2>2, <2>3, <2>5 DEF AfterCommit
<1>14. CASE Diarize(w)
  <2>1. PICK d \in DiarizeResults(m.transcription) : Save(w, [r EXCEPT !.diarization = d])
    BY <1>14 DEF Diarize
  <2> DEFINE n == [r EXCEPT !.diarization = d]
             t == r.transcription
  <2>2. stage[w] = "diarize" /\ r.status = DIARIZANDO /\ Falsy(r.diarization)
    BY <1>2, <1>14 DEF Diarize, At, BeforeCommit
  <2>3. t \in Transcripts /\ d \in DiarizeResults(t) /\ d \in Diarizations
    BY <1>2, <1>4, <2>1, <2>2, DiarizeResultsType DEF PipelineInvariant, WorkersBacked, Behind, Row
  <2>4. /\ n \in Row /\ n.status = r.status /\ n.token = r.token
        /\ n.transcription = t /\ n.diarization = d /\ n.scorecard = r.scorecard
    BY <1>4, <2>3, ColumnType DEF Row
  <2>5. ASSUME NoEmptyDialogue, Matched(r) PROVE Matched(n)
    <3>1. r.diarization = NULL /\ r.scorecard = NULL
      BY <2>2, <2>5, PipelineAssumption DEF Matched, Falsy
    <3>2. t \in AsrResults
      BY <2>3, <2>5, NullIsNoValue DEF Matched
    <3>3. t \in Texts /\ d = t
      BY <2>3, <2>5, <3>2, PipelineAssumption DEF NoEmptyDialogue, DiarizeResults, Transcripts
    <3> QED BY <2>3, <2>4, <3>1, <3>2, <3>3 DEF Matched
  <2>6. Writes(w, i, n) /\ Moves(r, n) /\ RowSound(i)'
    BY <1>4, <1>12, <2>1, <2>2, <2>4, <2>5 DEF RowSound
  <2> QED BY <1>1, <1>2, <2>2, <2>4, <2>6 DEF AfterCommit
<1>15. CASE Score(w)
  <2> DEFINE c == [transcription |-> m.transcription, diarization |-> m.diarization]
             n == [r EXCEPT !.scorecard = c]
  <2>1. stage[w] = "score" /\ r.status = PONTUANDO /\ Save(w, n)
    BY <1>2, <1>15 DEF Score, At, BeforeCommit
  <2>2. r.transcription # NULL /\ r.diarization # NULL /\ c \in Scorecards
    BY <1>2, <1>4, <2>1 DEF PipelineInvariant, WorkersBacked, StatusBacked, BackedBy, Row, Scorecards
  <2>3. /\ n \in Row /\ n.status = r.status /\ n.token = r.token
        /\ n.transcription = r.transcription /\ n.diarization = r.diarization /\ n.scorecard = c
    BY <1>4, <2>2, ColumnType DEF Row
  <2>4. Matched(r) => Matched(n)
    BY <1>2, <2>2, <2>3 DEF Matched
  <2>5. Writes(w, i, n) /\ Moves(r, n) /\ RowSound(i)'
    BY <1>4, <1>12, <2>1, <2>3, <2>4 DEF RowSound
  <2> QED BY <1>1, <1>2, <2>1, <2>3, <2>5 DEF AfterCommit
<1>16. CASE Await(w)
  <2> DEFINE k == issued[i] + 1
             a == [r EXCEPT !.token = k]
             b == IF m.error THEN [a EXCEPT !.error = FALSE] ELSE a
             n == [b EXCEPT !.status = AGUARDANDO]
  <2>1. stage[w] = "await" /\ r.status = PONTUANDO
    BY <1>2, <1>16 DEF Await, At, BeforeCommit
  <2>2. Save(w, n) /\ issued[i] < MaxTokens
    BY <1>2, <1>16, <2>1, StatusSteps DEF Await
  <2>3. k \in 0 .. MaxTokens
    BY <1>5, <2>2, PipelineAssumption DEF TypeOK
  <2>4. /\ n.status = AGUARDANDO /\ n.token = k
        /\ n.transcription = r.transcription /\ n.diarization = r.diarization /\ n.scorecard = r.scorecard
    BY <1>4 DEF Row
  <2>5. Writes(w, i, n)
    BY <1>5, <2>2, SaveWrites
  <2>6. r.scorecard \in Scorecards
    BY <1>2, <1>4, <2>1 DEF PipelineInvariant, WorkersBacked, Behind, Row
  <2>7. Matched(r) => Matched(n)
    BY <2>4 DEF Matched
  <2> HIDE DEF n
  <2>8. RowSound(i)'
    BY <1>4, <2>4, <2>5, <2>7, StatusSteps DEF Writes, RowSound
  <2>9. Moves(r, n) /\ AfterCommit("await", n)
    BY <2>1, <2>4, <2>6, OpenStatuses DEF Moves, AfterCommit
  <2> QED BY <1>1, <1>2, <2>1, <2>5, <2>8, <2>9
<1> QED BY <1>8, <1>9, <1>10, <1>11, <1>13, <1>14, <1>15, <1>16 DEF Commits

-------------------------------------------------------------------------------
(* Every step keeps the invariant. *)

\* The only worker changes the row it is at work on, nobody's open decision aside.
LEMMA RowStep ==
  ASSUME PipelineInvariant, SoloInvariant, OneWorker, NEW w \in Workers, NEW i \in Interviews, NEW n,
         row' = [row EXCEPT ![i] = n], links' = links, api' = api,
         Settled(row[i].status) => n.status = row[i].status,
         RowSound(i)', WorkerSound(w)'
  PROVE  SoloInvariant'
<1>1. row'[i] = n /\ \A k \in Interviews \ {i} : row'[k] = row[k] /\ links'[k] = links[k]
  BY DEF PipelineInvariant, TypeOK
<1>2. \A v \in Workers : WorkerSound(v)'
  BY DEF OneWorker
<1>3. ASSUME NEW p \in Apis PROVE ApiSound(p)'
  <2>1. api[p].op = "decide" => api[p].iv \in Interviews /\ Settled(row[api[p].iv].status)
    BY DEF PipelineInvariant, TypeOK, Handler, Idle, SoloInvariant, ApiSound
  <2>2. api[p].op = "decide" => row'[api[p].iv].status = row[api[p].iv].status
    BY <1>1, <2>1
  <2> QED BY <2>2, SameApiSound
<1> QED BY <1>1, <1>2, <1>3, Assemble

\* The steps of the worker that change neither a row nor a link.
LEMMA QuietStep ==
  ASSUME SoloInvariant, OneWorker, NEW w \in Workers, row' = row, links' = links, api' = api, WorkerSound(w)'
  PROVE  SoloInvariant'
BY NoRowChanges DEF OneWorker

LEMMA CommitKeeps ==
  ASSUME PipelineInvariant, SoloInvariant, OneWorker, NEW w \in Workers, Commits(w)
  PROVE  SoloInvariant'
<1>1. PICK i \in Interviews : held[w].iv = i
  BY CommitEffect
<1>2. PICK n : Writes(w, i, n) /\ AfterCommit(stage[w], n) /\ Moves(row[i], n) /\ RowSound(i)'
  BY <1>1, CommitSound
<1>3. stage[w] \in Committing /\ BeforeCommit(stage[w], row[i])
  BY <1>1, CommitSound
<1>4. ~Settled(row[i].status)
  BY <1>3, BeforeIsOpen
<1>5. stage'[w] = stage[w] /\ held'[w] = held[w] /\ reading'[w] /\ row'[i] = n
  BY <1>2 DEF Writes, PipelineInvariant, TypeOK
<1>6. WorkerSound(w)'
  BY <1>1, <1>2, <1>3, <1>5 DEF WorkerSound, AfterCommit, Settled, Committing, PipelineStages
<1> QED BY <1>1, <1>2, <1>4, <1>6, RowStep DEF Writes

\* What the control flow chooses after a refresh fits the row it was chosen on.
LEMMA ContinueSound ==
  ASSUME NEW s \in Committing, NEW r, AfterCommit(s, r)
  PROVE  LET next == Continue(s, r) IN
         /\ next \in Committing => BeforeCommit(next, r)
         /\ next = "notify" => Settled(r.status)
         /\ next # "failWrite"
BY DEF Committing, PipelineStages, AfterCommit, BeforeCommit, Continue, Step1, Step2, Step3, Step4,
   RECEBIDA, TRANSCREVENDO, DIARIZANDO, PONTUANDO, FALHOU

LEMMA EntrySound ==
  ASSUME NEW r, Live(r.status), ~Settled(r.status)
  PROVE  Entry(r) \in Committing /\ BeforeCommit(Entry(r), r)
<1>1. Entry(r) \in Committing
  BY EntryType DEF Committing
<1>2. r.status \in {RECEBIDA, TRANSCREVENDO, DIARIZANDO, PONTUANDO, FALHOU}
  BY DEF Live, InterviewStatuses, Settled, TERMINAL_STATUSES
<1>3. BeforeCommit(Entry(r), r)
  BY <1>2 DEF BeforeCommit, Entry, Step1, Step2, Step3, Step4, RECEBIDA, TRANSCREVENDO, DIARIZANDO, PONTUANDO, FALHOU
<1> QED BY <1>1, <1>3

LEMMA FailKeeps ==
  ASSUME PipelineInvariant, SoloInvariant, OneWorker, NEW w \in Workers, FailWrite(w)
  PROVE  LET i == held[w].iv IN
         /\ SoloInvariant'
         /\ i \in Interviews
         /\ \E n : row' = [row EXCEPT ![i] = n] /\ (\/ Moves(row[i], n)
                                                    \/ n.status = row[i].status /\ n.scorecard = row[i].scorecard)
<1>i. PICK i \in Interviews : held[w].iv = i
  BY WorkerFacts DEF FailWrite
<1> DEFINE r == row[i]
           n == Failed(r, mem[w])
<1>1. r \in Row /\ TypeOK
  BY DEF PipelineInvariant, TypeOK
<1>2. row' = [row EXCEPT ![i] = n] /\ row'[i] = n /\ links' = links /\ api' = api /\ WorkerSound(w)'
  BY <1>i, <1>1, IdleSound DEF FailWrite, JobFailed, TypeOK
<1>3. \/ mem[w].status = r.status
      \/ Settled(mem[w].status) /\ Settled(r.status)
  BY <1>i DEF FailWrite, SoloInvariant, WorkerSound, Committing, PipelineStages
<1>4. /\ n.error /\ n.token = r.token /\ n.transcription = r.transcription
      /\ n.diarization = r.diarization /\ n.scorecard = r.scorecard
      /\ \/ n.status = r.status
         \/ n.status = FALHOU /\ FALHOU \in VALID_TRANSITIONS[r.status] /\ ~Settled(r.status)
  BY <1>1, <1>3, OpenStatuses DEF Failed, Row
<1>5. Live(r.status) /\ r.status # PURGED
  BY <1>i, StatusesDiffer DEF PipelineInvariant, RowInUse, FailWrite
<1>6. RowSound(i) /\ (Matched(r) => Matched(n))
  BY <1>1, <1>4 DEF SoloInvariant, Matched
<1> HIDE DEF n
<1>7. RowSound(i)'
  <2>1. \/ row'[i].status = FALHOU /\ ~Settled(r.status)
        \/ row'[i].status = r.status
    BY <1>2, <1>4
  <2>2. /\ row'[i].token = r.token /\ row'[i].error /\ links'[i] = links[i]
        /\ Matched(row[i]) => Matched(row'[i])
    BY <1>2, <1>4, <1>6
  <2> QED BY <1>5, <1>6, <2>1, <2>2, StatusSteps, OpenStatuses DEF RowSound
<1>8. SoloInvariant'
  BY <1>1, <1>2, <1>4, <1>7, RowStep
<1>9. \/ Moves(r, n)
      \/ n.status = r.status /\ n.scorecard = r.scorecard
  BY <1>4, <1>5, OpenStatuses DEF Moves, Live
<1> QED BY <1>i, <1>2, <1>8, <1>9

\* The link of a published interview carries the token of its row.
LEMMA NotifyKeeps ==
  ASSUME PipelineInvariant, SoloInvariant, OneWorker, NEW w \in Workers, Notify(w)
  PROVE  SoloInvariant'
<1>1. PICK i \in Interviews : held[w].iv = i
  BY WorkerFacts DEF Notify, At
<1>2. row' = row /\ api' = api /\ WorkerSound(w)' /\ Settled(row[i].status)
  BY <1>1, IdleSound DEF Notify, At, JobDone, dbVars, PipelineInvariant, SoloInvariant, WorkerSound
<1>3. /\ links'[i] = links[i] \/ links'[i] = links[i] \cup {row[i].token}
      /\ \A k \in Interviews \ {i} : links'[k] = links[k]
  BY <1>1 DEF Notify, PipelineInvariant, TypeOK
<1>4. RowSound(i)'
  BY <1>2, <1>3 DEF SoloInvariant, RowSound
<1>5. \A p \in Apis : ApiSound(p)'
  BY <1>2, SameApiSound
<1> QED BY <1>2, <1>3, <1>4, <1>5, Assemble DEF OneWorker

LEMMA WorkerKeeps ==
  ASSUME PipelineInvariant, SoloInvariant, OneWorker, NEW w \in Workers, WorkerStep(w) \/ WorkerFault(w)
  PROVE  SoloInvariant'
<1> USE DEF dbVars, rqVars
<1>1. TypeOK
  BY DEF PipelineInvariant
<1>2. CASE Commits(w)
  BY <1>2, CommitKeeps
<1>3. CASE FailWrite(w)
  BY <1>3, FailKeeps
<1>4. CASE Notify(w)
  BY <1>4, NotifyKeeps
<1>5. CASE \/ SelectNothingToDo(w) \/ SelectMissing(w) \/ NotifyDropped(w) \/ FailureLost(w) \/ Crash(w)
           \/ Refresh(w) /\ Continue(stage[w], row[held[w].iv]) = "return"
  <2>1. WorkerIdle(w) /\ row' = row /\ links' = links /\ api' = api
    BY <1>5 DEF SelectNothingToDo, SelectMissing, NotifyDropped, FailureLost, Crash, Refresh, JobDone, JobFailed
  <2> QED BY <1>1, <2>1, IdleSound, QuietStep
<1>6. CASE Dequeue(w)
  BY <1>1, <1>6, QuietStep DEF Dequeue, TypeOK, WorkerSound, Committing, PipelineStages
<1>7. CASE SelectForUpdate(w)
  <2>1. row' = row /\ links' = links /\ api' = api
    BY <1>7 DEF SelectForUpdate
  <2>2. /\ held'[w] = held[w] /\ mem'[w] = row[held[w].iv] /\ stage'[w] = Entry(row[held[w].iv])
        /\ row'[held'[w].iv] = row[held[w].iv]
    BY <1>1, <1>7 DEF SelectForUpdate, TypeOK
  <2>3. stage'[w] \in Committing /\ BeforeCommit(stage'[w], row[held[w].iv]) /\ ~reading'[w]
    BY <1>7, <2>2, EntrySound DEF SelectForUpdate, PipelineInvariant, JobHeld, PipelineStages
  <2>4. WorkerSound(w)'
    BY <2>2, <2>3 DEF WorkerSound, Committing, PipelineStages
  <2> QED BY <2>1, <2>4, QuietStep
<1>8. CASE Refresh(w) /\ Continue(stage[w], row[held[w].iv]) # "return"
  <2> DEFINE next == Continue(stage[w], row[held[w].iv])
  <2>1. row' = row /\ links' = links /\ api' = api
    BY <1>8 DEF Refresh
  <2>2. /\ held'[w] = held[w] /\ mem'[w] = row[held[w].iv] /\ stage'[w] = next /\ ~reading'[w]
        /\ row'[held'[w].iv] = row[held[w].iv]
    BY <1>1, <1>8 DEF Refresh, TypeOK
  <2>3. stage[w] \in Committing /\ AfterCommit(stage[w], row[held[w].iv])
    BY <1>8 DEF Refresh, PipelineInvariant, JobHeld, SoloInvariant, WorkerSound, Committing
  <2>4. /\ next \in Committing => BeforeCommit(next, row[held[w].iv])
        /\ next = "notify" => Settled(row[held[w].iv].status)
        /\ next # "failWrite"
    BY <2>3, ContinueSound
  <2> HIDE DEF next
  <2>5. WorkerSound(w)'
    BY <2>2, <2>4 DEF WorkerSound
  <2> QED BY <2>1, <2>5, QuietStep
<1>9. CASE Raise(w) \/ RaiseAlways(w)
  BY <1>1, <1>9, QuietStep DEF Raise, RaiseAlways, Rollback, TypeOK, WorkerSound, Committing, PipelineStages
<1>10. CASE FailRead(w)
  <2>1. /\ stage'[w] = "failWrite" /\ held'[w] = held[w] /\ mem'[w] = row[held[w].iv]
        /\ row'[held'[w].iv] = row[held[w].iv] /\ row' = row /\ links' = links /\ api' = api
    BY <1>1, <1>10 DEF FailRead, TypeOK
  <2>2. WorkerSound(w)'
    BY <2>1 DEF WorkerSound, Committing, PipelineStages
  <2> QED BY <2>1, <2>2, QuietStep
<1> QED BY <1>2, <1>3, <1>4, <1>5, <1>6, <1>7, <1>8, <1>9, <1>10 DEF WorkerStep, WorkerFault, Commits

\* A worker is undisturbed when the row it is at work on, if any, is.
LEMMA SameWorkerSound ==
  ASSUME SoloInvariant, NEW w \in Workers, UNCHANGED workerVars,
         stage[w] \notin {"idle", "select"} => row'[held[w].iv] = row[held[w].iv]
  PROVE  WorkerSound(w)'
BY DEF SoloInvariant, WorkerSound, workerVars, Committing, PipelineStages

\* A decision changes the status only where the worker does not rely on it.
LEMMA DecisionKeeps ==
  ASSUME PipelineInvariant, SoloInvariant, NEW p \in Apis, CommitDecision(p)
  PROVE  SoloInvariant'
<1>1. PICK i \in Interviews : api[p].iv = i /\ api[p].to \in TERMINAL_STATUSES
  BY DEF CommitDecision, PipelineInvariant, TypeOK, Handler, Idle
<1> DEFINE n == Decided(row[i], api[p].to)
<1>2. row[i] \in Row /\ TypeOK /\ Settled(row[i].status)
  BY <1>1 DEF PipelineInvariant, TypeOK, SoloInvariant, ApiSound, CommitDecision
<1>3. /\ n.status = api[p].to /\ n.token = 0 /\ n.transcription = row[i].transcription
      /\ n.diarization = row[i].diarization /\ n.scorecard = row[i].scorecard
  BY <1>2 DEF Decided, Row
<1>4. Settled(n.status) /\ n.status \notin {FALHOU, PURGED, AGUARDANDO}
  BY <1>1, <1>3, OpenStatuses
<1>5. /\ row'[i] = n /\ \A k \in Interviews \ {i} : row'[k] = row[k]
      /\ links' = links /\ UNCHANGED workerVars
      /\ api'[p] = Idle /\ \A q \in Apis \ {p} : api'[q] = api[q]
  BY <1>1, <1>2 DEF CommitDecision, TypeOK
<1>6. Matched(row[i]) => Matched(n)
  BY <1>3 DEF Matched
<1> HIDE DEF n
<1>7. RowSound(i)'
  BY <1>3, <1>4, <1>5, <1>6 DEF SoloInvariant, RowSound
<1>8. ASSUME NEW w \in Workers PROVE WorkerSound(w)'
  <2>1. CASE held[w] # NULL /\ held[w].iv = i
    <3>1. /\ held'[w] = held[w] /\ stage'[w] = stage[w] /\ reading'[w] = reading[w] /\ mem'[w] = mem[w]
          /\ row'[held'[w].iv] = n
      BY <1>5, <2>1 DEF workerVars
    <3>2. ~(stage[w] \in Committing /\ ~reading[w])
      BY <1>2, <2>1, BeforeIsOpen DEF SoloInvariant, WorkerSound
    <3>3. stage[w] \in Committing => AfterCommit(stage[w], n)
      BY <1>2, <1>4, <2>1, <3>2, OpenStatuses DEF SoloInvariant, WorkerSound, AfterCommit
    <3>4. stage[w] = "failWrite" => Settled(mem[w].status)
      BY <1>2, <2>1 DEF SoloInvariant, WorkerSound
    <3> QED BY <1>4, <3>1, <3>2, <3>3, <3>4 DEF WorkerSound
  <2>2. CASE ~(held[w] # NULL /\ held[w].iv = i)
    BY <1>5, <2>2, WorkerFacts, SameWorkerSound
  <2> QED BY <2>1, <2>2
<1>9. ASSUME NEW q \in Apis PROVE ApiSound(q)'
  <2>1. CASE q = p
    BY <1>5, <2>1 DEF ApiSound, Idle
  <2>2. CASE q # p /\ api[q].op = "decide" /\ api[q].iv = i
    <3>1. api'[q] = api[q] /\ row'[api'[q].iv] = n /\ ~OneApi
      BY <1>5, <2>2 DEF OneApi
    <3> QED BY <1>4, <3>1 DEF ApiSound, OneApi
  <2>3. CASE q # p /\ ~(api[q].op = "decide" /\ api[q].iv = i)
    <3>1. api[q].op = "decide" => api[q].iv \in Interviews \ {i}
      BY <1>2, <2>3 DEF TypeOK, Handler, Idle
    <3>2. api'[q] = api[q] /\ (api[q].op = "decide" => row'[api[q].iv].status = row[api[q].iv].status)
      BY <1>5, <2>3, <3>1
    <3> QED BY <3>2, SameApiSound
  <2> QED BY <2>1, <2>2, <2>3
<1> QED BY <1>5, <1>7, <1>8, <1>9, Assemble

LEMMA ApiKeeps ==
  ASSUME PipelineInvariant, SoloInvariant, NEW p \in Apis, ApiStep(p)
  PROVE  SoloInvariant'
<1> USE DEF dbVars, rqVars
<1>1. TypeOK
  BY DEF PipelineInvariant
<1>2. ASSUME NEW i \in Interviews, WebhookInsert(p, i)
      PROVE  SoloInvariant'
  <2>1. /\ row'[i] = NewRow /\ \A k \in Interviews \ {i} : row'[k] = row[k]
        /\ links' = links /\ UNCHANGED workerVars
        /\ api'[p].op = "enqueue" /\ \A q \in Apis \ {p} : api'[q] = api[q]
        /\ row[i].status = ABSENT
    BY <1>1, <1>2 DEF WebhookInsert, TypeOK
  <2>2. links[i] = {} /\ ~Settled(row[i].status) /\ ~Live(row[i].status)
    BY <2>1, OpenStatuses, StatusesDiffer DEF SoloInvariant, RowSound, ABSENT, PURGED
  <2>3. RowSound(i)'
    <3>1. NewRow.status = RECEBIDA /\ NewRow.token = 0 /\ Matched(NewRow)
      BY DEF NewRow, NoRow, Matched
    <3> QED BY <2>1, <2>2, <3>1 DEF RowSound, RECEBIDA, FALHOU, AGUARDANDO
  <2>4. ASSUME NEW w \in Workers PROVE WorkerSound(w)'
    <3>1. stage[w] \notin {"idle", "select"} => held[w].iv \in Interviews \ {i}
      BY <2>2, WorkerFacts DEF PipelineInvariant, RowInUse
    <3> QED BY <2>1, <3>1, SameWorkerSound
  <2>5. ASSUME NEW q \in Apis PROVE ApiSound(q)'
    <3>1. CASE q = p
      BY <2>1, <3>1 DEF ApiSound
    <3>2. CASE q # p
      <4>1. api[q].op = "decide" => api[q].iv \in Interviews /\ Settled(row[api[q].iv].status)
        BY <1>1 DEF TypeOK, Handler, Idle, SoloInvariant, ApiSound
      <4>2. api'[q] = api[q] /\ (api[q].op = "decide" => row'[api[q].iv].status = row[api[q].iv].status)
        BY <2>1, <2>2, <3>2, <4>1
      <4> QED BY <4>2, SameApiSound
    <3> QED BY <3>1, <3>2
  <2> QED BY <2>1, <2>3, <2>4, <2>5, Assemble
<1>3. ASSUME row' = row, links' = links, UNCHANGED workerVars,
             \A q \in Apis : \/ api'[q] = api[q]
                             \/ api'[q].op # "decide"
                             \/ row[api'[q].iv].status = AGUARDANDO
      PROVE  SoloInvariant'
  <2>1. \A i \in Interviews : RowSound(i)'
    BY <1>3, SameRowSound
  <2>2. \A w \in Workers : WorkerSound(w)'
    BY <1>3, SameWorkerSound
  <2>3. ASSUME NEW q \in Apis PROVE ApiSound(q)'
    <3>1. CASE api'[q] = api[q]
      BY <1>3, <3>1, SameApiSound
    <3>2. CASE api'[q].op # "decide" \/ row'[api'[q].iv].status = AGUARDANDO
      BY <3>2, OpenStatuses DEF ApiSound
    <3> QED BY <1>3, <3>1, <3>2
  <2> QED BY <2>1, <2>2, <2>3 DEF SoloInvariant
<1>4. CASE WebhookEnqueue(p) \/ HandlerFails(p) \/ (\E i \in Interviews : Reprocess(p, i))
  BY <1>1, <1>3, <1>4 DEF WebhookEnqueue, HandlerFails, Reprocess, TypeOK, Idle
<1>5. ASSUME NEW i \in Interviews, NEW to \in TERMINAL_STATUSES, ReadForAction(p, i, to)
      PROVE  SoloInvariant'
  BY <1>1, <1>3, <1>5 DEF ReadForAction, TypeOK
<1> QED BY <1>2, <1>4, <1>5, DecisionKeeps DEF ApiStep, ReadForDecisionLink

LEMMA RoutineKeeps ==
  ASSUME PipelineInvariant, SoloInvariant, NEW i \in Interviews,
         Reconcile(i) \/ Purge(i) \/ \E l \in 0 .. MaxRetries : ScheduledFires(i, l)
  PROVE  SoloInvariant'
<1> USE DEF dbVars, rqVars
<1>1. CASE Purge(i)
  <2> DEFINE n == [NoRow EXCEPT !.status = PURGED]
  <2>1. /\ row'[i] = n /\ \A k \in Interviews \ {i} : row'[k] = row[k]
        /\ links' = links /\ UNCHANGED workerVars /\ api' = api
        /\ \A p \in Apis : api[p].iv # i
    BY <1>1 DEF Purge, PipelineInvariant, TypeOK
  <2>2. n.status = PURGED /\ n.token = 0 /\ Matched(n)
    BY DEF NoRow, Matched
  <2> HIDE DEF n
  <2>3. RowSound(i)'
    BY <2>1, <2>2 DEF RowSound, PURGED, FALHOU, AGUARDANDO
  <2>4. ASSUME NEW w \in Workers PROVE WorkerSound(w)'
    <3>1. stage[w] \notin {"idle", "select"} => held[w].iv \in Interviews \ {i}
      BY <1>1, WorkerFacts DEF Purge
    <3> QED BY <2>1, <3>1, SameWorkerSound
  <2>5. ASSUME NEW q \in Apis PROVE ApiSound(q)'
    <3>1. api[q].op = "decide" => api[q].iv \in Interviews \ {i}
      BY <2>1 DEF PipelineInvariant, TypeOK, Handler, Idle
    <3> QED BY <2>1, <3>1, SameApiSound
  <2> QED BY <2>1, <2>3, <2>4, <2>5, Assemble
<1>2. CASE Reconcile(i) \/ \E l \in 0 .. MaxRetries : ScheduledFires(i, l)
  <2>1. row' = row /\ links' = links /\ api' = api /\ UNCHANGED workerVars
    BY <1>2 DEF Reconcile, ScheduledFires
  <2> QED BY <2>1, SameWorkerSound, NoRowChanges
<1> QED BY <1>1, <1>2

LEMMA SoloInductive ==
  /\ Init => SoloInvariant
  /\ OneWorker /\ PipelineInvariant /\ SoloInvariant /\ [Next]_vars => SoloInvariant'
<1>1. ASSUME Init PROVE SoloInvariant
  <2>1. NoRow.status = ABSENT /\ NoRow.token = 0 /\ Matched(NoRow)
    BY DEF NoRow, Matched
  <2>2. \A i \in Interviews : RowSound(i)
    BY <1>1, <2>1 DEF Init, RowSound, ABSENT, FALHOU, AGUARDANDO
  <2> QED BY <1>1, <2>2 DEF Init, SoloInvariant, WorkerSound, ApiSound, Idle, Committing, PipelineStages
<1>2. ASSUME OneWorker, PipelineInvariant, SoloInvariant, [Next]_vars PROVE SoloInvariant'
  <2>1. CASE Next
    BY <1>2, <2>1, WorkerKeeps, ApiKeeps, RoutineKeeps DEF Next
  <2>2. CASE UNCHANGED vars
    BY <1>2, <2>2, NoRowChanges, SameWorkerSound DEF vars, workerVars
  <2> QED BY <1>2, <2>1, <2>2
<1> QED BY <1>1, <1>2

LEMMA SoloAlways == OneWorker => (Spec => [](PipelineInvariant /\ SoloInvariant))
<1> SUFFICES ASSUME OneWorker PROVE Spec => [](PipelineInvariant /\ SoloInvariant)
  OBVIOUS
<1>1. Init => PipelineInvariant /\ SoloInvariant
  BY InitInvariant, SoloInductive
<1>2. PipelineInvariant /\ SoloInvariant /\ [Next]_vars => (PipelineInvariant /\ SoloInvariant)'
  BY NextPreserves, SoloInductive
<1> QED BY <1>1, <1>2, PTL DEF Spec

-------------------------------------------------------------------------------
(* Every step is a step of Lifecycle or none. *)

\* Lifecycle names the statuses as the pipeline does.
LEMMA SameStatuses ==
  /\ L!InterviewStatuses = InterviewStatuses /\ L!TERMINAL_STATUSES = TERMINAL_STATUSES
  /\ L!VALID_TRANSITIONS = VALID_TRANSITIONS
  /\ L!ABSENT = ABSENT /\ L!PURGED = PURGED /\ L!RECEBIDA = RECEBIDA /\ L!PONTUANDO = PONTUANDO
  /\ L!AGUARDANDO = AGUARDANDO
BY DEF L!InterviewStatuses, InterviewStatuses, L!TERMINAL_STATUSES, TERMINAL_STATUSES, L!VALID_TRANSITIONS,
   VALID_TRANSITIONS, L!ABSENT, ABSENT, L!PURGED, PURGED, L!RECEBIDA, RECEBIDA, L!PONTUANDO, PONTUANDO,
   L!AGUARDANDO, AGUARDANDO, L!TRANSCREVENDO, TRANSCREVENDO, L!DIARIZANDO, DIARIZANDO, L!APROVADA, APROVADA,
   L!REJEITADA, REJEITADA, L!FALHOU, FALHOU

statuses == [i \in Interviews |-> row[i].status]
scorecards == [i \in Interviews |-> Published(row[i])]

\* One row changes from r to n: so do its status and what it published.
LEMMA OneChange ==
  ASSUME TypeOK, NEW i \in Interviews, NEW n, row' = [row EXCEPT ![i] = n]
  PROVE  /\ statuses' = [statuses EXCEPT ![i] = n.status]
         /\ scorecards' = [scorecards EXCEPT ![i] = Published(n)]
         /\ statuses[i] = row[i].status /\ scorecards[i] = Published(row[i])
         /\ Published(n) = Published(row[i]) => scorecards' = scorecards
         /\ n.status = row[i].status => statuses' = statuses
BY DEF TypeOK, statuses, scorecards, Published, Settled

LEMMA MovesAreProgress ==
  ASSUME TypeOK, NEW i \in Interviews, NEW n, row' = [row EXCEPT ![i] = n],
         \/ Moves(row[i], n)
         \/ n.status = row[i].status /\ n.scorecard = row[i].scorecard
  PROVE  [L!Next]_L!vars
<1>1. CASE Published(n) = Published(row[i]) /\ n.status = row[i].status
  BY <1>1, OneChange DEF L!vars, statuses, scorecards
<1>2. CASE /\ row[i].status \in InterviewStatuses /\ ~Settled(row[i].status)
           /\ n.status \in VALID_TRANSITIONS[row[i].status] /\ ~Settled(n.status)
  <2>1. Published(n) = Published(row[i])
    BY <1>2 DEF Published
  <2>2. /\ statuses' = [statuses EXCEPT ![i] = n.status] /\ scorecards' = scorecards
        /\ statuses[i] = row[i].status
    BY <2>1, OneChange
  <2>3. n.status \in VALID_TRANSITIONS[row[i].status] \ (TERMINAL_STATUSES \cup {AGUARDANDO})
    BY <1>2 DEF Settled
  <2>4. L!Progress(i)
    BY <1>2, <2>2, <2>3, SameStatuses DEF L!Progress, statuses, scorecards
  <2> QED BY <2>4 DEF L!Next
<1>3. CASE row[i].status = PONTUANDO /\ n.status = AGUARDANDO /\ n.scorecard \in Scorecards
  <2>1. Published(n) = n.scorecard
    BY <1>3, OpenStatuses DEF Published
  <2>2. L!Publish(i)
    BY <1>3, <2>1, OneChange, SameStatuses DEF L!Publish, statuses, scorecards
  <2> QED BY <2>2 DEF L!Next
<1> QED BY <1>1, <1>2, <1>3 DEF Moves, Published

LEMMA PipelineSimulates ==
  ASSUME OneWorker, OneApi, PipelineInvariant, SoloInvariant, [Next]_vars
  PROVE  [L!Next]_L!vars
<1> USE DEF dbVars, rqVars
<1>1. TypeOK
  BY DEF PipelineInvariant
<1>2. ASSUME row' = row PROVE [L!Next]_L!vars
  BY <1>2 DEF L!vars, Published, Settled
<1>3. ASSUME NEW w \in Workers, WorkerStep(w) \/ WorkerFault(w) PROVE [L!Next]_L!vars
  <2>1. CASE Commits(w)
    <3>1. PICK i \in Interviews : held[w].iv = i
      BY <2>1, CommitEffect
    <3>2. \E n : Writes(w, i, n) /\ Moves(row[i], n)
      BY <2>1, <3>1, CommitSound
    <3> QED BY <1>1, <3>1, <3>2, MovesAreProgress DEF Writes
  <2>2. CASE FailWrite(w)
    BY <1>1, <2>2, FailKeeps, MovesAreProgress
  <2>3. CASE ~Commits(w) /\ ~FailWrite(w)
    <3>1. row' = row
      BY <1>3, <2>3 DEF WorkerStep, WorkerFault, Commits, Dequeue, SelectForUpdate, SelectNothingToDo, SelectMissing,
         Refresh, Notify, RaiseAlways, Raise, Rollback, FailRead, NotifyDropped, FailureLost, Crash
    <3> QED BY <1>2, <3>1
  <2> QED BY <2>1, <2>2, <2>3
<1>4. ASSUME NEW p \in Apis, NEW i \in Interviews, WebhookInsert(p, i) PROVE [L!Next]_L!vars
  <2>1. row' = [row EXCEPT ![i] = NewRow] /\ row[i].status = ABSENT
    BY <1>4 DEF WebhookInsert
  <2>2. NewRow.status = RECEBIDA /\ Published(NewRow) = NULL /\ Published(row[i]) = NULL
    BY <2>1, OpenStatuses DEF NewRow, NoRow, Published
  <2>3. /\ statuses' = [statuses EXCEPT ![i] = RECEBIDA] /\ scorecards' = scorecards
        /\ statuses[i] = ABSENT
    BY <1>1, <2>1, <2>2, OneChange
  <2>4. L!Create(i)
    BY <2>3, SameStatuses DEF L!Create, statuses, scorecards
  <2> QED BY <2>4 DEF L!Next
<1>5. ASSUME NEW p \in Apis, CommitDecision(p) PROVE [L!Next]_L!vars
  <2>1. PICK i \in Interviews : api[p].iv = i /\ api[p].to \in TERMINAL_STATUSES
    BY <1>1, <1>5 DEF CommitDecision, TypeOK, Handler, Idle
  <2>n. PICK n : n = Decided(row[i], api[p].to)
    OBVIOUS
  <2>2. row' = [row EXCEPT ![i] = n] /\ row[i] \in Row /\ row[i].status = AGUARDANDO
    BY <1>1, <1>5, <2>n, <2>1 DEF CommitDecision, SoloInvariant, ApiSound, TypeOK
  <2>3. n.status = api[p].to /\ n.scorecard = row[i].scorecard
    BY <2>n, <2>2 DEF Decided, Row
  <2>4. Published(n) = Published(row[i])
    BY <2>1, <2>2, <2>3, OpenStatuses DEF Published
  <2>5. /\ statuses' = [statuses EXCEPT ![i] = n.status] /\ scorecards' = scorecards
        /\ statuses[i] = AGUARDANDO
    <3>1. /\ statuses' = [statuses EXCEPT ![i] = n.status] /\ statuses[i] = row[i].status
          /\ Published(n) = Published(row[i]) => scorecards' = scorecards
      BY <1>1, <2>2, OneChange
    <3> QED BY <2>2, <2>4, <3>1
  <2>6. L!Decide(i)
    BY <2>1, <2>3, <2>5, SameStatuses DEF L!Decide, statuses, scorecards
  <2> QED BY <2>6 DEF L!Next
<1>6. ASSUME NEW i \in Interviews, Purge(i) PROVE [L!Next]_L!vars
  <2> DEFINE n == [NoRow EXCEPT !.status = PURGED]
  <2>1. row' = [row EXCEPT ![i] = n] /\ row[i].status \in TERMINAL_STATUSES
    BY <1>6 DEF Purge
  <2>2. n.status = PURGED /\ Published(n) = NULL
    BY OpenStatuses DEF NoRow, Published
  <2> HIDE DEF n
  <2>3. L!Purge(i)
    BY <1>1, <2>1, <2>2, OneChange, SameStatuses DEF L!Purge, statuses, scorecards
  <2> QED BY <2>3 DEF L!Next
<1>7. ASSUME NEW p \in Apis, ApiStep(p) PROVE [L!Next]_L!vars
  <2>1. \/ CommitDecision(p)
        \/ \E i \in Interviews : WebhookInsert(p, i)
        \/ row' = row
    BY <1>7 DEF ApiStep, Reprocess, ReadForAction, ReadForDecisionLink, WebhookEnqueue, HandlerFails
  <2> QED BY <1>2, <1>4, <1>5, <2>1
<1>8. ASSUME NEW i \in Interviews, Reconcile(i) \/ Purge(i) \/ \E l \in 0 .. MaxRetries : ScheduledFires(i, l)
      PROVE  [L!Next]_L!vars
  BY <1>2, <1>6, <1>8 DEF Reconcile, ScheduledFires
<1>9. CASE UNCHANGED vars
  BY <1>2, <1>9 DEF vars
<1> QED BY <1>3, <1>7, <1>8, <1>9 DEF Next

-------------------------------------------------------------------------------
(* The theorems. *)

\* With one worker a delivered decision link works as long as the decision is open
\* and no longer, for any faults, retries, duplicate jobs and API processes
\* (app/notifications.py:27-32, app/main.py:319).
THEOREM LinksWork == OneWorker => (Spec => []LinkWorksUntilDecision)
<1> SUFFICES ASSUME OneWorker PROVE Spec => []LinkWorksUntilDecision
  OBVIOUS
<1>s. Spec => [](PipelineInvariant /\ SoloInvariant)
  BY SoloAlways
<1>1. SoloInvariant => LinkWorksUntilDecision
  BY DEF SoloInvariant, RowSound, LinkWorksUntilDecision
<1> QED BY <1>1, <1>s, PTL

\* With one worker a failed interview says why (app/tasks.py:30-46).
THEOREM FailuresExplained == OneWorker => (Spec => []FailureIsExplained)
<1> SUFFICES ASSUME OneWorker PROVE Spec => []FailureIsExplained
  OBVIOUS
<1>s. Spec => [](PipelineInvariant /\ SoloInvariant)
  BY SoloAlways
<1>1. SoloInvariant => FailureIsExplained
  BY DEF SoloInvariant, RowSound, FailureIsExplained
<1> QED BY <1>1, <1>s, PTL

\* With one worker the scorecard a human judges was made from what is stored beside
\* it, provided no speaker turns are computed for an empty transcript.
THEOREM ScorecardsMatch == OneWorker /\ NoEmptyDialogue => (Spec => []ScorecardMatchesCheckpoints)
<1> SUFFICES ASSUME OneWorker, NoEmptyDialogue PROVE Spec => []ScorecardMatchesCheckpoints
  OBVIOUS
<1>s. Spec => [](PipelineInvariant /\ SoloInvariant)
  BY SoloAlways
<1>1. ASSUME PipelineInvariant, SoloInvariant, NEW i \in Interviews, Settled(row[i].status)
      PROVE  /\ row[i].scorecard = [transcription |-> row[i].transcription, diarization |-> row[i].diarization]
             /\ row[i].diarization \in DiarizeResults(row[i].transcription)
  <2>1. row[i].scorecard # NULL
    BY <1>1 DEF PipelineInvariant, StatusBacked, BackedBy, Settled, TERMINAL_STATUSES
  <2>2. Matched(row[i])
    BY <1>1 DEF SoloInvariant, RowSound
  <2> QED BY <2>1, <2>2 DEF Matched
<1>2. PipelineInvariant /\ SoloInvariant => ScorecardMatchesCheckpoints
  BY <1>1 DEF ScorecardMatchesCheckpoints
<1> QED BY <1>2, <1>s, PTL

\* With one worker and one API process the pipeline implements Lifecycle: statuses
\* move only along VALID_TRANSITIONS although no UPDATE checks the status it
\* overwrites, and the scorecard a human judges stays (app/models.py).
THEOREM ImplementsLifecycle == OneWorker /\ OneApi => (Spec => Lifecycle)
<1> SUFFICES ASSUME OneWorker, OneApi PROVE Spec => Lifecycle
  OBVIOUS
<1>s. Spec => [](PipelineInvariant /\ SoloInvariant)
  BY SoloAlways
<1>1. Init => L!Init
  BY OpenStatuses DEF Init, L!Init, NoRow, Published, ABSENT, L!ABSENT
<1>2. PipelineInvariant /\ SoloInvariant /\ [Next]_vars => [L!Next]_L!vars
  BY PipelineSimulates
<1> QED BY <1>1, <1>2, <1>s, PTL DEF Spec, Lifecycle, L!Spec
===============================================================================
