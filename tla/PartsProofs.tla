------------------------------ MODULE PartsProofs ------------------------------
(***************************************************************************)
(* The parts of the system that keep no state in common, each for every    *)
(* value of its constants: the webhooks and the processes that take them,  *)
(* a job as its work-horse runs it, and the screens.                       *)
(***************************************************************************)
EXTENDS Intake, Attempt, ApiSettings, Preferences, Health, Ingestion, Polling, Windowing, Routes, Coachmark,
        FiniteSetTheorems, SequenceTheorems, WellFoundedInduction, TLAPS

-------------------------------------------------------------------------------
(* Intake: however many processes take the webhooks, however often each is *)
(* sent and whatever fails, an external id has one interview, and every    *)
(* answer names an interview of its own recording.                         *)

IntakeTypes ==
    /\ rows \in Seq(Recordings)
    /\ request \in [ApiProcesses -> Work \cup {IDLE}]
    /\ answers \in [Recordings -> SUBSET Nat]

\* No two rows of one external id.
RowsDiffer == \A i, j \in DOMAIN rows : rows[i] = rows[j] /\ rows[i] \notin Anonymous => i = j

\* A process enqueues a row it has stored, of its own recording.
EnqueuesItsOwn ==
    \A p \in ApiProcesses :
        request[p] # IDLE /\ request[p].at = "enqueue" =>
            request[p].id \in DOMAIN rows /\ rows[request[p].id] = request[p].recording

AnswersTrue == \A r \in Recordings : answers[r] \subseteq {i \in DOMAIN rows : rows[i] = r}

IntakeInvariant == IntakeTypes /\ RowsDiffer /\ EnqueuesItsOwn /\ AnswersTrue

-------------------------------------------------------------------------------

\* The statement of each part of the invariant is about these variables alone.
LEMMA SameIntake ==
  ASSUME IntakeInvariant, UNCHANGED <<rows, request, answers>>
  PROVE  IntakeInvariant'
BY DEF IntakeInvariant, IntakeTypes, RowsDiffer, EnqueuesItsOwn, AnswersTrue

\* A process whose request ends without an answer disturbs nothing.
LEMMA RefuseKeeps ==
  ASSUME IntakeInvariant, NEW p \in ApiProcesses, Refuse(p), UNCHANGED rows
  PROVE  IntakeInvariant'
<1>1. IntakeTypes'
  BY DEF IntakeInvariant, IntakeTypes, Refuse
<1>2. RowsDiffer' /\ AnswersTrue'
  BY DEF IntakeInvariant, RowsDiffer, AnswersTrue, Refuse
<1>3. EnqueuesItsOwn'
  BY DEF IntakeInvariant, IntakeTypes, EnqueuesItsOwn, Refuse
<1> QED BY <1>1, <1>2, <1>3 DEF IntakeInvariant

\* An answer is true if the row it names is of the recording asked about.
LEMMA AcceptKeeps ==
  ASSUME IntakeInvariant, NEW p \in ApiProcesses, request[p] # IDLE, NEW id \in DOMAIN rows,
         rows[id] = request[p].recording, Accept(p, id), UNCHANGED rows
  PROVE  IntakeInvariant'
<1>1. request[p] \in Work /\ id \in Nat
  BY DEF IntakeInvariant, IntakeTypes
<1>2. IntakeTypes'
  BY <1>1 DEF IntakeInvariant, IntakeTypes, Accept, Work
<1>3. RowsDiffer'
  BY DEF IntakeInvariant, RowsDiffer
<1>4. EnqueuesItsOwn'
  BY DEF IntakeInvariant, IntakeTypes, EnqueuesItsOwn, Accept
<1>5. AnswersTrue'
  <2> SUFFICES ASSUME NEW r \in Recordings, NEW i \in answers'[r]
               PROVE  i \in DOMAIN rows /\ rows[i] = r
    BY DEF AnswersTrue, Accept
  <2>1. CASE r = request[p].recording
    <3>1. i \in answers[r] \cup {id}
      BY <2>1 DEF Accept, IntakeInvariant, IntakeTypes
    <3> QED BY <2>1, <3>1 DEF IntakeInvariant, AnswersTrue
  <2>2. CASE r # request[p].recording
    BY <2>2 DEF Accept, IntakeInvariant, IntakeTypes, AnswersTrue
  <2> QED BY <2>1, <2>2
<1> QED BY <1>2, <1>3, <1>4, <1>5 DEF IntakeInvariant

\* A row that the unique index lets in is the only one of its external id.
LEMMA AppendKeeps ==
  ASSUME IntakeInvariant, NEW p \in ApiProcesses, request[p] # IDLE, Unique(p),
         rows' = Append(rows, request[p].recording), UNCHANGED answers
  PROVE  /\ rows' \in Seq(Recordings) /\ RowsDiffer' /\ AnswersTrue'
         /\ DOMAIN rows \subseteq DOMAIN rows' /\ \A i \in DOMAIN rows : rows'[i] = rows[i]
         /\ Len(rows) + 1 \in DOMAIN rows' /\ rows'[Len(rows) + 1] = request[p].recording
<1>1. request[p].recording \in Recordings /\ rows \in Seq(Recordings)
  BY DEF IntakeInvariant, IntakeTypes, Work
<1>2. /\ rows' \in Seq(Recordings)
      /\ DOMAIN rows' = DOMAIN rows \cup {Len(rows) + 1} /\ Len(rows) + 1 \notin DOMAIN rows
      /\ \A i \in DOMAIN rows : rows'[i] = rows[i]
      /\ rows'[Len(rows) + 1] = request[p].recording
  BY <1>1
<1>3. RowsDiffer'
  BY <1>2 DEF RowsDiffer, IntakeInvariant, Unique
<1>4. AnswersTrue'
  BY <1>2 DEF AnswersTrue, IntakeInvariant
<1> QED BY <1>2, <1>3, <1>4

-------------------------------------------------------------------------------

LEMMA IntakeStarts == IntakeInit => IntakeInvariant
<1> SUFFICES ASSUME IntakeInit PROVE IntakeInvariant
  OBVIOUS
<1>1. IntakeTypes
  BY DEF IntakeInit, IntakeTypes
<1>2. RowsDiffer /\ EnqueuesItsOwn /\ AnswersTrue
  BY DEF IntakeInit, RowsDiffer, EnqueuesItsOwn, AnswersTrue
<1> QED BY <1>1, <1>2 DEF IntakeInvariant

LEMMA DeliverKeeps ==
  ASSUME IntakeInvariant, NEW p \in ApiProcesses, NEW r \in Recordings, Deliver(p, r)
  PROVE  IntakeInvariant'
<1>1. IntakeTypes'
  BY DEF IntakeInvariant, IntakeTypes, Deliver, Work
<1>2. RowsDiffer' /\ AnswersTrue'
  BY DEF IntakeInvariant, RowsDiffer, AnswersTrue, Deliver
<1>3. EnqueuesItsOwn'
  BY DEF IntakeInvariant, IntakeTypes, EnqueuesItsOwn, Deliver
<1> QED BY <1>1, <1>2, <1>3 DEF IntakeInvariant

LEMMA LookUpKeeps ==
  ASSUME IntakeInvariant, NEW p \in ApiProcesses, LookUp(p)
  PROVE  IntakeInvariant'
<1> DEFINE known == {i \in DOMAIN rows : rows[i] = request[p].recording /\ rows[i] \notin Anonymous}
<1>1. CASE \E id \in known : Accept(p, id)
  BY <1>1, AcceptKeeps DEF LookUp
<1>2. CASE request' = [request EXCEPT ![p].at = "insert"] /\ UNCHANGED answers
  <2>1. request[p] \in Work /\ UNCHANGED rows
    BY DEF LookUp, IntakeInvariant, IntakeTypes
  <2>2. IntakeTypes'
    BY <1>2, <2>1 DEF IntakeInvariant, IntakeTypes, Work
  <2>3. RowsDiffer' /\ AnswersTrue'
    BY <1>2, <2>1 DEF IntakeInvariant, RowsDiffer, AnswersTrue
  <2>4. EnqueuesItsOwn'
    BY <1>2, <2>1 DEF IntakeInvariant, IntakeTypes, EnqueuesItsOwn, Work
  <2> QED BY <2>2, <2>3, <2>4 DEF IntakeInvariant
<1>3. CASE Refuse(p)
  BY <1>3, RefuseKeeps DEF LookUp
<1> QED BY <1>1, <1>2, <1>3 DEF LookUp

LEMMA InsertKeeps ==
  ASSUME IntakeInvariant, NEW p \in ApiProcesses, Insert(p)
  PROVE  IntakeInvariant'
<1>1. request[p] # IDLE /\ request[p] \in Work
  BY DEF Insert, IntakeInvariant, IntakeTypes
<1>2. CASE Refuse(p) /\ UNCHANGED rows
  BY <1>2, RefuseKeeps
<1>3. CASE /\ Unique(p) /\ UNCHANGED answers
           /\ rows' = Append(rows, request[p].recording)
           /\ request' = [request EXCEPT ![p].at = "enqueue", ![p].id = Len(rows) + 1]
  <2>1. /\ rows' \in Seq(Recordings) /\ RowsDiffer' /\ AnswersTrue'
        /\ DOMAIN rows \subseteq DOMAIN rows' /\ \A i \in DOMAIN rows : rows'[i] = rows[i]
        /\ Len(rows) + 1 \in DOMAIN rows' /\ rows'[Len(rows) + 1] = request[p].recording
    BY <1>1, <1>3, AppendKeeps
  <2>2. Len(rows) + 1 \in Nat
    BY DEF IntakeInvariant, IntakeTypes
  <2>3. /\ request' \in [ApiProcesses -> Work \cup {IDLE}]
        /\ request'[p].id = Len(rows) + 1 /\ request'[p].recording = request[p].recording
        /\ \A q \in ApiProcesses \ {p} : request'[q] = request[q]
    BY <1>1, <1>3, <2>2 DEF IntakeInvariant, IntakeTypes, Work
  <2>4. EnqueuesItsOwn'
    BY <2>1, <2>3 DEF EnqueuesItsOwn, IntakeInvariant
  <2> QED BY <1>3, <2>1, <2>3, <2>4 DEF IntakeInvariant, IntakeTypes
<1>4. CASE Unique(p) /\ Refuse(p) /\ rows' = Append(rows, request[p].recording)
  <2>1. /\ rows' \in Seq(Recordings) /\ RowsDiffer' /\ AnswersTrue'
        /\ DOMAIN rows \subseteq DOMAIN rows' /\ \A i \in DOMAIN rows : rows'[i] = rows[i]
    BY <1>1, <1>4, AppendKeeps DEF Refuse
  <2>2. IntakeTypes'
    BY <1>4, <2>1 DEF IntakeInvariant, IntakeTypes, Refuse
  <2>3. EnqueuesItsOwn'
    BY <1>4, <2>1 DEF IntakeInvariant, IntakeTypes, EnqueuesItsOwn, Refuse
  <2> QED BY <2>1, <2>2, <2>3 DEF IntakeInvariant
<1> QED BY <1>2, <1>3, <1>4 DEF Insert

LEMMA EnqueueKeeps ==
  ASSUME IntakeInvariant, NEW p \in ApiProcesses, Enqueue202(p)
  PROVE  IntakeInvariant'
<1>1. CASE Accept(p, request[p].id)
  <2>1. request[p].id \in DOMAIN rows /\ rows[request[p].id] = request[p].recording
    BY DEF Enqueue202, IntakeInvariant, EnqueuesItsOwn
  <2> QED BY <1>1, <2>1, AcceptKeeps DEF Enqueue202
<1>2. CASE Refuse(p)
  BY <1>2, RefuseKeeps DEF Enqueue202
<1> QED BY <1>1, <1>2 DEF Enqueue202

LEMMA IntakeStep == IntakeInvariant /\ [IntakeNext]_intakeVars => IntakeInvariant'
<1> SUFFICES ASSUME IntakeInvariant, [IntakeNext]_intakeVars PROVE IntakeInvariant'
  OBVIOUS
<1>1. CASE \E p \in ApiProcesses, r \in Recordings : Deliver(p, r)
  BY <1>1, DeliverKeeps
<1>2. CASE \E p \in ApiProcesses : LookUp(p)
  BY <1>2, LookUpKeeps
<1>3. CASE \E p \in ApiProcesses : Insert(p)
  BY <1>3, InsertKeeps
<1>4. CASE \E p \in ApiProcesses : Enqueue202(p)
  BY <1>4, EnqueueKeeps
<1>5. CASE \E p \in ApiProcesses : ProcessDies(p)
  BY <1>5, RefuseKeeps DEF ProcessDies
<1>6. CASE ReconcileRows
  BY <1>6, SameIntake DEF ReconcileRows
<1>7. CASE UNCHANGED intakeVars
  BY <1>7, SameIntake DEF intakeVars
<1> QED BY <1>1, <1>2, <1>3, <1>4, <1>5, <1>6, <1>7 DEF IntakeNext, Serve

\* A set in which all members are equal has one at most.
LEMMA AtMostOne ==
  ASSUME NEW S, \A x, y \in S : x = y
  PROVE  Cardinality(S) <= 1
<1>1. CASE S = {}
  BY <1>1, FS_EmptySet
<1>2. CASE S # {}
  <2>1. PICK x \in S : TRUE
    BY <1>2
  <2>2. S = {x}
    BY <2>1
  <2> QED BY <2>2, FS_Singleton
<1> QED BY <1>1, <1>2

LEMMA InvariantSaysOne == IntakeInvariant => OneInterviewPerRecording
<1> SUFFICES ASSUME IntakeInvariant, NEW r \in Recordings
             PROVE  /\ r \notin Anonymous => Cardinality({i \in DOMAIN rows : rows[i] = r}) <= 1
                    /\ answers[r] \subseteq {i \in DOMAIN rows : rows[i] = r}
  BY DEF OneInterviewPerRecording
<1>1. ASSUME r \notin Anonymous
      PROVE  Cardinality({i \in DOMAIN rows : rows[i] = r}) <= 1
  <2>1. \A x, y \in {i \in DOMAIN rows : rows[i] = r} : x = y
    BY <1>1 DEF IntakeInvariant, RowsDiffer
  <2> QED BY <2>1, AtMostOne
<1> QED BY <1>1 DEF IntakeInvariant, AnswersTrue

\* A webhook that is sent again, to whichever process, creates no second
\* interview, and is answered with the one there is (src/app/main.py:207-268).
THEOREM RecordingsAreTakenOnce == IntakeSpec => []OneInterviewPerRecording
<1>1. IntakeSpec => []IntakeInvariant
  BY IntakeStarts, IntakeStep, PTL DEF IntakeSpec
<1> QED BY <1>1, InvariantSaysOne, PTL

-------------------------------------------------------------------------------
(* Attempt: for any limit on the audio and any number of jobs and kills,   *)
(* the temporary files are accounted for, the two families of models never *)
(* share the memory of a work-horse, the model is asked again with its own *)
(* mistakes, and a published scorecard was announced on every channel.     *)

Stages == {"none", "begin", "transcribe", "transcribed", "diarize", "diarized", "score", "ask", "scored",
           "notify", "failed", "exit"}

\* The scorecard awaits its approver from the end of the scoring on, and no job works
\* on it then but the one that published it.
RowInvariant ==
    /\ committed \in {RECEBIDA, TRANSCREVENDO, DIARIZANDO, PONTUANDO, FALHOU, AGUARDANDO}
    /\ committed = AGUARDANDO => stage \in {"none", "notify", "failed", "exit"}
    /\ stage = "notify" => committed = AGUARDANDO

\* The recording, as the job holds it: nothing, its own path, or a temporary file.
\* A job downloads only while it has no audio, once, and closes what it opened; what
\* it leaves on disk it is working on or could not remove.
FilesInvariant ==
    /\ stage \in Stages /\ jobs \in Nat /\ (stage # "none" => jobs > 0)
    /\ audio \in Nat \cup {NULL} /\ download \in Downloads \cup {NULL} /\ downloads \in {0, 1}
    /\ files \subseteq Nat \ {0}
    /\ stage = "none" => audio = NULL
    /\ download # NULL => audio = NULL /\ (ToTranscribe \/ ToDiarize) /\ download.file \in files
    /\ stage # "none" /\ audio = NULL => downloads = 0
    /\ IsTemp(audio) => audio \in files
    /\ \A f \in files \ lost : f = audio \/ (download # NULL /\ f = download.file)

\* A job has no models before it transcribes, and the diarizer's alone after it.
ModelsInvariant ==
    /\ stage \in {"none", "begin", "transcribe"} => models = {}
    /\ "pyannote" \in models => models = {"pyannote"}

\* What is left of an announcement when nobody is at it any more.
AllToldOrNone ==
    Len(sent) = Len(channels) \/ cutShort = "killed" \/ (cutShort = "unread" /\ sent = <<>>)

\* The channels are told in order and only once there is something to approve.
ChannelsInvariant ==
    /\ channels \in Seq({"slack", "webhook"})
    /\ sent \in Seq([channel : {"slack", "webhook"}, ok : BOOLEAN])
    /\ Len(sent) <= Len(channels)
    /\ \A i \in 1 .. Len(sent) : sent[i].channel = channels[i]
    /\ committed # AGUARDANDO => sent = <<>>
    /\ committed = AGUARDANDO /\ stage # "notify" => AllToldOrNone

\* The conversation after k invalid answers.
Conversation(k) ==
    /\ messages \in Seq([role : {"system", "user", "assistant"}, about : Nat])
    /\ Len(messages) = 2 * (k + 1)
    /\ messages[1].role = "system" /\ messages[2].role = "user"
    /\ \A n \in 1 .. k : /\ messages[2 * n + 1] = [role |-> "assistant", about |-> n]
                         /\ messages[2 * n + 2] = [role |-> "user", about |-> n]

\* The model is asked again with its answers so far, of which there are fewer than
\* it may give.
MistakesInvariant == stage = "ask" => \E k \in 0 .. MAX_ATTEMPTS - 1 : Conversation(k)

AttemptInvariant == RowInvariant /\ FilesInvariant /\ ModelsInvariant /\ ChannelsInvariant /\ MistakesInvariant

-------------------------------------------------------------------------------
(* The status of the row. *)

LEMMA Begins ==
  ASSUME RowInvariant, Begin
  PROVE  /\ stage' \in {"transcribe", "diarize", "score", "failed"}
         /\ committed' \in {RECEBIDA, TRANSCREVENDO, DIARIZANDO, PONTUANDO, FALHOU}
<1>1. committed \in {RECEBIDA, TRANSCREVENDO, DIARIZANDO, PONTUANDO, FALHOU} /\ stage = "begin"
  BY DEF RowInvariant, Begin
<1>2. ResumeStatus \in {TRANSCREVENDO, DIARIZANDO, PONTUANDO}
  BY DEF ResumeStatus
<1>3. \A s \in {TRANSCREVENDO, DIARIZANDO, PONTUANDO} : StageOf[s] \in {"transcribe", "diarize", "score"}
  BY DEF StageOf
<1>4. CASE committed = FALHOU
  BY <1>1, <1>2, <1>3, <1>4 DEF Begin, MoveOn, Raise
<1>5. CASE committed = RECEBIDA
  BY <1>5 DEF Begin, MoveOn, Raise, RECEBIDA, FALHOU
<1>6. CASE committed \in {TRANSCREVENDO, DIARIZANDO, PONTUANDO}
  BY <1>3, <1>6 DEF Begin, RECEBIDA, FALHOU, TRANSCREVENDO, DIARIZANDO, PONTUANDO
<1> QED BY <1>1, <1>4, <1>5, <1>6

\* FALHOU is no successor of the status that awaits the approver.
LEMMA NoFailureAfterwards == FALHOU \notin VALID_TRANSITIONS[AGUARDANDO]
BY DEF VALID_TRANSITIONS, InterviewStatuses, RECEBIDA, TRANSCREVENDO, DIARIZANDO, PONTUANDO, AGUARDANDO,
       APROVADA, REJEITADA, FALHOU

LEMMA RowStep == RowInvariant /\ [AttemptNext]_attemptVars => RowInvariant'
<1> SUFFICES ASSUME RowInvariant, [AttemptNext]_attemptVars PROVE RowInvariant'
  OBVIOUS
<1> USE DEF RowInvariant
<1>0. AGUARDANDO \notin {RECEBIDA, TRANSCREVENDO, DIARIZANDO, PONTUANDO, FALHOU}
  BY DEF RECEBIDA, TRANSCREVENDO, DIARIZANDO, PONTUANDO, AGUARDANDO, FALHOU
<1>1. CASE Begin
  BY <1>0, <1>1, Begins
<1>2. CASE Fork
  BY <1>2 DEF Fork, Settled, checkpoints
<1>3. CASE Transcribed \/ Diarized
  BY <1>0, <1>3 DEF Transcribed, Diarized, MoveOn, Raise
<1>4. CASE Publish
  BY <1>4 DEF Publish, MoveOn, Raise
<1>5. CASE NotifyUnread \/ Notify
  BY <1>5 DEF NotifyUnread, Notify, Raise, checkpoints
<1>6. CASE RecordFailure
  BY <1>0, <1>6, NoFailureAfterwards DEF RecordFailure
<1>7. CASE Exit \/ Killed
  BY <1>7 DEF Exit, Killed, checkpoints
<1>8. CASE ResolveLocal \/ OpenDownload \/ Chunk \/ DownloadEnds
  <2>1. stage' \in {stage, "failed"} /\ committed' = committed
    BY <1>8 DEF ResolveLocal, OpenDownload, Chunk, DownloadEnds, AbandonDownload, Raise, checkpoints
  <2> QED BY <2>1
<1>9. CASE Transcribe \/ Diarize \/ BeginScoring \/ Ask
  <2>1. stage' # "notify" /\ committed' = committed /\ committed # AGUARDANDO
    BY <1>9 DEF Transcribe, ToTranscribe, Diarize, ToDiarize, BeginScoring, Ask, Raise, checkpoints
  <2> QED BY <2>1
<1>10. CASE UNCHANGED attemptVars
  BY <1>10 DEF attemptVars, checkpoints
<1> QED BY <1>1, <1>2, <1>3, <1>4, <1>5, <1>6, <1>7, <1>8, <1>9, <1>10 DEF AttemptNext, WorkHorse

-------------------------------------------------------------------------------
(* The temporary files. *)

LEMMA FilesStart == AttemptInit => FilesInvariant
BY AttemptAssumption DEF AttemptInit, FilesInvariant, Stages, IsTemp, Recording

\* A job that ends or is killed has nothing open, and what it leaves is lost.
LEMMA FilesAtTheEnd ==
  ASSUME FilesInvariant, Exit \/ Killed
  PROVE  FilesInvariant'
<1>1. CASE Exit
  <2>1. download = NULL /\ (IsTemp(audio) \/ audio \notin files)
    BY <1>1, AttemptAssumption DEF FilesInvariant, ToTranscribe, ToDiarize, Exit, Forgotten, IsTemp, Recording
  <2>2. files' \subseteq files /\ \A f \in files' \ lost' : f # audio /\ f \in files \ lost
    BY <1>1, <2>1 DEF Exit, Cleanup
  <2>3. \A f \in files' \ lost' : f = audio
    BY <2>1, <2>2 DEF FilesInvariant
  <2> QED
    BY <1>1, <2>1, <2>2, <2>3, AttemptAssumption DEF FilesInvariant, Exit, Forgotten, counters, Stages, IsTemp
<1>2. CASE Killed
  <2>1. \A f \in files' \ lost' : f \in files \ lost /\ f # audio /\ (download # NULL => f # download.file)
    BY <1>2 DEF Killed
  <2>2. files' \ lost' = {}
    BY <2>1 DEF FilesInvariant
  <2> QED BY <1>2, <2>2, AttemptAssumption DEF FilesInvariant, Killed, Forgotten, Stages, IsTemp
<1> QED BY <1>1, <1>2

\* A download that is given up closes its file, and removes it or loses it.
LEMMA FilesWhenAbandoned ==
  ASSUME FilesInvariant, download # NULL, AbandonDownload, UNCHANGED <<audio, jobs, downloads>>
  PROVE  FilesInvariant'
<1>1. audio = NULL /\ download.file \in files
  BY DEF FilesInvariant
<1>2. files' \subseteq files /\ \A f \in files' \ lost' : f \in files \ lost /\ f # download.file
  BY DEF AbandonDownload
<1>3. files' \ lost' = {}
  BY <1>1, <1>2, AttemptAssumption DEF FilesInvariant
<1> QED
  BY <1>1, <1>2, <1>3, AttemptAssumption DEF FilesInvariant, ToTranscribe, ToDiarize, AbandonDownload, Raise, Stages,
                                               IsTemp

LEMMA FilesWhileDownloading ==
  ASSUME FilesInvariant, OpenDownload \/ Chunk \/ DownloadEnds
  PROVE  FilesInvariant'
<1>1. CASE OpenDownload
  <2>1. audio = NULL /\ download = NULL /\ (ToTranscribe \/ ToDiarize) /\ jobs \in Nat \ {0} /\ downloads = 0
    BY <1>1 DEF OpenDownload, NeedsAudio, ToTranscribe, ToDiarize, FilesInvariant
  <2>2. files \ lost = {}
    BY <2>1, AttemptAssumption DEF FilesInvariant
  <2>3. CASE files' = files \cup {jobs} /\ download' = [file |-> jobs, written |-> 0] /\ UNCHANGED stage
    <3>1. download' \in Downloads /\ download'.file = jobs /\ download' # NULL
      BY <2>1, <2>3, AttemptAssumption DEF Downloads
    <3> QED
      BY <1>1, <2>1, <2>2, <2>3, <3>1, AttemptAssumption DEF FilesInvariant, ToTranscribe, ToDiarize, OpenDownload, checkpoints, counters, IsTemp
  <2>4. CASE Raise /\ UNCHANGED <<files, download>>
    BY <1>1, <2>1, <2>4, AttemptAssumption DEF FilesInvariant, ToTranscribe, ToDiarize, OpenDownload, counters, Raise, Stages, IsTemp
  <2> QED BY <1>1, <2>3, <2>4 DEF OpenDownload
<1>2. CASE Chunk
  <2>1. CASE AbandonDownload
    BY <1>2, <2>1, FilesWhenAbandoned DEF Chunk, counters
  <2>2. CASE /\ download' = [download EXCEPT !.written = @ + 1]
             /\ UNCHANGED <<stage, files, lost>>
    <3>1. download \in Downloads
      BY <1>2 DEF Chunk, FilesInvariant
    <3>2. download' \in Downloads /\ download'.file = download.file /\ download' # NULL
      BY <2>2, <3>1, AttemptAssumption DEF Downloads
    <3> QED BY <1>2, <2>2, <3>1, <3>2 DEF FilesInvariant, ToTranscribe, ToDiarize, Chunk, checkpoints, counters, IsTemp
  <2> QED BY <1>2, <2>1, <2>2 DEF Chunk
<1>3. CASE DownloadEnds
  <2>1. CASE AbandonDownload /\ UNCHANGED <<audio, downloads>>
    BY <1>3, <2>1, FilesWhenAbandoned DEF DownloadEnds
  <2>2. CASE /\ audio' = download.file /\ download' = NULL /\ downloads' = downloads + 1
             /\ UNCHANGED <<stage, files, lost>>
    <3>1. /\ download \in Downloads /\ download.file \in files /\ audio = NULL
          /\ stage \in {"transcribe", "diarize"} /\ downloads = 0
      BY <1>3, AttemptAssumption DEF DownloadEnds, FilesInvariant, ToTranscribe, ToDiarize
    <3>2. \A f \in files \ lost : f = download.file
      BY <3>1, AttemptAssumption DEF FilesInvariant
    <3> QED
      BY <1>3, <2>2, <3>1, <3>2, AttemptAssumption DEF FilesInvariant, DownloadEnds, IsTemp, Downloads
  <2> QED BY <1>3, <2>1, <2>2 DEF DownloadEnds
<1> QED BY <1>1, <1>2, <1>3

\* Between two stages the job keeps its audio, and starts none that needs it.
LEMMA FilesBetweenStages ==
  ASSUME RowInvariant, FilesInvariant,
         \/ Fork \/ Begin \/ Transcribe \/ Transcribed \/ Diarize \/ Diarized \/ BeginScoring \/ Ask
         \/ Publish \/ NotifyUnread \/ Notify \/ RecordFailure
  PROVE  FilesInvariant'
<1>1. CASE Fork
  <2>1. /\ stage = "none" /\ stage' = "begin" /\ jobs' = jobs + 1 /\ downloads' = 0
        /\ UNCHANGED <<audio, download, files, lost>>
    BY <1>1 DEF Fork, memory
  <2>2. audio = NULL /\ download = NULL
    BY <2>1 DEF FilesInvariant, ToTranscribe, ToDiarize
  <2>3. audio' = NULL /\ download' = NULL /\ stage' \in Stages /\ jobs' \in Nat /\ jobs' > 0
    BY <2>1, <2>2 DEF FilesInvariant, Stages
  <2> QED BY <2>1, <2>2, <2>3 DEF FilesInvariant, IsTemp
<1>2. CASE \/ Begin \/ Transcribe \/ Transcribed \/ Diarize \/ Diarized \/ BeginScoring \/ Ask
           \/ Publish \/ NotifyUnread \/ Notify \/ RecordFailure
  <2>1. UNCHANGED <<audio, download, files, lost, jobs, downloads>>
    BY <1>2 DEF Begin, Transcribe, Transcribed, Diarize, Diarized, BeginScoring, Ask, Publish, NotifyUnread,
                Notify, RecordFailure, memory, counters
  <2>2. ~(ToTranscribe \/ ToDiarize) \/ download = NULL
    <3>1. CASE Transcribe \/ Diarize
      BY <3>1, AttemptAssumption DEF Transcribe, Diarize, FilesInvariant
    <3>2. CASE Transcribed \/ Diarized
      BY <3>2 DEF Transcribed, Diarized, ToTranscribe, ToDiarize
    <3>3. CASE Begin \/ BeginScoring \/ Ask \/ Publish \/ NotifyUnread \/ Notify \/ RecordFailure
      BY <3>3 DEF Begin, BeginScoring, Ask, Publish, NotifyUnread, Notify, RecordFailure, ToTranscribe, ToDiarize
    <3> QED BY <1>2, <3>1, <3>2, <3>3
  <2>3. stage # "none" /\ stage' \in Stages \ {"none"}
    <3>1. CASE Begin
      BY <3>1, Begins DEF Begin, Stages
    <3>2. CASE Transcribe \/ Transcribed \/ Diarize \/ Diarized
      BY <3>2 DEF Transcribe, ToTranscribe, Transcribed, Diarize, ToDiarize, Diarized, MoveOn, Raise, Stages
    <3>3. CASE BeginScoring \/ Ask \/ Publish
      BY <3>3 DEF BeginScoring, Ask, Publish, MoveOn, Raise, Stages
    <3>4. CASE NotifyUnread \/ Notify \/ RecordFailure
      BY <3>4 DEF NotifyUnread, Notify, RecordFailure, Raise, Stages
    <3> QED BY <1>2, <3>1, <3>2, <3>3, <3>4
  <2>4. download = NULL
    BY <2>2, <2>3 DEF FilesInvariant
  <2> QED BY <2>1, <2>3, <2>4 DEF FilesInvariant, IsTemp
<1> QED BY <1>1, <1>2

\* A local recording is used where it is.
LEMMA FilesOfALocalRecording ==
  ASSUME FilesInvariant, ResolveLocal
  PROVE  FilesInvariant'
<1>1. audio = NULL /\ download = NULL /\ download' = NULL /\ stage \in {"transcribe", "diarize"}
  BY DEF ResolveLocal, NeedsAudio, ToTranscribe, ToDiarize
<1>2. UNCHANGED <<jobs, downloads, files, lost>>
  BY DEF ResolveLocal, counters
<1>3. \/ audio' = Recording /\ stage' = stage
      \/ audio' = NULL /\ stage' = "failed"
  BY <1>1 DEF ResolveLocal, Raise
<1> QED BY <1>1, <1>2, <1>3, AttemptAssumption DEF FilesInvariant, Stages, IsTemp, Recording

LEMMA FilesStep == RowInvariant /\ FilesInvariant /\ [AttemptNext]_attemptVars => FilesInvariant'
<1> SUFFICES ASSUME RowInvariant, FilesInvariant, [AttemptNext]_attemptVars PROVE FilesInvariant'
  OBVIOUS
<1>1. CASE UNCHANGED attemptVars
  BY <1>1 DEF attemptVars, memory, counters, checkpoints, FilesInvariant, ToTranscribe, ToDiarize, IsTemp
<1>2. CASE AttemptNext
  BY <1>2, FilesAtTheEnd, FilesWhileDownloading, FilesBetweenStages, FilesOfALocalRecording
     DEF AttemptNext, WorkHorse
<1> QED BY <1>1, <1>2

-------------------------------------------------------------------------------
(* The models and the channels. *)

LEMMA ModelsStep == RowInvariant /\ ModelsInvariant /\ [AttemptNext]_attemptVars => ModelsInvariant'
<1> SUFFICES ASSUME RowInvariant, ModelsInvariant, [AttemptNext]_attemptVars PROVE ModelsInvariant'
  OBVIOUS
<1>1. CASE Transcribe
  <2>1. PICK loaded \in Loads : models' = models \cup loaded
    BY <1>1 DEF Transcribe
  <2>2. models = {} /\ "pyannote" \notin loaded
    BY <1>1, <2>1 DEF ModelsInvariant, Transcribe, ToTranscribe, Loads
  <2>3. stage' \in {"transcribed", "failed"}
    BY <1>1 DEF Transcribe, Raise
  <2> QED BY <2>1, <2>2, <2>3 DEF ModelsInvariant
<1>2. CASE Diarize
  BY <1>2 DEF ModelsInvariant, Diarize, Raise, Evicted
<1>3. CASE Fork
  BY <1>3 DEF ModelsInvariant, Fork, memory
<1>4. CASE Exit \/ Killed
  BY <1>4 DEF ModelsInvariant, Exit, Killed, Forgotten
<1>5. CASE ResolveLocal \/ OpenDownload \/ Chunk \/ DownloadEnds
  <2>1. models' = models /\ stage' \in {stage, "failed"}
    BY <1>5 DEF ResolveLocal, OpenDownload, Chunk, DownloadEnds, Raise, AbandonDownload
  <2> QED BY <2>1 DEF ModelsInvariant
<1>6. CASE Begin
  <2>1. models' = models /\ models = {}
    BY <1>6 DEF Begin, memory, ModelsInvariant
  <2> QED BY <2>1 DEF ModelsInvariant
<1>7. CASE \/ Transcribed \/ Diarized \/ BeginScoring \/ Ask \/ Publish \/ NotifyUnread \/ Notify \/ RecordFailure
  <2>1. models' = models
    BY <1>7 DEF Transcribed, Diarized, BeginScoring, Ask, Publish, NotifyUnread, Notify, RecordFailure, memory
  <2>2. stage' \notin {"none", "begin", "transcribe"}
    BY <1>7 DEF Transcribed, Diarized, BeginScoring, Ask, Publish, NotifyUnread, Notify, RecordFailure, MoveOn, Raise
  <2> QED BY <2>1, <2>2 DEF ModelsInvariant
<1>8. CASE UNCHANGED attemptVars
  BY <1>8 DEF ModelsInvariant, attemptVars, memory
<1> QED BY <1>1, <1>2, <1>3, <1>4, <1>5, <1>6, <1>7, <1>8 DEF AttemptNext, WorkHorse

LEMMA ChannelsStart == AttemptInit => ChannelsInvariant
<1> SUFFICES ASSUME AttemptInit PROVE ChannelsInvariant
  OBVIOUS
<1>1. channels \in {<<>>, <<"slack">>, <<"webhook">>, <<"slack", "webhook">>}
  BY DEF AttemptInit
<1>2. channels \in Seq({"slack", "webhook"})
  <2>1. CASE channels = <<>>
    BY <2>1
  <2>2. CASE channels = <<"slack">>
    BY <2>2
  <2>3. CASE channels = <<"webhook">>
    BY <2>3
  <2>4. CASE channels = <<"slack", "webhook">>
    BY <2>4
  <2> QED BY <1>1, <2>1, <2>2, <2>3, <2>4
<1>3. sent \in Seq([channel : {"slack", "webhook"}, ok : BOOLEAN]) /\ Len(sent) = 0
  BY DEF AttemptInit
<1>4. sent = <<>> /\ committed # AGUARDANDO
  BY DEF AttemptInit, RECEBIDA, AGUARDANDO
<1> QED BY <1>2, <1>3, <1>4 DEF ChannelsInvariant

\* The steps of a job that has nothing to announce.
LEMMA ChannelsElsewhere ==
  ASSUME ChannelsInvariant, UNCHANGED <<channels, sent>>, committed # AGUARDANDO, committed' # AGUARDANDO
  PROVE  ChannelsInvariant'
BY DEF ChannelsInvariant

\* One channel after the other, until all of them were tried.
LEMMA NotifyTells ==
  ASSUME ChannelsInvariant, Notify, committed = AGUARDANDO
  PROVE  ChannelsInvariant'
<1>1. UNCHANGED <<channels, committed, cutShort>> /\ stage = "notify"
  BY DEF Notify, choices, checkpoints
<1>2. CASE MoreChannels
  <2>1. PICK ok \in BOOLEAN : sent' = Append(sent, [channel |-> channels[Len(sent) + 1], ok |-> ok])
    BY <1>2 DEF Notify
  <2>2. Len(sent) + 1 \in 1 .. Len(channels) /\ channels[Len(sent) + 1] \in {"slack", "webhook"}
    BY <1>2 DEF MoreChannels, ChannelsInvariant
  <2>3. /\ sent' \in Seq([channel : {"slack", "webhook"}, ok : BOOLEAN]) /\ Len(sent') = Len(sent) + 1
        /\ \A i \in 1 .. Len(sent) : sent'[i] = sent[i]
        /\ sent'[Len(sent) + 1].channel = channels[Len(sent) + 1]
    BY <2>1, <2>2 DEF ChannelsInvariant
  <2>4. \A i \in 1 .. Len(sent') : sent'[i].channel = channels[i]
    BY <2>3 DEF ChannelsInvariant
  <2>5. stage' = "notify"
    BY <1>1, <1>2 DEF Notify
  <2>6. Len(sent') <= Len(channels)
    BY <2>2, <2>3 DEF ChannelsInvariant
  <2> QED BY <1>1, <2>3, <2>4, <2>5, <2>6 DEF ChannelsInvariant
<1>3. CASE ~MoreChannels
  <2>1. Len(sent) = Len(channels) /\ sent' = sent
    BY <1>3 DEF MoreChannels, ChannelsInvariant, Notify
  <2> QED BY <1>1, <2>1 DEF ChannelsInvariant, AllToldOrNone
<1> QED BY <1>2, <1>3

\* A job announces what it has published, and any other nothing.
LEMMA ChannelsStep ==
  RowInvariant /\ FilesInvariant /\ ChannelsInvariant /\ [AttemptNext]_attemptVars => ChannelsInvariant'
<1> SUFFICES ASSUME RowInvariant, FilesInvariant, ChannelsInvariant, [AttemptNext]_attemptVars PROVE ChannelsInvariant'
  OBVIOUS
<1>0. AGUARDANDO \notin {RECEBIDA, TRANSCREVENDO, DIARIZANDO, PONTUANDO, FALHOU}
  BY DEF RECEBIDA, TRANSCREVENDO, DIARIZANDO, PONTUANDO, AGUARDANDO, FALHOU
<1>1. CASE Publish
  <2>1. UNCHANGED <<channels, sent>> /\ committed # AGUARDANDO /\ sent = <<>>
    BY <1>1 DEF Publish, choices, RowInvariant, ChannelsInvariant
  <2>2. CASE committed' = AGUARDANDO
    <3>1. stage' = "notify" \/ (stage' = "failed" /\ cutShort' = "unread")
      BY <1>1, <2>1, <2>2 DEF Publish, MoveOn, Raise
    <3> QED BY <2>1, <3>1 DEF ChannelsInvariant, AllToldOrNone
  <2> QED BY <2>1, <2>2, ChannelsElsewhere
<1>2. CASE Notify
  BY <1>2, NotifyTells DEF Notify, RowInvariant
<1>3. CASE NotifyUnread
  BY <1>3 DEF NotifyUnread, Raise, choices, checkpoints, ChannelsInvariant, AllToldOrNone
<1>4. CASE Killed
  BY <1>4 DEF ChannelsInvariant, Killed, choices, checkpoints, AllToldOrNone
<1>5. CASE Fork
  BY <1>5, ChannelsElsewhere DEF Fork, Settled, choices, checkpoints, announced
<1>6. CASE Exit
  BY <1>6 DEF ChannelsInvariant, Exit, choices, checkpoints, announced, AllToldOrNone
<1>7. CASE RecordFailure
  <2>1. UNCHANGED <<channels, sent, cutShort>> /\ stage = "failed" /\ stage' = "exit"
    BY <1>7 DEF RecordFailure, choices, announced
  <2>2. CASE committed = AGUARDANDO
    <3>1. committed' = AGUARDANDO
      BY <1>7, <2>2, NoFailureAfterwards DEF RecordFailure
    <3> QED BY <2>1, <2>2, <3>1 DEF ChannelsInvariant, AllToldOrNone
  <2>3. CASE committed # AGUARDANDO
    BY <1>0, <1>7, <2>1, <2>3, ChannelsElsewhere DEF RecordFailure
  <2> QED BY <2>2, <2>3
<1>8. CASE Begin
  <2>1. UNCHANGED <<channels, sent>> /\ committed # AGUARDANDO
    BY <1>8 DEF Begin, choices, announced, RowInvariant
  <2> QED BY <1>0, <1>8, <2>1, Begins, ChannelsElsewhere
<1>9. CASE ResolveLocal \/ OpenDownload \/ Chunk \/ DownloadEnds
  <2>1. UNCHANGED <<channels, sent, cutShort, committed>>
    BY <1>9 DEF ResolveLocal, OpenDownload, Chunk, DownloadEnds, choices, announced, checkpoints
  <2>2. stage \in {"transcribe", "diarize"}
    BY <1>9 DEF ResolveLocal, OpenDownload, Chunk, DownloadEnds, NeedsAudio, ToTranscribe, ToDiarize, FilesInvariant
  <2>3. committed # AGUARDANDO
    BY <2>2 DEF RowInvariant
  <2> QED BY <2>1, <2>3, ChannelsElsewhere
<1>10. CASE Transcribe \/ Diarize \/ BeginScoring \/ Ask
  <2>1. UNCHANGED <<channels, sent, committed>> /\ committed # AGUARDANDO
    BY <1>10 DEF Transcribe, ToTranscribe, Diarize, ToDiarize, BeginScoring, Ask, choices, announced, checkpoints,
                 RowInvariant
  <2> QED BY <2>1, ChannelsElsewhere
<1>11. CASE Transcribed \/ Diarized
  <2>1. UNCHANGED <<channels, sent>> /\ committed # AGUARDANDO
    BY <1>11 DEF Transcribed, Diarized, choices, announced, RowInvariant
  <2>2. committed' # AGUARDANDO
    BY <1>0, <1>11, <2>1 DEF Transcribed, Diarized, MoveOn
  <2> QED BY <2>1, <2>2, ChannelsElsewhere
<1>12. CASE UNCHANGED attemptVars
  BY <1>12 DEF ChannelsInvariant, AllToldOrNone, attemptVars, choices, checkpoints, announced
<1> QED
  BY <1>1, <1>2, <1>3, <1>4, <1>5, <1>6, <1>7, <1>8, <1>9, <1>10, <1>11, <1>12 DEF AttemptNext, WorkHorse

-------------------------------------------------------------------------------
(* The conversation with the scoring model. *)

LEMMA EvenOrOdd ==
  ASSUME NEW i \in Int
  PROVE  \E m \in Int : i = 2 * m + 1 \/ i = 2 * m + 2
<1> DEFINE m == (i - 1) \div 2
<1>1. m \in Int /\ (i - 1 = 2 * m \/ i - 1 = 2 * m + 1)
  OBVIOUS
<1> QED BY <1>1

\* The assistant's messages are every second one from the third, so counting them
\* counts the attempts.
LEMMA AnswersCounted ==
  ASSUME NEW k \in Nat, Conversation(k)
  PROVE  Answers = k
<1> DEFINE S == {i \in DOMAIN messages : messages[i].role = "assistant"}
           f == [n \in 1 .. k |-> 2 * n + 1]
<1>1. DOMAIN messages = 1 .. 2 * (k + 1)
  BY DEF Conversation
<1>2. ASSUME NEW n \in 1 .. k
      PROVE  /\ 2 * n + 1 \in S /\ messages[2 * n + 2].role = "user"
             /\ 2 * n + 1 \in 1 .. 2 * (k + 1)
  <2>1. /\ messages[2 * n + 1] = [role |-> "assistant", about |-> n]
        /\ messages[2 * n + 2] = [role |-> "user", about |-> n]
    BY DEF Conversation
  <2>2. 2 * n + 1 \in 1 .. 2 * (k + 1)
    OBVIOUS
  <2> QED BY <1>1, <2>1, <2>2
<1>3. \A i \in S : \E n \in 1 .. k : i = 2 * n + 1
  <2>1. SUFFICES ASSUME NEW i \in S PROVE \E n \in 1 .. k : i = 2 * n + 1
    OBVIOUS
  <2>2. i \in 1 .. 2 * (k + 1) /\ i # 1 /\ i # 2
    BY <1>1 DEF Conversation
  <2>3. PICK n \in 1 .. k : i = 2 * n + 1 \/ i = 2 * n + 2
    <3>1. i \in Int /\ 3 <= i /\ i <= 2 * k + 2
      BY <2>2
    <3>2. PICK m \in Int : i = 2 * m + 1 \/ i = 2 * m + 2
      BY <3>1, EvenOrOdd
    <3>3. m \in 1 .. k
      BY <3>1, <3>2
    <3> QED BY <3>2, <3>3
  <2>4. i # 2 * n + 2
    BY <1>2, <2>3
  <2> QED BY <2>3, <2>4
<1>4. f \in Bijection(1 .. k, S)
  <2>1. f \in [1 .. k -> S] /\ \A n \in 1 .. k : f[n] = 2 * n + 1
    BY <1>2
  <2>2. \A m, n \in 1 .. k : f[m] = f[n] => m = n
    BY <2>1
  <2>3. \A i \in S : \E n \in 1 .. k : f[n] = i
    BY <1>3, <2>1
  <2> HIDE DEF f, S
  <2> QED BY <2>1, <2>2, <2>3 DEF Bijection, Injection, IsInjective, Surjection
<1>5. IsFiniteSet(1 .. k) /\ Cardinality(1 .. k) = k
  BY FS_Interval
<1>6. Cardinality(S) = k
  <2> HIDE DEF S, f
  <2> QED BY <1>4, <1>5, FS_Bijection DEF ExistsBijection
<1> QED BY <1>6 DEF Answers

LEMMA TwoMore ==
  ASSUME NEW M, NEW s \in Seq(M), NEW t \in Seq(M), Len(t) = 2
  PROVE  /\ s \o t \in Seq(M) /\ Len(s \o t) = Len(s) + 2
         /\ \A i \in 1 .. Len(s) : (s \o t)[i] = s[i]
         /\ (s \o t)[Len(s) + 1] = t[1] /\ (s \o t)[Len(s) + 2] = t[2]
<1>1. /\ s \o t \in Seq(M) /\ Len(s \o t) = Len(s) + Len(t)
      /\ \A i \in 1 .. Len(s) + Len(t) : (s \o t)[i] = IF i <= Len(s) THEN s[i] ELSE t[i - Len(s)]
  BY ConcatProperties
<1>2. Len(s) \in Nat
  OBVIOUS
<1>3. \A i \in 1 .. Len(s) : (s \o t)[i] = s[i]
  BY <1>1, <1>2
<1>4. ASSUME NEW j \in 1 .. 2 PROVE (s \o t)[Len(s) + j] = t[j]
  <2>1. PICK i \in 1 .. Len(s) + Len(t) : i = Len(s) + j
    BY <1>2
  <2>2. ~(i <= Len(s)) /\ i - Len(s) = j
    BY <1>2, <2>1
  <2> QED BY <1>1, <2>1, <2>2
<1> QED BY <1>1, <1>3, <1>4

LEMMA MistakesStep == RowInvariant /\ MistakesInvariant /\ [AttemptNext]_attemptVars => MistakesInvariant'
<1> SUFFICES ASSUME RowInvariant, MistakesInvariant, [AttemptNext]_attemptVars PROVE MistakesInvariant'
  OBVIOUS
<1>1. CASE Ask
  <2>1. SUFFICES ASSUME stage' = "ask" PROVE \E k \in 0 .. MAX_ATTEMPTS - 1 : Conversation(k)'
    BY DEF MistakesInvariant
  <2>2. PICK k \in 0 .. MAX_ATTEMPTS - 1 : Conversation(k)
    BY <1>1 DEF Ask, MistakesInvariant
  <2>3. k \in Nat /\ Answers = k
    BY <2>2, AnswersCounted DEF MAX_ATTEMPTS
  <2>4. messages' = Corrected /\ k + 1 # MAX_ATTEMPTS
    BY <1>1, <2>1, <2>3 DEF Ask, Raise
  <2>5. k + 1 \in 0 .. MAX_ATTEMPTS - 1
    BY <2>2, <2>4 DEF MAX_ATTEMPTS
  <2>6. Conversation(k + 1)'
    <3> DEFINE turn == <<[role |-> "assistant", about |-> k + 1], [role |-> "user", about |-> k + 1]>>
               M == [role : {"system", "user", "assistant"}, about : Nat]
    <3>1. messages \in Seq(M) /\ Len(messages) = 2 * (k + 1)
      BY <2>2 DEF Conversation
    <3>2. turn \in Seq(M) /\ Len(turn) = 2
      <4>1. k + 1 \in Nat
        BY <2>3
      <4>2. [role |-> "assistant", about |-> k + 1] \in M /\ [role |-> "user", about |-> k + 1] \in M
        BY <4>1
      <4> QED BY <4>2
    <3>3. messages' = messages \o turn
      BY <2>3, <2>4 DEF Corrected
    <3>4. turn[1] = [role |-> "assistant", about |-> k + 1] /\ turn[2] = [role |-> "user", about |-> k + 1]
      OBVIOUS
    <3> HIDE DEF turn, M
    <3>5. /\ messages' \in Seq(M) /\ Len(messages') = 2 * (k + 1) + 2
          /\ \A i \in 1 .. 2 * (k + 1) : messages'[i] = messages[i]
          /\ messages'[2 * (k + 1) + 1] = turn[1] /\ messages'[2 * (k + 1) + 2] = turn[2]
      BY <3>1, <3>2, <3>3, TwoMore
    <3>6. ASSUME NEW n \in 1 .. k + 1
          PROVE  /\ messages'[2 * n + 1] = [role |-> "assistant", about |-> n]
                 /\ messages'[2 * n + 2] = [role |-> "user", about |-> n]
      <4>1. CASE n = k + 1
        BY <3>4, <3>5, <4>1
      <4>2. CASE n \in 1 .. k
        <5>1. 2 * n + 1 \in 1 .. 2 * (k + 1) /\ 2 * n + 2 \in 1 .. 2 * (k + 1)
          BY <2>3, <4>2
        <5>2. messages'[2 * n + 1] = messages[2 * n + 1] /\ messages'[2 * n + 2] = messages[2 * n + 2]
          BY <3>5, <5>1
        <5>3. /\ messages[2 * n + 1] = [role |-> "assistant", about |-> n]
              /\ messages[2 * n + 2] = [role |-> "user", about |-> n]
          BY <2>2, <4>2 DEF Conversation
        <5> QED BY <5>2, <5>3
      <4> QED BY <2>3, <4>1, <4>2
    <3>7. messages'[1].role = "system" /\ messages'[2].role = "user"
      <4>1. 1 \in 1 .. 2 * (k + 1) /\ 2 \in 1 .. 2 * (k + 1)
        BY <2>3
      <4> QED BY <2>2, <3>5, <4>1 DEF Conversation
    <3>8. Len(messages') = 2 * (k + 1 + 1)
      BY <2>3, <3>5
    <3> QED BY <3>5, <3>6, <3>7, <3>8 DEF Conversation, M
  <2> QED BY <2>5, <2>6
<1>2. CASE BeginScoring
  <2>1. SUFFICES ASSUME stage' = "ask" PROVE Conversation(0)'
    BY DEF MistakesInvariant, MAX_ATTEMPTS
  <2>2. messages' = <<[role |-> "system", about |-> 0], [role |-> "user", about |-> 0]>>
    BY <1>2, <2>1 DEF BeginScoring, Raise
  <2> QED BY <2>2 DEF Conversation
<1>3. CASE UNCHANGED attemptVars
  BY <1>3 DEF attemptVars, memory, MistakesInvariant, Conversation
<1>4. CASE ResolveLocal \/ OpenDownload \/ Chunk \/ DownloadEnds
  <2>1. stage' # "ask" \/ (stage = "ask" /\ messages' = messages)
    BY <1>4 DEF ResolveLocal, OpenDownload, Chunk, DownloadEnds, AbandonDownload, Raise
  <2>2. messages' = messages /\ (stage' = "ask" => stage = "ask")
    BY <1>4, <2>1 DEF ResolveLocal, OpenDownload, Chunk, DownloadEnds
  <2> QED BY <2>2 DEF MistakesInvariant, Conversation
<1>5. CASE \/ Fork \/ Exit \/ Killed \/ Begin \/ Transcribe \/ Transcribed \/ Diarize \/ Diarized
           \/ Publish \/ NotifyUnread \/ Notify \/ RecordFailure
  <2>1. stage' # "ask"
    <3>1. CASE Begin
      BY <3>1, Begins
    <3>2. CASE Fork \/ Exit \/ Killed \/ Transcribe \/ Transcribed \/ Diarize \/ Diarized
      BY <3>2 DEF Fork, Exit, Killed, Transcribe, Transcribed, Diarize, Diarized, MoveOn, Raise
    <3>3. CASE Publish \/ NotifyUnread \/ Notify \/ RecordFailure
      BY <3>3 DEF Publish, NotifyUnread, Notify, RecordFailure, MoveOn, Raise
    <3> QED BY <1>5, <3>1, <3>2, <3>3
  <2> QED BY <2>1 DEF MistakesInvariant
<1> QED BY <1>1, <1>2, <1>3, <1>4, <1>5 DEF AttemptNext, WorkHorse

-------------------------------------------------------------------------------

LEMMA AttemptHolds == AttemptSpec => []AttemptInvariant
<1>1. AttemptInit => ModelsInvariant
  BY DEF AttemptInit, ModelsInvariant
<1>2. AttemptInit => MistakesInvariant
  BY DEF AttemptInit, MistakesInvariant
<1>3. AttemptInit => RowInvariant
  BY DEF AttemptInit, RowInvariant, RECEBIDA, AGUARDANDO
<1>4. AttemptInit => AttemptInvariant
  BY <1>1, <1>2, <1>3, FilesStart, ChannelsStart DEF AttemptInvariant
<1>5. AttemptInvariant /\ [AttemptNext]_attemptVars => AttemptInvariant'
  BY RowStep, FilesStep, ModelsStep, ChannelsStep, MistakesStep DEF AttemptInvariant
<1> QED BY <1>4, <1>5, PTL DEF AttemptSpec

\* No job leaves a temporary file behind unless it was killed or could not remove
\* it, none uses one that is gone, and none downloads twice
\* (src/app/services.py:69-135).
THEOREM FilesAreAccounted == AttemptSpec => []TempFilesAccounted
<1>1. FilesInvariant => TempFilesAccounted
  BY DEF FilesInvariant, TempFilesAccounted
<1> QED BY <1>1, AttemptHolds, PTL DEF AttemptInvariant

\* The diarizer is never in memory beside the models of the transcription
\* (src/app/tasks.py:133-137, src/app/audio_processor.py:26-29).
THEOREM OneModelFamily == AttemptSpec => []ModelsNeverCoexist
<1>1. ModelsInvariant => ModelsNeverCoexist
  BY DEF ModelsInvariant, ModelsNeverCoexist
<1> QED BY <1>1, AttemptHolds, PTL DEF AttemptInvariant

\* A job gives back what it took of the disk and of the memory
\* (src/app/services.py:69-135, src/app/tasks.py:133-137).
THEOREM ResourcesAreAccounted == AttemptSpec => []ResourcesAccounted
<1>1. TempFilesAccounted /\ ModelsNeverCoexist => ResourcesAccounted
  BY DEF ResourcesAccounted
<1> QED BY <1>1, FilesAreAccounted, OneModelFamily, PTL

\* The channels are tried in order, each once and only of a published scorecard, and all
\* of them before its job is over, unless that was killed or could not read the row
\* again after its commit (src/app/notifications.py:196-206, src/app/tasks.py:172-179).
THEOREM ChannelsAllTold == AttemptSpec => []EveryChannelTried
<1>1. ChannelsInvariant => EveryChannelTried
  <2>1. ChannelsInvariant => \A i \in DOMAIN sent : sent[i].channel = channels[i]
    BY DEF ChannelsInvariant
  <2> QED BY <2>1 DEF ChannelsInvariant, AllToldOrNone, EveryChannelTried
<1> QED BY <1>1, AttemptHolds, PTL DEF AttemptInvariant

\* Whenever the model is asked again it sees its answers so far, in order, each with
\* what was wrong with it, and it is not asked a fourth time
\* (src/app/scoring.py:231-269).
THEOREM MistakesAreSeen == AttemptSpec => []ModelSeesItsMistakes
<1>1. MistakesInvariant => ModelSeesItsMistakes
  <2> SUFFICES ASSUME MistakesInvariant, stage = "ask" PROVE ModelSeesItsMistakes
    BY DEF ModelSeesItsMistakes
  <2>1. PICK k \in 0 .. MAX_ATTEMPTS - 1 : Conversation(k)
    BY DEF MistakesInvariant
  <2>2. k \in Nat /\ Answers = k /\ k < MAX_ATTEMPTS
    BY <2>1, AnswersCounted DEF MAX_ATTEMPTS
  <2> QED BY <2>1, <2>2 DEF ModelSeesItsMistakes, Conversation
<1> QED BY <1>1, AttemptHolds, PTL DEF AttemptInvariant

-------------------------------------------------------------------------------
(* ApiSettings: for any number of saves and reloads, the form, what is in  *)
(* force and what is stored are one configuration.                         *)

Configs == [url : FieldText(Urls), key : FieldText(Keys)]
Forms   == [url : FieldText(Urls), key : FieldText(Keys), saved : BOOLEAN, revealed : BOOLEAN]

\* What is in force is trimmed, the form is any text, and "saved" is said of fields
\* that read as what is in force.
SettingsInvariant ==
    /\ kept \in Configs /\ ParseConfig(kept) = config /\ config \in Configs
    /\ Normalize(config) = config
    /\ draft \in Forms \cup {NoForm}
    /\ SavedIsInForce

LEMMA WordsAre ==
  ASSUME NEW T, NEW w \in T
  PROVE  Words(w) \in FieldText(T) /\ Trim(Words(w)) = Words(w) /\ Words(w).words = w
<1>1. Words(w) \in FieldText(T) /\ Words(w).words = w
  BY DEF Words, FieldText
<1>2. PICK r \in [words : T, space : BOOLEAN] : r = [words |-> w, space |-> FALSE]
  OBVIOUS
<1>3. [r EXCEPT !.space = FALSE] = r
  BY <1>2
<1> QED BY <1>1, <1>2, <1>3 DEF Trim, Words

\* What is normalized reads back as it is, and is normal.
LEMMA NormalizeIs ==
  ASSUME NEW c, c.url \in FieldText(Urls), c.key \in FieldText(Keys)
  PROVE  /\ Normalize(c) \in Configs
         /\ Normalize(Normalize(c)) = Normalize(c)
         /\ ParseConfig(Normalize(c)) = Normalize(c)
<1>1. DEFAULT_CONFIG.url \in FieldText(Urls) /\ DEFAULT_CONFIG.url.words # "" /\ Trim(DEFAULT_CONFIG.url) = DEFAULT_CONFIG.url
  <2>1. DEFAULT_CONFIG.url = Words("localhost") /\ "localhost" \in Urls /\ "localhost" # ""
    BY DEF DEFAULT_CONFIG, Urls
  <2>2. Words("localhost") \in FieldText(Urls) /\ Trim(Words("localhost")) = Words("localhost") /\ Words("localhost").words = "localhost"
    BY <2>1, WordsAre
  <2> QED BY <2>1, <2>2
<1>2. ASSUME NEW T, NEW t \in FieldText(T)
      PROVE  Trim(t) \in FieldText(T) /\ Trim(Trim(t)) = Trim(t)
  BY DEF Trim, FieldText
<1>3. OrDefault(c.url) \in FieldText(Urls) /\ OrDefault(OrDefault(c.url)) = OrDefault(c.url)
  BY <1>1, <1>2 DEF OrDefault
<1>4. Trim(c.key) \in FieldText(Keys) /\ Trim(Trim(c.key)) = Trim(c.key)
  BY <1>2
<1> QED BY <1>3, <1>4 DEF Normalize, ParseConfig, Configs

LEMMA SettingsStep == SettingsInvariant /\ [ApiSettingsNext]_settingsVars => SettingsInvariant'
<1> SUFFICES ASSUME SettingsInvariant, [ApiSettingsNext]_settingsVars PROVE SettingsInvariant'
  OBVIOUS
<1>1. ~NoForm.saved
  BY DEF NoForm
<1>2. CASE OpenForm
  <2>1. draft' \in Forms /\ ~draft'.saved
    BY <1>2 DEF OpenForm, SettingsInvariant, Configs, Forms
  <2> QED BY <1>2, <2>1 DEF OpenForm, SettingsInvariant, SavedIsInForce
<1>3. CASE LeaveForm
  BY <1>1, <1>3 DEF LeaveForm, SettingsInvariant, SavedIsInForce
<1>4. CASE EditUrl \/ EditKey
  <2>1. draft' \in Forms /\ ~draft'.saved
    BY <1>4 DEF EditUrl, EditKey, Edited, SettingsInvariant, Forms
  <2> QED BY <1>4, <2>1 DEF EditUrl, EditKey, SettingsInvariant, SavedIsInForce
<1>5. CASE Reveal
  <2>1. draft' \in Forms /\ draft'.saved = draft.saved /\ draft'.url = draft.url /\ draft'.key = draft.key
    BY <1>5 DEF Reveal, SettingsInvariant, Forms
  <2> QED BY <1>5, <2>1 DEF Reveal, SettingsInvariant, SavedIsInForce
<1>6. CASE HandleSubmit
  <2>1. PICK next : next = [url |-> draft.url, key |-> draft.key]
    OBVIOUS
  <2>2. /\ draft \in Forms /\ config' = Normalize(next) /\ kept' = Normalize(next)
        /\ draft' = [FormFor(config', draft) EXCEPT !.saved = TRUE]
    BY <1>6, <2>1 DEF HandleSubmit, UpdateConfig, SaveConfig, SettingsInvariant
  <2>3. next.url \in FieldText(Urls) /\ next.key \in FieldText(Keys)
    BY <2>1, <2>2 DEF Forms
  <2>4. config' \in Configs /\ Normalize(config') = config' /\ ParseConfig(kept') = config' /\ kept' = config'
    BY <2>2, <2>3, NormalizeIs
  <2>5. draft' \in Forms
    BY <2>2, <2>4 DEF Forms, FormFor, Configs
  <2>6. CASE config' # config
    <3>1. draft'.url = config'.url /\ draft'.key = config'.key
      BY <2>2, <2>6 DEF FormFor, Forms
    <3>2. Normalize([url |-> draft'.url, key |-> draft'.key]) = Normalize(config')
      BY <3>1 DEF Normalize
    <3> QED BY <2>4, <2>5, <3>2 DEF SettingsInvariant, SavedIsInForce
  <2>7. CASE config' = config
    <3>1. draft'.url = draft.url /\ draft'.key = draft.key
      BY <2>2, <2>7 DEF FormFor, Forms
    <3> QED BY <2>1, <2>2, <2>4, <2>5, <3>1 DEF SettingsInvariant, SavedIsInForce
  <2> QED BY <2>6, <2>7
<1>7. CASE ClearKey
  <2>1. PICK next : next = [url |-> draft.url, key |-> Words("")]
    OBVIOUS
  <2>2. /\ draft \in Forms /\ config' = Normalize(next) /\ kept' = Normalize(next)
        /\ draft' = FormFor(config', [draft EXCEPT !.key = Words(""), !.saved = FALSE, !.revealed = FALSE])
    BY <1>7, <2>1 DEF ClearKey, UpdateConfig, SaveConfig, SettingsInvariant
  <2>3. next.url \in FieldText(Urls) /\ next.key \in FieldText(Keys)
    BY <2>1, <2>2 DEF Forms, Words, FieldText, Keys
  <2>4. config' \in Configs /\ Normalize(config') = config' /\ ParseConfig(kept') = config' /\ kept' = config'
    BY <2>2, <2>3, NormalizeIs
  <2>5. Words("") \in FieldText(Keys)
    BY DEF Words, FieldText, Keys
  <2>6. draft' \in Forms /\ ~draft'.saved
    BY <2>2, <2>4, <2>5 DEF Forms, FormFor, Configs
  <2> QED BY <2>4, <2>6 DEF SettingsInvariant, SavedIsInForce
<1>8. CASE ReloadPage
  BY <1>1, <1>8 DEF ReloadPage, SettingsInvariant, SavedIsInForce
<1>9. CASE UNCHANGED settingsVars
  BY <1>9 DEF settingsVars, SettingsInvariant, SavedIsInForce
<1> QED BY <1>2, <1>3, <1>4, <1>5, <1>6, <1>7, <1>8, <1>9 DEF ApiSettingsNext

LEMMA InitSettings == ApiSettingsInit => SettingsInvariant
<1> SUFFICES ASSUME ApiSettingsInit PROVE SettingsInvariant
  OBVIOUS
<1>1. kept.url \in FieldText(Urls) /\ kept.key \in FieldText(Keys) /\ Trim(kept.key) = kept.key
  BY WordsAre DEF ApiSettingsInit
<1>2. kept \in Configs
  BY <1>1 DEF ApiSettingsInit, Configs
<1>3. config = Normalize(kept)
  BY <1>1 DEF ApiSettingsInit, ParseConfig, Normalize
<1>4. config \in Configs /\ Normalize(config) = config
  BY <1>1, <1>3, NormalizeIs
<1> QED BY <1>2, <1>4 DEF ApiSettingsInit, SettingsInvariant, SavedIsInForce, NoForm

\* "Saved" is said of the address and the key requests are sent with, and a reload
\* changes neither, whatever was typed, saved and cleared, and however often
\* (useConfig.ts:24-32, SettingsView.tsx:55-66).
THEOREM SettingsScreenStaysTrue == ApiSettingsSpec => []SettingsScreenIsTrue
<1>1. SettingsInvariant => SettingsScreenIsTrue
  BY DEF SettingsInvariant, SettingsScreenIsTrue, ReloadKeepsTheServer
<1> QED BY <1>1, InitSettings, SettingsStep, PTL DEF ApiSettingsSpec

-------------------------------------------------------------------------------
(* Preferences: for any intervals offered and whatever was stored, the     *)
(* poller's interval can be lived with and a reload reads what was chosen  *)
(* last, but for what a copy that had missed it wrote over it.             *)

Bearable == [theme : Themes, poll : MIN_POLL .. MAX_POLL]

PreferencesInvariant ==
    /\ stored \in [theme : Themes \cup {"other"}, poll : Nat]
    /\ app \in Bearable
    /\ settings \in Bearable \cup {Closed}
    /\ missed = [c \in Copies |-> missed[c]]
    /\ ReloadReadsTheLastChoice

\* Whatever is stored reads as preferences one can live with, and these as they are.
LEMMA ParseIs ==
  /\ DEFAULT_PREFERENCES \in Bearable /\ Bearable \subseteq [theme : Themes \cup {"other"}, poll : Nat]
  /\ \A raw \in [theme : Themes \cup {"other"}, poll : Nat] : ParsePreferences(raw) \in Bearable
  /\ \A raw \in Bearable : ParsePreferences(raw) = raw
<1>1. /\ DEFAULT_PREFERENCES \in Bearable /\ Bearable \subseteq [theme : Themes \cup {"other"}, poll : Nat]
      /\ DEFAULT_PREFERENCES.theme \in Themes /\ DEFAULT_PREFERENCES.poll = 5
  BY DEF DEFAULT_PREFERENCES, Bearable, Themes, MIN_POLL, MAX_POLL
<1>2. ASSUME NEW raw \in [theme : Themes \cup {"other"}, poll : Nat]
      PROVE  ParsePreferences(raw) \in Bearable
  <2>1. raw.poll \in Nat
    OBVIOUS
  <2>2. ParsePreferences(raw).poll \in MIN_POLL .. MAX_POLL
    BY <1>1, <2>1 DEF ParsePreferences, MIN_POLL, MAX_POLL
  <2>3. ParsePreferences(raw).theme \in Themes
    BY <1>1 DEF ParsePreferences
  <2> QED BY <2>2, <2>3 DEF ParsePreferences, Bearable
<1>3. ASSUME NEW raw \in Bearable
      PROVE  ParsePreferences(raw) = raw
  <2>1. raw = [theme |-> raw.theme, poll |-> raw.poll] /\ raw.theme \in Themes /\ raw.poll \in 2 .. 300
    BY DEF Bearable, MIN_POLL, MAX_POLL
  <2>2. ParsePreferences(raw) = [theme |-> raw.theme, poll |-> raw.poll]
    BY <2>1 DEF ParsePreferences, MIN_POLL, MAX_POLL
  <2> QED BY <2>1, <2>2
<1> QED BY <1>1, <1>2, <1>3

\* What a copy writes agrees with what was chosen, in every field but those it missed;
\* and what the other copy has read still does, but for the fields chosen now.
LEMMA ChosenAgrees ==
  ASSUME NEW copy \in Copies, NEW fields, NEW was, NEW next,
         \A f \in Fields : f \notin fields => next[f] = was[f],
         \A f \in Fields : f \notin missed[copy] => was[f] = chosen[f],
         Chosen(copy, fields, next)
  PROVE  /\ \A f \in Fields : f \notin overwritten' => next[f] = chosen'[f]
         /\ \A f \in Fields : f \notin missed'[copy] => next[f] = chosen'[f]
         /\ \A c \in Copies \ {copy}, f \in Fields :
                f \notin missed'[c] => f \notin missed[c] /\ chosen'[f] = chosen[f]
         /\ missed' = [c \in Copies |-> missed'[c]]
<1>1. ASSUME NEW f \in Fields, f \notin missed[copy] \ fields PROVE next[f] = chosen'[f]
  <2>1. CASE f \in fields
    BY <2>1 DEF Chosen
  <2>2. CASE f \notin fields
    BY <1>1, <2>2 DEF Chosen
  <2> QED BY <2>1, <2>2
<1>2. overwritten' = missed[copy] \ fields /\ missed'[copy] = missed[copy] \ fields
  BY DEF Chosen
<1>3. ASSUME NEW c \in Copies \ {copy}, NEW f \in Fields, f \notin missed'[c]
      PROVE  f \notin missed[c] /\ chosen'[f] = chosen[f]
  BY <1>3 DEF Chosen
<1>4. missed' = [c \in Copies |-> missed'[c]]
  BY DEF Chosen
<1> QED BY <1>1, <1>2, <1>3, <1>4

\* The menu writes the application's copy with another theme.
LEMMA MenuKeeps ==
  ASSUME PreferencesInvariant, NEW theme \in Themes, ChooseInTheMenu(theme)
  PROVE  PreferencesInvariant'
<1>1. app' \in Bearable /\ stored' = app' /\ settings' = settings /\ app' = [app EXCEPT !.theme = theme]
  BY DEF ChooseInTheMenu, PreferencesInvariant, Bearable
<1>2. \A f \in Fields : f \notin {"theme"} => app'[f] = app[f]
  BY <1>1 DEF PreferencesInvariant, Bearable, Fields
<1>3. \A f \in Fields : f \notin missed["app"] => app[f] = chosen[f]
  BY DEF PreferencesInvariant, ReloadReadsTheLastChoice
<1>4. Chosen("app", {"theme"}, app') /\ "app" \in Copies /\ "settings" \in Copies \ {"app"}
  BY DEF ChooseInTheMenu, Copies
<1>5. PICK next : next = app'
  OBVIOUS
<1>6. /\ \A f \in Fields : f \notin overwritten' => next[f] = chosen'[f]
      /\ \A f \in Fields : f \notin missed'["app"] => next[f] = chosen'[f]
      /\ \A c \in Copies \ {"app"}, f \in Fields :
            f \notin missed'[c] => f \notin missed[c] /\ chosen'[f] = chosen[f]
      /\ missed' = [c \in Copies |-> missed'[c]]
  BY <1>2, <1>3, <1>4, <1>5, ChosenAgrees
<1>7. \A f \in Fields : settings # Closed /\ f \notin missed'["settings"] => settings[f] = chosen'[f]
  BY <1>4, <1>6 DEF PreferencesInvariant, ReloadReadsTheLastChoice
<1>8. ParsePreferences(stored') = app'
  BY <1>1, ParseIs
<1>9. ReloadReadsTheLastChoice'
  BY <1>1, <1>5, <1>6, <1>7, <1>8 DEF ReloadReadsTheLastChoice
<1> QED BY <1>1, <1>6, <1>9, ParseIs DEF PreferencesInvariant

\* The settings screen writes its own copy, with other values of some fields.
LEMMA SettingsKeep ==
  ASSUME PreferencesInvariant, NEW fields, NEW next \in Bearable, ChooseInSettings(fields, next),
         \A f \in Fields : f \notin fields => next[f] = settings[f]
  PROVE  PreferencesInvariant'
<1>1. app' = app /\ stored' = next /\ settings' = next /\ settings # Closed
  BY DEF ChooseInSettings
<1>2. \A f \in Fields : f \notin missed["settings"] => settings[f] = chosen[f]
  BY <1>1 DEF PreferencesInvariant, ReloadReadsTheLastChoice
<1>3. Chosen("settings", fields, next) /\ "settings" \in Copies /\ "app" \in Copies \ {"settings"}
  BY DEF ChooseInSettings, Copies
<1>4. /\ \A f \in Fields : f \notin overwritten' => next[f] = chosen'[f]
      /\ \A f \in Fields : f \notin missed'["settings"] => next[f] = chosen'[f]
      /\ \A c \in Copies \ {"settings"}, f \in Fields :
            f \notin missed'[c] => f \notin missed[c] /\ chosen'[f] = chosen[f]
      /\ missed' = [c \in Copies |-> missed'[c]]
  BY <1>2, <1>3, ChosenAgrees
<1>5. \A f \in Fields : f \notin missed'["app"] => app[f] = chosen'[f]
  BY <1>3, <1>4 DEF PreferencesInvariant, ReloadReadsTheLastChoice
<1>6. ParsePreferences(stored') = next
  BY <1>1, ParseIs
<1>7. ReloadReadsTheLastChoice'
  BY <1>1, <1>4, <1>5, <1>6 DEF ReloadReadsTheLastChoice
<1> QED BY <1>1, <1>4, <1>7, ParseIs DEF PreferencesInvariant

LEMMA PreferencesStep == PreferencesInvariant /\ [PreferencesNext]_prefsVars => PreferencesInvariant'
<1> SUFFICES ASSUME PreferencesInvariant, [PreferencesNext]_prefsVars PROVE PreferencesInvariant'
  OBVIOUS
<1>1. ASSUME NEW theme \in Themes, ChooseInTheMenu(theme) PROVE PreferencesInvariant'
  BY <1>1, MenuKeeps
<1>2. CASE OpenSettings
  <2>1. /\ settings' = ParsePreferences(stored) /\ missed'["settings"] = overwritten
        /\ missed'["app"] = missed["app"] /\ missed' = [c \in Copies |-> missed'[c]]
    BY <1>2 DEF OpenSettings, PreferencesInvariant, Copies
  <2>2. UNCHANGED <<stored, app, chosen, overwritten>>
    BY <1>2 DEF OpenSettings
  <2>3. ReloadReadsTheLastChoice'
    BY <2>1, <2>2 DEF ReloadReadsTheLastChoice, PreferencesInvariant, ParsePreferences
  <2> QED BY <2>1, <2>2, <2>3, ParseIs DEF PreferencesInvariant
<1>3. CASE CloseSettings
  BY <1>3 DEF CloseSettings, choiceVars, PreferencesInvariant, ReloadReadsTheLastChoice, ParsePreferences
<1>4. CASE ChooseTheme
  <2>1. PICK theme \in Themes : ChooseInSettings({"theme"}, [settings EXCEPT !.theme = theme])
    BY <1>4 DEF ChooseTheme
  <2>2. PICK next : next = [settings EXCEPT !.theme = theme]
    OBVIOUS
  <2>3. next \in Bearable /\ \A f \in Fields : f \notin {"theme"} => next[f] = settings[f]
    BY <2>1, <2>2 DEF ChooseInSettings, PreferencesInvariant, Bearable, Fields
  <2> QED BY <2>1, <2>2, <2>3, SettingsKeep
<1>5. CASE ChoosePoll
  <2>1. PICK poll \in POLL_CHOICES : ChooseInSettings({"poll"}, [settings EXCEPT !.poll = poll])
    BY <1>5 DEF ChoosePoll
  <2>2. PICK next : next = [settings EXCEPT !.poll = poll]
    OBVIOUS
  <2>3. next \in Bearable /\ \A f \in Fields : f \notin {"poll"} => next[f] = settings[f]
    BY <2>1, <2>2, PreferencesAssumption DEF ChooseInSettings, PreferencesInvariant, Bearable, Fields
  <2> QED BY <2>1, <2>2, <2>3, SettingsKeep
<1>6. CASE RestoreDefaults
  BY <1>6, ParseIs, SettingsKeep DEF RestoreDefaults
<1>7. CASE SystemChanges
  BY <1>7 DEF SystemChanges, choiceVars, PreferencesInvariant, ReloadReadsTheLastChoice, ParsePreferences
<1>8. CASE Reload
  <2>1. /\ app' = ParsePreferences(stored) /\ settings' = Closed /\ stored' = stored
        /\ chosen' = app' /\ missed' = [c \in Copies |-> missed'[c]]
    BY <1>8 DEF Reload
  <2>2. ReloadReadsTheLastChoice'
    BY <2>1 DEF ReloadReadsTheLastChoice, ParsePreferences
  <2> QED BY <2>1, <2>2, ParseIs DEF PreferencesInvariant
<1>9. CASE UNCHANGED prefsVars
  BY <1>9 DEF prefsVars, choiceVars, PreferencesInvariant, ReloadReadsTheLastChoice, ParsePreferences
<1> QED BY <1>1, <1>2, <1>3, <1>4, <1>5, <1>6, <1>7, <1>8, <1>9 DEF PreferencesNext

LEMMA InitPreferences == PreferencesInit => PreferencesInvariant
<1> SUFFICES ASSUME PreferencesInit PROVE PreferencesInvariant
  OBVIOUS
<1>1. /\ stored \in [theme : Themes \cup {"other"}, poll : Nat] /\ app = ParsePreferences(stored)
      /\ settings = Closed /\ chosen = app /\ missed = [c \in Copies |-> {}]
  BY PreferencesAssumption DEF PreferencesInit, Loaded
<1>2. ReloadReadsTheLastChoice
  BY <1>1 DEF ReloadReadsTheLastChoice
<1> QED BY <1>1, <1>2, ParseIs DEF PreferencesInvariant

\* Whatever localStorage holds, the interval the server is asked at is bearable; and of
\* the theme and of the interval a reload reads what was chosen last, in the menu or on
\* the settings screen, unless a copy that had missed the choice has written over it
\* (config/preferences.ts:34, hooks/usePreferences.ts:29-35).
THEOREM PreferencesAlwaysHold == PreferencesSpec => []PreferencesHold
<1>1. PreferencesInvariant => PreferencesHold
  BY DEF PreferencesInvariant, IntervalIsBearable, Bearable, PreferencesHold
<1>2. PreferencesSpec => []PreferencesInvariant
  BY InitPreferences, PreferencesStep, PTL DEF PreferencesSpec
<1> QED BY <1>1, <1>2, PTL

-------------------------------------------------------------------------------
(* Polling: for any intervals of the list, and any number of requests and  *)
(* of renders, the open interview is read as often as the list is.         *)

PollingTypes ==
    /\ activePoll \in Nat /\ listPoll \in {activePoll, IDLE_MULTIPLIER * activePoll}
    /\ listDue \in Nat /\ detailDue \in Nat /\ detailDue <= DETAIL_POLL /\ detailFirst \in BOOLEAN
    /\ listTurns \in Nat /\ renderedSince \in Nat

\* The interview's timer fires before the list's does.
InterviewIsNext == detailDue < listDue \/ (detailDue = listDue /\ detailFirst)

\* Once the list has had all the polls it may have, it is the interview's turn.
TurnsAreTaken ==
    activePoll >= DETAIL_POLL =>
        /\ listTurns <= 1 + renderedSince
        /\ listTurns = 1 + renderedSince => InterviewIsNext

PollingInvariant == PollingTypes /\ TurnsAreTaken

LEMMA InitPolling == PollingInit => PollingInvariant
<1> SUFFICES ASSUME PollingInit PROVE PollingInvariant
  OBVIOUS
<1>1. activePoll \in Nat /\ listPoll \in Nat
  BY PollingAssumption DEF PollingInit, IDLE_MULTIPLIER
<1>2. listDue \in Nat
  BY <1>1 DEF PollingInit
<1>3. listTurns = 0 /\ renderedSince = 0 /\ detailFirst \in BOOLEAN
  BY DEF PollingInit
<1> QED BY <1>1, <1>2, <1>3 DEF PollingInit, PollingInvariant, PollingTypes, TurnsAreTaken, DETAIL_POLL

\* A render that starts both timers makes it the interview's turn: its interval is
\* no longer, and its timer is set first.
LEMMA RestartedInTurn ==
  ASSUME NEW poll \in {activePoll, IDLE_MULTIPLIER * activePoll}, activePoll \in Nat, Restart(poll)
  PROVE  /\ listDue' \in Nat /\ detailDue' \in Nat /\ detailDue' <= DETAIL_POLL /\ detailFirst' \in BOOLEAN
         /\ activePoll >= DETAIL_POLL => InterviewIsNext'
BY DEF Restart, InterviewIsNext, DETAIL_POLL, IDLE_MULTIPLIER

LEMMA PollingStep == PollingInvariant /\ [PollingNext]_pollingVars => PollingInvariant'
<1> SUFFICES ASSUME PollingInvariant, [PollingNext]_pollingVars PROVE PollingInvariant'
  OBVIOUS
<1>1. PollingTypes /\ TurnsAreTaken
  BY DEF PollingInvariant
<1>2. CASE Second
  BY <1>1, <1>2 DEF Second, calls, since, DETAIL_POLL, PollingInvariant, PollingTypes, TurnsAreTaken, InterviewIsNext
<1>3. CASE ListFires
  <2>1. /\ listDue = 0 /\ ~(detailDue = 0 /\ detailFirst) /\ listTurns' = listTurns + 1
        /\ UNCHANGED <<activePoll, listPoll, renderedSince>>
    BY <1>3 DEF ListFires
  <2>2. activePoll >= DETAIL_POLL => listTurns < 1 + renderedSince
    BY <1>1, <2>1 DEF PollingTypes, TurnsAreTaken, InterviewIsNext
  <2>3. /\ listDue' \in Nat /\ detailDue' \in Nat /\ detailDue' <= DETAIL_POLL /\ detailFirst' \in BOOLEAN
        /\ activePoll >= DETAIL_POLL => InterviewIsNext'
    <3>1. CASE refreshing
      BY <1>1, <1>3, <3>1 DEF ListFires, PollingTypes, InterviewIsNext, DETAIL_POLL, IDLE_MULTIPLIER
    <3>2. CASE ~refreshing
      BY <1>1, <1>3, <3>2, RestartedInTurn DEF ListFires, PollingTypes
    <3> QED BY <3>1, <3>2
  <2> QED BY <1>1, <2>1, <2>2, <2>3 DEF PollingInvariant, PollingTypes, TurnsAreTaken
<1>4. CASE ListAnswers
  BY <1>1, <1>4, RestartedInTurn DEF ListAnswers, since, PollingInvariant, PollingTypes, TurnsAreTaken
<1>5. CASE DetailFires
  <2>1. /\ detailDue' = DETAIL_POLL /\ detailFirst' \in BOOLEAN /\ listTurns' = 0 /\ renderedSince' = 0
        /\ UNCHANGED <<activePoll, listPoll, listDue>>
    BY <1>5 DEF DetailFires
  <2>2. PollingTypes'
    BY <1>1, <2>1 DEF PollingTypes, DETAIL_POLL, IDLE_MULTIPLIER
  <2> QED BY <2>1, <2>2 DEF PollingInvariant, TurnsAreTaken
<1>6. CASE DetailAnswers
  <2>1. /\ detailDue' = DETAIL_POLL /\ detailFirst' \in BOOLEAN /\ renderedSince' = renderedSince + 1
        /\ UNCHANGED <<activePoll, listPoll, listDue, listTurns>>
    BY <1>6 DEF DetailAnswers
  <2>2. PollingTypes'
    BY <1>1, <2>1 DEF PollingTypes, DETAIL_POLL, IDLE_MULTIPLIER
  <2>3. activePoll >= DETAIL_POLL => listTurns' < 1 + renderedSince'
    BY <1>1, <2>1 DEF PollingTypes, TurnsAreTaken
  <2> QED BY <2>1, <2>2, <2>3 DEF PollingInvariant, PollingTypes, TurnsAreTaken
<1>7. CASE Rerender
  BY <1>1, <1>7, RestartedInTurn DEF Rerender, since, PollingInvariant, PollingTypes, TurnsAreTaken
<1>8. CASE Show
  BY <1>1, <1>8, RestartedInTurn DEF Show, PollingInvariant, PollingTypes, TurnsAreTaken
<1>9. CASE Hide \/ UNCHANGED pollingVars
  BY <1>1, <1>9 DEF Hide, pollingVars, timers, since, PollingInvariant, PollingTypes, TurnsAreTaken, InterviewIsNext
<1> QED BY <1>2, <1>3, <1>4, <1>5, <1>6, <1>7, <1>8, <1>9 DEF PollingNext

\* The open interview is read as often as the list, one poll of the list and one for
\* each answer that restarted its timer excepted (usePolling.ts:76,
\* InterviewDetailView.tsx:62): for every interval of the list of five seconds or more,
\* idle or not, whatever else renders the application, and whenever its tab is hidden.
THEOREM OpenInterviewAlwaysKeepsUp == PollingSpec => []OpenInterviewKeepsUp
<1>1. PollingInvariant => OpenInterviewKeepsUp
  BY DEF PollingInvariant, TurnsAreTaken, OpenInterviewKeepsUp
<1> QED BY <1>1, InitPolling, PollingStep, PTL DEF PollingSpec

-------------------------------------------------------------------------------
(* Health: for any servers and any number of checks and of slots for them, *)
(* the screen speaks of its newest check and of its own mode's requests.   *)

Said    == {"ok", "unhealthy", "down"}
Panels  == [open : BOOLEAN, state : Said \cup {"loading"}, checking : BOOLEAN, run : Nat, from : Nat]
Flights == [of : {"panel", "readout", "gone"}, run : Nat, server : Servers \cup {"demo"}, said : Said \cup {"pending"}]

\* A check under way, in the mode the screen is in if it is the screen's.
FlightOK(f, mode) ==
    \/ f = NoFlight
    \/ /\ f \in Flights
       /\ f.of = "panel" => (f.server = "demo" <=> mode = "demo")

HealthInvariant ==
    /\ uiMode \in {"api", "demo"} /\ server \in Servers /\ health \in [Servers -> Said]
    /\ panel \in Panels
    /\ flights = [s \in HealthSlots |-> flights[s]] /\ \A s \in HealthSlots : FlightOK(flights[s], uiMode)
    /\ NewestCheckIsShown
    /\ panel.open => sample = IF uiMode = "api" THEN last ELSE NoSample
    /\ panel.open /\ panel.state = "ok" /\ uiMode = "api" => last # NoSample

\* The checks there were are still there, and the new ones.
LEMMA SentIs ==
  ASSUME NEW fs, NEW new, NEW mode,
         \A s \in HealthSlots : FlightOK(fs[s], mode), \A k \in DOMAIN new : FlightOK(new[k], mode)
  PROVE  /\ Sent(fs, new) = [s \in HealthSlots |-> Sent(fs, new)[s]]
         /\ \A s \in HealthSlots : FlightOK(Sent(fs, new)[s], mode)
<1>1. PICK free : free = {s \in HealthSlots : fs[s] = NoFlight}
  OBVIOUS
<1>2. PICK place : place = CHOOSE p \in [DOMAIN new -> free] : \A j, k \in DOMAIN new : j < k => p[j] < p[k]
  OBVIOUS
<1>3. Sent(fs, new) = [s \in HealthSlots |-> IF \E k \in DOMAIN new : place[k] = s
                          THEN new[CHOOSE k \in DOMAIN new : place[k] = s] ELSE fs[s]]
  BY <1>1, <1>2 DEF Sent
<1> QED BY <1>3

LEMMA PanelFlight ==
  ASSUME NEW run \in Nat, NEW to \in Servers \cup {"demo"}, NEW mode, to = "demo" <=> mode = "demo"
  PROVE  FlightOK(Flight("panel", run, to), mode)
<1>1. PICK f : f = Flight("panel", run, to)
  OBVIOUS
<1>2. f = [of |-> "panel", run |-> run, server |-> to, said |-> "pending"]
  BY <1>1 DEF Flight
<1>3. f \in Flights /\ f.of = "panel" /\ f.server = to
  BY <1>2 DEF Flights
<1> QED BY <1>1, <1>3 DEF FlightOK

LEMMA ReadoutFlight ==
  ASSUME NEW to \in Servers \cup {"demo"}, NEW mode
  PROVE  FlightOK(Flight("readout", 0, to), mode)
<1>1. PICK f : f = Flight("readout", 0, to)
  OBVIOUS
<1>2. f = [of |-> "readout", run |-> 0, server |-> to, said |-> "pending"] /\ 0 \in Nat
  BY <1>1 DEF Flight
<1>3. f \in Flights /\ f.of = "readout"
  BY <1>2 DEF Flights
<1> QED BY <1>1, <1>3 DEF FlightOK

LEMMA OrphanedIs ==
  ASSUME NEW fs, NEW mode, NEW other, NEW askers, \A s \in HealthSlots : FlightOK(fs[s], mode),
         "panel" \in askers, "none" \notin askers
  PROVE  \A s \in HealthSlots : FlightOK(Orphaned(fs, askers)[s], other)
<1> SUFFICES ASSUME NEW s \in HealthSlots PROVE FlightOK(Orphaned(fs, askers)[s], other)
  OBVIOUS
<1>1. PICK f : f = fs[s] /\ FlightOK(f, mode)
  OBVIOUS
<1>2. Orphaned(fs, askers)[s] = IF f.of \in askers THEN [f EXCEPT !.of = "gone", !.run = 0] ELSE f
  BY <1>1 DEF Orphaned
<1>3. CASE f = NoFlight
  BY <1>2, <1>3 DEF NoFlight, FlightOK
<1>4. CASE f # NoFlight
  <2>1. f \in Flights
    BY <1>1, <1>4 DEF FlightOK
  <2>2. CASE f.of \in askers
    <3>1. PICK g : g = [f EXCEPT !.of = "gone", !.run = 0]
      OBVIOUS
    <3>2. g \in Flights /\ g.of = "gone"
      BY <2>1, <3>1 DEF Flights
    <3> QED BY <1>2, <2>2, <3>1, <3>2 DEF FlightOK
  <2>3. CASE f.of \notin askers
    BY <1>2, <2>1, <2>3 DEF FlightOK
  <2> QED BY <2>2, <2>3
<1> QED BY <1>3, <1>4

\* No answer of the last request is that there was none.
LEMMA SaidIsNoSample == \A said \in Said : said # NoSample
BY DEF Said, NoSample

\* A change of the checks under way alone.
LEMMA FlightsOK ==
  ASSUME HealthInvariant, UNCHANGED <<uiMode, health, panel, sample, last>>, server' \in Servers,
         flights' = [s \in HealthSlots |-> flights'[s]], \A s \in HealthSlots : FlightOK(flights'[s], uiMode)
  PROVE  HealthInvariant'
BY DEF HealthInvariant, NewestCheckIsShown

\* The screen as it is mounted, with its first checks.
LEMMA VisitedIs ==
  ASSUME NEW n \in Nat
  PROVE  /\ Visited(n) \in Panels
         /\ Visited(n).checking /\ Visited(n).state = "loading"
         /\ Shut \in Panels
         /\ ~Shut.open
BY DEF Visited, Shut, Panels

LEMMA AskedIs ==
  ASSUME HealthInvariant
  PROVE  Asked \in Servers \cup {"demo"} /\ (Asked = "demo" <=> uiMode = "demo")
BY HealthAssumption DEF HealthInvariant, Asked

LEMMA FirstChecksOK ==
  ASSUME NEW n \in Nat, NEW to \in Servers \cup {"demo"}, NEW mode, to = "demo" <=> mode = "demo"
  PROVE  \A k \in DOMAIN FirstChecks(n, to) : FlightOK(FirstChecks(n, to)[k], mode)
<1> SUFFICES ASSUME NEW k \in 1 .. n PROVE FlightOK(Flight("panel", k, to), mode)
  BY DEF FirstChecks
<1>1. k \in Nat
  OBVIOUS
<1> QED BY <1>1, PanelFlight

LEMMA HealthStep == HealthInvariant /\ [HealthNext]_healthVars => HealthInvariant'
<1> SUFFICES ASSUME HealthInvariant, [HealthNext]_healthVars PROVE HealthInvariant'
  OBVIOUS
<1>0. /\ uiMode \in {"api", "demo"} /\ server \in Servers /\ health \in [Servers -> Said] /\ panel \in Panels
      /\ \A s \in HealthSlots : FlightOK(flights[s], uiMode)
  BY DEF HealthInvariant
<1>1. CASE OpenHealth
  <2>1. PICK n \in 1 .. 2 : flights' = Sent(flights, FirstChecks(n, Asked)) /\ panel' = Visited(n)
    BY <1>1 DEF OpenHealth
  <2>2. /\ uiMode' = uiMode /\ server' = server /\ health' = health /\ last' = last
        /\ sample' = SampleAtMount(uiMode)
    BY <1>1 DEF OpenHealth
  <2>3. PICK new : new = FirstChecks(n, Asked) /\ \A k \in DOMAIN new : FlightOK(new[k], uiMode)
    BY AskedIs, FirstChecksOK
  <2>4. flights' = [s \in HealthSlots |-> flights'[s]] /\ \A s \in HealthSlots : FlightOK(flights'[s], uiMode)
    BY <1>0, <2>1, <2>3, SentIs
  <2> QED BY <1>0, <2>1, <2>2, <2>4, VisitedIs DEF HealthInvariant, NewestCheckIsShown, SampleAtMount
<1>2. CASE CloseHealth
  <2>1. /\ panel' = Shut /\ flights' = Orphaned(flights, {"panel"})
        /\ uiMode' = uiMode /\ server' = server /\ health' = health /\ last' = last
    BY <1>2 DEF CloseHealth
  <2>2. \A s \in HealthSlots : FlightOK(flights'[s], uiMode)
    BY <1>0, <2>1, OrphanedIs
  <2>3. flights' = [s \in HealthSlots |-> flights'[s]]
    BY <2>1 DEF Orphaned
  <2> QED BY <1>0, <2>1, <2>2, <2>3, VisitedIs DEF HealthInvariant, NewestCheckIsShown
<1>3. CASE CheckNow
  <2>1. PICK new : new = <<Flight("panel", panel.run + 1, Asked)>> /\ flights' = Sent(flights, new)
    BY <1>3 DEF CheckNow
  <2>2. /\ panel' = [panel EXCEPT !.checking = TRUE, !.run = @ + 1]
        /\ uiMode' = uiMode /\ server' = server /\ health' = health /\ last' = last /\ sample' = sample
    BY <1>3 DEF CheckNow
  <2>3. panel.run + 1 \in Nat
    BY <1>0 DEF Panels
  <2>4. \A k \in DOMAIN new : FlightOK(new[k], uiMode)
    <3>1. FlightOK(Flight("panel", panel.run + 1, Asked), uiMode)
      BY <2>3, AskedIs, PanelFlight
    <3> QED BY <2>1, <3>1
  <2>5. flights' = [s \in HealthSlots |-> flights'[s]] /\ \A s \in HealthSlots : FlightOK(flights'[s], uiMode)
    BY <1>0, <2>1, <2>4, SentIs
  <2>6. panel' \in Panels /\ panel'.checking /\ panel'.open = panel.open /\ panel'.state = panel.state
    BY <1>0, <2>2, <2>3 DEF Panels
  <2> QED BY <1>0, <2>2, <2>5, <2>6 DEF HealthInvariant, NewestCheckIsShown
<1>4. ASSUME Beat \/ Reconfigure
      PROVE  HealthInvariant'
  <2>1. PICK new : new = <<Flight("readout", 0, server')>> /\ flights' = Sent(flights, new)
    BY <1>4 DEF Beat, Reconfigure
  <2>2. server' \in Servers /\ UNCHANGED <<uiMode, health, panel, sample, last>>
    BY <1>0, <1>4 DEF Beat, Reconfigure
  <2>3. \A k \in DOMAIN new : FlightOK(new[k], uiMode)
    <3>1. FlightOK(Flight("readout", 0, server'), uiMode)
      BY <2>2, ReadoutFlight
    <3> QED BY <2>1, <3>1
  <2>4. flights' = [s \in HealthSlots |-> flights'[s]] /\ \A s \in HealthSlots : FlightOK(flights'[s], uiMode)
    BY <1>0, <2>1, <2>3, SentIs
  <2> QED BY <2>2, <2>4, FlightsOK
<1>5. CASE SwitchMode
  <2>1. uiMode' \in {"api", "demo"} /\ server' = server /\ health' = health /\ last' = last
    BY <1>5 DEF SwitchMode
  <2>2. PICK to, new, beat, both, left :
          /\ to = (IF uiMode' = "api" THEN server ELSE "demo")
          /\ new = (IF panel.open THEN FirstChecks(1, to) ELSE <<>>)
          /\ beat = (IF uiMode' = "api" THEN [k \in {3} |-> Flight("readout", 0, to)] ELSE <<>>)
          /\ both = [k \in DOMAIN new \cup DOMAIN beat |-> IF k \in DOMAIN new THEN new[k] ELSE beat[k]]
          /\ left = Orphaned(flights, {"panel", "readout"})
    OBVIOUS
  <2>3. /\ flights' = Sent(left, both)
        /\ panel' = IF panel.open THEN Visited(1) ELSE Shut
        /\ sample' = IF panel.open THEN SampleAtMount(uiMode') ELSE NoSample
    BY <1>5, <2>2 DEF SwitchMode
  <2>4. to \in Servers \cup {"demo"} /\ (to = "demo" <=> uiMode' = "demo")
    BY <1>0, <2>1, <2>2, HealthAssumption
  <2>5. \A k \in DOMAIN new : FlightOK(new[k], uiMode')
    BY <2>2, <2>4, FirstChecksOK
  <2>6. \A k \in DOMAIN beat : FlightOK(beat[k], uiMode')
    <3>1. FlightOK(Flight("readout", 0, to), uiMode')
      BY <2>4, ReadoutFlight
    <3> QED BY <2>2, <3>1
  <2>7. \A k \in DOMAIN both : FlightOK(both[k], uiMode')
    BY <2>2, <2>5, <2>6
  <2>8. \A s \in HealthSlots : FlightOK(left[s], uiMode')
    BY <1>0, <2>2, OrphanedIs
  <2>9. flights' = [s \in HealthSlots |-> flights'[s]] /\ \A s \in HealthSlots : FlightOK(flights'[s], uiMode')
    BY <2>3, <2>7, <2>8, SentIs
  <2> QED BY <1>0, <2>1, <2>3, <2>9, VisitedIs DEF HealthInvariant, NewestCheckIsShown, SampleAtMount
<1>6. CASE HealthChanges
  <2>1. health' \in [Servers -> Said]
    BY <1>0, <1>6 DEF HealthChanges, Said
  <2> QED BY <1>6, <2>1 DEF HealthChanges, HealthInvariant, NewestCheckIsShown
<1>7. ASSUME NEW s \in HealthSlots, ServerSays(s)
      PROVE  HealthInvariant'
  <2>a. PICK f : f = flights[s]
    OBVIOUS
  <2>b. PICK say : say = (IF f.server = "demo" THEN "ok" ELSE health[f.server])
    OBVIOUS
  <2>1. f = flights[s] /\ f.said = "pending" /\ flights' = [flights EXCEPT ![s].said = say]
    BY <1>7, <2>a, <2>b DEF ServerSays
  <2>2. f \in Flights
    BY <1>0, <2>1 DEF FlightOK, NoFlight
  <2>3. say \in Said
    BY <1>0, <2>b, <2>2 DEF Flights, Said
  <2>4. PICK g : g = [f EXCEPT !.said = say]
    OBVIOUS
  <2>5. g \in Flights /\ g.of = f.of /\ g.server = f.server
    BY <2>2, <2>3, <2>4 DEF Flights
  <2>6. FlightOK(g, uiMode)
    BY <1>0, <2>1, <2>5 DEF FlightOK, NoFlight
  <2>7. flights' = [r \in HealthSlots |-> IF r = s THEN g ELSE flights[r]]
    BY <2>1, <2>4 DEF HealthInvariant
  <2>8. flights' = [r \in HealthSlots |-> flights'[r]] /\ \A r \in HealthSlots : FlightOK(flights'[r], uiMode)
    BY <1>0, <2>6, <2>7
  <2> QED BY <1>0, <1>7, <2>8, FlightsOK DEF ServerSays
<1>8. ASSUME NEW s \in HealthSlots, AnswerComes(s)
      PROVE  HealthInvariant'
  <2>1. PICK f : f = flights[s] /\ f.said \notin {"pending", "none"}
    BY <1>8 DEF AnswerComes
  <2>2. /\ flights' = [flights EXCEPT ![s] = NoFlight]
        /\ last' = (IF f.server = "demo" THEN last ELSE f.said)
        /\ sample' = (IF panel.open /\ uiMode = "api" /\ f.server # "demo" THEN f.said ELSE sample)
        /\ panel' = (IF Newest(f) THEN [panel EXCEPT !.state = f.said, !.checking = FALSE, !.from = f.run] ELSE panel)
        /\ UNCHANGED <<uiMode, server, health>>
    BY <1>8, <2>1 DEF AnswerComes, CheckingAfter
  <2>3. f \in Flights /\ (f.of = "panel" => (f.server = "demo" <=> uiMode = "demo"))
    BY <1>0, <2>1 DEF FlightOK, NoFlight
  <2>4. f.said \in Said /\ f.run \in Nat
    BY <2>1, <2>3 DEF Flights
  <2>5. flights' = [r \in HealthSlots |-> flights'[r]] /\ \A r \in HealthSlots : FlightOK(flights'[r], uiMode')
    BY <1>0, <2>2 DEF HealthInvariant, FlightOK
  <2>6. panel' \in Panels /\ panel'.open = panel.open
    BY <1>0, <2>2, <2>4 DEF Panels
  <2>7. NewestCheckIsShown'
    <3>1. CASE Newest(f)
      <4>1. panel'.from = f.run /\ panel'.run = panel.run
        BY <1>0, <2>2, <3>1 DEF Panels
      <4> QED BY <3>1, <4>1 DEF Newest, NewestCheckIsShown
    <3> QED BY <2>2, <3>1 DEF HealthInvariant, NewestCheckIsShown
  <2>8. panel'.open => sample' = IF uiMode' = "api" THEN last' ELSE NoSample
    BY <2>2, <2>6 DEF HealthInvariant
  <2>9. panel'.open /\ panel'.state = "ok" /\ uiMode' = "api" => last' # NoSample
    <3>1. f.said # NoSample
      BY <2>4, SaidIsNoSample
    <3>2. CASE Newest(f)
      BY <2>2, <2>3, <3>1, <3>2 DEF Newest
    <3>3. CASE ~Newest(f)
      BY <2>2, <3>1, <3>3 DEF HealthInvariant
    <3> QED BY <3>2, <3>3
  <2> QED BY <1>0, <2>2, <2>5, <2>6, <2>7, <2>8, <2>9 DEF HealthInvariant
<1>9. CASE UNCHANGED healthVars
  BY <1>9 DEF healthVars, HealthInvariant, NewestCheckIsShown
<1> QED BY <1>1, <1>2, <1>3, <1>4, <1>5, <1>6, <1>7, <1>8, <1>9 DEF HealthNext

LEMMA InitHealth == HealthInit => HealthInvariant
<1> SUFFICES ASSUME HealthInit PROVE HealthInvariant
  OBVIOUS
<1>1. PICK none, new : none = [s \in HealthSlots |-> NoFlight] /\ new = <<Flight("readout", 0, server)>>
  OBVIOUS
<1>2. flights = Sent(none, new) /\ server \in Servers
  BY <1>1 DEF HealthInit
<1>3. \A s \in HealthSlots : FlightOK(none[s], uiMode)
  BY <1>1 DEF FlightOK
<1>4. \A k \in DOMAIN new : FlightOK(new[k], uiMode)
  <2>1. FlightOK(Flight("readout", 0, server), uiMode)
    BY <1>2, ReadoutFlight
  <2> QED BY <1>1, <2>1
<1>5. flights = [s \in HealthSlots |-> flights[s]] /\ \A s \in HealthSlots : FlightOK(flights[s], uiMode)
  BY <1>2, <1>3, <1>4, SentIs
<1>6. uiMode = "api" /\ panel = Shut /\ health \in [Servers -> Said]
  BY DEF HealthInit, Said
<1>7. Shut \in Panels /\ ~Shut.open
  BY VisitedIs
<1> QED BY <1>2, <1>5, <1>6, <1>7 DEF HealthInvariant, NewestCheckIsShown

\* For any servers, what the health screen shows once no check is under way is the
\* answer of the check asked for last, whatever order the answers come in, and the
\* request it shows is the last of its own mode (HealthView.tsx:79-86, 109-118).
THEOREM HealthStaysOfTheLastAsked == HealthSpec => []HealthIsOfTheLastAsked
<1>1. HealthInvariant => HealthIsOfTheLastAsked
  <2> SUFFICES ASSUME HealthInvariant PROVE HealthIsOfTheLastAsked
    OBVIOUS
  <2>1. panel.state \in Said \cup {"loading"}
    BY DEF HealthInvariant, Panels
  <2>2. LiveHealth.request = IF uiMode = "api" THEN sample ELSE NoSample
    BY DEF LiveHealth
  <2>3. LiveHealth.api = CASE panel.state = "loading"               -> "checking"
                           [] panel.state = "ok" /\ uiMode = "demo" -> "simulated"
                           [] panel.state = "ok" /\ uiMode = "api"  -> "answered 200"
                           [] panel.state = "unhealthy"             -> "degraded"
                           [] panel.state = "down"                  -> "diagnosis"
    BY DEF LiveHealth
  <2>4. uiMode \in {"api", "demo"}
    BY DEF HealthInvariant
  <2>5. LiveHealth.api = "answered 200" => panel.state = "ok" /\ uiMode = "api"
    BY <2>1, <2>3, <2>4 DEF Said
  <2> QED BY <2>2, <2>5 DEF HealthInvariant, HealthIsOfTheLastAsked, RequestShownIsTheLast
<1> QED BY <1>1, InitHealth, HealthStep, PTL DEF HealthSpec

-------------------------------------------------------------------------------
(* Ingestion: however often the form is sent, and whatever fails on the way *)
(* or comes late, the server stores what was asked for once.               *)

Kinds    == {"idle", "submitting", "done", "hmac", "error"}
Texts    == [id : {"", "x"}, space : {FALSE}]
Submits  == [kind : Kinds, id : Nat, deduplicated : BOOLEAN]
Posts    == [stage : {"none", "sent", "answered"}, external : Texts, mounted : BOOLEAN, answer : Submits, created : BOOLEAN]

\* Nothing more than what was pressed is stored or on its way.
OnePerPress == Len(received) + (IF flight.stage = "sent" THEN 1 ELSE 0) <= submits

\* Two rows with the same external id are one.
IdsDiffer == \A j, k \in DOMAIN received : received[j].id = received[k].id /\ received[j].id # "" => j = k

AnswerTrue ==
    /\ flight.stage = "sent" => ~flight.created
    /\ flight.stage = "answered" /\ flight.answer.kind = "done" =>
        ~signed /\ flight.answer.id \in DOMAIN received /\ flight.answer.deduplicated = ~flight.created

IngestionTypes ==
    /\ received \in Seq(Texts) /\ submits \in Nat
    /\ flight \in Posts
    /\ form \in [job : BOOLEAN, recording : BOOLEAN, external : [id : {"", "x"}, space : BOOLEAN]]

IngestionInvariant == IngestionTypes /\ OnePerPress /\ IdsDiffer /\ AnswerTrue

LEMMA SmallestIs ==
  ASSUME NEW I, I \subseteq Nat, I # {}
  PROVE  Min(I) \in I
<1>1. PICK less : less = {p \in Nat \X Nat : p[1] < p[2]}
  OBVIOUS
<1>2. IsWellFoundedOn(less, Nat)
  BY <1>1, NatLessThanWellFounded DEF OpToRel
<1>3. PICK x \in I : \A y \in I : <<y, x>> \notin less
  BY <1>2, WFMin
<1>4. ASSUME NEW y \in I PROVE x =< y
  <2>1. PICK p : p = <<y, x>>
    OBVIOUS
  <2>2. p \in Nat \X Nat /\ p[1] = y /\ p[2] = x
    BY <2>1
  <2> QED BY <1>1, <1>3, <2>1, <2>2
<1> QED BY <1>4 DEF Min

LEMMA KnownIs ==
  ASSUME received \in Seq(Texts), NEW external \in Texts
  PROVE  /\ Known(external) = 0 \/ Known(external) \in DOMAIN received
         /\ Known(external) = 0 /\ external # NoText => \A k \in DOMAIN received : received[k] # external
<1>1. CASE external = NoText
  BY <1>1 DEF Known
<1>2. CASE external # NoText
  <2>1. PICK I : I = {k \in 1 .. Len(received) : received[k] = external}
    OBVIOUS
  <2>2. Known(external) = IF I # {} THEN Min(I) ELSE 0
    BY <1>2, <2>1 DEF Known, SelectInSeq
  <2>3. I # {} => Min(I) \in I
    <3>1. I \subseteq Nat
      BY <2>1
    <3> QED BY <3>1, SmallestIs
  <2> QED BY <2>1, <2>2, <2>3
<1> QED BY <1>1, <1>2

LEMMA SubmitKnown ==
  ASSUME NEW kind \in Kinds, NEW id \in Nat
  PROVE  \E a \in Submits : a = Submit(kind, id, TRUE) /\ a.kind = kind /\ a.id = id /\ a.deduplicated = TRUE
<1>1. PICK a : a = [kind |-> kind, id |-> id, deduplicated |-> TRUE]
  OBVIOUS
<1>2. a \in Submits
  BY <1>1 DEF Submits
<1>3. a = Submit(kind, id, TRUE)
  BY <1>1 DEF Submit
<1>4. a.kind = kind /\ a.id = id
  BY <1>1
<1>5. a.deduplicated = TRUE
  BY <1>1
<1> QED BY <1>2, <1>3, <1>4, <1>5

LEMMA SubmitNew ==
  ASSUME NEW kind \in Kinds, NEW id \in Nat
  PROVE  \E a \in Submits : a = Submit(kind, id, FALSE) /\ a.kind = kind /\ a.id = id /\ ~a.deduplicated
<1>1. PICK a : a = [kind |-> kind, id |-> id, deduplicated |-> FALSE]
  OBVIOUS
<1>2. a \in Submits
  BY <1>1 DEF Submits
<1>3. a = Submit(kind, id, FALSE)
  BY <1>1 DEF Submit
<1>4. a.kind = kind /\ a.id = id
  BY <1>1
<1>5. ~a.deduplicated
  BY <1>1
<1> QED BY <1>2, <1>3, <1>4, <1>5

LEMMA NoPostIs == NoText \in Texts /\ NoPost \in Posts /\ NoPost.stage = "none" /\ NoText.id = ""
<1>1. NoText \in Texts /\ NoText.id = ""
  BY DEF NoText, Texts
<1>2. "idle" \in Kinds /\ 0 \in Nat
  BY DEF Kinds
<1>3. Idle \in Submits
  BY <1>2, SubmitNew DEF Idle
<1> QED BY <1>1, <1>3 DEF NoPost, Posts

LEMMA SameText == \A a, b \in Texts : a.id = b.id => a = b
<1> SUFFICES ASSUME NEW a \in Texts, NEW b \in Texts, a.id = b.id PROVE a = b
  OBVIOUS
<1>1. a = [id |-> a.id, space |-> FALSE] /\ b = [id |-> b.id, space |-> FALSE]
  BY DEF Texts
<1> QED BY <1>1

LEMMA CountsAreNumbers == IngestionInvariant => Len(received) \in Nat /\ submits \in Nat
<1>1. IngestionInvariant => received \in Seq(Texts) /\ submits \in Nat
  BY DEF IngestionInvariant, IngestionTypes
<1> QED BY <1>1

\* Nothing is on its way any more.
LEMMA NothingSent ==
  ASSUME IngestionInvariant, flight' = NoPost, UNCHANGED <<signed, received, submits, form>>
  PROVE  IngestionInvariant'
<1>1. flight'.stage = "none" /\ flight' \in Posts
  BY NoPostIs
<1>2. Len(received) \in Nat /\ submits \in Nat
  BY CountsAreNumbers
<1>3. OnePerPress'
  BY <1>1, <1>2 DEF IngestionInvariant, OnePerPress
<1> QED BY <1>1, <1>3 DEF IngestionInvariant, IngestionTypes, IdsDiffer, AnswerTrue

\* The fields alone.
LEMMA FormOnly ==
  ASSUME IngestionInvariant, UNCHANGED <<signed, received, submits, flight>>,
         form' \in [job : BOOLEAN, recording : BOOLEAN, external : [id : {"", "x"}, space : BOOLEAN]]
  PROVE  IngestionInvariant'
BY DEF IngestionInvariant, IngestionTypes, OnePerPress, IdsDiffer, AnswerTrue

LEMMA IngestionStep == IngestionInvariant /\ [IngestionNext]_ingestionVars => IngestionInvariant'
<1> SUFFICES ASSUME IngestionInvariant, [IngestionNext]_ingestionVars PROVE IngestionInvariant'
  OBVIOUS
<1>0. IngestionTypes
  BY DEF IngestionInvariant
<1>1. CASE OpenIngestion \/ OptionsArrive \/ RetryOptions
  BY <1>1, FormOnly, <1>0 DEF OpenIngestion, OptionsArrive, RetryOptions, IngestionTypes
<1>2. CASE LeaveIngestion
  <2>1. form' \in [job : BOOLEAN, recording : BOOLEAN, external : [id : {"", "x"}, space : BOOLEAN]]
    BY <1>2 DEF LeaveIngestion, EmptyForm, NoText
  <2>2. PICK f : f = flight /\ f \in Posts
    BY <1>0 DEF IngestionTypes
  <2>3. flight' = [f EXCEPT !.mounted = FALSE] /\ UNCHANGED <<signed, received, submits>>
    BY <1>2, <2>2 DEF LeaveIngestion
  <2>4. /\ flight' \in Posts /\ flight'.stage = flight.stage
        /\ flight'.answer = flight.answer /\ flight'.created = flight.created
    BY <2>2, <2>3 DEF Posts
  <2> QED BY <2>1, <2>3, <2>4 DEF IngestionInvariant, IngestionTypes, OnePerPress, IdsDiffer, AnswerTrue
<1>3. CASE Fill
  <2>1. PICK f : f = form /\ f \in [job : BOOLEAN, recording : BOOLEAN, external : [id : {"", "x"}, space : BOOLEAN]]
    BY <1>0 DEF IngestionTypes
  <2>2. Typed \subseteq [id : {"", "x"}, space : BOOLEAN]
    <3>1. [id |-> "", space |-> FALSE] \in [id : {"", "x"}, space : BOOLEAN]
      OBVIOUS
    <3> QED BY <3>1 DEF Typed
  <2>3. \/ form' = [f EXCEPT !.job = TRUE]
        \/ form' = [f EXCEPT !.recording = TRUE]
        \/ \E text \in Typed : form' = [f EXCEPT !.external = text]
    BY <1>3, <2>1 DEF Fill
  <2>4. form' \in [job : BOOLEAN, recording : BOOLEAN, external : [id : {"", "x"}, space : BOOLEAN]]
    BY <2>1, <2>2, <2>3
  <2> QED BY <1>3, <2>4, FormOnly DEF Fill
<1>4. CASE Press
  <2>1. PICK text : text = form.external /\ text \in [id : {"", "x"}, space : BOOLEAN]
    BY <1>0 DEF IngestionTypes
  <2>2. PICK payload : payload = Payload(text) /\ payload \in Texts
    <3>1. [text EXCEPT !.space = FALSE] \in Texts
      BY <2>1 DEF Texts
    <3> QED BY <3>1 DEF Payload
  <2>3. PICK f : f = NoPost /\ f \in Posts /\ f.stage = "none"
    BY NoPostIs
  <2>4. /\ flight = f /\ flight' = [f EXCEPT !.stage = "sent", !.external = payload, !.mounted = TRUE]
        /\ submits' = submits + 1 /\ UNCHANGED <<signed, form, received>>
    BY <1>4, <2>1, <2>2, <2>3 DEF Press
  <2>5. flight' \in Posts /\ flight'.stage = "sent" /\ flight'.created = FALSE
    <3>1. f.created = FALSE
      BY <2>3 DEF NoPost
    <3> QED BY <2>2, <2>3, <2>4, <3>1 DEF Posts
  <2>6. OnePerPress'
    <3>1. Len(received) \in Nat /\ submits \in Nat
      BY CountsAreNumbers
    <3>2. Len(received) <= submits
      BY <2>3, <2>4, <3>1 DEF IngestionInvariant, OnePerPress
    <3> QED BY <2>4, <2>5, <3>1, <3>2 DEF OnePerPress
  <2>7. AnswerTrue'
    BY <2>5 DEF AnswerTrue
  <2>8. submits' \in Nat
    BY <2>4, CountsAreNumbers
  <2> QED BY <2>4, <2>5, <2>6, <2>7, <2>8 DEF IngestionInvariant, IngestionTypes, IdsDiffer
<1>5. CASE WebhookRuns
  <2>1. PICK f : f = flight /\ f \in Posts
    BY <1>0 DEF IngestionTypes
  <2>2. f.stage = "sent" /\ f.external \in Texts /\ received \in Seq(Texts) /\ UNCHANGED <<signed, form, submits>>
    BY <1>0, <1>5, <2>1 DEF WebhookRuns, Posts, IngestionTypes
  <2>3. PICK known : known = Known(f.external)
    OBVIOUS
  <2>a. Len(received) \in Nat /\ submits \in Nat
    BY CountsAreNumbers
  <2>b. Len(received) + 1 <= submits
    BY <2>1, <2>2, <2>a DEF IngestionInvariant, OnePerPress
  <2>4. Len(received) + 1 <= submits /\ Len(received) \in Nat /\ submits \in Nat
    BY <2>a, <2>b
  <2>5. CASE signed
    <3>1. PICK a \in Submits : a = Submit("hmac", 0, FALSE) /\ a.kind = "hmac" /\ a.id = 0 /\ ~a.deduplicated
      <4>1. "hmac" \in Kinds /\ 0 \in Nat
        BY SMT DEF Kinds
      <4> QED BY <4>1, SubmitNew
    <3>2. received' = received /\ flight' = [f EXCEPT !.stage = "answered", !.answer = a]
      BY <1>5, <2>1, <2>5, <3>1 DEF WebhookRuns
    <3>3. flight' \in Posts /\ flight'.stage = "answered" /\ flight'.answer = a
      BY <2>1, <3>1, <3>2 DEF Posts
    <3>4. OnePerPress'
      BY <2>2, <2>4, <3>2, <3>3 DEF OnePerPress
    <3>5. AnswerTrue'
      BY <3>1, <3>3 DEF AnswerTrue
    <3> QED BY <2>2, <3>2, <3>3, <3>4, <3>5 DEF IngestionInvariant, IngestionTypes, IdsDiffer
  <2>6. CASE ~signed /\ known > 0
    <3>1. known \in DOMAIN received /\ known \in Nat
      BY <2>2, <2>3, <2>6, KnownIs
    <3>2. PICK a \in Submits : a = Submit("done", known, TRUE) /\ a.kind = "done" /\ a.id = known /\ a.deduplicated = TRUE
      <4>1. "done" \in Kinds /\ known \in Nat
        BY <3>1, SMT DEF Kinds
      <4> QED BY <4>1, SubmitKnown
    <3>3. received' = received /\ flight' = [f EXCEPT !.stage = "answered", !.answer = a]
      BY <1>5, <2>1, <2>3, <2>6, <3>2 DEF WebhookRuns
    <3>4. flight' \in Posts /\ flight'.stage = "answered" /\ flight'.answer = a /\ flight'.created = f.created
      BY <2>1, <3>2, <3>3 DEF Posts
    <3>5. f.created = FALSE
      BY <2>1, <2>2 DEF IngestionInvariant, AnswerTrue
    <3>6. OnePerPress'
      BY <2>2, <2>4, <3>3, <3>4 DEF OnePerPress
    <3>7. AnswerTrue'
      BY <2>2, <2>6, <3>1, <3>2, <3>3, <3>4, <3>5 DEF AnswerTrue
    <3> QED BY <2>2, <3>3, <3>4, <3>6, <3>7 DEF IngestionInvariant, IngestionTypes, IdsDiffer
  <2>7. CASE ~signed /\ ~(known > 0)
    <3>1. known = 0
      BY <2>2, <2>3, <2>7, KnownIs
    <3>2. PICK a \in Submits : a = Submit("done", Len(received) + 1, FALSE) /\ a.kind = "done" /\ a.id = Len(received) + 1 /\ ~a.deduplicated
      <4>1. "done" \in Kinds /\ Len(received) + 1 \in Nat
        BY <2>4, SMT DEF Kinds
      <4> QED BY <4>1, SubmitNew
    <3>3. received' = Append(received, f.external) /\ flight' = [f EXCEPT !.stage = "answered", !.created = TRUE, !.answer = a]
      BY <1>5, <2>1, <2>3, <2>7, <3>2 DEF WebhookRuns
    <3>4. flight' \in Posts /\ flight'.stage = "answered" /\ flight'.answer = a /\ flight'.created = TRUE
      BY <2>1, <3>2, <3>3 DEF Posts
    <3>5. /\ received' \in Seq(Texts) /\ Len(received') = Len(received) + 1
          /\ received'[Len(received) + 1] = f.external
          /\ \A k \in 1 .. Len(received) : received'[k] = received[k]
      BY <2>2, <3>3
    <3>6. IdsDiffer'
      <4>1. ASSUME NEW k \in 1 .. Len(received), received[k].id = f.external.id, f.external.id # "" PROVE FALSE
        <5>1. received[k] \in Texts
          BY <2>2
        <5>2. received[k] = f.external
          BY <2>2, <4>1, <5>1, SameText
        <5>3. f.external # NoText
          BY <4>1, NoPostIs
        <5>4. k \in DOMAIN received
          BY <2>2
        <5>5. \A i \in DOMAIN received : received[i] # f.external
          BY <2>2, <2>3, <3>1, <5>3, KnownIs
        <5> QED BY <5>2, <5>4, <5>5
      <4>2. DOMAIN received' = 1 .. Len(received) + 1 /\ DOMAIN received = 1 .. Len(received)
        BY <2>2, <3>5
      <4>3. SUFFICES ASSUME NEW j \in 1 .. Len(received) + 1, NEW k \in 1 .. Len(received) + 1,
                            received'[j].id = received'[k].id, received'[j].id # ""
                     PROVE  j = k
        BY <4>2 DEF IdsDiffer
      <4>4. j \in 1 .. Len(received) \/ j = Len(received) + 1
        BY <2>4
      <4>5. k \in 1 .. Len(received) \/ k = Len(received) + 1
        BY <2>4
      <4>6. CASE j \in 1 .. Len(received) /\ k \in 1 .. Len(received)
        BY <3>5, <4>2, <4>3, <4>6 DEF IngestionInvariant, IdsDiffer
      <4> QED BY <3>5, <4>1, <4>3, <4>4, <4>5, <4>6
    <3>7. OnePerPress'
      BY <2>2, <2>4, <3>4, <3>5 DEF OnePerPress
    <3>8. Len(received) + 1 \in DOMAIN received'
      BY <2>4, <3>5
    <3>9. flight'.answer.deduplicated = ~flight'.created
      <4>1. a.deduplicated \in BOOLEAN
        BY DEF Submits
      <4> QED BY <3>2, <3>4, <4>1
    <3>10. flight'.answer.id \in DOMAIN received'
      BY <3>2, <3>4, <3>8
    <3>11. AnswerTrue'
      BY <2>2, <2>7, <3>4, <3>9, <3>10 DEF AnswerTrue
    <3> QED BY <2>2, <3>4, <3>5, <3>6, <3>7, <3>11 DEF IngestionInvariant, IngestionTypes
  <2> QED BY <2>5, <2>6, <2>7
<1>6. CASE AnswerArrives \/ PostFails
  BY <1>6, NothingSent DEF AnswerArrives, PostFails
<1>7. CASE Another
  <2>1. PICK f : f = form /\ f \in [job : BOOLEAN, recording : BOOLEAN, external : [id : {"", "x"}, space : BOOLEAN]]
    BY <1>0 DEF IngestionTypes
  <2>2. NoText \in [id : {"", "x"}, space : BOOLEAN]
    BY DEF NoText
  <2>3. form' = [f EXCEPT !.recording = FALSE, !.external = NoText]
    BY <1>7, <2>1 DEF Another
  <2>4. form' \in [job : BOOLEAN, recording : BOOLEAN, external : [id : {"", "x"}, space : BOOLEAN]]
    BY <2>1, <2>2, <2>3
  <2> QED BY <1>7, <2>4, FormOnly DEF Another
<1>8. CASE UNCHANGED ingestionVars
  BY <1>8 DEF ingestionVars, IngestionInvariant, IngestionTypes, OnePerPress, IdsDiffer, AnswerTrue
<1> QED BY <1>1, <1>2, <1>3, <1>4, <1>5, <1>6, <1>7, <1>8 DEF IngestionNext

LEMMA InitIngestion == IngestionInit => IngestionInvariant
<1> SUFFICES ASSUME IngestionInit PROVE IngestionInvariant
  OBVIOUS
<1>1. received = <<>> /\ submits = 0 /\ flight = NoPost
  BY DEF IngestionInit
<1>2. form \in [job : BOOLEAN, recording : BOOLEAN, external : [id : {"", "x"}, space : BOOLEAN]]
  BY DEF IngestionInit, EmptyForm, NoText
<1>3. received \in Seq(Texts) /\ Len(received) = 0 /\ DOMAIN received = {}
  BY <1>1
<1>4. flight \in Posts /\ flight.stage = "none" /\ submits \in Nat
  BY <1>1, NoPostIs
<1>5. OnePerPress
  BY <1>1, <1>3, <1>4 DEF OnePerPress
<1> QED BY <1>2, <1>3, <1>4, <1>5 DEF IngestionInvariant, IngestionTypes, IdsDiffer, AnswerTrue

\* However often the form is sent, whatever fails on the way, an external id has one
\* interview, no more are stored than were asked for, and the screen says of each
\* what became of it (IngestionView.tsx:219-222, 276-291).
THEOREM SubmissionsStayTrue == IngestionSpec => SubmissionsAreTrue
<1>1. IngestionInvariant => ResendingIsHarmless
  <2> SUFFICES ASSUME IngestionInvariant PROVE ResendingIsHarmless
    OBVIOUS
  <2>1. Len(received) \in Nat /\ submits \in Nat
    BY CountsAreNumbers
  <2>2. Len(received) <= submits
    BY <2>1 DEF IngestionInvariant, OnePerPress
  <2> QED BY <2>2 DEF IngestionInvariant, IdsDiffer, ResendingIsHarmless
<1>2. IngestionInvariant /\ [IngestionNext]_ingestionVars =>
        [submit'.kind = "done" /\ submit.kind = "submitting" =>
            /\ ~signed
            /\ submit'.id \in DOMAIN received
            /\ submit'.deduplicated = ~flight.created]_ingestionVars
  <2> SUFFICES ASSUME IngestionInvariant, IngestionNext, submit'.kind = "done", submit.kind = "submitting"
               PROVE  ~signed /\ submit'.id \in DOMAIN received /\ submit'.deduplicated = ~flight.created
    OBVIOUS
  <2>1. CASE AnswerArrives
    <3>1. submit' = flight.answer
      BY <2>1 DEF AnswerArrives, Shows
    <3> QED BY <2>1, <3>1 DEF IngestionInvariant, AnswerTrue, AnswerArrives
  <2>2. CASE ~AnswerArrives
    <3>1. submit' = submit \/ submit'.kind # "done"
      BY <2>2 DEF IngestionNext, OpenIngestion, OptionsArrive, RetryOptions, LeaveIngestion, Fill, Press, Another,
                  WebhookRuns, PostFails, Idle, Submit, FailureShown
    <3> QED BY <3>1
  <2> QED BY <2>1, <2>2
<1> QED BY <1>1, <1>2, InitIngestion, IngestionStep, PTL DEF IngestionSpec, SubmissionsAreTrue, DoneIsTrue

-------------------------------------------------------------------------------
(* The windowed list: for rows, a viewport and an overscan of any size, the *)
(* rows on the screen are in the page.                                      *)

LEMMA Divided ==
  ASSUME NEW d \in Nat, NEW h \in Nat \ {0}
  PROVE  /\ d \div h \in Nat
         /\ (d \div h) * h <= d
         /\ d < (d \div h + 1) * h
OBVIOUS

LEMMA Rounded ==
  Ceiling(ViewportHeight, RowHeight) \in Nat /\ Ceiling(ViewportHeight, RowHeight) * RowHeight >= ViewportHeight
<1>1. PICK d : d = ViewportHeight + RowHeight - 1 /\ d \in Nat
  BY WindowingAssumption
<1>2. d \div RowHeight \in Nat /\ d < (d \div RowHeight + 1) * RowHeight
  BY <1>1, WindowingAssumption, Divided
<1>3. PICK c : c = d \div RowHeight /\ c \in Nat
  BY <1>2
<1>4. c * RowHeight \in Nat /\ (c + 1) * RowHeight = c * RowHeight + RowHeight
  BY <1>3, WindowingAssumption
<1> QED BY <1>1, <1>2, <1>3, <1>4, WindowingAssumption DEF Ceiling

LEMMA Cancelled ==
  ASSUME NEW a \in Int, NEW b \in Int, NEW h \in Nat \ {0}, a * h < b * h
  PROVE  a < b
<1> SUFFICES ASSUME b <= a PROVE FALSE
  OBVIOUS
<1>1. PICK e \in Nat : a = b + e
  OBVIOUS
<1>2. a * h = b * h + e * h /\ e * h \in Nat /\ b * h \in Int
  BY <1>1
<1> QED BY <1>2

LEMMA Larger ==
  ASSUME NEW a \in Int, NEW b \in Int
  PROVE  Max({a, b}) = (IF a > b THEN a ELSE b) /\ Min({a, b}) = (IF a < b THEN a ELSE b)
<1>1. \A x \in {a, b} : (\A y \in {a, b} : x >= y) => x = IF a > b THEN a ELSE b
  OBVIOUS
<1>2. \A x \in {a, b} : (\A y \in {a, b} : x =< y) => x = IF a < b THEN a ELSE b
  OBVIOUS
<1>3. \E x \in {a, b} : \A y \in {a, b} : x >= y
  OBVIOUS
<1>4. \E x \in {a, b} : \A y \in {a, b} : x =< y
  OBVIOUS
<1> QED BY <1>1, <1>2, <1>3, <1>4 DEF Max, Min

\* A windowed list is longer than the viewport.
LEMMA FarthestIs == \A n \in Nat : Farthest(n) \in Nat
<1> SUFFICES ASSUME NEW n \in Nat, Windowed(n) PROVE n * RowHeight - ViewportHeight \in Nat
  BY DEF Farthest
<1>1. Threshold \in Nat /\ RowHeight \in Nat \ {0} /\ ViewportHeight \in Nat /\ Threshold * RowHeight > ViewportHeight
  BY WindowingAssumption
<1>2. PICK e \in Nat : n = Threshold + e
  BY <1>1 DEF Windowed
<1>3. n * RowHeight = Threshold * RowHeight + e * RowHeight /\ e * RowHeight \in Nat /\ Threshold * RowHeight \in Nat
  BY <1>1, <1>2
<1> QED BY <1>1, <1>3

\* The component knows where the element is, or will be told, or has not heard of
\* an element made anew.
WindowInvariant ==
    /\ items \in Nat /\ scrollTop \in Nat /\ domTop \in 0 .. Farthest(items)
    /\ told \in BOOLEAN /\ stale \in BOOLEAN
    /\ told => Windowed(items)
    /\ frame = NoFrame \/ (frame \in Nat /\ Windowed(items) /\ (told \/ frame = domTop))
    /\ Windowed(items) /\ ~told /\ frame = NoFrame /\ ~stale => scrollTop = domTop
    /\ ~Windowed(items) => stale \/ scrollTop = 0

LEMMA WindowStep == WindowInvariant /\ [WindowingNext]_windowVars => WindowInvariant'
<1> SUFFICES ASSUME WindowInvariant, [WindowingNext]_windowVars PROVE WindowInvariant'
  OBVIOUS
<1>0. Farthest(items) \in Nat /\ domTop \in Nat /\ domTop <= Farthest(items) /\ NoFrame \notin Nat
  BY FarthestIs DEF WindowInvariant, NoFrame
<1>1. ASSUME NEW to \in 0 .. MaxItems * RowHeight, Scroll(to)
      PROVE  WindowInvariant'
  BY <1>0, <1>1 DEF Scroll, WindowInvariant
<1>2. CASE ScrollEvent
  <2>1. Windowed(items)
    BY <1>2 DEF ScrollEvent, WindowInvariant
  <2> QED BY <1>0, <1>2, <2>1 DEF ScrollEvent, WindowInvariant
<1>3. CASE Frame
  BY <1>0, <1>3 DEF Frame, WindowInvariant
<1>4. ASSUME NEW n \in 0 .. MaxItems, Resize(n)
      PROVE  WindowInvariant'
  <2>1. /\ n \in Nat /\ Farthest(n) \in Nat /\ items' = n /\ frame' = NoFrame /\ frame = NoFrame
        /\ domTop' = (IF Windowed(items) THEN Min({domTop, Farthest(n)}) ELSE 0)
        /\ told' = (Windowed(items) /\ Windowed(n) /\ (told \/ domTop' # domTop))
        /\ scrollTop' = (IF n = 0 THEN 0 ELSE scrollTop)
        /\ stale' = (n # 0 /\ (stale \/ (Windowed(items) /\ ~Windowed(n) /\ scrollTop # 0)))
    BY <1>4, FarthestIs DEF Resize
  <2>2. Min({domTop, Farthest(n)}) = IF domTop < Farthest(n) THEN domTop ELSE Farthest(n)
    <3>1. PICK f \in Int, e \in Int : f = Farthest(n) /\ e = domTop
      BY <1>0, <2>1
    <3>2. Min({e, f}) = IF e < f THEN e ELSE f
      BY Larger
    <3> QED BY <3>1, <3>2
  <2>3. domTop' \in 0 .. Farthest(n)
    BY <1>0, <2>1, <2>2
  <2>4. scrollTop' \in Nat
    BY <2>1 DEF WindowInvariant
  <2>5. ~Windowed(0)
    BY WindowingAssumption DEF Windowed
  <2>6. Windowed(n) /\ ~told' /\ ~stale' => scrollTop' = domTop'
    BY <2>1, <2>5 DEF WindowInvariant
  <2>7. ~Windowed(n) => stale' \/ scrollTop' = 0
    BY <2>1 DEF WindowInvariant
  <2>8. told' \in BOOLEAN /\ stale' \in BOOLEAN
    BY <2>1
  <2> QED BY <2>1, <2>3, <2>4, <2>6, <2>7, <2>8 DEF WindowInvariant
<1>5. CASE UNCHANGED windowVars
  BY <1>5 DEF windowVars, WindowInvariant
<1> QED BY <1>1, <1>2, <1>3, <1>4, <1>5 DEF WindowingNext

\* The rows in a viewport near where the component is are among those it renders.
LEMMA RowsNear ==
  ASSUME NEW d \in Nat, NEW top \in Int, NEW n \in Nat, NEW r \in 0 .. n - 1,
         top >= d - Overscan * RowHeight, top <= d + (Overscan - 1) * RowHeight,
         r * RowHeight < top + ViewportHeight, (r + 1) * RowHeight > top
  PROVE  r \in FirstRow(d) .. LastRow(n, d) - 1
<1>1. RowHeight \in Nat \ {0} /\ ViewportHeight \in Nat /\ Overscan \in Nat \ {0}
  BY WindowingAssumption
<1>2. PICK c \in Nat : c = Ceiling(ViewportHeight, RowHeight) /\ c * RowHeight >= ViewportHeight
  BY Rounded
<1>3. PICK q \in Nat : q = d \div RowHeight /\ q * RowHeight <= d /\ d < (q + 1) * RowHeight
  BY <1>1, Divided
<1>4. FirstRow(d) = IF 0 > q - Overscan THEN 0 ELSE q - Overscan
  <2>1. PICK m \in Int : m = q - Overscan
    BY <1>1
  <2>2. FirstRow(d) = Max({0, m})
    BY <1>3, <2>1 DEF FirstRow
  <2>3. Max({0, m}) = IF 0 > m THEN 0 ELSE m
    BY Larger
  <2> QED BY <2>1, <2>2, <2>3
<1>5. FirstRow(d) \in Nat /\ FirstRow(d) >= q - Overscan
  BY <1>1, <1>4
<1>6. LastRow(n, d) = IF n < FirstRow(d) + c + Overscan * 2 THEN n ELSE FirstRow(d) + c + Overscan * 2
  <2>1. PICK m \in Int, k \in Int : m = FirstRow(d) + c + Overscan * 2 /\ k = n
    BY <1>1, <1>5
  <2>2. LastRow(n, d) = Min({k, m})
    BY <1>2, <2>1 DEF LastRow
  <2>3. Min({k, m}) = IF k < m THEN k ELSE m
    BY Larger
  <2> QED BY <2>1, <2>2, <2>3
<1>7. r >= q - Overscan
  <2>1. (q - Overscan) * RowHeight = q * RowHeight - Overscan * RowHeight
    BY <1>1
  <2>2. (q - Overscan) * RowHeight < (r + 1) * RowHeight
    BY <1>1, <1>3, <2>1
  <2>3. q - Overscan < r + 1
    BY <1>1, <2>2, Cancelled
  <2> QED BY <1>1, <2>3
<1>8. r < q + Overscan + c
  <2>1. /\ (q + Overscan + c) * RowHeight = q * RowHeight + Overscan * RowHeight + c * RowHeight
        /\ (q + 1) * RowHeight = q * RowHeight + RowHeight
        /\ (Overscan - 1) * RowHeight = Overscan * RowHeight - RowHeight
        /\ q * RowHeight \in Int /\ Overscan * RowHeight \in Int /\ c * RowHeight \in Int /\ r * RowHeight \in Int
    BY <1>1
  <2>2. r * RowHeight < (q + Overscan + c) * RowHeight
    BY <1>1, <1>2, <1>3, <2>1
  <2>3. q + Overscan + c \in Int
    BY <1>1
  <2> QED BY <1>1, <2>2, <2>3, Cancelled
<1>9. r >= FirstRow(d)
  BY <1>1, <1>4, <1>7
<1>10. r < LastRow(n, d) /\ LastRow(n, d) \in Int
  BY <1>1, <1>5, <1>6, <1>8
<1> QED BY <1>5, <1>9, <1>10

LEMMA InitWindow == WindowingInit => WindowInvariant
<1> SUFFICES ASSUME WindowingInit PROVE WindowInvariant
  OBVIOUS
<1>1. items \in Nat
  BY WindowingAssumption DEF WindowingInit
<1>2. Farthest(items) \in Nat
  BY <1>1, FarthestIs
<1>3. domTop = 0 /\ scrollTop = 0 /\ frame = NoFrame /\ told = FALSE /\ stale = FALSE
  BY DEF WindowingInit
<1>4. told \in BOOLEAN /\ stale \in BOOLEAN
  BY <1>3
<1>5. 0 \in 0 .. Farthest(items) /\ 0 \in Nat
  BY <1>2
<1> QED BY <1>1, <1>3, <1>4, <1>5 DEF WindowInvariant

\* For rows and a viewport of any height and any number of rows, every row in the
\* viewport is in the page, and so is every row that comes into it within the rows
\* kept beyond it (VirtualList.tsx:19-20, 54-61).
THEOREM RowsOnScreenAreAlwaysRendered == WindowingSpec => []RowsOnScreenAreRendered
<1>1. WindowInvariant => RowsOnScreenAreRendered
  <2> SUFFICES ASSUME WindowInvariant, ~told, frame = NoFrame, ~stale, NEW top \in 0 .. Farthest(items),
                      top - domTop \in -(Overscan * RowHeight) .. (Overscan - 1) * RowHeight,
                      NEW r \in InViewport(top)
               PROVE  r \in Rendered
    BY DEF RowsOnScreenAreRendered
  <2>1. items \in Nat /\ Farthest(items) \in Nat /\ domTop \in Nat
    BY FarthestIs DEF WindowInvariant
  <2>2. r \in 0 .. items - 1 /\ r * RowHeight < top + ViewportHeight /\ (r + 1) * RowHeight > top
    BY DEF InViewport
  <2>3. CASE Windowed(items)
    <3>1. scrollTop = domTop
      BY <2>3 DEF WindowInvariant
    <3>2. Overscan * RowHeight \in Int /\ (Overscan - 1) * RowHeight \in Int
      BY WindowingAssumption
    <3>3. top \in Int /\ top >= domTop - Overscan * RowHeight /\ top <= domTop + (Overscan - 1) * RowHeight
      BY <2>1, <3>2
    <3>4. r \in FirstRow(domTop) .. LastRow(items, domTop) - 1
      BY <2>1, <2>2, <3>3, RowsNear
    <3> QED BY <2>3, <3>1, <3>4 DEF Rendered
  <2>4. CASE ~Windowed(items)
    BY <2>2, <2>4 DEF Rendered
  <2> QED BY <2>3, <2>4
<1> QED BY <1>1, InitWindow, WindowStep, PTL DEF WindowingSpec

-------------------------------------------------------------------------------
(* The coachmark: for screens, targets and distances of any size. *)

\* Any screen too wide for a sheet where the coachmark fits under the masthead, and
\* any target that is not beyond its sides, as no page scrolls sideways: the calls
\* TLC considers (PlaceCalls) are among them.
AnyPlace ==
    {call \in [kind : {"place"}, screen : [width : Nat, height : Nat], masthead : Nat, popHeight : Nat \ {0},
               target : [top : Int, left : Int, width : Nat, height : Nat]] :
        /\ call.screen.width >= SHEET_BELOW
        /\ call.masthead + call.popHeight + 2 * MARGIN <= call.screen.height
        /\ call.target.left - PAD - GAP <= call.screen.width - MARGIN
        /\ call.target.left + call.target.width + PAD + GAP >= MARGIN}

Boxes == [top : Int, left : Int, width : Int, height : Int]

LEMMA Half == \A x \in Nat : x \div 2 \in Nat /\ 2 * (x \div 2) <= x /\ x <= 2 * (x \div 2) + 1
OBVIOUS

LEMMA HoleIs ==
  ASSUME NEW target \in Boxes, target.width >= 0
  PROVE  \E hole \in Boxes :
            /\ hole = HoleOf(target) /\ hole # NoHole
            /\ hole.top = target.top - PAD /\ hole.left = target.left - PAD
            /\ hole.width = target.width + 2 * PAD /\ hole.height = target.height + 2 * PAD
<1>1. PICK hole : hole = [top |-> target.top - PAD, left |-> target.left - PAD,
                          width |-> target.width + 2 * PAD, height |-> target.height + 2 * PAD]
  OBVIOUS
<1>2. /\ hole.top = target.top - PAD /\ hole.left = target.left - PAD
      /\ hole.width = target.width + 2 * PAD /\ hole.height = target.height + 2 * PAD
  BY <1>1
<1>3. hole \in Boxes /\ hole = HoleOf(target)
  BY <1>1, CoachmarkAssumption DEF Boxes, HoleOf, Box
<1>4. NoHole.width = -1
  BY DEF NoHole, Box
<1>5. hole.width >= 0
  BY <1>2, CoachmarkAssumption DEF Boxes
<1>6. hole # NoHole
  BY <1>4, <1>5
<1> QED BY <1>2, <1>3, <1>6

LEMMA Clamped == \A m, n \in Int : AtLeast(m, n) \in Int /\ AtMost(m, n) \in Int
BY DEF AtLeast, AtMost

LEMMA EverythingElseIsBlocked ==
  ASSUME NEW hole \in Boxes, hole # NoHole, NEW screen \in [width : Nat, height : Nat],
         NEW x \in 0 .. screen.width - 1, NEW y \in 0 .. screen.height - 1
  PROVE  (\E b \in Blockers(hole, screen) : Covers(b, x, y)) <=> ~Covers(hole, x, y)
<1>1. PICK t \in Int, l \in Int, w \in Int, h \in Int, W \in Int, H \in Int :
        t = hole.top /\ l = hole.left /\ w = hole.width /\ h = hole.height /\ W = screen.width /\ H = screen.height
  BY DEF Boxes
<1>2. PICK top \in Int : top = AtLeast(t, 0)
  BY Clamped
<1>3. PICK bottom \in Int : bottom = AtMost(t + h, H)
  BY DEF AtMost
<1>4. PICK left \in Int : left = AtLeast(l, 0)
  BY Clamped
<1>5. PICK right \in Int : right = AtMost(l + w, W)
  BY DEF AtMost
<1>6. PICK tall \in Int : tall = AtLeast(bottom - top, 0)
  BY DEF AtLeast
<1>7. PICK under \in Int, beside \in Int : under = H - bottom /\ beside = W - right
  OBVIOUS
<1>8. PICK a, b, c, d :
        /\ a = Box(0, 0, W, top)
        /\ b = Box(bottom, 0, W, under)
        /\ c = Box(top, 0, left, tall)
        /\ d = Box(top, right, beside, tall)
  OBVIOUS
<1>9. Blockers(hole, screen) = {a, b, c, d}
  BY <1>1, <1>2, <1>3, <1>4, <1>5, <1>6, <1>7, <1>8 DEF Blockers
<1>10. x \in Int /\ y \in Int /\ 0 <= x /\ x < W /\ 0 <= y /\ y < H /\ 0 \in Int
  BY <1>1
<1>11. Covers(a, x, y) <=> 0 <= x /\ x < 0 + W /\ 0 <= y /\ y < 0 + top
  <2>1. a.top = 0 /\ a.left = 0 /\ a.width = W /\ a.height = top
    BY <1>8 DEF Box
  <2> QED BY <2>1 DEF Covers
<1>12. Covers(b, x, y) <=> 0 <= x /\ x < 0 + W /\ bottom <= y /\ y < bottom + under
  <2>1. b.top = bottom /\ b.left = 0 /\ b.width = W /\ b.height = under
    BY <1>8 DEF Box
  <2> QED BY <2>1 DEF Covers
<1>13. Covers(c, x, y) <=> 0 <= x /\ x < 0 + left /\ top <= y /\ y < top + tall
  <2>1. c.top = top /\ c.left = 0 /\ c.width = left /\ c.height = tall
    BY <1>8 DEF Box
  <2> QED BY <2>1 DEF Covers
<1>14. Covers(d, x, y) <=> right <= x /\ x < right + beside /\ top <= y /\ y < top + tall
  <2>1. d.top = top /\ d.left = right /\ d.width = beside /\ d.height = tall
    BY <1>8 DEF Box
  <2> QED BY <2>1 DEF Covers
<1>15. Covers(hole, x, y) <=> l <= x /\ x < l + w /\ t <= y /\ y < t + h
  BY <1>1 DEF Covers
<1>16. Covers(hole, x, y) <=> top <= y /\ y < bottom /\ left <= x /\ x < right
  BY <1>2, <1>3, <1>4, <1>5, <1>10, <1>15 DEF AtLeast, AtMost
<1>17. (Covers(a, x, y) \/ Covers(b, x, y) \/ Covers(c, x, y) \/ Covers(d, x, y)) <=> ~Covers(hole, x, y)
  BY <1>6, <1>7, <1>10, <1>11, <1>12, <1>13, <1>14, <1>16 DEF AtLeast
<1> QED BY <1>9, <1>17

Sizes == [width : Nat, height : Nat]

LEMMA HalfIsInt == \A x \in Int : x \div 2 \in Int
OBVIOUS

\* The five places, and when each is taken.
TakesAPlace(p, centred, level, hole, size, screen, masthead) ==
    /\ p.width = size.width /\ p.height = size.height
    /\ \E k \in Int : centred = ClampLeft(k, size, screen)
    /\ level = ClampTop(hole.top, size, screen, masthead)
    /\ \/ /\ p.top = hole.top + hole.height + GAP /\ p.left = centred
          /\ p.top + size.height <= screen.height - MARGIN
       \/ /\ p.top = hole.top - GAP - size.height /\ p.left = centred
          /\ p.top >= masthead + MARGIN
       \/ /\ p.top = level /\ p.left = hole.left + hole.width + GAP
          /\ p.left + size.width <= screen.width - MARGIN
       \/ /\ p.top = level /\ p.left = hole.left - GAP - size.width
          /\ p.left >= MARGIN
       \/ /\ p.top = screen.height - size.height - MARGIN /\ p.left = screen.width - size.width - MARGIN
          /\ hole.left + hole.width + GAP + size.width > screen.width - MARGIN
          /\ hole.left - GAP - size.width < MARGIN
          /\ hole.top + hole.height + GAP + size.height > screen.height - MARGIN

LEMMA PlaceIs ==
  ASSUME NEW hole \in Boxes, hole # NoHole, NEW size \in Sizes, NEW screen \in Sizes, NEW masthead \in Nat
  PROVE  \E p \in Boxes, centred \in Int, level \in Int :
            /\ p = PlaceCoachmark(hole, size, screen, masthead)
            /\ TakesAPlace(p, centred, level, hole, size, screen, masthead)
<1>1. PICK k \in Int : k = hole.left + (hole.width - size.width) \div 2
  BY HalfIsInt DEF Boxes, Sizes
<1>2. PICK centred \in Int : centred = ClampLeft(k, size, screen)
  BY CoachmarkAssumption DEF ClampLeft, AtMost, AtLeast, Sizes
<1>3. PICK level \in Int : level = ClampTop(hole.top, size, screen, masthead)
  BY CoachmarkAssumption DEF ClampTop, AtMost, AtLeast, Sizes, Boxes
<1>a. PICK below \in Int : below = hole.top + hole.height + GAP
  BY CoachmarkAssumption DEF Boxes, Sizes
<1>b. PICK above \in Int : above = hole.top - GAP - size.height
  BY CoachmarkAssumption DEF Boxes, Sizes
<1>c. PICK right \in Int : right = hole.left + hole.width + GAP
  BY CoachmarkAssumption DEF Boxes, Sizes
<1>d. PICK left \in Int : left = hole.left - GAP - size.width
  BY CoachmarkAssumption DEF Boxes, Sizes
<1>e. PICK bottom \in Int : bottom = screen.height - size.height - MARGIN
  BY CoachmarkAssumption DEF Boxes, Sizes
<1>f. PICK end \in Int : end = screen.width - size.width - MARGIN
  BY CoachmarkAssumption DEF Boxes, Sizes
<1>5. PICK p : p = PlaceCoachmark(hole, size, screen, masthead)
  OBVIOUS
<1>6. p = CASE below + size.height <= screen.height - MARGIN -> Box(below, centred, size.width, size.height)
            [] below + size.height > screen.height - MARGIN /\ above >= masthead + MARGIN ->
                    Box(above, centred, size.width, size.height)
            [] OTHER ->
                    CASE right + size.width <= screen.width - MARGIN -> Box(level, right, size.width, size.height)
                      [] right + size.width > screen.width - MARGIN /\ left >= MARGIN ->
                            Box(level, left, size.width, size.height)
                      [] OTHER -> Box(bottom, end, size.width, size.height)
  BY <1>1, <1>2, <1>3, <1>a, <1>b, <1>c, <1>d, <1>e, <1>f, <1>5 DEF PlaceCoachmark
<1>7. \A t, l \in Int :
        LET b == Box(t, l, size.width, size.height)
        IN  b \in Boxes /\ b.top = t /\ b.left = l /\ b.width = size.width /\ b.height = size.height
  BY DEF Box, Boxes, Sizes
<1>8. \/ /\ p = Box(below, centred, size.width, size.height) /\ below + size.height <= screen.height - MARGIN
      \/ /\ p = Box(above, centred, size.width, size.height) /\ above >= masthead + MARGIN
      \/ /\ p = Box(level, right, size.width, size.height) /\ right + size.width <= screen.width - MARGIN
      \/ /\ p = Box(level, left, size.width, size.height) /\ left >= MARGIN
      \/ /\ p = Box(bottom, end, size.width, size.height)
         /\ right + size.width > screen.width - MARGIN /\ left < MARGIN
         /\ below + size.height > screen.height - MARGIN
  BY <1>6, CoachmarkAssumption DEF Sizes
<1>9. \/ /\ p.top = below /\ p.left = centred /\ below + size.height <= screen.height - MARGIN
      \/ /\ p.top = above /\ p.left = centred /\ above >= masthead + MARGIN
      \/ /\ p.top = level /\ p.left = right /\ right + size.width <= screen.width - MARGIN
      \/ /\ p.top = level /\ p.left = left /\ left >= MARGIN
      \/ /\ p.top = bottom /\ p.left = end
         /\ right + size.width > screen.width - MARGIN /\ left < MARGIN
         /\ below + size.height > screen.height - MARGIN
  BY <1>7, <1>8
<1>10. p \in Boxes /\ p.width = size.width /\ p.height = size.height
  BY <1>7, <1>8
<1> QED BY <1>2, <1>3, <1>a, <1>b, <1>c, <1>d, <1>e, <1>f, <1>5, <1>9, <1>10 DEF TakesAPlace

LEMMA SizeIs ==
  ASSUME NEW call \in AnyPlace
  PROVE  \E size \in Sizes :
            size = SizeOf(call) /\ size.width + 2 * MARGIN <= call.screen.width /\ size.height = call.popHeight
<1>1. call.screen.width \in Nat /\ call.popHeight \in Nat /\ call.screen.width >= SHEET_BELOW
  BY DEF AnyPlace
<1>2. POP_WIDTH + 2 * MARGIN <= call.screen.width /\ AtMost(POP_WIDTH, call.screen.width - 2 * MARGIN) = POP_WIDTH
  BY <1>1, CoachmarkAssumption DEF AtMost
<1>3. PICK size : size = [width |-> POP_WIDTH, height |-> call.popHeight]
  OBVIOUS
<1> QED BY <1>1, <1>2, <1>3, CoachmarkAssumption DEF SizeOf, Sizes

\* Where the coachmark goes when the hole is, with its gap, anywhere in the space
\* below the masthead.
LEMMA PlacedOnScreen ==
  ASSUME NEW call \in AnyPlace, NEW hole \in Boxes, hole # NoHole,
         hole.left - GAP <= call.screen.width - MARGIN, hole.left + hole.width + GAP >= MARGIN,
         hole.top + hole.height + GAP >= call.masthead + MARGIN, hole.top - GAP <= call.screen.height - MARGIN,
         NEW size, size = SizeOf(call),
         NEW pop, pop = PlaceCoachmark(hole, size, call.screen, call.masthead)
  PROVE  /\ OnScreen(pop, call)
         /\ \/ hole.left + hole.width + GAP + size.width <= call.screen.width - MARGIN
            \/ hole.left - GAP - size.width >= MARGIN
            \/ hole.top + hole.height + GAP + size.height <= call.screen.height - MARGIN
            => ~Overlapping(pop, hole)
<1>1. PICK screen \in Sizes, masthead \in Nat :
        screen = call.screen /\ masthead = call.masthead /\ masthead + call.popHeight + 2 * MARGIN <= screen.height
  BY DEF AnyPlace, Sizes
<1>2. size \in Sizes /\ size.width + 2 * MARGIN <= screen.width /\ size.height = call.popHeight
  BY <1>1, SizeIs
<1>3. PICK W \in Nat, H \in Nat, w \in Nat, h \in Nat :
        W = screen.width /\ H = screen.height /\ w = size.width /\ h = size.height
  BY <1>1, <1>2 DEF Sizes
<1>4. PICK t \in Int, l \in Int, b \in Int, r \in Int :
        t = hole.top /\ l = hole.left /\ b = hole.width /\ r = hole.height
  BY DEF Boxes
<1>a. PICK p \in Boxes, centred \in Int, level \in Int :
        /\ p = PlaceCoachmark(hole, size, screen, masthead)
        /\ TakesAPlace(p, centred, level, hole, size, screen, masthead)
  BY <1>1, <1>2, PlaceIs
<1>5. /\ p = pop /\ p.width = w /\ p.height = h
        /\ \E k \in Int : centred = ClampLeft(k, size, screen)
        /\ level = ClampTop(t, size, screen, masthead)
        /\ \/ p.top = t + r + GAP /\ p.left = centred /\ p.top + h <= H - MARGIN
           \/ p.top = t - GAP - h /\ p.left = centred /\ p.top >= masthead + MARGIN
           \/ p.top = level /\ p.left = l + b + GAP /\ p.left + w <= W - MARGIN
           \/ p.top = level /\ p.left = l - GAP - w /\ p.left >= MARGIN
           \/ /\ p.top = H - h - MARGIN /\ p.left = W - w - MARGIN
              /\ l + b + GAP + w > W - MARGIN /\ l - GAP - w < MARGIN /\ t + r + GAP + h > H - MARGIN
  BY <1>1, <1>3, <1>4, <1>a DEF TakesAPlace
<1>6. centred >= MARGIN /\ centred + w <= W - MARGIN
  BY <1>2, <1>3, <1>5, CoachmarkAssumption DEF ClampLeft, AtLeast, AtMost
<1>7. level >= masthead + MARGIN /\ level + h <= H - MARGIN
  BY <1>1, <1>2, <1>3, <1>5, CoachmarkAssumption DEF ClampTop, AtLeast, AtMost
<1>8. PICK y \in Int, x \in Int : y = p.top /\ x = p.left
  BY DEF Boxes
<1>9. /\ l - GAP <= W - MARGIN /\ l + b + GAP >= MARGIN /\ t + r + GAP >= masthead + MARGIN /\ t - GAP <= H - MARGIN
      /\ masthead + h + 2 * MARGIN <= H /\ w + 2 * MARGIN <= W
  BY <1>1, <1>2, <1>3, <1>4
<1>10. x >= MARGIN /\ x + w <= W - MARGIN /\ y >= masthead + MARGIN /\ y + h <= H - MARGIN
  BY <1>5, <1>6, <1>7, <1>8, <1>9, CoachmarkAssumption
<1>11. OnScreen(pop, call)
  BY <1>1, <1>3, <1>5, <1>8, <1>10 DEF OnScreen
<1>12. \/ l + b + GAP + w <= W - MARGIN \/ l - GAP - w >= MARGIN \/ t + r + GAP + h <= H - MARGIN
       => ~(y < t + r /\ t < y + h /\ x < l + b /\ l < x + w)
  BY <1>5, <1>8, CoachmarkAssumption
<1> QED BY <1>1, <1>3, <1>4, <1>5, <1>8, <1>11, <1>12 DEF Overlapping

LEMMA TargetsAreBoxes ==
  ASSUME NEW call \in AnyPlace
  PROVE  /\ call.target \in Boxes /\ call.target.width >= 0 /\ call.target.height >= 0
         /\ call.screen \in Sizes /\ call.masthead \in Nat /\ call.popHeight \in Nat /\ call.popHeight > 0
         /\ call.masthead + call.popHeight + 2 * MARGIN <= call.screen.height
         /\ call.target.left - PAD - GAP <= call.screen.width - MARGIN
         /\ call.target.left + call.target.width + PAD + GAP >= MARGIN
BY DEF AnyPlace, Boxes, Sizes

\* Every point that is not in the hole is blocked, on any screen.
LEMMA OnlyTheHole == input \in AnyPlace => OnlyTheHoleIsLive
<1> SUFFICES ASSUME input \in AnyPlace PROVE OnlyTheHoleIsLive
  OBVIOUS
<1>1. PICK hole \in Boxes : hole = HoleOf(input.target) /\ hole # NoHole
  BY TargetsAreBoxes, HoleIs
<1>2. input.screen \in [width : Nat, height : Nat]
  BY TargetsAreBoxes DEF Sizes
<1>3. \A x \in 0 .. input.screen.width - 1, y \in 0 .. input.screen.height - 1 :
        (\E b \in Blockers(hole, input.screen) : Covers(b, x, y)) = ~Covers(hole, x, y)
  BY <1>1, <1>2, EverythingElseIsBlocked
<1> QED BY <1>1, <1>3 DEF OnlyTheHoleIsLive

LEMMA CentreOnScreen ==
  ASSUME NEW call \in AnyPlace
  PROVE  OnScreen(PlaceCoachmark(NoHole, SizeOf(call), call.screen, call.masthead), call)
<1>1. PICK size \in Sizes :
        size = SizeOf(call) /\ size.width + 2 * MARGIN <= call.screen.width /\ size.height = call.popHeight
  BY SizeIs
<1>2. PICK W \in Nat, H \in Nat, w \in Nat, h \in Nat, m \in Nat :
        /\ W = call.screen.width /\ H = call.screen.height /\ w = size.width /\ h = size.height
        /\ m = call.masthead
  BY TargetsAreBoxes DEF Sizes
<1>3. m + h + 2 * MARGIN <= H /\ w + 2 * MARGIN <= W
  BY <1>1, <1>2, TargetsAreBoxes
<1>4. PICK x \in Nat : x = (W - w) \div 2 /\ 2 * x <= W - w /\ W - w <= 2 * x + 1
  <2>1. PICK d \in Nat : d = W - w
    BY <1>3, CoachmarkAssumption
  <2> QED BY <2>1, Half
<1>5. PICK y \in Nat : y = (H - h) \div 2 /\ 2 * y <= H - h /\ H - h <= 2 * y + 1
  <2>1. PICK d \in Nat : d = H - h
    BY <1>3, CoachmarkAssumption
  <2> QED BY <2>1, Half
<1>6. PICK top \in Nat : top = AtLeast(y, m + MARGIN)
  BY CoachmarkAssumption DEF AtLeast
<1>7. PICK pop : pop = PlaceCoachmark(NoHole, SizeOf(call), call.screen, call.masthead)
  OBVIOUS
<1>8. pop = Box(top, x, w, h)
  BY <1>1, <1>2, <1>4, <1>5, <1>6, <1>7 DEF PlaceCoachmark
<1>9. pop.top = top /\ pop.left = x /\ pop.width = w /\ pop.height = h
  BY <1>8 DEF Box
<1>10. x >= MARGIN /\ x + w <= W - MARGIN
  BY <1>3, <1>4, CoachmarkAssumption
<1>11. top >= m + MARGIN /\ top + h <= H - MARGIN
  BY <1>3, <1>5, <1>6, CoachmarkAssumption DEF AtLeast
<1> QED BY <1>2, <1>7, <1>9, <1>10, <1>11 DEF OnScreen

LEMMA AlwaysOnTheScreen == input \in AnyPlace => CoachmarkIsOnTheScreen
<1> SUFFICES ASSUME input \in AnyPlace PROVE CoachmarkIsOnTheScreen
  OBVIOUS
<1>1. PICK hole \in Boxes :
        /\ hole = HoleOf(input.target) /\ hole # NoHole
        /\ hole.left = input.target.left - PAD /\ hole.width = input.target.width + 2 * PAD
  BY TargetsAreBoxes, HoleIs
<1>2. hole.left - GAP <= input.screen.width - MARGIN /\ hole.left + hole.width + GAP >= MARGIN
  BY <1>1, TargetsAreBoxes, CoachmarkAssumption DEF Boxes, Sizes
<1>3. PICK size, pop : size = SizeOf(input) /\ pop = PlaceCoachmark(hole, size, input.screen, input.masthead)
  OBVIOUS
<1>4. ASSUME hole.top + hole.height + GAP >= input.masthead + MARGIN, hole.top - GAP <= input.screen.height - MARGIN
      PROVE  /\ OnScreen(pop, input)
             /\ \/ hole.left + hole.width + GAP + size.width <= input.screen.width - MARGIN
                \/ hole.left - GAP - size.width >= MARGIN
                => ~Overlapping(pop, hole)
  BY <1>1, <1>2, <1>3, <1>4, PlacedOnScreen
<1> QED BY <1>1, <1>3, <1>4, CentreOnScreen DEF CoachmarkIsOnTheScreen

\* Where the page is scrolled to: the target is higher, not higher than the masthead
\* lets it, and with all it can have above it when it is not too high.
LEMMA ScrolledTo ==
  ASSUME NEW target \in Boxes, target.height >= 0, NEW screen \in Sizes, NEW masthead \in Nat, NEW reserve \in Nat,
         target.top >= masthead + MARGIN, masthead + 2 * MARGIN < screen.height
  PROVE  \E brought \in Boxes :
            /\ brought = BroughtIntoView(target, screen, masthead, reserve)
            /\ brought.left = target.left /\ brought.width = target.width /\ brought.height = target.height
            /\ brought.top >= masthead + MARGIN
            /\ \/ brought.top = masthead + MARGIN
               \/ 2 * brought.top + brought.height + reserve <= screen.height + masthead
            /\ brought.height + reserve + masthead + 2 * MARGIN <= screen.height
               => 2 * brought.top + brought.height + reserve <= screen.height + masthead
<1>1. PICK t \in Int, h \in Nat, H \in Nat : t = target.top /\ h = target.height /\ H = screen.height
  BY DEF Boxes, Sizes
<1>2. PICK top \in Nat : top = masthead + MARGIN
  BY CoachmarkAssumption
<1>3. PICK available \in Int : available = H - top - reserve - MARGIN
  BY CoachmarkAssumption
<1>4. PICK half \in Int : half = (available - h) \div 2
  BY HalfIsInt
<1>5. h < available => half \in Nat /\ 2 * half <= available - h
  BY <1>4, Half
<1>6. PICK y \in Int : y = IF h >= available THEN t - top ELSE t - top - half
  <2>1. t - top \in Int /\ t - top - half \in Int
    OBVIOUS
  <2> QED BY <2>1
<1>7. PICK z \in Int : z = t - AtLeast(y, 0)
  <2>1. PICK up \in Int : up = AtLeast(y, 0)
    BY Clamped
  <2>2. t - up \in Int
    OBVIOUS
  <2> QED BY <2>1, <2>2
<1>8. PICK brought : brought = [target EXCEPT !.top = z]
  OBVIOUS
<1>9. /\ brought \in Boxes /\ brought.top = z /\ brought.left = target.left
      /\ brought.width = target.width /\ brought.height = h
  BY <1>1, <1>8 DEF Boxes
<1>10. brought = BroughtIntoView(target, screen, masthead, reserve)
  BY <1>1, <1>2, <1>3, <1>4, <1>6, <1>7, <1>8 DEF BroughtIntoView, Boxes
<1>11. CASE h >= available
  <2>1. z = top
    BY <1>1, <1>2, <1>6, <1>7, <1>11 DEF AtLeast
  <2> QED BY <1>1, <1>2, <1>3, <1>9, <1>10, <1>11, <2>1, CoachmarkAssumption
<1>12. CASE h < available
  <2>1. z >= top /\ z <= top + half
    BY <1>1, <1>2, <1>5, <1>6, <1>7, <1>12 DEF AtLeast
  <2>2. 2 * z + h + reserve <= H + masthead
    BY <1>2, <1>3, <1>5, <1>12, <2>1, CoachmarkAssumption
  <2> QED BY <1>1, <1>2, <1>9, <1>10, <2>1, <2>2
<1> QED BY <1>11, <1>12

LEMMA ReadBesideItsTarget == input \in AnyPlace => ScrolledTargetIsNotCovered
<1> SUFFICES ASSUME input \in AnyPlace, input.target.top >= input.masthead + MARGIN + PAD
             PROVE  ScrolledTargetIsNotCovered
  BY DEF ScrolledTargetIsNotCovered
<1>1. PICK screen \in Sizes, m \in Nat, p \in Nat \ {0}, first \in Boxes :
        /\ screen = input.screen /\ m = input.masthead /\ p = input.popHeight /\ first = input.target
        /\ first.height >= 0 /\ first.width >= 0
        /\ m + p + 2 * MARGIN <= screen.height /\ first.top >= m + MARGIN
        /\ first.left - PAD - GAP <= screen.width - MARGIN /\ first.left + first.width + PAD + GAP >= MARGIN
  <2>1. input.target.top >= input.masthead + MARGIN
    BY TargetsAreBoxes, CoachmarkAssumption DEF Boxes
  <2>2. input.popHeight \in Nat \ {0}
    BY TargetsAreBoxes
  <2> QED BY <2>1, <2>2, TargetsAreBoxes
<1>2. PICK reserve \in Nat : reserve = Reserved(first, screen, p) /\ (reserve > 0 => reserve = p + GAP)
  <2>1. Reserved(first, screen, p) \in {p + GAP, 0}
    BY DEF Reserved
  <2>2. p + GAP \in Nat
    BY CoachmarkAssumption
  <2> QED BY <2>1, <2>2
<1>3. PICK target \in Boxes :
        /\ target = BroughtIntoView(first, screen, m, reserve)
        /\ target.left = first.left /\ target.width = first.width /\ target.height = first.height
        /\ target.top >= m + MARGIN
        /\ \/ target.top = m + MARGIN
           \/ 2 * target.top + target.height + reserve <= screen.height + m
        /\ target.height + reserve + m + 2 * MARGIN <= screen.height
           => 2 * target.top + target.height + reserve <= screen.height + m
  <2>1. m + 2 * MARGIN < screen.height
    BY <1>1, CoachmarkAssumption DEF Sizes
  <2> QED BY <1>1, <2>1, ScrolledTo
<1>4. PICK hole \in Boxes :
        /\ hole = HoleOf(target) /\ hole # NoHole
        /\ hole.top = target.top - PAD /\ hole.left = target.left - PAD
        /\ hole.width = target.width + 2 * PAD /\ hole.height = target.height + 2 * PAD
  BY <1>1, <1>3, HoleIs
<1>5. PICK size \in Sizes : size = SizeOf(input) /\ size.height = p
  BY <1>1, SizeIs
<1>6. PICK pop : pop = PlaceCoachmark(hole, size, screen, m)
  OBVIOUS
<1>7. PICK z \in Int, h \in Nat, H \in Nat : z = target.top /\ h = target.height /\ H = screen.height
  BY <1>1, <1>3 DEF Boxes, Sizes
<1>8. /\ m + p + 2 * MARGIN <= H /\ z >= m + MARGIN
      /\ z = m + MARGIN \/ 2 * z + h + reserve <= H + m
      /\ h + reserve + m + 2 * MARGIN <= H => 2 * z + h + reserve <= H + m
      /\ hole.top = z - PAD /\ hole.height = h + 2 * PAD
  BY <1>1, <1>3, <1>4, <1>7
<1>9. z <= H - MARGIN /\ z < H
  <2>1. MARGIN \in Nat
    BY CoachmarkAssumption
  <2>2. CASE z = m + MARGIN
    BY <1>8, <2>1, <2>2
  <2>3. CASE 2 * z + h + reserve <= H + m
    <3>1. 2 * z <= H + m
      BY <2>3
    <3>2. m + p + 2 * MARGIN <= H
      BY <1>8
    <3> QED BY <2>1, <3>1, <3>2
  <2> QED BY <1>8, <2>2, <2>3
<1>10. hole.top + hole.height + GAP >= m + MARGIN /\ hole.top - GAP <= H - MARGIN
  BY <1>8, <1>9, CoachmarkAssumption
<1>11. hole.left - GAP <= screen.width - MARGIN /\ hole.left + hole.width + GAP >= MARGIN
  BY <1>1, <1>3, <1>4, CoachmarkAssumption DEF Boxes, Sizes
<1>12. /\ OnScreen(pop, input)
       /\ \/ hole.left + hole.width + GAP + size.width <= screen.width - MARGIN
          \/ hole.left - GAP - size.width >= MARGIN
          \/ hole.top + hole.height + GAP + size.height <= screen.height - MARGIN
          => ~Overlapping(pop, hole)
  BY <1>1, <1>4, <1>5, <1>6, <1>7, <1>10, <1>11, PlacedOnScreen
<1>13. PICK available \in Int : available = H - m - 2 * MARGIN - reserve
  BY CoachmarkAssumption
<1>14. reserve > 0 /\ hole.height <= available => hole.top + hole.height + GAP + p <= H - MARGIN
  BY <1>2, <1>8, <1>13, CoachmarkAssumption
<1>15. \/ hole.left - GAP - size.width >= MARGIN
       \/ hole.left + hole.width + GAP + size.width <= screen.width - MARGIN
       \/ reserve > 0 /\ hole.height <= available
       => ~Overlapping(pop, hole)
  BY <1>5, <1>7, <1>12, <1>14
<1> QED BY <1>1, <1>2, <1>3, <1>4, <1>5, <1>6, <1>7, <1>8, <1>9, <1>12, <1>13, <1>15 DEF ScrolledTargetIsNotCovered

\* Any step, and wherever the focus is.
AnyTab == [kind : {"tab"}, step : Nat, shift : BOOLEAN, focused : {"page", "close", "title", "previous", "next"}]

LEMMA Places ==
  /\ PlaceOf("close") = 1 /\ PlaceOf("title") = 2 /\ PlaceOf("previous") = 3 /\ PlaceOf("next") = 4
  /\ Order[1] = "close" /\ Order[2] = "title" /\ Order[3] = "previous" /\ Order[4] = "next"
<1>1. PICK order : order = Order
  OBVIOUS
<1>2. /\ DOMAIN order = 1 .. 4
      /\ order[1] = "close" /\ order[2] = "title" /\ order[3] = "previous" /\ order[4] = "next"
  BY <1>1 DEF Order
<1>3. ASSUME NEW item, NEW k \in 1 .. 4, \A j \in 1 .. 4 : order[j] = item <=> j = k
      PROVE  PlaceOf(item) = k
  <2>1. PlaceOf(item) = CHOOSE j \in 1 .. 4 : order[j] = item
    BY <1>1, <1>2 DEF PlaceOf
  <2> HIDE DEF PlaceOf
  <2> QED BY <1>3, <2>1
<1>4. \A j \in 1 .. 4 : j = 1 \/ j = 2 \/ j = 3 \/ j = 4
  OBVIOUS
<1>5. \A j \in 1 .. 4 : order[j] = "close" <=> j = 1
  BY <1>2, <1>4
<1>6. \A j \in 1 .. 4 : order[j] = "title" <=> j = 2
  BY <1>2, <1>4
<1>7. \A j \in 1 .. 4 : order[j] = "previous" <=> j = 3
  BY <1>2, <1>4
<1>8. \A j \in 1 .. 4 : order[j] = "next" <=> j = 4
  BY <1>2, <1>4
<1>9. 1 \in 1 .. 4 /\ 2 \in 1 .. 4 /\ 3 \in 1 .. 4 /\ 4 \in 1 .. 4
  OBVIOUS
<1>10. PlaceOf("close") = 1 /\ PlaceOf("title") = 2
  BY <1>3, <1>5, <1>6, <1>9
<1>11. PlaceOf("previous") = 3 /\ PlaceOf("next") = 4
  BY <1>3, <1>7, <1>8, <1>9
<1> QED BY <1>1, <1>2, <1>10, <1>11

\* What is focusable is in its place, the first and the last always.
LEMMA FocusableIs ==
  ASSUME NEW step \in Nat, NEW focusable, focusable = Focusable(step)
  PROVE  /\ focusable[1] = "close" /\ focusable[Len(focusable)] = "next"
         /\ Range(focusable) = IF step = 0 THEN {"close", "next"} ELSE {"close", "previous", "next"}
<1>1. CASE step = 0
  <2>1. focusable = <<"close", "next">>
    BY <1>1 DEF Focusable
  <2>2. DOMAIN focusable = {1, 2} /\ Len(focusable) = 2 /\ focusable[1] = "close" /\ focusable[2] = "next"
    BY <2>1
  <2>3. Range(focusable) = {focusable[1], focusable[2]}
    BY <2>2 DEF Range
  <2> QED BY <1>1, <2>2, <2>3
<1>2. CASE step # 0
  <2>1. focusable = <<"close", "previous", "next">>
    BY <1>2 DEF Focusable
  <2>2. DOMAIN focusable = {1, 2, 3} /\ Len(focusable) = 3 /\ focusable[1] = "close" /\ focusable[2] = "previous" /\ focusable[3] = "next"
    BY <2>1
  <2>3. Range(focusable) = {focusable[1], focusable[2], focusable[3]}
    BY <2>2 DEF Range
  <2> QED BY <1>2, <2>2, <2>3
<1> QED BY <1>1, <1>2

\* The next item ahead, of those there are in places 1, 3 and 4.
LEMMA NextAhead ==
  ASSUME NEW ahead \in SUBSET {1, 3, 4}, ahead # {}, NEW shift \in BOOLEAN
  PROVE  (CHOOSE k \in ahead : \A j \in ahead : IF shift THEN j <= k ELSE j >= k) \in ahead
<1>1. \E k \in ahead : \A j \in ahead : j <= k
  <2>1. CASE 4 \in ahead
    BY <2>1
  <2>2. CASE 4 \notin ahead /\ 3 \in ahead
    <3>1. \A j \in ahead : j = 1 \/ j = 3
      BY <2>2
    <3> QED BY <2>2, <3>1
  <2>3. CASE 4 \notin ahead /\ 3 \notin ahead
    <3>1. ahead = {1}
      BY <2>3
    <3> QED BY <3>1
  <2> QED BY <2>1, <2>2, <2>3
<1>2. \E k \in ahead : \A j \in ahead : j >= k
  <2>1. CASE 1 \in ahead
    BY <2>1
  <2>2. CASE 1 \notin ahead /\ 3 \in ahead
    <3>1. \A j \in ahead : j = 3 \/ j = 4
      BY <2>2
    <3> QED BY <2>2, <3>1
  <2>3. CASE 1 \notin ahead /\ 3 \notin ahead
    <3>1. ahead = {4}
      BY <2>3
    <3> QED BY <3>1
  <2> QED BY <2>1, <2>2, <2>3
<1>3. \E k \in ahead : \A j \in ahead : IF shift THEN j <= k ELSE j >= k
  BY <1>1, <1>2
<1> QED BY <1>3

LEMMA TabAlwaysStays ==
  ASSUME input \in AnyTab
  PROVE  TabStaysInTheCoachmark
<1>1. PICK step \in Nat, shift \in BOOLEAN, focused \in {"page", "close", "title", "previous", "next"} :
          step = input.step /\ shift = input.shift /\ focused = input.focused
  BY DEF AnyTab
<1>2. PICK focusable : focusable = Focusable(step)
  OBVIOUS
<1>3. PICK there : there = Range(focusable)
  OBVIOUS
<1>4. /\ focusable[1] = "close" /\ focusable[Len(focusable)] = "next"
      /\ there = IF step = 0 THEN {"close", "next"} ELSE {"close", "previous", "next"}
  BY <1>2, <1>3, FocusableIs
<1>5. PICK next : next = TabFrom(focused, shift, step)
  OBVIOUS
<1>6. CASE shift /\ focused \in {"close", "page"}
  <2>1. next = "next"
    BY <1>2, <1>4, <1>5, <1>6 DEF TabFrom
  <2> QED BY <1>1, <1>2, <1>3, <1>4, <1>5, <1>6, <2>1 DEF TabStaysInTheCoachmark
<1>7. CASE ~shift /\ focused \in {"next", "page"}
  <2>1. next = "close"
    BY <1>2, <1>4, <1>5, <1>7 DEF TabFrom
  <2> QED BY <1>1, <1>2, <1>3, <1>4, <1>5, <1>7, <2>1 DEF TabStaysInTheCoachmark
<1>8. CASE ~(shift /\ focused \in {"close", "page"}) /\ ~(~shift /\ focused \in {"next", "page"})
  <2>1. next = BrowserTab(focused, shift, step) /\ focused # "page"
    BY <1>2, <1>4, <1>5, <1>8 DEF TabFrom
  <2>2. PICK places : places = {PlaceOf(item) : item \in there}
    OBVIOUS
  <2>3. places = IF step = 0 THEN {1, 4} ELSE {1, 3, 4}
    BY <1>4, <2>2, Places
  <2>4. PICK place \in 1 .. 4 : place = PlaceOf(focused) /\ Order[place] = focused
    BY <2>1, Places
  <2>5. (shift => place > 1) /\ (~shift => place < 4)
    BY <1>8, <2>1, <2>4, Places
  <2>6. PICK ahead : ahead = {k \in places : IF shift THEN k < place ELSE k > place}
    OBVIOUS
  <2>7. ahead # {} /\ ahead \in SUBSET {1, 3, 4} /\ \A k \in ahead : k # place
    <3>1. 1 \in places /\ 4 \in places /\ places \in SUBSET {1, 3, 4}
      BY <2>3
    <3>2. shift => 1 \in ahead
      BY <2>5, <2>6, <3>1
    <3>3. ~shift => 4 \in ahead
      BY <2>5, <2>6, <3>1
    <3>4. \A k \in ahead : k \in places /\ k # place
      <4>1. \A k \in {1, 3, 4} : (k < place => k # place) /\ (k > place => k # place)
        OBVIOUS
      <4> QED BY <2>6, <3>1, <4>1
    <3> QED BY <3>1, <3>2, <3>3, <3>4
  <2>8. PICK k \in ahead : k = CHOOSE i \in ahead : \A j \in ahead : IF shift THEN j <= i ELSE j >= i
    BY <2>7, NextAhead
  <2>9. next = Order[k]
    BY <1>2, <1>3, <2>1, <2>2, <2>4, <2>6, <2>7, <2>8 DEF BrowserTab
  <2>10. next \in there /\ next # focused
    <3>1. k \in places /\ k # place
      BY <2>6, <2>7
    <3>2. place = 1 \/ place = 2 \/ place = 3 \/ place = 4
      OBVIOUS
    <3>3. next \in there
      BY <1>4, <2>3, <2>9, <3>1, Places
    <3>4. Order[k] # Order[place]
      BY <2>3, <3>1, <3>2, Places
    <3> QED BY <2>4, <2>9, <3>3, <3>4
  <2> QED BY <1>1, <1>2, <1>3, <1>5, <2>10 DEF TabStaysInTheCoachmark
<1> QED BY <1>6, <1>7, <1>8

\* On any screen the coachmark fits in, with constants of any size and a target
\* anywhere above, below or on it, only the target is live, the coachmark is whole
\* on the screen while the target is in view, and once the page has scrolled it is
\* beside what it speaks of; and at any step Tab stays in the coachmark, wherever the
\* focus was (TourOverlay.tsx:42-46, 156-186, 263-292).
THEOREM CoachmarkIsAlwaysUsable == input \in AnyPlace \cup AnyTab => TargetAndCoachmarkAreUsable
<1>1. input \in AnyPlace => TabStaysInTheCoachmark
  BY DEF AnyPlace, TabStaysInTheCoachmark
<1>2. input \in AnyTab => OnlyTheHoleIsLive /\ CoachmarkIsOnTheScreen /\ ScrolledTargetIsNotCovered
  BY DEF AnyTab, OnlyTheHoleIsLive, CoachmarkIsOnTheScreen, ScrolledTargetIsNotCovered
<1> QED BY <1>1, <1>2, OnlyTheHole, AlwaysOnTheScreen, ReadBesideItsTarget, TabAlwaysStays
        DEF TargetAndCoachmarkAreUsable

-------------------------------------------------------------------------------
(* Routes: whatever the hash, its page and its links are the ones their own *)
(* addresses open.                                                          *)

\* What paths are written with.
LEMMA Joined ==
  ASSUME NEW a, NEW b, NEW c
  PROVE  /\ <<a>> \o <<>> = <<a>> /\ <<a>> \o <<b>> = <<a, b>>
         /\ <<>> \o <<b>> = <<b>> /\ <<>> \o <<b, c>> = <<b, c>>
<1>1. PICK S : S = {a, b, c}
  OBVIOUS
<1>2. <<>> \in Seq(S) /\ <<a>> \in Seq(S) /\ <<b>> \in Seq(S) /\ <<b, c>> \in Seq(S)
  BY <1>1
<1>3. <<a, b>> \in Seq(S)
  BY <1>1
<1>4. <<a>> \o <<>> = <<a>> /\ <<>> \o <<b>> = <<b>> /\ <<>> \o <<b, c>> = <<b, c>>
  BY <1>2, ConcatEmptySeq
<1>5. <<a>> \o <<b>> = <<a, b>>
  <2>a. PICK u \in Seq(S), v \in Seq(S) : u = <<a>> /\ v = <<b>>
    BY <1>2
  <2>1. PICK s : s = u \o v
    OBVIOUS
  <2>2. Len(u) = 1 /\ u[1] = a /\ Len(v) = 1 /\ v[1] = b
    BY <2>a
  <2>3. s \in Seq(S) /\ Len(s) = Len(u) + Len(v)
        /\ \A i \in 1 .. Len(u) + Len(v) : s[i] = IF i <= Len(u) THEN u[i] ELSE v[i - Len(u)]
    BY <2>1, ConcatProperties
  <2>4. Len(s) = 2 /\ s[1] = a /\ s[2] = b
    BY <2>2, <2>3
  <2>5. PICK t \in Seq(S) : t = <<a, b>> /\ Len(t) = 2 /\ t[1] = a /\ t[2] = b
    BY <1>3
  <2>6. \A i \in 1 .. 2 : s[i] = t[i]
    BY <2>4, <2>5
  <2> QED BY <2>a, <2>1, <2>3, <2>4, <2>5, <2>6, SeqEqual
<1> QED BY <1>4, <1>5

LEMMA JoinedThree ==
  ASSUME NEW a, NEW b, NEW c
  PROVE  <<a>> \o <<b, c>> = <<a, b, c>>
<1>1. PICK S : S = {a, b, c}
  OBVIOUS
<1>0. <<a>> \in Seq(S) /\ <<b, c>> \in Seq(S) /\ <<a, b, c>> \in Seq(S)
  BY <1>1
<1>a. PICK u \in Seq(S), v \in Seq(S) : u = <<a>> /\ v = <<b, c>>
  BY <1>0
<1>b. PICK t \in Seq(S) : t = <<a, b, c>>
  BY <1>0
<1>2. u = <<a>> /\ v = <<b, c>> /\ t = <<a, b, c>>
  BY <1>a, <1>b
<1>3. PICK s : s = u \o v
  OBVIOUS
<1>4. Len(u) = 1 /\ u[1] = a /\ Len(v) = 2 /\ v[1] = b /\ v[2] = c
  BY <1>2
<1>5. s \in Seq(S) /\ Len(s) = Len(u) + Len(v)
      /\ \A i \in 1 .. Len(u) + Len(v) : s[i] = IF i <= Len(u) THEN u[i] ELSE v[i - Len(u)]
  BY <1>3, ConcatProperties
<1>6. Len(s) = 3 /\ s[1] = a /\ s[2] = b /\ s[3] = c
  BY <1>4, <1>5
<1>7. Len(t) = 3 /\ t[1] = a /\ t[2] = b /\ t[3] = c
  BY <1>2
<1>8. \A i \in 1 .. 3 : s[i] = t[i]
  BY <1>6, <1>7
<1> QED BY <1>2, <1>3, <1>5, <1>6, <1>7, <1>8, SeqEqual

LEMMA Ends ==
  ASSUME NEW a, NEW b, NEW c
  PROVE  /\ Head(<<a>>) = a /\ Head(<<a, b>>) = a /\ Head(<<a, b, c>>) = a
         /\ Tail(<<a>>) = <<>> /\ Tail(<<a, b>>) = <<b>> /\ Tail(<<a, b, c>>) = <<b, c>>
OBVIOUS

\* Hashes: any segments, any numbers.
AnyHash(segments) == [path : Seq(segments), t : Int, tour : Int, citacao : Nat \cup {NONE, JUNK}]

\* The pages there are: what a hash may be parsed into.
Positive == (Nat \ {0}) \cup {NONE, PART}
Steps == Nat \cup {NONE}
Page(r, showcase) ==
    /\ r \in [mode : Modes, name : Names, id : {r.id}, t : Positive, tour : Steps, quote : Nat \cup {NONE}]
    /\ showcase => r.mode = "demo" /\ r.name # "settings"
    /\ r.mode = "api" => r.name \notin DemoOnly /\ r.tour = NONE
    /\ r.name # "interview" => r.id = "" /\ r.quote = NONE

\* A page's path, without and with what leads to the demonstration.
Rest(r) ==
    IF r.name = "interview" THEN <<"interviews", r.id>> ELSE IF r.name = "home" THEN <<>> ELSE <<r.name>>

LEMMA PathIs ==
  ASSUME NEW r, NEW showcase \in BOOLEAN, Page(r, showcase)
  PROVE  RouteToHash(r).path =
            IF r.mode = "api" THEN Rest(r)
            ELSE IF r.name = "interview" THEN <<"demo", "interviews", r.id>>
            ELSE IF r.name = "home" THEN <<"demo">> ELSE <<"demo", r.name>>
<1>1. PICK rest : rest = CASE r.name = "interview" -> <<"interviews", r.id>>
                            [] r.name = "home" -> <<>>
                            [] OTHER -> <<r.name>>
  OBVIOUS
<1>2. rest = Rest(r)
  BY <1>1 DEF Rest
<1>3. RouteToHash(r).path = (IF r.mode = "demo" THEN <<"demo">> ELSE <<>>) \o rest
  BY <1>1 DEF RouteToHash
<1>4. r.mode \in {"api", "demo"}
  BY DEF Page, Modes
<1>5. <<>> \o rest = rest
  BY <1>2, Joined DEF Rest
<1>6. <<"demo">> \o rest = IF r.name = "interview" THEN <<"demo", "interviews", r.id>>
                           ELSE IF r.name = "home" THEN <<"demo">> ELSE <<"demo", r.name>>
  <2>1. CASE r.name = "interview"
    <3>1. rest = <<"interviews", r.id>>
      BY <1>2, <2>1 DEF Rest
    <3>2. <<"demo">> \o <<"interviews", r.id>> = <<"demo", "interviews", r.id>>
      BY JoinedThree
    <3> QED BY <2>1, <3>1, <3>2
  <2>2. CASE r.name = "home"
    <3>1. rest = <<>>
      BY <1>2, <2>2 DEF Rest
    <3>2. <<"demo">> \o <<>> = <<"demo">>
      BY Joined
    <3> QED BY <2>2, <3>1, <3>2
  <2>3. CASE r.name \notin {"interview", "home"}
    <3>1. rest = <<r.name>>
      BY <1>2, <2>3 DEF Rest
    <3>2. <<"demo">> \o <<r.name>> = <<"demo", r.name>>
      BY Joined
    <3> QED BY <2>3, <3>1, <3>2
  <2> QED BY <2>1, <2>2, <2>3
<1> QED BY <1>2, <1>3, <1>4, <1>5, <1>6

\* What ParseHash makes of the rest of a path.
LEMMA PrefixedIs ==
  ASSUME NEW r, NEW showcase \in BOOLEAN, Page(r, showcase), NEW path, path = RouteToHash(r).path
  PROVE  /\ (path # <<>> /\ Head(path) = "demo") <=> r.mode = "demo"
         /\ (IF r.mode = "demo" THEN Tail(path) ELSE path) = Rest(r)
<1>1. r.mode \in {"api", "demo"} /\ r.name \in Names
  BY DEF Page, Modes
<1>2. CASE r.mode = "api"
  <2>1. path = Rest(r)
    BY <1>2, PathIs
  <2>2. r.name \notin {"home", "demo"}
    BY <1>2 DEF Page, Names, DemoOnly
  <2>3. path # <<>> /\ Head(path) # "demo"
    <3>1. CASE r.name = "interview"
      BY <2>1, <3>1, Ends DEF Rest
    <3>2. CASE r.name # "interview"
      BY <2>1, <2>2, <3>2, Ends DEF Rest
    <3> QED BY <3>1, <3>2
  <2> QED BY <1>2, <2>1, <2>3
<1>3. CASE r.mode = "demo"
  <2>1. path = IF r.name = "interview" THEN <<"demo", "interviews", r.id>>
               ELSE IF r.name = "home" THEN <<"demo">> ELSE <<"demo", r.name>>
    BY <1>3, PathIs
  <2>2. path # <<>> /\ Head(path) = "demo"
    BY <2>1, Ends
  <2>3. Tail(path) = Rest(r)
    BY <2>1, Ends DEF Rest
  <2> QED BY <1>3, <2>2, <2>3
<1> QED BY <1>1, <1>2, <1>3

\* What a hash with a mode and the rest of a path is parsed into.
BaseOf(hash, mode) ==
    [mode |-> mode, name |-> IF mode = "demo" THEN "home" ELSE "dashboard", id |-> "",
     t |-> ParsePositive(hash.t),
     tour |-> IF mode = "demo" THEN Floor(ParsePositive(hash.tour)) ELSE NONE, quote |-> NONE]
ParsedAs(hash, showcase, mode, rest, base) ==
    CASE rest = <<>> -> base
      [] Len(rest) = 2 /\ rest[1] = "interviews" ->
            [base EXCEPT !.name = "interview", !.id = rest[2],
                         !.quote = IF hash.citacao = JUNK THEN NONE ELSE hash.citacao]
      [] Len(rest) = 1 /\ rest[1] \in HasPath ->
            CASE showcase /\ rest[1] = "settings" -> [base EXCEPT !.name = "home"]
              [] mode = "api" /\ rest[1] \in DemoOnly -> [base EXCEPT !.name = "dashboard"]
              [] OTHER -> [base EXCEPT !.name = rest[1]]
      [] OTHER -> [base EXCEPT !.name = "dashboard"]

LEMMA ParsingIs ==
  ASSUME NEW hash, NEW showcase \in BOOLEAN, NEW mode \in Modes, NEW rest,
         mode = "demo" <=> showcase \/ (hash.path # <<>> /\ Head(hash.path) = "demo"),
         rest = Named(IF hash.path # <<>> /\ Head(hash.path) = "demo" THEN Tail(hash.path) ELSE hash.path)
  PROVE  ParseHash(hash, showcase) = ParsedAs(hash, showcase, mode, rest, BaseOf(hash, mode))
<1>0. PICK base : base = BaseOf(hash, mode)
  OBVIOUS
<1>1. mode = IF showcase \/ (hash.path # <<>> /\ Head(hash.path) = "demo") THEN "demo" ELSE "api"
  BY DEF Modes
<1>2. base = [Route(mode, IF mode = "demo" THEN "home" ELSE "dashboard", ParsePositive(hash.t))
                EXCEPT !.tour = IF mode = "demo" THEN Floor(ParsePositive(hash.tour)) ELSE NONE]
  <2>1. PICK name, t, tour :
          /\ name = (IF mode = "demo" THEN "home" ELSE "dashboard") /\ t = ParsePositive(hash.t)
          /\ tour = (IF mode = "demo" THEN Floor(ParsePositive(hash.tour)) ELSE NONE)
    OBVIOUS
  <2>2. PICK b : b = Route(mode, name, t)
    OBVIOUS
  <2>3. b \in [mode : {mode}, name : {name}, id : {""}, t : {t}, tour : {NONE}, quote : {NONE}]
    BY <2>2 DEF Route
  <2>4. PICK e : e = [b EXCEPT !.tour = tour]
    OBVIOUS
  <2>5. e \in [mode : {mode}, name : {name}, id : {""}, t : {t}, tour : {tour}, quote : {NONE}]
    BY <2>3, <2>4
  <2>6. e = [mode |-> mode, name |-> name, id |-> "", t |-> t, tour |-> tour, quote |-> NONE]
    BY <2>5
  <2> QED BY <1>0, <2>1, <2>2, <2>4, <2>6 DEF BaseOf
<1> QED BY <1>0, <1>1, <1>2 DEF ParseHash, ParsedAs

LEMMA NumbersKept == \A n \in Positive : ParsePositive(n) = n
BY DEF Positive, ParsePositive, NONE, PART

\* A step, as it is read back.
Tour(r) == IF r.tour = 0 THEN NONE ELSE r.tour

LEMMA StepsKept ==
  ASSUME NEW r, r.tour \in Steps
  PROVE  Floor(ParsePositive(r.tour)) = Tour(r) /\ Tour(r) \in Steps
BY DEF Steps, Tour, ParsePositive, Floor, NONE, PART

LEMMA ShownIs ==
  ASSUME NEW r, NEW showcase, Page(r, showcase)
  PROVE  /\ Shown(r) = [mode |-> r.mode, name |-> r.name, id |-> r.id, t |-> r.t, tour |-> Tour(r), quote |-> r.quote]
         /\ Shown(Shown(r)) = Shown(r)
         /\ r.tour # 0 => Shown(r) = r
<1>1. PICK tour \in Steps : tour = Tour(r)
  BY StepsKept DEF Page
<1>2. tour = (IF r.tour = 0 THEN NONE ELSE r.tour) /\ tour # 0
  BY <1>1 DEF Tour, NONE
<1>3. r \in [mode : {r.mode}, name : {r.name}, id : {r.id}, t : {r.t}, tour : {r.tour}, quote : {r.quote}]
  BY DEF Page
<1>4. PICK e : e = Shown(r)
  OBVIOUS
<1>5. e = [r EXCEPT !.tour = tour]
  BY <1>2, <1>4 DEF Shown
<1>6. e \in [mode : {r.mode}, name : {r.name}, id : {r.id}, t : {r.t}, tour : {tour}, quote : {r.quote}]
  BY <1>3, <1>5
<1>7. e = [mode |-> r.mode, name |-> r.name, id |-> r.id, t |-> r.t, tour |-> tour, quote |-> r.quote]
  BY <1>6
<1>8. Shown(e) = e
  <2>1. e.tour = tour
    BY <1>6
  <2>2. Shown(e) = [e EXCEPT !.tour = tour]
    BY <1>2, <2>1 DEF Shown
  <2>3. [e EXCEPT !.tour = tour] = e
    BY <1>6
  <2> QED BY <2>2, <2>3
<1>9. r.tour # 0 => e = r
  <2>1. r.tour # 0 => tour = r.tour
    BY <1>2
  <2>2. [r EXCEPT !.tour = r.tour] = r
    BY <1>3
  <2> QED BY <1>5, <2>1, <2>2
<1> QED BY <1>1, <1>4, <1>7, <1>8, <1>9

LEMMA ReopenIs ==
  ASSUME NEW r, NEW showcase \in BOOLEAN, Page(r, showcase)
  PROVE  ParseHash(RouteToHash(r), showcase) = Shown(r)
<1>1. /\ r \in [mode : Modes, name : Names, id : {r.id}, t : Positive, tour : Steps, quote : Nat \cup {NONE}]
      /\ showcase => r.mode = "demo" /\ r.name # "settings"
      /\ r.mode = "api" => r.name \notin DemoOnly /\ r.tour = NONE
      /\ r.name # "interview" => r.id = "" /\ r.quote = NONE
  BY DEF Page
<1>0. PICK tour \in Steps : tour = Tour(r)
  BY <1>1, StepsKept
<1>2. PICK hash : hash = RouteToHash(r)
  OBVIOUS
<1>3. /\ hash.t = r.t
      /\ hash.citacao = IF r.name = "interview" THEN r.quote ELSE NONE
      /\ hash.tour = IF r.mode = "demo" THEN r.tour ELSE NONE
  BY <1>2 DEF RouteToHash
<1>4. /\ (hash.path # <<>> /\ Head(hash.path) = "demo") <=> r.mode = "demo"
      /\ (IF r.mode = "demo" THEN Tail(hash.path) ELSE hash.path) = Rest(r)
  BY <1>2, PrefixedIs
<1>5. PICK base : base = [mode |-> r.mode, name |-> IF r.mode = "demo" THEN "home" ELSE "dashboard", id |-> "",
                          t |-> r.t, tour |-> tour, quote |-> NONE]
  OBVIOUS
<1>6. r.t = ParsePositive(hash.t) /\ tour = IF r.mode = "demo" THEN Floor(ParsePositive(hash.tour)) ELSE NONE
  <2>1. r.t \in Positive /\ r.tour \in Steps /\ r.mode \in {"api", "demo"}
    BY <1>1 DEF Modes
  <2>2. r.t = ParsePositive(hash.t)
    BY <1>3, <2>1, NumbersKept
  <2>3. CASE r.mode = "demo"
    BY <1>0, <1>3, <2>1, <2>2, <2>3, StepsKept
  <2>4. CASE r.mode = "api"
    <3>1. r.tour = NONE
      BY <1>1, <2>4
    <3>2. tour = NONE
      BY <1>0, <3>1 DEF Tour
    <3> QED BY <2>2, <2>4, <3>2
  <2> QED BY <2>1, <2>2, <2>3, <2>4
<1>7. base = BaseOf(hash, r.mode)
  BY <1>5, <1>6 DEF BaseOf
<1>8. PICK rest : rest = Rest(r)
  OBVIOUS
<1>9. rest = Named(IF hash.path # <<>> /\ Head(hash.path) = "demo" THEN Tail(hash.path) ELSE hash.path)
  <2>1. rest = IF hash.path # <<>> /\ Head(hash.path) = "demo" THEN Tail(hash.path) ELSE hash.path
    BY <1>4, <1>8
  <2>2. r.name # ""
    BY <1>1 DEF Names
  <2>3. rest = <<>> \/ rest[1] # ""
    BY <1>8, <2>2 DEF Rest
  <2> QED BY <2>1, <2>3 DEF Named
<1>10. r.mode \in Modes /\ (r.mode = "demo" <=> showcase \/ (hash.path # <<>> /\ Head(hash.path) = "demo"))
  BY <1>1, <1>4
<1>11. ParseHash(hash, showcase) = ParsedAs(hash, showcase, r.mode, rest, base)
  BY <1>7, <1>9, <1>10, ParsingIs
<1>12. base \in [mode : {r.mode}, name : Names, id : {""}, t : {r.t}, tour : {tour}, quote : Nat \cup {NONE}]
  <2>1. "home" \in Names /\ "dashboard" \in Names
    BY DEF Names
  <2>2. PICK name \in Names : name = IF r.mode = "demo" THEN "home" ELSE "dashboard"
    BY <2>1
  <2>3. base = [mode |-> r.mode, name |-> name, id |-> "", t |-> r.t, tour |-> tour, quote |-> NONE]
    BY <1>5, <2>2
  <2> QED BY <2>3
<1>13. Shown(r) = [mode |-> r.mode, name |-> r.name, id |-> r.id, t |-> r.t, tour |-> tour, quote |-> r.quote]
  BY <1>0, ShownIs
<1>14. CASE r.name = "interview"
  <2>1. rest = <<"interviews", r.id>>
    BY <1>8, <1>14 DEF Rest
  <2>2. rest # <<>> /\ Len(rest) = 2 /\ rest[1] = "interviews" /\ rest[2] = r.id
    BY <2>1
  <2>3. r.quote = IF hash.citacao = JUNK THEN NONE ELSE hash.citacao
    BY <1>1, <1>3, <1>14 DEF JUNK, NONE
  <2>4. ParseHash(hash, showcase) = [base EXCEPT !.name = "interview", !.id = r.id, !.quote = r.quote]
    BY <1>11, <2>2, <2>3 DEF ParsedAs
  <2>5. PICK e : e = [base EXCEPT !.name = "interview", !.id = r.id, !.quote = r.quote]
    OBVIOUS
  <2>6. e \in [mode : {r.mode}, name : {"interview"}, id : {r.id}, t : {r.t}, tour : {tour}, quote : {r.quote}]
    BY <1>12, <2>5
  <2>7. e = [mode |-> r.mode, name |-> "interview", id |-> r.id, t |-> r.t, tour |-> tour, quote |-> r.quote]
    BY <2>6
  <2> QED BY <1>2, <1>13, <1>14, <2>4, <2>5, <2>7
<1>15. CASE r.name = "home"
  <2>1. rest = <<>> /\ r.mode = "demo" /\ r.id = "" /\ r.quote = NONE
    BY <1>1, <1>8, <1>15 DEF Rest, Modes, DemoOnly
  <2>2. rest = <<>> /\ Len(rest) = 0
    BY <2>1
  <2>3. ParsedAs(hash, showcase, r.mode, rest, base) = base
    BY <2>2 DEF ParsedAs
  <2>4. ParseHash(hash, showcase) = base
    BY <1>11, <2>3
  <2> QED BY <1>2, <1>5, <1>13, <1>15, <2>1, <2>4
<1>16. CASE r.name \notin {"interview", "home"}
  <2>1. rest = <<r.name>> /\ r.id = "" /\ r.quote = NONE
    BY <1>1, <1>8, <1>16 DEF Rest
  <2>2. rest # <<>> /\ Len(rest) = 1 /\ rest[1] = r.name /\ r.name \in HasPath
    BY <1>1, <1>16, <2>1 DEF HasPath
  <2>3. ParseHash(hash, showcase) = [base EXCEPT !.name = r.name]
    <3>1. ParsedAs(hash, showcase, r.mode, rest, base) =
            CASE showcase /\ r.name = "settings" -> [base EXCEPT !.name = "home"]
              [] r.mode = "api" /\ r.name \in DemoOnly -> [base EXCEPT !.name = "dashboard"]
              [] OTHER -> [base EXCEPT !.name = r.name]
      BY <2>2 DEF ParsedAs
    <3>2. ~(showcase /\ r.name = "settings") /\ ~(r.mode = "api" /\ r.name \in DemoOnly)
      BY <1>1
    <3> QED BY <1>11, <3>1, <3>2
  <2>4. PICK e : e = [base EXCEPT !.name = r.name]
    OBVIOUS
  <2>5. base \in [mode : {r.mode}, name : {base.name}, id : {""}, t : {r.t}, tour : {tour}, quote : {NONE}]
    BY <1>5
  <2>6. e \in [mode : {r.mode}, name : {r.name}, id : {""}, t : {r.t}, tour : {tour}, quote : {NONE}]
    BY <2>4, <2>5
  <2>7. e = [mode |-> r.mode, name |-> r.name, id |-> "", t |-> r.t, tour |-> tour, quote |-> NONE]
    BY <2>6
  <2> QED BY <1>2, <1>13, <2>1, <2>3, <2>4, <2>7
<1> QED BY <1>14, <1>15, <1>16

-------------------------------------------------------------------------------
(* What is parsed is a page, and so is what a page links to. *)

LEMMA SlotsArePositive ==
  \A raw \in Int : ParsePositive(raw) \in Positive /\ Floor(ParsePositive(raw)) \in Steps
BY DEF Positive, Steps, ParsePositive, Floor, NONE, PART

LEMMA TailIs ==
  ASSUME NEW segments, NEW path \in Seq(segments)
  PROVE  path # <<>> => Tail(path) \in Seq(segments)
OBVIOUS

LEMMA ParsedIsPage ==
  ASSUME NEW segments, NEW hash \in AnyHash(segments), NEW showcase \in BOOLEAN
  PROVE  Page(ParseHash(hash, showcase), showcase)
<1>1. hash.path \in Seq(segments) /\ hash.t \in Int /\ hash.tour \in Int /\ hash.citacao \in Nat \cup {NONE, JUNK}
  BY DEF AnyHash
<1>2. PICK mode \in Modes : mode = IF showcase \/ (hash.path # <<>> /\ Head(hash.path) = "demo") THEN "demo" ELSE "api"
  BY DEF Modes
<1>3. PICK rest \in Seq(segments) :
        rest = Named(IF hash.path # <<>> /\ Head(hash.path) = "demo" THEN Tail(hash.path) ELSE hash.path)
  <2>1. PICK path \in Seq(segments) :
          path = IF hash.path # <<>> /\ Head(hash.path) = "demo" THEN Tail(hash.path) ELSE hash.path
    BY <1>1, TailIs
  <2>2. <<>> \in Seq(segments)
    OBVIOUS
  <2>3. Named(path) = <<>> \/ Named(path) = path
    BY DEF Named
  <2> QED BY <2>1, <2>2, <2>3
<1>4. mode = "demo" <=> showcase \/ (hash.path # <<>> /\ Head(hash.path) = "demo")
  BY <1>2
<1>5. PICK base : base = BaseOf(hash, mode)
  OBVIOUS
<1>6. ParseHash(hash, showcase) = ParsedAs(hash, showcase, mode, rest, base)
  BY <1>3, <1>4, <1>5, ParsingIs
<1>7. PICK t \in Positive, tour \in Steps :
        /\ t = ParsePositive(hash.t)
        /\ tour = (IF mode = "demo" THEN Floor(ParsePositive(hash.tour)) ELSE NONE)
  <2>1. NONE \in Steps
    BY DEF Steps
  <2> QED BY <1>1, <2>1, SlotsArePositive
<1>8. PICK name \in Names : name = IF mode = "demo" THEN "home" ELSE "dashboard"
  <2>1. "home" \in Names /\ "dashboard" \in Names
    BY DEF Names
  <2> QED BY <2>1
<1>9. base = [mode |-> mode, name |-> name, id |-> "", t |-> t, tour |-> tour, quote |-> NONE]
  BY <1>5, <1>7, <1>8 DEF BaseOf
<1>10. base \in [mode : {mode}, name : {name}, id : {""}, t : {t}, tour : {tour}, quote : {NONE}]
  BY <1>9
<1>11. showcase => mode = "demo"
  BY <1>4
<1>12. mode = "api" => tour = NONE
  BY <1>7
\* A page of no interview.
<1>13. ASSUME NEW n \in Names, n # "interview", showcase => n # "settings", mode = "api" => n \notin DemoOnly
       PROVE  Page([base EXCEPT !.name = n], showcase)
  <2>1. PICK e : e = [base EXCEPT !.name = n]
    OBVIOUS
  <2>2. e \in [mode : {mode}, name : {n}, id : {""}, t : {t}, tour : {tour}, quote : {NONE}]
    BY <1>10, <2>1
  <2>3. e.mode = mode /\ e.name = n /\ e.id = "" /\ e.t = t /\ e.tour = tour /\ e.quote = NONE
    BY <2>2
  <2>4. NONE \in Nat \cup {NONE}
    OBVIOUS
  <2>5. e \in [mode : Modes, name : Names, id : {e.id}, t : Positive, tour : Steps, quote : Nat \cup {NONE}]
    BY <2>2, <2>4
  <2> QED BY <1>11, <1>12, <1>13, <2>1, <2>3, <2>5 DEF Page
<1>14. "dashboard" \in Names /\ "home" \in Names /\ "dashboard" \notin DemoOnly
  BY DEF Names, DemoOnly
<1>15. Page([base EXCEPT !.name = "dashboard"], showcase)
  BY <1>13, <1>14
<1>16. CASE rest = <<>>
  <2>1. ParsedAs(hash, showcase, mode, rest, base) = base
    BY <1>16 DEF ParsedAs
  <2>2. base = [base EXCEPT !.name = name]
    BY <1>10
  <2>3. name # "interview" /\ (showcase => name # "settings") /\ (mode = "api" => name \notin DemoOnly)
    BY <1>8 DEF DemoOnly
  <2>4. Page([base EXCEPT !.name = name], showcase)
    BY <1>13, <2>3
  <2> QED BY <1>6, <2>1, <2>2, <2>4
<1>17. CASE rest # <<>> /\ Len(rest) = 2 /\ rest[1] = "interviews"
  <2>1. PICK quote \in Nat \cup {NONE} : quote = IF hash.citacao = JUNK THEN NONE ELSE hash.citacao
    BY <1>1
  <2>2. PICK id : id = rest[2]
    OBVIOUS
  <2>3. PICK e : e = [base EXCEPT !.name = "interview", !.id = id, !.quote = quote]
    OBVIOUS
  <2>4. ParsedAs(hash, showcase, mode, rest, base) = e
    BY <1>17, <2>1, <2>2, <2>3 DEF ParsedAs
  <2>5. e \in [mode : {mode}, name : {"interview"}, id : {id}, t : {t}, tour : {tour}, quote : {quote}]
    BY <1>10, <2>3
  <2>6. e.mode = mode /\ e.name = "interview" /\ e.tour = tour
    BY <2>5
  <2>7. "interview" \in Names
    BY DEF Names
  <2>8. e \in [mode : Modes, name : Names, id : {e.id}, t : Positive, tour : Steps, quote : Nat \cup {NONE}]
    BY <2>5, <2>7
  <2>9. "interview" \notin DemoOnly
    BY DEF DemoOnly
  <2> QED BY <1>6, <1>11, <1>12, <2>4, <2>6, <2>8, <2>9 DEF Page
<1>18. CASE rest # <<>> /\ ~(Len(rest) = 2 /\ rest[1] = "interviews") /\ Len(rest) = 1 /\ rest[1] \in HasPath
  <2>1. PICK n \in HasPath : n = rest[1]
    BY <1>18
  <2>2. n \in Names /\ n \notin {"home", "interview"}
    BY DEF HasPath
  <2>3. ParsedAs(hash, showcase, mode, rest, base) =
          CASE showcase /\ n = "settings" -> [base EXCEPT !.name = "home"]
            [] mode = "api" /\ n \in DemoOnly -> [base EXCEPT !.name = "dashboard"]
            [] OTHER -> [base EXCEPT !.name = n]
    BY <1>18, <2>1 DEF ParsedAs
  <2>4. CASE showcase /\ n = "settings"
    <3>1. Page([base EXCEPT !.name = "home"], showcase)
      BY <1>11, <1>13, <1>14, <2>4
    <3>2. ParsedAs(hash, showcase, mode, rest, base) = [base EXCEPT !.name = "home"]
      BY <2>3, <2>4 DEF DemoOnly
    <3> QED BY <1>6, <3>1, <3>2
  <2>5. CASE ~(showcase /\ n = "settings") /\ mode = "api" /\ n \in DemoOnly
    BY <1>6, <1>15, <2>3, <2>5
  <2>6. CASE ~(showcase /\ n = "settings") /\ ~(mode = "api" /\ n \in DemoOnly)
    <3>1. Page([base EXCEPT !.name = n], showcase)
      BY <1>13, <2>2, <2>6
    <3> QED BY <1>6, <2>3, <2>6, <3>1
  <2> QED BY <2>4, <2>5, <2>6
<1>19. CASE rest # <<>> /\ ~(Len(rest) = 2 /\ rest[1] = "interviews") /\ ~(Len(rest) = 1 /\ rest[1] \in HasPath)
  <2>1. ParsedAs(hash, showcase, mode, rest, base) = [base EXCEPT !.name = "dashboard"]
    BY <1>19 DEF ParsedAs
  <2> QED BY <1>6, <1>15, <2>1
<1> QED BY <1>16, <1>17, <1>18, <1>19

\* A route of a name alone, as the frame writes them.
LEMMA RouteIsPage ==
  ASSUME NEW mode \in Modes, NEW name \in Names, NEW t \in Positive, NEW showcase \in BOOLEAN,
         showcase => mode = "demo" /\ name # "settings", mode = "api" => name \notin DemoOnly,
         name # "interview"
  PROVE  /\ Page(Route(mode, name, t), showcase)
         /\ Route(mode, name, t).mode = mode /\ Route(mode, name, t).name = name /\ Route(mode, name, t).tour # 0
<1>1. PICK r : r = Route(mode, name, t)
  OBVIOUS
<1>2. r = [mode |-> mode, name |-> name, id |-> "", t |-> t, tour |-> NONE, quote |-> NONE]
  BY <1>1 DEF Route
<1>3. NONE \in Nat \cup {NONE} /\ NONE \in Steps
  BY DEF Steps
<1>4. r \in [mode : Modes, name : Names, id : {r.id}, t : Positive, tour : Steps, quote : Nat \cup {NONE}]
  BY <1>2, <1>3
<1>5. r.mode = mode /\ r.name = name /\ r.id = "" /\ r.tour = NONE /\ r.quote = NONE
  BY <1>2
<1>6. NONE # 0
  BY DEF NONE
<1> QED BY <1>1, <1>4, <1>5, <1>6 DEF Page

\* A page is what its link opens, and its build renders it.
Lands(link, showcase) ==
    ParseHash(RouteToHash(link), showcase) = link /\ Renders(link, showcase)

LEMMA PagesLand ==
  ASSUME NEW r, NEW showcase \in BOOLEAN, Page(r, showcase), r.tour # 0
  PROVE  Lands(r, showcase)
<1>1. ParseHash(RouteToHash(r), showcase) = r
  BY ReopenIs, ShownIs
<1>2. Renders(r, showcase)
  BY DEF Page, Renders
<1> QED BY <1>1, <1>2 DEF Lands

\* The links of a page are pages, in its mode.
LEMMA LinksArePages ==
  ASSUME NEW r, NEW showcase \in BOOLEAN, Page(r, showcase),
         NEW link \in MainNav(r) \cup InsideNav(r, showcase) \cup {Brand(r)}
  PROVE  Page(link, showcase) /\ link.mode = r.mode /\ link.tour # 0
<1>1. /\ r.mode \in Modes /\ r.t \in Positive
      /\ showcase => r.mode = "demo"
  BY DEF Page
<1>2. PICK mode \in Modes, t \in Positive : mode = r.mode /\ t = r.t
  BY <1>1
<1>3. CASE link \in MainNav(r)
  <2>1. PICK n \in {"dashboard", "interviews", "approvals", "inside"} : link = Route(mode, n, t)
    BY <1>2, <1>3 DEF MainNav
  <2>2. n \in Names /\ n \notin DemoOnly /\ n # "interview" /\ n # "settings"
    BY <2>1 DEF Names, DemoOnly
  <2> QED BY <1>1, <1>2, <2>1, <2>2, RouteIsPage
<1>4. CASE link \in InsideNav(r, showcase)
  <2>1. PICK n \in {n \in InsideRoutes : ~(mode = "api" /\ n \in DemoOnly) /\ ~(showcase /\ n = "settings")} :
          link = Route(mode, n, t)
    BY <1>2, <1>4 DEF InsideNav
  <2>2. n \in Names /\ n # "interview"
    BY <2>1 DEF Names, InsideRoutes
  <2>3. (showcase => n # "settings") /\ (mode = "api" => n \notin DemoOnly)
    BY <2>1
  <2> QED BY <1>1, <1>2, <2>1, <2>2, <2>3, RouteIsPage
<1>5. CASE link = Brand(r)
  <2>1. "home" \in Names /\ "dashboard" \in Names /\ "dashboard" \notin DemoOnly /\ NONE \in Positive
    BY DEF Names, DemoOnly, Positive
  <2>2. CASE mode = "demo"
    <3>1. link = Route("demo", "home", t)
      BY <1>2, <1>5, <2>2 DEF Brand
    <3> QED BY <1>2, <2>1, <2>2, <3>1, RouteIsPage
  <2>3. CASE mode # "demo"
    <3>1. link = Route("api", "dashboard", NONE) /\ mode = "api" /\ ~showcase
      BY <1>1, <1>2, <1>5, <2>3 DEF Brand, Modes
    <3> QED BY <1>2, <2>1, <3>1, RouteIsPage
  <2> QED BY <2>2, <2>3
<1> QED BY <1>3, <1>4, <1>5

\* The other mode's version of a page is a page too, and no interview.
LEMMA SwitchesArePages ==
  ASSUME NEW r, NEW showcase \in BOOLEAN, Page(r, showcase), NEW link \in ModeSwitch(r, showcase)
  PROVE  Page(link, showcase) /\ link.name # "interview" /\ link.tour # 0
<1>1. r.name \in Names /\ r.t \in Positive
  BY DEF Page
<1>2. ~showcase
  BY DEF ModeSwitch
<1>3. PICK mode \in Modes : link = WithMode(r, mode)
  BY <1>2 DEF ModeSwitch
<1>4. PICK t \in Positive : t = r.t
  BY <1>1
<1>5. PICK n : n = CASE mode = "api" /\ r.name \in DemoOnly -> "dashboard"
                     [] r.name = "interview" -> "interviews"
                     [] OTHER -> r.name
  OBVIOUS
<1>6. n \in Names /\ n # "interview" /\ (mode = "api" => n \notin DemoOnly)
  <2>1. CASE mode = "api" /\ r.name \in DemoOnly
    BY <1>5, <2>1 DEF Names, DemoOnly
  <2>2. CASE ~(mode = "api" /\ r.name \in DemoOnly) /\ r.name = "interview"
    BY <1>5, <2>2 DEF Names, DemoOnly
  <2>3. CASE ~(mode = "api" /\ r.name \in DemoOnly) /\ r.name # "interview"
    BY <1>1, <1>5, <2>3
  <2> QED BY <2>1, <2>2, <2>3
<1>7. link = Route(mode, n, t)
  BY <1>3, <1>4, <1>5 DEF WithMode
<1> QED BY <1>2, <1>6, <1>7, RouteIsPage

\* The navigation has the section of every page but the landing page.
LEMMA EverySectionIsLinked ==
  ASSUME NEW r, NEW showcase \in BOOLEAN, Page(r, showcase), r.name # "home"
  PROVE  \E link \in MainNav(r) : link.name = Section(r.name)
<1>1. PICK s \in {"dashboard", "interviews", "approvals", "inside"} : s = Section(r.name)
  <2>1. r.name \in Names
    BY DEF Page
  <2> QED BY <2>1 DEF Names, InsideRoutes, Section
<1>2. Route(r.mode, s, r.t) \in MainNav(r)
  BY DEF MainNav
<1>3. Route(r.mode, s, r.t).name = s
  BY DEF Route
<1> QED BY <1>1, <1>2, <1>3

\* Whatever hash is made of whatever segments and numbers, and in either build: the
\* page it opens is the page its own address opens, the build renders it, and
\* every link around it lands where it says (routes.ts:21-24, 51-175).
THEOREM AddressesAlwaysHold ==
  ASSUME NEW segments, input \in [kind : {"hash"}, showcase : BOOLEAN, hash : AnyHash(segments)]
  PROVE  AddressesHold
<1>1. PICK hash \in AnyHash(segments), showcase \in BOOLEAN : hash = input.hash /\ showcase = input.showcase
  OBVIOUS
<1>2. PICK r : r = ParseHash(hash, showcase)
  OBVIOUS
<1>3. Page(r, showcase)
  BY <1>2, ParsedIsPage
<1>4. LinksReopenThePage
  <2>1. ParseHash(RouteToHash(r), showcase) = Shown(r) /\ Shown(Shown(r)) = Shown(r)
    BY <1>3, ReopenIs, ShownIs
  <2> QED BY <1>1, <1>2, <2>1 DEF LinksReopenThePage
<1>5. Renders(r, showcase)
  BY <1>3 DEF Page, Renders
<1>6. (showcase => r.mode = "demo") /\ (r.mode = "api" => r.name \notin DemoOnly)
  BY <1>3 DEF Page
<1>7. \A link \in MainNav(r) \cup InsideNav(r, showcase) \cup {Brand(r)} : Lands(link, showcase) /\ link.mode = r.mode
  <2>1. TAKE link \in MainNav(r) \cup InsideNav(r, showcase) \cup {Brand(r)}
  <2>2. Page(link, showcase) /\ link.mode = r.mode /\ link.tour # 0
    BY <1>3, LinksArePages
  <2> QED BY <2>2, PagesLand
<1>8. \A link \in ModeSwitch(r, showcase) : Lands(link, showcase) /\ link.name # "interview"
  <2>1. TAKE link \in ModeSwitch(r, showcase)
  <2>2. Page(link, showcase) /\ link.name # "interview" /\ link.tour # 0
    BY <1>3, SwitchesArePages
  <2> QED BY <2>2, PagesLand
<1>9. r.name # "home" => \E link \in MainNav(r) : link.name = Section(r.name)
  BY <1>3, EverySectionIsLinked
<1>10. LinksLandWhereTheySay
  BY <1>1, <1>2, <1>5, <1>6, <1>7, <1>8, <1>9 DEF LinksLandWhereTheySay, Lands
<1> QED BY <1>4, <1>10 DEF AddressesHold
===============================================================================
