------------------------------- MODULE Attempt --------------------------------
\* One job of one interview, as its work-horse process runs it: the temporary
\* audio file and who removes it, the models in memory, the conversation with
\* the scoring model, and the channels told at the end (src/app/services.py,
\* scoring.py, notifications.py, audio_processor.py).  The row it works on is
\* the subject of Pipeline; here it is the status and the checkpoints committed
\* to it by the stages of app/tasks.py, one job at a time.
EXTENDS InterviewStatus, Integers, Sequences, FiniteSets

CONSTANTS
    NULL,      \* no path, no download
    MaxBytes,  \* settings.max_audio_bytes, in chunks
    MaxJobs,   \* how many times the interview is tried
    MaxKills   \* how many of those work-horses are killed

\* An open temporary file and the chunks written to it.
Downloads == [file : Nat, written : Nat]

ASSUME AttemptAssumption ==
    MaxBytes \in Nat /\ MaxJobs \in Nat \ {0} /\ MaxKills \in Nat /\ NULL \notin Nat \cup Downloads

MAX_ATTEMPTS == 3

VARIABLES
    recording,  \* "remote" or "local", what recording_url is
    driver,     \* what TRANSCRIPTION_PROVIDER selects
    channels,   \* the notification channels with somewhere to send to, in order
    committed,  \* the status committed to the row
    saved,      \* the checkpoints committed to the row
    labelled,   \* does the stored transcription name its speakers?
    stage,      \* what the work-horse is doing, "none" when there is none
    audio,      \* AudioSource._path: the recording itself or a temporary file
    download,   \* the open temporary file and the bytes written to it
    files,      \* the temporary files on disk
    models,     \* _MODEL_CACHE
    messages,   \* the conversation with the scoring model
    sent,       \* the channels tried so far, with what came of it
    cutShort,   \* what kept a job that had published from its announcement, or "nothing"
    jobs, kills,
    downloads,  \* downloads completed by this job
    lost        \* files whose process was killed, or that could not be removed

choices == <<recording, driver, channels>>
checkpoints == <<committed, saved, labelled>>
memory == <<audio, download, models, messages>>
announced == <<sent, cutShort>>
counters == <<jobs, kills, downloads>>
attemptVars == <<choices, checkpoints, stage, memory, files, announced, counters, lost>>

\* The local recording, among the paths; the temporary files are 1, 2, ...
Recording == 0
IsTemp(path) == path \notin {NULL, Recording}

\* _resume_status_for: the stage whose checkpoint is the first one missing.
ResumeStatus == CASE "transcription" \notin saved -> TRANSCREVENDO
                  [] "transcription" \in saved /\ "diarization" \notin saved -> DIARIZANDO
                  [] OTHER -> PONTUANDO

AttemptInit ==
    /\ recording \in {"remote", "local"} /\ driver \in {"local", "openai", "deepgram"}
    /\ channels \in {<<>>, <<"slack">>, <<"webhook">>, <<"slack", "webhook">>}
    /\ committed = RECEBIDA /\ saved = {} /\ labelled = FALSE
    /\ stage = "none" /\ audio = NULL /\ download = NULL /\ files = {} /\ models = {} /\ messages = <<>>
    /\ sent = <<>> /\ cutShort = "nothing" /\ jobs = 0 /\ kills = 0 /\ downloads = 0 /\ lost = {}

-------------------------------------------------------------------------------
(* AudioSource *)

\* A new work-horse: RQ forks one per job, with nothing in memory.  Of a row that
\* awaits its approver it finds nothing to do.
Fork ==
    /\ stage = "none" /\ jobs < MaxJobs /\ ~Settled(committed)
    /\ jobs' = jobs + 1 /\ stage' = "begin" /\ downloads' = 0
    /\ UNCHANGED <<choices, checkpoints, memory, files, announced, kills, lost>>

\* A stage whose checkpoint is there is skipped, and resolves no audio.
ToTranscribe == stage = "transcribe" /\ "transcription" \notin saved
ToDiarize == stage = "diarize" /\ "diarization" \notin saved
NeedsAudio == (ToTranscribe \/ ToDiarize) /\ audio = NULL /\ download = NULL

\* The exception leaves the pipeline; _record_failure is next, then __exit__.
Raise == stage' = "failed"

\* path(): a local recording is used where it is, if it is allowed and exists.
ResolveLocal ==
    /\ NeedsAudio /\ recording = "local"
    /\ \/ audio' = Recording /\ UNCHANGED stage
       \/ Raise /\ UNCHANGED audio
    /\ UNCHANGED <<choices, checkpoints, download, files, models, messages, announced, counters, lost>>

\* path(): a remote one is downloaded, unless its host is refused.
OpenDownload ==
    /\ NeedsAudio /\ recording = "remote"
    /\ \/ /\ files' = files \cup {jobs} /\ download' = [file |-> jobs, written |-> 0]
          /\ UNCHANGED stage
       \/ Raise /\ UNCHANGED <<files, download>>
    /\ UNCHANGED <<choices, checkpoints, audio, models, messages, announced, counters, lost>>

\* The exception handler of download_audio.
AbandonDownload ==
    /\ download' = NULL /\ Raise
    /\ \/ files' = files \ {download.file} /\ UNCHANGED lost
       \/ lost' = lost \cup {download.file} /\ UNCHANGED files

\* The limit is on what has been received, whatever the server announced.
TooLarge == download.written + 1 > MaxBytes

Chunk ==
    /\ download # NULL
    /\ IF TooLarge THEN AbandonDownload
       ELSE /\ download' = [download EXCEPT !.written = @ + 1]
            /\ UNCHANGED <<stage, files, lost>>
    /\ UNCHANGED <<choices, checkpoints, audio, models, messages, announced, counters>>

DownloadEnds ==
    /\ download # NULL
    /\ \/ /\ audio' = download.file /\ download' = NULL /\ downloads' = downloads + 1
          /\ UNCHANGED <<stage, files, lost>>
       \/ AbandonDownload /\ UNCHANGED <<audio, downloads>>
    /\ UNCHANGED <<choices, checkpoints, models, messages, announced, jobs, kills>>

\* __exit__, then the end of the process.
\* mutant: only a job that succeeds cleans up
CleanupOnSuccess ==
    IF IsTemp(audio) /\ "scorecard" \in saved
    THEN \/ files' = files \ {audio} /\ UNCHANGED lost
         \/ lost' = lost \cup {audio} /\ UNCHANGED files
    ELSE UNCHANGED <<files, lost>>
Cleanup ==
    IF IsTemp(audio)
    THEN \/ files' = files \ {audio} /\ UNCHANGED lost
         \/ lost' = lost \cup {audio} /\ UNCHANGED files
    ELSE UNCHANGED <<files, lost>>

\* A new process starts with nothing in memory.
Forgotten == audio' = NULL /\ models' = {} /\ messages' = <<>>

Exit ==
    /\ stage = "exit"
    /\ Cleanup
    /\ stage' = "none" /\ Forgotten
    /\ UNCHANGED <<choices, checkpoints, download, announced, counters>>

\* A kill (out of memory, a restart of the container) runs no handler.
Killed ==
    /\ stage # "none" /\ kills < MaxKills
    /\ stage' = "none" /\ Forgotten /\ download' = NULL
    /\ kills' = kills + 1
    /\ lost' = lost \cup (files \cap ({audio} \cup IF download = NULL THEN {} ELSE {download.file}))
    /\ cutShort' = IF committed = AGUARDANDO THEN "killed" ELSE cutShort
    /\ UNCHANGED <<choices, checkpoints, files, sent, jobs, downloads>>

-------------------------------------------------------------------------------
(* The stages.  A commit may fail, or succeed and be followed by a refresh *)
(* that fails.                                                             *)

\* A new status, which the job goes on from unless the refresh fails.
MoveOn(status, next) ==
    \/ committed' = status /\ stage' \in {next, "failed"}
    \/ Raise /\ UNCHANGED committed

\* A failed interview re-enters at its first missing checkpoint, a new one at the
\* transcription, and one whose job was killed where it was.
StageOf == [s \in {TRANSCREVENDO, DIARIZANDO, PONTUANDO} |->
                CASE s = TRANSCREVENDO -> "transcribe" [] s = DIARIZANDO -> "diarize" [] OTHER -> "score"]
Begin ==
    /\ stage = "begin"
    /\ CASE committed = FALHOU -> MoveOn(ResumeStatus, StageOf[ResumeStatus])
         [] committed = RECEBIDA -> MoveOn(TRANSCREVENDO, "transcribe")
         [] OTHER -> stage' = StageOf[committed] /\ UNCHANGED committed
    /\ UNCHANGED <<choices, saved, labelled, memory, files, announced, counters, lost>>

\* The models a local transcription loads; that of the alignment may fail to.
Loads == IF driver = "local" THEN {{"whisper"}, {"whisper", "align"}} ELSE {{}}

\* An empty transcription is stored, and is no checkpoint.
Transcribe ==
    /\ ToTranscribe /\ audio # NULL
    /\ \E loaded \in Loads : models' = models \cup loaded
    /\ \/ \E empty \in BOOLEAN :
            /\ saved' = IF empty THEN saved ELSE saved \cup {"transcription"}
            /\ labelled' = (driver = "deepgram" /\ ~empty)
            /\ stage' \in {"transcribed", "failed"}
       \/ Raise /\ UNCHANGED <<saved, labelled>>
    /\ UNCHANGED <<choices, committed, audio, download, files, messages, announced, counters, lost>>

Transcribed ==
    /\ stage = "transcribed" \/ (stage = "transcribe" /\ "transcription" \in saved)
    /\ MoveOn(DIARIZANDO, "diarize")
    /\ UNCHANGED <<choices, saved, labelled, memory, files, announced, counters, lost>>

\* clear_model_caches, before the diarizer is loaded.
Evicted == {}

\* The diarizer is loaded only for segments without speakers.  Of no segments it may
\* find no turns either: an empty dialogue is stored, and is no checkpoint.
Diarize ==
    /\ ToDiarize /\ audio # NULL
    /\ models' = IF labelled THEN Evicted ELSE Evicted \cup {"pyannote"}
    /\ \/ /\ \/ saved' = saved \cup {"diarization"}
             \/ "transcription" \notin saved /\ UNCHANGED saved
          /\ stage' \in {"diarized", "failed"}
       \/ Raise /\ UNCHANGED saved
    /\ UNCHANGED <<choices, committed, labelled, audio, download, files, messages, announced, counters, lost>>

Diarized ==
    /\ stage = "diarized" \/ (stage = "diarize" /\ "diarization" \in saved)
    /\ MoveOn(PONTUANDO, "score")
    /\ UNCHANGED <<choices, saved, labelled, memory, files, announced, counters, lost>>

\* score_interview reads the job's files and opens the conversation.
BeginScoring ==
    /\ stage = "score" /\ "scorecard" \notin saved
    /\ \/ messages' = <<[role |-> "system", about |-> 0], [role |-> "user", about |-> 0]>> /\ stage' = "ask"
       \/ Raise /\ UNCHANGED messages
    /\ UNCHANGED <<choices, checkpoints, audio, download, files, models, announced, counters, lost>>

\* How many answers the model has had back.
Answers == Cardinality({i \in DOMAIN messages : messages[i].role = "assistant"})

\* An answer that fails validation is shown to the model with its errors.
\* mutant: the errors are sent without the answer they are about
CorrectedBlindly == Append(messages, [role |-> "user", about |-> Answers + 1])
Corrected ==
    messages \o <<[role |-> "assistant", about |-> Answers + 1], [role |-> "user", about |-> Answers + 1]>>

\* A valid answer is a scorecard, whose quotes are verified before it is
\* stored; three invalid ones, or an error of the API, end the job.
Ask ==
    /\ stage = "ask"
    /\ \/ saved' = saved \cup {"scorecard"} /\ stage' \in {"scored", "failed"} /\ UNCHANGED messages
       \/ messages' = Corrected /\ UNCHANGED saved
          /\ stage' = IF Answers + 1 = MAX_ATTEMPTS THEN "failed" ELSE "ask"
       \/ Raise /\ UNCHANGED <<saved, messages>>
    /\ UNCHANGED <<choices, committed, labelled, audio, download, files, models, announced, counters, lost>>

\* The commit that makes the scorecard await its approver: from here on another
\* job finds nothing to do, although the refresh after it may fail.
Publish ==
    /\ stage = "scored" \/ (stage = "score" /\ "scorecard" \in saved)
    /\ MoveOn(AGUARDANDO, "notify")
    /\ cutShort' = IF committed' = AGUARDANDO /\ stage' = "failed" THEN "unread" ELSE cutShort
    /\ UNCHANGED <<choices, saved, labelled, memory, files, sent, counters, lost>>

\* notify_approval reads the row again, in a session of its own, before it tries
\* the first channel.
NotifyUnread ==
    /\ stage = "notify" /\ sent = <<>>
    /\ Raise /\ cutShort' = "unread"
    /\ UNCHANGED <<choices, checkpoints, memory, files, sent, counters, lost>>

\* One channel after the other.  Its exception ends its own turn only.
\* mutant: the exception of a channel ends the loop
MoreChannelsUnlessFailed ==
    Len(sent) < Len(channels) /\ \A i \in DOMAIN sent : sent[i].ok
MoreChannels == Len(sent) < Len(channels)

Notify ==
    /\ stage = "notify"
    /\ IF MoreChannels
       THEN \E ok \in BOOLEAN :
                /\ sent' = Append(sent, [channel |-> channels[Len(sent) + 1], ok |-> ok])
                /\ UNCHANGED stage
       ELSE stage' = "exit" /\ UNCHANGED sent
    /\ UNCHANGED <<choices, checkpoints, memory, files, cutShort, counters, lost>>

\* _record_failure: FALHOU, where VALID_TRANSITIONS allows it, unless that fails too.
RecordFailure ==
    /\ stage = "failed" /\ stage' = "exit"
    /\ \/ committed' = IF FALHOU \in VALID_TRANSITIONS[committed] THEN FALHOU ELSE committed
       \/ UNCHANGED committed
    /\ UNCHANGED <<choices, saved, labelled, memory, files, announced, counters, lost>>

WorkHorse ==
    \/ ResolveLocal \/ OpenDownload \/ Chunk \/ DownloadEnds \/ Exit
    \/ Begin \/ Transcribe \/ Transcribed \/ Diarize \/ Diarized \/ BeginScoring \/ Ask
    \/ Publish \/ NotifyUnread \/ Notify \/ RecordFailure
AttemptNext == Fork \/ Killed \/ WorkHorse

AttemptSpec == AttemptInit /\ [][AttemptNext]_attemptVars

-------------------------------------------------------------------------------
(* What must hold. *)

\* A temporary file is on disk only while the job that downloads or uses it
\* runs, unless that job was killed or the file could not be removed; and the
\* file a job works on is there (src/app/services.py:71-135).
TempFilesAccounted ==
    /\ \A f \in files \ lost : f = audio \/ (download # NULL /\ f = download.file)
    /\ IsTemp(audio) => audio \in files
    /\ downloads <= 1

\* The models of the transcription and those of the diarization are never in
\* memory together (src/app/tasks.py:133-137, "cannot coexist in the worker's
\* memory budget").
ModelsNeverCoexist == "pyannote" \in models => models = {"pyannote"}

\* What a job takes of the disk and of the memory it gives back before it takes
\* what comes next, whatever fails in between.
ResourcesAccounted == TempFilesAccounted /\ ModelsNeverCoexist

\* Whenever the model is asked again, the conversation is its own answers so
\* far, in order, each followed by what was wrong with it, and it is not asked
\* a fourth time (src/app/scoring.py:231-269).
ModelSeesItsMistakes ==
    stage = "ask" =>
        /\ Len(messages) = 2 * (Answers + 1) /\ Answers < MAX_ATTEMPTS
        /\ \A n \in 1 .. Answers :
            /\ messages[2 * n + 1] = [role |-> "assistant", about |-> n]
            /\ messages[2 * n + 2] = [role |-> "user", about |-> n]

\* The channels are tried in order, each once, and only of a scorecard that awaits
\* its approver.  When the job that published it is over all of them have been,
\* whatever the others answered, unless it was killed since its commit, or could not
\* read the row again after it: then none has been, and nothing announces it later
\* (src/app/notifications.py:196-206, src/app/tasks.py:172-179).
EveryChannelTried ==
    /\ Len(sent) <= Len(channels) /\ \A i \in DOMAIN sent : sent[i].channel = channels[i]
    /\ sent # <<>> => committed = AGUARDANDO
    /\ committed = AGUARDANDO /\ stage = "none" =>
        \/ Len(sent) = Len(channels)
        \/ cutShort = "killed"
        \/ cutShort = "unread" /\ sent = <<>>

\* The work-horse ends however long the recording's server keeps sending and
\* however often the model answers nonsense.
WorkHorseEnds == (stage # "none") ~> (stage = "none")
===============================================================================
