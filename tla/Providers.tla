------------------------------ MODULE Providers -------------------------------
\* What the settings select and require: the check a worker makes before it
\* starts (src/run_worker.py), the driver it then uses (src/app/services.py),
\* and what the API reports of it (src/app/main.py, /integrations and /health).
EXTENDS Speech

ProviderNames == {"deepgram", "openai", "local", "Deepgram", "whisper"}
Lower(name) == IF name = "Deepgram" THEN "deepgram" ELSE name

\* The settings that matter here, and which packages are installed.
Settings ==
    [transcription_provider : ProviderNames, openai_api_key : BOOLEAN, deepgram_api_key : BOOLEAN,
     hf_token : BOOLEAN, openrouter_api_key : BOOLEAN, whisperx : BOOLEAN, pyannote : BOOLEAN,
     slack_webhook_url : BOOLEAN, notification_webhook_url : BOOLEAN]

\* validate_runtime_dependencies: does the worker start?
\* mutant: the transcription provider's token is all that is asked for
StartsWithoutPyannote(c) ==
    LET provider == Lower(c.transcription_provider)
    IN  /\ CASE provider = "openai" -> c.openai_api_key
             [] provider = "deepgram" -> c.deepgram_api_key
             [] OTHER -> c.whisperx
        /\ c.openrouter_api_key
ValidateRuntimeDependencies(c) ==
    LET provider == Lower(c.transcription_provider)
    IN  /\ CASE provider = "openai" -> c.openai_api_key
             [] provider = "deepgram" -> c.deepgram_api_key
             [] OTHER -> c.whisperx
        /\ provider # "deepgram" => c.pyannote /\ c.hf_token
        /\ c.openrouter_api_key

\* get_transcriber: an unknown name falls back to WhisperX.
GetTranscriber(c) ==
    LET provider == Lower(c.transcription_provider)
    IN  IF provider \in {"openai", "deepgram"} THEN provider ELSE "local"

\* What a job is about: it hears speech or silence, or finds the transcription that
\* an earlier attempt stored, with or without speakers, whatever the provider was then.
Jobs == {"speech", "silence", "plain", "labelled"}
Sentence == [text |-> "a", start |-> 0, end |-> 1]
Utterance == [text |-> "a", start |-> 0, end |-> 1, speaker |-> ""]

\* The transcription stage: a stored transcription is not made again.
JobTranscribes(c, job) ==
    LET heard(segment) == IF job = "silence" THEN <<>> ELSE <<segment>>
    IN  CASE job = "plain" -> Returns(<<Sentence>>)
          [] job = "labelled" -> Returns(<<Utterance>>)
          [] job \in {"speech", "silence"} /\ GetTranscriber(c) = "openai" ->
                OpenAITranscribe(c.openai_api_key, heard(Sentence))
          [] job \in {"speech", "silence"} /\ GetTranscriber(c) = "deepgram" ->
                DeepgramTranscribe(c.deepgram_api_key, 200, heard(Utterance), IF job = "silence" THEN "" ELSE "a")
          [] OTHER -> LocalTranscribe(c.whisperx, heard(Sentence), Raises("RuntimeError"))

\* The diarization stage, of what the stage before it stored.
JobDiarizes(c, job) ==
    DiarizeAudio(JobTranscribes(c, job).segments, Diarizer(c.pyannote, c.hf_token, TRUE, <<>>))

\* _transcription_integration compares the name as it is written.
TranscriptionIntegration(c) ==
    [provider |-> c.transcription_provider,
     configured |-> CASE c.transcription_provider = "deepgram" -> c.deepgram_api_key
                      [] c.transcription_provider = "openai" -> c.openai_api_key
                      [] c.transcription_provider = "local" -> c.hf_token
                      [] OTHER -> FALSE]
ListIntegrations(c) ==
    [slack |-> c.slack_webhook_url, webhook |-> c.notification_webhook_url,
     transcription |-> TranscriptionIntegration(c), scoring |-> c.openrouter_api_key]

\* NotificationDispatcher(): the channels that have somewhere to send to.
Channels(c) ==
    {ch \in {"slack", "webhook"} : IF ch = "slack" THEN c.slack_webhook_url ELSE c.notification_webhook_url}

SettingsCalls == [kind : {"settings"}, c : Settings, job : Jobs]

-------------------------------------------------------------------------------
(* What must hold. *)

\* What a worker may start without although a job may need it: with Deepgram, the
\* package and the token of the diarizer, which is asked whenever the transcription
\* names no speakers - one kept from another provider (src/run_worker.py:37-40, "an
\* accepted edge case"), and one of silence, which the comment does not mention.
StartedWithoutDiarizer(c, job) ==
    GetTranscriber(c) = "deepgram" /\ job \in {"plain", "silence"} /\ ~(c.pyannote /\ c.hf_token)

\* A worker that starts never finds, in the middle of a job, that its provider, the
\* diarizer or the model cannot run for want of a package or a key
\* (src/run_worker.py:12-52, "Fail fast at worker startup ... instead of silently
\* degrading (or failing mid-job hours later)"), but for the diarizer that Deepgram
\* is started without: then the job fails saying so, and is never scored without it.
StartedWorkerCanRun ==
    input.kind = "settings" /\ ValidateRuntimeDependencies(input.c) =>
        /\ JobTranscribes(input.c, input.job).raised = "nothing"
        /\ JobDiarizes(input.c, input.job).raised =
                IF StartedWithoutDiarizer(input.c, input.job) THEN "TranscriptionDependencyError" ELSE "nothing"
        /\ input.c.openrouter_api_key

\* What the operator is shown as not configured cannot be what a running worker
\* uses, when the provider is spelled as documented; and each channel shown as
\* configured, and no other, is sent to (src/app/main.py:157-204,
\* src/app/notifications.py:186-194).
ShownAsItRuns ==
    input.kind = "settings" =>
        /\ ValidateRuntimeDependencies(input.c)
           /\ input.c.transcription_provider \in {"deepgram", "openai", "local"} =>
            LET shown == ListIntegrations(input.c)
            IN  /\ shown.transcription.configured /\ shown.scoring
                /\ shown.transcription.provider = GetTranscriber(input.c)
        /\ LET shown == ListIntegrations(input.c)
           IN  Channels(input.c) = {ch \in {"slack", "webhook"} : shown[ch]}

\* The worker at startup, a job and the integrations screen read the same settings
\* the same way, the diarizer above excepted.
SettingsReadAlike == StartedWorkerCanRun /\ ShownAsItRuns
===============================================================================
