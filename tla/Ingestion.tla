------------------------------- MODULE Ingestion ------------------------------
\* The ingestion screen, its one request at a time and the webhook it calls
\* (src/frontend/src/features/ingestion/IngestionView.tsx).  The request may fail
\* on its way, and its answer on the way back, after the server has stored it.
EXTENDS Integers, Sequences, FiniteSets, SequencesExt

CONSTANT MaxSubmits   \* bound: times the button is pressed

VARIABLES
    signed,     \* the server asks for an HMAC signature
    options,    \* jobs and recordings: "away", "loading", "loaded" or "failed"
    form,       \* the fields
    submit,     \* SubmitState, and the answer it shows
    flight,     \* the request on the network; bound: one at a time, even after leaving
    received,       \* the server's interviews, as the external ids they came with
    submits

ingestionVars == <<signed, options, form, submit, flight, received, submits>>

\* An external id that was typed, with or without a space after it.
Typed == {[id |-> "", space |-> FALSE]} \cup [id : {"", "x"}, space : BOOLEAN]
NoText == [id |-> "", space |-> FALSE]
EmptyForm == [job |-> FALSE, recording |-> FALSE, external |-> NoText]
Submit(kind, id, deduplicated) == [kind |-> kind, id |-> id, deduplicated |-> deduplicated]
Idle == Submit("idle", 0, FALSE)
NoPost == [stage |-> "none", external |-> NoText, mounted |-> FALSE, answer |-> Idle, created |-> FALSE]

\* externalId.trim(): null when it is empty.
Payload(text) == [text EXCEPT !.space = FALSE]

IngestionInit ==
    /\ signed \in BOOLEAN
    /\ options = "away" /\ form = EmptyForm /\ submit = Idle /\ flight = NoPost
    /\ received = <<>> /\ submits = 0

\* The screen mounts, and asks for the jobs and the recordings.
OpenIngestion ==
    /\ options = "away"
    /\ options' = "loading"
    /\ UNCHANGED <<signed, form, submit, flight, received, submits>>

\* Both lists or neither; the error's button asks for them again.
OptionsArrive ==
    /\ options = "loading"
    /\ options' \in {"loaded", "failed"}
    /\ UNCHANGED <<signed, form, submit, flight, received, submits>>
RetryOptions ==
    /\ options = "failed"
    /\ options' = "loading"
    /\ UNCHANGED <<signed, form, submit, flight, received, submits>>

LeaveIngestion ==
    /\ options # "away"
    /\ options' = "away" /\ form' = EmptyForm /\ submit' = Idle
    /\ flight' = [flight EXCEPT !.mounted = FALSE]
    /\ UNCHANGED <<signed, received, submits>>

\* The fields stay enabled while a request is on its way.
Fill ==
    /\ options = "loaded" /\ submit.kind # "done"
    /\ \/ form' = [form EXCEPT !.job = TRUE]
       \/ form' = [form EXCEPT !.recording = TRUE]
       \/ \E text \in Typed : form' = [form EXCEPT !.external = text]
    /\ UNCHANGED <<signed, options, submit, flight, received, submits>>

Press ==
    /\ options = "loaded" /\ submit.kind \notin {"submitting", "done"}
    /\ form.job /\ form.recording
    /\ flight = NoPost /\ submits < MaxSubmits
    /\ submit' = Submit("submitting", 0, FALSE)
    /\ flight' = [NoPost EXCEPT !.stage = "sent", !.external = Payload(form.external), !.mounted = TRUE]
    /\ submits' = submits + 1
    /\ UNCHANGED <<signed, options, form, received>>

\* POST /webhooks/recording: signature, lookup of the external id, insert.
Known(external) ==
    IF external = NoText THEN 0 ELSE SelectInSeq(received, LAMBDA row : row = external)
WebhookRuns ==
    /\ flight.stage = "sent"
    /\ LET known == Known(flight.external)
       IN  IF signed
           THEN received' = received /\ flight' = [flight EXCEPT !.stage = "answered", !.answer = Submit("hmac", 0, FALSE)]
           ELSE IF known > 0
           THEN received' = received /\ flight' = [flight EXCEPT !.stage = "answered", !.answer = Submit("done", known, TRUE)]
           ELSE /\ received' = Append(received, flight.external)
                /\ flight' = [flight EXCEPT !.stage = "answered", !.created = TRUE,
                                            !.answer = Submit("done", Len(received) + 1, FALSE)]
    /\ UNCHANGED <<signed, options, form, submit, submits>>

\* What the screen makes of an answer: 401 is explained, anything else thrown is
\* a message, and the form can be sent again.
\* mutant: whatever is not thrown was created
CreatedAlways(answer) == [answer EXCEPT !.deduplicated = FALSE]
Shows(answer) == answer

AnswerArrives ==
    /\ flight.stage = "answered"
    /\ submit' = IF flight.mounted THEN Shows(flight.answer) ELSE submit
    /\ flight' = NoPost
    /\ UNCHANGED <<signed, options, form, received, submits>>

\* mutant: what was thrown is not caught
FailureUncaught == Submit("submitting", 0, FALSE)
FailureShown == Submit("error", 0, FALSE)

PostFails ==
    /\ flight.stage \in {"sent", "answered"}
    /\ submit' = IF flight.mounted THEN FailureShown ELSE submit
    /\ flight' = NoPost
    /\ UNCHANGED <<signed, options, form, received, submits>>

\* "Disparar outra" keeps the job.
Another ==
    /\ submit.kind = "done"
    /\ submit' = Idle
    /\ form' = [form EXCEPT !.recording = FALSE, !.external = NoText]
    /\ UNCHANGED <<signed, options, flight, received, submits>>

IngestionNext ==
    \/ OpenIngestion \/ OptionsArrive \/ RetryOptions \/ LeaveIngestion
    \/ Fill \/ Press \/ Another
    \/ WebhookRuns \/ AnswerArrives \/ PostFails

IngestionSpec == IngestionInit /\ [][IngestionNext]_ingestionVars

\* Requests are answered, or fail.
IngestionFairness == WF_ingestionVars(WebhookRuns) /\ WF_ingestionVars(AnswerArrives)

-------------------------------------------------------------------------------
(* What must hold. *)

\* Sending the same external id again, after a failure that came too late to stop
\* the server or after leaving the screen, creates no second interview, with or
\* without a stray space (IngestionView.tsx:219-222 "devolve a entrevista existente
\* em vez de criar uma duplicata").
ResendingIsHarmless ==
    /\ \A j, k \in DOMAIN received : received[j].id = received[k].id /\ received[j].id # "" => j = k
    /\ Len(received) <= submits

\* What the screen says was done was done: the interview it links to exists, it
\* says "nothing new was created" of no interview this request created, and it
\* says "registered" of none that was there (IngestionView.tsx:276-291).
DoneIsTrue ==
    [][submit'.kind = "done" /\ submit.kind = "submitting" =>
            /\ ~signed
            /\ submit'.id \in DOMAIN received
            /\ submit'.deduplicated = ~flight.created]_ingestionVars

\* The form is never stuck: what was sent is answered, fails, or is left behind.
SubmissionEnds == [](submit.kind = "submitting" => <>(submit.kind # "submitting"))

\* However often and however late, a submission creates at most what it says.
SubmissionsAreTrue == []ResendingIsHarmless /\ DoneIsTrue
===============================================================================
