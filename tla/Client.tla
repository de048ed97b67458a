-------------------------------- MODULE Client --------------------------------
\* The browser's side of the API: the request and what it throws
\* (src/frontend/src/api/client.ts, errors.ts), what an old or double-encoded row
\* becomes (api/normalize.ts) and how a failure is explained
\* (features/health/errorTaxonomy.ts, components/ErrorState.tsx).
EXTENDS Cases, Integers

-------------------------------------------------------------------------------
(* The answers of the API.  A call says all they depend on. *)

Guarded == {"integrations", "list", "interview", "action", "reprocess", "webhook"}
Addressed == {"interview", "action", "reprocess"}

\* The calls whose failure a screen explains, where it has nothing else to show; it
\* only repeats the message of the others.  "jobs" is also /recordings.
Fetches == {"health", "integrations", "list", "interview", "jobs"}

\* Whether the server runs, whether the page's origin is one the server allows,
\* whether the handler raises something unforeseen, whether the key (the
\* signature, of the webhook) is right, the id is one, the interview exists (of the
\* webhook: its external id is known), its status or the payload allows the
\* operation, and the dependencies are up.
Requests ==
    [kind : {"request"}, endpoint : Guarded \cup {"health", "jobs"}, up : BOOLEAN, allowed : BOOLEAN,
     crashes : BOOLEAN, authorized : BOOLEAN, wellFormed : BOOLEAN, exists : BOOLEAN, legal : BOOLEAN,
     healthy : BOOLEAN]

\* FastAPI refuses an id that is not a UUID, and the page sends whatever its address
\* holds.
OfInterview(c) ==
    IF ~c.wellFormed THEN 422 ELSE IF ~c.exists THEN 404
    ELSE IF c.endpoint = "interview" \/ c.legal THEN 200 ELSE 400

\* The webhook alone answers for a row it could not store, or not enqueue.
OfRecording(c) == IF ~c.legal THEN 400 ELSE IF c.exists \/ c.healthy THEN 202 ELSE 500

\* A server from before GET /integrations answers it with 404 whatever the key; the
\* key is asked for before anything else is read.
Responds(c) ==
    IF c.endpoint = "integrations" /\ ~c.exists THEN 404
    ELSE IF c.endpoint \in Guarded /\ ~c.authorized THEN 401
    ELSE CASE c.endpoint \in Addressed -> OfInterview(c)
           [] c.endpoint = "webhook" -> OfRecording(c)
           [] c.endpoint = "health" -> IF c.healthy THEN 200 ELSE 503
           [] OTHER -> 200

\* What the page can read; 0 when fetch rejects.  The answer to an exception
\* nobody handles is made outside the CORS middleware, so it carries no
\* permission to be read.
Received(c) == IF c.up /\ c.allowed /\ ~c.crashes THEN Responds(c) ELSE 0

-------------------------------------------------------------------------------
(* api/client.ts *)

Nothing == [name |-> "none", status |-> 0, message |-> "none"]

\* The message is the server's own `detail`, unless that is not text: FastAPI's is a
\* list, for what it refuses to read.
Detail(status) == IF status = 422 THEN "status" ELSE "detail"

\* mutant: a 404 is any other refusal
ThrowForStatusWithout404(status) ==
    [name |-> IF status \in {401, 403} THEN "AuthError" ELSE "BadRequestError", status |-> status,
     message |-> Detail(status)]
ThrowForStatus(status) ==
    [name |-> CASE status \in {401, 403} -> "AuthError"
                [] status = 404 -> "NotFoundError"
                [] OTHER -> "BadRequestError",
     status |-> status, message |-> Detail(status)]

\* Every request leaves one sample: the status, or that there was none.  The 503
\* of /health is an answer like another.
Request(c) ==
    [sample |-> Received(c),
     thrown |-> CASE Received(c) = 0 -> [name |-> "ApiUnavailableError", status |-> 0, message |-> "unreachable"]
                  [] Received(c) \in 200 .. 299 -> Nothing
                  [] Received(c) \notin {0} \cup 200 .. 299 ->
                        IF c.endpoint = "health" THEN Nothing ELSE ThrowForStatus(Received(c))]

\* createApiSource: no GET /integrations is null, not a failure.
Thrown(c) ==
    IF c.endpoint = "integrations" /\ Request(c).thrown.name = "NotFoundError" THEN Nothing
    ELSE Request(c).thrown

-------------------------------------------------------------------------------
(* features/health/errorTaxonomy.ts *)

\* A rejected fetch does not say why: the page's own origin decides.
Diagnose(error, allowed) ==
    CASE error.name = "ApiUnavailableError" -> IF allowed THEN "offline" ELSE "cors"
      [] error.name = "AuthError" -> "auth"
      [] error.name = "NotFoundError" -> "not_found"
      [] error.name = "BadRequestError" /\ error.status = 400 -> "invalid_state"
      [] OTHER -> "unknown"

\* ErrorState, and the health screen: the failure of a load and the way out, or what
\* is wrong with the dependencies.
ErrorState(c) ==
    LET error == Thrown(c)
        kind == Diagnose(error, c.allowed)
    IN  IF error = Nothing
        THEN [kind |-> IF c.endpoint = "health" /\ Received(c) = 503 THEN "unhealthy" ELSE "none",
              opens |-> "nothing"]
        ELSE [kind |-> kind, opens |-> IF kind = "auth" THEN "settings" ELSE "nothing"]

\* errorMessage, beside what the person was doing; the ingestion screen expects to be
\* refused for want of a signature.
Told(c) ==
    IF c.endpoint = "webhook" /\ Thrown(c).name = "AuthError" THEN "hmac" ELSE Thrown(c).message

\* The table of the health screen.
ErrorKindReference ==
    {"offline", "cors", "auth", "not_found", "invalid_state", "unhealthy", "unknown"}

-------------------------------------------------------------------------------
(* api/normalize.ts.  A value is null, a list, an object that names a candidate
   or does not, plain text, or the text of a value encoded once more. *)

Null == [is |-> "null"]
SpokenSegments == [is |-> "list"]
Card(named) == [is |-> "object", named |-> named]
PlainText == [is |-> "text"]
Encoded(v) == [is |-> "json", of |-> v]

TryParseJson(v) == IF v.is = "json" THEN v.of ELSE [is |-> "undefined"]
IsText(v) == v.is \in {"text", "json"}

NormalizeScorecard(v) ==
    LET parsed == IF IsText(v) THEN TryParseJson(v) ELSE v
    IN  IF parsed.is = "object" /\ parsed = Card(TRUE) THEN parsed ELSE Null
NormalizeTranscription(v) ==
    CASE v.is = "list" -> v
      [] IsText(v) -> IF TryParseJson(v).is = "list" THEN TryParseJson(v) ELSE v
      [] OTHER -> Null
NormalizeSegments(v) ==
    CASE v.is = "list" -> v
      [] IsText(v) /\ TryParseJson(v).is = "list" -> TryParseJson(v)
      [] OTHER -> Null
NormalizeInterview(row) ==
    [scorecard |-> NormalizeScorecard(row.scorecard),
     transcription |-> NormalizeTranscription(row.transcription),
     diarization |-> NormalizeSegments(row.diarization)]

\* Rows as the worker writes them, and each column encoded once more.
Rows ==
    LET maybeEncoded(values) == values \cup {Encoded(v) : v \in values \ {Null, PlainText}}
    IN  [kind : {"row"}, scorecard : maybeEncoded({Null, Card(TRUE), Card(FALSE)}),
         transcription : maybeEncoded({Null, SpokenSegments, PlainText}),
         diarization : maybeEncoded({Null, SpokenSegments})]

-------------------------------------------------------------------------------
(* What must hold. *)

\* The failure of a load is explained by what caused it: a refused key, a missing
\* record, an origin the server does not allow; a server that answered is never called
\* unreachable, and the health it reports is never an error (api/client.ts:47-84,
\* errorTaxonomy.ts:51-123, "a wrong diagnosis sends someone to restart a healthy
\* backend").  Only an id that is none is beyond the taxonomy.  What fails otherwise
\* is told with the server's own words, if it has any.
DiagnosisMatchesTheCause ==
    input.kind = "request" =>
        LET shown == ErrorState(input).kind
            told == Told(input)
            status == Received(input)
        IN  /\ Request(input).sample = status
            /\ input.endpoint \in Fetches =>
                 /\ shown \in {"none"} \cup (ErrorKindReference \ {"invalid_state"})
                 /\ shown = "auth" <=> status = 401
                 /\ shown = "not_found" <=> status = 404 /\ input.endpoint \in Addressed
                 /\ shown = "unknown" <=> status = 422
                 /\ shown = "unhealthy" <=> status = 503
                 /\ shown = "cors" <=> ~input.allowed
                 /\ shown = "offline" <=> input.allowed /\ (~input.up \/ input.crashes)
            /\ input.endpoint \notin Fetches =>
                 /\ told = "none" <=> status \in {200, 202}
                 /\ told = "unreachable" <=> status = 0
                 /\ told = "status" <=> status = 422
                 /\ told = "hmac" <=> status = 401 /\ input.endpoint = "webhook"
                 /\ told = "detail" <=> status \in {400, 404, 500} \/ (status = 401 /\ input.endpoint # "webhook")

\* A row gives the same screen however often its columns were encoded, and every
\* column has a shape the screens are written for (api/normalize.ts:1-8 "A
\* decision screen must not crash over a serialization quirk").
EncodingDoesNotMatter ==
    input.kind = "row" =>
        LET row == NormalizeInterview(input)
            plain(v) == IF v.is = "json" THEN v.of ELSE v
        IN  /\ row = NormalizeInterview([input EXCEPT !.scorecard = plain(@), !.transcription = plain(@),
                                                      !.diarization = plain(@)])
            /\ row.scorecard \in {Null, Card(TRUE)} /\ row.diarization \in {Null, SpokenSegments}
            /\ row.transcription = plain(input.transcription)

\* What a screen is told of a request is what happened to it, whether it failed or
\* brought a row.
AnswersAreUnderstood == DiagnosisMatchesTheCause /\ EncodingDoesNotMatter
===============================================================================
