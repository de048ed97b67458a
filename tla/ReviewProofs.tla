----------------------------- MODULE ReviewProofs -----------------------------
\* The review screen, for any interviews, any number of requests at once and any
\* number of failures: one decision at a time, and no optimistic status that
\* outlives its request.
EXTENDS Review, TLAPS

\* What a request in flight can be relied on for: the screen that awaits it is
\* there, a decision came from a screen that showed an open interview, and an
\* answer that settles is still true, because nothing unsettles a decision.
SoundRequest(r) ==
    r # NULL =>
        /\ r \in Requests
        /\ r.owner # "gone" => route # NULL
        /\ r.kind = "load" => r.owner = "screen" /\ (r.answer \in TERMINAL_STATUSES => status[r.id] = r.answer)
        /\ r.kind = "decide" =>
             /\ r.previous \in Shown /\ r.previous.status = AGUARDANDO
             /\ r.to \in TERMINAL_STATUSES
             /\ r.answer = "ok" => status[r.id] = r.to

ScreenThere == shown # NULL \/ error => route # NULL

Submitting == \A s \in Slots : Deciding(s) => dialog.submitting

\* A decision on the screen is the server's, or that of a request that is awaited.
Explained ==
    shown # NULL /\ shown.id = route /\ shown.status \in TERMINAL_STATUSES =>
        \/ status[route] = shown.status
        \/ \E s \in Slots : /\ InFlight(s, "decide") /\ requests[s].owner # "gone"
                            /\ requests[s].id = route /\ requests[s].to = shown.status

RequestsSound == \A s \in Slots : SoundRequest(requests[s])

ReviewInvariant == ScreenTypes /\ RequestsSound /\ ScreenThere /\ Submitting /\ OneDecisionInFlight /\ Explained

-------------------------------------------------------------------------------
(* Facts the steps share. *)

LEMMA StatusFacts ==
  /\ AGUARDANDO \in InterviewStatuses \ TERMINAL_STATUSES /\ TERMINAL_STATUSES \subseteq InterviewStatuses
  /\ {"ok", "error"} \cap InterviewStatuses = {} /\ "ok" # "error"
  /\ NULL \notin InterviewStatuses \cup {"ok", "error"}
  /\ \A x \in InterviewStatuses :
        VALID_TRANSITIONS[x] \subseteq InterviewStatuses /\ (x \in TERMINAL_STATUSES => VALID_TRANSITIONS[x] = {})
BY ReviewAssumption DEF InterviewStatuses, TERMINAL_STATUSES, VALID_TRANSITIONS, AGUARDANDO, APROVADA, REJEITADA,
   RECEBIDA, TRANSCREVENDO, DIARIZANDO, PONTUANDO, FALHOU

LEMMA LoadIsSound ==
  ASSUME NEW i \in Ids, route # NULL
  PROVE  LoadOf(i) \in Requests /\ LoadOf(i) # NULL /\ SoundRequest(LoadOf(i))
<1>1. LoadOf(i) \in Requests
  BY DEF LoadOf, Requests
<1>2. LoadOf(i) # NULL
  BY <1>1, ReviewAssumption
<1>3. NULL \notin TERMINAL_STATUSES
  BY StatusFacts
<1> QED BY <1>1, <1>2, <1>3 DEF LoadOf, SoundRequest

\* A request keeps what it is relied on for while the screen stays and the statuses
\* that are settled do.
LEMMA SoundnessLasts ==
  ASSUME NEW r, SoundRequest(r), route # NULL => route' # NULL,
         \A i \in Ids : status[i] \in TERMINAL_STATUSES => status'[i] = status[i]
  PROVE  SoundRequest(r)'
<1> SUFFICES ASSUME r # NULL, r \in Requests
             PROVE  SoundRequest(r)'
  BY DEF SoundRequest
<1>1. r.id \in Ids
  BY DEF Requests
<1> QED BY <1>1 DEF SoundRequest

\* One request takes another's place, or an empty one.
LEMMA OneSlotSound ==
  ASSUME RequestsSound, NEW s \in Slots, NEW r, requests \in [Slots -> Requests \cup {NULL}],
         requests' = [requests EXCEPT ![s] = r], SoundRequest(r)', route # NULL => route' # NULL,
         \A i \in Ids : status[i] \in TERMINAL_STATUSES => status'[i] = status[i]
  PROVE  RequestsSound' /\ requests' \in [Slots -> Requests \cup {NULL}]
<1>1. r \in Requests \cup {NULL}
  BY DEF SoundRequest
<1>2. \A q \in Slots : requests'[q] = IF q = s THEN r ELSE requests[q]
  OBVIOUS
<1>3. ASSUME NEW q \in Slots PROVE SoundRequest(requests[q])'
  <2>1. CASE q = s
    BY <1>2, <2>1 DEF SoundRequest
  <2>2. CASE q # s
    <3>1. SoundRequest(requests[q]) /\ requests'[q] = requests[q]
      BY <1>2, <2>2 DEF RequestsSound
    <3>2. ASSUME NEW w, w = requests[q] PROVE SoundRequest(w)'
      BY <3>1, <3>2, SoundnessLasts DEF SoundRequest
    <3> QED BY <3>1, <3>2 DEF SoundRequest
  <2> QED BY <2>1, <2>2
<1> QED BY <1>1, <1>2, <1>3 DEF RequestsSound

-------------------------------------------------------------------------------
(* The server. *)

LEMMA ReviewStarts == Init => ReviewInvariant
<1> SUFFICES ASSUME Init PROVE ReviewInvariant
  OBVIOUS
<1>1. \A s \in Slots : requests[s] = NULL
  BY DEF Init
<1>2. NoDialog \in Dialogs
  BY DEF NoDialog, Dialogs
<1>3. {error, notice} \subseteq BOOLEAN
  BY Zenon DEF Init
<1>4. faults \in 0 .. MaxFaults
  BY ReviewAssumption DEF Init
<1>5. ScreenTypes
  BY <1>2, <1>3, <1>4 DEF Init, ScreenTypes
<1> QED
  BY <1>1, <1>5 DEF Init, ReviewInvariant, RequestsSound, SoundRequest, ScreenThere, Submitting, OneDecisionInFlight,
     Deciding, InFlight, Explained

\* Nothing unsettles a decision.
LEMMA SettledStays ==
  ASSUME ScreenTypes, NEW i \in Ids, NEW to \in InterviewStatuses,
         status' = [status EXCEPT ![i] = to], status[i] \notin TERMINAL_STATUSES
  PROVE  /\ status' \in [Ids -> InterviewStatuses]
         /\ \A j \in Ids : status[j] \in TERMINAL_STATUSES => status'[j] = status[j]
BY DEF ScreenTypes

LEMMA InterviewMoves ==
  ASSUME ReviewInvariant, NEW i \in Ids, Progress(i) \/ DecidedElsewhere(i)
  PROVE  ReviewInvariant'
<1>1. ScreenTypes /\ status[i] \in InterviewStatuses
  BY DEF ReviewInvariant, ScreenTypes
<1>2. PICK to \in InterviewStatuses : status' = [status EXCEPT ![i] = to] /\ status[i] \notin TERMINAL_STATUSES
  BY <1>1, StatusFacts DEF Progress, DecidedElsewhere
<1>3. /\ status' \in [Ids -> InterviewStatuses]
      /\ \A j \in Ids : status[j] \in TERMINAL_STATUSES => status'[j] = status[j]
  BY <1>1, <1>2, SettledStays
<1>4. UNCHANGED <<route, shown, error, notice, dialog, requests, faults>>
  BY DEF Progress, DecidedElsewhere, screen
<1>5. ScreenTypes'
  BY <1>1, <1>3, <1>4 DEF ScreenTypes
<1>6. RequestsSound'
  <2> SUFFICES ASSUME NEW s \in Slots PROVE SoundRequest(requests[s])'
    BY DEF RequestsSound
  <2>1. SoundRequest(requests[s])
    BY DEF ReviewInvariant, RequestsSound
  <2>2. ASSUME NEW w, w = requests[s] PROVE SoundRequest(w)'
    BY <1>3, <1>4, <2>1, <2>2, SoundnessLasts DEF SoundRequest
  <2> QED BY <1>4, <2>2 DEF SoundRequest
<1>7. Explained'
  BY <1>1, <1>3, <1>4 DEF ReviewInvariant, Explained, ScreenTypes, Shown, InFlight
<1>8. ScreenThere' /\ Submitting' /\ OneDecisionInFlight'
  BY <1>4 DEF ReviewInvariant, ScreenThere, Submitting, OneDecisionInFlight, Deciding, InFlight
<1> QED BY <1>5, <1>6, <1>7, <1>8 DEF ReviewInvariant

\* A request is answered: nothing else about it changes.
LEMMA AnswerKeeps ==
  ASSUME ReviewInvariant, NEW s \in Slots, requests[s] # NULL, NEW a \in InterviewStatuses \cup {"ok", "error"},
         requests' = [requests EXCEPT ![s].answer = a], UNCHANGED <<route, shown, error, notice, dialog>>,
         status' \in [Ids -> InterviewStatuses], faults' \in 0 .. MaxFaults,
         \A j \in Ids : status[j] \in TERMINAL_STATUSES => status'[j] = status[j],
         requests[s].kind = "load" /\ a \in TERMINAL_STATUSES => status'[requests[s].id] = a,
         requests[s].kind = "decide" /\ a = "ok" => status'[requests[s].id] = requests[s].to
  PROVE  ReviewInvariant'
<1>1. requests[s] \in Requests /\ requests \in [Slots -> Requests \cup {NULL}]
  BY DEF ReviewInvariant, ScreenTypes
<1> DEFINE r == [requests[s] EXCEPT !.answer = a]
<1>2. /\ r \in Requests /\ r.answer = a /\ r.kind = requests[s].kind /\ r.id = requests[s].id /\ r.to = requests[s].to
      /\ r.owner = requests[s].owner /\ r.previous = requests[s].previous
  BY <1>1 DEF Requests
<1>3. r # NULL
  BY <1>2, ReviewAssumption
<1> HIDE DEF r
<1>4. requests' = [requests EXCEPT ![s] = r]
  BY DEF r
<1>5. SoundRequest(requests[s])
  BY DEF ReviewInvariant, RequestsSound
<1>6. ASSUME NEW w, w = r PROVE SoundRequest(w)'
  BY <1>2, <1>3, <1>5, <1>6 DEF SoundRequest
<1>7. RequestsSound' /\ requests' \in [Slots -> Requests \cup {NULL}]
  BY <1>1, <1>4, <1>6, OneSlotSound DEF ReviewInvariant
<1>8. ScreenTypes'
  BY <1>7 DEF ReviewInvariant, ScreenTypes
<1>9. \A q \in Slots : /\ requests'[q] = IF q = s THEN r ELSE requests[q]
                       /\ \A kind : InFlight(q, kind)' <=> InFlight(q, kind)
                       /\ requests[q] # NULL => requests'[q].owner = requests[q].owner /\ requests'[q].id = requests[q].id
                                               /\ requests'[q].to = requests[q].to
  BY <1>1, <1>2, <1>3, <1>4 DEF InFlight
<1>10. ScreenThere' /\ Submitting' /\ OneDecisionInFlight'
  BY <1>9 DEF ReviewInvariant, ScreenThere, Submitting, OneDecisionInFlight, Deciding, InFlight
<1>11. Explained'
  BY <1>9 DEF ReviewInvariant, ScreenTypes, Shown, Explained, InFlight
<1> QED BY <1>7, <1>8, <1>10, <1>11 DEF ReviewInvariant

LEMMA ServerKeeps ==
  ASSUME ReviewInvariant, NEW s \in Slots, ServerReads(s) \/ ServerDecides(s) \/ ServerReprocesses(s) \/ RequestFails(s)
  PROVE  ReviewInvariant'
<1>1. /\ requests[s] # NULL /\ requests[s] \in Requests /\ requests[s].id \in Ids
      /\ SoundRequest(requests[s]) /\ ScreenTypes /\ status[requests[s].id] \in InterviewStatuses
  BY DEF ServerReads, ServerDecides, ServerReprocesses, RequestFails, InFlight, ReviewInvariant, ScreenTypes, Requests,
     RequestsSound
<1>2. faults \in 0 .. MaxFaults /\ status \in [Ids -> InterviewStatuses]
  BY DEF ReviewInvariant, ScreenTypes
<1>3. CASE ServerReads(s)
  BY <1>1, <1>2, <1>3, AnswerKeeps DEF ServerReads, InFlight, screen
<1>4. CASE ServerDecides(s)
  <2>1. requests[s].kind = "decide" /\ requests[s].to \in TERMINAL_STATUSES
    BY <1>1, <1>4 DEF ServerDecides, InFlight, SoundRequest
  <2>2. CASE status[requests[s].id] = AGUARDANDO
    <3>1. /\ requests[s].to \in InterviewStatuses /\ status[requests[s].id] \notin TERMINAL_STATUSES
          /\ status' = [status EXCEPT ![requests[s].id] = requests[s].to]
      BY <1>4, <2>1, <2>2, StatusFacts DEF ServerDecides
    <3>2. /\ status' \in [Ids -> InterviewStatuses] /\ status'[requests[s].id] = requests[s].to
          /\ \A j \in Ids : status[j] \in TERMINAL_STATUSES => status'[j] = status[j]
      BY <1>1, <1>2, <3>1, SettledStays
    <3> QED BY <1>1, <1>2, <1>4, <2>1, <2>2, <3>2, AnswerKeeps DEF ServerDecides, screen
  <2>3. CASE status[requests[s].id] # AGUARDANDO
    BY <1>1, <1>2, <1>4, <2>1, <2>3, StatusFacts, AnswerKeeps DEF ServerDecides, screen
  <2> QED BY <2>2, <2>3
<1>5. CASE ServerReprocesses(s)
  <2>1. requests[s].kind = "reprocess"
    BY <1>5 DEF ServerReprocesses, InFlight
  <2>2. CASE status[requests[s].id] = FALHOU
    BY <1>1, <1>2, <1>5, <2>1, <2>2, AnswerKeeps DEF ServerReprocesses, screen
  <2>3. CASE status[requests[s].id] # FALHOU
    BY <1>1, <1>2, <1>5, <2>1, <2>3, AnswerKeeps DEF ServerReprocesses, screen
  <2> QED BY <2>2, <2>3
<1>6. CASE RequestFails(s)
  <2>1. faults' \in 0 .. MaxFaults
    BY <1>2, <1>6, ReviewAssumption DEF RequestFails
  <2> QED BY <1>1, <1>2, <1>6, <2>1, StatusFacts, AnswerKeeps DEF RequestFails, screen
<1> QED BY <1>3, <1>4, <1>5, <1>6

-------------------------------------------------------------------------------
(* The screen. *)

\* A load or a reprocessing leaves: no decision starts or ends.
LEMMA SendKeeps ==
  ASSUME ReviewInvariant, NEW s \in Slots, NEW r \in Requests, requests[s] = NULL,
         requests' = [requests EXCEPT ![s] = r], UNCHANGED <<status, shown, error, notice, dialog, faults>>,
         r.kind # "decide", SoundRequest(r)', route' \in Ids, shown # NULL => route' = route
  PROVE  ReviewInvariant'
<1>1. route' # NULL /\ r # NULL
  BY ReviewAssumption
<1>2. RequestsSound' /\ requests' \in [Slots -> Requests \cup {NULL}]
  BY <1>1, OneSlotSound DEF ReviewInvariant, ScreenTypes
<1>3. ScreenTypes'
  BY <1>2 DEF ReviewInvariant, ScreenTypes
<1>4. \A q \in Slots : /\ requests'[q] = IF q = s THEN r ELSE requests[q]
                       /\ InFlight(q, "decide")' <=> InFlight(q, "decide")
                       /\ InFlight(q, "decide") => requests'[q] = requests[q]
  BY DEF InFlight, ReviewInvariant, ScreenTypes
<1>5. Submitting' /\ OneDecisionInFlight'
  BY <1>4 DEF ReviewInvariant, Submitting, OneDecisionInFlight, Deciding
<1>6. Explained'
  BY <1>4 DEF ReviewInvariant, Explained
<1> QED BY <1>1, <1>2, <1>3, <1>5, <1>6 DEF ReviewInvariant, ScreenThere

LEMMA ScreenSends ==
  ASSUME ReviewInvariant, NEW s \in Slots,
         (\E i \in Ids : Open(i, s)) \/ Poll(s) \/ Retry(s) \/ Reprocess(s)
  PROVE  ReviewInvariant'
<1>1. CASE \E i \in Ids : Open(i, s)
  <2>1. PICK i \in Ids : Open(i, s)
    BY <1>1
  <2>2. shown = NULL /\ ~error /\ i # NULL
    BY <2>1, ReviewAssumption DEF Open, ReviewInvariant, ScreenThere
  <2>3. LoadOf(i) \in Requests
    BY DEF LoadOf, Requests
  <2>4. SoundRequest(LoadOf(i))'
    BY <2>1, <2>2, <2>3, StatusFacts DEF Open, SoundRequest, LoadOf
  <2> QED BY <2>1, <2>2, <2>3, <2>4, SendKeeps DEF Open, Send, LoadOf
<1>2. CASE Poll(s) \/ Retry(s) \/ Reprocess(s)
  <2>1. route # NULL /\ route \in Ids
    BY <1>2 DEF Poll, Retry, Reprocess, ReviewInvariant, ScreenThere, ScreenTypes
  <2>2. LoadOf(route) \in Requests /\ SoundRequest(LoadOf(route))
    BY <2>1, LoadIsSound
  <2>3. CASE Poll(s) \/ Retry(s)
    <3>1. SoundRequest(LoadOf(route))'
      BY <2>2, <2>3 DEF Poll, Retry, screen, SoundRequest, LoadOf
    <3> QED BY <2>1, <2>2, <2>3, <3>1, SendKeeps DEF Poll, Retry, screen, Send, LoadOf
  <2>4. CASE Reprocess(s)
    <3> DEFINE r == [LoadOf(route) EXCEPT !.kind = "reprocess"]
    <3>1. r \in Requests /\ r.kind = "reprocess"
      BY <2>1 DEF LoadOf, Requests
    <3>2. ASSUME NEW w, w = r PROVE SoundRequest(w)'
      BY <2>1, <2>4, <3>1, <3>2 DEF Reprocess, screen, SoundRequest, LoadOf, Requests
    <3>3. requests[s] = NULL /\ requests' = [requests EXCEPT ![s] = r]
      BY <2>4 DEF Reprocess, Send
    <3> HIDE DEF r
    <3> QED BY <2>1, <2>4, <3>1, <3>2, <3>3, SendKeeps DEF Reprocess, screen
  <2> QED BY <1>2, <2>3, <2>4
<1> QED BY <1>1, <1>2

\* The decisions of a screen that went to another interview are no longer those of
\* its dialog; a screen that is left awaits nothing.
LEMMA GoToKeeps ==
  ASSUME ReviewInvariant, NEW i \in Ids, NEW s \in Slots, GoTo(i, s)
  PROVE  ReviewInvariant'
<1>1. route # NULL /\ route' = i /\ i # NULL /\ shown' = NULL /\ error' = FALSE /\ UNCHANGED <<status, faults, notice>>
  BY ReviewAssumption DEF GoTo
<1>2. \A q \in Slots : requests'[q] = IF q = s THEN LoadOf(i) ELSE DialogClosed(requests[q])
  BY DEF GoTo
<1>3. ASSUME NEW q \in Slots
      PROVE  requests'[q] \in Requests \cup {NULL} /\ SoundRequest(requests[q])' /\ ~Deciding(q)'
  <2>1. CASE q = s
    <3>1. LoadOf(i) \in Requests /\ SoundRequest(LoadOf(i))
      BY <1>1, LoadIsSound
    <3> QED BY <1>1, <1>2, <2>1, <3>1 DEF SoundRequest, Deciding, InFlight, LoadOf
  <2>2. CASE q # s
    <3>1. requests[q] \in Requests \cup {NULL} /\ SoundRequest(requests[q])
      BY DEF ReviewInvariant, ScreenTypes, RequestsSound
    <3>2. CASE requests[q] = NULL
      BY <1>2, <2>2, <3>2 DEF DialogClosed, SoundRequest, Deciding, InFlight
    <3>3. CASE requests[q] # NULL /\ requests[q].owner # "dialog"
      BY <1>1, <1>2, <2>2, <3>1, <3>3 DEF DialogClosed, SoundRequest, Deciding, InFlight
    <3>4. CASE requests[q] # NULL /\ requests[q].owner = "dialog"
      <4>1. requests'[q] = [requests[q] EXCEPT !.owner = "screen"]
        BY <1>2, <2>2, <3>4 DEF DialogClosed
      <4>2. /\ requests'[q] \in Requests /\ requests'[q].owner = "screen" /\ requests'[q].kind = requests[q].kind
            /\ requests'[q].id = requests[q].id /\ requests'[q].to = requests[q].to
            /\ requests'[q].previous = requests[q].previous /\ requests'[q].answer = requests[q].answer
        BY <3>1, <3>4, <4>1 DEF Requests
      <4> QED BY <1>1, <3>1, <3>4, <4>2 DEF SoundRequest, Deciding, InFlight
    <3> QED BY <3>2, <3>3, <3>4
  <2> QED BY <2>1, <2>2
<1>4. requests' \in [Slots -> Requests \cup {NULL}]
  BY <1>3 DEF GoTo
<1>5. ScreenTypes'
  <2>1. {error', notice'} \subseteq BOOLEAN
    BY <1>1 DEF ReviewInvariant, ScreenTypes
  <2>2. dialog' \in Dialogs
    BY DEF GoTo, NoDialog, Dialogs
  <2> QED BY <1>1, <1>4, <2>1, <2>2 DEF ReviewInvariant, ScreenTypes
<1> QED
  BY <1>1, <1>3, <1>5 DEF ReviewInvariant, RequestsSound, ScreenThere, Submitting, OneDecisionInFlight, Explained

LEMMA LeaveKeeps ==
  ASSUME ReviewInvariant, Leave
  PROVE  ReviewInvariant'
<1>1. route # NULL /\ route' = NULL /\ shown' = NULL /\ error' = FALSE /\ UNCHANGED <<status, faults>>
  BY DEF Leave
<1>2. \A q \in Slots : requests'[q] = ScreenClosed(requests[q])
  BY DEF Leave
<1>3. ASSUME NEW q \in Slots
      PROVE  requests'[q] \in Requests \cup {NULL} /\ SoundRequest(requests[q])' /\ ~Deciding(q)'
  <2>1. requests[q] \in Requests \cup {NULL} /\ SoundRequest(requests[q])
    BY DEF ReviewInvariant, ScreenTypes, RequestsSound
  <2>2. CASE requests[q] = NULL \/ requests[q].kind = "load"
    BY <1>2, <2>2 DEF ScreenClosed, SoundRequest, Deciding, InFlight
  <2>3. CASE requests[q] # NULL /\ requests[q].kind # "load"
    <3>1. requests'[q] = [requests[q] EXCEPT !.owner = "gone"]
      BY <1>2, <2>3 DEF ScreenClosed
    <3>2. /\ requests'[q] \in Requests /\ requests'[q].owner = "gone" /\ requests'[q].kind = requests[q].kind
          /\ requests'[q].id = requests[q].id /\ requests'[q].to = requests[q].to
          /\ requests'[q].previous = requests[q].previous /\ requests'[q].answer = requests[q].answer
      BY <2>1, <2>3, <3>1 DEF Requests
    <3> QED BY <1>1, <2>1, <2>3, <3>2 DEF SoundRequest, Deciding, InFlight
  <2> QED BY <2>2, <2>3
<1>4. requests' \in [Slots -> Requests \cup {NULL}]
  BY <1>3 DEF Leave
<1>5. ScreenTypes'
  <2>1. {error', notice'} \subseteq BOOLEAN
    BY Zenon DEF Leave
  <2>2. dialog' \in Dialogs
    BY DEF Leave, NoDialog, Dialogs
  <2> QED BY <1>1, <1>4, <2>1, <2>2 DEF ReviewInvariant, ScreenTypes
<1> QED
  BY <1>1, <1>3, <1>5 DEF ReviewInvariant, RequestsSound, ScreenThere, Submitting, OneDecisionInFlight, Explained

\* A load is answered.
LEMMA LoadKeeps ==
  ASSUME ReviewInvariant, NEW s \in Slots, LoadArrives(s) \/ LoadFails(s)
  PROVE  ReviewInvariant'
<1>1. /\ requests[s] \in Requests /\ requests[s].kind = "load" /\ SoundRequest(requests[s])
      /\ requests[s] # NULL /\ requests[s].id \in Ids /\ route # NULL
  BY DEF LoadArrives, LoadFails, InFlight, ReviewInvariant, ScreenTypes, RequestsSound, SoundRequest, Requests
<1>2. requests' = [requests EXCEPT ![s] = NULL] /\ UNCHANGED <<status, route, notice, dialog, faults>>
  BY DEF LoadArrives, LoadFails
<1>3. RequestsSound' /\ requests' \in [Slots -> Requests \cup {NULL}]
  <2>1. SoundRequest(NULL)'
    BY DEF SoundRequest
  <2> QED BY <1>2, <2>1, OneSlotSound DEF ReviewInvariant, ScreenTypes
<1>4. \A q \in Slots : /\ InFlight(q, "decide")' <=> InFlight(q, "decide")
                       /\ InFlight(q, "decide") => requests'[q] = requests[q]
  BY <1>1, <1>2 DEF InFlight, ReviewInvariant, ScreenTypes
<1>5. Submitting' /\ OneDecisionInFlight'
  BY <1>2, <1>4 DEF ReviewInvariant, Submitting, OneDecisionInFlight, Deciding
<1>6. ScreenThere'
  BY <1>1, <1>2 DEF ScreenThere
<1>7. CASE LoadArrives(s)
  <2>1. shown' = [id |-> requests[s].id, status |-> requests[s].answer] /\ error' = FALSE
        /\ requests[s].answer \in InterviewStatuses
    BY <1>7 DEF LoadArrives, Arrived
  <2>2. ScreenTypes'
    <3>1. {error', notice'} \subseteq BOOLEAN
      BY <1>2, <2>1 DEF ReviewInvariant, ScreenTypes
    <3> QED BY <1>1, <1>2, <1>3, <2>1, <3>1 DEF ReviewInvariant, ScreenTypes, Shown
  <2>3. Explained'
    BY <1>1, <1>2, <2>1 DEF Explained, SoundRequest
  <2> QED BY <1>3, <1>5, <1>6, <2>2, <2>3 DEF ReviewInvariant
<1>8. CASE LoadFails(s)
  <2>1. error' = TRUE /\ UNCHANGED shown
    BY <1>8 DEF LoadFails
  <2>2. ScreenTypes'
    <3>1. {error', notice'} \subseteq BOOLEAN
      BY <1>2, <2>1 DEF ReviewInvariant, ScreenTypes
    <3> QED BY <1>2, <1>3, <2>1, <3>1 DEF ReviewInvariant, ScreenTypes
  <2>3. Explained'
    BY <1>2, <1>4, <2>1 DEF ReviewInvariant, Explained
  <2> QED BY <1>3, <1>5, <1>6, <2>2, <2>3 DEF ReviewInvariant
<1> QED BY <1>7, <1>8

LEMMA DialogKeeps ==
  ASSUME ReviewInvariant, (\E to \in TERMINAL_STATUSES : Choose(to)) \/ Cancel
  PROVE  ReviewInvariant'
<1>1. UNCHANGED <<status, route, shown, error, notice, requests, faults>>
  BY DEF Choose, Cancel
<1>2. dialog' \in Dialogs /\ dialog'.submitting = dialog.submitting
  BY DEF Choose, Cancel, ReviewInvariant, ScreenTypes, Dialogs
<1>3. ScreenTypes'
  BY <1>1, <1>2 DEF ReviewInvariant, ScreenTypes
<1> QED
  BY <1>1, <1>2, <1>3 DEF ReviewInvariant, RequestsSound, SoundRequest, ScreenThere, Submitting, OneDecisionInFlight,
     Deciding, InFlight, Explained

\* A decision is confirmed only when none is under way in this dialog.
LEMMA ConfirmKeeps ==
  ASSUME ReviewInvariant, NEW s \in Slots, Confirm(s)
  PROVE  ReviewInvariant'
<1> DEFINE r == [LoadOf(route) EXCEPT !.kind = "decide", !.to = dialog.pending,
                                      !.previous = shown, !.owner = "dialog"]
<1>1. /\ requests[s] = NULL /\ requests' = [requests EXCEPT ![s] = r]
      /\ dialog' = [dialog EXCEPT !.submitting = TRUE] /\ notice' = FALSE
      /\ shown' = [shown EXCEPT !.status = dialog.pending]
      /\ UNCHANGED <<status, route, error, faults>>
  BY DEF Confirm, Send
<1>2. /\ shown \in Shown /\ shown.status = AGUARDANDO /\ route \in Ids /\ route # NULL
      /\ dialog \in Dialogs /\ dialog.pending \in TERMINAL_STATUSES /\ ~dialog.submitting
  BY DEF Confirm, Decidable, Confirmable, ReviewInvariant, ScreenTypes, ScreenThere, Dialogs
<1>3. /\ r \in Requests /\ r.kind = "decide" /\ r.to = dialog.pending /\ r.previous = shown /\ r.owner = "dialog"
      /\ r.id = route /\ r.answer = NULL
  BY <1>2 DEF LoadOf, Requests
<1>4. r # NULL /\ NULL # "ok"
  BY <1>3, ReviewAssumption
<1> HIDE DEF r
<1>5. ASSUME NEW w, w = r PROVE SoundRequest(w)'
  BY <1>1, <1>2, <1>3, <1>4, <1>5 DEF SoundRequest
<1>6. RequestsSound' /\ requests' \in [Slots -> Requests \cup {NULL}]
  BY <1>1, <1>5, OneSlotSound DEF ReviewInvariant, ScreenTypes
<1>7. /\ shown' \in Shown /\ shown'.id = shown.id /\ shown'.status = dialog.pending /\ dialog' \in Dialogs
      /\ dialog'.submitting = TRUE
  BY <1>1, <1>2, StatusFacts DEF Shown, Dialogs
<1>8. ScreenTypes'
  <2>1. {error', notice'} \subseteq BOOLEAN
    BY <1>1 DEF ReviewInvariant, ScreenTypes
  <2> QED BY <1>1, <1>6, <1>7, <2>1 DEF ReviewInvariant, ScreenTypes
<1>9. \A q \in Slots : ~Deciding(q) /\ requests'[q] = IF q = s THEN r ELSE requests[q]
  BY <1>1, <1>2 DEF ReviewInvariant, ScreenTypes, Submitting
<1>10. Submitting' /\ OneDecisionInFlight'
  BY <1>7, <1>9 DEF Submitting, OneDecisionInFlight, Deciding, InFlight
<1>11. Explained'
  BY <1>1, <1>3, <1>4, <1>7, <1>9 DEF Explained, InFlight
<1>12. ScreenThere'
  BY <1>1, <1>2 DEF ScreenThere
<1> QED BY <1>6, <1>8, <1>10, <1>11, <1>12 DEF ReviewInvariant

\* A request that is over makes way for a load of its interview, if somebody is
\* there to see it, or for nothing.
LEMMA OverMakesWay ==
  ASSUME ReviewInvariant, NEW s \in Slots, requests[s] # NULL,
         UNCHANGED <<status, route>>,
         \/ requests' = [requests EXCEPT ![s] = NULL]
         \/ requests[s].owner # "gone" /\ requests' = [requests EXCEPT ![s] = LoadOf(requests[s].id)]
  PROVE  /\ RequestsSound' /\ requests' \in [Slots -> Requests \cup {NULL}] /\ ~InFlight(s, "decide")'
         /\ \A q \in Slots \ {s} : requests'[q] = requests[q]
<1>1. requests \in [Slots -> Requests \cup {NULL}] /\ requests[s].id \in Ids /\ SoundRequest(requests[s])
  BY DEF ReviewInvariant, ScreenTypes, Requests, RequestsSound
<1>2. CASE requests' = [requests EXCEPT ![s] = NULL]
  <2>1. SoundRequest(NULL)'
    BY DEF SoundRequest
  <2> QED BY <1>1, <1>2, <2>1, OneSlotSound DEF ReviewInvariant, InFlight
<1>3. CASE requests[s].owner # "gone" /\ requests' = [requests EXCEPT ![s] = LoadOf(requests[s].id)]
  <2>1. route # NULL
    BY <1>1, <1>3 DEF SoundRequest
  <2>2. ASSUME NEW w, w = LoadOf(requests[s].id) PROVE SoundRequest(w)'
    <3>1. w \in Requests /\ SoundRequest(w)
      BY <1>1, <2>1, <2>2, LoadIsSound
    <3> QED BY <3>1 DEF SoundRequest
  <2>3. LoadOf(requests[s].id).kind = "load"
    BY DEF LoadOf
  <2> QED BY <1>1, <1>3, <2>2, <2>3, OneSlotSound DEF ReviewInvariant, InFlight
<1> QED BY <1>2, <1>3

LEMMA DecisionKeeps ==
  ASSUME ReviewInvariant, NEW s \in Slots, DecisionAccepted(s) \/ DecisionRefused(s)
  PROVE  ReviewInvariant'
<1> DEFINE r == requests[s]
<1>1. /\ r # NULL /\ r \in Requests /\ r.kind = "decide" /\ SoundRequest(r) /\ InFlight(s, "decide")
      /\ UNCHANGED <<status, route, error, faults>>
  BY DEF DecisionAccepted, DecisionRefused, InFlight, ReviewInvariant, ScreenTypes, RequestsSound
<1>2. \/ requests' = [requests EXCEPT ![s] = NULL]
      \/ requests[s].owner # "gone" /\ requests' = [requests EXCEPT ![s] = LoadOf(requests[s].id)]
  BY DEF DecisionAccepted, DecisionRefused
<1>3. /\ RequestsSound' /\ requests' \in [Slots -> Requests \cup {NULL}] /\ ~InFlight(s, "decide")'
      /\ \A q \in Slots \ {s} : requests'[q] = requests[q]
  BY <1>1, <1>2, OverMakesWay
\* The only decision of the dialog was this one, or the dialog is not concerned.
<1>4. dialog' \in Dialogs /\ (r.owner # "dialog" => dialog' = dialog)
  <2>1. dialog \in Dialogs /\ NoDialog \in Dialogs /\ [dialog EXCEPT !.submitting = FALSE] \in Dialogs
    BY DEF ReviewInvariant, ScreenTypes, NoDialog, Dialogs
  <2>2. CASE DecisionAccepted(s)
    BY <2>1, <2>2 DEF DecisionAccepted
  <2>3. CASE DecisionRefused(s)
    BY <2>1, <2>3 DEF DecisionRefused
  <2> QED BY <2>2, <2>3
<1>5. Submitting' /\ OneDecisionInFlight'
  <2>1. \A q \in Slots : Deciding(q)' => q # s /\ Deciding(q)
    BY <1>3 DEF Deciding, InFlight
  <2>2. CASE r.owner = "dialog"
    BY <1>1, <2>1, <2>2 DEF ReviewInvariant, OneDecisionInFlight, Submitting, Deciding
  <2>3. CASE r.owner # "dialog"
    BY <1>4, <2>1, <2>3 DEF ReviewInvariant, OneDecisionInFlight, Submitting
  <2> QED BY <2>2, <2>3
<1>6. CASE UNCHANGED <<shown, notice>>
  <2>1. ScreenTypes' /\ ScreenThere'
    BY <1>1, <1>3, <1>4, <1>6 DEF ReviewInvariant, ScreenTypes, ScreenThere
  <2>2. Explained'
    <3> SUFFICES ASSUME shown # NULL, shown.id = route, shown.status \in TERMINAL_STATUSES, status[route] # shown.status
                 PROVE  (\E q \in Slots : /\ InFlight(q, "decide") /\ requests[q].owner # "gone"
                                          /\ requests[q].id = route /\ requests[q].to = shown.status)'
      BY <1>1, <1>6 DEF Explained
    <3>1. PICK q \in Slots : /\ InFlight(q, "decide") /\ requests[q].owner # "gone"
                             /\ requests[q].id = route /\ requests[q].to = shown.status
      BY DEF ReviewInvariant, Explained
    <3>2. q # s
      <4>1. CASE DecisionAccepted(s)
        BY <1>1, <3>1, <4>1 DEF DecisionAccepted, SoundRequest
      <4>2. CASE DecisionRefused(s)
        <5>1. r.owner # "gone" => shown' = r.previous /\ r.previous.status = AGUARDANDO
          BY <1>1, <4>2 DEF DecisionRefused, RolledBack, SoundRequest
        <5> QED BY <1>6, <3>1, <5>1, StatusFacts
      <4> QED BY <4>1, <4>2
    <3> QED BY <1>1, <1>3, <1>6, <3>1, <3>2 DEF InFlight
  <2> QED BY <1>3, <1>5, <2>1, <2>2 DEF ReviewInvariant
<1>7. CASE r.owner # "gone" /\ shown' = RolledBack(r) /\ notice' = TRUE
  <2>1. shown' \in Shown /\ shown'.status = AGUARDANDO /\ route # NULL
    BY <1>1, <1>7 DEF RolledBack, SoundRequest
  <2>2. ScreenTypes'
    <3>1. {error', notice'} \subseteq BOOLEAN
      BY <1>1, <1>7 DEF ReviewInvariant, ScreenTypes
    <3> QED BY <1>1, <1>3, <1>4, <2>1, <3>1 DEF ReviewInvariant, ScreenTypes
  <2>3. ScreenThere' /\ Explained'
    BY <1>1, <2>1, StatusFacts DEF ScreenThere, Explained
  <2> QED BY <1>3, <1>5, <2>2, <2>3 DEF ReviewInvariant
<1> QED BY <1>6, <1>7 DEF DecisionAccepted, DecisionRefused

LEMMA ReprocessingKeeps ==
  ASSUME ReviewInvariant, NEW s \in Slots, ReprocessAnswered(s)
  PROVE  ReviewInvariant'
<1>1. /\ requests[s] # NULL /\ requests[s].kind = "reprocess"
      /\ UNCHANGED <<status, route, shown, error, notice, dialog, faults>>
  BY DEF ReprocessAnswered, InFlight, screen
<1>2. \/ requests' = [requests EXCEPT ![s] = NULL]
      \/ requests[s].owner # "gone" /\ requests' = [requests EXCEPT ![s] = LoadOf(requests[s].id)]
  BY DEF ReprocessAnswered
<1>3. /\ RequestsSound' /\ requests' \in [Slots -> Requests \cup {NULL}] /\ ~InFlight(s, "decide")'
      /\ \A q \in Slots \ {s} : requests'[q] = requests[q]
  BY <1>1, <1>2, OverMakesWay
<1>4. \A q \in Slots : /\ InFlight(q, "decide")' <=> InFlight(q, "decide")
                       /\ InFlight(q, "decide") => requests'[q] = requests[q]
  BY <1>1, <1>3 DEF InFlight
<1>5. ScreenTypes' /\ ScreenThere' /\ Submitting' /\ OneDecisionInFlight'
  BY <1>1, <1>3, <1>4 DEF ReviewInvariant, ScreenTypes, ScreenThere, Submitting, OneDecisionInFlight, Deciding
<1>6. Explained'
  BY <1>1, <1>4 DEF ReviewInvariant, Explained
<1> QED BY <1>3, <1>5, <1>6 DEF ReviewInvariant

-------------------------------------------------------------------------------

LEMMA ReviewStep == ReviewInvariant /\ [Next]_vars => ReviewInvariant'
<1> SUFFICES ASSUME ReviewInvariant, [Next]_vars PROVE ReviewInvariant'
  OBVIOUS
<1>1. CASE \E i \in Ids, s \in Slots : Open(i, s) \/ GoTo(i, s)
  BY <1>1, ScreenSends, GoToKeeps
<1>2. CASE Leave
  BY <1>2, LeaveKeeps
<1>3. CASE \E s \in Slots : Poll(s) \/ Retry(s) \/ Reprocess(s)
  BY <1>3, ScreenSends
<1>4. CASE \E s \in Slots : Confirm(s)
  BY <1>4, ConfirmKeeps
<1>5. CASE \E s \in Slots : Answered(s) \/ RequestFails(s)
  BY <1>5, ServerKeeps, LoadKeeps, DecisionKeeps, ReprocessingKeeps DEF Answered
<1>6. CASE (\E to \in TERMINAL_STATUSES : Choose(to)) \/ Cancel
  BY <1>6, DialogKeeps
<1>7. CASE \E i \in Ids : Progress(i) \/ DecidedElsewhere(i)
  BY <1>7, InterviewMoves
<1>8. CASE UNCHANGED vars
  <2>1. UNCHANGED <<status, route, shown, error, notice, dialog, requests, faults>>
    BY <1>8 DEF vars, screen
  <2>2. ScreenTypes'
    BY <2>1 DEF ReviewInvariant, ScreenTypes
  <2>3. RequestsSound'
    BY <2>1 DEF ReviewInvariant, RequestsSound, SoundRequest
  <2>4. ScreenThere' /\ Submitting' /\ OneDecisionInFlight'
    BY <2>1 DEF ReviewInvariant, ScreenThere, Submitting, OneDecisionInFlight, Deciding, InFlight
  <2>5. Explained'
    BY <2>1 DEF ReviewInvariant, Explained, InFlight
  <2> QED BY <2>2, <2>3, <2>4, <2>5 DEF ReviewInvariant
<1> QED BY <1>1, <1>2, <1>3, <1>4, <1>5, <1>6, <1>7, <1>8 DEF Next

LEMMA ReviewHolds == Spec => []ReviewInvariant
BY ReviewStarts, ReviewStep, PTL DEF Spec

THEOREM ReviewTypeCorrect == Spec => []TypeOK
<1> DEFINE BusyOK == busy \in Slots \cup {NULL}
<1>1. Init => BusyOK
  BY DEF Init
<1>2. BusyOK /\ [Next]_vars => BusyOK'
  <2> SUFFICES ASSUME BusyOK, [Next]_vars PROVE BusyOK'
    OBVIOUS
  <2>1. CASE \E s \in Slots : Reprocess(s)
    BY <2>1 DEF Reprocess
  <2>2. CASE UNCHANGED vars
    BY <2>2 DEF vars, screen
  <2>3. CASE busy' \in {busy, NULL}
    BY <2>3
  <2>4. (\E s \in Slots : Answered(s)) => busy' \in {busy, NULL}
    BY DEF Answered, ServerReads, ServerDecides, ServerReprocesses, LoadArrives, LoadFails, DecisionAccepted,
       DecisionRefused, ReprocessAnswered, BusyAt, screen
  <2>5. Leave \/ Cancel \/ (\E i \in Ids, s \in Slots : Open(i, s) \/ GoTo(i, s)) => busy' \in {busy, NULL}
    BY DEF Leave, Cancel, Open, GoTo
  <2>6. (\E s \in Slots : Poll(s) \/ Retry(s) \/ Confirm(s) \/ RequestFails(s)) => busy' \in {busy, NULL}
    BY DEF Poll, Retry, Confirm, RequestFails, screen
  <2>7. (\E to \in TERMINAL_STATUSES : Choose(to)) => busy' \in {busy, NULL}
    BY DEF Choose
  <2>8. (\E i \in Ids : Progress(i) \/ DecidedElsewhere(i)) => busy' \in {busy, NULL}
    BY DEF Progress, DecidedElsewhere, screen
  <2> QED BY <2>1, <2>2, <2>3, <2>4, <2>5, <2>6, <2>7, <2>8 DEF Next
<1>3. Spec => []BusyOK
  BY <1>1, <1>2, PTL DEF Spec
<1>4. ReviewInvariant /\ BusyOK => TypeOK
  BY DEF ReviewInvariant, TypeOK
<1> QED BY <1>3, <1>4, ReviewHolds, PTL

\* A dialog has one decision on its way at most, however late the answers come
\* (InterviewDetailView.tsx:82-115, DecisionActions.tsx:31-63).
THEOREM DecisionsDoNotCross == Spec => []OneDecisionInFlight
BY ReviewHolds, PTL DEF ReviewInvariant

\* The screen claims no decision of the interview in the address bar that the server
\* does not have, once nothing it awaits is under way.
THEOREM OptimismEnds == Spec => []NoPhantomDecision
<1>1. ReviewInvariant => NoPhantomDecision
  BY DEF ReviewInvariant, Explained, NoPhantomDecision
<1> QED BY <1>1, ReviewHolds, PTL
===============================================================================
