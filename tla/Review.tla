-------------------------------- MODULE Review --------------------------------
(***************************************************************************)
(* The review screen of one browser tab (InterviewDetailView.tsx,          *)
(* DecisionActions.tsx), the requests it has in flight and the server that *)
(* answers them.  A request is read or carried out by the server in one    *)
(* step and answered in a later one, so answers arrive in any order; the   *)
(* continuation of an answer uses the id and the interview of the render   *)
(* that sent the request.  Going from one interview to another keeps the   *)
(* component (App.tsx gives it no key); leaving the screen unmounts it.    *)
(***************************************************************************)
EXTENDS InterviewStatus, Naturals

CONSTANTS
    Ids,         \* interview ids
    Slots,       \* bound: requests in flight at once
    MaxFaults,   \* bound: requests that fail on the way
    NULL

VARIABLES
    status,      \* the server's rows, [Ids -> InterviewStatuses]
    route,       \* the interview in the address bar, NULL on another screen
    shown,       \* `interview`: what the screen shows, NULL before the first answer
    error,       \* the last load failed
    notice,      \* rollbackNotice is shown
    dialog,      \* the state of DecisionActions
    busy,        \* that of FailurePanel: the slot of the reprocessing it awaits, or NULL
    requests,    \* [Slots -> Requests \cup {NULL}]
    faults

screen == <<route, shown, error, notice, dialog, busy>>
vars   == <<status, screen, requests, faults>>

-------------------------------------------------------------------------------

Shown    == [id : Ids, status : InterviewStatuses]
Dialogs  == [pending : TERMINAL_STATUSES \cup {NULL}, submitting : BOOLEAN]
NoDialog == [pending |-> NULL, submitting |-> FALSE]

\* owner: whether the dialog, or at least the screen, that sent the request is
\* still mounted when the answer comes.
Requests == [kind     : {"load", "decide", "reprocess"},
             id       : Ids,
             to       : TERMINAL_STATUSES \cup {NULL},
             previous : Shown \cup {NULL},
             owner    : {"dialog", "screen", "gone"},
             answer   : InterviewStatuses \cup {NULL, "ok", "error"}]

ASSUME ReviewAssumption ==
    MaxFaults \in Nat /\ NULL \notin Ids \cup InterviewStatuses \cup {"ok", "error"} \cup Shown \cup Requests

LoadOf(i) == [kind |-> "load", id |-> i, to |-> NULL, previous |-> NULL,
              owner |-> "screen", answer |-> NULL]

\* statusMeta(s).category = "processing"
Processing(s) == s \in {RECEBIDA, TRANSCREVENDO, DIARIZANDO, PONTUANDO}

ConfirmableTwice == dialog.pending # NULL   \* mutant

\* The confirmation button is there and enabled.
Confirmable == dialog.pending # NULL /\ ~dialog.submitting

\* getInterview resolved rather than threw.
Arrived(r) == r.answer \in InterviewStatuses

KeptOptimistic(r) == shown   \* mutant

\* What a failed decision puts back on the screen.
RolledBack(r) == r.previous

InFlight(s, kind) == requests[s] # NULL /\ requests[s].kind = kind

Decidable == shown # NULL /\ shown.status = AGUARDANDO

Send(s, r) == requests[s] = NULL /\ requests' = [requests EXCEPT ![s] = r]

\* DecisionActions gave way to the skeleton and forgot what it was doing.
DialogClosed(r) == IF r # NULL /\ r.owner = "dialog" THEN [r EXCEPT !.owner = "screen"] ELSE r

\* The panel is there while a failed interview is shown.
BusyAt(s) == IF s = FALHOU THEN busy ELSE NULL

\* The screen is gone: answers to its loads have no effect any more.
ScreenClosed(r) == IF r = NULL \/ r.kind = "load" THEN NULL ELSE [r EXCEPT !.owner = "gone"]

-------------------------------------------------------------------------------
\* Navigation

Init ==
    /\ status \in [Ids -> InterviewStatuses]
    /\ route = NULL /\ shown = NULL
    /\ error = FALSE /\ notice = FALSE
    /\ dialog = NoDialog /\ busy = NULL
    /\ requests = [s \in Slots |-> NULL]
    /\ faults = 0

Open(i, s) ==
    /\ route = NULL
    /\ Send(s, LoadOf(i))
    /\ route' = i
    /\ UNCHANGED <<status, shown, error, notice, dialog, busy, faults>>

\* From one interview straight to another: the effect clears the interview and
\* loads the new one, the rollback notice stays.
GoTo(i, s) ==
    /\ route \notin {NULL, i}
    /\ requests[s] = NULL
    /\ requests' = [[r \in Slots |-> DialogClosed(requests[r])] EXCEPT ![s] = LoadOf(i)]
    /\ route' = i
    /\ shown' = NULL
    /\ error' = FALSE
    /\ dialog' = NoDialog /\ busy' = NULL
    /\ UNCHANGED <<status, notice, faults>>

Leave ==
    /\ route # NULL
    /\ requests' = [r \in Slots |-> ScreenClosed(requests[r])]
    /\ route' = NULL /\ shown' = NULL
    /\ error' = FALSE /\ notice' = FALSE
    /\ dialog' = NoDialog /\ busy' = NULL
    /\ UNCHANGED <<status, faults>>

-------------------------------------------------------------------------------
\* Loading

\* usePolling, while what is shown is being processed, whenever its timer fires
\* (Polling).
Poll(s) ==
    /\ shown # NULL /\ Processing(shown.status)
    /\ Send(s, LoadOf(route))
    /\ UNCHANGED <<status, screen, faults>>

\* The button of ErrorState.
Retry(s) ==
    /\ shown = NULL /\ error
    /\ Send(s, LoadOf(route))
    /\ UNCHANGED <<status, screen, faults>>

LoadArrives(s) ==
    /\ InFlight(s, "load") /\ Arrived(requests[s])
    /\ shown' = [id |-> requests[s].id, status |-> requests[s].answer]
    /\ error' = FALSE
    /\ busy' = BusyAt(shown'.status)
    /\ requests' = [requests EXCEPT ![s] = NULL]
    /\ UNCHANGED <<status, route, notice, dialog, faults>>

LoadFails(s) ==
    /\ InFlight(s, "load") /\ requests[s].answer = "error"
    /\ error' = TRUE
    /\ requests' = [requests EXCEPT ![s] = NULL]
    /\ UNCHANGED <<status, route, shown, notice, dialog, busy, faults>>

-------------------------------------------------------------------------------
\* Deciding

Choose(to) ==
    /\ Decidable
    /\ dialog.pending = NULL
    /\ dialog' = [dialog EXCEPT !.pending = to]
    /\ UNCHANGED <<status, route, shown, error, notice, busy, requests, faults>>

Cancel ==
    /\ Decidable
    /\ Confirmable
    /\ dialog' = [dialog EXCEPT !.pending = NULL]
    /\ UNCHANGED <<status, route, shown, error, notice, busy, requests, faults>>

\* confirm, which calls handleDecide: the status flips at once, and the decision
\* goes to the interview in the address bar.
Confirm(s) ==
    /\ Decidable
    /\ Confirmable
    /\ Send(s, [LoadOf(route) EXCEPT !.kind = "decide", !.to = dialog.pending,
                                     !.previous = shown, !.owner = "dialog"])
    /\ dialog' = [dialog EXCEPT !.submitting = TRUE]
    /\ notice' = FALSE
    /\ shown' = [shown EXCEPT !.status = dialog.pending]
    /\ UNCHANGED <<status, route, error, busy, faults>>

\* await source.decide resolves: the interview is loaded again and the dialog
\* closes, if they are still there.
DecisionAccepted(s) ==
    LET r == requests[s] IN
    /\ InFlight(s, "decide") /\ r.answer = "ok"
    /\ requests' = [requests EXCEPT ![s] = IF r.owner = "gone" THEN NULL ELSE LoadOf(r.id)]
    /\ dialog' = IF r.owner = "dialog" THEN NoDialog ELSE dialog
    /\ UNCHANGED <<status, route, shown, error, notice, busy, faults>>

\* ... or throws: the screen goes back to what it showed and says so, and the
\* dialog stays open with the reason.
DecisionRefused(s) ==
    LET r == requests[s] IN
    /\ InFlight(s, "decide") /\ r.answer = "error"
    /\ IF r.owner = "gone"
       THEN /\ requests' = [requests EXCEPT ![s] = NULL]
            /\ UNCHANGED <<shown, notice, busy>>
       ELSE /\ requests' = [requests EXCEPT ![s] = LoadOf(r.id)]
            /\ shown' = RolledBack(r)
            /\ notice' = TRUE
            /\ busy' = BusyAt(shown'.status)
    /\ dialog' = IF r.owner = "dialog" THEN [dialog EXCEPT !.submitting = FALSE] ELSE dialog
    /\ UNCHANGED <<status, route, error, faults>>

\* The button of FailurePanel, one call of a panel at a time.
Reprocess(s) ==
    /\ shown # NULL /\ shown.status = FALHOU
    /\ busy = NULL /\ busy' = s
    /\ Send(s, [LoadOf(route) EXCEPT !.kind = "reprocess"])
    /\ UNCHANGED <<status, route, shown, error, notice, dialog, faults>>

\* handleReprocess loads again after a success; FailurePanel shows a failure.
ReprocessAnswered(s) ==
    LET r == requests[s] IN
    /\ InFlight(s, "reprocess") /\ r.answer # NULL
    /\ requests' = [requests EXCEPT
           ![s] = IF r.owner # "gone" /\ r.answer = "ok" THEN LoadOf(r.id) ELSE NULL]
    /\ busy' = IF busy = s THEN NULL ELSE busy
    /\ UNCHANGED <<status, route, shown, error, notice, dialog, faults>>

-------------------------------------------------------------------------------
\* The server

\* A worker, or a reprocessing, moves the interview.
Progress(i) ==
    /\ \E to \in VALID_TRANSITIONS[status[i]] \ TERMINAL_STATUSES :
          status' = [status EXCEPT ![i] = to]
    /\ UNCHANGED <<screen, requests, faults>>

\* Another reviewer, or someone with a decision link.
DecidedElsewhere(i) ==
    /\ status[i] = AGUARDANDO
    /\ \E to \in TERMINAL_STATUSES : status' = [status EXCEPT ![i] = to]
    /\ UNCHANGED <<screen, requests, faults>>

\* GET /interviews/{id}
ServerReads(s) ==
    /\ InFlight(s, "load") /\ requests[s].answer = NULL
    /\ requests' = [requests EXCEPT ![s].answer = status[requests[s].id]]
    /\ UNCHANGED <<status, screen, faults>>

\* POST /interviews/{id}/action
ServerDecides(s) ==
    LET r == requests[s] IN
    /\ InFlight(s, "decide") /\ r.answer = NULL
    /\ IF status[r.id] = AGUARDANDO
       THEN /\ status' = [status EXCEPT ![r.id] = r.to]
            /\ requests' = [requests EXCEPT ![s].answer = "ok"]
       ELSE /\ requests' = [requests EXCEPT ![s].answer = "error"]
            /\ UNCHANGED status
    /\ UNCHANGED <<screen, faults>>

\* POST /interviews/{id}/reprocess enqueues a job; Progress is what it brings.
ServerReprocesses(s) ==
    LET r == requests[s] IN
    /\ InFlight(s, "reprocess") /\ r.answer = NULL
    /\ requests' = [requests EXCEPT
           ![s].answer = IF status[r.id] = FALHOU THEN "ok" ELSE "error"]
    /\ UNCHANGED <<status, screen, faults>>

\* fetch rejects (ApiUnavailableError) or the answer is an error 500: before the
\* server did anything, or after.
RequestFails(s) ==
    /\ requests[s] # NULL /\ requests[s].answer # "error"
    /\ faults < MaxFaults
    /\ faults' = faults + 1
    /\ requests' = [requests EXCEPT ![s].answer = "error"]
    /\ UNCHANGED <<status, screen>>

-------------------------------------------------------------------------------

Answered(s) ==
    \/ ServerReads(s) \/ ServerDecides(s) \/ ServerReprocesses(s)
    \/ LoadArrives(s) \/ LoadFails(s)
    \/ DecisionAccepted(s) \/ DecisionRefused(s) \/ ReprocessAnswered(s)

Next ==
    \/ \E i \in Ids, s \in Slots : Open(i, s) \/ GoTo(i, s)
    \/ Leave
    \/ \E s \in Slots : Poll(s) \/ Retry(s) \/ Confirm(s) \/ Reprocess(s)
                        \/ Answered(s) \/ RequestFails(s)
    \/ \E to \in TERMINAL_STATUSES : Choose(to)
    \/ Cancel
    \/ \E i \in Ids : Progress(i) \/ DecidedElsewhere(i)

Spec == Init /\ [][Next]_vars

-------------------------------------------------------------------------------
\* Properties

ScreenTypes ==
    /\ status \in [Ids -> InterviewStatuses]
    /\ route \in Ids \cup {NULL}
    /\ shown \in Shown \cup {NULL}
    /\ {error, notice} \subseteq BOOLEAN
    /\ dialog \in Dialogs
    /\ requests \in [Slots -> Requests \cup {NULL}]
    /\ faults \in 0 .. MaxFaults

TypeOK == ScreenTypes /\ busy \in Slots \cup {NULL}

Deciding(s) == InFlight(s, "decide") /\ requests[s].owner = "dialog"

\* A dialog never has two decisions on their way: the status flips as soon as the
\* first is confirmed, but a late answer may bring the buttons back before the
\* server has spoken (InterviewDetailView.tsx:82-115, DecisionActions.tsx:31-63).
OneDecisionInFlight == \A r, s \in Slots : Deciding(r) /\ Deciding(s) => r = s

\* With no decision of this screen under way, a decided status of the interview
\* in the address bar is the server's: an optimistic status never outlives its
\* request, whatever is refused, lost or late.
NoPhantomDecision ==
    /\ shown # NULL /\ shown.id = route
    /\ shown.status \in TERMINAL_STATUSES
    /\ \A s \in Slots : InFlight(s, "decide") => requests[s].owner = "gone"
    => status[shown.id] = shown.status

\* "Named in the confirmation, so nobody decides on the wrong person"
\* (DecisionActions.tsx:9-10): the decision is about the interview that was shown.
DecidesOnTheOneShown ==
    \A s \in Slots : InFlight(s, "decide") => requests[s].previous.id = requests[s].id
===============================================================================
