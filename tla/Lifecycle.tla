------------------------------ MODULE Lifecycle ------------------------------
(***************************************************************************)
(* What one interview promises its users, independently of queues, workers *)
(* and transactions: the status only moves along VALID_TRANSITIONS, the    *)
(* scorecard a human is asked to judge is published when the status        *)
(* becomes AGUARDANDO_APROVACAO, and from then on neither the scorecard    *)
(* nor, once taken, the decision changes until the row is purged.          *)
(***************************************************************************)
EXTENDS InterviewStatus

CONSTANTS
    Interviews,   \* the interviews
    Scorecards,   \* what scoring can produce
    NULL          \* no scorecard published

VARIABLES
    status,       \* [Interviews -> InterviewStatuses \cup {ABSENT, PURGED}]
    published     \* [Interviews -> Scorecards \cup {NULL}]

vars == <<status, published>>

Init ==
    /\ status = [i \in Interviews |-> ABSENT]
    /\ published = [i \in Interviews |-> NULL]

Create(i) ==
    /\ status[i] = ABSENT
    /\ status' = [status EXCEPT ![i] = RECEBIDA]
    /\ UNCHANGED published

\* One processing step, a failure, or the resumption of a failed interview.
Progress(i) ==
    /\ status[i] \in InterviewStatuses
    /\ \E s \in VALID_TRANSITIONS[status[i]] \ (TERMINAL_STATUSES \cup {AGUARDANDO}) :
          status' = [status EXCEPT ![i] = s]
    /\ UNCHANGED published

Publish(i) ==
    /\ status[i] = PONTUANDO
    /\ status' = [status EXCEPT ![i] = AGUARDANDO]
    /\ \E c \in Scorecards : published' = [published EXCEPT ![i] = c]

Decide(i) ==
    /\ status[i] = AGUARDANDO
    /\ \E s \in TERMINAL_STATUSES : status' = [status EXCEPT ![i] = s]
    /\ UNCHANGED published

Purge(i) ==
    /\ status[i] \in TERMINAL_STATUSES
    /\ status' = [status EXCEPT ![i] = PURGED]
    /\ published' = [published EXCEPT ![i] = NULL]

Next ==
    \E i \in Interviews :
        Create(i) \/ Progress(i) \/ Publish(i) \/ Decide(i) \/ Purge(i)

Spec == Init /\ [][Next]_vars
==============================================================================
