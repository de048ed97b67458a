-------------------------------- MODULE Intake --------------------------------
\* The recording provider and the API processes that take its webhooks
\* (src/app/main.py, recording_webhook): the lookup of an external id, the
\* insert and the enqueue are three statements, the provider sends a webhook
\* again until it is accepted, and may send it twice at once.
EXTENDS Integers, Sequences, FiniteSets

CONSTANTS
    IDLE,           \* an idle process
    ApiProcesses,
    Recordings,     \* what the provider announces
    Anonymous,      \* those it gives no external id
    MaxDeliveries,  \* how often it sends each
    MaxOutages      \* faults of the database, of Redis or of a process

\* What a process is doing: for which recording, at which statement, with which row.
Work == [recording : Recordings, at : {"lookup", "insert", "enqueue"}, id : Nat]

ASSUME IntakeAssumption ==
    MaxDeliveries \in Nat /\ MaxOutages \in Nat /\ Anonymous \subseteq Recordings /\ IDLE \notin Work

VARIABLES
    rows,       \* the interviews, by id: what each is of
    enqueued,   \* the ids with a job in the queue
    request,    \* what each process is doing for whom
    deliveries, \* how often each webhook was sent
    answers,    \* the ids the provider was answered with 202
    outages
intakeVars == <<rows, enqueued, request, deliveries, answers, outages>>

IntakeInit ==
    /\ rows = <<>> /\ enqueued = {} /\ outages = 0
    /\ request = [p \in ApiProcesses |-> IDLE]
    /\ deliveries = [r \in Recordings |-> 0] /\ answers = [r \in Recordings |-> {}]

Outage == outages < MaxOutages /\ outages' = outages + 1
NoOutage == UNCHANGED outages

\* The process is done with its request; the answer is 202 with an id, or an
\* error the provider answers with another delivery.
Accept(p, id) ==
    /\ answers' = [answers EXCEPT ![request[p].recording] = @ \cup {id}]
    /\ request' = [request EXCEPT ![p] = IDLE]
Refuse(p) == request' = [request EXCEPT ![p] = IDLE] /\ UNCHANGED answers

\* A webhook that passes the signature and the check of its URL.
Deliver(p, r) ==
    /\ request[p] = IDLE /\ deliveries[r] < MaxDeliveries
    /\ deliveries' = [deliveries EXCEPT ![r] = @ + 1]
    /\ request' = [request EXCEPT ![p] = [recording |-> r, at |-> "lookup", id |-> 0]]
    /\ UNCHANGED <<rows, enqueued, answers, outages>>

LookUp(p) ==
    /\ request[p] # IDLE /\ request[p].at = "lookup"
    /\ LET known == {i \in DOMAIN rows : rows[i] = request[p].recording /\ rows[i] \notin Anonymous}
       IN  \/ /\ known # {} /\ NoOutage
              /\ \E id \in known : Accept(p, id)
           \/ /\ known = {} /\ NoOutage
              /\ request' = [request EXCEPT ![p].at = "insert"] /\ UNCHANGED answers
           \/ Outage /\ Refuse(p)
    /\ UNCHANGED <<rows, enqueued, deliveries>>

\* The unique index on external_id.
\* mutant: the index is not unique
UniqueNever(p) == TRUE
Unique(p) ==
    request[p].recording \in Anonymous \/ \A i \in DOMAIN rows : rows[i] # request[p].recording

\* add, commit and refresh in one try: the commit may be refused, and the
\* refresh may fail after it.
Insert(p) ==
    /\ request[p] # IDLE /\ request[p].at = "insert"
    /\ \/ /\ Unique(p) /\ NoOutage
          /\ rows' = Append(rows, request[p].recording)
          /\ request' = [request EXCEPT ![p].at = "enqueue", ![p].id = Len(rows) + 1]
          /\ UNCHANGED answers
       \/ ~Unique(p) /\ NoOutage /\ Refuse(p) /\ UNCHANGED rows
       \/ Outage /\ Refuse(p) /\ UNCHANGED rows
       \/ Unique(p) /\ Outage /\ Refuse(p) /\ rows' = Append(rows, request[p].recording)
    /\ UNCHANGED <<enqueued, deliveries>>

Enqueue202(p) ==
    /\ request[p] # IDLE /\ request[p].at = "enqueue"
    /\ \/ enqueued' = enqueued \cup {request[p].id} /\ Accept(p, request[p].id) /\ NoOutage
       \/ Outage /\ Refuse(p) /\ UNCHANGED enqueued
    /\ UNCHANGED <<rows, deliveries>>

\* The process dies with its request; its answer, if any, is not received.
ProcessDies(p) ==
    /\ request[p] # IDLE /\ Outage /\ Refuse(p)
    /\ UNCHANGED <<rows, enqueued, deliveries>>

\* requeue_stale_interviews: an old row that is still RECEBIDA is enqueued.
\* mutant: only rows somebody was answered about
ReconcilableAnswered(i) == i \in UNION {answers[r] : r \in Recordings}
Reconcilable(i) == i \in DOMAIN rows

ReconcileRows ==
    /\ \E i \in DOMAIN rows : Reconcilable(i) /\ i \notin enqueued
    /\ enqueued' = enqueued \cup {i \in DOMAIN rows : Reconcilable(i)}
    /\ UNCHANGED <<rows, request, deliveries, answers, outages>>

Serve(p) == LookUp(p) \/ Insert(p) \/ Enqueue202(p)
IntakeNext ==
    \/ \E p \in ApiProcesses, r \in Recordings : Deliver(p, r)
    \/ \E p \in ApiProcesses : Serve(p) \/ ProcessDies(p)
    \/ ReconcileRows

IntakeSpec == IntakeInit /\ [][IntakeNext]_intakeVars

-------------------------------------------------------------------------------
(* What must hold. *)

\* However many deliveries of a webhook several processes handle at once, they
\* are all answered with the same interview, which is stored, and no second one
\* exists for that external id (src/app/main.py:215-246, "a retried webhook with
\* a known external_id returns the existing interview instead of creating a
\* duplicate").
OneInterviewPerRecording ==
    \A r \in Recordings :
        /\ r \notin Anonymous => Cardinality({i \in DOMAIN rows : rows[i] = r}) <= 1
        /\ answers[r] \subseteq {i \in DOMAIN rows : rows[i] = r}

\* A stored recording is processed even when nobody was told it is stored: the
\* process died, Redis or the refresh failed after the commit
\* (src/app/main.py:248-250).
StoredIsEnqueued ==
    \A i \in 1 .. MaxDeliveries : (i \in DOMAIN rows) ~> (i \in enqueued)
===============================================================================
