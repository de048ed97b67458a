------------------------------ MODULE SharedList ------------------------------
(***************************************************************************)
(* The interview list every screen shares (InterviewsProvider.tsx), the    *)
(* projection that keeps rows whose updated_at stands still                *)
(* (lib/projection.ts) and the announcements of status changes.            *)
(*                                                                         *)
(* Over the API a list is read in one step and answered in a later one,    *)
(* and polling asks again.  The demonstration answers at once, in the same *)
(* step, and asks again only when its revision moves.  A step of the       *)
(* provider is a React commit with its effects.                            *)
(***************************************************************************)
EXTENDS Naturals

CONSTANTS
    Ids,           \* interview ids; a demo reset brings the same ones back
    Statuses,      \* the statuses an interview may have
    Moving,        \* those of category "processing"
    Modes,         \* the modes of a page: TRUE the demonstration, FALSE the API
    Slots,         \* bound: list requests in flight at once
    MaxSwitches,   \* bound: changes of API configuration, or demo resets
    MaxWrites,     \* bound: changes to the rows
    MaxFaults,     \* bound: list requests that fail
    NULL

Datasets == 0 .. MaxSwitches

ASSUME SharedListAssumption ==
    /\ Moving \subseteq Statuses
    /\ Modes \subseteq BOOLEAN
    /\ {MaxSwitches, MaxWrites, MaxFaults} \subseteq Nat
    /\ NULL \notin Statuses

VARIABLES
    demo,         \* the mode of the page, each of which has a provider of its own
    rows,         \* what each source holds, [Datasets -> [Ids -> Row \cup {NULL}]]
    clock,        \* updated_at of the latest write
    dataset,      \* source.datasetKey
    revision,     \* source.revision
    seen,         \* datasetKey of the last commit, whose effects have run
    loaded,       \* lastRevision.current
    raw,          \* the list on the screen, and the dataset it came from
    cache,        \* the projector's cache: the summary of each row it has seen
    heard,        \* previousStatuses.current, and the dataset it came from
    announced,    \* the datasets of the two lists the last announcement compared
    requests,     \* list requests in flight
    titles,       \* the dataset whose job titles are shown
    jobsAsked,    \* the datasets whose job titles were asked for
    writes,
    faults

source   == <<demo, rows, clock, dataset, revision>>
provider == <<seen, loaded, raw, cache, heard, announced, titles>>
vars     == <<source, provider, requests, jobsAsked, writes, faults>>

-------------------------------------------------------------------------------

Row      == [status : Statuses, at : 0 .. MaxWrites]
Rows     == [Ids -> Row \cup {NULL}]
NoRows   == [i \in Ids |-> NULL]
Lists    == [from : Datasets, rows : Rows]
Nothing  == [from |-> 0, statuses |-> NoRows]
Requests == [from : Datasets, answer : Rows \cup {NULL}, failed : BOOLEAN]

\* An absence is none of the values it stands beside.
ASSUME AbsenceAssumption == NULL \notin Nat \cup Row \cup Rows \cup Lists \cup Requests

ListOf(d) == [from |-> d, rows |-> rows[d]]

HitWhateverDate(hit, r) == hit # NULL   \* mutant

\* `updated_at` moves on every write the backend makes to the row.
Hit(hit, r) == hit # NULL /\ hit.at = r.at

\* The projector: the summary of each row, from the cache when it hits.
Project(c, list) ==
    [i \in Ids |->
        LET r == list.rows[i] IN
        IF r = NULL THEN NULL ELSE IF Hit(c[i], r) THEN c[i].status ELSE r.status]

\* The cache it leaves, without the rows that are gone.
Cached(c, list) ==
    [i \in Ids |->
        IF list.rows[i] = NULL THEN NULL
        ELSE IF Hit(c[i], list.rows[i]) THEN c[i]
        ELSE list.rows[i]]

Changed(before, after) ==
    \E i \in Ids : NULL \notin {before[i], after[i]} /\ before[i] # after[i]

\* The list is shown with the cache c, and the changes since h are announced.
Show(list, c, h) ==
    LET summaries == Project(c, list) IN
    /\ raw' = list
    /\ cache' = Cached(c, list)
    /\ heard' = [from |-> list.from, statuses |-> summaries]
    /\ announced' = IF Changed(h.statuses, summaries)
                    THEN [from |-> h.from, to |-> list.from] ELSE announced

PollingWhileMoving ==   \* mutant
    /\ ~demo /\ raw # NULL
    /\ \E i \in Ids : raw.rows[i] # NULL /\ raw.rows[i].status \in Moving

\* pollingEnabled; the interval is longer when nothing moves.
PollingEnabled == ~demo /\ raw # NULL

AnyJobs(d) == TRUE   \* mutant

\* `live`: the effect that asked for the job titles has not been cleaned up.
LiveJobs(d) == d = seen

NeverReread == FALSE   \* mutant

\* The effect on source.revision.
Reread == revision # loaded

-------------------------------------------------------------------------------
\* The source

Init ==
    /\ demo \in Modes
    /\ \E r \in [Ids -> [status : Statuses, at : {0}] \cup {NULL}] :
          rows = [d \in Datasets |-> r]
    /\ clock = 0 /\ dataset = 0 /\ revision = 0
    /\ seen = 0 /\ loaded = 0
    /\ raw = IF demo THEN ListOf(0) ELSE NULL
    /\ cache = IF demo THEN Cached(NoRows, ListOf(0)) ELSE NoRows
    /\ heard = IF demo THEN [from |-> 0, statuses |-> Project(NoRows, ListOf(0))] ELSE Nothing
    /\ announced = NULL
    /\ requests = [s \in Slots |-> NULL]
    /\ titles = NULL /\ jobsAsked = {0}
    /\ writes = 0 /\ faults = 0

\* A row is written: any source of the API may change under the tab, the
\* demonstration only by its own actions, each of which moves its revision.
Write(d, i) ==
    /\ demo => d = dataset /\ seen = dataset
    /\ writes < MaxWrites
    /\ writes' = writes + 1
    /\ clock' = clock + 1
    /\ \E s \in Statuses :
          rows' = [rows EXCEPT ![d][i] = [status |-> s, at |-> clock + 1]]
    /\ revision' = IF demo THEN revision + 1 ELSE revision
    /\ UNCHANGED <<demo, dataset, provider, requests, jobsAsked, faults>>

\* A saved API configuration (configEpoch), or a demo reset (generation), which
\* restarts the demonstration's clock and revision.
SwitchDataset ==
    /\ dataset < MaxSwitches
    /\ dataset' = dataset + 1
    /\ clock' = IF demo THEN 0 ELSE clock
    /\ revision' = 0
    /\ UNCHANGED <<demo, rows, provider, requests, jobsAsked, writes, faults>>

-------------------------------------------------------------------------------
\* The provider

\* load()
Ask(s) ==
    /\ requests[s] = NULL
    /\ requests' = [requests EXCEPT ![s] = [from |-> dataset, answer |-> NULL, failed |-> FALSE]]

\* The announcement history when the effects of a switch have run.  The effect
\* on datasetKey empties it; but the new projector gives the rows still on the
\* screen a new identity, and the effect on summaries, which runs after it in
\* the same commit, takes them down again.
HeardAtSwitch ==
    IF raw = NULL THEN Nothing
    ELSE [from |-> raw.from, statuses |-> Project(NoRows, raw)]

\* The new projector's cache: it too has seen the rows still on the screen.
CacheAtSwitch == IF raw = NULL THEN NoRows ELSE Cached(NoRows, raw)

\* The commit that follows a switch of the dataset.
CommitSwitch ==
    /\ seen # dataset
    /\ seen' = dataset
    /\ loaded' = revision
    /\ IF demo
       THEN /\ Show(ListOf(dataset), CacheAtSwitch, HeardAtSwitch)
            /\ UNCHANGED requests
       ELSE /\ raw' = NULL
            /\ cache' = CacheAtSwitch
            /\ heard' = HeardAtSwitch
            /\ \E s \in Slots : Ask(s)
            /\ UNCHANGED announced
    /\ titles' = NULL
    /\ jobsAsked' = jobsAsked \cup {dataset}
    /\ UNCHANGED <<source, writes, faults>>

\* The commit that follows actions of the demonstration.
CommitRevision ==
    /\ demo
    /\ seen = dataset /\ Reread
    /\ loaded' = revision
    /\ Show(ListOf(dataset), cache, heard)
    /\ UNCHANGED <<source, seen, requests, titles, jobsAsked, writes, faults>>

\* usePolling.
Poll(s) ==
    /\ PollingEnabled /\ seen = dataset
    /\ Ask(s)
    /\ UNCHANGED <<source, provider, jobsAsked, writes, faults>>

\* The reload a screen offers, the first load among them.
Reload(s) ==
    /\ ~demo /\ seen = dataset
    /\ raw = NULL /\ \A r \in Slots : requests[r] = NULL
    /\ Ask(s)
    /\ UNCHANGED <<source, provider, jobsAsked, writes, faults>>

\* The source reads its rows.
Answer(s) ==
    /\ requests[s] # NULL /\ requests[s].answer = NULL /\ ~requests[s].failed
    /\ requests' = [requests EXCEPT ![s].answer = rows[requests[s].from]]
    /\ UNCHANGED <<source, provider, jobsAsked, writes, faults>>

Fail(s) ==
    /\ requests[s] # NULL /\ ~requests[s].failed
    /\ faults < MaxFaults
    /\ faults' = faults + 1
    /\ requests' = [requests EXCEPT ![s].failed = TRUE]
    /\ UNCHANGED <<source, provider, jobsAsked, writes>>

\* listInterviews resolves, whichever source it was asked of.
ListArrives(s) ==
    LET r == requests[s] IN
    /\ r # NULL /\ ~r.failed /\ r.answer # NULL
    /\ requests' = [requests EXCEPT ![s] = NULL]
    /\ Show([from |-> r.from, rows |-> r.answer], cache, heard)
    /\ UNCHANGED <<source, seen, loaded, titles, jobsAsked, writes, faults>>

\* It rejects: what is on the screen stays, under an error.
ListFails(s) ==
    /\ requests[s] # NULL /\ requests[s].failed
    /\ requests' = [requests EXCEPT ![s] = NULL]
    /\ UNCHANGED <<source, provider, jobsAsked, writes, faults>>

\* listJobs resolves, or rejects and leaves no titles.
JobsArrive(d) ==
    /\ d \in jobsAsked
    /\ jobsAsked' = jobsAsked \ {d}
    /\ titles' = IF LiveJobs(d) THEN d ELSE titles
    /\ UNCHANGED <<source, seen, loaded, raw, cache, heard, announced, requests, writes, faults>>

JobsFail(d) ==
    /\ d \in jobsAsked
    /\ jobsAsked' = jobsAsked \ {d}
    /\ UNCHANGED <<source, provider, requests, writes, faults>>

Commit == CommitSwitch \/ CommitRevision

Delivered(s) == Answer(s) \/ ListArrives(s) \/ ListFails(s)

Next ==
    \/ \E d \in Datasets, i \in Ids : Write(d, i)
    \/ SwitchDataset
    \/ Commit
    \/ \E s \in Slots : Poll(s) \/ Reload(s) \/ Fail(s) \/ Delivered(s)
    \/ \E d \in Datasets : JobsArrive(d) \/ JobsFail(d)

Spec == Init /\ [][Next]_vars

\* React commits what changed, the tab is visible so the timer fires, and a
\* request is answered or fails.
Fairness ==
    /\ WF_vars(Commit)
    /\ WF_vars(\E s \in Slots : Poll(s))
    /\ \A s \in Slots : WF_vars(Delivered(s))

FairSpec == Spec /\ Fairness

-------------------------------------------------------------------------------
\* Properties

TypeOK ==
    /\ demo \in Modes
    /\ rows \in [Datasets -> Rows]
    /\ clock \in 0 .. MaxWrites
    /\ {dataset, seen} \subseteq Datasets
    /\ {revision, loaded} \subseteq 0 .. MaxWrites
    /\ raw \in Lists \cup {NULL}
    /\ cache \in Rows
    /\ heard \in [from : Datasets, statuses : [Ids -> Statuses \cup {NULL}]]
    /\ announced \in [from : Datasets, to : Datasets] \cup {NULL}
    /\ requests \in [Slots -> Requests \cup {NULL}]
    /\ titles \in Datasets \cup {NULL}
    /\ jobsAsked \subseteq Datasets
    /\ writes \in 0 .. MaxWrites /\ faults \in 0 .. MaxFaults

\* Every screen shows the statuses of the list that was last received: no
\* summary is kept for a row that was written since, however answers overtake
\* each other and whatever a reset does to the clock (lib/projection.ts:120-129).
SummariesAreCurrent ==
    raw # NULL => \A i \in Ids :
        raw.rows[i] # NULL => cache[i] # NULL /\ cache[i].status = raw.rows[i].status

\* React has nothing left to commit: the effects of the last switch have run, and
\* that on the revision has nothing to do.
NothingToCommit == seen = dataset /\ ~Reread

\* With nothing left for React to commit, the demonstration's list is its state:
\* no action and no reset goes unread although nothing polls, and although a
\* reset takes the revision back to one already seen (InterviewsProvider.tsx:99-143).
DemoIsReread == demo /\ NothingToCommit => raw = ListOf(dataset)

\* The job titles shown belong to the dataset on the screen, however late those
\* of another arrive (InterviewsProvider.tsx:121-134).
TitlesAreCurrent == titles # NULL => titles = seen

\* Over the API the list catches up with the server by polling, even when nothing
\* on the screen moves and older answers arrive last.
ListCatchesUp ==
    (raw # NULL /\ raw # ListOf(dataset)) ~> (raw = NULL \/ raw = ListOf(dataset))

\* "drop the announcement history so a reset is not narrated as a burst of status
\* changes" (InterviewsProvider.tsx:106-107).
ResetIsSilent == announced # NULL => announced.from = announced.to
===============================================================================
