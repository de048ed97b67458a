-------------------------------- MODULE Polling --------------------------------
\* The two timers of an open interview that is being processed: the one that polls
\* the list for every screen and the one that polls this interview
\* (src/frontend/src/hooks/usePolling.ts, data/InterviewsProvider.tsx,
\* features/interviews/InterviewDetailView.tsx).  usePolling starts its timer anew
\* whenever its component renders: the default of isHidden is another function each
\* time, and its effect depends on it.
EXTENDS Integers

CONSTANTS
    ActivePolls,  \* the intervals a person may have chosen for the list, in seconds
    MaxCalls,     \* how many requests of each kind are under way at most
    MaxTurns      \* how many polls of the list are told apart, since the interview was read

ASSUME PollingAssumption ==
    ActivePolls \subseteq Nat \ {0} /\ MaxCalls \in Nat /\ MaxTurns \in Nat

IDLE_MULTIPLIER == 3
DETAIL_POLL == 5

VARIABLES
    activePoll,    \* activeIntervalMs of the provider
    listPoll,      \* its intervalMs, longer when the list shows nothing moving
    listDue,       \* how long until the timer of the list fires
    detailDue,     \* how long until that of the interview does
    detailFirst,   \* was the interview's timer set before the list's?
    refreshing,    \* the provider's state of that name
    listCalls,     \* unanswered requests of the list
    detailCalls,   \* unanswered requests of the interview
    tabHidden,     \* document.hidden
    working,       \* is the interview on screen still being processed?
    listTurns,     \* polls of the list since the interview was last asked for
    renderedSince  \* answers about the interview rendered since then

timers == <<listDue, detailDue, detailFirst>>
calls == <<refreshing, listCalls, detailCalls>>
since == <<listTurns, renderedSince>>
pollingVars == <<activePoll, listPoll, timers, calls, tabHidden, working, since>>

\* The answer that shows the interview is processed sets its timer; the list's has
\* been running.
PollingInit ==
    /\ activePoll \in ActivePolls
    /\ listPoll \in {activePoll, IDLE_MULTIPLIER * activePoll} /\ listDue \in 1 .. listPoll
    /\ detailDue = DETAIL_POLL /\ detailFirst = FALSE
    /\ refreshing = FALSE /\ listCalls = 0 /\ detailCalls = 0
    /\ tabHidden = FALSE /\ working = TRUE /\ listTurns = 0 /\ renderedSince = 0

\* A render of the provider and, with it, of the screen in it: both effects run
\* again, the child's before its parent's.
\* mutant: the parent's before the child's
RestartParentFirst(poll) == listDue' = poll /\ detailDue' = DETAIL_POLL /\ detailFirst' = FALSE
Restart(poll) == listDue' = poll /\ detailDue' = DETAIL_POLL /\ detailFirst' = TRUE

\* Time passes while no timer is due.
Second ==
    /\ working /\ ~tabHidden /\ listDue > 0 /\ detailDue > 0
    /\ listDue' = listDue - 1 /\ detailDue' = detailDue - 1
    /\ UNCHANGED <<activePoll, listPoll, detailFirst, calls, tabHidden, working, since>>

\* load() of the provider: setRefreshing(true) is a render unless it is true already;
\* the timer goes on in either case.
ListFires ==
    /\ working /\ ~tabHidden /\ listDue = 0 /\ ~(detailDue = 0 /\ detailFirst)
    /\ listCalls < MaxCalls /\ listTurns < MaxTurns
    /\ listCalls' = listCalls + 1 /\ refreshing' = TRUE /\ listTurns' = listTurns + 1
    /\ IF refreshing THEN listDue' = listPoll /\ detailFirst' = TRUE /\ UNCHANGED detailDue
       ELSE Restart(listPoll)
    /\ UNCHANGED <<activePoll, listPoll, detailCalls, tabHidden, working, renderedSince>>

\* The answer, or the error, is a render; the list may show that nothing is moving.
ListAnswers ==
    /\ working /\ listCalls > 0
    /\ listCalls' = listCalls - 1 /\ refreshing' = FALSE
    /\ listPoll' \in {activePoll, IDLE_MULTIPLIER * activePoll}
    /\ Restart(listPoll')
    /\ UNCHANGED <<activePoll, detailCalls, tabHidden, working, since>>

\* load() of the screen renders nothing.
DetailFires ==
    /\ working /\ ~tabHidden /\ detailDue = 0 /\ ~(listDue = 0 /\ ~detailFirst)
    /\ detailCalls < MaxCalls
    /\ detailCalls' = detailCalls + 1
    /\ detailDue' = DETAIL_POLL /\ detailFirst' = FALSE
    /\ listTurns' = 0 /\ renderedSince' = 0
    /\ UNCHANGED <<activePoll, listPoll, listDue, refreshing, listCalls, tabHidden, working>>

\* The answer, or the error, renders the screen and not the provider.
DetailAnswers ==
    /\ working /\ detailCalls > 0
    /\ detailCalls' = detailCalls - 1
    /\ working' \in BOOLEAN
    /\ detailDue' = DETAIL_POLL /\ detailFirst' = FALSE
    /\ renderedSince' = renderedSince + 1
    /\ UNCHANGED <<activePoll, listPoll, listDue, refreshing, listCalls, tabHidden, listTurns>>

\* Whatever else renders the provider and the screen: a route, a preference, a reload.
Rerender ==
    /\ working /\ ~tabHidden
    /\ Restart(listPoll)
    /\ UNCHANGED <<activePoll, listPoll, calls, tabHidden, working, since>>

\* onVisibility: no timer runs in a hidden tab, and both load when it is shown again.
Hide ==
    /\ working /\ ~tabHidden /\ tabHidden' = TRUE
    /\ UNCHANGED <<activePoll, listPoll, timers, calls, working, since>>

Show ==
    /\ working /\ tabHidden /\ listCalls < MaxCalls /\ detailCalls < MaxCalls
    /\ tabHidden' = FALSE
    /\ listCalls' = listCalls + 1 /\ refreshing' = TRUE /\ detailCalls' = detailCalls + 1
    /\ Restart(listPoll)
    /\ listTurns' = 0 /\ renderedSince' = 0
    /\ UNCHANGED <<activePoll, listPoll, working>>

PollingNext ==
    \/ Second \/ ListFires \/ ListAnswers \/ DetailFires \/ DetailAnswers \/ Rerender \/ Hide \/ Show

PollingSpec == PollingInit /\ [][PollingNext]_pollingVars

-------------------------------------------------------------------------------
(* What must hold. *)

\* The poll of the list restarts the timer of the open interview and yet does not keep
\* it from firing, when the list is polled every five seconds or less often: between
\* two reads of the interview the list is polled once, and once more for each answer
\* about the interview that restarted its timer alone (hooks/usePolling.ts:76,
\* features/interviews/InterviewDetailView.tsx:62).  Polled every two seconds, the
\* first interval the settings screen offers, the list never lets it fire.
OpenInterviewKeepsUp == activePoll >= DETAIL_POLL => listTurns <= 1 + renderedSince
===============================================================================
