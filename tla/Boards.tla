-------------------------------- MODULE Boards --------------------------------
\* The same interviews on every screen that lists, counts or queues them: the
\* pipeline board, the dashboard, the list and its tiles, the approval queue, the
\* numbers of the period (src/frontend/src/lib, features/dashboard,
\* features/interviews, features/approvals).  Rows are sequences, newest first.
EXTENDS Cases, InterviewStatus, Integers, FiniteSets, SequencesExt

CONSTANTS
    VISIBLE,     \* cards shown per column of the board
    MaxRows      \* bound: rows in a call

ASSUME BoardsAssumption == VISIBLE \in Nat \ {0} /\ MaxRows \in Nat

ABSENT_SCORE == -1   \* averageScore, evidenceRate, a wait: null
DAY == 2             \* the length of the shorter period, in the clock's units

-------------------------------------------------------------------------------
(* Statuses and rows. *)

\* statusMeta: a status this client does not know is taken to be processing.
StatusMeta(status) ==
    CASE status \in {AGUARDANDO, FALHOU}   -> "action_required"
      [] status \in {APROVADA, REJEITADA}  -> "done"
      [] OTHER                             -> "processing"
NeedsAction(status) == StatusMeta(status) = "action_required"

\* A badge says the status three times over: colour, icon and label.
StatusBadge(status) ==
    [category |-> StatusMeta(status),
     icon |-> CASE status \in {TRANSCREVENDO, DIARIZANDO, PONTUANDO} -> "pulse"
                [] status = AGUARDANDO -> "gavel"
                [] status = APROVADA   -> "check"
                [] status = REJEITADA  -> "close"
                [] status = FALHOU     -> "alert"
                [] OTHER               -> "chevronRight",
     label |-> status]

\* reduce, with an addition from 0.
SumOf(s) ==
    LET upTo[n \in 0 .. Len(s)] == IF n = 0 THEN 0 ELSE upTo[n - 1] + s[n]
    IN  upTo[Len(s)]

\* An interview is [id, status, created, updated, scorecard]: its scorecard is a
\* sequence of evaluations [score, verified], or NoScorecard.
NoScorecard == <<[score |-> ABSENT_SCORE, verified |-> "no scorecard"]>>
Summarize(interview) ==
    LET evaluations == IF interview.scorecard = NoScorecard THEN <<>> ELSE interview.scorecard
        scores == Only([k \in DOMAIN evaluations |-> evaluations[k].score],
                       {k \in DOMAIN evaluations : evaluations[k].score # ABSENT_SCORE})
        Tally(v) == Cardinality({k \in DOMAIN evaluations : evaluations[k].verified = v})
    IN  [id |-> interview.id, status |-> interview.status,
         created |-> interview.created, updated |-> interview.updated,
         needsAction |-> NeedsAction(interview.status),
         named |-> interview.scorecard # NoScorecard,
         competencies |-> Len(evaluations),
         scores |-> scores,
         verified |-> Tally("yes"), unverified |-> Tally("no"), unchecked |-> Tally("unknown"),
         alert |-> Tally("no") > 0]
Summaries(interviews) == [k \in DOMAIN interviews |-> Summarize(interviews[k])]

-------------------------------------------------------------------------------
(* The list of interviews and the tiles above it. *)

MatchesFilter(row, filter) ==
    CASE filter = "all"             -> TRUE
      [] filter = "action_required" -> row.needsAction
      [] OTHER                      -> row.status = filter

\* What is searched are the name, the job and the ids; here the id stands for all.
MatchesQuery(row, query) == query = "" \/ row.id = query

\* The sort: by category, and in a category in the order the rows came in.
CategoryOrder(status) ==
    CASE StatusMeta(status) = "action_required" -> 0
      [] StatusMeta(status) = "processing"      -> 1
      [] StatusMeta(status) = "done"            -> 2
ByPriority(rows) == SortedBy(rows, [k \in DOMAIN rows |-> CategoryOrder(rows[k].status)])

VisibleRows(rows, filter, query) ==
    ByPriority(Only(rows, {k \in DOMAIN rows : MatchesFilter(rows[k], filter) /\ MatchesQuery(rows[k], query)}))

\* PipelineSummary: what each tile counts, by the filter it selects.
Tile(rows, filter) ==
    CASE filter = "all" -> Len(rows)
      [] filter = "action_required" -> Cardinality({k \in DOMAIN rows : rows[k].needsAction})
      [] OTHER -> Cardinality({k \in DOMAIN rows : rows[k].status = filter})
Filters == {"all", "action_required"} \cup InterviewStatuses

-------------------------------------------------------------------------------
(* The pipeline board. *)

Stages == << {RECEBIDA}, {TRANSCREVENDO}, {DIARIZANDO}, {PONTUANDO}, {AGUARDANDO}, {APROVADA, REJEITADA} >>

\* The rows of some statuses, in their order.
WithStatus(rows, statuses) == Only(rows, {k \in DOMAIN rows : rows[k].status \in statuses})

\* A column: the simulated interview first, then the newest, and how many more.
\* mutant: a full column shows the newest alone
ColumnUnpinned(rows, stage, simulated) ==
    LET cards == WithStatus(rows, stage)
        shown == SubSeq(cards, 1, IF Len(cards) < VISIBLE THEN Len(cards) ELSE VISIBLE)
    IN  [count |-> Len(cards), shown |-> shown, hidden |-> Len(cards) - Len(shown)]
Column(rows, stage, simulated) ==
    LET cards == WithStatus(rows, stage)
        ordered == Only(cards, {k \in DOMAIN cards : cards[k].id = simulated})
                    \o Only(cards, {k \in DOMAIN cards : cards[k].id # simulated})
        shown == SubSeq(ordered, 1, IF Len(ordered) < VISIBLE THEN Len(ordered) ELSE VISIBLE)
    IN  [count |-> Len(cards), shown |-> shown, hidden |-> Len(cards) - Len(shown)]

Failed(rows) == WithStatus(rows, {FALHOU})

\* The note under the button that simulates: the scorecard is offered once the
\* simulated interview waits for a person.
SimulationNote(rows, simulated, playing) ==
    LET found == Only(rows, {k \in DOMAIN rows : rows[k].id = simulated})
    IN  CASE found = <<>> -> "none"
          [] playing = simulated -> "playing"
          [] found[1].status = AGUARDANDO -> IF found[1].alert THEN "open, flagged" ELSE "open"
          [] OTHER -> "status"

-------------------------------------------------------------------------------
(* Who waits for a person. *)

\* Longest wait first; rows that wait equally long stay in the order they came.
LongestFirst(rows) == SortedBy(rows, [k \in DOMAIN rows |-> rows[k].updated])

\* ApprovalsView: the queue.
Queue(rows) == LongestFirst(WithStatus(rows, {AGUARDANDO}))

\* DashboardView: the same people, those with a quote nobody said first.
Awaiting(rows) ==
    LET queue == Queue(rows)
    IN  SortedBy(queue, [k \in DOMAIN queue |-> IF queue[k].alert THEN 0 ELSE 1])

\* What the two screens say of a row's evidence.
QueueEvidence(row) ==
    IF row.alert THEN [flagged |-> TRUE, count |-> row.unverified]
    ELSE [flagged |-> FALSE, count |-> row.verified]
NeedsEvidence(row) ==
    CASE row.alert -> [flagged |-> TRUE, count |-> row.unverified]
      [] ~row.alert /\ row.verified + row.unverified = 0 -> [flagged |-> FALSE, count |-> 0]
      [] OTHER -> [flagged |-> FALSE, count |-> row.verified]

\* The number beside "Decisões" in the navigation.
PendingCount(rows) == Cardinality({k \in DOMAIN rows : rows[k].status = AGUARDANDO})

-------------------------------------------------------------------------------
(* The numbers of a period. *)

WithinPeriod(rows, period, now) ==
    IF period = "all" THEN rows ELSE Only(rows, {k \in DOMAIN rows : rows[k].created >= now - DAY})

\* updated_at may be ahead of this browser's clock.
SinceUpdate(row, now) == IF row.updated > now THEN 0 ELSE now - row.updated

CountOf(rows, statuses) == Cardinality({k \in DOMAIN rows : rows[k].status \in statuses})
ProcessingCount(rows) == CountOf(rows, {RECEBIDA, TRANSCREVENDO, DIARIZANDO, PONTUANDO})

Median(waits) == IF waits = <<>> THEN ABSENT_SCORE ELSE waits[(Len(waits) - 1) \div 2 + 1]

\* How long those who wait have waited, shortest first.
Waits(rows, now) ==
    LET waiting == WithStatus(rows, {AGUARDANDO})
        waits == [k \in DOMAIN waiting |-> SinceUpdate(waiting[k], now)]
    IN  SortedBy(waits, waits)

\* The rate in percent and the average are rounded down here: 100 is all of them.
Rate(verified, unverified) ==
    IF verified + unverified > 0 THEN (100 * verified) \div (verified + unverified) ELSE ABSENT_SCORE
Average(sum, count) == IF count > 0 THEN sum \div count ELSE ABSENT_SCORE

\* How often a row has the score n.
TimesScored(row, n) == Cardinality({j \in DOMAIN row.scores : row.scores[j] = n})

ComputeMetrics(rows, now) ==
    LET verified == SumOf([k \in DOMAIN rows |-> rows[k].verified])
        unverified == SumOf([k \in DOMAIN rows |-> rows[k].unverified])
        waits == Waits(rows, now)
    IN  [total |-> Len(rows),
         needsAction |-> Cardinality({k \in DOMAIN rows : rows[k].needsAction}),
         awaitingApproval |-> CountOf(rows, {AGUARDANDO}),
         failed |-> CountOf(rows, {FALHOU}),
         processing |-> ProcessingCount(rows),
         decided |-> CountOf(rows, {APROVADA, REJEITADA}),
         verified |-> verified, unverified |-> unverified,
         unchecked |-> SumOf([k \in DOMAIN rows |-> rows[k].unchecked]),
         rate |-> Rate(verified, unverified),
         alerts |-> Cardinality({k \in DOMAIN rows : rows[k].alert}),
         distribution |-> [n \in 1 .. 5 |-> SumOf([k \in DOMAIN rows |-> TimesScored(rows[k], n)])],
         scored |-> Cardinality({k \in DOMAIN rows : rows[k].scores # <<>>}),
         average |-> Average(SumOf([k \in DOMAIN rows |-> SumOf(rows[k].scores)]),
                             SumOf([k \in DOMAIN rows |-> Len(rows[k].scores)])),
         longestWait |-> IF waits = <<>> THEN ABSENT_SCORE ELSE waits[Len(waits)],
         medianWait |-> Median(waits)]

\* RateGauge: the arcs, in percent of the circle; BarChart: heights of 128.
Share(part, total) == IF total > 0 THEN (100 * part) \div total ELSE 0
Arcs(segments) ==
    LET total == SumOf(segments)
    IN  [k \in DOMAIN segments |->
            [from |-> Share(SumOf(SubSeq(segments, 1, k - 1)), total), length |-> Share(segments[k], total)]]
Bars(values) ==
    LET max == CHOOSE m \in {1} \cup {values[k] : k \in DOMAIN values} :
                    m >= 1 /\ \A k \in DOMAIN values : m >= values[k]
    IN  [k \in DOMAIN values |->
            LET height == (values[k] * 128) \div max
            IN  IF values[k] > 0 /\ height < 2 THEN 2 ELSE height]

-------------------------------------------------------------------------------
(* The screens, of a list [loaded, failed, rows]: whether it was ever loaded, and
   whether its last load failed.  While it was not loaded rows is empty. *)

\* A failure replaces what is not there yet, and nothing else.
Screen(list) ==
    CASE list.loaded                 -> "rows"
      [] ~list.loaded /\ list.failed  -> "error"
      [] ~list.loaded /\ ~list.failed -> "skeleton"

\* What each screen's row says of an interview.
Flag(row) == IF row.alert THEN row.unverified ELSE 0
BoardCard(row, simulated, playing) ==
    [id |-> row.id, shows |-> IF row.named THEN {"name", "job"} ELSE {"job", "id"}, flag |-> Flag(row),
     fresh |-> row.id = simulated, glides |-> row.id = playing,
     outcome |-> IF row.status \in {APROVADA, REJEITADA} THEN row.status ELSE "none"]
InterviewRow(row) ==
    [id |-> row.id, shows |-> IF row.named THEN {"name", "job", "id"} ELSE {"job", "id"}, flag |-> Flag(row),
     marked |-> row.needsAction, badge |-> StatusBadge(row.status)]
NeedsRow(row) == [id |-> row.id, evidence |-> NeedsEvidence(row)]
Approval(row) == [id |-> row.id, evidence |-> QueueEvidence(row)]

PipelineBoard(rows, simulated, playing) ==
    [columns |-> [k \in DOMAIN Stages |->
                    LET column == Column(rows, Stages[k], simulated)
                    IN  [cards |-> [j \in DOMAIN column.shown |-> BoardCard(column.shown[j], simulated, playing)],
                         more  |-> column.hidden]],
     failed |-> Failed(rows)]

\* demo: the controls of the demonstration, which the API's mode does not have.
DashboardView(list, demo, simulated, playing, period, now) ==
    [shows |-> Screen(list),
     action |-> IF demo THEN (IF playing = "" THEN "simulate" ELSE "busy") ELSE "new",
     note |-> IF demo THEN SimulationNote(list.rows, simulated, playing) ELSE "none",
     board |-> PipelineBoard(list.rows, simulated, playing),
     needs |-> [k \in DOMAIN Awaiting(list.rows) |-> NeedsRow(Awaiting(list.rows)[k])],
     numbers |-> ComputeMetrics(WithinPeriod(list.rows, period, now), now)]

\* An empty list says whether it is the filter that empties it.
InterviewListView(list, filter, query) ==
    LET visible == VisibleRows(list.rows, filter, query)
    IN  [shows |-> Screen(list), stale |-> list.failed,
         tiles |-> [f \in Filters |-> Tile(list.rows, f)],
         rows |-> [k \in DOMAIN visible |-> InterviewRow(visible[k])],
         empty |-> CASE visible # <<>> -> "no"
                     [] visible = <<>> /\ list.rows = <<>> -> "create one"
                     [] OTHER -> "adjust the filter"]

ApprovalsView(list) ==
    [shows |-> Screen(list), queue |-> [k \in DOMAIN Queue(list.rows) |-> Approval(Queue(list.rows)[k])]]

-------------------------------------------------------------------------------
(* The calls considered. *)

RowIds == <<"i1", "i2", "i3">>
Statuses == InterviewStatuses \cup {"status_from_the_future"}

RowOf(k, status, created, updated, scorecard) ==
    [id |-> RowIds[k], status |-> status, created |-> created, updated |-> updated, scorecard |-> scorecard]

BoardCalls ==
    {[kind |-> "board", simulated |-> simulated, query |-> query,
      interviews |-> [k \in DOMAIN s |-> RowOf(k, s[k], 0, 0, NoScorecard)]] :
        s \in SeqOf(Statuses, MaxRows), simulated \in {"", "i3"}, query \in {"", "i2"}}

Eval(score, verified) == [score |-> score, verified |-> verified]
Scorecards == {NoScorecard, <<Eval(5, "yes")>>, <<Eval(2, "no"), Eval(4, "yes")>>,
               <<Eval(1, "unknown"), Eval(ABSENT_SCORE, "yes")>>}
Drafts == [status : {AGUARDANDO, REJEITADA}, created : {0, 3}, updated : {3, 6}, scorecard : Scorecards]
            \cup [status : {AGUARDANDO}, created : {0}, updated : {4}, scorecard : Scorecards]
MetricsCalls ==
    {[kind |-> "metrics", period |-> period, now |-> 5,
      interviews |-> [k \in DOMAIN s |-> RowOf(k, s[k].status, s[k].created, s[k].updated, s[k].scorecard)]] :
        s \in SeqOf(Drafts, 2), period \in {"24h", "all"}}

ScreenCalls ==
    {[kind |-> "screens", loaded |-> loaded, failed |-> failed, demo |-> demo, playing |-> playing,
      interviews |-> IF loaded THEN [k \in DOMAIN s |-> RowOf(k, s[k], 0, 0, card)] ELSE <<>>] :
        loaded \in BOOLEAN, failed \in BOOLEAN, demo \in BOOLEAN, playing \in {"", "i1"},
        s \in SeqOf({RECEBIDA, AGUARDANDO, FALHOU}, 2), card \in {NoScorecard, <<Eval(2, "no")>>}}

-------------------------------------------------------------------------------
(* What must hold. *)

\* Every interview of a status this client knows is in one place of the board and
\* in one alone, a column or the failures; what a column hides it counts; and the
\* simulated interview is in sight even in a full column
\* (PipelineBoard.tsx:80 "The newest simulation always stays visible").
NobodyIsLostOnTheBoard ==
    input.kind = "board" =>
        LET rows == Summaries(input.interviews)
            column(k) == Column(rows, Stages[k], input.simulated)
        IN  /\ \A k \in DOMAIN rows :
                    Cardinality({c \in DOMAIN Stages : rows[k].status \in Stages[c]})
                        + (IF rows[k] \in ToSet(Failed(rows)) THEN 1 ELSE 0)
                            = (IF rows[k].status \in InterviewStatuses THEN 1 ELSE 0)
            /\ \A c \in DOMAIN Stages : column(c).hidden + Len(column(c).shown) = column(c).count
            /\ \A k \in DOMAIN rows :
                    rows[k].id = input.simulated /\ rows[k].status \in UNION ToSet(Stages) =>
                        \E c \in DOMAIN Stages : rows[k] \in ToSet(column(c).shown)

\* A tile counts the rows that selecting it lists, the search finds no row the
\* filter does not list, and no row that waits for a person is below one that
\* does not (PipelineSummary.tsx, InterviewListView.tsx:36-66).
TilesCountWhatTheyList ==
    input.kind = "board" =>
        LET rows == Summaries(input.interviews)
        IN  \A filter \in Filters :
                LET listed == VisibleRows(rows, filter, "")
                    found == VisibleRows(rows, filter, input.query)
                IN  /\ Tile(rows, filter) = Len(listed)
                    /\ ToSet(found) \subseteq ToSet(listed)
                    /\ \A j, k \in DOMAIN listed : j < k /\ listed[k].needsAction => listed[j].needsAction

\* Whoever waits for a decision is in the approval queue, in the dashboard's, on
\* the tile and in the navigation's number alike, and both queues say the same of
\* the evidence; the queue is by wait, and the dashboard's shows a scorecard with a
\* quote nobody said above every other (ApprovalsView.tsx:30-36,
\* DashboardView.tsx:34-49 "Flagged evidence first, then the longest wait").
NobodyWaitsUnseen ==
    input.kind = "metrics" =>
        LET rows == Summaries(input.interviews)
            queue == Queue(rows)
            awaiting == Awaiting(rows)
            longer(a, b) == a.updated <= b.updated
        IN  /\ ToSet(queue) = ToSet(awaiting)
            /\ Len(queue) = Len(awaiting)
            /\ Len(queue) = Tile(rows, AGUARDANDO)
            /\ Len(queue) = PendingCount(rows)
            /\ \A row \in ToSet(queue) : QueueEvidence(row) = NeedsEvidence(row)
            /\ \A j, k \in DOMAIN queue : j < k => longer(queue[j], queue[k])
            /\ \A j, k \in DOMAIN awaiting :
                    j < k => /\ awaiting[k].alert => awaiting[j].alert
                             /\ awaiting[j].alert = awaiting[k].alert => longer(awaiting[j], awaiting[k])

\* The numbers of a period add up: every row of a known status is counted once,
\* the chart draws every score, a drawn bar is never flat, the arcs of the gauge
\* follow one another within the circle, nothing unchecked lowers the rate, and
\* half of those who wait have waited no longer than the median, which is at most
\* the longest wait (lib/metrics.ts, components/charts).
NumbersAddUp ==
    input.kind = "metrics" =>
        LET rows == WithinPeriod(Summaries(input.interviews), input.period, input.now)
            m == ComputeMetrics(rows, input.now)
            arcs == Arcs(<<m.verified, m.unverified, m.unchecked>>)
            bars == Bars(m.distribution)
            waiting == {k \in DOMAIN rows : rows[k].status = AGUARDANDO}
            waited(limit) == Cardinality({k \in waiting : SinceUpdate(rows[k], input.now) <= limit})
        IN  /\ m.total = m.processing + m.awaitingApproval + m.failed + m.decided
            /\ m.needsAction = m.awaitingApproval + m.failed
            /\ m.verified + m.unverified + m.unchecked = SumOf([k \in DOMAIN rows |-> rows[k].competencies])
            /\ (m.rate = ABSENT_SCORE) = (m.verified + m.unverified = 0)
            /\ m.rate = 100 => m.alerts = 0
            /\ SumOf(m.distribution) = SumOf([k \in DOMAIN rows |-> Len(rows[k].scores)])
            /\ \A k \in DOMAIN bars : (bars[k] = 0) = (m.distribution[k] = 0) /\ bars[k] <= 128
            /\ \A k \in 1 .. 2 : arcs[k].from + arcs[k].length <= arcs[k + 1].from
            /\ m.average # ABSENT_SCORE => m.average \in 1 .. 5
            /\ waiting # {} =>
                    /\ m.medianWait <= m.longestWait
                    /\ 2 * waited(m.medianWait) >= Cardinality(waiting)
                    /\ 2 * waited(m.medianWait - 1) < Cardinality(waiting)
                    /\ m.longestWait >= 0

\* "Nothing is waiting" is said only of a list that was loaded and has nobody: a
\* list that was not loaded says so or offers to try again, one whose refresh
\* failed keeps its rows and, in the list, says they are the last ones; and every
\* screen flags the same quotes of the same people (DashboardView.tsx:51,
\* InterviewListView.tsx:68-109, ApprovalsView.tsx:37-43).
NothingIsNotUnknown ==
    input.kind = "screens" =>
        LET list == [loaded |-> input.loaded, failed |-> input.failed, rows |-> Summaries(input.interviews)]
            dashboard == DashboardView(list, input.demo, "i1", input.playing, "all", 0)
            table == InterviewListView(list, "all", "")
            approvals == ApprovalsView(list)
            cards == UNION {ToSet(dashboard.board.columns[k].cards) : k \in DOMAIN Stages}
        IN  /\ \A screen \in {dashboard.shows, table.shows, approvals.shows} :
                    /\ input.loaded <=> screen = "rows"
                    /\ screen = "error" => input.failed
            /\ approvals.shows = "rows" /\ approvals.queue = <<>> =>
                    \A k \in DOMAIN list.rows : list.rows[k].status # AGUARDANDO
            /\ table.shows = "rows" => /\ table.stale = input.failed
                                      /\ (table.empty = "no") = (list.rows # <<>>)
            /\ ~input.demo => dashboard.action = "new" /\ dashboard.note = "none"
            /\ \A card \in cards, row \in ToSet(table.rows) : card.id = row.id => card.flag = row.flag
            /\ \A entry \in ToSet(approvals.queue), row \in ToSet(table.rows) :
                    entry.id = row.id => /\ entry.evidence.flagged = (row.flag > 0)
                                         /\ row.flag > 0 => entry.evidence.count = row.flag

\* The screens that read the one list count, list and flag the same interviews,
\* and none says more of the list than is known.
ScreensAgree ==
    NobodyIsLostOnTheBoard /\ TilesCountWhatTheyList /\ NobodyWaitsUnseen /\ NumbersAddUp /\ NothingIsNotUnknown
===============================================================================
