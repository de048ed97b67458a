--------------------------- MODULE SharedListProofs ---------------------------
\* The shared list, for any interviews, statuses and bounds: no screen shows a
\* summary of a row that was written since the list was received.
EXTENDS SharedList, TLAPS

\* A row of i, as one of its holders has it: a source that is still read (the
\* demonstration reads no earlier one again), the projector, the screen, an answer.
Held(i, x) ==
    \/ \E d \in Datasets : (demo => d >= dataset) /\ x = rows[d][i]
    \/ x = cache[i]
    \/ raw # NULL /\ x = raw.rows[i]
    \/ \E s \in Slots : requests[s] # NULL /\ requests[s].answer # NULL /\ x = requests[s].answer[i]

\* The demonstration was reset and the provider has not heard of it.
Resetting == demo /\ seen # dataset

\* updated_at tells the versions of a row apart, wherever they are held; while a
\* reset is under way, those the demonstration starts with.
Coherent ==
    \A i \in Ids : \A x, y \in Row :
        Held(i, x) /\ Held(i, y) /\ x.at = y.at /\ (Resetting => x.at = 0) => x = y

\* No row is newer than the clock, which a reset takes back before the screen.
Dated ==
    /\ \A i \in Ids : \A x \in Row : Held(i, x) => x.at <= clock \/ Resetting
    /\ \A i \in Ids, d \in Datasets :
         (demo => d >= dataset) /\ rows[d][i] # NULL => rows[d][i].at <= IF demo /\ d > dataset THEN 0 ELSE clock
    /\ Resetting => clock = 0

DemoAsksNothing == demo => \A s \in Slots : requests[s] = NULL

Counted == clock <= writes /\ revision <= writes /\ seen <= dataset

ListInvariant == TypeOK /\ Counted /\ DemoAsksNothing /\ Coherent /\ Dated /\ SummariesAreCurrent /\ TitlesAreCurrent

-------------------------------------------------------------------------------
(* The projector. *)

LEMMA CachedIsARow ==
  ASSUME NEW c \in Rows, NEW list \in Lists
  PROVE  /\ Cached(c, list) \in Rows /\ Project(c, list) \in [Ids -> Statuses \cup {NULL}]
         /\ \A i \in Ids : Cached(c, list)[i] \in {NULL, c[i], list.rows[i]}
         /\ \A i \in Ids : list.rows[i] # NULL =>
              \/ Cached(c, list)[i] = list.rows[i]
              \/ c[i] # NULL /\ c[i].at = list.rows[i].at /\ Cached(c, list)[i] = c[i]
<1>1. list.rows \in [Ids -> Row \cup {NULL}] /\ c \in [Ids -> Row \cup {NULL}]
  BY DEF Lists, Rows
<1>2. \A i \in Ids : Hit(c[i], list.rows[i]) <=> c[i] # NULL /\ c[i].at = list.rows[i].at
  BY DEF Hit
<1>3. \A x \in Row : x.status \in Statuses
  BY DEF Row
<1> QED BY <1>1, <1>2, <1>3 DEF Cached, Project, Rows

LEMMA ListsOfSources ==
  ASSUME TypeOK, NEW d \in Datasets
  PROVE  ListOf(d) \in Lists /\ ListOf(d).rows = rows[d] /\ ListOf(d).from = d
BY DEF TypeOK, ListOf, Lists

LEMMA NoRowsAreRows == NoRows \in Rows /\ \A i \in Ids : NoRows[i] = NULL
BY DEF NoRows, Rows

\* What the effects of a switch leave in the cache was on the screen.
LEMMA CacheAtSwitchIsHeld ==
  ASSUME TypeOK
  PROVE  /\ CacheAtSwitch \in Rows /\ HeardAtSwitch \in [from : Datasets, statuses : [Ids -> Statuses \cup {NULL}]]
         /\ \A i \in Ids : \A x \in Row : CacheAtSwitch[i] = x => Held(i, x)
<1>1. CASE raw = NULL
  <2>1. 0 \in Datasets /\ NoRows \in [Ids -> Statuses \cup {NULL}]
    BY SharedListAssumption DEF Datasets, NoRows
  <2>2. \A x \in Row : x # NULL
    BY AbsenceAssumption
  <2> QED BY <1>1, <2>1, <2>2, NoRowsAreRows DEF CacheAtSwitch, HeardAtSwitch, Nothing
<1>2. CASE raw # NULL
  <2>1. raw \in Lists
    BY <1>2 DEF TypeOK
  <2>2. /\ Cached(NoRows, raw) \in Rows /\ Project(NoRows, raw) \in [Ids -> Statuses \cup {NULL}]
        /\ \A i \in Ids : Cached(NoRows, raw)[i] \in {NULL, raw.rows[i]}
    BY <2>1, CachedIsARow, NoRowsAreRows
  <2>3. raw.from \in Datasets
    BY <2>1 DEF Lists
  <2>4. \A x \in Row : x # NULL
    BY AbsenceAssumption
  <2> QED BY <1>2, <2>2, <2>3, <2>4 DEF CacheAtSwitch, HeardAtSwitch, Held
<1> QED BY <1>1, <1>2

\* A list that is shown with a cache of rows that agree with it: the summaries are
\* those of the list, and no row is held that was not.
LEMMA ShowIsCurrent ==
  ASSUME TypeOK, NEW list \in Lists, NEW c \in Rows, NEW h, Show(list, c, h),
         h \in [from : Datasets, statuses : [Ids -> Statuses \cup {NULL}]],
         \A i \in Ids : c[i] # NULL /\ list.rows[i] # NULL /\ c[i].at = list.rows[i].at => c[i] = list.rows[i]
  PROVE  /\ raw' = list /\ cache' \in Rows
         /\ heard' \in [from : Datasets, statuses : [Ids -> Statuses \cup {NULL}]]
         /\ announced' \in [from : Datasets, to : Datasets] \cup {NULL}
         /\ SummariesAreCurrent'
         /\ \A i \in Ids : cache'[i] \in {NULL, c[i], list.rows[i]}
         /\ \A i \in Ids : list.rows[i] # NULL => cache'[i] = list.rows[i]
<1>1. raw' = list /\ cache' = Cached(c, list) /\ heard' = [from |-> list.from, statuses |-> Project(c, list)]
      /\ (announced' = announced \/ announced' = [from |-> h.from, to |-> list.from])
  BY DEF Show
<1>2. list.from \in Datasets
  BY DEF Lists
<1>3. \A i \in Ids : list.rows[i] # NULL => cache'[i] = list.rows[i]
  BY <1>1, CachedIsARow
<1>4. SummariesAreCurrent'
  BY <1>1, <1>3 DEF SummariesAreCurrent
<1>5. cache' \in Rows /\ \A i \in Ids : cache'[i] \in {NULL, c[i], list.rows[i]}
  BY <1>1, CachedIsARow
<1>6. heard' \in [from : Datasets, statuses : [Ids -> Statuses \cup {NULL}]]
  BY <1>1, <1>2, CachedIsARow
<1>7. announced' \in [from : Datasets, to : Datasets] \cup {NULL}
  BY <1>1, <1>2 DEF TypeOK
<1> QED BY <1>1, <1>3, <1>4, <1>5, <1>6, <1>7

\* A step that brings no new row leaves the versions told apart.
LEMMA NothingNew ==
  ASSUME ListInvariant, UNCHANGED source, Resetting' <=> Resetting,
         \A i \in Ids : \A x \in Row : Held(i, x)' => Held(i, x)
  PROVE  Coherent' /\ Dated'
<1>1. Coherent'
  BY DEF Coherent, ListInvariant
<1>2. Dated'
  BY DEF Dated, ListInvariant, source
<1> QED BY <1>1, <1>2

-------------------------------------------------------------------------------
(* One step per action. *)

LEMMA WriteOK ==
  ASSUME ListInvariant, NEW d \in Datasets, NEW i \in Ids, Write(d, i)
  PROVE  ListInvariant'
<1>0. UNCHANGED <<demo, dataset, seen, loaded, raw, cache, heard, announced, titles, requests, jobsAsked, faults>>
  BY DEF Write, provider
<1>1. /\ writes < MaxWrites /\ writes' = writes + 1 /\ clock' = clock + 1
      /\ (demo => d = dataset /\ seen = dataset)
      /\ revision' = IF demo THEN revision + 1 ELSE revision
  BY DEF Write
<1>2. PICK st \in Statuses : rows' = [rows EXCEPT ![d][i] = [status |-> st, at |-> clock + 1]]
  BY DEF Write
<1>3. clock \in Nat /\ writes \in Nat /\ revision \in Nat /\ MaxWrites \in Nat
      /\ clock <= writes /\ revision <= writes /\ seen <= dataset
  BY SharedListAssumption DEF ListInvariant, TypeOK, Counted
<1> DEFINE new == [status |-> st, at |-> clock + 1]
<1>4. new \in Row /\ new.at = clock + 1
  BY <1>1, <1>3 DEF Row
<1>5. /\ rows \in [Datasets -> [Ids -> Row \cup {NULL}]]
      /\ rows' \in [Datasets -> [Ids -> Row \cup {NULL}]]
      /\ \A e \in Datasets, j \in Ids : rows'[e][j] = IF e = d /\ j = i THEN new ELSE rows[e][j]
  BY <1>2, <1>4 DEF ListInvariant, TypeOK, Rows
<1> HIDE DEF new
<1>6. TypeOK'
  BY <1>0, <1>1, <1>3, <1>5 DEF ListInvariant, TypeOK, Rows
<1>7. ~Resetting /\ ~Resetting'
  BY <1>0, <1>1 DEF Resetting
<1>8. \A j \in Ids : \A x \in Row : Held(j, x)' => Held(j, x) \/ (j = i /\ x = new)
  BY <1>0, <1>5 DEF Held
<1>9. \A j \in Ids : \A x \in Row : Held(j, x) => x.at <= clock /\ x.at \in Nat
  BY <1>7 DEF ListInvariant, Dated, Row
<1>10. Coherent'
  BY <1>3, <1>4, <1>7, <1>8, <1>9 DEF ListInvariant, Coherent
<1>11. Dated'
  <2>1. \A j \in Ids : \A x \in Row : Held(j, x)' => x.at <= clock'
    BY <1>1, <1>3, <1>4, <1>8, <1>9
  <2>2. ASSUME NEW j \in Ids, NEW e \in Datasets, demo' => e >= dataset', rows'[e][j] # NULL
        PROVE  rows'[e][j].at <= IF demo' /\ e > dataset' THEN 0 ELSE clock'
    <3>1. CASE e = d /\ j = i
      <4>1. ~(demo /\ e > dataset)
        BY <1>1, <3>1 DEF ListInvariant, TypeOK, Datasets
      <4> QED BY <1>0, <1>1, <1>3, <1>4, <1>5, <3>1, <4>1
    <3>2. CASE ~(e = d /\ j = i)
      <4>1. rows'[e][j] = rows[e][j] /\ rows[e][j] \in Row
        BY <1>5, <2>2, <3>2
      <4>2. rows[e][j].at \in Nat
        BY <4>1 DEF Row
      <4>3. rows[e][j].at <= IF demo /\ e > dataset THEN 0 ELSE clock
        BY <1>0, <2>2, <4>1 DEF ListInvariant, Dated
      <4> QED BY <1>0, <1>1, <1>3, <4>1, <4>2, <4>3
    <3> QED BY <3>1, <3>2
  <2> QED BY <1>7, <2>1, <2>2 DEF Dated
<1>12. Counted'
  BY <1>0, <1>1, <1>3 DEF Counted
<1>13. DemoAsksNothing' /\ SummariesAreCurrent' /\ TitlesAreCurrent'
  BY <1>0 DEF ListInvariant, DemoAsksNothing, SummariesAreCurrent, TitlesAreCurrent
<1> QED BY <1>6, <1>10, <1>11, <1>12, <1>13 DEF ListInvariant

LEMMA SwitchDatasetOK ==
  ASSUME ListInvariant, SwitchDataset
  PROVE  ListInvariant'
<1>0. UNCHANGED <<demo, rows, seen, loaded, raw, cache, heard, announced, titles, requests, jobsAsked, writes, faults>>
  BY DEF SwitchDataset, provider
<1>1. /\ dataset < MaxSwitches /\ dataset' = dataset + 1 /\ revision' = 0
      /\ clock' = IF demo THEN 0 ELSE clock
  BY DEF SwitchDataset
<1>2. clock \in Nat /\ writes \in Nat /\ MaxSwitches \in Nat /\ MaxWrites \in Nat /\ clock <= writes /\ seen <= dataset
      /\ dataset \in 0 .. MaxSwitches /\ seen \in 0 .. MaxSwitches
  BY SharedListAssumption DEF ListInvariant, TypeOK, Counted, Datasets
<1>3. TypeOK'
  <2>1. {dataset', seen'} \subseteq Datasets /\ clock' \in 0 .. MaxWrites /\ {revision', loaded'} \subseteq 0 .. MaxWrites
    BY <1>0, <1>1, <1>2 DEF Datasets, ListInvariant, TypeOK
  <2> QED BY <1>0, <2>1 DEF ListInvariant, TypeOK
<1>4. Counted'
  BY <1>0, <1>1, <1>2 DEF Counted
<1>5. \A i \in Ids : \A x \in Row : Held(i, x)' => Held(i, x)
  <2>1. \A d \in Datasets : d >= dataset' => d >= dataset
    BY <1>1, <1>2 DEF Datasets
  <2> QED BY <1>0, <2>1 DEF Held
<1>6. CASE ~demo
  <2>1. ~Resetting /\ ~Resetting' /\ clock' = clock
    BY <1>0, <1>1, <1>6 DEF Resetting
  <2>2. Coherent'
    BY <1>5, <2>1 DEF ListInvariant, Coherent
  <2>3. Dated'
    BY <1>0, <1>5, <1>6, <2>1 DEF ListInvariant, Dated
  <2> QED BY <1>0, <1>3, <1>4, <2>2, <2>3
     DEF ListInvariant, DemoAsksNothing, SummariesAreCurrent, TitlesAreCurrent
<1>7. CASE demo /\ Resetting'
  <2>1. Coherent'
    <3> SUFFICES ASSUME NEW i \in Ids, NEW x \in Row, NEW y \in Row,
                        Held(i, x)', Held(i, y)', x.at = y.at, x.at = 0
                 PROVE  x = y
      BY <1>7 DEF Coherent
    <3> QED BY <1>5 DEF ListInvariant, Coherent
  <2>2. \A i \in Ids, d \in Datasets :
           d >= dataset' /\ rows'[d][i] # NULL => rows'[d][i].at <= 0
    <3>1. \A d \in Datasets : d >= dataset' => d >= dataset /\ d > dataset
      BY <1>1, <1>2 DEF Datasets
    <3> QED BY <1>0, <1>7, <3>1 DEF ListInvariant, Dated
  <2>3. Dated'
    BY <1>0, <1>1, <1>7, <2>2 DEF Dated
  <2> QED BY <1>0, <1>3, <1>4, <2>1, <2>3
     DEF ListInvariant, DemoAsksNothing, SummariesAreCurrent, TitlesAreCurrent
<1> QED BY <1>0, <1>1, <1>2, <1>6, <1>7 DEF Resetting

\* A request that is sent holds no row yet.
LEMMA AskOK ==
  ASSUME TypeOK, NEW t \in Slots, Ask(t)
  PROVE  /\ requests' \in [Slots -> Requests \cup {NULL}]
         /\ \A s \in Slots : requests'[s] # NULL /\ requests'[s].answer # NULL => requests'[s] = requests[s]
<1> DEFINE asked == [from |-> dataset, answer |-> NULL, failed |-> FALSE]
<1>1. asked \in Requests /\ asked.answer = NULL
  BY DEF TypeOK, Requests
<1>2. requests' = [requests EXCEPT ![t] = asked]
  BY DEF Ask
<1> HIDE DEF asked
<1> QED BY <1>1, <1>2 DEF TypeOK

LEMMA CommitSwitchOK ==
  ASSUME ListInvariant, CommitSwitch
  PROVE  ListInvariant'
<1>0. /\ UNCHANGED source /\ UNCHANGED <<demo, rows, clock, dataset, revision, writes, faults>>
      /\ seen # dataset /\ seen' = dataset /\ loaded' = revision /\ titles' = NULL
      /\ jobsAsked' = jobsAsked \cup {dataset}
  BY DEF CommitSwitch, source
<1>1. TypeOK /\ dataset \in Datasets /\ revision \in 0 .. MaxWrites
  BY DEF ListInvariant, TypeOK
<1>2. ~Resetting' /\ TitlesAreCurrent' /\ Counted'
  <2>1. dataset >= dataset
    BY <1>1 DEF Datasets
  <2> QED BY <1>0, <2>1 DEF Resetting, TitlesAreCurrent, ListInvariant, Counted
<1>3. CASE demo
  <2>1. Show(ListOf(dataset), CacheAtSwitch, HeardAtSwitch) /\ requests' = requests
    BY <1>3 DEF CommitSwitch
  <2>2. Resetting /\ clock = 0
    BY <1>0, <1>3 DEF Resetting, ListInvariant, Dated
  <2>3. ListOf(dataset) \in Lists /\ ListOf(dataset).rows = rows[dataset]
    BY <1>1, ListsOfSources
  <2>4. dataset >= dataset
    BY <1>1 DEF Datasets
  <2>5. \A i \in Ids : rows[dataset][i] # NULL => rows[dataset][i] \in Row /\ Held(i, rows[dataset][i])
    BY <1>1, <2>4 DEF Held, TypeOK, Rows
  <2>6. \A d \in Datasets : d >= dataset => \A i \in Ids : rows[d][i] # NULL => rows[d][i].at = 0
    <3>1. SUFFICES ASSUME NEW d \in Datasets, d >= dataset, NEW i \in Ids, rows[d][i] # NULL
                   PROVE  rows[d][i].at = 0
      OBVIOUS
    <3>2. rows[d][i] \in Row
      BY <1>1, <3>1 DEF TypeOK, Rows
    <3>3. rows[d][i].at \in Nat
      BY <3>2, SharedListAssumption DEF Row
    <3>4. rows[d][i].at <= 0
      BY <2>2, <3>1 DEF ListInvariant, Dated
    <3> QED BY <3>3, <3>4
  <2>7. CacheAtSwitch \in Rows /\ \A i \in Ids : \A x \in Row : CacheAtSwitch[i] = x => Held(i, x)
    BY <1>1, CacheAtSwitchIsHeld
  <2>8. \A i \in Ids : CacheAtSwitch[i] # NULL /\ rows[dataset][i] # NULL /\ CacheAtSwitch[i].at = rows[dataset][i].at
                         => CacheAtSwitch[i] = rows[dataset][i]
    <3>1. SUFFICES ASSUME NEW i \in Ids, CacheAtSwitch[i] # NULL, rows[dataset][i] # NULL,
                          CacheAtSwitch[i].at = rows[dataset][i].at
                   PROVE  CacheAtSwitch[i] = rows[dataset][i]
      OBVIOUS
    <3>2. CacheAtSwitch[i] \in Row /\ Held(i, CacheAtSwitch[i])
      BY <2>7, <3>1 DEF Rows
    <3>3. rows[dataset][i].at = 0
      BY <1>1, <2>4, <2>6, <3>1
    <3> QED BY <2>5, <3>1, <3>2, <3>3 DEF ListInvariant, Coherent
  <2>9. /\ raw' = ListOf(dataset) /\ cache' \in Rows
        /\ heard' \in [from : Datasets, statuses : [Ids -> Statuses \cup {NULL}]]
        /\ announced' \in [from : Datasets, to : Datasets] \cup {NULL}
        /\ SummariesAreCurrent'
        /\ \A i \in Ids : cache'[i] \in {NULL, CacheAtSwitch[i], rows[dataset][i]}
        /\ \A i \in Ids : rows[dataset][i] # NULL => cache'[i] = rows[dataset][i]
    BY <1>1, <2>1, <2>3, <2>7, <2>8, ShowIsCurrent, CacheAtSwitchIsHeld
  <2>10. \A i \in Ids : cache'[i] \in {NULL, rows[dataset][i]}
    <3>1. cache' = Cached(CacheAtSwitch, ListOf(dataset))
      BY <2>1 DEF Show
    <3> QED BY <2>3, <2>9, <3>1 DEF Cached
  <2>11. \A i \in Ids : \A x \in Row : Held(i, x)' => Held(i, x) /\ x.at = 0
    <3>1. \A i \in Ids : \A x \in Row : Held(i, x)' => \E d \in Datasets : d >= dataset /\ x = rows[d][i]
      <4>1. \A s \in Slots : requests'[s] = NULL
        BY <1>3, <2>1 DEF ListInvariant, DemoAsksNothing
      <4>2. \A x \in Row : x # NULL
        BY AbsenceAssumption
      <4> QED BY <1>0, <1>1, <1>3, <2>3, <2>4, <2>9, <2>10, <4>1, <4>2 DEF Held
    <3>2. \A x \in Row : x # NULL
      BY AbsenceAssumption
    <3> QED BY <1>3, <2>6, <3>1, <3>2 DEF Held
  <2>12. Coherent'
    BY <2>2, <2>11 DEF ListInvariant, Coherent
  <2>13. Dated'
    <3>1. \A i \in Ids : \A x \in Row : Held(i, x)' => x.at <= clock'
      BY <1>0, <2>2, <2>11
    <3>2. \A i \in Ids, d \in Datasets : d >= dataset /\ rows[d][i] # NULL => rows[d][i].at <= 0
      BY <2>6
    <3> QED BY <1>0, <1>2, <1>3, <2>2, <3>1, <3>2 DEF Dated
  <2>14. TypeOK'
    BY <1>0, <1>1, <2>1, <2>3, <2>9 DEF TypeOK
  <2> QED BY <1>0, <1>2, <1>3, <2>1, <2>9, <2>12, <2>13, <2>14 DEF ListInvariant, DemoAsksNothing
<1>4. CASE ~demo
  <2>1. PICK t \in Slots : Ask(t)
    BY <1>4 DEF CommitSwitch
  <2>2. raw' = NULL /\ cache' = CacheAtSwitch /\ heard' = HeardAtSwitch /\ announced' = announced
    BY <1>4 DEF CommitSwitch
  <2>3. TypeOK'
    BY <1>0, <1>1, <2>1, <2>2, AskOK, CacheAtSwitchIsHeld DEF TypeOK
  <2>4. \A i \in Ids : \A x \in Row : Held(i, x)' => Held(i, x)
    BY <1>0, <1>1, <2>1, <2>2, AskOK, CacheAtSwitchIsHeld DEF Held
  <2>5. Resetting' <=> Resetting
    BY <1>0, <1>4 DEF Resetting
  <2> QED BY <1>0, <1>2, <1>4, <2>2, <2>3, <2>4, <2>5, NothingNew
     DEF ListInvariant, DemoAsksNothing, SummariesAreCurrent
<1> QED BY <1>3, <1>4

LEMMA CommitRevisionOK ==
  ASSUME ListInvariant, CommitRevision
  PROVE  ListInvariant'
<1>1. /\ UNCHANGED source /\ UNCHANGED <<demo, rows, clock, dataset, revision, seen, requests, titles, jobsAsked, writes, faults>>
      /\ demo /\ seen = dataset /\ loaded' = revision /\ Show(ListOf(dataset), cache, heard)
  BY DEF CommitRevision, source
<1>2. TypeOK /\ dataset \in Datasets /\ cache \in Rows /\ revision \in 0 .. MaxWrites
      /\ heard \in [from : Datasets, statuses : [Ids -> Statuses \cup {NULL}]]
  BY DEF ListInvariant, TypeOK
<1>3. ListOf(dataset) \in Lists /\ ListOf(dataset).rows = rows[dataset]
  BY <1>2, ListsOfSources
<1>4. dataset >= dataset
  BY <1>2 DEF Datasets
<1>5. \A i \in Ids : rows[dataset][i] # NULL => rows[dataset][i] \in Row /\ Held(i, rows[dataset][i])
  BY <1>2, <1>4 DEF Held, TypeOK, Rows
<1>6. \A i \in Ids : cache[i] # NULL => cache[i] \in Row /\ Held(i, cache[i])
  BY <1>2 DEF Held, Rows
<1>7. ~Resetting /\ ~Resetting'
  BY <1>1 DEF Resetting
<1>8. \A i \in Ids : cache[i] # NULL /\ rows[dataset][i] # NULL /\ cache[i].at = rows[dataset][i].at
                       => cache[i] = rows[dataset][i]
  BY <1>5, <1>6, <1>7 DEF ListInvariant, Coherent
<1>9. /\ raw' = ListOf(dataset) /\ cache' \in Rows
      /\ heard' \in [from : Datasets, statuses : [Ids -> Statuses \cup {NULL}]]
      /\ announced' \in [from : Datasets, to : Datasets] \cup {NULL}
      /\ SummariesAreCurrent'
      /\ \A i \in Ids : cache'[i] \in {NULL, cache[i], rows[dataset][i]}
  BY <1>1, <1>2, <1>3, <1>8, ShowIsCurrent
<1>10. \A i \in Ids : \A x \in Row : Held(i, x)' => Held(i, x)
  <2>1. \A x \in Row : x # NULL
    BY AbsenceAssumption
  <2> QED BY <1>1, <1>2, <1>3, <1>4, <1>9, <2>1 DEF Held
<1>11. Coherent' /\ Dated'
  BY <1>1, <1>7, <1>10, NothingNew
<1>12. TypeOK'
  BY <1>1, <1>2, <1>3, <1>9 DEF TypeOK
<1> QED BY <1>1, <1>9, <1>11, <1>12 DEF ListInvariant, Counted, DemoAsksNothing, TitlesAreCurrent

\* A request that is sent, answered, failed or dropped, and holds no row that was
\* not held before.
LEMMA RequestOK ==
  ASSUME ListInvariant, UNCHANGED <<source, provider, writes>>,
         requests' \in [Slots -> Requests \cup {NULL}], jobsAsked' = jobsAsked, faults' \in 0 .. MaxFaults,
         demo => requests' = requests,
         \A s \in Slots : requests'[s] # NULL /\ requests'[s].answer # NULL =>
            \/ requests[s] # NULL /\ requests'[s].answer = requests[s].answer
            \/ \E d \in Datasets : ~demo /\ requests'[s].answer = rows[d]
  PROVE  ListInvariant'
<1>0. UNCHANGED <<demo, rows, clock, dataset, revision, seen, loaded, raw, cache, heard, announced, titles>>
  BY DEF source, provider
<1>1. TypeOK'
  BY <1>0 DEF ListInvariant, TypeOK
<1>2. \A i \in Ids : \A x \in Row : Held(i, x)' => Held(i, x)
  BY <1>0 DEF Held
<1>3. Resetting' <=> Resetting
  BY <1>0 DEF Resetting
<1> QED BY <1>0, <1>1, <1>2, <1>3, NothingNew
   DEF ListInvariant, Counted, DemoAsksNothing, SummariesAreCurrent, TitlesAreCurrent

LEMMA AskingOK ==
  ASSUME ListInvariant, NEW t \in Slots, Poll(t) \/ Reload(t)
  PROVE  ListInvariant'
<1>1. ~demo /\ Ask(t) /\ UNCHANGED <<source, provider, jobsAsked, writes, faults>>
  BY DEF Poll, Reload, PollingEnabled
<1>2. TypeOK /\ faults \in 0 .. MaxFaults
  BY DEF ListInvariant, TypeOK
<1>3. /\ requests' \in [Slots -> Requests \cup {NULL}]
      /\ \A s \in Slots : requests'[s] # NULL /\ requests'[s].answer # NULL => requests'[s] = requests[s]
  BY <1>1, <1>2, AskOK
<1> QED BY <1>1, <1>2, <1>3, RequestOK

LEMMA AnsweringOK ==
  ASSUME ListInvariant, NEW t \in Slots, Answer(t)
  PROVE  ListInvariant'
<1>1. /\ requests[t] # NULL /\ UNCHANGED <<source, provider, jobsAsked, writes, faults>>
      /\ requests' = [requests EXCEPT ![t].answer = rows[requests[t].from]]
  BY DEF Answer
<1>2. TypeOK /\ faults \in 0 .. MaxFaults /\ ~demo
  BY <1>1 DEF ListInvariant, TypeOK, DemoAsksNothing
<1>3. requests[t] \in Requests /\ requests[t].from \in Datasets /\ rows[requests[t].from] \in Rows
  BY <1>1, <1>2 DEF TypeOK, Requests
<1>4. requests'[t] \in Requests /\ requests'[t].answer = rows[requests[t].from]
  BY <1>1, <1>2, <1>3 DEF TypeOK, Requests
<1>5. requests' \in [Slots -> Requests \cup {NULL}] /\ \A s \in Slots \ {t} : requests'[s] = requests[s]
  BY <1>1, <1>2, <1>4 DEF TypeOK
<1> QED BY <1>1, <1>2, <1>3, <1>4, <1>5, RequestOK

LEMMA FailingOK ==
  ASSUME ListInvariant, NEW t \in Slots, Fail(t)
  PROVE  ListInvariant'
<1>1. /\ requests[t] # NULL /\ UNCHANGED <<source, provider, jobsAsked, writes>>
      /\ faults < MaxFaults /\ faults' = faults + 1
      /\ requests' = [requests EXCEPT ![t].failed = TRUE]
  BY DEF Fail
<1>2. TypeOK /\ faults' \in 0 .. MaxFaults /\ ~demo
  BY <1>1, SharedListAssumption DEF ListInvariant, TypeOK, DemoAsksNothing
<1>3. requests[t] \in Requests
  BY <1>1, <1>2 DEF TypeOK
<1>4. requests'[t] \in Requests /\ requests'[t].answer = requests[t].answer
  BY <1>1, <1>2, <1>3 DEF TypeOK, Requests
<1>5. requests' \in [Slots -> Requests \cup {NULL}] /\ \A s \in Slots \ {t} : requests'[s] = requests[s]
  BY <1>1, <1>2, <1>4 DEF TypeOK
<1> QED BY <1>1, <1>2, <1>4, <1>5, RequestOK

LEMMA ListFailingOK ==
  ASSUME ListInvariant, NEW t \in Slots, ListFails(t)
  PROVE  ListInvariant'
<1>1. /\ requests[t] # NULL /\ UNCHANGED <<source, provider, jobsAsked, writes, faults>>
      /\ requests' = [requests EXCEPT ![t] = NULL]
  BY DEF ListFails
<1>2. TypeOK /\ faults \in 0 .. MaxFaults /\ ~demo
  BY <1>1 DEF ListInvariant, TypeOK, DemoAsksNothing
<1>3. requests' \in [Slots -> Requests \cup {NULL}]
      /\ \A s \in Slots : requests'[s] # NULL => requests'[s] = requests[s]
  BY <1>1, <1>2 DEF TypeOK
<1> QED BY <1>1, <1>2, <1>3, RequestOK

LEMMA ListArrivingOK ==
  ASSUME ListInvariant, NEW t \in Slots, ListArrives(t)
  PROVE  ListInvariant'
<1> DEFINE r == requests[t]
           list == [from |-> r.from, rows |-> r.answer]
<1>1. /\ r # NULL /\ r.answer # NULL /\ requests' = [requests EXCEPT ![t] = NULL]
      /\ Show(list, cache, heard)
      /\ UNCHANGED <<demo, rows, clock, dataset, revision, seen, loaded, titles, jobsAsked, writes, faults>>
      /\ UNCHANGED source
  BY DEF ListArrives, source
<1>2. TypeOK /\ ~demo /\ cache \in Rows /\ r \in Requests
      /\ heard \in [from : Datasets, statuses : [Ids -> Statuses \cup {NULL}]]
  BY <1>1 DEF ListInvariant, TypeOK, DemoAsksNothing
<1>3. list \in Lists /\ list.rows = r.answer /\ r.answer \in Rows
  BY <1>1, <1>2 DEF Requests, Lists
<1>4. \A i \in Ids : r.answer[i] # NULL => r.answer[i] \in Row /\ Held(i, r.answer[i])
  BY <1>1, <1>3 DEF Held, Rows
<1>5. \A i \in Ids : cache[i] # NULL => cache[i] \in Row /\ Held(i, cache[i])
  BY <1>2 DEF Held, Rows
<1>6. ~Resetting /\ ~Resetting'
  BY <1>1, <1>2 DEF Resetting
<1>7. \A i \in Ids : cache[i] # NULL /\ r.answer[i] # NULL /\ cache[i].at = r.answer[i].at => cache[i] = r.answer[i]
  BY <1>4, <1>5, <1>6 DEF ListInvariant, Coherent
<1>8. /\ raw' = list /\ cache' \in Rows
      /\ heard' \in [from : Datasets, statuses : [Ids -> Statuses \cup {NULL}]]
      /\ announced' \in [from : Datasets, to : Datasets] \cup {NULL}
      /\ SummariesAreCurrent'
      /\ \A i \in Ids : cache'[i] \in {NULL, cache[i], r.answer[i]}
  <2> HIDE DEF list
  <2> QED BY <1>1, <1>2, <1>3, <1>7, ShowIsCurrent
<1>9. requests' \in [Slots -> Requests \cup {NULL}]
      /\ \A s \in Slots : requests'[s] # NULL => requests'[s] = requests[s]
  BY <1>1, <1>2 DEF TypeOK
<1>10. \A i \in Ids : \A x \in Row : Held(i, x)' => Held(i, x)
  <2>1. raw'.rows = r.answer
    BY <1>3, <1>8
  <2>2. \A x \in Row : x # NULL
    BY AbsenceAssumption
  <2> QED BY <1>1, <1>8, <1>9, <2>1, <2>2 DEF Held
<1>11. Coherent' /\ Dated'
  BY <1>1, <1>6, <1>10, NothingNew
<1>12. TypeOK'
  BY <1>1, <1>2, <1>3, <1>8, <1>9 DEF TypeOK
<1> QED BY <1>1, <1>2, <1>8, <1>11, <1>12 DEF ListInvariant, Counted, DemoAsksNothing, TitlesAreCurrent

LEMMA JobsOK ==
  ASSUME ListInvariant, NEW d \in Datasets, JobsArrive(d) \/ JobsFail(d)
  PROVE  ListInvariant'
<1>1. /\ UNCHANGED <<demo, rows, clock, dataset, revision, seen, loaded, raw, cache, heard, announced, requests, writes, faults>>
      /\ UNCHANGED source
      /\ jobsAsked' = jobsAsked \ {d} /\ (titles' = titles \/ (d = seen /\ titles' = d))
  <2>1. CASE JobsArrive(d)
    <3>1. /\ UNCHANGED <<source, seen, loaded, raw, cache, heard, announced, requests, writes, faults>>
          /\ jobsAsked' = jobsAsked \ {d} /\ titles' = IF d = seen THEN d ELSE titles
      BY <2>1 DEF JobsArrive, LiveJobs
    <3>2. titles' = titles \/ (d = seen /\ titles' = d)
      BY <3>1
    <3> QED BY <3>1, <3>2 DEF source
  <2>2. CASE JobsFail(d)
    <3>1. UNCHANGED <<source, provider, requests, writes, faults>> /\ jobsAsked' = jobsAsked \ {d}
      BY <2>2 DEF JobsFail
    <3> QED BY <3>1 DEF source, provider
  <2> QED BY <2>1, <2>2
<1>2. TypeOK' /\ TitlesAreCurrent'
  BY <1>1 DEF ListInvariant, TypeOK, TitlesAreCurrent
<1>3. (Resetting' <=> Resetting) /\ \A i \in Ids : \A x \in Row : Held(i, x)' => Held(i, x)
  BY <1>1 DEF Resetting, Held
<1> QED BY <1>1, <1>2, <1>3, NothingNew DEF ListInvariant, Counted, DemoAsksNothing, SummariesAreCurrent

LEMMA StutterOK ==
  ASSUME ListInvariant, UNCHANGED vars
  PROVE  ListInvariant'
<1>1. TypeOK /\ faults \in 0 .. MaxFaults
  BY DEF ListInvariant, TypeOK
<1>2. UNCHANGED <<source, provider, requests, jobsAsked, writes, faults>>
  BY DEF vars
<1>3. requests \in [Slots -> Requests \cup {NULL}]
  BY <1>1 DEF TypeOK
<1> QED BY <1>1, <1>2, <1>3, RequestOK

LEMMA InitList == Init => ListInvariant
<1> SUFFICES ASSUME Init PROVE ListInvariant
  OBVIOUS
<1>1. PICK r \in [Ids -> [status : Statuses, at : {0}] \cup {NULL}] : rows = [d \in Datasets |-> r]
  BY DEF Init
<1>2. {MaxSwitches, MaxWrites, MaxFaults} \subseteq Nat
  BY SharedListAssumption
<1>3. 0 \in Datasets /\ 0 \in 0 .. MaxWrites /\ 0 \in 0 .. MaxFaults
  BY <1>2 DEF Datasets
<1>4. \A i \in Ids : r[i] # NULL => r[i] \in Row /\ r[i].at = 0
  BY <1>3 DEF Row
<1>5. r \in Rows
  BY <1>4 DEF Rows
<1>6. /\ demo \in Modes /\ clock = 0 /\ dataset = 0 /\ revision = 0 /\ seen = 0 /\ loaded = 0
      /\ announced = NULL /\ requests = [s \in Slots |-> NULL] /\ titles = NULL /\ jobsAsked = {0}
      /\ writes = 0 /\ faults = 0
  BY DEF Init
<1>7. ListOf(0) \in Lists /\ ListOf(0).rows = r /\ ListOf(0).from = 0
  BY <1>1, <1>3, <1>5 DEF ListOf, Lists
<1>8. rows \in [Datasets -> Rows] /\ \A d \in Datasets : rows[d] = r
  BY <1>1, <1>5
<1>9. /\ raw \in Lists \cup {NULL} /\ cache \in Rows
      /\ heard \in [from : Datasets, statuses : [Ids -> Statuses \cup {NULL}]]
      /\ SummariesAreCurrent
      /\ \A i \in Ids : \A x \in Row : x = cache[i] \/ (raw # NULL /\ x = raw.rows[i]) => x = r[i]
  <2>1. CASE demo
    <3>1. /\ raw = ListOf(0) /\ cache = Cached(NoRows, ListOf(0))
          /\ heard = [from |-> 0, statuses |-> Project(NoRows, ListOf(0))]
      BY <2>1 DEF Init
    <3>2. /\ Cached(NoRows, ListOf(0)) \in Rows /\ Project(NoRows, ListOf(0)) \in [Ids -> Statuses \cup {NULL}]
          /\ \A i \in Ids : Cached(NoRows, ListOf(0))[i] \in {NULL, r[i]}
          /\ \A i \in Ids : r[i] # NULL => Cached(NoRows, ListOf(0))[i] = r[i]
      BY <1>7, CachedIsARow, NoRowsAreRows
    <3>3. SummariesAreCurrent
      BY <1>7, <3>1, <3>2 DEF SummariesAreCurrent
    <3>4. \A x \in Row : x # NULL
      BY AbsenceAssumption
    <3> QED BY <1>3, <1>7, <3>1, <3>2, <3>3, <3>4
  <2>2. CASE ~demo
    <3>1. raw = NULL /\ cache = NoRows /\ heard = Nothing
      BY <2>2 DEF Init
    <3>2. Nothing \in [from : Datasets, statuses : [Ids -> Statuses \cup {NULL}]]
      BY <1>3 DEF Nothing, NoRows
    <3>3. \A x \in Row : x # NULL
      BY AbsenceAssumption
    <3> QED BY <3>1, <3>2, <3>3, NoRowsAreRows DEF SummariesAreCurrent
  <2> QED BY <2>1, <2>2
<1>10. TypeOK
  <2>1. {dataset, seen} \subseteq Datasets /\ {revision, loaded} \subseteq 0 .. MaxWrites
    BY <1>3, <1>6
  <2>2. requests \in [Slots -> Requests \cup {NULL}] /\ jobsAsked \subseteq Datasets
    BY <1>3, <1>6
  <2> QED BY <1>3, <1>6, <1>8, <1>9, <2>1, <2>2 DEF TypeOK
<1>11. \A i \in Ids : \A x \in Row : Held(i, x) => x = r[i] /\ x.at = 0
  <2>1. \A x \in Row : x # NULL
    BY AbsenceAssumption
  <2> QED BY <1>4, <1>6, <1>8, <1>9, <2>1 DEF Held
<1>12. Coherent
  BY <1>11 DEF Coherent
<1>13. Dated
  <2>1. \A i \in Ids, d \in Datasets : rows[d][i] # NULL => rows[d][i].at = 0
    BY <1>4, <1>8
  <2> QED BY <1>6, <1>11, <2>1 DEF Dated, Resetting
<1> QED BY <1>6, <1>9, <1>10, <1>12, <1>13
   DEF ListInvariant, Counted, DemoAsksNothing, TitlesAreCurrent

LEMMA NextList == ListInvariant /\ [Next]_vars => ListInvariant'
<1> SUFFICES ASSUME ListInvariant, [Next]_vars PROVE ListInvariant'
  OBVIOUS
<1>1. ASSUME NEW d \in Datasets, NEW i \in Ids, Write(d, i) PROVE ListInvariant'
  BY <1>1, WriteOK
<1>2. CASE SwitchDataset
  BY <1>2, SwitchDatasetOK
<1>3. CASE Commit
  BY <1>3, CommitSwitchOK, CommitRevisionOK DEF Commit
<1>4. ASSUME NEW s \in Slots, Poll(s) \/ Reload(s) \/ Fail(s) \/ Delivered(s) PROVE ListInvariant'
  BY <1>4, AskingOK, FailingOK, AnsweringOK, ListArrivingOK, ListFailingOK DEF Delivered
<1>5. ASSUME NEW d \in Datasets, JobsArrive(d) \/ JobsFail(d) PROVE ListInvariant'
  BY <1>5, JobsOK
<1>6. CASE UNCHANGED vars
  BY <1>6, StutterOK
<1> QED BY <1>1, <1>2, <1>3, <1>4, <1>5, <1>6 DEF Next

-------------------------------------------------------------------------------
(* What the demonstration's list was read from. *)

\* The demonstration's revision only grows between two resets, and grows with every
\* write: the list on the screen is that of the revision it was loaded at.
DemoInvariant ==
    demo /\ seen = dataset =>
        /\ loaded <= revision
        /\ loaded = revision => raw = ListOf(dataset)

LEMMA InitDemo == Init => DemoInvariant
BY DEF Init, DemoInvariant

\* Steps that touch none of what the invariant relates.
LEMMA DemoUntouched ==
  ASSUME DemoInvariant, UNCHANGED <<demo, rows, dataset, revision, seen, loaded, raw>>
  PROVE  DemoInvariant'
BY DEF DemoInvariant, ListOf

\* Of the demonstration nothing is asked, so only its own actions and commits matter.
LEMMA NextDemo == ListInvariant /\ DemoInvariant /\ [Next]_vars => DemoInvariant'
<1> SUFFICES ASSUME ListInvariant, DemoInvariant, [Next]_vars PROVE DemoInvariant'
  OBVIOUS
<1>0. TypeOK /\ dataset \in Nat /\ seen \in Nat /\ seen <= dataset /\ revision \in Nat /\ loaded \in Nat
  BY SharedListAssumption DEF ListInvariant, TypeOK, Counted, Datasets
<1>1. ASSUME NEW d \in Datasets, NEW i \in Ids, Write(d, i) PROVE DemoInvariant'
  <2>1. UNCHANGED <<demo, dataset, seen, loaded>> /\ (demo => revision' = revision + 1)
    BY <1>1 DEF Write, provider
  <2> QED BY <1>0, <2>1 DEF DemoInvariant
<1>2. CASE SwitchDataset
  <2>1. dataset' = dataset + 1 /\ seen' = seen
    BY <1>2 DEF SwitchDataset, provider
  <2> QED BY <1>0, <2>1 DEF DemoInvariant
<1>3. CASE CommitSwitch
  <2>1. UNCHANGED <<demo, rows, dataset, revision>> /\ loaded' = revision /\ (demo => raw' = ListOf(dataset))
    BY <1>3 DEF CommitSwitch, Show, source
  <2> QED BY <1>0, <2>1 DEF DemoInvariant, ListOf
<1>4. CASE CommitRevision
  <2>1. UNCHANGED <<demo, rows, dataset, revision>> /\ loaded' = revision /\ raw' = ListOf(dataset)
    BY <1>4 DEF CommitRevision, Show, source
  <2> QED BY <1>0, <2>1 DEF DemoInvariant, ListOf
<1>5. ASSUME NEW s \in Slots, Poll(s) \/ Reload(s) \/ Fail(s) \/ Delivered(s) PROVE DemoInvariant'
  <2>1. CASE ListArrives(s)
    <3>1. ~demo /\ demo' = demo
      BY <2>1 DEF ListArrives, ListInvariant, DemoAsksNothing, source
    <3> QED BY <3>1 DEF DemoInvariant
  <2>2. CASE ~ListArrives(s)
    <3>1. UNCHANGED <<source, provider>>
      BY <1>5, <2>2 DEF Poll, Reload, Fail, Delivered, Answer, ListFails
    <3> QED BY <3>1, DemoUntouched DEF source, provider
  <2> QED BY <2>1, <2>2
<1>6. ASSUME NEW d \in Datasets, JobsArrive(d) \/ JobsFail(d) PROVE DemoInvariant'
  <2>1. UNCHANGED <<source, seen, loaded, raw>>
    BY <1>6 DEF JobsArrive, JobsFail, provider
  <2> QED BY <2>1, DemoUntouched DEF source
<1>7. CASE UNCHANGED vars
  BY <1>7, DemoUntouched DEF vars, source, provider
<1> QED BY <1>1, <1>2, <1>3, <1>4, <1>5, <1>6, <1>7 DEF Next, Commit

-------------------------------------------------------------------------------
(* Theorems. *)

LEMMA ListInvariantHolds == Spec => []ListInvariant
<1> QED BY InitList, NextList, PTL DEF Spec

\* The variables of InterviewsProvider.tsx keep their types.
THEOREM ListTypeCorrect == Spec => []TypeOK
<1>1. ListInvariant => TypeOK
  BY DEF ListInvariant
<1> QED BY <1>1, ListInvariantHolds, PTL

\* No screen shows a summary of a row written since the list was received, for any
\* number of requests that overtake each other, of writes and of switches or
\* resets (lib/projection.ts:120-129).
THEOREM SummariesStayCurrent == Spec => []SummariesAreCurrent
<1>1. ListInvariant => SummariesAreCurrent
  BY DEF ListInvariant
<1> QED BY <1>1, ListInvariantHolds, PTL

\* The job titles shown are those of the dataset on the screen, however many sets
\* of them are under way (InterviewsProvider.tsx:121-134).
THEOREM TitlesStayCurrent == Spec => []TitlesAreCurrent
<1>1. ListInvariant => TitlesAreCurrent
  BY DEF ListInvariant
<1> QED BY <1>1, ListInvariantHolds, PTL

\* When React has nothing left to commit, the demonstration's list is its state,
\* after any number of actions and of resets, none of which is polled for
\* (InterviewsProvider.tsx:99-143).
THEOREM DemoStaysRead == Spec => []DemoIsReread
<1>1. Spec => []DemoInvariant
  BY ListInvariantHolds, InitDemo, NextDemo, PTL DEF Spec
<1>2. DemoInvariant => DemoIsReread
  BY DEF DemoInvariant, DemoIsReread, NothingToCommit, Reread
<1> QED BY <1>1, <1>2, PTL
===============================================================================
