------------------------------- MODULE TourProofs -------------------------------
\* The guided tour, for any dataset and bounds: in a tab that was left alone every
\* step finds the interview it is about, and in any tab the tour's own buttons lead
\* to one that is processed.
EXTENDS Tour, DemoProofs

\* The hypothesis of StepsFindTheirInterview.
Undisturbed == reloads + demo.generation = 0 /\ \A i \in FailedSeeds : StatusOf(demo, i) = FALHOU

\* What an address needs of the demonstration.
Finds(h) ==
    /\ Requires(h.step) # NULL => demo.simulated # NULL
    /\ OpensInterview(h.step) => HasScorecard(h.id)

\* So does the entry behind it, and an interview that is walked is the tour's.
TourInvariant ==
    /\ Possible(demo)
    /\ hash \in Hashes /\ behind \in Hashes \cup {NULL} /\ stored \in 0 .. 9 /\ reloads \in Nat
    /\ Undisturbed =>
        /\ Finds(hash) /\ (behind # NULL => Finds(behind))
        /\ playing # NULL => demo.simulated # NULL

\* What no action but a reset takes from the tour: the interview it simulated, a
\* scorecard, and that the failures of the dataset are as they were.
Kept(d, e) ==
    /\ e.generation = d.generation
    /\ d.simulated # NULL => e.simulated # NULL
    /\ \A i \in Ids \cup {NULL} : Settled(StatusOf(d, i)) => Settled(StatusOf(e, i))
    /\ \A i \in FailedSeeds : StatusOf(e, i) = FALHOU => StatusOf(d, i) = FALHOU

-------------------------------------------------------------------------------
(* The demonstration under the tour. *)

LEMMA SettledIs ==
  /\ ~Settled(NULL) /\ Settled(AGUARDANDO) /\ FALHOU \notin TERMINAL_STATUSES
  /\ \A s \in PLAYABLE \cup {FALHOU} : ~Settled(s)
  /\ \A s \in TERMINAL_STATUSES : Settled(s) /\ s \in InterviewStatuses \ {FALHOU}
  /\ \A s \in InterviewStatuses \ {FALHOU} : s \in PLAYABLE \/ Settled(s)
BY DemoAssumption DEF Settled, PLAYABLE, InterviewStatuses, TERMINAL_STATUSES, RECEBIDA, TRANSCREVENDO,
   DIARIZANDO, PONTUANDO, AGUARDANDO, APROVADA, REJEITADA, FALHOU

LEMMA KeptIsTransitive ==
  ASSUME NEW d, NEW e, NEW f, Kept(d, e), Kept(e, f)
  PROVE  Kept(d, f)
BY DEF Kept

\* A write of a row keeps all that, if a settled row stays settled.
LEMMA WrittenKeeps ==
  ASSUME NEW d, Possible(d), NEW i \in Ids, d.interviews[i] # NULL,
         NEW s \in InterviewStatuses \ {FALHOU}, Settled(StatusOf(d, i)) => Settled(s), NEW now \in Nat
  PROVE  Kept(d, Written(d, i, s, now))
<1> PICK e : e = Written(d, i, s, now)
  OBVIOUS
<1>1. /\ OnlyWrites(d, e, i) /\ StatusOf(e, i) = s /\ e.generation = d.generation /\ e.simulated = d.simulated
  BY WrittenIs DEF Possible
<1>2. \A j \in Ids \cup {NULL} : j # i => StatusOf(e, j) = StatusOf(d, j)
  BY <1>1 DEF OnlyWrites, StatusOf
<1>3. \A j \in FailedSeeds : j \in Ids
  BY DEF Ids, Seeds
<1> QED BY <1>1, <1>2, <1>3 DEF Kept

\* So does an interview that comes to an id that had none.
LEMMA ArrivalKeeps ==
  ASSUME NEW d, NEW e, NEW i \in Ids \ FailedSeeds, d.interviews[i] = NULL, OnlyWrites(d, e, i),
         e.generation = d.generation, d.simulated # NULL => e.simulated # NULL
  PROVE  Kept(d, e)
<1>1. \A j \in Ids \cup {NULL} : j # i => StatusOf(e, j) = StatusOf(d, j)
  BY DEF OnlyWrites, StatusOf
<1>2. ~Settled(StatusOf(d, i))
  BY SettledIs DEF StatusOf
<1>3. \A j \in FailedSeeds : j \in Ids /\ j # i
  BY DEF Ids, Seeds
<1> QED BY <1>1, <1>2, <1>3 DEF Kept

LEMMA SimulatedKeeps ==
  ASSUME NEW d, Possible(d), d.sequence < MaxRuntime
  PROVE  Kept(d, Simulated(d)) /\ Simulated(d).simulated # NULL
<1>1. d.sequence + 1 \in Ids \ FailedSeeds /\ d.sequence + 1 # NULL
  BY SimulatedIs, IdsApart DEF Ids, Seeds
<1> QED BY <1>1, SimulatedIs, ArrivalKeeps

LEMMA InsertedKeeps ==
  ASSUME NEW d, Possible(d), d.sequence < MaxRuntime, NEW x \in Externals \cup {NULL}
  PROVE  Kept(d, Inserted(d, x))
<1>1. d.sequence + 1 \in Ids \ FailedSeeds
  BY InsertedIs, IdsApart DEF Ids, Seeds
<1> QED BY <1>1, InsertedIs, ArrivalKeeps

\* A preparation too; and one that asks for a processed interview gives one.
LEMMA PreparedKeeps ==
  ASSUME NEW d, Possible(d), MayPrepare(d), NEW level \in {"midway", "processed"}
  PROVE  /\ Kept(d, Prepared(d, level))
         /\ Prepared(d, level).simulated \in Runtime
         /\ level = "processed" => Settled(StatusOf(Prepared(d, level), Prepared(d, level).simulated))
<1>1. PICK n, e, i, s, target :
        /\ n = ToPrepare(d) /\ e = Prepared(d, level) /\ i = n.simulated
        /\ s = StatusOf(n, i) /\ target = LEVEL_TARGET(level)
  OBVIOUS
<1>2. /\ Possible(n) /\ n \in DemoStates /\ i \in Runtime /\ i \in Ids /\ n.interviews[i] # NULL
  BY <1>1, ToPrepareIs DEF Possible, Ids
<1>3. Kept(d, n)
  BY <1>1, SimulatedKeeps DEF ToPrepare, MayPrepare, Kept
<1>4. s \in InterviewStatuses /\ s # FALHOU
  <2>1. s \in InterviewStatuses
    BY <1>1, <1>2, StatusIsOfTheRow
  <2>2. i \notin FailedSeeds
    BY <1>2, IdsApart DEF Seeds
  <2> QED BY <1>1, <1>2, <2>1, <2>2 DEF Possible, WalksSucceed
<1>5. target \in InterviewStatuses \ {FALHOU} /\ (level = "processed" <=> target = AGUARDANDO)
  BY <1>1, LevelsAre
<1>6. e.simulated = i
  BY <1>1, PreparedIsPossible
<1>7. CASE e = n /\ (FORWARD_ORDER(s) = 0 \/ FORWARD_ORDER(s) >= FORWARD_ORDER(target))
  <2>1. level = "processed" => s \notin PLAYABLE
    <3>1. level = "processed" => FORWARD_ORDER(target) = 5
      BY <1>1, LevelsAre
    <3>2. FORWARD_ORDER(s) \in 0 .. 5
      BY OrderIs
    <3>3. level = "processed" => FORWARD_ORDER(s) \in {0, 5}
      BY <1>7, <3>1, <3>2
    <3> QED BY <3>3, OrderIs
  <2> QED BY <1>1, <1>2, <1>3, <1>4, <1>6, <1>7, <2>1, SettledIs
<1>8. ASSUME s \in PLAYABLE, NEW now \in Nat, e = Written(n, i, target, now)
      PROVE  Kept(d, e) /\ (level = "processed" => Settled(StatusOf(e, i)))
  <2>1. Kept(n, e)
    BY <1>1, <1>2, <1>5, <1>8, SettledIs, WrittenKeeps
  <2>2. StatusOf(e, i) = target
    BY <1>2, <1>5, <1>8, WrittenIs
  <2> QED BY <1>3, <1>5, <2>1, <2>2, KeptIsTransitive, SettledIs
<1> QED BY <1>1, <1>2, <1>6, <1>7, <1>8, PreparedIs

LEMMA MovedKeeps ==
  ASSUME NEW d, Possible(d), NEW i \in Ids
  PROVE  Kept(d, Stepped(d, i))
<1>1. CASE StatusOf(d, i) \notin PLAYABLE
  BY <1>1, SteppedIs DEF Kept
<1>2. CASE StatusOf(d, i) \in PLAYABLE
  BY <1>2, SteppedIs, SettledIs, WrittenKeeps
<1> QED BY <1>1, <1>2

LEMMA DecidedKeeps ==
  ASSUME Possible(demo), NEW i \in Ids, NEW to \in TERMINAL_STATUSES, Decide(i, to)
  PROVE  Kept(demo, demo') /\ playing' \in {playing, NULL}
<1>1. /\ demo' = Written(demo, i, to, demo.elapsed + WRITE_MS) /\ StatusOf(demo, i) = AGUARDANDO
      /\ playing' \in {playing, NULL}
  BY DEF Decide, Render
<1>2. demo.interviews[i] # NULL /\ demo.elapsed + WRITE_MS \in Nat
  BY <1>1, StatusIsOfTheRow, DemoAssumption DEF Possible, DemoStates, WRITE_MS, InterviewStatuses
<1> QED BY <1>1, <1>2, SettledIs, WrittenKeeps

\* A timer or a view transition.
LEMMA PlayedKeeps ==
  ASSUME Possible(demo), Played
  PROVE  Kept(demo, demo') /\ playing' \in {playing, NULL}
<1>1. CASE Fire
  BY <1>1 DEF Fire, Kept
<1>2. ASSUME NEW i \in Ids, Move(i)
      PROVE  Kept(demo, demo') /\ playing' \in {playing, NULL}
  BY <1>2, MovedKeeps DEF Move, Render
<1> QED BY <1>1, <1>2 DEF Played

-------------------------------------------------------------------------------
(* The addresses. *)

LEMMA RequiresIs ==
  ASSUME NEW n \in 0 .. 9
  PROVE  /\ Requires(n) \in {"midway", "processed", NULL}
         /\ OpensInterview(n) => Requires(n) = "processed"
         /\ n \in {0, 1, 2, 9} => Requires(n) = NULL
         /\ ~OpensInterview(0) /\ ~OpensInterview(3)
BY DEF Requires, OpensInterview

\* What holds of the addresses holds while the demonstration keeps what it has.
LEMMA FindsStays ==
  ASSUME TourInvariant, Kept(demo, demo'), reloads' = reloads
  PROVE  /\ Undisturbed' => Undisturbed
         /\ \A h \in Hashes : Finds(h) => Finds(h)'
<1>1. Undisturbed' => Undisturbed
  <2>1. reloads' + demo'.generation = reloads + demo.generation
    BY DEF Kept
  <2> QED BY <2>1 DEF Undisturbed, Kept
<1>2. ASSUME NEW h \in Hashes, Finds(h) PROVE Finds(h)'
  <2>1. h.id \in Ids \cup {NULL}
    BY DEF Hashes
  <2> QED BY <1>2, <2>1 DEF Finds, Kept, HasScorecard
<1> QED BY <1>1, <1>2

\* The address stays, and so does what the demonstration has.
LEMMA SameAddressOK ==
  ASSUME TourInvariant, UNCHANGED <<tourVars, reloads>>, Possible(demo'), Kept(demo, demo'),
         playing' # NULL => playing # NULL \/ demo'.simulated # NULL
  PROVE  TourInvariant'
<1>1. UNCHANGED <<hash, behind, stored, reloads>>
  BY DEF tourVars
<1>2. (Undisturbed' => Undisturbed) /\ \A h \in Hashes : Finds(h) => Finds(h)'
  BY <1>1, FindsStays
<1>3. /\ hash \in Hashes /\ behind \in Hashes \cup {NULL}
      /\ Undisturbed => Finds(hash) /\ (behind # NULL => Finds(behind)) /\ (playing # NULL => demo.simulated # NULL)
  BY DEF TourInvariant
<1>4. Undisturbed' => Finds(hash)' /\ (behind # NULL => Finds(behind)')
  BY <1>1, <1>2, <1>3
<1>5. Undisturbed' => (playing' # NULL => demo'.simulated # NULL)
  BY <1>2, <1>3 DEF Kept
<1> QED BY <1>1, <1>4, <1>5 DEF TourInvariant, Finds

\* The address changes to one that finds its interview.
LEMMA NavigateOK ==
  ASSUME TourInvariant, reloads' = reloads, Possible(demo'), Kept(demo, demo'),
         NEW h \in Hashes, Navigate(h), Undisturbed' => Finds(h)',
         playing' # NULL => playing # NULL \/ demo'.simulated # NULL
  PROVE  TourInvariant'
<1>1. hash' = h /\ behind' \in {behind, hash} /\ stored' \in {stored, h.step}
  BY DEF Navigate
<1>2. (Undisturbed' => Undisturbed) /\ \A g \in Hashes : Finds(g) => Finds(g)'
  BY FindsStays
<1>3. /\ hash \in Hashes /\ behind \in Hashes \cup {NULL} /\ stored \in 0 .. 9 /\ h.step \in 0 .. 9
      /\ Undisturbed => Finds(hash) /\ (behind # NULL => Finds(behind)) /\ (playing # NULL => demo.simulated # NULL)
  BY DEF TourInvariant, Hashes
<1>4. /\ hash' \in Hashes /\ behind' \in Hashes \cup {NULL} /\ stored' \in 0 .. 9 /\ reloads' \in Nat
  BY <1>1, <1>3 DEF TourInvariant
<1>5. ASSUME Undisturbed' PROVE Finds(hash)' /\ (behind' # NULL => Finds(behind)')
  BY <1>1, <1>2, <1>3, <1>5 DEF Finds
<1>6. Undisturbed' => (playing' # NULL => demo'.simulated # NULL)
  BY <1>2, <1>3 DEF Kept
<1> QED BY <1>4, <1>5, <1>6 DEF TourInvariant

-------------------------------------------------------------------------------
(* The actions. *)

\* The steps a visitor is led to on the tour's own buttons.
Led == hash' # hash /\ behind' = hash /\ OpensInterview(hash.step)' => HasScorecard(hash.id)'

LEMMA HashOfIs ==
  ASSUME NEW n \in 0 .. 9, NEW i \in Ids \cup {NULL}
  PROVE  /\ HashOf(n, i) \in Hashes /\ HashOf(n, i).step = n
         /\ OpensInterview(n) => HashOf(n, i).id = i
BY DEF HashOf, Hashes

\* A step that requires an interview gets it, one that requires none leaves the
\* demonstration alone.
LEMMA ShowOK ==
  ASSUME TourInvariant, NEW n \in TOUR_STEPS, Show(n), reloads' = reloads
  PROVE  TourInvariant' /\ Led
<1>1. n \in 0 .. 9 /\ Possible(demo)
  BY DEF TOUR_STEPS, TourInvariant
<1>2. CASE Requires(n) # NULL
  <2>1. PICK level \in {"midway", "processed"} : level = Requires(n)
    BY <1>1, <1>2, RequiresIs
  <2>2. Prepare(level) /\ Navigate(HashOf(n, demo'.simulated))
    BY <1>2, <2>1 DEF Show
  <2>3. MayPrepare(demo) /\ demo' = Prepared(demo, level) /\ playing' = NULL
    <3>1. ~(NULL \in PLAYABLE)
      BY StatusesApart DEF PLAYABLE, InterviewStatuses
    <3> QED BY <2>2, <3>1 DEF Prepare, Render, StatusOf
  <2>4. /\ Kept(demo, demo') /\ Possible(demo') /\ demo'.simulated \in Runtime
        /\ level = "processed" => Settled(StatusOf(demo', demo'.simulated))
    BY <1>1, <2>3, PreparedKeeps, PreparedIsPossible
  <2>5. PICK h : h = HashOf(n, demo'.simulated)
    OBVIOUS
  <2>6. /\ h \in Hashes /\ h.step = n /\ demo'.simulated # NULL
        /\ OpensInterview(n) => h.id = demo'.simulated
    BY <1>1, <2>4, <2>5, HashOfIs, IdsApart DEF Ids
  <2>7. OpensInterview(n) => Settled(StatusOf(demo', demo'.simulated))
    BY <1>1, <2>1, <2>4, RequiresIs
  <2>8. Finds(h)'
    <3>1. OpensInterview(h.step) => Settled(StatusOf(demo', h.id))
      BY <2>6, <2>7
    <3>2. OpensInterview(h.step) => HasScorecard(h.id)'
      BY <3>1 DEF HasScorecard
    <3> QED BY <2>6, <3>2 DEF Finds
  <2>9. TourInvariant'
    <3>1. Navigate(h)
      BY <2>2, <2>5
    <3> QED BY <2>3, <2>4, <2>6, <2>8, <3>1, NavigateOK
  <2>10. hash' = h
    BY <2>2, <2>5 DEF Navigate
  <2> QED BY <2>8, <2>9, <2>10 DEF Led, Finds, HasScorecard
<1>3. CASE Requires(n) = NULL
  <2>1. /\ Navigate(HashOf(n, NULL)) /\ demo' = demo /\ playing' = playing
        /\ ~OpensInterview(n)
    BY <1>1, <1>3, RequiresIs, NoStepAssumption DEF Show, demoVars
  <2>2. PICK h : h = HashOf(n, NULL)
    OBVIOUS
  <2>3. h \in Hashes /\ h.step = n
    BY <1>1, <2>2, HashOfIs
  <2>4. Finds(h)'
    BY <1>3, <2>1, <2>3 DEF Finds
  <2>5. Kept(demo, demo') /\ Possible(demo')
    BY <1>1, <2>1 DEF Kept
  <2>6. TourInvariant'
    BY <2>1, <2>2, <2>3, <2>4, <2>5, NavigateOK
  <2>7. hash'.step = n
    BY <2>1, <2>2, <2>3 DEF Navigate
  <2> QED BY <2>1, <2>6, <2>7 DEF Led
<1> QED BY <1>2, <1>3

\* Step 3 follows a simulation: the one that starts, or the one that is walked.
LEMMA StartSimulationOK ==
  ASSUME TourInvariant, StartSimulation
  PROVE  TourInvariant' /\ Led
<1>1. hash.step = 2 /\ hash.step + 1 = 3 /\ Possible(demo)
  BY DEF StartSimulation, StartsSimulation, TourInvariant
<1>2. PICK h : h = HashOf(3, NULL)
  OBVIOUS
<1>3. h \in Hashes /\ h.step = 3 /\ ~OpensInterview(3)
  BY <1>2, HashOfIs, RequiresIs
<1>4. Navigate(h) /\ reloads' = reloads
  BY <1>1, <1>2 DEF StartSimulation
<1>5. CASE playing = NULL
  <2>1. demo' = Simulated(demo) /\ demo.sequence < MaxRuntime
    BY <1>5, RenderIs DEF StartSimulation, Simulate
  <2>2. Possible(demo') /\ Kept(demo, demo') /\ demo'.simulated # NULL
    BY <1>1, <2>1, SimulatedIs, SimulatedKeeps
  <2>3. Finds(h)'
    BY <1>3, <2>2 DEF Finds
  <2>4. TourInvariant'
    BY <1>3, <1>4, <2>2, <2>3, NavigateOK
  <2> QED BY <1>3, <1>4, <2>4 DEF Navigate, Led
<1>6. CASE playing # NULL
  <2>1. demo' = demo /\ playing' = playing
    BY <1>6 DEF StartSimulation, demoVars
  <2>2. Possible(demo') /\ Kept(demo, demo')
    BY <1>1, <2>1 DEF Kept
  <2>3. Undisturbed' => demo'.simulated # NULL
    BY <1>4, <1>6, <2>1 DEF TourInvariant, Undisturbed
  <2>4. Undisturbed' => Finds(h)'
    BY <1>3, <2>3 DEF Finds
  <2>5. TourInvariant'
    BY <1>3, <1>4, <2>1, <2>2, <2>4, NavigateOK
  <2> QED BY <1>3, <1>4, <2>5 DEF Navigate, Led
<1> QED BY <1>5, <1>6

\* The page stays, off the tour.
LEMMA CloseOK ==
  ASSUME TourInvariant, Close
  PROVE  TourInvariant' /\ Led
<1>1. /\ demo' = demo /\ playing' = playing /\ reloads' = reloads
      /\ hash \in Hashes /\ hash.step \in 0 .. 9
      /\ Undisturbed => Finds(hash) /\ (playing # NULL => demo.simulated # NULL)
  BY DEF Close, demoVars, TourInvariant, Hashes
<1>2. hash' \in Hashes /\ hash'.step = 0 /\ behind' = hash /\ stored' \in 0 .. 9
  BY <1>1 DEF Close, Hashes
<1>3. Requires(hash'.step) = NULL /\ ~OpensInterview(hash'.step)
  BY <1>2, RequiresIs
<1>4. Undisturbed' => Undisturbed
  BY <1>1 DEF Undisturbed
<1>5. Finds(hash)'
  BY <1>3 DEF Finds
<1>6. Finds(hash) => Finds(behind)'
  BY <1>1, <1>2 DEF Finds, HasScorecard
<1>7. TourInvariant'
  BY <1>1, <1>2, <1>4, <1>5, <1>6 DEF TourInvariant
<1> QED BY <1>3, <1>7 DEF Led

LEMMA BackOK ==
  ASSUME TourInvariant, Back
  PROVE  TourInvariant' /\ Led
<1>1. /\ demo' = demo /\ playing' = playing /\ reloads' = reloads
      /\ behind \in Hashes /\ behind.step \in 0 .. 9 /\ hash' = behind /\ behind' = NULL
      /\ Undisturbed => Finds(behind) /\ (playing # NULL => demo.simulated # NULL)
      /\ hash # NULL
  BY NoStepAssumption DEF Back, demoVars, TourInvariant, Hashes
<1>2. stored' \in 0 .. 9
  BY <1>1 DEF Back, TourInvariant
<1>3. Undisturbed' => Undisturbed
  BY <1>1 DEF Undisturbed
<1>4. Finds(behind) => Finds(hash)'
  BY <1>1 DEF Finds, HasScorecard
<1>5. TourInvariant'
  BY <1>1, <1>2, <1>3, <1>4 DEF TourInvariant
<1> QED BY <1>1, <1>5 DEF Led

\* A reload prepares the step of the address anew.
LEMMA ReloadOK ==
  ASSUME TourInvariant, Reload
  PROVE  TourInvariant' /\ Led
<1>1. /\ hash' = hash /\ behind' = behind /\ stored' = stored /\ hash.step \in 0 .. 9
      /\ reloads' \in Nat /\ reloads' >= 1
  BY DEF Reload, tourVars, TourInvariant, Hashes
<1>2. Possible(InitialDemo) /\ MayPrepare(InitialDemo)
  <2>1. InitialDemo = [InitialDemo EXCEPT !.generation = 0]
    BY DEF InitialDemo
  <2> QED BY <2>1, InitialIs, TourAssumption DEF MayPrepare
<1>3. Possible(demo')
  <2>1. demo' = LoadedDemo(hash.step)
    BY DEF Reload
  <2>2. CASE Requires(hash.step) = NULL
    BY <1>2, <2>1, <2>2 DEF LoadedDemo
  <2>3. CASE Requires(hash.step) # NULL
    <3>1. PICK level \in {"midway", "processed"} : level = Requires(hash.step)
      BY <1>1, <2>3, RequiresIs
    <3>2. demo' = Prepared(InitialDemo, level)
      BY <2>1, <2>3, <3>1 DEF LoadedDemo
    <3> QED BY <1>2, <3>2, PreparedIsPossible
  <2> QED BY <2>2, <2>3
<1>4. ~Undisturbed'
  <2>1. demo'.generation \in Nat
    BY <1>3 DEF Possible, DemoStates
  <2> QED BY <1>1, <2>1 DEF Undisturbed
<1> QED BY <1>1, <1>3, <1>4 DEF TourInvariant, Led

\* What a visitor does while the address stays.
LEMMA OnThePageOK ==
  ASSUME TourInvariant, Visit \/ TryDecision \/ Play
  PROVE  TourInvariant' /\ Led
<1>1. /\ Possible(demo) /\ hash \in Hashes /\ hash.id \in Ids \cup {NULL} /\ reloads \in Nat
      /\ hash' = hash /\ UNCHANGED <<tourVars, reloads>>
  BY DEF TourInvariant, Hashes, Visit, TryDecision, Play, tourVars
<1>2. Led
  BY <1>1 DEF Led
<1>3. Possible(demo')
  <2>1. DemoNext
    BY <1>1 DEF Visit, TryDecision, Play, DemoNext
  <2> QED BY <1>1, <2>1, ActionsArePossible
<1>4. CASE Simulate
  <2>1. demo' = Simulated(demo) /\ demo.sequence < MaxRuntime
    BY <1>4, RenderIs DEF Simulate
  <2> QED BY <1>1, <1>2, <1>3, <2>1, SimulatedKeeps, SameAddressOK
<1>5. ASSUME NEW x \in Externals \cup {NULL}, Create(x)
      PROVE  TourInvariant'
  <2>1. Kept(demo, demo')
    <3>1. Kept(demo, demo)
      BY DEF Kept
    <3> QED BY <1>1, <1>5, <3>1, RenderIs, InsertedKeeps DEF Create, Created
  <2>2. playing' \in {playing, NULL}
    BY <1>5 DEF Create, Render
  <2> QED BY <1>1, <1>3, <2>1, <2>2, SameAddressOK
<1>6. ASSUME NEW i \in Ids, NEW to \in TERMINAL_STATUSES, Decide(i, to)
      PROVE  TourInvariant'
  BY <1>1, <1>3, <1>6, DecidedKeeps, SameAddressOK
<1>7. ASSUME ~Undisturbed'
      PROVE  TourInvariant'
  BY <1>1, <1>3, <1>7 DEF TourInvariant, tourVars
<1>8. ASSUME NEW i \in Ids, Reprocess(i)
      PROVE  TourInvariant'
  <2>1. i \in FailedSeeds
    BY <1>1, <1>8 DEF Reprocess, Possible, WalksSucceed
  <2>2. demo.interviews[i] # NULL /\ demo \in DemoStates /\ demo.elapsed + WRITE_MS \in Nat
    BY <1>1, <2>1 DEF Possible, Populated, Seeds, DemoStates, WRITE_MS
  <2>3. TRANSCREVENDO \in InterviewStatuses /\ TRANSCREVENDO # FALHOU
    BY DEF InterviewStatuses, TRANSCREVENDO, FALHOU
  <2>4. demo' = Written(demo, i, TRANSCREVENDO, demo.elapsed + WRITE_MS)
    BY <1>8, RenderIs DEF Reprocess
  <2>5. StatusOf(demo', i) = TRANSCREVENDO
    BY <2>2, <2>3, <2>4, WrittenIs
  <2>6. ~Undisturbed'
    BY <2>1, <2>3, <2>5 DEF Undisturbed
  <2> QED BY <1>7, <2>6
<1>9. CASE Reset
  <2>1. demo' = [InitialDemo EXCEPT !.generation = demo.generation + 1] /\ demo.generation \in Nat
    BY <1>1, <1>9, RenderIs DEF Reset, Possible, DemoStates
  <2>2. demo'.generation = demo.generation + 1
    BY <2>1 DEF InitialDemo
  <2>3. ~Undisturbed'
    BY <1>1, <2>1, <2>2 DEF Undisturbed
  <2> QED BY <1>2, <1>7, <2>3
<1>10. CASE Played
  BY <1>1, <1>2, <1>3, <1>10, PlayedKeeps, SameAddressOK
<1>11. CASE Visit
  BY <1>2, <1>4, <1>5, <1>6, <1>8, <1>9, <1>11 DEF Visit
<1>12. CASE TryDecision
  BY <1>1, <1>2, <1>6, <1>12 DEF TryDecision
<1> QED BY <1>10, <1>11, <1>12 DEF Play

LEMMA TourStep == TourInvariant /\ [Next]_vars => TourInvariant' /\ [Led]_vars
<1> SUFFICES ASSUME TourInvariant, [Next]_vars PROVE TourInvariant' /\ [Led]_vars
  OBVIOUS
<1>1. CASE Start
  <2>1. PICK n \in TOUR_STEPS : Show(n)
    BY <1>1 DEF Start, TourInvariant, TOUR_STEPS
  <2> QED BY <1>1, <2>1, ShowOK DEF Start
<1>2. CASE GoNext
  <2>1. PICK n \in TOUR_STEPS : Show(n)
    BY <1>2 DEF GoNext, HasNext, TOUR_STEPS
  <2> QED BY <1>2, <2>1, ShowOK DEF GoNext
<1>3. CASE GoPrevious
  <2>1. hash.step \in 0 .. 9
    BY DEF TourInvariant, Hashes
  <2>2. PICK n \in TOUR_STEPS : Show(n)
    BY <1>3, <2>1 DEF GoPrevious, TOUR_STEPS
  <2> QED BY <1>3, <2>2, ShowOK DEF GoPrevious
<1>4. CASE StartSimulation
  BY <1>4, StartSimulationOK
<1>5. CASE Close
  BY <1>5, CloseOK
<1>6. CASE Back
  BY <1>6, BackOK
<1>7. CASE Reload
  BY <1>7, ReloadOK
<1>8. CASE Visit \/ TryDecision \/ Play
  BY <1>8, OnThePageOK
<1>9. CASE UNCHANGED vars
  BY <1>9 DEF vars, demoVars, tourVars, TourInvariant, Undisturbed, Finds, HasScorecard
<1> QED BY <1>1, <1>2, <1>3, <1>4, <1>5, <1>6, <1>7, <1>8, <1>9 DEF Next

LEMMA InitTour == Init => TourInvariant
<1> SUFFICES ASSUME Init PROVE TourInvariant
  OBVIOUS
<1>1. Possible(demo) /\ playing = NULL
  BY DemoStartsPossible DEF Init, DemoInit
<1>2. hash \in Hashes /\ hash.step = 0 /\ behind = NULL /\ stored \in 0 .. 9 /\ reloads \in Nat
  BY DEF Init, Outside, Hashes
<1>3. Finds(hash)
  BY <1>2, RequiresIs DEF Finds
<1> QED BY <1>1, <1>2, <1>3 DEF TourInvariant

-------------------------------------------------------------------------------
(* Theorems. *)

LEMMA TourStaysInvariant == Spec => []TourInvariant
BY InitTour, TourStep, PTL DEF Spec

\* In a tab that was neither reloaded nor reset, and where no failed interview was
\* reprocessed, the step on screen has the interview it requires and the page it
\* opens has a scorecard, through any walk of the tour and of the history
\* (features/tour/TourProvider.tsx:87-98).
THEOREM StepsAlwaysFindTheirInterview == Spec => []StepsFindTheirInterview
<1>1. TourInvariant => StepsFindTheirInterview
  BY DEF TourInvariant, Undisturbed, Finds, StepsFindTheirInterview
<1> QED BY <1>1, TourStaysInvariant, PTL

\* The tour's own buttons lead to an interview that is processed, whatever was
\* reset, reloaded, reprocessed or interrupted (demo/state.ts:198-210).
THEOREM TourAlwaysPreparesItsStep == Spec => TourPreparesItsStep
<1>1. Led => (hash' # hash /\ behind' = hash /\ OpensInterview(hash.step)' => HasScorecard(hash.id)')
  BY DEF Led
<1> QED BY <1>1, TourStep, TourStaysInvariant, PTL DEF Spec, TourPreparesItsStep
===============================================================================
