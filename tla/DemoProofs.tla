------------------------------ MODULE DemoProofs ------------------------------
\* The demonstration's reducer, for any dataset, external ids and bounds: what a
\* row may hold after any action, and that its instant tells its contents apart; and
\* what is staged around a row is of that row, staging being all it adds.
EXTENDS Staging, Integers, TLAPS

DemoStates ==
    [interviews : [Ids -> Interviews \cup {NULL}], elapsed : Nat, sequence : 0 .. MaxRuntime,
     simulated : Runtime \cup {NULL}, generation : Nat]

\* The dataset is there, with the interviews created since the last reset.
Populated(d) ==
    /\ \A i \in Seeds : d.interviews[i] # NULL
    /\ \A i \in Runtime : d.interviews[i] # NULL <=> i <= d.sequence
    /\ d.simulated # NULL => d.simulated <= d.sequence

InitialStatus(i) == IF i \in FailedSeeds THEN FALHOU ELSE AGUARDANDO

\* No row is newer than the clock, and one that is as old as the dataset has not
\* been written since.
Dated(d) ==
    /\ d.elapsed >= Anchor
    /\ \A i \in Ids : d.interviews[i] # NULL => d.interviews[i].at <= d.elapsed
    /\ \A i \in Seeds : d.interviews[i].at = SeedStamp => d.interviews[i].status = InitialStatus(i)

\* Only the dataset holds failures: a walk of the demonstration has none.
WalksSucceed(d) == \A i \in Ids : StatusOf(d, i) = FALHOU => i \in FailedSeeds

\* A state the reducer can be in.
Possible(d) == d \in DemoStates /\ Populated(d) /\ Dated(d) /\ WalksSucceed(d)

\* From d to e no row but that of i is written.
OnlyWrites(d, e, i) == \A j \in Ids \ {i} : e.interviews[j] = d.interviews[j]

\* A row that is there before and after, in another status, has another instant.
TellsApart(d, e) ==
    \A i \in Ids : NULL \notin {d.interviews[i], e.interviews[i]}
        /\ d.interviews[i].status # e.interviews[i].status
        => d.interviews[i].at # e.interviews[i].at

-------------------------------------------------------------------------------
(* The reducer. *)

LEMMA IdsApart ==
  /\ \A i \in Seeds : i \notin Runtime /\ i # NULL
  /\ \A i \in Runtime : i \in Nat /\ i # NULL
  /\ \A i \in ReadySeeds : i \notin FailedSeeds
BY DemoAssumption DEF Seeds, Runtime

LEMMA StatusesApart ==
  ASSUME NEW s \in InterviewStatuses
  PROVE  s # NULL
BY DemoAssumption

\* What the status of an interview says of its row.
LEMMA StatusIsOfTheRow ==
  ASSUME NEW d \in DemoStates, NEW i \in Ids
  PROVE  /\ StatusOf(d, i) = NULL <=> d.interviews[i] = NULL
         /\ StatusOf(d, i) # NULL => /\ StatusOf(d, i) = d.interviews[i].status
                                     /\ StatusOf(d, i) \in InterviewStatuses
         /\ d.interviews[i] # NULL => d.interviews[i] \in Interviews
<1>1. d.interviews[i] \in Interviews \cup {NULL} /\ i # NULL
  BY IdsApart DEF DemoStates, Ids
<1>2. \A r \in Interviews : r.status \in InterviewStatuses /\ r.status # NULL
  BY StatusesApart DEF Interviews
<1> QED BY <1>1, <1>2 DEF StatusOf

LEMMA WrittenIs ==
  ASSUME NEW d \in DemoStates, NEW i \in Ids, d.interviews[i] # NULL,
         NEW s \in InterviewStatuses, NEW now \in Nat
  PROVE  /\ Written(d, i, s, now) \in DemoStates
         /\ OnlyWrites(d, Written(d, i, s, now), i)
         /\ Written(d, i, s, now).interviews[i] # NULL
         /\ Written(d, i, s, now).interviews[i].status = s
         /\ Written(d, i, s, now).interviews[i].at = now
         /\ Written(d, i, s, now).elapsed = now
         /\ Written(d, i, s, now).sequence = d.sequence
         /\ Written(d, i, s, now).simulated = d.simulated
         /\ Written(d, i, s, now).generation = d.generation
         /\ StatusOf(Written(d, i, s, now), i) = s
<1>1. d.interviews \in [Ids -> Interviews \cup {NULL}] /\ d.interviews[i] \in Interviews
  BY DEF DemoStates
<1>2. PICK r : r = [d.interviews[i] EXCEPT !.status = s, !.at = now]
  OBVIOUS
<1>3. r \in Interviews /\ r.status = s /\ r.at = now /\ r # NULL
  BY <1>1, <1>2, NoInterviewAssumption DEF Interviews
<1>4. PICK e : e = [d EXCEPT !.elapsed = now, !.interviews = [d.interviews EXCEPT ![i] = r]]
  OBVIOUS
<1>5. Written(d, i, s, now) = e
  BY <1>1, <1>2, <1>4 DEF Written, DemoStates
<1>6. [d.interviews EXCEPT ![i] = r] \in [Ids -> Interviews \cup {NULL}]
  BY <1>1, <1>3
<1>7. /\ e \in DemoStates /\ e.interviews = [d.interviews EXCEPT ![i] = r] /\ e.elapsed = now
      /\ e.sequence = d.sequence /\ e.simulated = d.simulated /\ e.generation = d.generation
  BY <1>4, <1>6 DEF DemoStates
<1>8. e.interviews[i] = r /\ OnlyWrites(d, e, i)
  BY <1>1, <1>7 DEF OnlyWrites
<1>9. StatusOf(e, i) = s
  BY <1>3, <1>7, <1>8, IdsApart DEF StatusOf, Ids
<1> QED BY <1>3, <1>5, <1>7, <1>8, <1>9

\* A later write of a status other than failed leads to a possible state.
LEMMA WrittenIsPossible ==
  ASSUME NEW d, Possible(d), NEW i \in Ids, d.interviews[i] # NULL,
         NEW s \in InterviewStatuses \ {FALHOU}, NEW now \in Nat, now > d.elapsed
  PROVE  Possible(Written(d, i, s, now)) /\ TellsApart(d, Written(d, i, s, now))
<1> PICK e : e = Written(d, i, s, now)
  OBVIOUS
<1>1. d \in DemoStates /\ Populated(d) /\ Dated(d) /\ WalksSucceed(d) /\ d.elapsed \in Nat
  BY DEF Possible, DemoStates
<1>2. /\ e \in DemoStates /\ e.interviews[i] # NULL /\ e.interviews[i].status = s /\ e.interviews[i].at = now
      /\ e.elapsed = now /\ e.sequence = d.sequence /\ e.simulated = d.simulated
      /\ StatusOf(e, i) = s
      /\ \A j \in Ids \ {i} : e.interviews[j] = d.interviews[j]
  BY <1>1, WrittenIs DEF OnlyWrites
<1>3. Seeds \subseteq Ids /\ Runtime \subseteq Ids
  BY DEF Ids
<1>4. Populated(e)
  BY <1>1, <1>2, <1>3 DEF Populated
<1>5. \A j \in Ids : d.interviews[j] # NULL => d.interviews[j].at \in Nat
  BY <1>1, StatusIsOfTheRow DEF Interviews
<1>6. Dated(e)
  BY <1>1, <1>2, <1>3, <1>5 DEF Dated, Anchor, SeedStamp
<1>7. WalksSucceed(e)
  BY <1>1, <1>2 DEF WalksSucceed, StatusOf
<1>8. TellsApart(d, e)
  BY <1>1, <1>2, <1>5 DEF TellsApart, Dated
<1> QED BY <1>2, <1>4, <1>6, <1>7, <1>8 DEF Possible

LEMMA InsertedIs ==
  ASSUME NEW d, Possible(d), d.sequence < MaxRuntime, NEW x \in Externals \cup {NULL}
  PROVE  LET e == Inserted(d, x) id == d.sequence + 1 IN
         /\ id \in Runtime /\ d.interviews[id] = NULL
         /\ Possible(e) /\ TellsApart(d, e) /\ OnlyWrites(d, e, id)
         /\ e.interviews[id] = Row(RECEBIDA, x, d.elapsed) /\ StatusOf(e, id) = RECEBIDA
         /\ e.sequence = id /\ e.simulated = d.simulated /\ e.generation = d.generation
         /\ e.elapsed = d.elapsed
<1> PICK id, r, e : id = d.sequence + 1 /\ r = Row(RECEBIDA, x, d.elapsed) /\ e = Inserted(d, x)
  OBVIOUS
<1>1. /\ d \in DemoStates /\ Populated(d) /\ Dated(d) /\ WalksSucceed(d) /\ d.elapsed \in Nat
      /\ d.interviews \in [Ids -> Interviews \cup {NULL}] /\ d.sequence \in 0 .. MaxRuntime
      /\ d.simulated \in Runtime \cup {NULL}
  BY DEF Possible, DemoStates
<1>2. id \in Runtime /\ id \in Ids /\ id \notin Seeds /\ id # NULL /\ id \in 0 .. MaxRuntime
  BY <1>1, IdsApart, DemoAssumption DEF Runtime, Ids
<1>3. d.interviews[id] = NULL
  BY <1>1, <1>2 DEF Populated
<1>4. r \in Interviews /\ r.status = RECEBIDA /\ r.at = d.elapsed /\ r # NULL
  BY <1>1, NoInterviewAssumption DEF Row, Interviews, InterviewStatuses
<1>5. e = [d EXCEPT !.sequence = id, !.interviews = [d.interviews EXCEPT ![id] = r]]
  BY <1>1 DEF Inserted, DemoStates
<1>6. [d.interviews EXCEPT ![id] = r] \in [Ids -> Interviews \cup {NULL}]
  BY <1>1, <1>4
<1>7. /\ e \in DemoStates /\ e.interviews = [d.interviews EXCEPT ![id] = r] /\ e.elapsed = d.elapsed
      /\ e.sequence = id /\ e.simulated = d.simulated /\ e.generation = d.generation
  BY <1>1, <1>2, <1>5, <1>6 DEF DemoStates
<1>8. e.interviews[id] = r /\ \A j \in Ids \ {id} : e.interviews[j] = d.interviews[j]
  BY <1>1, <1>2, <1>7
<1>9. StatusOf(e, id) = RECEBIDA
  BY <1>2, <1>4, <1>8 DEF StatusOf
<1>10. Populated(e)
  <2>1. \A i \in Seeds : e.interviews[i] # NULL
    BY <1>1, <1>2, <1>8 DEF Populated, Ids
  <2>2. \A i \in Runtime : e.interviews[i] # NULL <=> i <= e.sequence
    BY <1>1, <1>2, <1>4, <1>7, <1>8 DEF Populated, Ids, Runtime
  <2>3. e.simulated # NULL => e.simulated <= e.sequence
    BY <1>1, <1>7 DEF Populated, Runtime
  <2> QED BY <2>1, <2>2, <2>3 DEF Populated
<1>11. Dated(e)
  BY <1>1, <1>2, <1>4, <1>7, <1>8 DEF Dated, Ids
<1>12. WalksSucceed(e)
  BY <1>1, <1>8, <1>9 DEF WalksSucceed, StatusOf, RECEBIDA, FALHOU
<1>13. TellsApart(d, e)
  BY <1>3, <1>8 DEF TellsApart
<1> QED BY <1>2, <1>3, <1>7, <1>8, <1>9, <1>10, <1>11, <1>12, <1>13 DEF Possible, OnlyWrites

LEMMA SimulatedIs ==
  ASSUME NEW d, Possible(d), d.sequence < MaxRuntime
  PROVE  LET e == Simulated(d) id == d.sequence + 1 IN
         /\ id \in Runtime /\ d.interviews[id] = NULL
         /\ Possible(e) /\ TellsApart(d, e) /\ OnlyWrites(d, e, id)
         /\ e.interviews[id] = Row(RECEBIDA, NULL, d.elapsed) /\ StatusOf(e, id) = RECEBIDA
         /\ e.sequence = id /\ e.simulated = id /\ e.generation = d.generation
         /\ e.elapsed = d.elapsed
<1> PICK id, f, e : id = d.sequence + 1 /\ f = Inserted(d, NULL) /\ e = Simulated(d)
  OBVIOUS
<1>1. /\ id \in Runtime /\ d.interviews[id] = NULL
      /\ Possible(f) /\ TellsApart(d, f) /\ OnlyWrites(d, f, id)
      /\ f.interviews[id] = Row(RECEBIDA, NULL, d.elapsed) /\ StatusOf(f, id) = RECEBIDA
      /\ f.sequence = id /\ f.generation = d.generation /\ f.elapsed = d.elapsed
  BY InsertedIs
<1>2. f \in DemoStates /\ Populated(f) /\ Dated(f) /\ WalksSucceed(f)
  BY <1>1 DEF Possible
<1>3. e = [f EXCEPT !.simulated = id]
  BY DEF Simulated
<1>4. /\ e \in DemoStates /\ e.simulated = id /\ e.interviews = f.interviews /\ e.elapsed = f.elapsed
      /\ e.sequence = f.sequence /\ e.generation = f.generation
  BY <1>1, <1>2, <1>3 DEF DemoStates
<1>5. id \in Nat
  BY <1>1 DEF Runtime
<1>6. Populated(e) /\ Dated(e)
  BY <1>1, <1>2, <1>4, <1>5 DEF Populated, Dated
<1>7. WalksSucceed(e) /\ StatusOf(e, id) = RECEBIDA /\ TellsApart(d, e) /\ OnlyWrites(d, e, id)
  BY <1>1, <1>2, <1>4 DEF WalksSucceed, StatusOf, TellsApart, OnlyWrites
<1> QED BY <1>1, <1>4, <1>6, <1>7 DEF Possible

\* The dataset, as the page or a reset loads it.
LEMMA InitialIs ==
  ASSUME NEW g \in Nat
  PROVE  LET e == [InitialDemo EXCEPT !.generation = g] IN
         /\ Possible(e) /\ e.interviews = InitialDemo.interviews /\ e.generation = g
         /\ e.sequence = 0 /\ e.simulated = NULL /\ e.elapsed = Anchor
         /\ \A i \in FailedSeeds : e.interviews[i] = Row(FALHOU, NULL, SeedStamp)
         /\ \A i \in ReadySeeds : e.interviews[i] = Row(AGUARDANDO, NULL, SeedStamp)
         /\ \A i \in Runtime : e.interviews[i] = NULL
<1> PICK e : e = [InitialDemo EXCEPT !.generation = g]
  OBVIOUS
<1>1. /\ e.interviews = InitialDemo.interviews /\ e.elapsed = Anchor /\ e.sequence = 0 /\ e.simulated = NULL
      /\ e.generation = g
      /\ e = [interviews |-> InitialDemo.interviews, elapsed |-> Anchor, sequence |-> 0, simulated |-> NULL,
               generation |-> g]
  BY DEF InitialDemo
<1>2. /\ \A i \in FailedSeeds : e.interviews[i] = Row(FALHOU, NULL, SeedStamp)
      /\ \A i \in ReadySeeds : e.interviews[i] = Row(AGUARDANDO, NULL, SeedStamp)
      /\ \A i \in Runtime : e.interviews[i] = NULL
  BY <1>1, IdsApart DEF InitialDemo, Ids, Seeds
<1>3. /\ Row(FALHOU, NULL, SeedStamp) \in Interviews /\ Row(AGUARDANDO, NULL, SeedStamp) \in Interviews
      /\ \A s, x, t : Row(s, x, t).status = s /\ Row(s, x, t).at = t
  BY DEF Row, Interviews, InterviewStatuses, SeedStamp
<1>4. e.interviews \in [Ids -> Interviews \cup {NULL}]
  BY <1>1, <1>3 DEF InitialDemo, Ids, Seeds
<1>5. e \in DemoStates
  <2>1. 0 \in 0 .. MaxRuntime /\ Anchor \in Nat /\ InitialDemo.interviews \in [Ids -> Interviews \cup {NULL}]
    BY <1>1, <1>4, DemoAssumption DEF Anchor
  <2> QED BY <1>1, <2>1 DEF DemoStates
<1>6. \A i \in Seeds : e.interviews[i] # NULL /\ e.interviews[i].status = InitialStatus(i) /\ e.interviews[i].at = 0
  BY <1>2, <1>3, NoInterviewAssumption, IdsApart DEF Seeds, InitialStatus, SeedStamp
<1>7. Populated(e)
  BY <1>1, <1>2, <1>6 DEF Populated, Runtime
<1>8. Dated(e)
  BY <1>1, <1>2, <1>6 DEF Dated, Ids, Anchor
<1>9. WalksSucceed(e)
  <2>1. SUFFICES ASSUME NEW i \in Ids, StatusOf(e, i) = FALHOU PROVE i \in FailedSeeds
    BY DEF WalksSucceed
  <2>2. FALHOU \in InterviewStatuses
    BY DEF InterviewStatuses
  <2>3. e.interviews[i] # NULL /\ e.interviews[i].status = FALHOU
    BY <1>5, <2>1, <2>2, StatusIsOfTheRow, StatusesApart
  <2> QED BY <1>2, <1>6, <2>3 DEF Ids, InitialStatus, FALHOU, AGUARDANDO
<1> QED BY <1>1, <1>2, <1>5, <1>7, <1>8, <1>9 DEF Possible

LEMMA NextStatusIs ==
  /\ DOMAIN NEXT_STATUS = PLAYABLE
  /\ \A s \in PLAYABLE : NEXT_STATUS[s] \in InterviewStatuses \ (TERMINAL_STATUSES \cup {FALHOU, RECEBIDA, s})
BY DEF NEXT_STATUS, PLAYABLE, InterviewStatuses, TERMINAL_STATUSES,
       RECEBIDA, TRANSCREVENDO, DIARIZANDO, PONTUANDO, AGUARDANDO, APROVADA, REJEITADA, FALHOU

\* A step writes the row of an interview in mid-pipeline, and is nothing to any other.
LEMMA SteppedIs ==
  ASSUME NEW d, Possible(d), NEW i \in Ids
  PROVE  LET s == StatusOf(d, i) now == d.elapsed + STEP_MS IN
         /\ s \notin PLAYABLE => Stepped(d, i) = d
         /\ s \in PLAYABLE => /\ d.interviews[i] # NULL /\ now \in Nat /\ now > d.elapsed
                              /\ NEXT_STATUS[s] \in InterviewStatuses \ {FALHOU}
                              /\ Stepped(d, i) = Written(d, i, NEXT_STATUS[s], now)
<1>1. d \in DemoStates /\ d.elapsed \in Nat
  BY DEF Possible, DemoStates
<1>2. PLAYABLE \subseteq InterviewStatuses
  BY DEF PLAYABLE, InterviewStatuses
<1>3. StatusOf(d, i) \in PLAYABLE => d.interviews[i] # NULL
  BY <1>1, <1>2, StatusIsOfTheRow, StatusesApart
<1> QED BY <1>1, <1>3, NextStatusIs DEF Stepped, STEP_MS

\* The interview prepareSimulation works on.
ToPrepare(d) == IF d.simulated = NULL THEN Simulated(d) ELSE d

LEMMA ToPrepareIs ==
  ASSUME NEW d, Possible(d), MayPrepare(d)
  PROVE  LET n == ToPrepare(d) IN
         /\ Possible(n) /\ TellsApart(d, n) /\ n.simulated \in Runtime /\ n.interviews[n.simulated] # NULL
         /\ OnlyWrites(d, n, n.simulated) /\ n.generation = d.generation
         /\ d.simulated = NULL => d.interviews[n.simulated] = NULL /\ StatusOf(n, n.simulated) = RECEBIDA
<1>1. CASE d.simulated = NULL
  <2>1. Simulated(d).interviews[d.sequence + 1] # NULL
    <3>1. Simulated(d) \in DemoStates /\ StatusOf(Simulated(d), d.sequence + 1) = RECEBIDA /\ d.sequence + 1 \in Ids
      BY <1>1, SimulatedIs DEF MayPrepare, Possible, Ids
    <3>2. RECEBIDA \in InterviewStatuses
      BY DEF InterviewStatuses
    <3> QED BY <3>1, <3>2, StatusIsOfTheRow, StatusesApart
  <2> QED BY <1>1, <2>1, SimulatedIs DEF MayPrepare, ToPrepare
<1>2. CASE d.simulated # NULL
  <2>1. d.simulated \in Runtime /\ d.simulated <= d.sequence /\ d.interviews[d.simulated] # NULL
    BY <1>2 DEF Possible, DemoStates, Populated
  <2> QED BY <1>2, <2>1 DEF ToPrepare, TellsApart, OnlyWrites
<1> QED BY <1>1, <1>2

LEMMA LevelsAre ==
  ASSUME NEW level \in {"midway", "processed"}
  PROVE  /\ LEVEL_TARGET(level) \in {DIARIZANDO, AGUARDANDO} /\ LEVEL_TARGET(level) \in InterviewStatuses \ {FALHOU}
         /\ level = "processed" <=> LEVEL_TARGET(level) = AGUARDANDO
         /\ FORWARD_ORDER(LEVEL_TARGET(level)) \in {3, 5}
         /\ FORWARD_ORDER(LEVEL_TARGET(level)) = 5 <=> level = "processed"
BY DEF LEVEL_TARGET, FORWARD_ORDER, InterviewStatuses,
       RECEBIDA, TRANSCREVENDO, DIARIZANDO, PONTUANDO, AGUARDANDO, APROVADA, REJEITADA, FALHOU

LEMMA OrderIs ==
  ASSUME NEW s
  PROVE  /\ FORWARD_ORDER(s) \in 0 .. 5
         /\ FORWARD_ORDER(s) = 5 <=> s = AGUARDANDO
         /\ FORWARD_ORDER(s) \in 1 .. 4 <=> s \in PLAYABLE
         /\ FORWARD_ORDER(s) \in 1 .. 2 <=> s \in {RECEBIDA, TRANSCREVENDO}
BY DEF FORWARD_ORDER, PLAYABLE, RECEBIDA, TRANSCREVENDO, DIARIZANDO, PONTUANDO, AGUARDANDO

\* A preparation walks an interview that is short of the level to it, at once, and
\* leaves any other as it is.
LEMMA PreparedIs ==
  ASSUME NEW d, Possible(d), MayPrepare(d), NEW level \in {"midway", "processed"}
  PROVE  LET n == ToPrepare(d) s == StatusOf(n, n.simulated) target == LEVEL_TARGET(level) IN
         \/ /\ Prepared(d, level) = n
            /\ FORWARD_ORDER(s) = 0 \/ FORWARD_ORDER(s) >= FORWARD_ORDER(target)
         \/ /\ s \in PLAYABLE /\ s # target
            /\ target = DIARIZANDO => s \in {RECEBIDA, TRANSCREVENDO}
            /\ \E now \in Nat : now > n.elapsed /\ Prepared(d, level) = Written(n, n.simulated, target, now)
<1> PICK n : n = ToPrepare(d)
  OBVIOUS
<1> PICK s, target : s = StatusOf(n, n.simulated) /\ target = LEVEL_TARGET(level)
  OBVIOUS
<1>1. n.elapsed \in Nat
  BY ToPrepareIs DEF Possible, DemoStates
<1>2. PICK missing : missing = FORWARD_ORDER(target) - FORWARD_ORDER(s)
  OBVIOUS
<1>3. /\ FORWARD_ORDER(target) \in {3, 5} /\ FORWARD_ORDER(s) \in 0 .. 5 /\ missing \in Int
      /\ FORWARD_ORDER(target) = 5 <=> target = AGUARDANDO
  BY <1>2, LevelsAre, OrderIs
<1>4. Prepared(d, level) = IF FORWARD_ORDER(s) = 0 \/ missing <= 0 THEN n
                           ELSE Written(n, n.simulated, target, n.elapsed + missing * STEP_MS)
  BY <1>2 DEF Prepared, ToPrepare
<1>5. CASE FORWARD_ORDER(s) = 0 \/ missing <= 0
  BY <1>2, <1>3, <1>4, <1>5
<1>6. CASE ~(FORWARD_ORDER(s) = 0 \/ missing <= 0)
  <2>1. n.elapsed + missing * STEP_MS \in Nat /\ n.elapsed + missing * STEP_MS > n.elapsed
    BY <1>1, <1>3, <1>6 DEF STEP_MS
  <2>2. FORWARD_ORDER(s) \in 1 .. 4 /\ FORWARD_ORDER(s) < FORWARD_ORDER(target)
    BY <1>2, <1>3, <1>6
  <2>3. s \in PLAYABLE /\ s # target
    BY <2>2, OrderIs
  <2>4. target = DIARIZANDO => s \in {RECEBIDA, TRANSCREVENDO}
    <3>1. target = DIARIZANDO => FORWARD_ORDER(target) = 3
      BY <1>3 DEF DIARIZANDO, AGUARDANDO
    <3> QED BY <2>2, <3>1, OrderIs
  <2> QED BY <1>4, <1>6, <2>1, <2>3, <2>4
<1> QED BY <1>5, <1>6

LEMMA PreparedIsPossible ==
  ASSUME NEW d, Possible(d), MayPrepare(d), NEW level \in {"midway", "processed"}
  PROVE  LET e == Prepared(d, level) IN
         /\ Possible(e) /\ TellsApart(d, e) /\ e.simulated = ToPrepare(d).simulated
         /\ e.simulated \in Runtime /\ e.interviews[e.simulated] # NULL
         /\ OnlyWrites(d, e, e.simulated) /\ e.generation = d.generation
<1> PICK n : n = ToPrepare(d)
  OBVIOUS
<1> PICK e : e = Prepared(d, level)
  OBVIOUS
<1> PICK i, target : i = n.simulated /\ target = LEVEL_TARGET(level)
  OBVIOUS
<1>1. /\ Possible(n) /\ TellsApart(d, n) /\ i \in Runtime /\ i \in Ids /\ n.interviews[i] # NULL
      /\ OnlyWrites(d, n, i) /\ n.generation = d.generation
      /\ d.simulated = NULL => d.interviews[i] = NULL
      /\ d.simulated # NULL => n = d
      /\ n \in DemoStates /\ d \in DemoStates
  BY ToPrepareIs DEF ToPrepare, Possible, Ids
<1>2. CASE e = n
  BY <1>1, <1>2
<1>3. ASSUME NEW now \in Nat, now > n.elapsed, e = Written(n, i, target, now)
      PROVE  /\ Possible(e) /\ TellsApart(d, e) /\ e.simulated = i /\ e.interviews[i] # NULL
             /\ OnlyWrites(d, e, i) /\ e.generation = d.generation
  <2>1. target \in InterviewStatuses \ {FALHOU}
    BY LevelsAre
  <2>2. Possible(e) /\ TellsApart(n, e)
    BY <1>1, <1>3, <2>1, WrittenIsPossible
  <2>3. OnlyWrites(n, e, i) /\ e.interviews[i] # NULL /\ e.simulated = i /\ e.generation = n.generation
    BY <1>1, <1>3, <2>1, WrittenIs
  <2>4. OnlyWrites(d, e, i)
    BY <1>1, <2>3 DEF OnlyWrites
  <2>5. TellsApart(d, e)
    BY <1>1, <2>2, <2>4 DEF TellsApart, OnlyWrites
  <2> QED BY <1>1, <2>2, <2>3, <2>4, <2>5
<1> QED BY <1>1, <1>2, <1>3, PreparedIs

-------------------------------------------------------------------------------
(* The actions. *)

LEMMA RenderIs ==
  ASSUME NEW d, NEW p, Render(d, p)
  PROVE  demo' = d
BY DEF Render

\* Every action of the demonstration leads to a possible state, and tells the row it
\* writes from what it was.
LEMMA ActionsArePossible ==
  ASSUME Possible(demo), DemoNext
  PROVE  Possible(demo') /\ TellsApart(demo, demo')
<1>1. /\ demo \in DemoStates /\ demo.elapsed \in Nat /\ demo.generation \in Nat
      /\ TellsApart(demo, demo)
  BY DEF Possible, DemoStates, TellsApart
<1>2. CASE Simulate
  BY <1>2, RenderIs, SimulatedIs DEF Simulate
<1>3. ASSUME NEW x \in Externals \cup {NULL}, Create(x)
      PROVE  Possible(demo') /\ TellsApart(demo, demo')
  BY <1>1, <1>3, RenderIs, InsertedIs DEF Create, Created
<1>4. ASSUME NEW i \in Ids, NEW to \in TERMINAL_STATUSES, Decide(i, to)
      PROVE  Possible(demo') /\ TellsApart(demo, demo')
  <2>1. to \in InterviewStatuses \ {FALHOU} /\ AGUARDANDO # NULL
    BY StatusesApart DEF TERMINAL_STATUSES, InterviewStatuses, APROVADA, REJEITADA, FALHOU
  <2>2. demo.interviews[i] # NULL
    BY <1>1, <1>4, <2>1, StatusIsOfTheRow DEF Decide
  <2> QED BY <1>1, <1>4, <2>1, <2>2, RenderIs, WrittenIsPossible DEF Decide, WRITE_MS
<1>5. ASSUME NEW i \in Ids, Reprocess(i)
      PROVE  Possible(demo') /\ TellsApart(demo, demo')
  <2>1. TRANSCREVENDO \in InterviewStatuses \ {FALHOU} /\ FALHOU # NULL
    BY StatusesApart DEF InterviewStatuses, TRANSCREVENDO, FALHOU
  <2>2. demo.interviews[i] # NULL
    BY <1>1, <1>5, <2>1, StatusIsOfTheRow DEF Reprocess
  <2> QED BY <1>1, <1>5, <2>1, <2>2, RenderIs, WrittenIsPossible DEF Reprocess, WRITE_MS
<1>6. ASSUME NEW level \in {"midway", "processed"}, Prepare(level)
      PROVE  Possible(demo') /\ TellsApart(demo, demo')
  BY <1>6, RenderIs, PreparedIsPossible DEF Prepare
<1>7. CASE Reset
  <2>1. PICK g \in Nat : g = demo.generation + 1
    BY <1>1
  <2>2. PICK e : e = [InitialDemo EXCEPT !.generation = g]
    OBVIOUS
  <2>3. demo' = e
    BY <1>7, <2>1, <2>2, RenderIs DEF Reset
  <2>4. /\ Possible(e)
        /\ \A i \in FailedSeeds : e.interviews[i] = Row(FALHOU, NULL, SeedStamp)
        /\ \A i \in ReadySeeds : e.interviews[i] = Row(AGUARDANDO, NULL, SeedStamp)
        /\ \A i \in Runtime : e.interviews[i] = NULL
    BY <2>2, InitialIs
  <2>5. \A i \in Seeds : e.interviews[i].status = InitialStatus(i) /\ e.interviews[i].at = SeedStamp
    BY <2>4, IdsApart DEF Seeds, InitialStatus, Row
  <2>6. TellsApart(demo, e)
    BY <2>4, <2>5 DEF TellsApart, Ids, Possible, Dated
  <2> QED BY <2>3, <2>4, <2>6
<1>8. CASE Fire
  BY <1>1, <1>8 DEF Fire
<1>9. ASSUME NEW i \in Ids, Move(i)
      PROVE  Possible(demo') /\ TellsApart(demo, demo')
  BY <1>1, <1>9, RenderIs, SteppedIs, WrittenIsPossible DEF Move
<1> QED BY <1>2, <1>3, <1>4, <1>5, <1>6, <1>7, <1>8, <1>9 DEF DemoNext, Played

LEMMA DemoStartsPossible == DemoInit => Possible(demo)
<1>1. InitialDemo = [InitialDemo EXCEPT !.generation = 0]
  BY DEF InitialDemo
<1> QED BY <1>1, InitialIs DEF DemoInit

-------------------------------------------------------------------------------
(* Theorems. *)

LEMMA DemoStaysPossible == DemoSpec => []Possible(demo)
<1>1. Possible(demo) /\ [DemoNext]_demoVars => Possible(demo)'
  BY ActionsArePossible DEF demoVars
<1> QED BY <1>1, DemoStartsPossible, PTL DEF DemoSpec

\* A row that is written again, or comes back with a reset, in another status has
\* another updated_at, for any dataset and any number of actions and of resets: so
\* the shared list never takes one for the other (demo/state.ts:92-99,
\* lib/projection.ts:120-129).
THEOREM StampsAlwaysTellRowsApart == DemoSpec => StampsTellRowsApart
<1>1. Possible(demo) /\ [DemoNext]_demoVars => [TellsApart(demo, demo')]_demoVars
  BY ActionsArePossible
<1>2. TellsApart(demo, demo') =>
        \A i \in Ids : NULL \notin {demo.interviews[i], demo.interviews'[i]}
          /\ demo.interviews[i].status # demo.interviews'[i].status
          => demo.interviews[i].at # demo.interviews'[i].at
  BY DEF TellsApart
<1> QED BY <1>1, <1>2, DemoStaysPossible, PTL DEF DemoSpec, StampsTellRowsApart

-------------------------------------------------------------------------------
(* What the demonstration stages around a row is of that row, for any      *)
(* dataset, external ids and bounds; and staging is all it adds.           *)

Artefacts == {"transcription", "diarization", "scorecard"}

Entries == [verdict : InterviewStatuses, at : Nat]

StagedStates ==
    [artefacts : [Ids -> SUBSET Artefacts], stageById : [Ids -> FUNNEL_STAGES],
     audit : [Ids -> Seq(Entries)], delivery : [Ids -> Nat \cup {NULL}],
     last : [id : Ids, status : InterviewStatuses, deduplicated : BOOLEAN] \cup {NULL}]

\* The column of a card nobody has moved.
Column(s) ==
    CASE s = AGUARDANDO -> "revisao"
      [] s = APROVADA   -> "proposta"
      [] s = REJEITADA  -> "encerrado"
      [] OTHER          -> "entrevista"

\* What is kept by an id is what goes with the row of that id, or what an id no
\* interview has yet begins with.
OfItsRow(d, st, hand, i) ==
    LET s == StatusOf(d, i) IN
    /\ st.artefacts[i] = ArtifactsFor(s)
    /\ st.audit[i] = IF s \in TERMINAL_STATUSES THEN <<[verdict |-> s, at |-> d.interviews[i].at]>> ELSE <<>>
    /\ st.delivery[i] # NULL <=> "scorecard" \in st.artefacts[i]
    /\ st.delivery[i] # NULL => st.delivery[i] <= d.interviews[i].at
    /\ i \notin hand => st.stageById[i] = Column(s)

AllOfTheirRows(d, st, hand) == st \in StagedStates /\ \A i \in Ids : OfItsRow(d, st, hand, i)

StagingInvariant == Possible(demo) /\ AllOfTheirRows(demo, staged, byHand) /\ AnswerIsWhatWasStored

-------------------------------------------------------------------------------
(* The records. *)

\* Nothing is written of any other interview.
OnlyStages(st, tt, i) ==
    \A j \in Ids \ {i} : /\ tt.artefacts[j] = st.artefacts[j] /\ tt.stageById[j] = st.stageById[j]
                         /\ tt.audit[j] = st.audit[j] /\ tt.delivery[j] = st.delivery[j]

LEMMA Elsewhere ==
  ASSUME NEW d, NEW e, NEW st, NEW tt, NEW hand, NEW grip, NEW i \in Ids,
         AllOfTheirRows(d, st, hand), OnlyWrites(d, e, i), OnlyStages(st, tt, i), tt \in StagedStates,
         \A j \in Ids \ {i} : j \in grip <=> j \in hand, OfItsRow(e, tt, grip, i)
  PROVE  AllOfTheirRows(e, tt, grip)
<1>1. SUFFICES ASSUME NEW j \in Ids, j # i PROVE OfItsRow(e, tt, grip, j)
  BY DEF AllOfTheirRows
<1>2. OfItsRow(d, st, hand, j)
  BY DEF AllOfTheirRows
<1>3. e.interviews[j] = d.interviews[j] /\ StatusOf(e, j) = StatusOf(d, j)
  BY <1>1 DEF OnlyWrites, StatusOf
<1>4. /\ tt.artefacts[j] = st.artefacts[j] /\ tt.stageById[j] = st.stageById[j]
      /\ tt.audit[j] = st.audit[j] /\ tt.delivery[j] = st.delivery[j]
  BY <1>1 DEF OnlyStages
<1> QED BY <1>1, <1>2, <1>3, <1>4 DEF OfItsRow

LEMMA ArtifactsAre ==
  ASSUME NEW s
  PROVE  /\ ArtifactsFor(s) \in SUBSET Artefacts
         /\ "scorecard" \in ArtifactsFor(s) <=> s \in {AGUARDANDO} \cup TERMINAL_STATUSES
         /\ "scorecard" \in ArtifactsFor(s) => "diarization" \in ArtifactsFor(s)
         /\ "diarization" \in ArtifactsFor(s) => "transcription" \in ArtifactsFor(s)
         /\ s \in {DIARIZANDO, PONTUANDO} => "transcription" \in ArtifactsFor(s)
         /\ s = PONTUANDO => "diarization" \in ArtifactsFor(s)
         /\ s \in {RECEBIDA, TRANSCREVENDO, FALHOU, NULL} => ArtifactsFor(s) = {}
<1>1. NULL \notin InterviewStatuses
  BY DemoAssumption
<1> QED
  BY <1>1 DEF ArtifactsFor, Artefacts, TERMINAL_STATUSES, InterviewStatuses, RECEBIDA, TRANSCREVENDO, DIARIZANDO,
              PONTUANDO, AGUARDANDO, APROVADA, REJEITADA, FALHOU

LEMMA ColumnsAre ==
  ASSUME NEW s
  PROVE  /\ Column(s) \in FUNNEL_STAGES
         /\ s \in PLAYABLE \cup {FALHOU, NULL} => Column(s) = "entrevista" /\ s \notin TERMINAL_STATUSES
         /\ s = AGUARDANDO => Column(s) = "revisao" /\ s \notin TERMINAL_STATUSES
<1>1. NULL \notin InterviewStatuses
  BY DemoAssumption
<1> QED
  BY <1>1 DEF Column, FUNNEL_STAGES, PLAYABLE, TERMINAL_STATUSES, InterviewStatuses, RECEBIDA, TRANSCREVENDO,
              DIARIZANDO, PONTUANDO, AGUARDANDO, APROVADA, REJEITADA, FALHOU

\* An interview arrives at an id that had none.
LEMMA ArrivedIs ==
  ASSUME NEW d, NEW e, NEW st, NEW hand, NEW i \in Ids, AllOfTheirRows(d, st, hand),
         d.interviews[i] = NULL, OnlyWrites(d, e, i), StatusOf(e, i) = RECEBIDA
  PROVE  /\ AllOfTheirRows(e, Arrived(st, i), hand) /\ Arrived(st, i).delivery = st.delivery
         /\ Arrived(st, i).last = Accepted(i, RECEBIDA, FALSE)
<1> PICK tt : tt = Arrived(st, i)
  OBVIOUS
<1>1. st \in StagedStates /\ OfItsRow(d, st, hand, i) /\ StatusOf(d, i) = NULL
  BY DEF AllOfTheirRows, StatusOf
<1>2. Accepted(i, RECEBIDA, FALSE) \in [id : Ids, status : InterviewStatuses, deduplicated : BOOLEAN]
  BY DEF Accepted, InterviewStatuses
<1>3. PICK a : a = Accepted(i, RECEBIDA, FALSE)
  OBVIOUS
<1>4. tt = [st EXCEPT !.stageById = [st.stageById EXCEPT ![i] = "entrevista"], !.last = a]
  BY <1>1, <1>3 DEF Arrived, StagedStates
<1>5. /\ st.stageById \in [Ids -> FUNNEL_STAGES] /\ [st.stageById EXCEPT ![i] = "entrevista"] \in [Ids -> FUNNEL_STAGES]
  BY <1>1 DEF StagedStates, FUNNEL_STAGES
<1>6. /\ tt \in StagedStates /\ tt.artefacts = st.artefacts /\ tt.audit = st.audit /\ tt.delivery = st.delivery
      /\ tt.stageById = [st.stageById EXCEPT ![i] = "entrevista"] /\ tt.last = a
  BY <1>1, <1>2, <1>3, <1>4, <1>5 DEF StagedStates
<1>7. tt.stageById[i] = "entrevista" /\ OnlyStages(st, tt, i)
  BY <1>5, <1>6 DEF OnlyStages
<1>8. ArtifactsFor(NULL) = {} /\ ArtifactsFor(RECEBIDA) = {}
  BY ArtifactsAre
<1>9. NULL \notin TERMINAL_STATUSES /\ RECEBIDA \notin TERMINAL_STATUSES /\ Column(RECEBIDA) = "entrevista"
  BY ColumnsAre DEF PLAYABLE
<1>10. OfItsRow(e, tt, hand, i)
  BY <1>1, <1>6, <1>7, <1>8, <1>9 DEF OfItsRow
<1> QED BY <1>3, <1>6, <1>7, <1>10, Elsewhere

\* A step, or several at once, of an interview in mid-pipeline: its card is no longer
\* where a person put it, or stays where it is.
LEMMA AdvancedIs ==
  ASSUME NEW d, NEW e, NEW st, NEW hand, NEW grip, NEW i \in Ids, AllOfTheirRows(d, st, hand),
         StatusOf(d, i) \in PLAYABLE, OnlyWrites(d, e, i), NEW s, StatusOf(e, i) = s, NEW at \in Nat,
         e.interviews[i].at = at, s \in (PLAYABLE \ {RECEBIDA}) \cup {AGUARDANDO},
         grip \in {hand, hand \ {i}}, s # AGUARDANDO => grip = hand
  PROVE  /\ AllOfTheirRows(e, Advanced(st, i, s, at), grip)
         /\ Advanced(st, i, s, at).delivery # st.delivery <=> s = AGUARDANDO
<1> PICK tt : tt = Advanced(st, i, s, at)
  OBVIOUS
<1>1. st \in StagedStates /\ OfItsRow(d, st, hand, i)
  BY DEF AllOfTheirRows
<1>2. PICK art, del, col :
        /\ art = [st.artefacts EXCEPT ![i] = ArtifactsFor(s)]
        /\ del = [st.delivery EXCEPT ![i] = IF s = AGUARDANDO THEN at ELSE st.delivery[i]]
        /\ col = [st.stageById EXCEPT ![i] = IF s = AGUARDANDO THEN "revisao" ELSE st.stageById[i]]
  OBVIOUS
<1>3. tt = [st EXCEPT !.artefacts = art, !.delivery = del, !.stageById = col]
  BY <1>1, <1>2 DEF Advanced, StagedStates
<1>4. /\ st.artefacts \in [Ids -> SUBSET Artefacts] /\ st.delivery \in [Ids -> Nat \cup {NULL}]
      /\ st.stageById \in [Ids -> FUNNEL_STAGES] /\ "revisao" \in FUNNEL_STAGES
  BY <1>1 DEF StagedStates, FUNNEL_STAGES
<1>5. /\ art \in [Ids -> SUBSET Artefacts] /\ del \in [Ids -> Nat \cup {NULL}] /\ col \in [Ids -> FUNNEL_STAGES]
      /\ art[i] = ArtifactsFor(s) /\ (s = AGUARDANDO => del[i] = at /\ col[i] = "revisao")
      /\ s # AGUARDANDO => del[i] = st.delivery[i] /\ col[i] = st.stageById[i]
      /\ \A j \in Ids \ {i} : art[j] = st.artefacts[j] /\ del[j] = st.delivery[j] /\ col[j] = st.stageById[j]
  <2>1. ArtifactsFor(s) \in SUBSET Artefacts
    BY ArtifactsAre
  <2> QED BY <1>2, <1>4, <2>1
<1>6. /\ tt \in StagedStates /\ tt.artefacts = art /\ tt.delivery = del /\ tt.stageById = col /\ tt.audit = st.audit
  BY <1>1, <1>3, <1>5 DEF StagedStates
<1>7. OnlyStages(st, tt, i)
  BY <1>5, <1>6 DEF OnlyStages
<1>8. /\ StatusOf(d, i) \notin TERMINAL_STATUSES /\ s \notin TERMINAL_STATUSES
      /\ Column(StatusOf(d, i)) = "entrevista" /\ Column(s) = IF s = AGUARDANDO THEN "revisao" ELSE "entrevista"
  BY ColumnsAre
<1>9. StatusOf(d, i) \notin {AGUARDANDO} \cup TERMINAL_STATUSES /\ (s \in {AGUARDANDO} \cup TERMINAL_STATUSES <=> s = AGUARDANDO)
  BY <1>8 DEF PLAYABLE, RECEBIDA, TRANSCREVENDO, DIARIZANDO, PONTUANDO, AGUARDANDO
<1>10. st.delivery[i] = NULL /\ at # NULL
  BY <1>1, <1>9, ArtifactsAre, DemoAssumption DEF OfItsRow
<1>11. OfItsRow(e, tt, grip, i)
  <2>1. tt.artefacts[i] = ArtifactsFor(s) /\ ("scorecard" \in ArtifactsFor(s) <=> s = AGUARDANDO)
    BY <1>5, <1>6, <1>9, ArtifactsAre
  <2>2. tt.audit[i] = <<>>
    BY <1>1, <1>6, <1>8 DEF OfItsRow
  <2>3. /\ tt.delivery[i] # NULL <=> s = AGUARDANDO
        /\ tt.delivery[i] # NULL => tt.delivery[i] = at
    BY <1>5, <1>6, <1>10
  <2>4. i \notin grip => tt.stageById[i] = Column(s)
    BY <1>1, <1>5, <1>6, <1>8 DEF OfItsRow
  <2> QED BY <1>8, <2>1, <2>2, <2>3, <2>4 DEF OfItsRow
<1>12. tt.delivery # st.delivery <=> s = AGUARDANDO
  BY <1>4, <1>5, <1>6, <1>10
<1> QED BY <1>6, <1>7, <1>11, <1>12, Elsewhere

\* A decision on an interview that awaits it.
LEMMA DecidedIs ==
  ASSUME NEW d, NEW e, NEW st, NEW hand, NEW i \in Ids, AllOfTheirRows(d, st, hand), d \in DemoStates,
         StatusOf(d, i) = AGUARDANDO, OnlyWrites(d, e, i), NEW to \in TERMINAL_STATUSES, StatusOf(e, i) = to,
         NEW now \in Nat, e.interviews[i].at = now, d.interviews[i].at <= now
  PROVE  AllOfTheirRows(e, DecidedStaged(st, i, to, now), hand \ {i})
<1> PICK tt : tt = DecidedStaged(st, i, to, now)
  OBVIOUS
<1>1. st \in StagedStates /\ OfItsRow(d, st, hand, i)
  BY DEF AllOfTheirRows
<1>2. st.audit \in [Ids -> Seq(Entries)] /\ st.stageById \in [Ids -> FUNNEL_STAGES] /\ st.delivery \in [Ids -> Nat \cup {NULL}]
  BY <1>1 DEF StagedStates
<1>3. AGUARDANDO \notin TERMINAL_STATUSES /\ to \in InterviewStatuses
  BY DEF TERMINAL_STATUSES, InterviewStatuses, AGUARDANDO, APROVADA, REJEITADA
<1>4. st.audit[i] = <<>>
  BY <1>1, <1>3 DEF OfItsRow
<1>5. PICK entry : entry = [verdict |-> to, at |-> now]
  OBVIOUS
<1>6. entry \in Entries /\ Append(st.audit[i], entry) = <<entry>> /\ <<entry>> \in Seq(Entries)
  BY <1>3, <1>4, <1>5 DEF Entries
<1>7. PICK aud, col : /\ aud = [st.audit EXCEPT ![i] = <<entry>>]
                      /\ col = [st.stageById EXCEPT ![i] = IF to = APROVADA THEN "proposta" ELSE "encerrado"]
  OBVIOUS
<1>8. tt = [st EXCEPT !.audit = aud, !.stageById = col]
  BY <1>1, <1>5, <1>6, <1>7 DEF DecidedStaged, StagedStates
<1>9. /\ aud \in [Ids -> Seq(Entries)] /\ col \in [Ids -> FUNNEL_STAGES] /\ aud[i] = <<entry>>
      /\ col[i] = IF to = APROVADA THEN "proposta" ELSE "encerrado"
      /\ \A j \in Ids \ {i} : aud[j] = st.audit[j] /\ col[j] = st.stageById[j]
  BY <1>2, <1>6, <1>7 DEF FUNNEL_STAGES
<1>10. /\ tt \in StagedStates /\ tt.audit = aud /\ tt.stageById = col
       /\ tt.artefacts = st.artefacts /\ tt.delivery = st.delivery
  BY <1>1, <1>8, <1>9 DEF StagedStates
<1>11. OnlyStages(st, tt, i)
  BY <1>9, <1>10 DEF OnlyStages
<1>12. ArtifactsFor(to) = ArtifactsFor(AGUARDANDO) /\ Column(to) = IF to = APROVADA THEN "proposta" ELSE "encerrado"
  BY DEF ArtifactsFor, Column, TERMINAL_STATUSES, DIARIZANDO, PONTUANDO, AGUARDANDO, APROVADA, REJEITADA
<1>13. d.interviews[i].at \in Nat
  <2>1. d.interviews[i] # NULL
    BY StatusIsOfTheRow, DemoAssumption DEF InterviewStatuses
  <2> QED BY <2>1, StatusIsOfTheRow DEF Interviews
<1>14. tt.delivery[i] # NULL => tt.delivery[i] <= now
  BY <1>1, <1>2, <1>10, <1>13 DEF OfItsRow
<1>15. OfItsRow(e, tt, hand \ {i}, i)
  BY <1>1, <1>5, <1>9, <1>10, <1>12, <1>14 DEF OfItsRow
<1> QED BY <1>10, <1>11, <1>15, Elsewhere

\* A card is moved by a person.
LEMMA CardMovedIs ==
  ASSUME NEW d, NEW st, NEW hand, NEW i \in Ids, AllOfTheirRows(d, st, hand), NEW stage \in HandStages
  PROVE  AllOfTheirRows(d, [st EXCEPT !.stageById[i] = stage], hand \cup {i})
<1> PICK tt : tt = [st EXCEPT !.stageById[i] = stage]
  OBVIOUS
<1>1. st \in StagedStates /\ OfItsRow(d, st, hand, i) /\ stage \in FUNNEL_STAGES
  BY StagingAssumption DEF AllOfTheirRows
<1>2. PICK col : col = [st.stageById EXCEPT ![i] = stage]
  OBVIOUS
<1>3. tt = [st EXCEPT !.stageById = col] /\ col \in [Ids -> FUNNEL_STAGES] /\ \A j \in Ids \ {i} : col[j] = st.stageById[j]
  BY <1>1, <1>2 DEF StagedStates
<1>4. /\ tt \in StagedStates /\ tt.stageById = col /\ tt.artefacts = st.artefacts /\ tt.audit = st.audit
      /\ tt.delivery = st.delivery
  BY <1>1, <1>3 DEF StagedStates
<1>5. OnlyStages(st, tt, i) /\ OnlyWrites(d, d, i)
  BY <1>3, <1>4 DEF OnlyStages, OnlyWrites
<1>6. OfItsRow(d, tt, hand \cup {i}, i)
  BY <1>1, <1>4 DEF OfItsRow
<1> QED BY <1>4, <1>5, <1>6, Elsewhere

\* What is recorded of an answer concerns no row.
LEMMA AnsweredIs ==
  ASSUME NEW d, NEW st, NEW hand, AllOfTheirRows(d, st, hand),
         NEW a \in [id : Ids, status : InterviewStatuses, deduplicated : BOOLEAN]
  PROVE  AllOfTheirRows(d, [st EXCEPT !.last = a], hand) /\ [st EXCEPT !.last = a].last = a
<1> PICK tt : tt = [st EXCEPT !.last = a]
  OBVIOUS
<1>1. st \in StagedStates
  BY DEF AllOfTheirRows
<1>2. /\ tt \in StagedStates /\ tt.stageById = st.stageById /\ tt.artefacts = st.artefacts
      /\ tt.audit = st.audit /\ tt.delivery = st.delivery /\ tt.last = a
  BY <1>1 DEF StagedStates
<1> QED BY <1>2 DEF AllOfTheirRows, OfItsRow

\* The dataset comes with what belongs to it.
LEMMA InitialStagedIs ==
  ASSUME NEW d, d.interviews = InitialDemo.interviews
  PROVE  AllOfTheirRows(d, InitialStaged, {})
<1> PICK st : st = InitialStaged
  OBVIOUS
<1> PICK e : e = [InitialDemo EXCEPT !.generation = 0]
  OBVIOUS
<1>1. /\ e \in DemoStates /\ e.interviews = InitialDemo.interviews
      /\ \A i \in FailedSeeds : e.interviews[i] = Row(FALHOU, NULL, SeedStamp)
      /\ \A i \in ReadySeeds : e.interviews[i] = Row(AGUARDANDO, NULL, SeedStamp)
      /\ \A i \in Runtime : e.interviews[i] = NULL
  BY InitialIs DEF Possible
<1>2. \A i \in Ids : d.interviews[i] = e.interviews[i] /\ StatusOf(d, i) = StatusOf(e, i) /\ StatusOf(InitialDemo, i) = StatusOf(e, i)
  BY <1>1 DEF StatusOf
<1>3. /\ \A i \in FailedSeeds : StatusOf(d, i) = FALHOU
      /\ \A i \in ReadySeeds : StatusOf(d, i) = AGUARDANDO /\ d.interviews[i].at = SeedStamp
      /\ \A i \in Runtime : StatusOf(d, i) = NULL
  <2>1. \A s, x, t : Row(s, x, t).status = s /\ Row(s, x, t).at = t
    BY DEF Row
  <2>2. \A i \in Seeds : i \in Ids /\ e.interviews[i] # NULL
    <3>1. Row(FALHOU, NULL, SeedStamp) \in Interviews /\ Row(AGUARDANDO, NULL, SeedStamp) \in Interviews
      BY DEF Row, Interviews, InterviewStatuses, SeedStamp
    <3> QED BY <1>1, <3>1, NoInterviewAssumption DEF Seeds, Ids
  <2> QED BY <1>1, <1>2, <2>1, <2>2, IdsApart DEF StatusOf, Ids, Seeds
<1>4. /\ st.artefacts = [i \in Ids |-> ArtifactsFor(StatusOf(InitialDemo, i))]
      /\ st.stageById = [i \in Ids |-> IF i \in ReadySeeds THEN "revisao" ELSE "entrevista"]
      /\ st.audit = [i \in Ids |-> <<>>]
      /\ st.delivery = [i \in Ids |-> IF i \in ReadySeeds THEN SeedStamp ELSE NULL]
      /\ st.last = NULL
  BY DEF InitialStaged
<1>5. st \in StagedStates
  <2>1. \A s : ArtifactsFor(s) \in SUBSET Artefacts
    BY ArtifactsAre
  <2>2. /\ st.artefacts \in [Ids -> SUBSET Artefacts] /\ st.stageById \in [Ids -> FUNNEL_STAGES]
        /\ st.audit \in [Ids -> Seq(Entries)] /\ st.delivery \in [Ids -> Nat \cup {NULL}]
    BY <1>4, <2>1 DEF FUNNEL_STAGES, SeedStamp
  <2>3. st = [artefacts |-> st.artefacts, stageById |-> st.stageById, audit |-> st.audit, delivery |-> st.delivery, last |-> NULL]
    BY DEF InitialStaged
  <2> QED BY <2>2, <2>3 DEF StagedStates
<1>6. ASSUME NEW i \in Ids PROVE OfItsRow(d, st, {}, i)
  <2>1. /\ st.artefacts[i] = ArtifactsFor(StatusOf(d, i)) /\ st.audit[i] = <<>>
        /\ st.delivery[i] = (IF i \in ReadySeeds THEN SeedStamp ELSE NULL)
        /\ st.stageById[i] = (IF i \in ReadySeeds THEN "revisao" ELSE "entrevista")
    BY <1>2, <1>4
  <2>2. CASE i \in ReadySeeds
    <3>1. "scorecard" \in ArtifactsFor(AGUARDANDO) /\ AGUARDANDO \notin TERMINAL_STATUSES /\ Column(AGUARDANDO) = "revisao"
      BY ArtifactsAre, ColumnsAre
    <3>2. SeedStamp # NULL /\ SeedStamp <= SeedStamp
      BY DemoAssumption DEF SeedStamp
    <3> QED BY <1>3, <2>1, <2>2, <3>1, <3>2 DEF OfItsRow
  <2>3. CASE i \notin ReadySeeds
    <3>1. StatusOf(d, i) \in {FALHOU, NULL}
      BY <1>3, <2>3 DEF Ids, Seeds
    <3>2. "scorecard" \notin ArtifactsFor(StatusOf(d, i)) /\ StatusOf(d, i) \notin TERMINAL_STATUSES
          /\ Column(StatusOf(d, i)) = "entrevista"
      BY <3>1, ArtifactsAre, ColumnsAre
    <3> QED BY <2>1, <2>3, <3>2 DEF OfItsRow
  <2> QED BY <2>2, <2>3
<1> QED BY <1>5, <1>6 DEF AllOfTheirRows

-------------------------------------------------------------------------------
(* The actions. *)

\* The interview an external id names is there.
LEMMA KnownIs ==
  ASSUME NEW d \in DemoStates, NEW x, Deduplicated(d, x)
  PROVE  /\ Known(d, x) \in Ids /\ d.interviews[Known(d, x)] # NULL
         /\ StatusOf(d, Known(d, x)) \in InterviewStatuses
<1>1. Known(d, x) \in Ids /\ d.interviews[Known(d, x)] # NULL
  BY DEF Deduplicated, Known
<1> QED BY <1>1, StatusIsOfTheRow

\* Every action that stages is one of the demonstration, or none.
LEMMA StagingIsDemo ==
  ASSUME StagingNext
  PROVE  DemoNext \/ UNCHANGED demoVars
<1>1. ASSUME NEW x \in Externals \cup {NULL}, StagedCreate(x) PROVE DemoNext
  BY <1>1 DEF StagedCreate, DemoNext
<1>2. ASSUME NEW i \in Ids, NEW to \in TERMINAL_STATUSES, StagedDecide(i, to) PROVE DemoNext
  BY <1>2 DEF StagedDecide, DemoNext
<1>3. ASSUME NEW i \in Ids, StagedReprocess(i) \/ StagedMove(i) PROVE DemoNext
  BY <1>3 DEF StagedReprocess, StagedMove, DemoNext, Played
<1>4. ASSUME NEW level \in {"midway", "processed"}, StagedPrepare(level) PROVE DemoNext
  BY <1>4 DEF StagedPrepare, DemoNext
<1>5. ASSUME StagedSimulate \/ StagedReset \/ StagedFire PROVE DemoNext
  BY <1>5 DEF StagedSimulate, StagedReset, StagedFire, DemoNext, Played
<1>6. ASSUME NEW i \in Ids, NEW stage \in HandStages, MoveFunnel(i, stage) PROVE UNCHANGED demoVars
  BY <1>6 DEF MoveFunnel
<1> QED BY <1>1, <1>2, <1>3, <1>4, <1>5, <1>6 DEF StagingNext

LEMMA StagedSimulateOK ==
  ASSUME StagingInvariant, StagedSimulate
  PROVE  AllOfTheirRows(demo', staged', byHand')
<1>1. /\ demo' = Simulated(demo) /\ demo.sequence < MaxRuntime
      /\ staged' = Arrived(staged, demo.sequence + 1) /\ byHand' = byHand
  BY RenderIs DEF StagedSimulate, Simulate
<1>2. /\ demo.sequence + 1 \in Ids /\ demo.interviews[demo.sequence + 1] = NULL
      /\ OnlyWrites(demo, demo', demo.sequence + 1) /\ StatusOf(demo', demo.sequence + 1) = RECEBIDA
  BY <1>1, SimulatedIs DEF StagingInvariant, Ids
<1> QED BY <1>1, <1>2, ArrivedIs DEF StagingInvariant

LEMMA StagedCreateOK ==
  ASSUME StagingInvariant, NEW x \in Externals \cup {NULL}, StagedCreate(x)
  PROVE  AllOfTheirRows(demo', staged', byHand') /\ AnswerIsWhatWasStored'
<1>1. /\ demo' = Created(demo, x) /\ staged' = CreatedStaged(staged, demo, x)
      /\ answer' = AnswerTo(demo, x) /\ byHand' = byHand
      /\ Deduplicated(demo, x) \/ demo.sequence < MaxRuntime
  BY RenderIs DEF StagedCreate, Create
<1>2. demo \in DemoStates /\ AllOfTheirRows(demo, staged, byHand)
  BY DEF StagingInvariant, Possible
<1>3. CASE Deduplicated(demo, x)
  <2>1. PICK i, a : i = Known(demo, x) /\ a = Accepted(i, StatusOf(demo, i), TRUE)
    OBVIOUS
  <2>2. demo' = demo /\ staged' = [staged EXCEPT !.last = a] /\ answer' = a
    BY <1>1, <1>3, <2>1 DEF Created, CreatedStaged, AnswerTo
  <2>3. a \in [id : Ids, status : InterviewStatuses, deduplicated : BOOLEAN] /\ a.id = i /\ a.status = StatusOf(demo, i)
    BY <1>2, <1>3, <2>1, KnownIs DEF Accepted
  <2>4. AllOfTheirRows(demo, staged', byHand) /\ staged'.last = a
    BY <1>2, <2>2, <2>3, AnsweredIs
  <2> QED BY <1>1, <2>2, <2>3, <2>4 DEF AnswerIsWhatWasStored, StatusOf
<1>4. CASE ~Deduplicated(demo, x)
  <2>1. PICK i, a : i = demo.sequence + 1 /\ a = Accepted(i, RECEBIDA, FALSE)
    OBVIOUS
  <2>2. /\ demo' = Inserted(demo, x) /\ demo.sequence < MaxRuntime
        /\ staged' = Arrived(staged, i) /\ answer' = a
    BY <1>1, <1>4, <2>1 DEF Created, CreatedStaged, AnswerTo
  <2>3. /\ i \in Ids /\ demo.interviews[i] = NULL /\ OnlyWrites(demo, demo', i) /\ StatusOf(demo', i) = RECEBIDA
    BY <2>1, <2>2, InsertedIs DEF StagingInvariant, Ids
  <2>4. AllOfTheirRows(demo', staged', byHand) /\ staged'.last = a
    <3>1. /\ AllOfTheirRows(demo', Arrived(staged, i), byHand)
          /\ Arrived(staged, i).last = Accepted(i, RECEBIDA, FALSE)
      BY <1>2, <2>3, ArrivedIs
    <3> QED BY <2>1, <2>2, <3>1
  <2>5. a.id = i /\ a.status = RECEBIDA
    BY <2>1 DEF Accepted
  <2> QED BY <1>1, <2>2, <2>3, <2>4, <2>5 DEF AnswerIsWhatWasStored, StatusOf
<1> QED BY <1>3, <1>4

LEMMA StagedDecideOK ==
  ASSUME StagingInvariant, NEW i \in Ids, NEW to \in TERMINAL_STATUSES, StagedDecide(i, to)
  PROVE  AllOfTheirRows(demo', staged', byHand')
<1>1. PICK now : now = demo.elapsed + WRITE_MS
  OBVIOUS
<1>2. /\ demo' = Written(demo, i, to, now) /\ StatusOf(demo, i) = AGUARDANDO
      /\ staged' = DecidedStaged(staged, i, to, demo'.elapsed) /\ byHand' = byHand \ {i}
  BY <1>1, RenderIs DEF StagedDecide, Decide
<1>3. demo \in DemoStates /\ demo.elapsed \in Nat /\ now \in Nat /\ demo.elapsed <= now
  BY <1>1 DEF StagingInvariant, Possible, DemoStates, WRITE_MS
<1>4. to \in InterviewStatuses /\ AGUARDANDO # NULL
  BY StatusesApart DEF TERMINAL_STATUSES, InterviewStatuses
<1>5. demo.interviews[i] # NULL /\ demo.interviews[i].at \in Nat
  BY <1>2, <1>3, <1>4, StatusIsOfTheRow DEF Interviews
<1>6. demo.interviews[i].at <= now
  BY <1>3, <1>5 DEF StagingInvariant, Possible, Dated
<1>7. /\ OnlyWrites(demo, demo', i) /\ StatusOf(demo', i) = to /\ demo'.elapsed = now /\ demo'.interviews[i].at = now
  BY <1>2, <1>3, <1>4, <1>5, WrittenIs
<1> QED BY <1>2, <1>3, <1>6, <1>7, DecidedIs DEF StagingInvariant

LEMMA StagedReprocessOK ==
  ASSUME StagingInvariant, NEW i \in Ids, StagedReprocess(i)
  PROVE  AllOfTheirRows(demo', staged', byHand')
<1>1. PICK now : now = demo.elapsed + WRITE_MS
  OBVIOUS
<1>2. /\ demo' = Written(demo, i, TRANSCREVENDO, now) /\ StatusOf(demo, i) = FALHOU
      /\ staged' = staged /\ byHand' = byHand
  BY <1>1, RenderIs DEF StagedReprocess, Reprocess
<1>3. demo \in DemoStates /\ demo.elapsed \in Nat /\ now \in Nat
  BY <1>1 DEF StagingInvariant, Possible, DemoStates, WRITE_MS
<1>4. TRANSCREVENDO \in InterviewStatuses /\ FALHOU # NULL
  BY StatusesApart DEF InterviewStatuses
<1>5. OnlyWrites(demo, demo', i) /\ StatusOf(demo', i) = TRANSCREVENDO
  BY <1>2, <1>3, <1>4, StatusIsOfTheRow, WrittenIs
<1>6. /\ staged \in StagedStates /\ OfItsRow(demo, staged, byHand, i)
  BY DEF StagingInvariant, AllOfTheirRows
<1>7. ArtifactsFor(FALHOU) = {} /\ ArtifactsFor(TRANSCREVENDO) = {}
  BY ArtifactsAre
<1>8. /\ Column(FALHOU) = "entrevista" /\ Column(TRANSCREVENDO) = "entrevista"
      /\ FALHOU \notin TERMINAL_STATUSES /\ TRANSCREVENDO \notin TERMINAL_STATUSES
  BY ColumnsAre DEF PLAYABLE
<1>9. OfItsRow(demo', staged, byHand, i)
  BY <1>2, <1>5, <1>6, <1>7, <1>8 DEF OfItsRow
<1>10. OnlyStages(staged, staged, i)
  BY DEF OnlyStages
<1> QED BY <1>2, <1>5, <1>6, <1>9, <1>10, Elsewhere DEF StagingInvariant

LEMMA StagedMoveOK ==
  ASSUME StagingInvariant, NEW i \in Ids, StagedMove(i)
  PROVE  AllOfTheirRows(demo', staged', byHand')
<1>1. /\ demo' = Stepped(demo, i)
      /\ staged' = IF demo' = demo THEN staged ELSE Advanced(staged, i, StatusOf(demo', i), demo'.elapsed)
      /\ byHand' = IF demo' # demo /\ StatusOf(demo', i) = AGUARDANDO THEN byHand \ {i} ELSE byHand
  BY RenderIs DEF StagedMove, Move
<1>2. CASE demo' = demo
  BY <1>1, <1>2 DEF StagingInvariant
<1>3. CASE demo' # demo
  <2>1. PICK now, s : now = demo.elapsed + STEP_MS /\ s = NEXT_STATUS[StatusOf(demo, i)]
    OBVIOUS
  <2>2. /\ StatusOf(demo, i) \in PLAYABLE /\ demo.interviews[i] # NULL /\ now \in Nat
        /\ demo' = Written(demo, i, s, now) /\ s \in InterviewStatuses
    BY <1>1, <1>3, <2>1, SteppedIs DEF StagingInvariant
  <2>3. s \in (PLAYABLE \ {RECEBIDA}) \cup {AGUARDANDO}
    BY <2>1, <2>2, NextStatusIs DEF PLAYABLE, InterviewStatuses, TERMINAL_STATUSES
  <2>4. demo \in DemoStates
    BY DEF StagingInvariant, Possible
  <2>5. /\ OnlyWrites(demo, demo', i) /\ StatusOf(demo', i) = s /\ demo'.elapsed = now /\ demo'.interviews[i].at = now
    BY <2>2, <2>4, WrittenIs
  <2>6. staged' = Advanced(staged, i, s, now) /\ byHand' \in {byHand, byHand \ {i}} /\ (s # AGUARDANDO => byHand' = byHand)
    BY <1>1, <1>3, <2>5
  <2> QED BY <2>2, <2>3, <2>5, <2>6, AdvancedIs DEF StagingInvariant
<1> QED BY <1>2, <1>3

LEMMA StagedResetOK ==
  ASSUME StagingInvariant, StagedReset
  PROVE  AllOfTheirRows(demo', staged', byHand')
<1>1. /\ demo' = [InitialDemo EXCEPT !.generation = demo.generation + 1]
      /\ staged' = InitialStaged /\ byHand' = {}
  BY RenderIs DEF StagedReset, Reset
<1>2. PICK g \in Nat : g = demo.generation + 1
  BY DEF StagingInvariant, Possible, DemoStates
<1>3. demo'.interviews = InitialDemo.interviews
  BY <1>1, <1>2, InitialIs
<1> QED BY <1>1, <1>3, InitialStagedIs

\* A preparation is a simulation, when there is none yet, and the steps still missing.
LEMMA StagedPrepareOK ==
  ASSUME StagingInvariant, NEW level \in {"midway", "processed"}, StagedPrepare(level)
  PROVE  AllOfTheirRows(demo', staged', byHand')
<1>a. PICK n, e : n = ToPrepare(demo) /\ e = Prepared(demo, level)
  OBVIOUS
<1>b. PICK i, there : i = n.simulated /\ there = IF demo.simulated = NULL THEN Arrived(staged, i) ELSE staged
  OBVIOUS
<1>1. /\ demo' = e /\ MayPrepare(demo) /\ staged' = PreparedStaged(staged, demo, e)
      /\ byHand' = IF staged'.delivery # staged.delivery THEN byHand \ {e.simulated} ELSE byHand
  BY <1>a, RenderIs DEF StagedPrepare, Prepare
<1>2. /\ Possible(demo) /\ demo \in DemoStates /\ AllOfTheirRows(demo, staged, byHand)
  BY DEF StagingInvariant, Possible
<1>3. /\ Possible(n) /\ n \in DemoStates /\ i \in Runtime /\ i \in Ids /\ n.interviews[i] # NULL
      /\ OnlyWrites(demo, n, i)
      /\ demo.simulated = NULL => demo.interviews[i] = NULL /\ StatusOf(n, i) = RECEBIDA
      /\ demo.simulated # NULL => n = demo
  BY <1>a, <1>b, <1>1, <1>2, ToPrepareIs DEF ToPrepare, Possible, Ids
<1>4. e.simulated = i
  BY <1>a, <1>b, <1>1, <1>2, PreparedIsPossible
<1>5. staged' = IF StatusOf(e, i) = StatusOf(demo, i) THEN there ELSE Advanced(there, i, StatusOf(e, i), e.elapsed)
  BY <1>b, <1>1, <1>4 DEF PreparedStaged
<1>6. AllOfTheirRows(n, there, byHand) /\ there.delivery = staged.delivery
  <2>1. CASE demo.simulated = NULL
    <3>1. AllOfTheirRows(n, Arrived(staged, i), byHand) /\ Arrived(staged, i).delivery = staged.delivery
      <4>1. demo.interviews[i] = NULL /\ StatusOf(n, i) = RECEBIDA /\ OnlyWrites(demo, n, i) /\ i \in Ids
        BY <1>3, <2>1
      <4>2. AllOfTheirRows(demo, staged, byHand)
        BY <1>2
      <4>3. /\ AllOfTheirRows(n, Arrived(staged, i), byHand) /\ Arrived(staged, i).delivery = staged.delivery
            /\ Arrived(staged, i).last = Accepted(i, RECEBIDA, FALSE)
        BY <4>1, <4>2, ArrivedIs
      <4> QED BY <4>3
    <3> QED BY <1>b, <2>1, <3>1
  <2>2. CASE demo.simulated # NULL
    BY <1>b, <1>2, <1>3, <2>2
  <2> QED BY <2>1, <2>2
<1>7. CASE e = n
  <2>1. StatusOf(e, i) = StatusOf(demo, i)
    <3>1. CASE demo.simulated = NULL
      <4>0. FORWARD_ORDER(RECEBIDA) = 1 /\ RECEBIDA \notin {DIARIZANDO, AGUARDANDO}
        BY DEF FORWARD_ORDER, RECEBIDA, TRANSCREVENDO, DIARIZANDO, PONTUANDO, AGUARDANDO
      <4>1. /\ FORWARD_ORDER(RECEBIDA) = 1 /\ FORWARD_ORDER(LEVEL_TARGET(level)) \in {3, 5}
            /\ RECEBIDA # LEVEL_TARGET(level)
        BY <4>0, LevelsAre
      <4>2. ~(FORWARD_ORDER(RECEBIDA) = 0 \/ FORWARD_ORDER(RECEBIDA) >= FORWARD_ORDER(LEVEL_TARGET(level)))
        BY <4>1
      <4>3. \E now \in Nat : e = Written(n, i, LEVEL_TARGET(level), now)
        BY <1>a, <1>b, <1>1, <1>2, <1>3, <3>1, <4>2, PreparedIs
      <4>4. LEVEL_TARGET(level) \in InterviewStatuses
        BY LevelsAre
      <4>5. StatusOf(e, i) = LEVEL_TARGET(level)
        BY <1>3, <4>3, <4>4, WrittenIs
      <4> QED BY <1>3, <1>7, <3>1, <4>1, <4>5
    <3>2. CASE demo.simulated # NULL
      BY <1>3, <1>7, <3>2
    <3> QED BY <3>1, <3>2
  <2>2. staged' = there /\ byHand' = byHand
    BY <1>1, <1>5, <1>6, <2>1
  <2> QED BY <1>1, <1>6, <1>7, <2>2
<1>8. ASSUME NEW now \in Nat, now > n.elapsed, e = Written(n, i, LEVEL_TARGET(level), now),
             StatusOf(n, i) \in PLAYABLE, StatusOf(n, i) # LEVEL_TARGET(level)
      PROVE  AllOfTheirRows(demo', staged', byHand')
  <2>1. PICK s : s = LEVEL_TARGET(level)
    OBVIOUS
  <2>2. s \in InterviewStatuses /\ s \in (PLAYABLE \ {RECEBIDA}) \cup {AGUARDANDO}
    BY <2>1, LevelsAre DEF PLAYABLE, RECEBIDA, DIARIZANDO
  <2>3. /\ OnlyWrites(n, e, i) /\ StatusOf(e, i) = s /\ e.elapsed = now /\ e.interviews[i].at = now
    BY <1>3, <1>8, <2>1, <2>2, WrittenIs
  <2>4. StatusOf(e, i) # StatusOf(demo, i)
    <3>1. CASE demo.simulated = NULL
      BY <1>3, <2>2, <2>3, <3>1, StatusesApart DEF StatusOf
    <3>2. CASE demo.simulated # NULL
      BY <1>3, <1>8, <2>1, <2>3, <3>2
    <3> QED BY <3>1, <3>2
  <2>5. staged' = Advanced(there, i, s, now)
    BY <1>5, <2>3, <2>4
  <2>6. Advanced(there, i, s, now).delivery # there.delivery <=> s = AGUARDANDO
    <3>1. /\ AllOfTheirRows(e, Advanced(there, i, s, now), byHand)
          /\ Advanced(there, i, s, now).delivery # there.delivery <=> s = AGUARDANDO
      <4>1. AllOfTheirRows(n, there, byHand) /\ i \in Ids /\ StatusOf(n, i) \in PLAYABLE
        BY <1>3, <1>6, <1>8
      <4> QED BY <4>1, <2>2, <2>3, AdvancedIs
    <3> QED BY <3>1
  <2>7. byHand' \in {byHand, byHand \ {i}} /\ (s # AGUARDANDO => byHand' = byHand)
    BY <1>1, <1>4, <1>6, <2>5, <2>6
  <2>8. AllOfTheirRows(e, Advanced(there, i, s, now), byHand')
    BY <1>3, <1>6, <1>8, <2>2, <2>3, <2>7, AdvancedIs
  <2> QED BY <1>1, <2>5, <2>8
<1> QED BY <1>a, <1>b, <1>1, <1>2, <1>7, <1>8, PreparedIs

LEMMA StagingStep == StagingInvariant /\ [StagingNext]_stagingVars => StagingInvariant'
<1> SUFFICES ASSUME StagingInvariant, [StagingNext]_stagingVars PROVE StagingInvariant'
  OBVIOUS
<1>1. Possible(demo')
  BY StagingIsDemo, ActionsArePossible DEF StagingInvariant, stagingVars, demoVars
<1>2. AllOfTheirRows(demo', staged', byHand') /\ AnswerIsWhatWasStored'
  <2>1. CASE UNCHANGED stagingVars
    BY <2>1 DEF stagingVars, demoVars, StagingInvariant, AnswerIsWhatWasStored, StatusOf
  <2>2. ASSUME NEW x \in Externals \cup {NULL}, StagedCreate(x)
        PROVE  AllOfTheirRows(demo', staged', byHand') /\ AnswerIsWhatWasStored'
    BY <2>2, StagedCreateOK
  <2>3. CASE StagedSimulate
    BY <2>3, StagedSimulateOK DEF StagedSimulate, AnswerIsWhatWasStored
  <2>4. ASSUME NEW i \in Ids, NEW to \in TERMINAL_STATUSES, StagedDecide(i, to)
        PROVE  AllOfTheirRows(demo', staged', byHand') /\ AnswerIsWhatWasStored'
    BY <2>4, StagedDecideOK DEF StagedDecide, AnswerIsWhatWasStored
  <2>5. ASSUME NEW i \in Ids, StagedReprocess(i)
        PROVE  AllOfTheirRows(demo', staged', byHand') /\ AnswerIsWhatWasStored'
    BY <2>5, StagedReprocessOK DEF StagedReprocess, AnswerIsWhatWasStored
  <2>6. ASSUME NEW level \in {"midway", "processed"}, StagedPrepare(level)
        PROVE  AllOfTheirRows(demo', staged', byHand') /\ AnswerIsWhatWasStored'
    BY <2>6, StagedPrepareOK DEF StagedPrepare, AnswerIsWhatWasStored
  <2>7. CASE StagedReset
    BY <2>7, StagedResetOK DEF StagedReset, AnswerIsWhatWasStored
  <2>8. CASE StagedFire
    BY <2>8 DEF StagedFire, Fire, StagingInvariant, AnswerIsWhatWasStored
  <2>9. ASSUME NEW i \in Ids, StagedMove(i)
        PROVE  AllOfTheirRows(demo', staged', byHand') /\ AnswerIsWhatWasStored'
    BY <2>9, StagedMoveOK DEF StagedMove, AnswerIsWhatWasStored
  <2>10. ASSUME NEW i \in Ids, NEW stage \in HandStages, MoveFunnel(i, stage)
         PROVE  AllOfTheirRows(demo', staged', byHand') /\ AnswerIsWhatWasStored'
    BY <2>10, CardMovedIs DEF MoveFunnel, demoVars, StagingInvariant, AnswerIsWhatWasStored
  <2> QED
    BY <2>1, <2>2, <2>3, <2>4, <2>5, <2>6, <2>7, <2>8, <2>9, <2>10 DEF StagingNext
<1> QED BY <1>1, <1>2 DEF StagingInvariant

LEMMA StagingStarts == StagingInit => StagingInvariant
<1> SUFFICES ASSUME StagingInit PROVE StagingInvariant
  OBVIOUS
<1>1. DemoInit /\ demo = InitialDemo /\ staged = InitialStaged /\ answer = NULL /\ byHand = {}
  BY DEF StagingInit, DemoInit
<1>2. AllOfTheirRows(demo, InitialStaged, {})
  BY <1>1, InitialStagedIs
<1> QED BY <1>1, <1>2, DemoStartsPossible DEF StagingInvariant, AnswerIsWhatWasStored

-------------------------------------------------------------------------------
(* Theorems. *)

\* Staging adds to the demonstration and changes nothing of it: what holds of its
\* reducer and of its walk holds with what surrounds them (demo/state.ts:139-371).
THEOREM StagingImplementsDemo == StagingSpec => DemoSpec
<1>1. StagingInit => DemoInit
  BY DEF StagingInit
<1>2. [StagingNext]_stagingVars => [DemoNext]_demoVars
  BY StagingIsDemo DEF stagingVars
<1> QED BY <1>1, <1>2, PTL DEF StagingSpec, DemoSpec

\* So do the instants of the rows, in the specification the runs check.
THEOREM StagedStampsTellRowsApart == StagingSpec => StampsTellRowsApart
BY StagingImplementsDemo, StampsAlwaysTellRowsApart, PTL

LEMMA StagingInvariantHolds == StagingSpec => []StagingInvariant
BY StagingStarts, StagingStep, PTL DEF StagingSpec

\* No interview of the demonstration that has not failed, for any dataset and any order
\* of its actions, is one the worker could not have left, and none has notifications
\* of a scorecard it has not (dataset.ts:354-407, state.ts:162-170).
THEOREM DemoLooksLikeTheWorker == StagingSpec => []StagedAsByTheWorker
<1>1. StagingInvariant => StagedAsByTheWorker
  <2> SUFFICES ASSUME StagingInvariant PROVE StagedAsByTheWorker
    OBVIOUS
  <2>1. \A i \in Present : i \in Ids /\ OfItsRow(demo, staged, byHand, i)
    BY DEF StagingInvariant, AllOfTheirRows, Present
  <2>2. StagedAsTheWorkerLeavesIt
    <3> SUFFICES ASSUME NEW i \in Present, StatusOf(demo, i) # FALHOU
                 PROVE  staged.artefacts[i] \in LeftByTheWorker(StatusOf(demo, i))
      BY DEF StagedAsTheWorkerLeavesIt
    <3>1. PICK s : s = StatusOf(demo, i)
      OBVIOUS
    <3>2. s \in InterviewStatuses \ {FALHOU}
      <4>1. i \in Ids /\ demo.interviews[i] # NULL
        BY <2>1 DEF Present
      <4>2. demo.interviews[i].status \in InterviewStatuses
        BY <4>1 DEF StagingInvariant, Possible, DemoStates, Interviews
      <4> QED BY <3>1, <4>1, <4>2, IdsApart DEF StatusOf, Ids
    <3>4. staged.artefacts[i] = ArtifactsFor(s)
      BY <2>1, <3>1 DEF OfItsRow
    <3>3. ArtifactsFor(s) \in LeftByTheWorker(s)
      BY <3>2 DEF ArtifactsFor, LeftByTheWorker, TERMINAL_STATUSES, InterviewStatuses, RECEBIDA, TRANSCREVENDO,
                  DIARIZANDO, PONTUANDO, AGUARDANDO, APROVADA, REJEITADA, FALHOU
    <3> QED BY <3>1, <3>3, <3>4
  <2>3. DeliveredOncePerScorecard
    BY <2>1 DEF OfItsRow, DeliveredOncePerScorecard
  <2> QED BY <2>2, <2>3 DEF StagedAsByTheWorker
<1> QED BY <1>1, StagingInvariantHolds, PTL

\* What is kept beside the rows by their ids is never about another interview, though
\* a reset gives the ids away again (state.ts:228-247, 281-311, 365-371,
\* demoSource.ts:121-145).
THEOREM RecordsStayWithTheirRow == StagingSpec => []RecordsAreOfTheirRow
<1>1. StagingInvariant => RecordsAreOfTheirRow
  <2> SUFFICES ASSUME StagingInvariant PROVE RecordsAreOfTheirRow
    OBVIOUS
  <2>1. \A i \in Present : i \in Ids /\ OfItsRow(demo, staged, byHand, i)
    BY DEF StagingInvariant, AllOfTheirRows, Present
  <2>2. TrailIsTheDecision
    BY <2>1 DEF OfItsRow, TrailIsTheDecision
  <2>3. CardIsWhereItsStatusSays
    BY <2>1 DEF OfItsRow, CardIsWhereItsStatusSays, Column
  <2> QED BY <2>2, <2>3 DEF StagingInvariant, RecordsAreOfTheirRow
<1> QED BY <1>1, StagingInvariantHolds, PTL
===============================================================================
