--------------------------- MODULE SchedulerProofs --------------------------
(***************************************************************************)
(* Bounded overtaking, everybody's turn and the spacing of runs, for any   *)
(* accounts, tasks, cadences and faults, over unbounded time.              *)
(***************************************************************************)
EXTENDS Scheduler, FiniteSetTheorems, TLAPS

USE SchedulerAssumption

-----------------------------------------------------------------------------
(* The arithmetic of due times. *)

\* A row whose shift is within the task's jitter and whose failures are finite.
Sound(p, row) ==
    /\ row \in Rows
    /\ row.offset \in -Jitter[p[2]] .. Jitter[p[2]]
    /\ IsFiniteSet(row.failed)

Capped(n) == IF n > MaxBackoffFailures THEN MaxBackoffFailures ELSE n

LEMMA ShiftIsPositive ==
  ASSUME NEW n \in 0 .. 5 PROVE Shift[n] \in Nat /\ Shift[n] >= 1
  BY DEF Shift

LEMMA BackoffIsDelay ==
  ASSUME NEW c \in Nat, NEW f \in Nat
  PROVE  /\ Backoff(c, f) \in Nat
         /\ c + Backoff(c, f) = c * Shift[Capped(f)]
  <1>1. Capped(f) \in 0 .. 5
    BY DEF Capped
  <1>2. Shift[Capped(f)] \in Nat /\ Shift[Capped(f)] >= 1
    BY <1>1, ShiftIsPositive
  <1>3. Backoff(c, f) = c * (Shift[Capped(f)] - 1)
    BY DEF Backoff, Capped
  <1>4. ASSUME NEW s \in Nat, s >= 1
        PROVE  c * (s - 1) \in Nat /\ c + c * (s - 1) = c * s
    BY <1>4
  <1> QED BY <1>2, <1>3, <1>4

\* What a due time promises: it is later than the attempt it is counted from,
\* by the cadence times 2^failures less the shift.
LEMMA DueIsLater ==
  ASSUME NEW p \in Suited, NEW row, Sound(p, row)
  PROVE  /\ Due(p, row) \in Int
         /\ HasRun(row) => Due(p, row) > row.last
         /\ Due(p, row) - row.last + Jitter[p[2]] >=
                Cadence[p[2]] * Shift[Capped(ConsecutiveFailures(row))]
  <1> DEFINE c == Cadence[p[2]]
             f == ConsecutiveFailures(row)
  <1>1. p[2] \in Tasks /\ c \in Nat /\ Jitter[p[2]] \in Nat /\ Jitter[p[2]] < c
    OBVIOUS
  <1>2. f \in Nat
    BY FS_CardinalityType DEF Sound, ConsecutiveFailures
  <1>3. Backoff(c, f) \in Nat /\ c + Backoff(c, f) = c * Shift[Capped(f)]
    BY <1>1, <1>2, BackoffIsDelay
  <1>4. Due(p, row) = row.last + c + row.offset + Backoff(c, f)
    BY DEF Due
  <1>5. row.last \in Int /\ row.offset \in Int
        /\ row.offset >= -Jitter[p[2]] /\ row.offset <= Jitter[p[2]]
    BY <1>1 DEF Sound, Rows, Never
  <1> HIDE DEF c, f
  <1>6. Shift[Capped(f)] \in Nat
    BY <1>2, ShiftIsPositive DEF Capped
  <1>7. c * Shift[Capped(f)] \in Int
    BY <1>1, <1>6
  <1>8. Due(p, row) \in Int /\ Due(p, row) > row.last
        /\ Due(p, row) - row.last + Jitter[p[2]] >= c * Shift[Capped(f)]
    BY <1>1, <1>3, <1>4, <1>5, <1>7
  <1> QED BY <1>8 DEF c, f

\* A counted attempt keeps a row sound and never turns its clock back.
LEMMA CountedIsSound ==
  ASSUME NEW p \in Suited, NEW row, Sound(p, row), NEW s \in Nat, NEW status,
         NEW o \in -Jitter[p[2]] .. Jitter[p[2]]
  PROVE  /\ Sound(p, Counted(row, s, status, o))
         /\ Counted(row, s, status, o).last >= row.last
         /\ Counted(row, s, status, o).last >= s
         /\ HasRun(Counted(row, s, status, o))
  <1> DEFINE won == IF status = "succeeded" /\ s > row.won THEN s ELSE row.won
             all == row.failed \cup (IF status = "failed" THEN {s} ELSE {})
             new == Counted(row, s, status, o)
  <1>1. row.last \in Nat \cup {Never} /\ row.won \in Nat \cup {Never}
        /\ row.failed \in SUBSET Nat /\ row.offset \in Int
    BY DEF Sound, Rows
  <1>2. all \in SUBSET Nat /\ IsFiniteSet(all)
    <2>1. CASE status = "failed"
      BY <1>1, <2>1, FS_AddElement DEF Sound
    <2>2. CASE status # "failed"
      <3>1. all = row.failed
        BY <2>2
      <3> QED BY <1>1, <3>1 DEF Sound
    <2> QED BY <2>1, <2>2
  <1>3. {t \in all : t > won} \in SUBSET Nat /\ IsFiniteSet({t \in all : t > won})
    BY <1>2, FS_Subset
  <1>4. new = [last   |-> IF s > row.last THEN s ELSE row.last,
               offset |-> IF s > row.last THEN o ELSE row.offset,
               won    |-> won,
               failed |-> {t \in all : t > won}]
    BY DEF Counted
  <1>5. p[2] \in Tasks /\ Jitter[p[2]] \in Nat
    OBVIOUS
  <1>6. won \in Nat \cup {Never}
    BY <1>1
  <1> HIDE DEF won, all, new
  <1>7. new.last \in Nat /\ new.last >= row.last /\ new.last >= s
    BY <1>1, <1>4 DEF Never
  <1>8. new.offset \in -Jitter[p[2]] .. Jitter[p[2]] /\ new.offset \in Int
    BY <1>1, <1>4, <1>5 DEF Sound
  <1>9. new \in Rows
    BY <1>3, <1>4, <1>6, <1>7, <1>8 DEF Rows
  <1>10. IsFiniteSet(new.failed)
    BY <1>3, <1>4
  <1> QED BY <1>7, <1>8, <1>9, <1>10 DEF Sound, HasRun, Never, new

-----------------------------------------------------------------------------
(* The inductive invariant. *)

Pairs == Suited \X Suited

\* While p is due and q has been served over it, q's newest counted attempt is
\* later than p's due time, so q is due later than p.
Behind(pq, runs) ==
    /\ HasRun(runs[pq[1]]) /\ HasRun(runs[pq[2]])
    /\ Due(pq[1], runs[pq[1]]) <= runs[pq[2]].last

SchedInv ==
    /\ TypeOK
    /\ \A p \in Suited : Sound(p, table[p]) /\ Sound(p, snap.runs[p])
    /\ \A pq \in passed : Behind(pq, table)
    /\ loop.pc = "plan" => /\ \A pq \in passed : Behind(pq, snap.runs)
                           /\ \A p \in Suited \ Manual : snap.runs[p] = table[p]
    /\ loop.pc \in {"execute", "running"} =>
          \A pq \in passed : pq[2] # loop.run.pair
    /\ loop.pc = "execute" /\ loop.run.pair \notin Manual
           /\ HasRun(table[loop.run.pair]) =>
              Due(loop.run.pair, table[loop.run.pair]) <= now
    /\ manual.pair # NoPair => manual.pair \in Manual

LEMMA NoPairUnsuited == NoPair \notin Suited
  BY DEF NoPair

LEMMA ShiftMayBeNone == \A p \in Suited : 0 \in -Jitter[p[2]] .. Jitter[p[2]]
  <1> TAKE p \in Suited
  <1>1. p[2] \in Tasks /\ Jitter[p[2]] \in Nat
    OBVIOUS
  <1> QED BY <1>1

LEMMA EmptyRowSound == \A p \in Suited : Sound(p, NoRows)
  BY ShiftMayBeNone, FS_EmptySet DEF Sound, NoRows, Rows, Never

\* How the loop goes to sleep.
LEMMA SleepIsTyped ==
  ASSUME now \in Nat, SleepFrom
  PROVE  /\ loop' \in [pc: {"sleep"}, until: Nat, run: {NoRun}]
         /\ NoRun \in Runs /\ NoRun.pair = NoPair
  <1>1. PICK d \in TickMin .. TickMax :
           loop' = [pc |-> "sleep", until |-> now + d, run |-> NoRun]
    BY DEF SleepFrom
  <1>2. now + d \in Nat
    OBVIOUS
  <1> QED BY <1>1, <1>2 DEF NoRun, Runs

LEMMA SchedInvInit == Init => SchedInv
  <1> SUFFICES ASSUME Init PROVE SchedInv
    OBVIOUS
  <1>1. TypeOK
    BY EmptyRowSound
       DEF Init, TypeOK, Flags, Runs, Rows, NoRun, NoSnap, AllOn, NoRows, Never
  <1>2. \A p \in Suited : Sound(p, table[p]) /\ Sound(p, snap.runs[p])
    <2> SUFFICES ASSUME NEW p \in Suited
                 PROVE  Sound(p, table[p]) /\ Sound(p, snap.runs[p])
      OBVIOUS
    <2>1. snap.runs[p] = NoRows
      BY DEF Init, NoSnap
    <2>2. table[p] = NoRows
          \/ table[p] = [last |-> 0, offset |-> 0, won |-> 0, failed |-> {}]
      BY DEF Init
    <2>3. Sound(p, [last |-> 0, offset |-> 0, won |-> 0, failed |-> {}])
      BY ShiftMayBeNone, FS_EmptySet DEF Sound, Rows
    <2> QED BY <2>1, <2>2, <2>3, EmptyRowSound
  <1> QED BY <1>1, <1>2 DEF Init, SchedInv, NoRun

\* Steps of the loop between runs, and of the world.
LEMMA QuietSteps ==
  ASSUME SchedInv,
         \/ Startup \/ ReadPause \/ ReadAccounts \/ ReadTasks \/ SnapshotFails
         \/ ExecuteFails \/ SleepEnds \/ Crash
  PROVE  SchedInv'
  <1> USE DEF SchedInv, LoopAt, SleepFrom, NothingServed
  <1>1. table' = table /\ now' = now /\ manual' = manual /\ passed' = passed
    BY DEF Startup, ReadPause, ReadAccounts, ReadTasks, SnapshotFails,
           ExecuteFails, SleepEnds, Crash, Read
  <1>2. loop'.pc \notin {"plan", "execute", "running"}
    BY DEF Startup, ReadPause, ReadAccounts, ReadTasks, SnapshotFails,
           ExecuteFails, SleepEnds, Crash, Read
  <1>3. TypeOK' /\ snap'.runs \in {snap.runs, NoSnap.runs}
    <2> USE DEF TypeOK, NoRun, Runs, Flags
    <2>1. NoSnap \in [flags: Flags, runs: [Suited -> Rows]]
      BY EmptyRowSound DEF NoSnap, AllOn, Sound
    <2>2. CASE Startup
      BY <2>2 DEF Startup
    <2>3. CASE ReadPause \/ ReadAccounts \/ ReadTasks
      <3>1. PICK f \in Flags, point \in {"accounts", "tasks", "runs"} :
               /\ snap' = [snap EXCEPT !["flags"] = f]
               /\ loop' = LoopAt(point)
        BY <2>3 DEF ReadPause, ReadAccounts, ReadTasks, Read
      <3>2. UNCHANGED <<now, flags, calendar, attached, up, table, scope, manual,
                        passed, passedOver>>
        BY <2>3 DEF ReadPause, ReadAccounts, ReadTasks, Read
      <3> QED BY <3>1, <3>2
    <2>4. CASE SnapshotFails \/ ExecuteFails
      <3>1. loop' \in [pc: {"sleep"}, until: Nat, run: {NoRun}]
            /\ NoRun \in Runs /\ NoRun.pair = NoPair
        BY <2>4, SleepIsTyped DEF SnapshotFails, ExecuteFails
      <3> QED BY <2>1, <2>4, <3>1 DEF SnapshotFails, ExecuteFails
    <2>6. CASE SleepEnds
      BY <2>6 DEF SleepEnds
    <2>7. CASE Crash
      BY <2>1, <2>7 DEF Crash
    <2> QED BY <2>2, <2>3, <2>4, <2>6, <2>7
  <1>4. \A p \in Suited : NoSnap.runs[p] = NoRows
    BY DEF NoSnap
  <1> QED BY <1>1, <1>2, <1>3, <1>4, EmptyRowSound

LEMMA ReadRunsStep == SchedInv /\ ReadRuns => SchedInv'
  <1> SUFFICES ASSUME SchedInv, ReadRuns PROVE SchedInv'
    OBVIOUS
  <1>1. /\ snap' = [snap EXCEPT !["runs"] = table]
        /\ loop' = [pc |-> "plan", until |-> now, run |-> NoRun]
        /\ UNCHANGED <<now, flags, calendar, attached, up, table, scope, manual,
                       passed, passedOver>>
    BY DEF ReadRuns, Read, LoopAt, NothingServed
  <1>2. snap'.runs = table /\ snap'.flags = snap.flags /\ TypeOK'
    BY <1>1 DEF SchedInv, TypeOK, NoRun, Runs
  <1> QED BY <1>1, <1>2 DEF SchedInv, Behind

\* The heart of it: the chosen pair is ahead of every other candidate, and
\* whoever is behind a candidate is not ahead of it.
LEMMA PlanStep == SchedInv /\ Plan => SchedInv'
  <1> SUFFICES ASSUME SchedInv, Plan PROVE SchedInv'
    OBVIOUS
  <1> DEFINE s   == [flags |-> snap.flags, runs |-> snap.runs, scope |-> scope]
             due == Candidates(s, calendar, now)
  <1>1. due \subseteq Suited
    BY DEF Candidates
  <1>2. /\ UNCHANGED <<now, flags, calendar, attached, up, table, scope, manual>>
        /\ snap' = NoSnap /\ passedOver' = due
        /\ passed' = {pq \in passed : pq[1] \in due}
        /\ loop.pc = "plan"
    BY DEF Plan, SleepFrom
  <1>3. NoSnap \in [flags: Flags, runs: [Suited -> Rows]]
        /\ \A p \in Suited : NoSnap.runs[p] = NoRows
    BY EmptyRowSound DEF NoSnap, AllOn, Sound, Flags
  <1>4. CASE SleepFrom
    <2>0. loop' \in [pc: {"sleep"}, until: Nat, run: {NoRun}]
          /\ NoRun \in Runs /\ NoRun.pair = NoPair
      BY <1>4, SleepIsTyped DEF SchedInv, TypeOK
    <2>1. TypeOK'
      BY <1>1, <1>2, <1>3, <2>0 DEF SchedInv, TypeOK
    <2> QED BY <1>2, <1>3, <2>0, <2>1, EmptyRowSound DEF SchedInv, Behind
  <1>5. ASSUME NEW p \in due, \A q \in due : Ahead(p, q, s, now),
               loop' = [pc |-> "execute", until |-> now,
                        run |-> [NoRun EXCEPT !.pair = p]]
        PROVE  SchedInv'
    <2>1. p \in Suited /\ loop'.pc = "execute" /\ loop'.run.pair = p
      BY <1>1, <1>5 DEF NoRun
    <2>2. TypeOK'
      BY <1>1, <1>2, <1>3, <1>5, <2>1, NoPairUnsuited
         DEF SchedInv, TypeOK, Runs, NoRun
    <2>3. ASSUME NEW pq \in passed, pq[1] \in due PROVE pq[2] # p
      <3>1. pq[1] \in Suited /\ pq[2] \in Suited /\ Behind(pq, s.runs)
        BY <1>2, <2>3 DEF SchedInv, TypeOK
      <3>2. Sound(pq[1], s.runs[pq[1]]) /\ Sound(pq[2], s.runs[pq[2]])
        BY <3>1 DEF SchedInv
      <3>3. Due(pq[2], s.runs[pq[2]]) > Due(pq[1], s.runs[pq[1]])
        <4>1. Due(pq[2], s.runs[pq[2]]) > s.runs[pq[2]].last
          BY <3>1, <3>2, DueIsLater DEF Behind
        <4>2. s.runs[pq[2]].last \in Int
              /\ Due(pq[1], s.runs[pq[1]]) \in Int
              /\ Due(pq[2], s.runs[pq[2]]) \in Int
          BY <3>1, <3>2, DueIsLater DEF Sound, Rows, Never
        <4> QED BY <3>1, <4>1, <4>2 DEF Behind
      <3>4. Due(pq[1], s.runs[pq[1]]) \in Int /\ Due(pq[2], s.runs[pq[2]]) \in Int
        BY <3>1, <3>2, DueIsLater
      <3>5. ~Ahead(pq[2], pq[1], s, now)
        BY <3>1, <3>3, <3>4 DEF Ahead, DueAt, Behind
      <3> QED BY <1>5, <2>3, <3>5
    <2>4. ASSUME p \notin Manual, HasRun(table[p]) PROVE Due(p, table[p]) <= now
      <3>1. s.runs[p] = table[p]
        BY <1>2, <2>1, <2>4 DEF SchedInv
      <3> QED BY <1>5, <2>4, <3>1 DEF Candidates, DueAt
    <2> QED BY <1>2, <1>3, <2>1, <2>2, <2>3, <2>4, EmptyRowSound
            DEF SchedInv, Behind
  <1> QED
    <2>1. SleepFrom
          \/ \E p \in due : /\ \A q \in due : Ahead(p, q, s, now)
                            /\ loop' = [pc |-> "execute", until |-> now,
                                        run |-> [NoRun EXCEPT !.pair = p]]
      BY DEF Plan
    <2> QED BY <1>4, <1>5, <2>1

\* Steps that leave the loop's choice, the rows and the snapshot alone.
LEMMA FrameSteps ==
  ASSUME SchedInv, TypeOK',
         UNCHANGED <<table, snap, passed>>, now' \in {now, now + 1},
         loop'.run.pair = loop.run.pair,
         \/ loop'.pc = loop.pc
         \/ loop.pc = "execute" /\ loop'.pc = "running",
         loop.pc = "plan" \/ TRUE,
         manual'.pair \in {manual.pair} \cup Manual
  PROVE  SchedInv'
  <1>1. ASSUME loop'.pc = "execute", loop.run.pair \notin Manual,
               HasRun(table[loop.run.pair])
        PROVE  Due(loop.run.pair, table[loop.run.pair]) <= now'
    <2>1. loop.pc = "execute" /\ now \in Nat
      BY <1>1 DEF SchedInv, TypeOK
    <2>2. loop.run.pair \in Suited
      BY <2>1 DEF SchedInv, TypeOK, Runs
    <2>3. Due(loop.run.pair, table[loop.run.pair]) \in Int
      BY <2>2, DueIsLater DEF SchedInv
    <2> QED BY <1>1, <2>1, <2>3 DEF SchedInv
  <1> QED BY <1>1 DEF SchedInv, Behind

LEMMA StartStep == SchedInv /\ StartRun => SchedInv'
  <1> SUFFICES ASSUME SchedInv, StartRun PROVE SchedInv'
    OBVIOUS
  <1>1. now + RunMax \in Nat
    BY DEF SchedInv, TypeOK
  <1>2. TypeOK'
    BY <1>1 DEF StartRun, SchedInv, TypeOK, Runs, NothingServed, Permitted
  <1> QED BY <1>2, FrameSteps
          DEF StartRun, SchedInv, TypeOK, Runs, NothingServed

\* What finishing a run does to the rows: nothing, or one counted attempt.
LEMMA FinishIsCounted ==
  ASSUME SchedInv, NEW run, run.pair \in Suited, run.started \in Nat,
         NEW status, Finish(run, status)
  PROVE  /\ table' \in [Suited -> Rows]
         /\ \A p \in Suited :
              /\ Sound(p, table'[p])
              /\ table'[p].last >= table[p].last
              /\ HasRun(table[p]) => HasRun(table'[p])
              /\ p # run.pair => table'[p] = table[p]
         /\ table' # table => /\ HasRun(table'[run.pair])
                              /\ table'[run.pair].last >= run.started
  <1>1. CASE table' = table
    BY <1>1 DEF SchedInv, TypeOK, Sound, Rows, Never
  <1>2. CASE table' # table
    <2>1. PICK o \in -Jitter[run.pair[2]] .. Jitter[run.pair[2]] :
             table' = [table EXCEPT ![run.pair] =
                          Counted(table[run.pair], run.started, status, o)]
      BY <1>2 DEF Finish
    <2> DEFINE new == Counted(table[run.pair], run.started, status, o)
    <2>2. /\ Sound(run.pair, new)
          /\ new.last >= table[run.pair].last
          /\ new.last >= run.started
          /\ HasRun(new)
      BY CountedIsSound DEF SchedInv
    <2>3. /\ table'[run.pair] = new
          /\ \A p \in Suited : p # run.pair => table'[p] = table[p]
          /\ table' \in [Suited -> Rows]
      <3>1. new \in Rows
        BY <2>2 DEF Sound
      <3> HIDE DEF new
      <3> QED BY <2>1, <3>1 DEF SchedInv, TypeOK, new
    <2> HIDE DEF new
    <2>4. \A p \in Suited : table[p].last \in Int
      BY DEF SchedInv, TypeOK, Rows, Never
    <2>5. ASSUME NEW p \in Suited
          PROVE  /\ Sound(p, table'[p])
                 /\ table'[p].last >= table[p].last
                 /\ HasRun(table[p]) => HasRun(table'[p])
                 /\ p # run.pair => table'[p] = table[p]
      <3>1. CASE p = run.pair
        BY <2>2, <2>3, <3>1
      <3>2. CASE p # run.pair
        <4>1. table'[p] = table[p] /\ Sound(p, table[p])
          BY <2>3, <3>2 DEF SchedInv
        <4> QED BY <2>4, <4>1
      <3> QED BY <3>1, <3>2
    <2> QED BY <2>2, <2>3, <2>5
  <1> QED BY <1>1, <1>2

\* Behind survives any counted attempt of another pair than the waiting one.
LEMMA BehindSurvives ==
  ASSUME SchedInv, NEW pq \in passed, NEW run, run.pair \in Suited,
         run.started \in Nat, NEW status, Finish(run, status),
         pq[1] # run.pair
  PROVE  Behind(pq, table')
  <1>1. pq[1] \in Suited /\ pq[2] \in Suited /\ Behind(pq, table)
    BY DEF SchedInv, TypeOK
  <1>2. table'[pq[1]] = table[pq[1]] /\ HasRun(table'[pq[2]])
        /\ table'[pq[2]].last >= table[pq[2]].last
    BY <1>1, FinishIsCounted DEF Behind
  <1>3. Due(pq[1], table[pq[1]]) \in Int /\ table[pq[2]].last \in Int
        /\ table'[pq[2]].last \in Int
    <2>1. Sound(pq[1], table[pq[1]]) /\ Sound(pq[2], table[pq[2]])
          /\ Sound(pq[2], table'[pq[2]])
      BY <1>1, FinishIsCounted DEF SchedInv
    <2> QED BY <1>1, <2>1, DueIsLater DEF Sound, Rows, Never
  <1> QED BY <1>1, <1>2, <1>3 DEF Behind

LEMMA FinishStep == SchedInv /\ FinishRun => SchedInv'
  <1> SUFFICES ASSUME SchedInv, FinishRun PROVE SchedInv'
    OBVIOUS
  <1> DEFINE q == loop.run.pair
  <1>1. PICK status \in Outcomes(loop.run) : Finish(loop.run, status)
    BY DEF FinishRun
  <1>2. q \in Suited /\ loop.run.started \in Nat /\ loop.pc = "running"
    BY DEF FinishRun, SchedInv, TypeOK, Runs
  <1>3. /\ passed' = IF table' = table THEN passed
                     ELSE {pq \in passed : pq[1] # q}
                          \cup {<<p, q>> : p \in Overtaken}
        /\ passedOver' = {} /\ snap' = snap
        /\ UNCHANGED <<now, flags, calendar, attached, up, scope, manual>>
    BY DEF FinishRun, SleepFrom
  <1>4. loop' \in [pc: {"sleep"}, until: Nat, run: {NoRun}]
        /\ NoRun \in Runs /\ NoRun.pair = NoPair
    BY SleepIsTyped DEF FinishRun, SchedInv, TypeOK
  <1>5. Overtaken \subseteq Suited \ {q}
    BY DEF Overtaken, SchedInv, TypeOK
  <1>6. table' \in [Suited -> Rows] /\ \A p \in Suited : Sound(p, table'[p])
    BY <1>1, <1>2, FinishIsCounted
  <1>7. TypeOK'
    BY <1>2, <1>3, <1>4, <1>5, <1>6 DEF SchedInv, TypeOK
  <1>8. ASSUME NEW pq \in passed' PROVE Behind(pq, table')
    <2>1. CASE table' = table
      BY <1>3, <1>8, <2>1 DEF SchedInv, Behind
    <2>2. CASE pq \in passed /\ pq[1] # q
      BY <1>1, <1>2, <2>2, BehindSurvives
    <2>3. CASE table' # table /\ pq \in {<<p, q>> : p \in Overtaken}
      <3>1. PICK p \in Overtaken : pq = <<p, q>>
        BY <2>3
      <3>2. p \in Suited /\ p # q /\ HasRun(table[p])
            /\ Due(p, table[p]) <= loop.run.started
        BY <1>5 DEF Overtaken
      <3>3. table'[p] = table[p] /\ HasRun(table'[q])
            /\ table'[q].last >= loop.run.started
        BY <1>1, <1>2, <2>3, <3>2, FinishIsCounted
      <3>4. Due(p, table[p]) \in Int /\ table'[q].last \in Int
        <4>1. Sound(p, table[p]) /\ Sound(q, table'[q])
          BY <1>2, <1>6, <3>2 DEF SchedInv
        <4> QED BY <3>2, <4>1, DueIsLater DEF Sound, Rows, Never
      <3> QED BY <1>2, <3>1, <3>2, <3>3, <3>4 DEF Behind
    <2> QED BY <1>3, <1>8, <2>1, <2>2, <2>3
  <1>9. loop'.pc = "sleep"
    BY <1>4
  <1> QED BY <1>3, <1>6, <1>7, <1>8, <1>9 DEF SchedInv, Behind

LEMMA ManualSteps == SchedInv /\ (ManualStart \/ ManualFinish) => SchedInv'
  <1> SUFFICES ASSUME SchedInv, ManualStart \/ ManualFinish PROVE SchedInv'
    OBVIOUS
  <1>1. CASE ManualStart
    <2>1. TypeOK' /\ manual'.pair \in Manual
      BY <1>1 DEF ManualStart, SchedInv, TypeOK, Runs, NoRun, NothingServed,
                  Permitted
    <2> QED BY <1>1, <2>1, FrameSteps DEF ManualStart, NothingServed
  <1>2. CASE ManualFinish
    <2> DEFINE m == manual.pair
    <2>1. PICK status \in Outcomes(manual) : Finish(manual, status)
      BY <1>2 DEF ManualFinish
    <2>2. m \in Suited /\ m \in Manual /\ manual.started \in Nat
      BY <1>2 DEF ManualFinish, SchedInv, TypeOK, Runs
    <2>3. /\ passed' = IF table' = table THEN passed
                       ELSE {pq \in passed : pq[1] # m}
          /\ manual' = NoRun
          /\ UNCHANGED <<now, flags, calendar, attached, up, loop, snap, scope,
                         passedOver>>
      BY <1>2 DEF ManualFinish
    <2>4. table' \in [Suited -> Rows]
          /\ \A p \in Suited : Sound(p, table'[p])
                               /\ (p # m => table'[p] = table[p])
      BY <2>1, <2>2, FinishIsCounted
    <2>5. TypeOK'
      BY <2>2, <2>3, <2>4 DEF SchedInv, TypeOK, NoRun, Runs
    <2>6. ASSUME NEW pq \in passed' PROVE Behind(pq, table')
      <3>1. CASE table' = table
        BY <2>3, <2>6, <3>1 DEF SchedInv, Behind
      <3>2. CASE table' # table
        BY <2>1, <2>2, <2>3, <2>6, <3>2, BehindSurvives
      <3> QED BY <3>1, <3>2
    <2>7. loop.pc \in {"execute", "running"} => loop.run.pair \in Suited
      BY DEF SchedInv, TypeOK, Runs
    <2>8. \A p \in Suited \ Manual : table'[p] = table[p]
      BY <2>2, <2>4
    <2>9. passed' \subseteq passed
      BY <2>3
    <2>10. NoRun.pair = NoPair
      BY DEF NoRun
    <2> QED BY <2>3, <2>4, <2>5, <2>6, <2>7, <2>8, <2>9, <2>10
            DEF SchedInv, Behind
  <1> QED BY <1>1, <1>2

LEMMA WorldSteps == SchedInv /\ World => SchedInv'
  <1> SUFFICES ASSUME SchedInv, World PROVE SchedInv'
    OBVIOUS
  <1>1. CASE SetFlags
    <2>1. flags' \in Flags
      <3>1. flags \in Flags
        BY DEF SchedInv, TypeOK
      <3>2. CASE flags' = [flags EXCEPT !.paused = ~@]
        BY <3>1, <3>2, Zenon DEF Flags
      <3>3. CASE \E a \in Accounts :
                    flags' = [flags EXCEPT !.accounts = Flip(@, a)]
        BY <3>1, <3>3 DEF Flags, Flip
      <3>4. CASE \E t \in Tasks : flags' = [flags EXCEPT !.tasks = Flip(@, t)]
        BY <3>1, <3>4 DEF Flags, Flip
      <3> QED BY <1>1, <3>2, <3>3, <3>4 DEF SetFlags
    <2>2. ASSUME NEW run \in Runs
          PROVE  Saw(run, flags') \in Runs /\ Saw(run, flags').pair = run.pair
                 /\ Saw(run, flags').started = run.started
      BY Zenon, <2>1 DEF Runs, Saw, Permitted
    <2>3. /\ loop' = [loop EXCEPT !.run = Saw(loop.run, flags')]
          /\ manual' = Saw(manual, flags')
          /\ UNCHANGED <<now, calendar, attached, up, table, snap, scope,
                         passed, passedOver>>
      BY <1>1 DEF SetFlags, NothingServed
    <2>4. loop.run \in Runs /\ manual \in Runs
      BY DEF SchedInv, TypeOK
    <2>5. /\ Saw(loop.run, flags') \in Runs
          /\ Saw(loop.run, flags').pair = loop.run.pair
          /\ Saw(manual, flags') \in Runs
          /\ Saw(manual, flags').pair = manual.pair
      BY <2>2, <2>4
    <2>6. loop'.run = Saw(loop.run, flags') /\ loop'.pc = loop.pc
          /\ loop'.until = loop.until
      BY <2>3 DEF SchedInv, TypeOK
    <2>7. TypeOK'
      BY <2>1, <2>3, <2>5, <2>6 DEF SchedInv, TypeOK
    <2> QED BY <2>3, <2>5, <2>6, <2>7, FrameSteps
  <1>2. CASE Calendar
    <2>1. calendar' \in [asleep: SUBSET Accounts, today: SUBSET Tasks]
      BY <1>2 DEF Calendar, SchedInv, TypeOK, Flip
    <2> QED BY <1>2, <2>1, FrameSteps
            DEF Calendar, SchedInv, TypeOK, NothingServed
  <1>3. CASE StoreOutage
    <2>1. TypeOK'
      BY <1>3 DEF StoreOutage, SchedInv, TypeOK, NothingServed
    <2> QED BY <1>3, <2>1, FrameSteps DEF StoreOutage, NothingServed
  <1>4. CASE Unplug
    <2>1. attached' \subseteq Devices
      BY <1>4 DEF Unplug, SchedInv, TypeOK, Flip
    <2> QED BY <1>4, <2>1, FrameSteps
            DEF Unplug, SchedInv, TypeOK, NothingServed
  <1>5. CASE Tick
    <2>1. TypeOK'
      BY <1>5 DEF Tick, SchedInv, TypeOK, NothingServed
    <2> QED BY <1>5, <2>1, FrameSteps DEF Tick, NothingServed
  <1> QED BY <1>1, <1>2, <1>3, <1>4, <1>5 DEF World

LEMMA SchedInvStep == SchedInv /\ [Next]_vars => SchedInv'
  <1>1. SchedInv /\ UNCHANGED vars => SchedInv'
    BY DEF vars, SchedInv, TypeOK, Behind
  <1> QED BY <1>1, QuietSteps, ReadRunsStep, PlanStep, StartStep, FinishStep,
             ManualSteps, WorldSteps DEF Next, LoopStep

-----------------------------------------------------------------------------

\* The types, for every instance.
THEOREM SchedulerTyped == Spec => []TypeOK
  <1>1. SchedInv => TypeOK
    BY DEF SchedInv
  <1> QED BY <1>1, SchedInvInit, SchedInvStep, PTL DEF Spec

\* No pair is served twice over another that is due, for every instance.
THEOREM BoundedOvertaking == Spec => NoSecondTurn
  <1>1. SchedInv /\ [Next]_vars =>
          (loop.pc = "running" /\ loop'.pc = "sleep" /\ table' # table
             => \A p \in Overtaken : <<p, loop.run.pair>> \notin passed)
    BY DEF SchedInv
  <1> QED BY <1>1, SchedInvInit, SchedInvStep, PTL DEF Spec, NoSecondTurn

\* Backed-off spacing from the last counted attempt, for every instance.
THEOREM SpacedRuns == Spec => RunsAreSpaced
  <1>1. ASSUME SchedInv, NEW p \in Suited \ Manual,
               loop.pc = "execute", loop.run.pair = p, HasRun(table[p])
        PROVE  now - table[p].last + Jitter[p[2]] >=
                 Cadence[p[2]] * Shift[Capped(ConsecutiveFailures(table[p]))]
    <2>1. Sound(p, table[p]) /\ now \in Nat /\ Due(p, table[p]) <= now
      BY <1>1 DEF SchedInv, TypeOK
    <2>2. Due(p, table[p]) \in Int /\ table[p].last \in Int
          /\ Jitter[p[2]] \in Nat
      <3>1. p[2] \in Tasks
        OBVIOUS
      <3>2. Due(p, table[p]) \in Int
        BY <2>1, DueIsLater
      <3>3. table[p].last \in Int
        BY <2>1 DEF Sound, Rows, Never
      <3> QED BY <3>1, <3>2, <3>3
    <2>3. Due(p, table[p]) - table[p].last + Jitter[p[2]] >=
             Cadence[p[2]] * Shift[Capped(ConsecutiveFailures(table[p]))]
      BY <2>1, DueIsLater
    <2>4. Cadence[p[2]] * Shift[Capped(ConsecutiveFailures(table[p]))] \in Int
      <3>1. Cadence[p[2]] \in Nat
        BY <1>1
      <3>2. ConsecutiveFailures(table[p]) \in Nat
        BY <2>1, FS_CardinalityType DEF Sound, ConsecutiveFailures
      <3>3. Shift[Capped(ConsecutiveFailures(table[p]))] \in Nat
        BY <3>2, ShiftIsPositive DEF Capped
      <3> QED BY <3>1, <3>3
    <2> DEFINE gap == Cadence[p[2]] * Shift[Capped(ConsecutiveFailures(table[p]))]
               d   == Due(p, table[p])
    <2> HIDE DEF gap, d
    <2>5. d \in Int /\ d <= now /\ d - table[p].last + Jitter[p[2]] >= gap
          /\ gap \in Int
      BY <2>1, <2>2, <2>3, <2>4 DEF gap, d
    <2>6. now - table[p].last + Jitter[p[2]] >= gap
      BY <2>1, <2>2, <2>5
    <2> QED BY <2>6 DEF gap
  <1>2. SchedInv => \A p \in Suited \ Manual :
          LET row == table[p]
              f   == ConsecutiveFailures(row)
          IN  /\ loop.pc = "execute" /\ loop'.pc = "running"
              /\ loop.run.pair = p
              /\ HasRun(row)
              => now - row.last + Jitter[p[2]] >=
                     Cadence[p[2]] * Shift[IF f > MaxBackoffFailures
                                           THEN MaxBackoffFailures ELSE f]
    BY <1>1 DEF Capped
  <1> QED BY <1>2, SchedInvInit, SchedInvStep, PTL DEF Spec, RunsAreSpaced

-----------------------------------------------------------------------------
(* Everyone's turn.  While p waits, whoever is served before it was last    *)
(* attempted before p's due time, and not before it again afterwards: each  *)
(* turn that goes to another pair leaves one pair fewer that may go first,  *)
(* which pays for the time the turn took.                                   *)

Slot == RunMax + TickMax

\* Nothing goes wrong but tasks that fail.
Calm == Events \subseteq {"fail"} /\ Fragile = {}

\* The pairs that may be served before one that is due at d.
MayGoFirst(p, d, runs) == {q \in Suited \ {p} : runs[q].last < d}

\* The last moment at which a pair due at d can still wait for those in S.
Latest(d, S) == d - 1 + (Cardinality(Suited) - Cardinality(S)) * Slot

\* What the world leaves alone, and what the loop makes of it.
Undisturbed ==
    /\ up /\ flags = AllOn /\ snap.flags = AllOn /\ attached = Devices
    /\ calendar = [asleep |-> {}, today |-> Tasks]
    /\ loop.pc # "down" => scope = Devices
    /\ ~loop.run.denied
    /\ loop.pc = "running" => now <= loop.until /\ loop.until = loop.run.started + RunMax
    /\ loop.pc = "sleep" => now <= loop.until
    /\ loop.pc = "plan" => \A q \in Suited : snap.runs[q].last <= table[q].last

\* The turn of p, due at d, at each point of the loop.
InTurn(p, d) ==
    LET first == MayGoFirst(p, d, table)
        other == first \ {loop.run.pair}
    IN  /\ loop.pc \in {"down", "flags", "accounts", "tasks", "runs"} =>
              now <= Latest(d, first)
        /\ loop.pc = "plan" => now <= Latest(d, MayGoFirst(p, d, snap.runs))
        /\ loop.pc = "sleep" => loop.until <= Latest(d, first)
        /\ loop.pc = "execute" =>
              IF loop.run.pair = p THEN now <= Latest(d, first)
              ELSE now + Slot <= Latest(d, other)
        /\ loop.pc = "running" =>
              IF loop.run.pair = p THEN loop.run.started <= Latest(d, first)
              ELSE loop.run.started + Slot <= Latest(d, other)

TurnInv ==
    \A p \in Suited \ Manual : HasRun(table[p]) => InTurn(p, Due(p, table[p]))

LEMMA SlotIsTime == Slot \in Nat /\ Slot >= 1
  BY DEF Slot

LEMMA LatestIsMonotone ==
  ASSUME NEW d \in Int, NEW T \in SUBSET Suited, NEW S \in SUBSET T
  PROVE  Latest(d, S) \in Int /\ Latest(d, T) \in Int /\ Latest(d, T) <= Latest(d, S)
  <1>1. /\ Cardinality(S) \in Nat /\ Cardinality(T) \in Nat /\ Cardinality(Suited) \in Nat
        /\ Cardinality(S) <= Cardinality(T)
    BY FS_Subset, FS_CardinalityType
  <1>2. ASSUME NEW n \in Int, NEW a \in Int, NEW b \in Int, a <= b, NEW w \in Nat
        PROVE  (n - a) * w \in Int /\ (n - b) * w \in Int /\ (n - b) * w <= (n - a) * w
    BY <1>2
  <1> QED BY <1>1, <1>2, SlotIsTime DEF Latest

\* Serving q leaves one pair fewer that may go first.
LEMMA TurnIsPaid ==
  ASSUME NEW d \in Int, NEW S \in SUBSET Suited, NEW q \in S
  PROVE  Latest(d, S \ {q}) = Latest(d, S) + Slot
  <1>1. /\ Cardinality(S) \in Nat /\ Cardinality(Suited) \in Nat
        /\ Cardinality(S \ {q}) = Cardinality(S) - 1
    BY FS_Subset, FS_CardinalityType, FS_RemoveElement
  <1>2. ASSUME NEW n \in Int, NEW a \in Int, NEW w \in Nat
        PROVE  (n - (a - 1)) * w = (n - a) * w + w
    BY <1>2
  <1> QED BY <1>1, <1>2, SlotIsTime DEF Latest

\* There is a slot for the pair itself, and there are no more than all.
LEMMA LatestIsBounded ==
  ASSUME NEW d \in Int, NEW p \in Suited, NEW S \in SUBSET (Suited \ {p})
  PROVE  /\ Latest(d, S) \in Int
         /\ d - 1 + Slot <= Latest(d, S)
         /\ Latest(d, S) <= d - 1 + Cardinality(Suited) * Slot
  <1>1. /\ Cardinality(Suited \ {p}) = Cardinality(Suited) - 1
        /\ IsFiniteSet(Suited \ {p}) /\ Cardinality(Suited) \in Nat
    BY FS_RemoveElement, FS_CardinalityType
  <1>2. Cardinality(S) \in Nat /\ Cardinality(S) <= Cardinality(Suited) - 1
    BY <1>1, FS_Subset, FS_CardinalityType
  <1>3. ASSUME NEW n \in Nat, NEW a \in Nat, a <= n - 1, NEW w \in Nat
        PROVE  /\ (n - a) * w \in Int /\ n * w \in Int
               /\ w <= (n - a) * w /\ (n - a) * w <= n * w
    <2>1. (n - a) * w = w + (n - a - 1) * w /\ (n - a) * w = n * w - a * w
      BY <1>3
    <2>2. (n - a - 1) * w \in Nat /\ a * w \in Nat /\ n * w \in Nat
      <3>1. n - a - 1 \in Nat
        BY <1>3
      <3> QED BY <3>1
    <2> QED BY <1>3, <2>1, <2>2
  <1> QED BY <1>1, <1>2, <1>3, SlotIsTime DEF Latest

\* A pair that has run is due after its last attempt.
LEMMA DueIsDated ==
  ASSUME SchedInv, NEW p \in Suited, HasRun(table[p])
  PROVE  /\ Due(p, table[p]) \in Int /\ Due(p, table[p]) >= 1
         /\ Due(p, table[p]) > table[p].last
  <1>1. Sound(p, table[p]) /\ table[p].last \in Nat
    BY DEF SchedInv, Sound, Rows, HasRun
  <1> QED BY <1>1, DueIsLater

\* Rows whose last attempt only moves on let fewer pairs go first.
LEMMA FewerGoFirst ==
  ASSUME NEW p, NEW d \in Int, NEW runs, NEW later,
         \A q \in Suited : /\ runs[q].last \in Int /\ later[q].last \in Int
                           /\ runs[q].last <= later[q].last
  PROVE  /\ MayGoFirst(p, d, later) \in SUBSET MayGoFirst(p, d, runs)
         /\ MayGoFirst(p, d, runs) \in SUBSET (Suited \ {p})
         /\ MayGoFirst(p, d, runs) \in SUBSET Suited
  BY DEF MayGoFirst

\* The steps a calm world leaves.
CalmStep ==
    \/ Startup \/ ReadPause \/ ReadAccounts \/ ReadTasks \/ ReadRuns \/ Plan
    \/ StartRun \/ FinishRun \/ SleepEnds \/ ManualStart \/ ManualFinish \/ Tick
    \/ UNCHANGED vars

LEMMA OnlyCalmSteps ==
  ASSUME Calm, SchedInv, Undisturbed, [Next]_vars
  PROVE  CalmStep
  <1>1. \A e \in {"crash", "store", "pause", "account", "task", "calendar"} : e \notin Events
    BY DEF Calm
  <1>2. ~SnapshotFails /\ ~Crash /\ ~SetFlags /\ ~Calendar /\ ~StoreOutage
    BY <1>1 DEF SnapshotFails, Crash, SetFlags, Calendar, StoreOutage
  <1>3. ~Unplug
    BY DEF Unplug, Calm
  <1>4. ~ExecuteFails
    <2> SUFFICES ASSUME loop.pc = "execute"
                 PROVE  up /\ DeviceOf[loop.run.pair[1]] \in attached
      BY DEF ExecuteFails
    <2>1. loop.run.pair \in Suited
      BY DEF SchedInv, TypeOK, Runs
    <2>2. loop.run.pair[1] \in Accounts
      BY <2>1
    <2> QED BY <2>2 DEF Undisturbed, Devices
  <1> QED BY <1>2, <1>3, <1>4 DEF CalmStep, Next, LoopStep, World

LEMMA AllPermitted ==
  ASSUME NEW p \in Suited
  PROVE  Permitted(p, AllOn)
  BY DEF Permitted, AllOn

LEMMA LastsAreNumbers ==
  ASSUME SchedInv, NEW q \in Suited
  PROVE  table[q].last \in Int /\ snap.runs[q].last \in Int
  BY DEF SchedInv, Sound, Rows, Never

\* A run that ends in a calm world is counted.
LEMMA RunsCount ==
  ASSUME SchedInv, NEW run, run.pair \in Suited, run.started \in Nat, ~run.denied, up,
         NEW status \in Outcomes(run), Finish(run, status)
  PROVE  table'[run.pair].last >= run.started
  <1>1. status # "paused"
    BY DEF Outcomes
  <1>2. PICK o \in -Jitter[run.pair[2]] .. Jitter[run.pair[2]] :
           table' = [table EXCEPT ![run.pair] =
                        Counted(table[run.pair], run.started, status, o)]
    BY <1>1 DEF Finish
  <1>3. table'[run.pair] = Counted(table[run.pair], run.started, status, o)
    BY <1>2 DEF SchedInv, TypeOK
  <1> QED BY <1>3, CountedIsSound DEF SchedInv

LEMMA UndisturbedNext ==
  ASSUME Calm, SchedInv, SchedInv', Undisturbed, [Next]_vars
  PROVE  Undisturbed'
  <1> USE DEF Undisturbed
  <1>1. CalmStep
    BY OnlyCalmSteps
  <1>2. CASE Startup
    BY <1>2 DEF Startup, LoopAt, NothingServed, NoRun
  <1>3. CASE ReadPause \/ ReadAccounts \/ ReadTasks
    <2>1. PICK f \in {[snap.flags EXCEPT !.paused = flags.paused],
                      [snap.flags EXCEPT !.accounts = flags.accounts],
                      [snap.flags EXCEPT !.tasks = flags.tasks]},
               point \in {"accounts", "tasks", "runs"} :
             snap' = [snap EXCEPT !["flags"] = f] /\ loop' = LoopAt(point)
             /\ loop.pc \in {"flags", "accounts", "tasks"}
      BY <1>3 DEF ReadPause, ReadAccounts, ReadTasks, Read
    <2>2. f = AllOn
      BY DEF AllOn
    <2>3. snap'.flags = AllOn
      BY <2>1, <2>2 DEF SchedInv, TypeOK
    <2>4. UNCHANGED <<flags, calendar, attached, up, scope>>
      BY <1>3 DEF ReadPause, ReadAccounts, ReadTasks, Read
    <2> QED BY <2>1, <2>3, <2>4 DEF LoopAt, NoRun
  <1>4. CASE ReadRuns
    <2>1. snap'.runs = table /\ snap'.flags = snap.flags /\ loop' = LoopAt("plan")
          /\ UNCHANGED <<flags, calendar, attached, up, scope, table>>
          /\ loop.pc = "runs"
      BY <1>4 DEF ReadRuns, Read, SchedInv, TypeOK
    <2> QED BY <2>1, LastsAreNumbers DEF LoopAt, NoRun
  <1>5. CASE Plan
    <2>1. loop.pc = "plan" /\ snap'.flags = AllOn
          /\ UNCHANGED <<now, flags, calendar, attached, up, scope>>
          /\ \/ SleepFrom
             \/ \E q : loop' = [pc |-> "execute", until |-> now,
                                run |-> [NoRun EXCEPT !.pair = q]]
      BY <1>5 DEF Plan, SleepFrom, NoSnap
    <2>2. ~loop'.run.denied
      BY <2>1 DEF SleepFrom, NoRun
    <2>3. loop'.pc \in {"sleep", "execute"} /\ (loop'.pc = "sleep" => now <= loop'.until)
      BY <2>1 DEF SleepFrom, SchedInv, TypeOK
    <2> QED BY <2>1, <2>2, <2>3
  <1>6. CASE StartRun
    <2>1. loop.run.pair \in Suited /\ now \in Nat
      BY <1>6 DEF StartRun, SchedInv, TypeOK, Runs
    <2>2. loop' = [pc |-> "running", until |-> now + RunMax,
                   run |-> [loop.run EXCEPT !.started = now,
                               !.denied = ~Permitted(loop.run.pair, flags)]]
          /\ UNCHANGED <<now, flags, calendar, attached, up, table, snap, scope>>
          /\ loop.pc = "execute"
      BY <1>6 DEF StartRun
    <2>3. ~loop'.run.denied /\ loop'.run.started = now
      BY <2>1, <2>2, AllPermitted DEF SchedInv, TypeOK, Runs
    <2> QED BY <2>1, <2>2, <2>3
  <1>7. CASE FinishRun
    <2>1. SleepFrom /\ snap' = snap /\ loop.pc = "running"
      BY <1>7 DEF FinishRun
    <2>2. loop'.pc = "sleep" /\ now <= loop'.until /\ ~loop'.run.denied
      BY <2>1 DEF SleepFrom, SchedInv, TypeOK, NoRun
    <2>3. loop'.pc # "running" /\ loop'.pc # "plan" /\ now' <= loop'.until
      BY <2>1, <2>2 DEF SleepFrom
    <2>4. (up /\ flags = AllOn /\ snap.flags = AllOn /\ attached = Devices
           /\ calendar = [asleep |-> {}, today |-> Tasks])' /\ scope' = Devices
      BY <2>1 DEF SleepFrom
    <2> QED BY <2>2, <2>3, <2>4
  <1>8. CASE SleepEnds \/ ManualStart
    <2>1. UNCHANGED <<now, flags, calendar, attached, up, table, snap, scope>>
      BY <1>8 DEF SleepEnds, ManualStart
    <2>2. CASE SleepEnds
      <3>1. loop.pc = "sleep" /\ loop'.pc = "flags" /\ ~loop'.run.denied
        BY <2>2 DEF SleepEnds, LoopAt, NoRun
      <3> QED BY <2>1, <3>1
    <2>3. CASE ManualStart
      <3>1. loop' = loop
        BY <2>3 DEF ManualStart
      <3> QED BY <2>1, <3>1
    <2> QED BY <1>8, <2>2, <2>3
  <1>9. CASE ManualFinish
    <2>1. UNCHANGED <<now, flags, calendar, attached, up, loop, snap, scope>>
          /\ manual.pair \in Suited /\ manual.started \in Nat
          /\ \E status \in Outcomes(manual) : Finish(manual, status)
      BY <1>9 DEF ManualFinish, SchedInv, TypeOK, Runs
    <2>2. \A q \in Suited : table'[q].last >= table[q].last
      BY <2>1, FinishIsCounted
    <2>3. \A q \in Suited : table[q].last \in Int /\ snap.runs[q].last \in Int
                            /\ table'[q].last \in Int
      BY LastsAreNumbers, FinishIsCounted, <2>1 DEF Rows, Never
    <2> QED BY <2>1, <2>2, <2>3
  <1>10. CASE Tick
    <2>1. now' = now + 1 /\ (loop.pc \in {"sleep", "running"} => now < loop.until)
          /\ UNCHANGED <<flags, calendar, attached, up, table, loop, snap, scope>>
      BY <1>10 DEF Tick
    <2> QED BY <2>1 DEF SchedInv, TypeOK
  <1>11. CASE UNCHANGED vars
    BY <1>11 DEF vars
  <1> QED BY <1>1, <1>2, <1>3, <1>4, <1>5, <1>6, <1>7, <1>8, <1>9, <1>10, <1>11
          DEF CalmStep

-----------------------------------------------------------------------------
\* A run-task that ends rewrites only the row of its own pair, and no due time
\* of a pair that nobody runs by hand.
LEMMA ManualKeepsTurns ==
  ASSUME SchedInv, SchedInv', Undisturbed, TurnInv, ManualFinish
  PROVE  TurnInv'
  <1> SUFFICES ASSUME NEW p \in Suited \ Manual, HasRun(table'[p])
               PROVE  InTurn(p, Due(p, table[p]))'
    BY DEF TurnInv
  <1> DEFINE d == Due(p, table[p])
  <1>1. UNCHANGED <<now, loop, snap>> /\ manual.pair \in Manual
        /\ manual.pair \in Suited /\ manual.started \in Nat
        /\ \E status \in Outcomes(manual) : Finish(manual, status)
    BY DEF ManualFinish, SchedInv, TypeOK, Runs
  <1>2. table'[p] = table[p] /\ \A q \in Suited : table'[q].last >= table[q].last
    BY <1>1, FinishIsCounted
  <1>3. \A q \in Suited : table[q].last \in Int /\ table'[q].last \in Int
    BY <1>1, LastsAreNumbers, FinishIsCounted DEF Rows, Never
  <1>4. d \in Int /\ HasRun(table[p])
    BY <1>2, DueIsDated
  <1>5. InTurn(p, d)
    BY <1>4 DEF TurnInv
  <1> DEFINE first == MayGoFirst(p, d, table)
             later == MayGoFirst(p, d, table')
             q     == loop.run.pair
  <1> HIDE DEF d
  <1>6. later \in SUBSET first /\ first \in SUBSET Suited
    BY <1>2, <1>3, <1>4, FewerGoFirst
  <1>7. later \ {q} \in SUBSET (first \ {q}) /\ first \ {q} \in SUBSET Suited
    BY <1>6
  <1> HIDE DEF first, later
  <1>8. /\ Latest(d, first) <= Latest(d, later)
        /\ Latest(d, first \ {q}) <= Latest(d, later \ {q})
        /\ Latest(d, first) \in Int /\ Latest(d, later) \in Int
        /\ Latest(d, first \ {q}) \in Int /\ Latest(d, later \ {q}) \in Int
    BY <1>4, <1>6, <1>7, LatestIsMonotone
  <1>9. now \in Int /\ loop.until \in Int /\ loop.run.started \in Int /\ Slot \in Nat
    BY SlotIsTime DEF SchedInv, TypeOK, Runs
  <1>10. /\ loop.pc \in {"down", "flags", "accounts", "tasks", "runs"} => now <= Latest(d, later)
         /\ loop.pc = "plan" => now <= Latest(d, MayGoFirst(p, d, snap.runs))
         /\ loop.pc = "sleep" => loop.until <= Latest(d, later)
         /\ loop.pc = "execute" => IF q = p THEN now <= Latest(d, later)
                                   ELSE now + Slot <= Latest(d, later \ {q})
         /\ loop.pc = "running" => IF q = p THEN loop.run.started <= Latest(d, later)
                                   ELSE loop.run.started + Slot <= Latest(d, later \ {q})
    BY <1>5, <1>8, <1>9 DEF InTurn, first
  <1>11. Due(p, table'[p]) = d
    BY <1>2 DEF d
  <1> QED BY <1>1, <1>10, <1>11 DEF InTurn, later, Latest

LEMMA PlanKeepsTurns ==
  ASSUME SchedInv, SchedInv', Undisturbed, TurnInv, Plan
  PROVE  TurnInv'
  <1> SUFFICES ASSUME NEW p \in Suited \ Manual, HasRun(table'[p])
               PROVE  InTurn(p, Due(p, table[p]))'
    BY DEF TurnInv
  <1> DEFINE d     == Due(p, table[p])
             s     == [flags |-> snap.flags, runs |-> snap.runs, scope |-> scope]
             due   == Candidates(s, calendar, now)
             first == MayGoFirst(p, d, table)
             seen  == MayGoFirst(p, d, snap.runs)
  <1>1. loop.pc = "plan" /\ table' = table /\ now' = now /\ now \in Nat
    BY DEF Plan, SleepFrom, SchedInv, TypeOK
  <1>2. HasRun(table[p]) /\ d \in Int /\ snap.runs[p] = table[p] /\ d > table[p].last
        /\ table[p].last \in Nat
    BY <1>1, DueIsDated DEF SchedInv, Sound, Rows, HasRun
  <1>3. now <= Latest(d, seen)
    BY <1>1, <1>2 DEF TurnInv, InTurn
  <1>4. first \in SUBSET seen /\ seen \in SUBSET (Suited \ {p}) /\ seen \in SUBSET Suited
        /\ first \in SUBSET (Suited \ {p})
    BY <1>1, <1>2, LastsAreNumbers, FewerGoFirst DEF Undisturbed
  <1>5. due \subseteq Suited /\ (d <= now => p \in due)
    <2>1. p \in Suited /\ p[1] \in Accounts /\ p[2] \in Tasks
      OBVIOUS
    <2>2. Permitted(p, s.flags) /\ DeviceOf[p[1]] \in s.scope
          /\ p[1] \notin calendar.asleep /\ p[2] \in calendar.today
      BY <1>1, <2>1, AllPermitted DEF Undisturbed, Devices
    <2>3. DueAt(p, s.runs[p], now) = d
      BY <1>2 DEF DueAt
    <2> QED BY <2>2, <2>3 DEF Candidates
  <1>6. \/ loop' \in [pc: {"sleep"}, until: {now + n : n \in TickMin .. TickMax}, run: {NoRun}]
           /\ due = {}
        \/ \E q \in due : /\ \A r \in due : Ahead(q, r, s, now)
                          /\ loop' = [pc |-> "execute", until |-> now,
                                      run |-> [NoRun EXCEPT !.pair = q]]
    BY DEF Plan, SleepFrom
  <1>7. Slot \in Nat /\ d - 1 + Slot <= Latest(d, first) /\ Latest(d, first) \in Int
        /\ Latest(d, seen) <= Latest(d, first) /\ Latest(d, seen) \in Int
    BY <1>2, <1>4, SlotIsTime, LatestIsBounded, LatestIsMonotone
  <1>8. CASE due = {}
    <2>1. loop'.pc = "sleep" /\ loop'.until <= now + TickMax /\ loop'.until \in Int
      BY <1>1, <1>6, <1>8
    <2>2. now < d
      BY <1>1, <1>2, <1>5, <1>8
    <2>3. now + TickMax <= d - 1 + Slot
      BY <1>1, <1>2, <2>2 DEF Slot
    <2>4. loop'.until <= Latest(d, first)
      <3> HIDE DEF d, first
      <3> QED BY <1>1, <1>2, <1>7, <2>1, <2>3
    <2> QED BY <1>1, <2>1, <2>4 DEF InTurn
  <1>9. ASSUME NEW q \in due, \A r \in due : Ahead(q, r, s, now),
               loop' = [pc |-> "execute", until |-> now, run |-> [NoRun EXCEPT !.pair = q]]
        PROVE  InTurn(p, Due(p, table[p]))'
    <2>1. loop'.pc = "execute" /\ loop'.run.pair = q /\ q \in Suited
      BY <1>5, <1>9 DEF NoRun
    <2>2. CASE q = p
      <3>1. now <= Latest(d, first)
        <4> HIDE DEF d, first, seen
        <4> QED BY <1>1, <1>3, <1>7
      <3> QED BY <1>1, <2>1, <2>2, <3>1 DEF InTurn
    <2>3. CASE q # p
      <3>1. CASE now < d
        <4>1. first \ {q} \in SUBSET (Suited \ {p})
          BY <1>4
        <4>2. d - 1 + Slot <= Latest(d, first \ {q}) /\ Latest(d, first \ {q}) \in Int
          <5> HIDE DEF d, first
          <5> QED BY <1>2, <4>1, LatestIsBounded
        <4>3. now + Slot <= Latest(d, first \ {q})
          <5> HIDE DEF d, first
          <5> QED BY <1>1, <1>2, <1>7, <3>1, <4>2
        <4> QED BY <1>1, <2>1, <2>3, <4>3 DEF InTurn
      <3>2. CASE d <= now
        <4>1. Ahead(q, p, s, now)
          BY <1>5, <1>9, <3>2
        <4>2. DueAt(p, s.runs[p], now) = d
          BY <1>2 DEF DueAt
        <4>3. snap.runs[q].last < d
          <5>1. CASE HasRun(snap.runs[q])
            <6>1. Due(q, snap.runs[q]) \in Int /\ Due(q, snap.runs[q]) > snap.runs[q].last
              BY <2>1, <5>1, DueIsLater DEF SchedInv
            <6>2. DueAt(q, s.runs[q], now) = Due(q, snap.runs[q])
              BY <5>1 DEF DueAt
            <6>3. Due(q, snap.runs[q]) <= d
              <7> HIDE DEF d, s
              <7> QED BY <1>2, <4>1, <4>2, <6>1, <6>2 DEF Ahead
            <6>4. snap.runs[q].last \in Int
              BY <2>1, LastsAreNumbers
            <6> HIDE DEF d
            <6> QED BY <1>2, <6>1, <6>3, <6>4
          <5>2. CASE ~HasRun(snap.runs[q])
            <6> HIDE DEF d
            <6> QED BY <1>2, <5>2 DEF HasRun, Never
          <5> QED BY <5>1, <5>2
        <4>4. q \in seen
          BY <2>1, <2>3, <4>3 DEF MayGoFirst
        <4>5. Latest(d, seen \ {q}) = Latest(d, seen) + Slot
          <5> HIDE DEF d, seen
          <5> QED BY <1>2, <1>4, <4>4, TurnIsPaid
        <4>6. Latest(d, seen \ {q}) <= Latest(d, first \ {q})
              /\ Latest(d, seen \ {q}) \in Int /\ Latest(d, first \ {q}) \in Int
          <5>1. first \ {q} \in SUBSET (seen \ {q}) /\ seen \ {q} \in SUBSET Suited
            BY <1>4
          <5> HIDE DEF d, seen, first
          <5> QED BY <1>2, <5>1, LatestIsMonotone
        <4>7. now + Slot <= Latest(d, first \ {q})
          <5> HIDE DEF d, seen, first
          <5> QED BY <1>1, <1>3, <1>7, <4>5, <4>6
        <4> QED BY <1>1, <2>1, <2>3, <4>7 DEF InTurn
      <3> QED BY <1>1, <1>2, <3>1, <3>2
    <2> QED BY <2>2, <2>3
  <1> QED BY <1>6, <1>8, <1>9

LEMMA FinishKeepsTurns ==
  ASSUME SchedInv, SchedInv', Undisturbed, TurnInv, FinishRun
  PROVE  TurnInv'
  <1> SUFFICES ASSUME NEW p \in Suited \ Manual, HasRun(table'[p])
               PROVE  InTurn(p, Due(p, table[p]))'
    BY DEF TurnInv
  <1> DEFINE q     == loop.run.pair
             start == loop.run.started
             d     == Due(p, table[p])'
             later == MayGoFirst(p, d, table')
  <1>1. /\ loop.pc = "running" /\ q \in Suited /\ start \in Nat /\ now \in Nat
        /\ ~loop.run.denied /\ up /\ now' = now
        /\ now <= loop.until /\ loop.until = start + RunMax
        /\ \E status \in Outcomes(loop.run) : Finish(loop.run, status)
    BY DEF FinishRun, SleepFrom, SchedInv, TypeOK, Runs, Undisturbed
  <1>2. table'[q].last >= start
    BY <1>1, RunsCount
  <1>3. \A r \in Suited : /\ table'[r].last >= table[r].last
                          /\ table[r].last \in Int /\ table'[r].last \in Int
                          /\ r # q => table'[r] = table[r]
    BY <1>1, LastsAreNumbers, FinishIsCounted DEF Rows, Never
  <1>4. d \in Int /\ d > table'[p].last
    <2>1. Sound(p, table'[p])
      BY DEF SchedInv
    <2> QED BY <2>1, DueIsLater
  <1>5. loop'.pc = "sleep" /\ loop'.until \in Int /\ loop'.until <= start + Slot
    <2>1. PICK n \in TickMin .. TickMax :
             loop' = [pc |-> "sleep", until |-> now + n, run |-> NoRun]
      BY DEF FinishRun, SleepFrom
    <2> QED BY <1>1, <2>1 DEF Slot
  <1>6. later \in SUBSET (Suited \ {p}) /\ later \in SUBSET Suited
    BY DEF MayGoFirst
  <1>7. d - 1 + Slot <= Latest(d, later) /\ Latest(d, later) \in Int /\ Slot \in Nat
    <2> HIDE DEF d, later
    <2> QED BY <1>4, <1>6, LatestIsBounded, SlotIsTime
  <1>8. CASE start < d
    <2>1. loop'.until <= Latest(d, later)
      <3> HIDE DEF d, later
      <3> QED BY <1>1, <1>4, <1>5, <1>7, <1>8
    <2> QED BY <1>5, <2>1 DEF InTurn
  <1>9. CASE d <= start
    <2>1. p # q
      <3> HIDE DEF d
      <3> QED BY <1>1, <1>2, <1>3, <1>4, <1>9
    <2>2. table'[p] = table[p]
      BY <1>3, <2>1
    <2>3. Due(p, table[p]) = d /\ HasRun(table[p])
      BY <2>2
    <2> DEFINE first == MayGoFirst(p, d, table)
    <2>4. start + Slot <= Latest(d, first \ {q})
      BY <1>1, <2>1, <2>3 DEF TurnInv, InTurn
    <2>5. later \in SUBSET (first \ {q}) /\ first \ {q} \in SUBSET Suited
      <3> HIDE DEF d
      <3> QED BY <1>1, <1>2, <1>3, <1>4, <1>9 DEF MayGoFirst
    <2>6. loop'.until <= Latest(d, later)
      <3> HIDE DEF d, later, first
      <3>1. Latest(d, first \ {q}) <= Latest(d, later) /\ Latest(d, first \ {q}) \in Int
        BY <1>4, <2>5, LatestIsMonotone
      <3> QED BY <1>1, <1>5, <1>7, <2>4, <3>1
    <2> QED BY <1>5, <2>6 DEF InTurn
  <1> QED BY <1>1, <1>4, <1>8, <1>9

LEMMA TurnNext ==
  ASSUME Calm, SchedInv, SchedInv', Undisturbed, TurnInv, [Next]_vars
  PROVE  TurnInv'
  <1>1. CalmStep
    BY OnlyCalmSteps
  <1>2. CASE Plan \/ FinishRun \/ ManualFinish
    BY <1>2, PlanKeepsTurns, FinishKeepsTurns, ManualKeepsTurns
  <1>3. ASSUME table' = table,
               NEW p \in Suited \ Manual, NEW d, d = Due(p, table[p]), d \in Int,
               HasRun(table[p]), InTurn(p, d),
               ~(Plan \/ FinishRun \/ ManualFinish)
        PROVE  InTurn(p, d)'
    <2> DEFINE first == MayGoFirst(p, d, table)
    <2>1. MayGoFirst(p, d, table)' = first
      BY <1>3 DEF MayGoFirst
    <2>2. \A S : Latest(d, S)' = Latest(d, S)
      BY DEF Latest
    <2>3. CASE Startup \/ ReadPause \/ ReadAccounts \/ ReadTasks \/ SleepEnds
      <3>1. /\ loop'.pc \in {"flags", "accounts", "tasks", "runs"} /\ now' = now
            /\ loop.pc \in {"down", "flags", "accounts", "tasks", "sleep"}
        BY <2>3 DEF Startup, ReadPause, ReadAccounts, ReadTasks, SleepEnds, Read, LoopAt
      <3>2. now <= Latest(d, first)
        <4>1. now \in Int /\ loop.until \in Int /\ (loop.pc = "sleep" => now <= loop.until)
          BY DEF SchedInv, TypeOK, Undisturbed
        <4>2. Latest(d, first) \in Int
          <5>1. first \in SUBSET Suited
            BY DEF MayGoFirst
          <5> HIDE DEF first
          <5> QED BY <1>3, <5>1, LatestIsMonotone
        <4> QED BY <1>3, <3>1, <4>1, <4>2 DEF InTurn
      <3> QED BY <2>1, <2>2, <3>1, <3>2 DEF InTurn
    <2>4. CASE ReadRuns
      <3>1. loop.pc = "runs" /\ loop'.pc = "plan" /\ now' = now /\ snap'.runs = table
        BY <2>4 DEF ReadRuns, Read, LoopAt, SchedInv, TypeOK
      <3>2. MayGoFirst(p, d, snap.runs)' = first
        BY <3>1 DEF MayGoFirst
      <3> QED BY <1>3, <2>2, <3>1, <3>2 DEF InTurn
    <2>5. CASE StartRun
      <3>1. /\ loop.pc = "execute" /\ loop'.pc = "running" /\ now' = now
            /\ loop'.run.pair = loop.run.pair /\ loop'.run.started = now
        BY <2>5 DEF StartRun, SchedInv, TypeOK, Runs
      <3> QED BY <1>3, <2>1, <2>2, <3>1 DEF InTurn
    <2>6. CASE Tick
      <3>1. /\ loop.pc \in {"sleep", "running"} /\ loop' = loop
        <4>1. "crash" \notin Events
          BY DEF Calm
        <4> QED BY <2>6, <4>1 DEF Tick
      <3> QED BY <1>3, <2>1, <2>2, <3>1 DEF InTurn
    <2>7. CASE ManualStart \/ UNCHANGED vars
      <3>1. UNCHANGED <<now, loop, snap>>
        BY <2>7 DEF ManualStart, vars
      <3>2. MayGoFirst(p, d, snap.runs)' = MayGoFirst(p, d, snap.runs)
        BY <3>1 DEF MayGoFirst
      <3> QED BY <1>3, <2>1, <2>2, <3>1, <3>2 DEF InTurn
    <2> QED BY <1>1, <1>3, <2>3, <2>4, <2>5, <2>6, <2>7 DEF CalmStep
  <1>4. CASE ~(Plan \/ FinishRun \/ ManualFinish)
    <2>1. table' = table
      BY <1>1, <1>4 DEF CalmStep, Startup, ReadPause, ReadAccounts, ReadTasks, ReadRuns,
                        Read, StartRun, SleepEnds, ManualStart, Tick, vars
    <2>2. ASSUME NEW p \in Suited \ Manual, HasRun(table'[p])
          PROVE  InTurn(p, Due(p, table[p]))'
      <3> DEFINE d == Due(p, table[p])
      <3>1. d \in Int /\ HasRun(table[p]) /\ InTurn(p, d)
        BY <2>1, <2>2, DueIsDated DEF TurnInv
      <3>2. InTurn(p, d)'
        <4> HIDE DEF d
        <4>1. PICK e : e = d
          OBVIOUS
        <4>2. InTurn(p, e)'
          BY <1>3, <1>4, <2>1, <3>1, <4>1 DEF d
        <4> QED BY <2>1, <4>1, <4>2 DEF d
      <3> QED BY <2>1, <3>2
    <2> QED BY <2>2 DEF TurnInv
  <1> QED BY <1>2, <1>4

\* While nothing but failing tasks goes wrong, every pair is served within one
\* round of its due time, for every number of pairs, cadence and length of run.
THEOREM EverybodyInTurn == Calm => (Spec => []ServedInTurn)
  <1> SUFFICES ASSUME Calm
               PROVE  Spec => []ServedInTurn
    OBVIOUS
  <1>1. Init => SchedInv /\ Undisturbed /\ TurnInv
    <2> SUFFICES ASSUME Init
                 PROVE  SchedInv /\ Undisturbed /\ TurnInv
      OBVIOUS
    <2>1. SchedInv
      BY SchedInvInit
    <2>2. Undisturbed
      BY DEF Init, Undisturbed, NoSnap, NoRun
    <2>3. ASSUME NEW p \in Suited \ Manual, HasRun(table[p])
          PROVE  InTurn(p, Due(p, table[p]))
      <3> DEFINE d == Due(p, table[p])
                 first == MayGoFirst(p, d, table)
      <3>1. d \in Int /\ d >= 1 /\ first \in SUBSET (Suited \ {p})
        BY <2>1, <2>3, DueIsDated DEF MayGoFirst
      <3>2. loop.pc = "down" /\ now = 1
        BY DEF Init
      <3>3. now <= Latest(d, first)
        <4> HIDE DEF d, first
        <4> QED BY <3>1, <3>2, LatestIsBounded, SlotIsTime
      <3> QED BY <3>2, <3>3 DEF InTurn
    <2> QED BY <2>1, <2>2, <2>3 DEF TurnInv
  <1>2. SchedInv /\ Undisturbed /\ TurnInv /\ [Next]_vars
        => (SchedInv /\ Undisturbed /\ TurnInv)'
    BY SchedInvStep, UndisturbedNext, TurnNext
  <1>3. SchedInv /\ Undisturbed /\ TurnInv => ServedInTurn
    <2> SUFFICES ASSUME SchedInv, Undisturbed, TurnInv,
                        NEW p \in Suited \ Manual, HasRun(table[p])
                 PROVE  now < Due(p, table[p]) + Round
      BY DEF ServedInTurn
    <2> DEFINE d     == Due(p, table[p])
               first == MayGoFirst(p, d, table)
               other == first \ {loop.run.pair}
               seen  == MayGoFirst(p, d, snap.runs)
               last  == d - 1 + Cardinality(Suited) * Slot
    <2>1. d \in Int /\ InTurn(p, d)
      BY DueIsDated DEF TurnInv
    <2>2. \A S \in {first, other, seen} : Latest(d, S) \in Int /\ Latest(d, S) <= last
      <3>1. first \in SUBSET (Suited \ {p}) /\ other \in SUBSET (Suited \ {p})
            /\ seen \in SUBSET (Suited \ {p})
        BY DEF MayGoFirst
      <3> HIDE DEF d, first, other, seen
      <3> QED BY <2>1, <3>1, LatestIsBounded
    <2>3. /\ now \in Int /\ loop.until \in Int /\ loop.run.started \in Int
          /\ loop.pc \in {"down", "flags", "accounts", "tasks", "runs", "plan",
                          "execute", "running", "sleep"}
          /\ loop.pc = "sleep" => now <= loop.until
          /\ loop.pc = "running" => now <= loop.run.started + RunMax
      BY DEF SchedInv, TypeOK, Runs, Undisturbed
    <2>4. RunMax \in Nat /\ Slot \in Nat
      BY SlotIsTime
    <2>5. last \in Int
      <3> HIDE DEF d
      <3> QED BY <2>1, <2>4, FS_CardinalityType
    <2>6. /\ loop.pc \in {"down", "flags", "accounts", "tasks", "runs"} =>
                now <= Latest(d, first)
          /\ loop.pc = "plan" => now <= Latest(d, seen)
          /\ loop.pc = "sleep" => loop.until <= Latest(d, first)
          /\ loop.pc = "execute" => now <= Latest(d, first) \/ now + Slot <= Latest(d, other)
          /\ loop.pc = "running" => \/ loop.run.started <= Latest(d, first)
                                    \/ loop.run.started + Slot <= Latest(d, other)
      BY <2>1 DEF InTurn
    <2>7. now <= last + RunMax
      <3> HIDE DEF d, first, other, seen, last
      <3> QED BY <2>2, <2>3, <2>4, <2>5, <2>6
    <2>8. d + Round = last + RunMax + 1
      <3>1. Cardinality(Suited) * Slot \in Int
        BY <2>4, FS_CardinalityType
      <3> HIDE DEF d
      <3> QED BY <2>1, <2>4, <3>1 DEF Round, Slot
    <2> HIDE DEF d, last
    <2> QED BY <2>1, <2>3, <2>4, <2>5, <2>7, <2>8 DEF d
  <1> QED BY <1>1, <1>2, <1>3, PTL DEF Spec

=============================================================================
