----------------------------- MODULE Scheduler ------------------------------
(***************************************************************************)
(* The agent's scheduling loop: snapshot -> Plan -> execute the single most*)
(* overdue (account, task) pair -> sleep, over the task_runs table that is *)
(* its only memory, beside the operator's run-task, crashes and restarts,  *)
(* devices that come and go, and a database that may be out of reach.      *)
(*                                                                         *)
(* A pair is <<account, task>>; accounts and tasks are numbers so that the *)
(* tie-breaks of Plan are their order.  Time is absolute and discrete.     *)
(***************************************************************************)
EXTENDS Integers, FiniteSets

CONSTANTS
    Accounts, Tasks,     \* account ids and task names
    Suited,              \* the pairs enabled_for_roles admits
    DeviceOf,            \* the device each account lives on
    Cadence, Jitter,     \* per task: the cadence and the most it is shifted by
    MaxBackoffFailures,  \* maxBackoffFailures
    RunMax,              \* the longest a task runs
    TickMin, TickMax,    \* the bounds of the jittered sleep between ticks
    Manual,              \* pairs the operator may run by hand
    Fragile,             \* devices that may drop off adb
    Events,              \* what may happen besides, from EventKinds
    Horizon, Unbounded   \* when the clock stops, unless it does not

EventKinds == {"crash", "store", "fail", "pause", "account", "task", "calendar"}

Devices == {DeviceOf[a] : a \in Accounts}

ASSUME SchedulerAssumption ==
    /\ Accounts \subseteq Nat /\ Tasks \subseteq Nat
    /\ Suited \subseteq Accounts \X Tasks /\ IsFiniteSet(Suited)
    /\ Cadence \in [Tasks -> Nat] /\ Jitter \in [Tasks -> Nat]
    /\ \A t \in Tasks : Jitter[t] < Cadence[t]
    /\ MaxBackoffFailures \in 0 .. 5
    /\ RunMax \in Nat /\ TickMin \in Nat \ {0} /\ TickMax \in Nat
    /\ TickMin <= TickMax
    /\ Manual \subseteq Suited
    /\ Fragile \subseteq Devices
    /\ Events \subseteq EventKinds
    /\ Horizon \in Nat /\ Unbounded \in BOOLEAN

VARIABLES
    now,        \* the clock
    flags,      \* flags.pause_all, the enabled accounts, the enabled tasks
    calendar,   \* accounts in their offline window, tasks whose weekday it is
    attached,   \* the devices adb can reach
    up,         \* whether Postgres can be reached
    table,      \* task_runs, per pair: see Row
    loop,       \* where the loop stands, and the run it has in hand
    snap,       \* the Snapshot being read
    scope,      \* the device serials found at startup
    manual,     \* the run-task in progress
    passed,     \* history: <<p, q>> when q was served while p was due
    passedOver  \* history: the pairs that were due at the last Plan

vars == <<now, flags, calendar, attached, up, table, loop, snap, scope, manual,
          passed, passedOver>>

Never  == -1
NoPair == <<-1, -1>>

\* What the snapshot query can see of a pair's rows: the last attempt that
\* counts and the shift its hash gives the cadence, the last success, and the
\* attempts that failed after it.  Rows 'running' and 'paused' are in none.
NoRows == [last |-> Never, offset |-> 0, won |-> Never, failed |-> {}]

AllOn  == [paused |-> FALSE, accounts |-> Accounts, tasks |-> Tasks]
NoSnap == [flags |-> AllOn, runs |-> [p \in Suited |-> NoRows]]

NoRun == [pair |-> NoPair, started |-> 0, denied |-> FALSE]

Permitted(p, f) == ~f.paused /\ p[1] \in f.accounts /\ p[2] \in f.tasks

-----------------------------------------------------------------------------
(* The policy. *)

\* 1 << n, for the shifts backoff can make.
Shift == [n \in 0 .. 5 |-> CASE n = 0 -> 1  [] n = 1 -> 2  [] n = 2 -> 4
                             [] n = 3 -> 8  [] n = 4 -> 16 [] n = 5 -> 32]

Backoff(cadence, failures) ==
    cadence * (Shift[IF failures > MaxBackoffFailures THEN MaxBackoffFailures
                     ELSE failures] - 1)

HasRun(row) == row.last # Never

ConsecutiveFailures(row) == Cardinality(row.failed)

\* Mutation of Due: no backoff.
DueWithoutBackoff(p, row) == row.last + Cadence[p[2]] + row.offset

\* dueTime; a pair that never ran is due at whatever moment it is asked.
Due(p, row) ==
    row.last + Cadence[p[2]] + row.offset
             + Backoff(Cadence[p[2]], ConsecutiveFailures(row))

DueAt(p, row, t) == IF HasRun(row) THEN Due(p, row) ELSE t

\* The pairs Plan returns ...
Candidates(s, cal, t) ==
    {p \in Suited :
        /\ Permitted(p, s.flags)
        /\ DeviceOf[p[1]] \in s.scope
        /\ p[1] \notin cal.asleep
        /\ p[2] \in cal.today
        /\ DueAt(p, s.runs[p], t) <= t}

\* Mutations of Ahead: by task and account only; least overdue first.
AheadByName(p, q, s, t) == p[2] < q[2] \/ (p[2] = q[2] /\ p[1] <= q[1])
AheadReversed(p, q, s, t) ==
    LET dp == DueAt(p, s.runs[p], t)
        dq == DueAt(q, s.runs[q], t)
    IN  dp > dq \/ (dp = dq /\ (p[2] < q[2] \/ (p[2] = q[2] /\ p[1] <= q[1])))

\* ... and how it sorts them: longest overdue, then task name, then account.
Ahead(p, q, s, t) ==
    LET dp == DueAt(p, s.runs[p], t)
        dq == DueAt(q, s.runs[q], t)
    IN  \/ dp < dq
        \/ dp = dq /\ p[2] < q[2]
        \/ dp = dq /\ p[2] = q[2] /\ p[1] <= q[1]

-----------------------------------------------------------------------------
(* The loop. *)

LoopAt(point) == [pc |-> point, until |-> now, run |-> NoRun]

NothingServed == UNCHANGED <<passed, passedOver>>

\* The agent refuses to start with no device attached, or without a database.
Startup ==
    /\ loop.pc = "down"
    /\ up
    /\ attached # {}
    /\ scope' = attached
    /\ loop' = LoopAt("flags")
    /\ NothingServed
    /\ UNCHANGED <<now, flags, calendar, attached, up, table, snap, manual>>

\* The four queries of one snapshot, each at its own moment.
Read(point, next, field, value) ==
    /\ loop.pc = point
    /\ up
    /\ snap' = [snap EXCEPT ![field] = value]
    /\ loop' = LoopAt(next)
    /\ NothingServed
    /\ UNCHANGED <<now, flags, calendar, attached, up, table, scope, manual>>

ReadPause    == Read("flags", "accounts", "flags",
                     [snap.flags EXCEPT !.paused = flags.paused])
ReadAccounts == Read("accounts", "tasks", "flags",
                     [snap.flags EXCEPT !.accounts = flags.accounts])
ReadTasks    == Read("tasks", "runs", "flags",
                     [snap.flags EXCEPT !.tasks = flags.tasks])
ReadRuns     == Read("runs", "plan", "runs", table)

\* Mutation of SleepFrom: the last run is not forgotten.
SleepHolding ==
    /\ loop' \in [pc: {"sleep"}, until: {now + d : d \in TickMin .. TickMax},
                  run: {loop.run}]
    /\ UNCHANGED <<now, flags, calendar, attached, up, scope, manual>>

SleepFrom ==
    /\ loop' \in [pc: {"sleep"}, until: {now + d : d \in TickMin .. TickMax},
                  run: {NoRun}]
    /\ UNCHANGED <<now, flags, calendar, attached, up, scope, manual>>

SnapshotFails ==
    /\ loop.pc \in {"flags", "accounts", "tasks", "runs"}
    /\ "store" \in Events
    /\ SleepFrom
    /\ snap' = NoSnap
    /\ NothingServed
    /\ UNCHANGED table

Plan ==
    /\ loop.pc = "plan"
    /\ snap' = NoSnap
    /\ LET s == [flags |-> snap.flags, runs |-> snap.runs, scope |-> scope]
           due == Candidates(s, calendar, now)
       IN  /\ passedOver' = due
           /\ \/ /\ due = {}
                 /\ SleepFrom
              \/ \E p \in due :
                    /\ \A q \in due : Ahead(p, q, s, now)
                    /\ loop' = [pc |-> "execute", until |-> now,
                                run |-> [NoRun EXCEPT !.pair = p]]
                    /\ UNCHANGED <<now, flags, calendar, attached, up, scope,
                                   manual>>
           \* A pair this Plan did not find due has nothing to wait for.
           /\ passed' = {pq \in passed : pq[1] \in due}
    /\ UNCHANGED table

\* Execute fails before StartTaskRun: the device does not answer, the account
\* or the row cannot be written.  No row is left behind.
ExecuteFails ==
    /\ loop.pc = "execute"
    /\ DeviceOf[loop.run.pair[1]] \notin attached \/ ~up
    /\ SleepFrom
    /\ passedOver' = {}
    /\ UNCHANGED <<table, snap, passed>>

\* StartTaskRun: the row is 'running' before the task acts.
StartRun ==
    /\ loop.pc = "execute"
    /\ DeviceOf[loop.run.pair[1]] \in attached
    /\ up
    /\ loop' = [pc |-> "running", until |-> now + RunMax,
                run |-> [loop.run EXCEPT !.started = now,
                            !.denied = ~Permitted(loop.run.pair, flags)]]
    /\ NothingServed
    /\ UNCHANGED <<now, flags, calendar, attached, up, table, snap, scope, manual>>

\* FinishTaskRun with an outcome the snapshot query counts.  The hash of the
\* newest counted start decides the next shift.
Counted(row, started, status, offset) ==
    LET won    == IF status = "succeeded" /\ started > row.won THEN started
                  ELSE row.won
        failed == row.failed \cup (IF status = "failed" THEN {started} ELSE {})
    IN  [last   |-> IF started > row.last THEN started ELSE row.last,
         offset |-> IF started > row.last THEN offset ELSE row.offset,
         won    |-> won,
         failed |-> {s \in failed : s > won}]

Finish(run, status) ==
    IF status = "paused" \/ ~up
    THEN UNCHANGED table
    ELSE \E o \in -Jitter[run.pair[2]] .. Jitter[run.pair[2]] :
            table' = [table EXCEPT ![run.pair] = Counted(@, run.started, status, o)]

\* The outcomes of a task body: a denial only if the kill switch saw one.
Outcomes(run) ==
    {"succeeded"} \cup (IF "fail" \in Events THEN {"failed"} ELSE {})
                  \cup (IF run.denied THEN {"paused"} ELSE {})

\* The pairs still due that the run in hand was preferred to.
Overtaken ==
    {p \in passedOver \ {loop.run.pair} :
        HasRun(table[p]) /\ Due(p, table[p]) <= loop.run.started}

FinishRun ==
    /\ loop.pc = "running"
    /\ \E status \in Outcomes(loop.run) :
        /\ Finish(loop.run, status)
        /\ passed' = IF table' = table THEN passed
                     ELSE {pq \in passed : pq[1] # loop.run.pair}
                          \cup {<<p, loop.run.pair>> : p \in Overtaken}
    /\ passedOver' = {}
    /\ SleepFrom
    /\ UNCHANGED snap

SleepEnds ==
    /\ loop.pc = "sleep"
    /\ loop.until <= now
    /\ loop' = LoopAt("flags")
    /\ NothingServed
    /\ UNCHANGED <<now, flags, calendar, attached, up, table, snap, scope, manual>>

\* The process dies.  A row it had open stays 'running' for ever, which no
\* query of the snapshot counts.
Crash ==
    /\ "crash" \in Events
    /\ loop.pc # "down"
    /\ loop' = LoopAt("down")
    /\ snap' = NoSnap
    /\ passedOver' = {}
    /\ UNCHANGED <<now, flags, calendar, attached, up, table, scope, manual, passed>>

-----------------------------------------------------------------------------
(* The operator's run-task: the same Run, outside the loop. *)

ManualStart ==
    /\ manual.pair = NoPair
    /\ up
    /\ \E p \in Manual :
        /\ DeviceOf[p[1]] \in attached
        /\ manual' = [NoRun EXCEPT !.pair = p, !.started = now,
                                   !.denied = ~Permitted(p, flags)]
    /\ NothingServed
    /\ UNCHANGED <<now, flags, calendar, attached, up, table, loop, snap, scope>>

ManualFinish ==
    /\ manual.pair # NoPair
    /\ \E status \in Outcomes(manual) : Finish(manual, status)
    /\ manual' = NoRun
    /\ passed' = IF table' = table THEN passed
                 ELSE {pq \in passed : pq[1] # manual.pair}
    /\ UNCHANGED <<now, flags, calendar, attached, up, loop, snap, scope, passedOver>>

-----------------------------------------------------------------------------
(* The world. *)

Saw(run, f) ==
    [run EXCEPT !.denied = @ \/ (run.pair # NoPair /\ ~Permitted(run.pair, f))]

Flip(s, x) == IF x \in s THEN s \ {x} ELSE s \cup {x}

SetFlags ==
    /\ \/ /\ "pause" \in Events
          /\ flags' = [flags EXCEPT !.paused = ~@]
       \/ /\ "account" \in Events
          /\ \E a \in Accounts : flags' = [flags EXCEPT !.accounts = Flip(@, a)]
       \/ /\ "task" \in Events
          /\ \E t \in Tasks : flags' = [flags EXCEPT !.tasks = Flip(@, t)]
    /\ loop' = [loop EXCEPT !.run = Saw(@, flags')]
    /\ manual' = Saw(manual, flags')
    /\ NothingServed
    /\ UNCHANGED <<now, calendar, attached, up, table, snap, scope>>

Calendar ==
    /\ "calendar" \in Events
    /\ \/ \E a \in Accounts : calendar' = [calendar EXCEPT !.asleep = Flip(@, a)]
       \/ \E t \in Tasks : calendar' = [calendar EXCEPT !.today = Flip(@, t)]
    /\ NothingServed
    /\ UNCHANGED <<now, flags, attached, up, table, loop, snap, scope, manual>>

Unplug ==
    /\ \E d \in Fragile : attached' = Flip(attached, d)
    /\ NothingServed
    /\ UNCHANGED <<now, flags, calendar, up, table, loop, snap, scope, manual>>

StoreOutage ==
    /\ "store" \in Events
    /\ up' = ~up
    /\ NothingServed
    /\ UNCHANGED <<now, flags, calendar, attached, table, loop, snap, scope, manual>>

\* Time passes while the loop sleeps or a task runs for at most RunMax, and
\* while a crashed agent is down.
Tick ==
    /\ Unbounded \/ now < Horizon
    /\ loop.pc \in {"sleep", "running"} => now < loop.until
    /\ \/ loop.pc \in {"sleep", "running"}
       \/ loop.pc = "down" /\ "crash" \in Events
    /\ now' = now + 1
    /\ NothingServed
    /\ UNCHANGED <<flags, calendar, attached, up, table, loop, snap, scope, manual>>

-----------------------------------------------------------------------------
\* Each pair has either never run or succeeded a moment ago.
Init ==
    /\ now = 1
    /\ flags = AllOn
    /\ calendar = [asleep |-> {}, today |-> Tasks]
    /\ attached = Devices
    /\ up = TRUE
    /\ table \in [Suited -> {NoRows} \cup
                     {[last |-> 0, offset |-> 0, won |-> 0, failed |-> {}]}]
    /\ loop = [pc |-> "down", until |-> 0, run |-> NoRun]
    /\ snap = NoSnap
    /\ scope = {}
    /\ manual = NoRun
    /\ passed = {} /\ passedOver = {}

LoopStep == \/ Startup \/ ReadPause \/ ReadAccounts \/ ReadTasks \/ ReadRuns
            \/ SnapshotFails \/ Plan \/ ExecuteFails \/ StartRun
            \/ FinishRun \/ SleepEnds \/ Crash

World == SetFlags \/ Calendar \/ Unplug \/ StoreOutage \/ Tick

Next == LoopStep \/ ManualStart \/ ManualFinish \/ World

Spec == Init /\ [][Next]_vars

-----------------------------------------------------------------------------
Rows == [last: Nat \cup {Never}, offset: Int, won: Nat \cup {Never},
         failed: SUBSET Nat]

Flags == [paused: BOOLEAN, accounts: SUBSET Accounts, tasks: SUBSET Tasks]

Runs == [pair: Suited \cup {NoPair}, started: Nat, denied: BOOLEAN]

TypeOK ==
    /\ now \in Nat
    /\ flags \in Flags
    /\ calendar \in [asleep: SUBSET Accounts, today: SUBSET Tasks]
    /\ attached \subseteq Devices /\ scope \subseteq Devices
    /\ up \in BOOLEAN
    /\ table \in [Suited -> Rows]
    /\ loop \in [pc: {"down", "flags", "accounts", "tasks", "runs", "plan",
                      "execute", "running", "sleep"}, until: Nat, run: Runs]
    /\ loop.pc \in {"execute", "running"} <=> loop.run.pair # NoPair
    /\ snap \in [flags: Flags, runs: [Suited -> Rows]]
    /\ manual \in Runs
    /\ passed \subseteq Suited \X Suited
    /\ passedOver \subseteq Suited

\* After f failures in a row a pair is not started again before its cadence
\* times 2^f (f capped), less the shift, has passed since its last counted
\* attempt, the last that succeeded or failed: through restarts, pauses and
\* the four separate queries of a snapshot.  An attempt whose row stayed
\* 'running', its process dead or its outcome not written, is not counted and
\* holds nothing back; a run-task of the same pair is.
RunsAreSpaced ==
    [][\A p \in Suited \ Manual :
         LET row == table[p]
             f   == ConsecutiveFailures(row)
         IN  /\ loop.pc = "execute" /\ loop'.pc = "running"
             /\ loop.run.pair = p
             /\ HasRun(row)
             => now - row.last + Jitter[p[2]] >=
                    Cadence[p[2]] * Shift[IF f > MaxBackoffFailures
                                          THEN MaxBackoffFailures ELSE f]]_vars

\* No pair is served twice over another that has been due all along: a run of
\* q that counts, begun while p was due, puts q behind p until p has run.
NoSecondTurn ==
    [][loop.pc = "running" /\ loop'.pc = "sleep" /\ table' # table
        => \A p \in Overtaken : <<p, loop.run.pair>> \notin passed]_vars

\* Everyone's turn: a run and a sleep for each pair, and the pair's own run.
Round == Cardinality(Suited) * (RunMax + TickMax) + RunMax

\* While nothing but failing tasks goes wrong, no pair that ever ran is late by
\* a round, however overloaded the agent is and whatever other pairs the
\* operator runs by hand (Plan sorts by due time).
ServedInTurn ==
    \A p \in Suited \ Manual : HasRun(table[p]) => now < Due(p, table[p]) + Round

\* scheduler-design.md:210-211: a device that drops off "fails one task and
\* recovers on the next tick": the pairs on other devices are served in turn.
OutageStaysLocal ==
    \A p \in Suited : DeviceOf[p[1]] \notin Fragile /\ HasRun(table[p])
        => now < Due(p, table[p]) + Round

=============================================================================
