------------------------------ MODULE CtxProofs -----------------------------
(***************************************************************************)
(* The freshness of every kill-switch verdict, for every TTL, query bound  *)
(* and set of switches; and StopsInTime for every timing, every graph and  *)
(* every set of primitives: no command reaches the device more than        *)
(* StopLag ticks after the account stopped being permitted to act.  Then   *)
(* what the run sees: TouchesAreProven, RestartIsLastResort and NavArrives *)
(* for every graph, from what the newest frame shows at each point of the  *)
(* code.                                                                   *)
(***************************************************************************)
EXTENDS Ctx, SequenceTheorems, TLAPS

\* What a verdict held in "v", obtained at most "age" ticks ago, still says.
StillSays(v, age) ==
    /\ v = "nil" /\ ~Permitted(flags) => since <= age
    /\ v \in Denials /\ Permitted(flags) => since <= age

\* The strengthening of VerdictIsFresh that is inductive:
\* what the cache, a row already read and a returned verdict each still say.
KSInv ==
    /\ KSTypeOK
    /\ Fresh => StillSays(cache.verdict, cache.age + QueryMax)
    /\ query.phase = "read" => /\ query.verdict # "ErrStore"
                               /\ StillSays(query.verdict, query.age)
    /\ query.phase = "done" => StillSays(query.verdict, VerdictLag)

LEMMA KSInvInit == KSInit => KSInv
  BY KillSwitchAssumption
     DEF KSInit, KSInv, KSTypeOK, Idle, Never, Fresh, Verdicts, Denials

\* The operator and the database may move at any time: either the flags agree
\* with what they were about permission, or the clock restarts.
LEMMA WorldKeepsKSInv == KSInv /\ World => KSInv'
  <1> SUFFICES ASSUME KSInv, World PROVE KSInv'
    OBVIOUS
  <1> USE KillSwitchAssumption
  <1>1. PICK f \in [pauseAll: BOOLEAN, enabled: BOOLEAN, up: BOOLEAN] : Become(f)
    <2>1. CASE SetPauseAll
      BY <2>1, Zenon DEF SetPauseAll, KSInv, KSTypeOK
    <2>2. CASE SetAccountEnabled
      BY <2>2, Zenon DEF SetAccountEnabled, KSInv, KSTypeOK
    <2>3. CASE StoreOutage
      BY <2>3, Zenon DEF StoreOutage, KSInv, KSTypeOK
    <2> QED BY <2>1, <2>2, <2>3 DEF World
  <1>2. KSTypeOK'
    BY <1>1 DEF KSInv, KSTypeOK, Become
  <1>3. ASSUME NEW v, NEW n \in Nat, StillSays(v, n)
        PROVE  StillSays(v, n)'
    BY <1>1, <1>3, SMT DEF StillSays, Become, KSInv, KSTypeOK
  <1>4. cache' = cache /\ query' = query
    BY <1>1 DEF Become
  <1>5. Fresh' => StillSays(cache.verdict, cache.age + QueryMax)'
    <2>1. CASE Fresh
      <3>1. cache.age + QueryMax \in Nat
        BY <2>1, SMT DEF Fresh, KSInv, KSTypeOK, Never
      <3> QED BY <1>3, <1>4, <2>1, <3>1 DEF KSInv
    <2> QED BY <1>4, <2>1 DEF Fresh
  <1>6. (query.phase = "read" => /\ query.verdict # "ErrStore"
                                /\ StillSays(query.verdict, query.age))'
    BY <1>3, <1>4 DEF KSInv, KSTypeOK
  <1>7. (query.phase = "done" => StillSays(query.verdict, VerdictLag))'
    BY <1>3, <1>4 DEF KSInv, VerdictLag
  <1> QED BY <1>2, <1>5, <1>6, <1>7 DEF KSInv

\* A Check obtains its verdict from a fresh cache or from the rows themselves.
LEMMA CheckKeepsKSInv == KSInv /\ Check => KSInv'
  <1> SUFFICES ASSUME KSInv, Check PROVE KSInv'
    OBVIOUS
  <1> USE KillSwitchAssumption
          DEF KSInv, KSTypeOK, StillSays, Fresh, Verdicts, Denials
  <1>1. CASE CheckCached
    BY <1>1 DEF CheckCached, VerdictLag, Permitted, Never
  <1>2. CASE AskStore
    BY <1>2 DEF AskStore
  <1>3. CASE ReadStore
    BY <1>3 DEF ReadStore, Permitted, VerdictOf
  <1>4. CASE ReturnFresh
    BY <1>4 DEF ReturnFresh, VerdictLag, Permitted, Never
  <1>5. CASE ReturnError
    BY <1>5 DEF ReturnError, Permitted
  <1> QED BY <1>1, <1>2, <1>3, <1>4, <1>5 DEF Check

LEMMA ConsumeKeepsKSInv == KSInv /\ Consume => KSInv'
  BY KillSwitchAssumption, SMT
     DEF Consume, KSInv, KSTypeOK, StillSays, Fresh, Idle, Verdicts, Denials,
         Permitted

\* As time passes every age grows with the clock it is compared with.
LEMMA ClockKeepsKSInv == KSInv /\ AdvanceClocks => KSInv'
  BY KillSwitchAssumption, SMT
     DEF AdvanceClocks, ClockMayAdvance, KSInv, KSTypeOK, StillSays, Fresh,
         Saturate, Permitted, Never, VerdictLag

LEMMA StutterKeepsKSInv == KSInv /\ UNCHANGED ksVars => KSInv'
  BY DEF ksVars, KSInv, KSTypeOK, StillSays, Fresh, Permitted, VerdictLag

\* Every verdict the switch returns is at most VerdictLag old, whatever the
\* operator, the database and the clock do.
THEOREM KillSwitchFreshness == KSSpec => []VerdictIsFresh
  <1>1. KSInit => KSInv
    BY KSInvInit
  <1>2. KSInv /\ [KSNext]_ksVars => KSInv'
    BY WorldKeepsKSInv, CheckKeepsKSInv, ConsumeKeepsKSInv, ClockKeepsKSInv,
       StutterKeepsKSInv DEF KSNext, TakeVerdict
  <1>3. KSInv => VerdictIsFresh
    BY DEF KSInv, StillSays, VerdictIsFresh, Answered
  <1> QED BY <1>1, <1>2, <1>3, PTL DEF KSSpec

-----------------------------------------------------------------------------
\* The permission in force at most n ticks ago.
Lately(n) == Permitted(flags) \/ since <= n

\* What each program point still knows of the check that led to it: the frames
\* and sleeps since then, which Tick bounds, are all the time that can have
\* passed.
Clock ==
    /\ busy \in Nat
    /\ pc \in Frames => busy <= FrameMax
    /\ pc \in Naps => busy <= NapMax
    /\ pc = "pnap" => Lately(VerdictLag + busy)
    /\ pc \in {"pframe", "pjudge"} => Lately(VerdictLag + NapMax + busy)
    /\ pc \in {"frame", "judge"} => Lately(VerdictLag + NapMax + FrameMax + busy)

CtxInv == KSInv /\ Clock

Timely == touch'.cmd \in Commands => Lately(StopLag)

USE KillSwitchAssumption, CtxAssumption

LEMMA CtxInvInit == Init => CtxInv
  BY KSInvInit DEF Init, CtxInv, Clock, Frames, Naps

\* Steps that leave the switch alone, and where they may go: nowhere that
\* relies on a recent check.
LEMMA QuietReturn ==
  ASSUME CtxInv, UNCHANGED ksVars, NEW r, Return(r) PROVE CtxInv'
  BY StutterKeepsKSInv DEF CtxInv, Clock, Return, Frames, Naps

LEMMA TaskCallsKeepsClock == CtxInv /\ TaskCalls => CtxInv' /\ Timely
  BY StutterKeepsKSInv
     DEF CtxInv, Clock, TaskCalls, Begin, Frames, Naps, NothingTouched, NoTouch,
         Timely, Commands

LEMMA KillCheckKeepsClock == CtxInv /\ KillCheck => CtxInv' /\ Timely
  BY CheckKeepsKSInv
     DEF CtxInv, Clock, KillCheck, code, Frames, Naps, Gates, NothingTouched,
         NoTouch, Timely, Commands

LEMMA RefusedKeepsClock == CtxInv /\ Refused => CtxInv' /\ Timely
  BY ConsumeKeepsKSInv
     DEF CtxInv, Clock, Refused, Return, Frames, Naps, NothingTouched, NoTouch,
         Timely, Commands


\* A verdict taken at a gate is the switch's: at most VerdictLag old.
LEMMA GrantIsRecent == CtxInv /\ Answered("nil") => Lately(VerdictLag)
  BY DEF CtxInv, KSInv, StillSays, Answered, Lately

LEMMA GateOpensKeepsClock == CtxInv /\ GateOpens => CtxInv' /\ Timely
  <1> SUFFICES ASSUME CtxInv, GateOpens PROVE CtxInv' /\ Timely
    OBVIOUS
  <1>1. Consume /\ Lately(VerdictLag) /\ pc = "gate"
    BY GrantIsRecent DEF GateOpens, Allowed
  <1>2. KSInv' /\ flags' = flags /\ since' = since /\ KSTypeOK
    BY <1>1, ConsumeKeepsKSInv DEF CtxInv, Consume, KSInv
  <1>3. CASE call.op = "Back"
    <2>1. Touch("Back", call.on) /\ \E r \in Sent : Return(r)
      BY <1>3 DEF GateOpens
    <2> QED BY <1>1, <1>2, <2>1
            DEF CtxInv, Clock, Return, Frames, Naps, Timely, Lately, StopLag,
                VerdictLag, KSTypeOK
  <1>4. CASE call.op # "Back"
    <2>1. NothingTouched /\ (GoTo("nap") \/ GoTo("frame"))
      BY <1>4 DEF GateOpens
    <2> QED BY <1>1, <1>2, <2>1
            DEF CtxInv, Clock, GoTo, Frames, Naps, Timely, NothingTouched,
                NoTouch, Commands, Lately, VerdictLag, Permitted, KSTypeOK
  <1> QED BY <1>3, <1>4

LEMMA SleepBeginsKeepsClock == CtxInv /\ SleepBegins => CtxInv' /\ Timely
  <1> SUFFICES ASSUME CtxInv, SleepBegins PROVE CtxInv' /\ Timely
    OBVIOUS
  <1>1. /\ Consume /\ Lately(VerdictLag) /\ NothingTouched
        /\ GoTo("nap") \/ GoTo("pnap")
    BY GrantIsRecent DEF SleepBegins, Allowed
  <1>2. KSInv' /\ flags' = flags /\ since' = since /\ KSTypeOK
    BY <1>1, ConsumeKeepsKSInv DEF CtxInv, Consume, KSInv
  <1> QED BY <1>1, <1>2
          DEF CtxInv, Clock, GoTo, Frames, Naps, Timely, NothingTouched,
              NoTouch, Commands, Lately, VerdictLag, Permitted, KSTypeOK

LEMMA PanicActsKeepsClock == CtxInv /\ PanicActs => CtxInv' /\ Timely
  <1> SUFFICES ASSUME CtxInv, PanicActs PROVE CtxInv' /\ Timely
    OBVIOUS
  <1>1. /\ Consume /\ Lately(VerdictLag)
        /\ GoTo("pnapgate") \/ \E r : Return(r)
    BY GrantIsRecent DEF PanicActs, Allowed
  <1>2. KSInv' /\ flags' = flags /\ since' = since /\ KSTypeOK
    BY <1>1, ConsumeKeepsKSInv DEF CtxInv, Consume, KSInv
  <1>3. CtxInv'
    BY <1>1, <1>2 DEF CtxInv, Clock, GoTo, Return, Frames, Naps
  <1>4. Timely
    BY <1>1, <1>2 DEF Timely, Lately, StopLag, VerdictLag, KSTypeOK
  <1> QED BY <1>3, <1>4

\* Steps that leave the switch alone.
LEMMA SleepEndsKeepsClock == CtxInv /\ SleepEnds => CtxInv' /\ Timely
  <1> SUFFICES ASSUME CtxInv, SleepEnds PROVE CtxInv' /\ Timely
    OBVIOUS
  <1>1. UNCHANGED ksVars /\ Timely
    BY DEF SleepEnds, Timely, NothingTouched, NoTouch, Commands
  <1>2. KSInv' /\ KSTypeOK /\ flags' = flags /\ since' = since
    BY <1>1, StutterKeepsKSInv DEF CtxInv, KSInv, ksVars
  <1>3. CASE pc = "pnap" /\ GoTo("pframe")
    BY <1>1, <1>2, <1>3
       DEF CtxInv, Clock, GoTo, Frames, Naps, Lately, VerdictLag, Permitted,
           KSTypeOK
  <1>4. CASE (\E r : Return(r)) \/ GoTo("gate")
    BY <1>1, <1>2, <1>4 DEF CtxInv, Clock, Return, GoTo, Frames, Naps
  <1>5. (pc = "pnap" /\ GoTo("pframe")) \/ (\E r : Return(r)) \/ GoTo("gate")
    BY DEF SleepEnds
  <1> QED BY <1>1, <1>3, <1>4, <1>5

LEMMA ScreenshotKeepsClock == CtxInv /\ Screenshot => CtxInv' /\ Timely
  <1> SUFFICES ASSUME CtxInv, Screenshot PROVE CtxInv' /\ Timely
    OBVIOUS
  <1>1. UNCHANGED ksVars /\ Timely
    BY DEF Screenshot, Timely, NoTouch, Commands
  <1>2. KSInv' /\ KSTypeOK /\ flags' = flags /\ since' = since
    BY <1>1, StutterKeepsKSInv DEF CtxInv, KSInv, ksVars
  <1> QED BY <1>1, <1>2
          DEF CtxInv, Clock, Screenshot, Frames, Naps, Lately, Permitted

LEMMA AdbFailsKeepsClock == CtxInv /\ (AdbFails \/ SleepCut) => CtxInv' /\ Timely
  BY QuietReturn DEF AdbFails, SleepCut, Timely, NothingTouched, NoTouch, Commands

\* Where a judgement or the panic route may leave the run: back with the
\* caller, or at a gate.
Settled == (\E r : Return(r)) \/ (pc' \in Gates /\ busy' \in {0, busy})

LEMMA SettledKeepsClock ==
  ASSUME CtxInv, UNCHANGED ksVars, Settled PROVE CtxInv'
  BY StutterKeepsKSInv
     DEF Settled, CtxInv, Clock, Return, Frames, Naps, Gates

\* A frame in hand is recent enough for any command it leads to.
LEMMA FrameIsRecent ==
  ASSUME CtxInv, UNCHANGED ksVars, pc \in {"judge", "pjudge"} PROVE Timely
  BY DEF Timely, Lately, CtxInv, Clock, StopLag, VerdictLag, Frames, ksVars,
         KSInv, KSTypeOK, Permitted

LEMMA JudgementsKeepClock ==
  ASSUME CtxInv,
         \/ JudgeAny \/ JudgeVerify \/ ActOnScreen \/ AnchorMissing \/ JudgeWait
         \/ PanicClimbs \/ PanicRestarts \/ PanicWaits \/ PanicGivesUp
  PROVE  CtxInv' /\ Timely
  <1>1. UNCHANGED ksVars /\ pc \in {"judge", "pjudge"}
    BY DEF JudgeAny, JudgeVerify, ActOnScreen, AnchorMissing, JudgeWait,
           PanicClimbs, PanicRestarts, PanicWaits, PanicGivesUp
  <1>2. Settled
    <2> USE DEF Settled, Gates, CtxInv, Clock, EnterPanic, GoTo
    <2>1. CASE JudgeAny
      BY <2>1 DEF JudgeAny
    <2>2. CASE JudgeVerify
      BY <2>2 DEF JudgeVerify
    <2>3. CASE ActOnScreen
      BY <2>3 DEF ActOnScreen
    <2>4. CASE AnchorMissing
      BY <2>4 DEF AnchorMissing
    <2>5. CASE JudgeWait
      BY <2>5 DEF JudgeWait
    <2>6. CASE PanicClimbs
      BY <2>6 DEF PanicClimbs
    <2>7. CASE PanicRestarts
      BY <2>7 DEF PanicRestarts
    <2>8. CASE PanicWaits
      BY <2>8 DEF PanicWaits
    <2>9. CASE PanicGivesUp
      BY <2>9 DEF PanicGivesUp
    <2> QED BY <2>1, <2>2, <2>3, <2>4, <2>5, <2>6, <2>7, <2>8, <2>9
  <1> QED BY <1>1, <1>2, SettledKeepsClock, FrameIsRecent

\* verifyScreen's second frame starts from the age of the route's last one.
LEMMA PanicRecoversKeepsClock == CtxInv /\ PanicRecovers => CtxInv' /\ Timely
  <1> SUFFICES ASSUME CtxInv, PanicRecovers PROVE CtxInv' /\ Timely
    OBVIOUS
  <1>1. UNCHANGED ksVars /\ pc = "pjudge"
    BY DEF PanicRecovers
  <1>2. CASE call.op \in Verifies
    <2>1. pc' = "frame" /\ busy' = 0
      BY <1>2 DEF PanicRecovers, Verifies
    <2>2. Lately(VerdictLag + NapMax + FrameMax)'
      BY <1>1 DEF CtxInv, Clock, Lately, VerdictLag, Frames, ksVars, KSInv,
                  KSTypeOK, Permitted
    <2>3. KSInv' BY <1>1, StutterKeepsKSInv DEF CtxInv
    <2> QED BY <1>1, <2>1, <2>2, <2>3, FrameIsRecent
            DEF CtxInv, Clock, Frames, Naps, VerdictLag
  <1>3. CASE call.op \notin Verifies
    <2>1. Settled
      BY <1>3 DEF PanicRecovers, Settled, Verifies
    <2> QED BY <1>1, <2>1, SettledKeepsClock, FrameIsRecent
  <1> QED BY <1>2, <1>3

LEMMA NavigateKeepsClock == CtxInv /\ Navigate => CtxInv' /\ Timely
  <1> SUFFICES ASSUME CtxInv, Navigate PROVE CtxInv' /\ Timely
    OBVIOUS
  <1>1. UNCHANGED ksVars /\ Timely
    BY DEF Navigate, Timely, NothingTouched, NoTouch, Commands
  <1>2. pc' \in {"idle", "gate"} /\ busy' = busy
    BY DEF Navigate, NavPlans, NavAwaits, NavAdvances, NavReplans, NavFails,
           NavReturn, Follow, LookAgain, Begin
  <1> QED BY <1>1, <1>2, StutterKeepsKSInv
          DEF CtxInv, Clock, Frames, Naps

\* The operator may withdraw the permission at any point: the clock restarts.
LEMMA OperatorKeepsClock == CtxInv /\ Operator => CtxInv' /\ Timely
  <1> SUFFICES ASSUME CtxInv, Operator PROVE CtxInv' /\ Timely
    OBVIOUS
  <1>1. KSInv' /\ Timely
    BY WorldKeepsKSInv
       DEF CtxInv, Operator, Timely, NoTouch, Commands
  <1>2. UNCHANGED <<pc, busy>>
    BY DEF Operator, code
  <1>3. \E f : Become(f)
    BY Zenon DEF Operator, World, SetPauseAll, SetAccountEnabled, StoreOutage
  <1>4. ASSUME NEW n \in Nat, Lately(n) PROVE Lately(n)'
    BY <1>3, <1>4 DEF Become, Lately
  <1>5. VerdictLag \in Nat
    BY DEF VerdictLag
  <1> QED BY <1>1, <1>2, <1>4, <1>5 DEF CtxInv, Clock

LEMMA DriftKeepsClock == CtxInv /\ Drift => CtxInv' /\ Timely
  BY StutterKeepsKSInv
     DEF Drift, CtxInv, Clock, Lately, Permitted, ksVars, code, Timely, NoTouch,
         Commands

\* Every tick ages the permission and the frame or sleep in hand together.
LEMMA TickKeepsClock == CtxInv /\ Tick => CtxInv' /\ Timely
  <1> SUFFICES ASSUME CtxInv, Tick PROVE CtxInv' /\ Timely
    OBVIOUS
  <1>1. KSInv' /\ KSTypeOK /\ Timely
    BY ClockKeepsKSInv
       DEF Tick, CtxInv, KSInv, Timely, NoTouch, Commands
  <1>2. UNCHANGED pc /\ flags' = flags /\ since' \in {since, since + 1}
    BY <1>1 DEF Tick, AdvanceClocks, Saturate, KSTypeOK
  <1>3. ASSUME NEW n \in Nat, Lately(n) PROVE Lately(n + 1)'
    BY <1>1, <1>2, <1>3 DEF Lately, KSTypeOK, Permitted
  <1>4. CASE pc \in Frames \cup Naps
    BY <1>1, <1>2, <1>3, <1>4
       DEF Tick, CtxInv, Clock, Frames, Naps, VerdictLag
  <1>5. CASE pc \notin Frames \cup Naps
    BY <1>1, <1>2, <1>5 DEF Tick, CtxInv, Clock, Frames, Naps
  <1> QED BY <1>4, <1>5

\* StopsInTime for every value of the constants.
THEOREM NoLateCommand == Spec => StopsInTime
  <1>1. Init => CtxInv
    BY CtxInvInit
  <1>2. CtxInv /\ Next => CtxInv' /\ Timely
    BY TaskCallsKeepsClock, KillCheckKeepsClock, RefusedKeepsClock,
       GateOpensKeepsClock, SleepBeginsKeepsClock, SleepEndsKeepsClock,
       ScreenshotKeepsClock, AdbFailsKeepsClock, JudgementsKeepClock,
       PanicActsKeepsClock, PanicRecoversKeepsClock, NavigateKeepsClock,
       OperatorKeepsClock, DriftKeepsClock, TickKeepsClock
    DEF Next, Step
  <1>3. CtxInv /\ UNCHANGED ctxVars => CtxInv'
    BY StutterKeepsKSInv
       DEF ctxVars, ksVars, code, CtxInv, Clock, Lately, Permitted
  <1>4. Timely => (touch'.cmd \in Commands => Permitted(flags) \/ since <= StopLag)
    BY DEF Timely, Lately
  <1> QED BY <1>1, <1>2, <1>3, <1>4, PTL DEF Spec, StopsInTime

-----------------------------------------------------------------------------
(* What the newest frame shows, and what the run makes of it. *)

Asked   == Verifies \cup {"CurrentScreen", "WaitFor", "Swipe"}
InPanic == pc \in {"pgate", "pnapgate", "pnap", "pframe", "pjudge"}

Chained(path) == \A i \in 1 .. Len(path) - 1 : path[i].to = path[i + 1].from

Navs == [on: BOOLEAN, target: Screens, attempt: Nat, path: Seq(EdgeSet)]

SightType ==
    /\ shown \in Screens
    /\ seen \in Screens \cup {Unrec, NoFrame}
    /\ call.op \in Asked \cup {"Sleep", "Back"}
    /\ call.on \in Screens /\ call.to \in Screens
    /\ nav \in Navs
    /\ rung \in 0 .. Restart /\ blind \in Nat

\* Only the primitives that look at the screen take frames or panic.
Asking ==
    /\ pc \in {"frame", "judge"} \/ InPanic => call.op \in Asked
    /\ pc = "napgate" => call.op = "WaitFor"
    /\ pc = "nap" => call.op \in {"WaitFor", "Sleep"}

\* Where the code goes by the frame in hand, that frame is the newest one and
\* nothing has been touched since.
Seeing ==
    /\ pc \in {"judge", "pjudge"} => proof = seen /\ seen # NoFrame
    /\ pc = "gate" /\ call.op = "Back" => proof = call.on
    /\ pc = "nav" /\ result = "ok" /\ call.op = "CurrentScreen" =>
           proof = seen /\ seen \in Screens
    /\ pc = "nav" /\ result = "ok" /\ call.op = "WaitFor" => proof = call.on

\* What walk has left of its route starts with the edge it is on.
OnRoute ==
    /\ pc = "idle" => ~nav.on
    /\ pc = "nav" => nav.on
    /\ nav.on /\ call.op \in {"Tap", "Back", "WaitFor"} =>
           /\ nav.path # <<>> /\ Chained(nav.path)
           /\ call.to = nav.path[1].to
           /\ call.op = "WaitFor" => call.on = call.to

\* Every rung climbed has been looked at in vain.
Ladder ==
    InPanic /\ rung <= PanicBacks =>
        /\ pc # "pjudge" => blind >= rung
        /\ pc = "pgate" /\ rung > 0 => proof = Unrec
        /\ pc = "pjudge" /\ seen = Unrec => blind > rung

SightInv == SightType /\ Asking /\ Seeing /\ OnRoute /\ Ladder

\* What the three action properties say of one step.
Aimed ==
    /\ touch'.cmd \in {"Tap", "Back", "Record"} => touch'.on \in {proof, "_lost"}
    /\ touch'.cmd = "Swipe" => proof \in Screens
Gentle ==
    /\ touch'.cmd = "PanicBack" => proof = Unrec
    /\ touch'.cmd = "AppRestart" => proof = Unrec /\ blind > PanicBacks
Arrived == nav.on /\ ~nav'.on /\ result' = "ok" => proof = nav.target

Sighted == Aimed /\ Gentle /\ Arrived

LEMMA Sentinels == Unrec \notin Screens /\ NoFrame \notin Screens /\ Unrec # NoFrame
<1>1. \A s \in Screens : s \notin {Unrec, NoFrame}
  BY SentinelAssumption
<1>2. QED
  BY <1>1 DEF Unrec, NoFrame

LEMMA SightInvInit == Init => SightInv
  BY GraphAssumption
     DEF Init, SightInv, SightType, Asking, Seeing, OnRoute, Ladder, CallOf, NoNav,
         Navs, Asked, InPanic, Restart

\* A step that touches nothing proves nothing false.
LEMMA QuietIsSighted ==
    ASSUME touch'.cmd \notin Commands \cup {"Record"}, nav'.on = nav.on PROVE Sighted
  BY DEF Sighted, Aimed, Gentle, Arrived, Commands

\* Whatever a touch does to the game, it shows one of its screens.
LEMMA TouchLeaves ==
    ASSUME SightType, NEW cmd, NEW on, Touch(cmd, on)
    PROVE  /\ shown' \in Screens /\ blind' = blind /\ proof' = NoFrame
           /\ touch'.cmd = cmd /\ touch'.on = on
<1>1. ASSUME NEW s \in BackTargets(shown) PROVE s \in Screens
  <2>1. PICK i \in DOMAIN Edges : s = Edges[i].to
    BY DEF BackTargets
  <2>2. Edges[i] \in EdgeSet
    BY <2>1, GraphAssumption
  <2>3. QED
    BY <2>1, <2>2 DEF EdgeSet
<1>2. shown' \in Screens
  BY <1>1, GraphAssumption DEF Touch, Obeys, Mishap, SightType
<1>3. QED
  BY <1>2 DEF Touch

\* A primitive that returns leaves nothing to see to but its caller, who goes by
\* the frame.
LEMMA ReturnKeepsSight ==
    ASSUME SightInv, NEW r, Return(r), shown' \in Screens, blind' \in Nat,
           r = "ok" /\ call.op = "CurrentScreen" => proof' = seen /\ seen \in Screens,
           r = "ok" /\ call.op = "WaitFor" => proof' = call.on
    PROVE  SightInv' /\ nav' = nav
  BY DEF SightInv, Return, SightType, Asking, Seeing, OnRoute, Ladder, InPanic, Restart


LEMMA TaskCallsKeepsSight == SightInv /\ TaskCalls => SightInv' /\ Sighted
<1> SUFFICES ASSUME SightInv, TaskCalls PROVE SightInv' /\ Sighted
  OBVIOUS
<1>1. PICK op \in Ops, s \in Screens :
        IF op = "NavigateTo"
        THEN /\ nav' = [on |-> TRUE, target |-> s, attempt |-> 0, path |-> <<>>]
             /\ Begin(CallOf("CurrentScreen", s, s))
        ELSE /\ \E t \in IF op = "Tap" THEN Screens ELSE {s} : Begin(CallOf(op, s, t))
             /\ UNCHANGED nav
  BY DEF TaskCalls
<1>2. PICK t \in Screens, o \in Asked \cup {"Sleep"} :
        /\ Begin(CallOf(o, s, t))
        /\ ~nav'.on \/ o = "CurrentScreen"
        /\ nav.on => nav'.on
  BY <1>1 DEF TaskCalls, SightInv, OnRoute, Asked, Verifies
<1>3. pc' = "gate" /\ call' = [op |-> o, on |-> s, to |-> t, retried |-> FALSE]
      /\ result' = "none" /\ UNCHANGED <<seen, rung>>
  BY <1>2 DEF Begin, CallOf
<1>4. UNCHANGED <<shown, blind, proof>> /\ touch' = NoTouch
  BY DEF TaskCalls, NothingTouched, device
<1>5. nav' \in Navs
  <2>1. CASE op = "NavigateTo"
    <3>1. nav' = [on |-> TRUE, target |-> s, attempt |-> 0, path |-> <<>>]
      BY <1>1, <2>1
    <3>2. <<>> \in Seq(EdgeSet)
      BY EmptySeq
    <3>3. QED
      BY <3>1, <3>2 DEF Navs
  <2>2. CASE op # "NavigateTo"
    BY <1>1, <2>2 DEF SightInv, SightType
  <2>3. QED
    BY <2>1, <2>2
<1>6. SightInv'
  BY <1>2, <1>3, <1>4, <1>5
     DEF SightInv, SightType, Asking, Seeing, OnRoute, Ladder, InPanic, Asked, Verifies
<1>7. QED
  BY <1>3, <1>4, <1>6 DEF Sighted, Aimed, Gentle, Arrived, NoTouch

\* The steps that only move the switch, or the program point.
LEMMA WaitingKeepsSight ==
    SightInv /\ (KillCheck \/ SleepBegins \/ Operator) => SightInv' /\ Sighted
<1> SUFFICES ASSUME SightInv, KillCheck \/ SleepBegins \/ Operator
             PROVE  SightInv' /\ Sighted
  OBVIOUS
<1>1. UNCHANGED <<shown, call, seen, rung, nav, result, proof, blind>> /\ touch' = NoTouch
  BY DEF KillCheck, SleepBegins, Operator, code, NothingTouched, device, GoTo
<1>2. \/ pc' = pc
      \/ pc = "napgate" /\ pc' = "nap"
      \/ pc = "pnapgate" /\ pc' = "pnap"
  BY DEF KillCheck, SleepBegins, Operator, code, GoTo, Allowed
<1>3. SightInv'
  BY <1>1, <1>2
     DEF SightInv, SightType, Asking, Seeing, OnRoute, Ladder, InPanic, Asked, Verifies
<1>4. QED
  BY <1>1, <1>3, QuietIsSighted DEF NoTouch, Commands

LEMMA MishapLeaves == Mishap => shown' \in Screens
  BY DEF Mishap

\* The game and the clock move, the run stands where it stands.
LEMMA WorldKeepsSight == SightInv /\ (Drift \/ Tick) => SightInv' /\ Sighted
<1> SUFFICES ASSUME SightInv, Drift \/ Tick PROVE SightInv' /\ Sighted
  OBVIOUS
<1>1. /\ UNCHANGED <<pc, call, seen, rung, nav, result, proof, blind>> /\ touch' = NoTouch
      /\ shown' \in Screens
  BY MishapLeaves DEF Drift, Tick, code, device, SightInv, SightType
<1>2. SightInv'
  BY <1>1 DEF SightInv, SightType, Asking, Seeing, OnRoute, Ladder, InPanic
<1>3. QED
  BY <1>1, <1>2, QuietIsSighted DEF NoTouch, Commands

\* A refusal is an error, and so ends every call with one.
LEMMA RefusedKeepsSight == KSInv /\ SightInv /\ Refused => SightInv' /\ Sighted
<1> SUFFICES ASSUME KSInv, SightInv, Refused PROVE SightInv' /\ Sighted
  OBVIOUS
<1>1. Return(query.verdict) /\ NothingTouched /\ query.verdict # "ok"
  BY DEF Refused, KSInv, KSTypeOK, Verdicts, Denials
<1>2. shown' = shown /\ blind' = blind /\ touch' = NoTouch
  BY <1>1 DEF NothingTouched, device
<1>3. SightInv' /\ nav' = nav
  BY <1>1, <1>2, ReturnKeepsSight DEF SightInv, SightType
<1>4. QED
  BY <1>2, <1>3, QuietIsSighted DEF NoTouch, Commands

LEMMA AdbFailsKeepsSight == SightInv /\ (AdbFails \/ SleepCut) => SightInv' /\ Sighted
<1> SUFFICES ASSUME SightInv, AdbFails \/ SleepCut PROVE SightInv' /\ Sighted
  OBVIOUS
<1>1. /\ Return("ErrTransport") \/ Return("context.Canceled")
      /\ NothingTouched
  BY DEF AdbFails, SleepCut
<1>2. shown' = shown /\ blind' = blind /\ touch' = NoTouch
  BY <1>1 DEF NothingTouched, device
<1>3. SightInv' /\ nav' = nav
  BY <1>1, <1>2, ReturnKeepsSight DEF SightInv, SightType
<1>4. QED
  BY <1>2, <1>3, QuietIsSighted DEF NoTouch, Commands

\* A back edge is pressed on the screen the frame before it showed.
LEMMA GateOpensKeepsSight == SightInv /\ GateOpens => SightInv' /\ Sighted
<1> SUFFICES ASSUME SightInv, GateOpens PROVE SightInv' /\ Sighted
  OBVIOUS
<1>1. pc = "gate"
  BY DEF GateOpens, Allowed
<1>2. CASE call.op = "Back"
  <2>1. Touch("Back", call.on) /\ \E r \in Sent : Return(r)
    BY <1>2 DEF GateOpens
  <2>2. SightInv' /\ nav' = nav
    BY <1>2, <2>1, TouchLeaves, ReturnKeepsSight DEF SightInv, SightType
  <2>3. call.on = proof /\ touch'.cmd = "Back" /\ touch'.on = call.on
    BY <1>1, <1>2, <2>1, TouchLeaves DEF SightInv, Seeing
  <2>4. QED
    BY <2>2, <2>3 DEF Sighted, Aimed, Gentle, Arrived
<1>3. CASE call.op # "Back"
  <2>1. /\ NothingTouched
        /\ \/ call.op = "Sleep" /\ GoTo("nap")
           \/ call.op # "Sleep" /\ GoTo("frame")
    BY <1>3 DEF GateOpens
  <2>2. /\ UNCHANGED <<shown, call, seen, rung, nav, result, proof, blind>> /\ touch' = NoTouch
        /\ \/ call.op = "Sleep" /\ pc' = "nap"
           \/ call.op \in Asked /\ pc' = "frame"
    BY <1>3, <2>1 DEF NothingTouched, device, GoTo, SightInv, SightType
  <2>3. SightInv'
    BY <2>2 DEF SightInv, SightType, Asking, Seeing, OnRoute, Ladder, InPanic, Asked, Verifies
  <2>4. QED
    BY <2>2, <2>3, QuietIsSighted DEF NoTouch, Commands
<1>4. QED
  BY <1>2, <1>3

LEMMA SleepEndsKeepsSight == SightInv /\ SleepEnds => SightInv' /\ Sighted
<1> SUFFICES ASSUME SightInv, SleepEnds PROVE SightInv' /\ Sighted
  OBVIOUS
<1>1. UNCHANGED <<shown, proof, blind>> /\ touch' = NoTouch
  BY DEF SleepEnds, NothingTouched, device
<1>2. CASE call.op = "Sleep" /\ Return("ok")
  <2>1. SightInv' /\ nav' = nav
    BY <1>1, <1>2, ReturnKeepsSight DEF SightInv, SightType
  <2>2. QED
    BY <1>1, <2>1, QuietIsSighted DEF NoTouch, Commands
<1>3. CASE \/ pc = "pnap" /\ GoTo("pframe")
           \/ pc = "nap" /\ call.op # "Sleep" /\ GoTo("gate")
  <2>1. /\ UNCHANGED <<call, seen, rung, nav, result>>
        /\ \/ pc = "pnap" /\ pc' = "pframe"
           \/ pc = "nap" /\ call.op = "WaitFor" /\ pc' = "gate"
    BY <1>3 DEF GoTo, SightInv, Asking
  <2>2. SightInv'
    BY <1>1, <2>1
       DEF SightInv, SightType, Asking, Seeing, OnRoute, Ladder, InPanic, Asked, Verifies
  <2>3. QED
    BY <1>1, <2>1, <2>2, QuietIsSighted DEF NoTouch, Commands
<1>4. pc = "pnap" => call.op # "Sleep"
  BY DEF SightInv, Asking, InPanic, Asked, Verifies
<1>5. pc \in {"nap", "pnap"}
  BY DEF SleepEnds, Naps
<1>6. CASE pc = "pnap"
  BY <1>3, <1>4, <1>6 DEF SleepEnds
<1>7. CASE pc = "nap"
  BY <1>2, <1>3, <1>7 DEF SleepEnds
<1>8. QED
  BY <1>5, <1>6, <1>7

LEMMA ScreenshotKeepsSight == SightInv /\ Screenshot => SightInv' /\ Sighted
<1> SUFFICES ASSUME SightInv, Screenshot PROVE SightInv' /\ Sighted
  OBVIOUS
<1>1. /\ UNCHANGED <<shown, call, rung, nav, result>> /\ touch' = NoTouch
      /\ seen' = Display /\ proof' = Display
      /\ blind' = IF pc = "pframe" /\ Display = Unrec
                  THEN Saturate(blind + 1, PanicBacks + 1) ELSE 0
      /\ \/ pc = "frame" /\ pc' = "judge"
         \/ pc = "pframe" /\ pc' = "pjudge"
  BY DEF Screenshot, device
<1>2. Display \in Screens \cup {Unrec} /\ Display # NoFrame
  BY Sentinels DEF Display, SightInv, SightType
<1>3. blind' \in Nat
  BY <1>1 DEF SightInv, SightType, Saturate
<1>4. SightType' /\ Asking' /\ Seeing' /\ OnRoute'
  BY <1>1, <1>2, <1>3 DEF SightInv, SightType, Asking, Seeing, OnRoute, InPanic
<1>5. Ladder'
  BY <1>1, <1>2 DEF SightInv, SightType, Ladder, InPanic, Saturate, Restart
<1>6. QED
  BY <1>1, <1>4, <1>5, QuietIsSighted DEF NoTouch, Commands, SightInv

LEMMA EnterPanicKeepsSight ==
    ASSUME SightInv, pc = "judge", EnterPanic, UNCHANGED <<shown, proof, blind>>
    PROVE  SightInv' /\ nav' = nav
  BY DEF EnterPanic, SightInv, SightType, Asking, Seeing, OnRoute, Ladder, InPanic, Restart

LEMMA JudgeAnyKeepsSight == SightInv /\ JudgeAny => SightInv' /\ Sighted
<1> SUFFICES ASSUME SightInv, JudgeAny PROVE SightInv' /\ Sighted
  OBVIOUS
<1>1. pc = "judge" /\ proof = seen /\ seen \in Screens \cup {Unrec}
  BY DEF JudgeAny, SightInv, SightType, Seeing
<1>2. CASE EnterPanic /\ NothingTouched
  <2>1. UNCHANGED <<shown, proof, blind>> /\ touch' = NoTouch
    BY <1>2 DEF NothingTouched, device
  <2>2. QED
    BY <1>1, <1>2, <2>1, EnterPanicKeepsSight, QuietIsSighted DEF NoTouch, Commands
<1>3. CASE call.op = "Swipe" /\ seen # Unrec /\ Touch("Swipe", seen) /\ \E r \in Sent : Return(r)
  <2>1. SightInv' /\ nav' = nav
    BY <1>3, TouchLeaves, ReturnKeepsSight DEF SightInv, SightType
  <2>2. touch'.cmd = "Swipe" /\ proof \in Screens
    BY <1>1, <1>3, TouchLeaves DEF SightInv
  <2>3. QED
    BY <2>1, <2>2 DEF Sighted, Aimed, Gentle, Arrived
<1>4. CASE call.op = "CurrentScreen" /\ seen # Unrec /\ NothingTouched /\ Return("ok")
  <2>1. UNCHANGED <<shown, proof, blind>> /\ touch' = NoTouch
    BY <1>4 DEF NothingTouched, device
  <2>2. SightInv' /\ nav' = nav
    BY <1>1, <1>4, <2>1, ReturnKeepsSight DEF SightInv, SightType
  <2>3. QED
    BY <2>1, <2>2, QuietIsSighted DEF NoTouch, Commands
<1>5. QED
  BY <1>2, <1>3, <1>4 DEF JudgeAny

\* verifyScreen acts on the screen it was asked for and on no other.
LEMMA VerifyKeepsSight ==
    SightInv /\ (JudgeVerify \/ ActOnScreen \/ AnchorMissing) => SightInv' /\ Sighted
<1> SUFFICES ASSUME SightInv, JudgeVerify \/ ActOnScreen \/ AnchorMissing
             PROVE  SightInv' /\ Sighted
  OBVIOUS
<1>1. pc = "judge" /\ proof = seen
  BY DEF JudgeVerify, ActOnScreen, AnchorMissing, SightInv, Seeing
<1>2. call.op \in Verifies
  BY DEF JudgeVerify, ActOnScreen, AnchorMissing, Verifies
<1>3. ASSUME NEW r, Return(r), shown' \in Screens, blind' \in Nat PROVE SightInv' /\ nav' = nav
  BY <1>2, <1>3, ReturnKeepsSight DEF Verifies
<1>4. shown \in Screens /\ blind \in Nat
  BY DEF SightInv, SightType
<1>5. CASE JudgeVerify
  <2>1. UNCHANGED <<shown, proof, blind>> /\ touch' = NoTouch
    BY <1>5 DEF JudgeVerify, NothingTouched, device
  <2>2. EnterPanic \/ \E r : Return(r)
    BY <1>5 DEF JudgeVerify
  <2>3. SightInv' /\ nav' = nav
    BY <1>1, <1>3, <1>4, <2>1, <2>2, EnterPanicKeepsSight
  <2>4. QED
    BY <2>1, <2>3, QuietIsSighted DEF NoTouch, Commands
<1>6. CASE ActOnScreen
  <2>1. seen = call.on
    BY <1>6 DEF ActOnScreen
  <2>2. CASE call.op = "Tap"
    <3>1. Touch("Tap", call.on) /\ \E r : Return(r)
      BY <1>6, <2>2 DEF ActOnScreen
    <3>2. SightInv' /\ nav' = nav
      BY <1>3, <1>4, <3>1, TouchLeaves DEF SightInv
    <3>3. touch'.cmd = "Tap" /\ touch'.on = proof
      BY <1>1, <2>1, <3>1, TouchLeaves DEF SightInv
    <3>4. QED
      BY <3>2, <3>3 DEF Sighted, Aimed, Gentle, Arrived
  <2>3. CASE call.op = "Capture"
    <3>1. touch' = [cmd |-> "Record", on |-> call.on] /\ UNCHANGED <<shown, blind>> /\ \E r : Return(r)
      BY <1>6, <2>3 DEF ActOnScreen, device
    <3>2. SightInv' /\ nav' = nav
      BY <1>3, <1>4, <3>1
    <3>3. QED
      BY <1>1, <2>1, <3>1, <3>2 DEF Sighted, Aimed, Gentle, Arrived
  <2>4. CASE call.op \notin {"Tap", "Capture"}
    <3>1. NothingTouched /\ \E r : Return(r)
      BY <1>6, <2>4 DEF ActOnScreen
    <3>2. UNCHANGED <<shown, blind>> /\ touch' = NoTouch
      BY <3>1 DEF NothingTouched, device
    <3>3. SightInv' /\ nav' = nav
      BY <1>3, <1>4, <3>1, <3>2
    <3>4. QED
      BY <3>2, <3>3, QuietIsSighted DEF NoTouch, Commands
  <2>5. QED
    BY <2>2, <2>3, <2>4
<1>7. CASE AnchorMissing
  <2>1. UNCHANGED <<shown, blind>> /\ touch' = NoTouch /\ \E r : Return(r)
    BY <1>7 DEF AnchorMissing
  <2>2. SightInv' /\ nav' = nav
    BY <1>3, <1>4, <2>1
  <2>3. QED
    BY <2>1, <2>2, QuietIsSighted DEF NoTouch, Commands
<1>8. QED
  BY <1>5, <1>6, <1>7

LEMMA JudgeWaitKeepsSight == SightInv /\ JudgeWait => SightInv' /\ Sighted
<1> SUFFICES ASSUME SightInv, JudgeWait PROVE SightInv' /\ Sighted
  OBVIOUS
<1>1. pc = "judge" /\ proof = seen /\ call.op = "WaitFor"
  BY DEF JudgeWait, SightInv, Seeing
<1>2. UNCHANGED <<shown, proof, blind>> /\ touch' = NoTouch
  BY DEF JudgeWait, NothingTouched, device
<1>3. \/ seen = call.on /\ Return("ok")
      \/ Return("ErrWrongScreen")
      \/ EnterPanic
      \/ pc' = "napgate" /\ UNCHANGED <<call, seen, rung, nav, result>>
  BY DEF JudgeWait
<1>4. CASE pc' = "napgate" /\ UNCHANGED <<call, seen, rung, nav, result>>
  <2>1. SightInv'
    BY <1>1, <1>2, <1>4
       DEF SightInv, SightType, Asking, Seeing, OnRoute, Ladder, InPanic, Asked, Verifies
  <2>2. QED
    BY <1>2, <1>4, <2>1, QuietIsSighted DEF NoTouch, Commands
<1>5. CASE (seen = call.on /\ Return("ok")) \/ Return("ErrWrongScreen")
  <2>1. SightInv' /\ nav' = nav
    BY <1>1, <1>2, <1>5, ReturnKeepsSight DEF SightInv, SightType
  <2>2. QED
    BY <1>2, <2>1, QuietIsSighted DEF NoTouch, Commands
<1>6. CASE EnterPanic
  BY <1>1, <1>2, <1>6, EnterPanicKeepsSight, QuietIsSighted DEF NoTouch, Commands
<1>7. QED
  BY <1>3, <1>4, <1>5, <1>6

\* A back press of the route follows a frame nobody recognized.
LEMMA PanicActsKeepsSight == SightInv /\ PanicActs => SightInv' /\ Sighted
<1> SUFFICES ASSUME SightInv, PanicActs PROVE SightInv' /\ Sighted
  OBVIOUS
<1>1. pc = "pgate" /\ call.op \in Asked
  BY DEF PanicActs, Allowed, SightInv, Asking, InPanic
<1>2. ASSUME GoTo("pnapgate"), shown' \in Screens, blind' = blind PROVE SightInv' /\ nav' = nav
  BY <1>1, <1>2
     DEF GoTo, SightInv, SightType, Asking, Seeing, OnRoute, Ladder, InPanic
<1>3. CASE rung = Restart
  <2>1. GoTo("pnapgate") /\ NothingTouched
    BY <1>3 DEF PanicActs
  <2>2. UNCHANGED <<shown, blind>> /\ touch' = NoTouch
    BY <2>1 DEF NothingTouched, device
  <2>3. SightInv' /\ nav' = nav
    BY <1>2, <2>1, <2>2 DEF SightInv, SightType
  <2>4. QED
    BY <2>2, <2>3, QuietIsSighted DEF NoTouch, Commands
<1>4. CASE rung # Restart
  <2>1. PICK cmd \in {"Wake", "PanicBack"} :
          /\ Touch(cmd, NoFrame)
          /\ cmd = "PanicBack" => rung > 0
          /\ GoTo("pnapgate") \/ Return("ErrTransport")
    BY <1>4 DEF PanicActs, SightInv, SightType
  <2>2. shown' \in Screens /\ blind' = blind /\ touch'.cmd = cmd
    BY <2>1, TouchLeaves DEF SightInv
  <2>3. SightInv' /\ nav' = nav
    BY <1>2, <2>1, <2>2, ReturnKeepsSight DEF SightInv, SightType
  <2>4. rung <= PanicBacks
    BY <1>4 DEF SightInv, SightType, Restart
  <2>5. QED
    BY <1>1, <2>1, <2>2, <2>3, <2>4
       DEF Sighted, Aimed, Gentle, Arrived, SightInv, Ladder, InPanic
<1>5. QED
  BY <1>3, <1>4

LEMMA PanicClimbsKeepsSight == SightInv /\ (PanicClimbs \/ PanicWaits) => SightInv' /\ Sighted
<1> SUFFICES ASSUME SightInv, PanicClimbs \/ PanicWaits PROVE SightInv' /\ Sighted
  OBVIOUS
<1>1. UNCHANGED <<shown, proof, blind, call, seen, nav, result>> /\ touch' = NoTouch
      /\ pc = "pjudge" /\ pc' = "pgate"
      /\ \/ seen = Unrec /\ rung < PanicBacks /\ rung' = rung + 1
         \/ rung = Restart /\ rung' = rung
  BY DEF PanicClimbs, PanicWaits, GoTo, NothingTouched, device
<1>2. SightInv'
  BY <1>1 DEF SightInv, SightType, Asking, Seeing, OnRoute, Ladder, InPanic, Restart
<1>3. QED
  BY <1>1, <1>2, QuietIsSighted DEF NoTouch, Commands

\* The restart comes after every other rung.
LEMMA PanicRestartsKeepsSight == SightInv /\ PanicRestarts => SightInv' /\ Sighted
<1> SUFFICES ASSUME SightInv, PanicRestarts PROVE SightInv' /\ Sighted
  OBVIOUS
<1>1. pc = "pjudge" /\ seen = Unrec /\ rung = PanicBacks /\ Touch("AppRestart", NoFrame)
  BY DEF PanicRestarts
<1>2. shown' \in Screens /\ blind' = blind /\ touch'.cmd = "AppRestart"
  BY <1>1, TouchLeaves DEF SightInv
<1>3. proof = Unrec /\ blind > PanicBacks /\ call.op \in Asked
  BY <1>1 DEF SightInv, Seeing, Ladder, InPanic, Asking
<1>4. SightInv' /\ nav' = nav
  <2>1. CASE Return("ErrTransport")
    BY <1>2, <2>1, ReturnKeepsSight DEF SightInv, SightType
  <2>2. CASE pc' = "pgate" /\ rung' = Restart /\ UNCHANGED <<call, seen, nav, result>>
    BY <1>1, <1>2, <1>3, <2>2
       DEF SightInv, SightType, Asking, Seeing, OnRoute, Ladder, InPanic, Restart
  <2>3. QED
    BY <2>1, <2>2 DEF PanicRestarts
<1>5. QED
  BY <1>2, <1>3, <1>4 DEF Sighted, Aimed, Gentle, Arrived

LEMMA PanicGivesUpKeepsSight == SightInv /\ PanicGivesUp => SightInv' /\ Sighted
<1> SUFFICES ASSUME SightInv, PanicGivesUp PROVE SightInv' /\ Sighted
  OBVIOUS
<1>1. Return("ErrLost") /\ shown' = shown /\ blind' = blind
      /\ touch' = [cmd |-> "Record", on |-> "_lost"]
  BY DEF PanicGivesUp, device
<1>2. SightInv' /\ nav' = nav
  BY <1>1, ReturnKeepsSight DEF SightInv, SightType
<1>3. QED
  BY <1>1, <1>2 DEF Sighted, Aimed, Gentle, Arrived

LEMMA PanicRecoversKeepsSight == SightInv /\ PanicRecovers => SightInv' /\ Sighted
<1> SUFFICES ASSUME SightInv, PanicRecovers PROVE SightInv' /\ Sighted
  OBVIOUS
<1>1. pc = "pjudge" /\ proof = seen /\ seen \in Screens /\ call.op \in Asked
  BY GraphAssumption
     DEF PanicRecovers, SightInv, SightType, Seeing, Asking, InPanic
<1>2. CASE call.op = "Swipe"
  <2>1. Touch("Swipe", seen) /\ \E r \in Sent : Return(r)
    BY <1>2 DEF PanicRecovers, Verifies
  <2>2. SightInv' /\ nav' = nav
    BY <1>2, <2>1, TouchLeaves, ReturnKeepsSight DEF SightInv, SightType
  <2>3. touch'.cmd = "Swipe"
    BY <2>1, TouchLeaves DEF SightInv
  <2>4. QED
    BY <1>1, <2>2, <2>3 DEF Sighted, Aimed, Gentle, Arrived
<1>3. CASE call.op # "Swipe"
  <2>1. NothingTouched
        /\ \/ /\ pc' = "frame" /\ call' = [call EXCEPT !.retried = TRUE] /\ rung' = 0
              /\ UNCHANGED <<seen, nav, result>>
           \/ call.op = "CurrentScreen" /\ Return("ok")
           \/ call.op = "WaitFor" /\ seen = call.on /\ Return("ok")
           \/ call.op = "WaitFor" /\ Return("ErrWrongScreen")
    BY <1>1, <1>3 DEF PanicRecovers, Asked, Verifies
  <2>2. UNCHANGED <<shown, proof, blind>> /\ touch' = NoTouch
    BY <2>1 DEF NothingTouched, device
  <2>3. CASE /\ pc' = "frame" /\ call' = [call EXCEPT !.retried = TRUE] /\ rung' = 0
             /\ UNCHANGED <<seen, nav, result>>
    <3>1. call'.op = call.op /\ call'.on = call.on /\ call'.to = call.to
      BY <2>3
    <3>2. SightInv'
      BY <1>1, <2>2, <2>3, <3>1
         DEF SightInv, SightType, Asking, Seeing, OnRoute, Ladder, InPanic, Restart
    <3>3. QED
      BY <2>2, <2>3, <3>2, QuietIsSighted DEF NoTouch, Commands
  <2>4. CASE \/ call.op = "CurrentScreen" /\ Return("ok")
             \/ call.op = "WaitFor" /\ seen = call.on /\ Return("ok")
             \/ call.op = "WaitFor" /\ Return("ErrWrongScreen")
    <3>1. SightInv' /\ nav' = nav
      BY <1>1, <2>2, <2>4, ReturnKeepsSight DEF SightInv, SightType
    <3>2. QED
      BY <2>2, <3>1, QuietIsSighted DEF NoTouch, Commands
  <2>5. QED
    BY <2>1, <2>3, <2>4
<1>4. QED
  BY <1>2, <1>3

\* What Path may answer, and what walk has left of it after an edge.
LEMMA RoutesAreChained ==
    ASSUME NEW f, NEW t, NEW route \in ShortestRoutes(f, t)
    PROVE  /\ route \in Seq(EdgeSet) /\ route # <<>> /\ Chained(route)
           /\ route[1].from = f
<1>1. PICK n \in 1 .. Len(Edges) : route \in [1 .. n -> {Edges[i] : i \in DOMAIN Edges}]
  BY DEF ShortestRoutes
<1>2. \A i \in DOMAIN Edges : Edges[i] \in EdgeSet
  BY GraphAssumption
<1>3. n \in Nat /\ \A i \in 1 .. n : route[i] \in EdgeSet
  BY <1>1, <1>2, GraphAssumption
<1>4. route \in [1 .. n -> EdgeSet]
  BY <1>1, <1>3
<1>5. route \in Seq(EdgeSet)
  BY <1>3, <1>4
<1>6. IsRoute(route, f, t)
  BY DEF ShortestRoutes
<1>7. QED
  BY <1>5, <1>6 DEF IsRoute, Chained

LEMMA RestOfARoute ==
    ASSUME NEW path \in Seq(EdgeSet), Chained(path), Len(path) > 1
    PROVE  /\ Tail(path) \in Seq(EdgeSet) /\ Tail(path) # <<>> /\ Chained(Tail(path))
           /\ Tail(path)[1] = path[2] /\ path[1].to = path[2].from
<1>1. path # <<>>
  OBVIOUS
<1>2. /\ Tail(path) \in Seq(EdgeSet) /\ Len(Tail(path)) = Len(path) - 1
      /\ \A i \in 1 .. Len(Tail(path)) : Tail(path)[i] = path[i + 1]
  BY <1>1, HeadTailProperties
<1>3. Tail(path) # <<>>
  <2>1. Len(<<>>) = 0
    OBVIOUS
  <2>2. Len(Tail(path)) # 0
    <3>1. ASSUME NEW n \in Nat, n > 1, NEW m, m = n - 1 PROVE m # 0
      BY <3>1
    <3>2. QED
      BY <1>2, <3>1
  <2>3. QED
    BY <2>1, <2>2, Zenon
<1>4. Chained(Tail(path))
  BY <1>2 DEF Chained
<1>5. QED
  BY <1>2, <1>3, <1>4 DEF Chained

\* walk sets out on an edge from the screen it has just seen.
LEMMA FollowKeepsSight ==
    ASSUME SightInv, pc = "nav", NEW path \in Seq(EdgeSet), path # <<>>, Chained(path),
           path[1].from = proof, Follow(path), UNCHANGED <<shown, proof, blind>>
    PROVE  SightInv' /\ nav'.on = nav.on
<1>1. Head(path) = path[1] /\ path[1] \in EdgeSet
  OBVIOUS
<1>2. path[1].from \in Screens /\ path[1].to \in Screens
  BY <1>1 DEF EdgeSet
<1>3. PICK op \in {"Tap", "Back"} : Begin(CallOf(op, path[1].from, path[1].to))
  BY <1>1 DEF Follow
<1>4. /\ pc' = "gate" /\ UNCHANGED <<seen, rung>> /\ call'.op = op
      /\ call'.on = path[1].from /\ call'.to = path[1].to
  BY <1>3 DEF Begin, CallOf
<1>5. nav'.path = path /\ nav'.on = nav.on
  <2>1. nav' = [nav EXCEPT !.path = path]
    BY DEF Follow
  <2>2. QED
    BY <2>1 DEF SightInv, SightType, Navs
<1>6. nav' \in Navs
  BY DEF Follow, SightInv, SightType, Navs
<1>7. QED
  BY <1>2, <1>3, <1>4, <1>5, <1>6
     DEF SightInv, SightType, Asking, Seeing, OnRoute, Ladder, InPanic, Asked, Verifies

LEMMA NavigateKeepsSight == SightInv /\ Navigate => SightInv' /\ Sighted
<1> SUFFICES ASSUME SightInv, Navigate PROVE SightInv' /\ Sighted
  OBVIOUS
<1>1. pc = "nav" /\ UNCHANGED <<shown, proof, blind>> /\ touch' = NoTouch
  BY DEF Navigate, NothingTouched, device
<1>2. Aimed /\ Gentle
  BY <1>1 DEF Aimed, Gentle, NoTouch
<1>3. NoNav \in Navs
  BY GraphAssumption, EmptySeq DEF NoNav, Navs
<1>4. ASSUME NEW r, NavReturn(r) PROVE SightInv'
  BY <1>1, <1>3, <1>4
     DEF NavReturn, NoNav, SightInv, SightType, Asking, Seeing, OnRoute, Ladder, InPanic
<1>5. ASSUME NEW s \in Screens, NEW op \in {"CurrentScreen", "WaitFor"},
             Begin(CallOf(op, s, s)), nav' \in Navs,
             nav'.on /\ op = "WaitFor" =>
                 nav'.path # <<>> /\ Chained(nav'.path) /\ s = nav'.path[1].to
      PROVE  SightInv'
  <2>1. pc' = "gate" /\ UNCHANGED <<seen, rung>>
        /\ call' = [op |-> op, on |-> s, to |-> s, retried |-> FALSE]
    BY <1>5 DEF Begin, CallOf
  <2>2. QED
    BY <1>1, <1>5, <2>1
       DEF SightInv, SightType, Asking, Seeing, OnRoute, Ladder, InPanic, Asked, Verifies
<1>6. LookAgain => SightInv' /\ nav'.on = nav.on
  <2> SUFFICES ASSUME LookAgain PROVE SightInv' /\ nav'.on = nav.on
    OBVIOUS
  <2>1. nav' = [nav EXCEPT !.attempt = @ + 1, !.path = <<>>] /\ nav \in Navs
    BY DEF LookAgain, SightInv, SightType
  <2>2. nav' \in Navs /\ nav'.on = nav.on /\ nav.target \in Screens
    <3>1. <<>> \in Seq(EdgeSet)
      BY EmptySeq
    <3>2. nav.attempt + 1 \in Nat /\ nav.target \in Screens
      BY <2>1 DEF Navs
    <3>3. /\ DOMAIN nav = {"on", "target", "attempt", "path"}
          /\ nav = [on |-> nav.on, target |-> nav.target,
                    attempt |-> nav.attempt, path |-> nav.path]
      BY <2>1 DEF Navs
    <3>4. nav' = [on |-> nav.on, target |-> nav.target,
                  attempt |-> nav.attempt + 1, path |-> <<>>]
      BY <2>1, <3>3
    <3>5. nav.on \in BOOLEAN
      BY <2>1 DEF Navs
    <3>6. QED
      BY <3>1, <3>2, <3>4, <3>5 DEF Navs
  <2>3. Begin(CallOf("CurrentScreen", nav.target, nav.target))
    BY DEF LookAgain
  <2>4. QED
    BY <1>5, <2>2, <2>3
<1>7. CASE NavPlans
  <2>1. result = "ok" /\ call.op = "CurrentScreen" /\ proof = seen
    BY <1>1, <1>7 DEF NavPlans, SightInv, Seeing
  <2>2. CASE seen = nav.target /\ NavReturn("ok")
    BY <1>2, <1>4, <2>1, <2>2 DEF Sighted, Arrived
  <2>3. CASE NavReturn("ErrReplans") \/ NavReturn("ErrNoPath")
    BY <1>2, <1>4, <2>3 DEF Sighted, Arrived, NavReturn
  <2>4. CASE \E route \in ShortestRoutes(seen, nav.target) : Follow(route)
    <3>1. PICK route \in ShortestRoutes(seen, nav.target) : Follow(route)
      BY <2>4
    <3>2. /\ route \in Seq(EdgeSet) /\ route # <<>> /\ Chained(route)
          /\ route[1].from = proof
      BY <2>1, RoutesAreChained
    <3>3. SightInv' /\ nav'.on = nav.on
      BY <1>1, <3>1, <3>2, FollowKeepsSight
    <3>4. QED
      BY <1>2, <3>3 DEF Sighted, Arrived
  <2>5. QED
    BY <1>7, <2>2, <2>3, <2>4 DEF NavPlans
<1>8. CASE NavAwaits
  <2>1. Begin(CallOf("WaitFor", call.to, call.to)) /\ nav' = nav /\ call.op \in {"Tap", "Back"}
    BY <1>8 DEF NavAwaits
  <2>2. SightInv'
    BY <1>5, <2>1 DEF SightInv, SightType, OnRoute
  <2>3. Arrived
    BY <2>1 DEF Arrived
  <2>4. QED
    BY <1>2, <2>2, <2>3 DEF Sighted
<1>9. CASE NavAdvances
  <2>1. CASE Len(nav.path) > 1 /\ Follow(Tail(nav.path))
    <3>1. /\ nav.path \in Seq(EdgeSet) /\ Chained(nav.path)
          /\ proof = nav.path[1].to
      BY <1>1, <1>9, <2>1 DEF NavAdvances, SightInv, SightType, Navs, OnRoute, Seeing
    <3>2. /\ Tail(nav.path) \in Seq(EdgeSet) /\ Tail(nav.path) # <<>> /\ Chained(Tail(nav.path))
          /\ Tail(nav.path)[1].from = proof
      BY <2>1, <3>1, RestOfARoute
    <3>3. SightInv' /\ nav'.on = nav.on
      BY <1>1, <2>1, <3>2, FollowKeepsSight
    <3>4. QED
      BY <1>2, <3>3 DEF Sighted, Arrived
  <2>2. CASE LookAgain
    BY <1>2, <1>6, <2>2 DEF Sighted, Arrived
  <2>3. QED
    BY <1>9, <2>1, <2>2 DEF NavAdvances
<1>10. CASE NavReplans
  BY <1>2, <1>6, <1>10 DEF NavReplans, Sighted, Arrived
<1>11. CASE NavFails
  BY <1>2, <1>4, <1>11 DEF NavFails, NavReturn, Sighted, Arrived
<1>12. QED
  BY <1>7, <1>8, <1>9, <1>10, <1>11 DEF Navigate

LEMMA StepsKeepSight == KSInv /\ SightInv /\ Next => SightInv' /\ Sighted
  BY TaskCallsKeepsSight, WaitingKeepsSight, WorldKeepsSight, RefusedKeepsSight,
     AdbFailsKeepsSight, GateOpensKeepsSight, SleepEndsKeepsSight,
     ScreenshotKeepsSight, JudgeAnyKeepsSight, VerifyKeepsSight,
     JudgeWaitKeepsSight, PanicActsKeepsSight, PanicClimbsKeepsSight,
     PanicRestartsKeepsSight, PanicGivesUpKeepsSight, PanicRecoversKeepsSight,
     NavigateKeepsSight
  DEF Next, Step

LEMMA StutterKeepsSight == SightInv /\ UNCHANGED ctxVars => SightInv'
  BY DEF ctxVars, device, code, history, SightInv, SightType, Asking, Seeing,
         OnRoute, Ladder, InPanic

\* The cache and the queries keep what they promise in the composed program too.
LEMMA VerdictsStayTrue == Spec => []KSInv
<1>1. Init => KSInv
  BY KSInvInit DEF Init
<1>2. KSInv /\ Next => KSInv'
  BY WorldKeepsKSInv, CheckKeepsKSInv, ConsumeKeepsKSInv, ClockKeepsKSInv,
     StutterKeepsKSInv
  DEF Next, Step, TaskCalls, KillCheck, Refused, GateOpens, Allowed, SleepBegins,
      SleepEnds, SleepCut, Screenshot, AdbFails, JudgeAny, JudgeVerify, ActOnScreen,
      AnchorMissing, JudgeWait, PanicActs, PanicClimbs, PanicRestarts, PanicWaits,
      PanicGivesUp, PanicRecovers, Navigate, Operator, Drift, Tick
<1>3. KSInv /\ UNCHANGED ctxVars => KSInv'
  BY StutterKeepsKSInv DEF ctxVars
<1>4. QED
  BY <1>1, <1>2, <1>3, PTL DEF Spec

\* Every behaviour keeps SightInv, and each of its steps is Sighted.
LEMMA SightHolds == Spec => []SightInv /\ [][Sighted]_ctxVars
<1>1. KSInv /\ SightInv /\ [Next]_ctxVars => SightInv'
  BY StepsKeepSight, StutterKeepsSight
<1>2. KSInv /\ SightInv /\ [Next]_ctxVars => [Sighted]_ctxVars
  BY StepsKeepSight
<1>3. QED
  BY <1>1, <1>2, SightInvInit, VerdictsStayTrue, PTL DEF Spec

\* No touch is blind, for any graph and any game: a tap or a back edge falls on
\* the very screen the newest frame shows, a swipe on a recognized one, and a
\* stored frame is filed under the screen it shows (verifyScreen, walk,
\* recognizeOrRecover, CaptureScreen).
THEOREM TouchesFollowFrames == Spec => TouchesAreProven
<1>1. Sighted => /\ touch'.cmd \in {"Tap", "Back", "Record"} => touch'.on \in {proof, "_lost"}
                 /\ touch'.cmd = "Swipe" => proof \in Screens
  BY DEF Sighted, Aimed
<1>2. QED
  BY <1>1, SightHolds, PTL DEF TouchesAreProven

\* panicRoute restarts the app only after PanicBacks + 1 frames in a row that
\* nothing recognized, each newer than the command before it, however many back
\* presses it is given and wherever the primitives call it from.
THEOREM RestartComesLast == Spec => RestartIsLastResort
<1>1. Sighted => /\ touch'.cmd = "PanicBack" => proof = Unrec
                 /\ touch'.cmd = "AppRestart" => proof = Unrec /\ blind > PanicBacks
  BY DEF Sighted, Gentle
<1>2. QED
  BY <1>1, SightHolds, PTL DEF RestartIsLastResort

\* NavigateTo never reports an arrival it has not just seen, for any graph, any
\* re-plan budget and any misbehaviour of the game along the way.
THEOREM ArrivalIsSeen == Spec => NavArrives
<1>1. Sighted => (nav.on /\ ~nav'.on /\ result' = "ok" => proof = nav.target)
  BY DEF Sighted, Arrived
<1>2. QED
  BY <1>1, SightHolds, PTL DEF NavArrives

=============================================================================
