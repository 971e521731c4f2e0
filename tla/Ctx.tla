-------------------------------- MODULE Ctx ---------------------------------
(***************************************************************************)
(* runtime.Ctx: the constrained primitives task code drives the device     *)
(* with, the panic route they run inside themselves, and NavigateTo over   *)
(* the screen graph, all gated by the kill switch.                         *)
(*                                                                         *)
(* "pc" is where the one goroutine of a run stands.  A primitive goes      *)
(*     gate -> frame -> judge -> (touch) -> return                         *)
(* where gate is ks.Check, frame is the screenshot and judge what the code *)
(* does with the recognition; the points prefixed with p are the same      *)
(* inside panicRoute.  Task code is arbitrary: at "idle" it calls any      *)
(* primitive of Ops on any screen.                                         *)
(*                                                                         *)
(* The game is a screen, possibly covered by something no template         *)
(* recognizes.  It follows the graph except for mishaps: a swallowed       *)
(* touch, a popup, a jump to another screen, a missing anchor.             *)
(***************************************************************************)
EXTENDS KillSwitch, ScreenGraph

CONSTANTS
    PanicBacks,       \* panicBackAttempts
    WrongStreak,      \* wrongScreenStreak
    MaxReplans,       \* maxReplans
    FrameMax,         \* the longest a screenshot and its recognition take
    NapMin, NapMax,   \* poll and 2*poll, the bounds of a jittered sleep
    WaitTimeout,      \* Options.WaitTimeout
    RestartTimeout,   \* Options.RestartTimeout
    Ops,              \* the primitives task code calls
    Flaky,            \* whether adb commands, the store and a sleep may fail
    Mishaps,          \* how often the game misbehaves
    Endless           \* whether it may misbehave without end instead

ASSUME CtxAssumption ==
    /\ PanicBacks \in Nat /\ WrongStreak \in Nat \ {0} /\ MaxReplans \in Nat
    /\ FrameMax \in Nat /\ NapMin \in Nat \ {0} /\ NapMax \in Nat
    /\ NapMin <= NapMax
    /\ WaitTimeout \in Nat /\ RestartTimeout \in Nat \ {0}
    /\ Mishaps \in Nat /\ Endless \in BOOLEAN /\ Flaky \in BOOLEAN
    /\ Ops \subseteq {"CurrentScreen", "WaitFor", "Tap", "Sees", "Swipe",
                      "Capture", "Sleep", "NavigateTo"}

Unrec   == "unrecognized"
NoFrame == "no frame"
ASSUME SentinelAssumption == {Unrec, NoFrame} \cap Screens = {}

VARIABLES
    shown, cover, luck,   \* the game: its screen, what covers it, mishaps left
    pc,       \* where the run stands
    call,     \* the primitive in progress
    seen,     \* the screen of the frame in hand
    rung,     \* panicRoute: 0 wake, 1..PanicBacks back, then the restart wait
    busy,     \* age of the frame or sleep in progress
    timer,    \* age of WaitFor, or of the app restart
    streak,   \* WaitFor: the wrong screen in a row and how often
    nav,      \* NavigateTo in progress
    result,   \* what the last primitive or NavigateTo returned
    proof,    \* history: what the newest frame since the last command showed
    blind,    \* history: unrecognized frames in a row, in the panic route
    touch     \* history: what the step just done did to the device

device  == <<shown, cover, luck>>
history == <<proof, blind, touch>>
code    == <<pc, call, seen, rung, busy, timer, streak, nav, result>>
ctxVars == <<ksVars, device, code, history>>

Gates  == {"gate", "napgate", "pgate", "pnapgate"}
Frames == {"frame", "judge", "pframe", "pjudge"}
Naps   == {"nap", "pnap"}

NoTouch  == [cmd |-> "none", on |-> NoFrame]
NoStreak == [screen |-> NoFrame, n |-> 0]
NoNav    == [on |-> FALSE, target |-> Entry, attempt |-> 0, path |-> <<>>]
Restart  == PanicBacks + 1   \* the rung after the last back press

Commands == {"Tap", "Swipe", "Back", "Wake", "PanicBack", "AppRestart"}
Screenless == {"CurrentScreen", "Swipe", "Sleep"}   \* primitives that name no screen
Verifies == {"Tap", "Sees", "Capture"}   \* the primitives built on verifyScreen

Display == IF cover THEN Unrec ELSE shown

CallOf(op, on, to) == [op |-> op, on |-> on, to |-> to, retried |-> FALSE]

-----------------------------------------------------------------------------
(* What a command or the passing of time does to the game. *)

Forever == -1   \* the luck of a game that misbehaves without end

Spend == luck' = IF luck = Forever THEN luck ELSE luck - 1

Mishap ==
    /\ luck # 0
    /\ Spend
    /\ shown' \in Screens
    /\ cover' \in BOOLEAN

BackTargets(s) == {Edges[i].to : i \in {j \in DOMAIN Edges :
                       Edges[j].from = s /\ Edges[j].action = "back"}}

\* The graph's promise: a tap on the screen it was aimed at opens the edge's
\* target, back closes whatever covers the game or else leaves the screen,
\* waking may light a dark display, a restart lands on the entry screen.
Obeys(cmd) ==
    /\ luck' = luck
    /\ CASE cmd = "Tap" ->
              /\ shown' = IF Display = call.on THEN call.to ELSE shown
              /\ cover' = cover
         [] cmd \in {"Back", "PanicBack"} ->
              /\ cover' = FALSE
              /\ IF cover \/ BackTargets(shown) = {} THEN shown' = shown
                 ELSE shown' \in BackTargets(shown)
         [] cmd = "Wake" -> shown' = shown /\ cover' \in {FALSE, cover}
         [] cmd = "AppRestart" -> shown' = Entry /\ cover' = FALSE
         [] OTHER -> UNCHANGED <<shown, cover>>

Touch(cmd, on) ==
    /\ touch' = [cmd |-> cmd, on |-> on]
    /\ proof' = NoFrame
    /\ UNCHANGED blind
    /\ Obeys(cmd) \/ Mishap

NothingTouched ==
    /\ touch' = NoTouch
    /\ UNCHANGED <<device, proof, blind>>

-----------------------------------------------------------------------------
(* Calling and returning. *)

Begin(c) ==
    /\ call' = c
    /\ pc' = "gate"
    /\ result' = "none"
    /\ UNCHANGED <<seen, rung, busy, timer, streak>>

Return(res) ==
    /\ result' = res
    /\ pc' = IF nav.on THEN "nav" ELSE "idle"
    /\ rung' = 0 /\ busy' = 0 /\ timer' = 0 /\ streak' = NoStreak
    /\ UNCHANGED <<call, seen, nav>>

\* How an adb command may end; a failed one may have reached the device.
Sent == IF Flaky THEN {"ok", "ErrTransport"} ELSE {"ok"}

\* How cap.Record may end: the store or the database fails.
Recorded == IF Flaky THEN {"ok", "ErrRecord"} ELSE {"ok"}

GoTo(point) ==
    /\ pc' = point
    /\ busy' = 0
    /\ UNCHANGED <<call, seen, rung, timer, streak, nav, result>>

TaskCalls ==
    /\ pc = "idle"
    /\ \E op \in Ops, s \in Screens :
        IF op = "NavigateTo"
        THEN /\ nav' = [on |-> TRUE, target |-> s, attempt |-> 0, path |-> <<>>]
             /\ Begin(CallOf("CurrentScreen", s, s))
        ELSE /\ op \in Screenless => s = Entry
             /\ \E t \in IF op = "Tap" THEN Screens ELSE {s} : Begin(CallOf(op, s, t))
             /\ UNCHANGED nav
    /\ NothingTouched
    /\ UNCHANGED ksVars

-----------------------------------------------------------------------------
(* ks.Check, wherever the code calls it. *)

KillCheck ==
    /\ pc \in Gates
    /\ Check
    /\ NothingTouched
    /\ UNCHANGED code

Refused ==
    /\ pc \in Gates
    /\ query.phase = "done" /\ query.verdict # "nil"
    /\ Consume
    /\ Return(query.verdict)
    /\ NothingTouched

\* Mutation of Allowed: the error ignored.
AllowedAnyway(point) == pc = point /\ query.phase = "done" /\ Consume

Allowed(point) == pc = point /\ Answered("nil") /\ Consume

\* walk's back edge is pressed straight after its own check.
GateOpens ==
    /\ Allowed("gate")
    /\ CASE call.op = "Back" -> /\ Touch("Back", call.on)
                                /\ \E r \in Sent : Return(r)
         [] call.op = "Sleep" -> GoTo("nap") /\ NothingTouched
         [] OTHER -> GoTo("frame") /\ NothingTouched

SleepBegins ==
    /\ \/ Allowed("napgate") /\ GoTo("nap")
       \/ Allowed("pnapgate") /\ GoTo("pnap")
    /\ NothingTouched

\* WaitFor goes round its loop; panicRoute looks again.
SleepEnds ==
    /\ pc \in Naps
    /\ busy >= NapMin
    /\ CASE pc = "pnap" -> GoTo("pframe")
         [] call.op = "Sleep" -> Return("ok")
         [] OTHER -> GoTo("gate")
    /\ NothingTouched
    /\ UNCHANGED ksVars

\* The run's context is cancelled during a sleep (ctx.Done), wherever it is.
SleepCut ==
    /\ Flaky
    /\ pc \in Naps
    /\ Return("context.Canceled")
    /\ NothingTouched
    /\ UNCHANGED ksVars

-----------------------------------------------------------------------------
(* recognize: one screenshot, and the screen it shows. *)

Screenshot ==
    /\ pc \in {"frame", "pframe"}
    /\ seen' = Display
    /\ proof' = Display
    /\ blind' = IF pc = "pframe" /\ Display = Unrec
                THEN Saturate(blind + 1, PanicBacks + 1) ELSE 0
    /\ pc' = IF pc = "frame" THEN "judge" ELSE "pjudge"
    /\ touch' = NoTouch
    /\ UNCHANGED <<ksVars, device, call, rung, busy, timer, streak, nav, result>>

AdbFails ==
    /\ Flaky
    /\ pc \in {"frame", "pframe"}
    /\ Return("ErrTransport")
    /\ NothingTouched
    /\ UNCHANGED ksVars

EnterPanic ==
    /\ pc' = "pgate"
    /\ rung' = 0 /\ busy' = 0 /\ timer' = 0 /\ streak' = NoStreak
    /\ UNCHANGED <<call, seen, nav, result>>

\* CurrentScreen and Swipe take any recognized screen (recognizeOrRecover).
JudgeAny ==
    /\ pc = "judge"
    /\ call.op \in {"CurrentScreen", "Swipe"}
    /\ IF seen = Unrec THEN EnterPanic /\ NothingTouched
       ELSE IF call.op = "Swipe"
            THEN Touch("Swipe", seen) /\ \E r \in Sent : Return(r)
            ELSE NothingTouched /\ Return("ok")
    /\ UNCHANGED ksVars

\* verifyScreen: the panic route once, then the second frame is final.
JudgeVerify ==
    /\ pc = "judge"
    /\ call.op \in Verifies
    /\ seen # call.on
    /\ CASE seen = Unrec /\ ~call.retried -> EnterPanic
         [] seen = Unrec /\ call.retried  -> Return("ErrNoScreenRecognized")
         [] OTHER                         -> Return("ErrWrongScreen")
    /\ NothingTouched
    /\ UNCHANGED ksVars

\* Mutation of ActOnScreen: any recognized screen will do.
ActOnAnyScreen ==
    /\ pc = "judge"
    /\ call.op = "Tap"
    /\ seen # Unrec
    /\ Touch("Tap", call.on)
    /\ \E r \in Sent : Return(r)
    /\ UNCHANGED ksVars

\* Capture hands the frame it verified to cap.Record, which may fail.  (The
\* agent gives every run a capturer: the answer for none is left out.)
ActOnScreen ==
    /\ pc = "judge"
    /\ call.op \in Verifies
    /\ seen = call.on
    /\ CASE call.op = "Tap" -> /\ Touch("Tap", call.on)
                               /\ \E r \in Sent : Return(r)
         [] call.op = "Capture" -> /\ touch' = [cmd |-> "Record", on |-> call.on]
                                   /\ UNCHANGED <<device, proof, blind>>
                                   /\ \E r \in Recorded : Return(r)
         [] OTHER -> NothingTouched /\ Return("ok")
    /\ UNCHANGED ksVars

\* The anchor scores below its threshold: Sees reports it, Tap fails.
AnchorMissing ==
    /\ pc = "judge"
    /\ call.op \in {"Tap", "Sees"}
    /\ seen = call.on
    /\ luck # 0
    /\ Spend
    /\ Return(IF call.op = "Tap" THEN "ErrAnchorNotFound" ELSE "ok")
    /\ touch' = NoTouch
    /\ UNCHANGED <<ksVars, shown, cover, proof, blind>>

Stuck(n) == n >= WrongStreak

\* One poll of WaitFor: arrived; the same wrong screen once too often; past
\* the deadline, whatever the last frame showed; or sleep and look again.
JudgeWait ==
    /\ pc = "judge"
    /\ call.op = "WaitFor"
    /\ LET n == CASE seen = Unrec         -> 0
                  [] seen = streak.screen -> streak.n + 1
                  [] OTHER                -> 1
       IN  CASE seen = call.on       -> Return("ok")
             [] seen # call.on /\ Stuck(n) -> Return("ErrWrongScreen")
             [] seen # call.on /\ ~Stuck(n) /\ timer > WaitTimeout ->
                    EnterPanic
             [] OTHER ->
                    /\ pc' = "napgate"
                    /\ busy' = 0
                    /\ streak' = IF n = 0 THEN NoStreak
                                 ELSE [screen |-> seen, n |-> n]
                    /\ UNCHANGED <<call, seen, rung, timer, nav, result>>
    /\ NothingTouched
    /\ UNCHANGED ksVars

-----------------------------------------------------------------------------
(* panicRoute: wake, back presses, restart, and the wait for the entry     *)
(* screen.  The restart follows the last frame with no check of its own.   *)

PanicActs ==
    /\ Allowed("pgate")
    /\ IF rung = Restart
       THEN GoTo("pnapgate") /\ NothingTouched
       ELSE /\ Touch(IF rung = 0 THEN "Wake" ELSE "PanicBack", NoFrame)
            /\ (GoTo("pnapgate") \/ (Flaky /\ Return("ErrTransport")))

\* Mutation of PanicClimbs: a rung skipped.
PanicLeaps ==
    /\ pc = "pjudge"
    /\ seen = Unrec
    /\ rung < PanicBacks
    /\ pc' = "pgate"
    /\ rung' = PanicBacks
    /\ busy' = 0
    /\ NothingTouched
    /\ UNCHANGED <<ksVars, call, seen, timer, streak, nav, result>>

PanicClimbs ==
    /\ pc = "pjudge"
    /\ seen = Unrec
    /\ rung < PanicBacks
    /\ pc' = "pgate"
    /\ rung' = rung + 1
    /\ busy' = 0
    /\ NothingTouched
    /\ UNCHANGED <<ksVars, call, seen, timer, streak, nav, result>>

PanicRestarts ==
    /\ pc = "pjudge"
    /\ seen = Unrec
    /\ rung = PanicBacks
    /\ Touch("AppRestart", NoFrame)
    /\ \/ /\ pc' = "pgate" /\ rung' = Restart /\ busy' = 0
          /\ UNCHANGED <<call, seen, timer, streak, nav, result>>
       \/ (Flaky /\ Return("ErrTransport"))
    /\ UNCHANGED ksVars

\* Mutation of PanicWaits: the deadline forgotten.
PanicWaitsForever ==
    /\ pc = "pjudge"
    /\ rung = Restart
    /\ seen # Entry
    /\ GoTo("pgate")
    /\ NothingTouched
    /\ UNCHANGED ksVars

PanicWaits ==
    /\ pc = "pjudge"
    /\ rung = Restart
    /\ seen # Entry
    /\ timer < RestartTimeout
    /\ GoTo("pgate")
    /\ NothingTouched
    /\ UNCHANGED ksVars

\* recordLostFrame, best effort and ungated, then ErrLost.
PanicGivesUp ==
    /\ pc = "pjudge"
    /\ rung = Restart
    /\ seen # Entry
    /\ timer >= RestartTimeout
    /\ Return("ErrLost")
    /\ touch' = [cmd |-> "Record", on |-> "_lost"]
    /\ UNCHANGED <<ksVars, device, proof, blind>>

\* Before the restart any recognized screen will do, after it only the entry.
PanicRecovers ==
    /\ pc = "pjudge"
    /\ IF rung < Restart THEN seen # Unrec ELSE seen = Entry
    /\ CASE call.op \in Verifies ->
              /\ pc' = "frame"
              /\ call' = [call EXCEPT !.retried = TRUE]
              /\ rung' = 0 /\ busy' = 0 /\ timer' = 0
              /\ UNCHANGED <<seen, streak, nav, result>>
              /\ NothingTouched
         [] call.op = "CurrentScreen" -> Return("ok") /\ NothingTouched
         [] call.op = "Swipe" -> /\ Touch("Swipe", seen)
                                 /\ \E r \in Sent : Return(r)
         [] OTHER ->   \* WaitFor
              /\ Return(IF seen = call.on THEN "ok" ELSE "ErrWrongScreen")
              /\ NothingTouched
    /\ UNCHANGED ksVars

-----------------------------------------------------------------------------
(* NavigateTo and walk, between the primitives they call. *)

NavReturn(res) ==
    /\ nav' = NoNav
    /\ result' = res
    /\ pc' = "idle"
    /\ UNCHANGED <<call, seen, rung, busy, timer, streak>>

Follow(path) ==
    LET e == Head(path)
    IN  /\ nav' = [nav EXCEPT !.path = path]
        /\ Begin(CallOf(IF e.action = "tap" THEN "Tap" ELSE "Back", e.from, e.to))

LookAgain ==
    /\ nav' = [nav EXCEPT !.attempt = @ + 1, !.path = <<>>]
    /\ Begin(CallOf("CurrentScreen", nav.target, nav.target))

\* Mutation of NavPlans: the budget one short.
NavPlansOnce ==
    /\ result = "ok" /\ call.op = "CurrentScreen"
    /\ IF seen = nav.target THEN NavReturn("ok")
       ELSE IF nav.attempt >= MaxReplans THEN NavReturn("ErrReplans")
       ELSE IF ShortestRoutes(seen, nav.target) = {} THEN NavReturn("ErrNoPath")
       ELSE \E route \in ShortestRoutes(seen, nav.target) : Follow(route)

\* After CurrentScreen: arrived, out of re-plans, or a fresh route.
NavPlans ==
    /\ result = "ok" /\ call.op = "CurrentScreen"
    /\ IF seen = nav.target THEN NavReturn("ok")
       ELSE IF nav.attempt > MaxReplans THEN NavReturn("ErrReplans")
       ELSE IF ShortestRoutes(seen, nav.target) = {} THEN NavReturn("ErrNoPath")
       ELSE \E route \in ShortestRoutes(seen, nav.target) : Follow(route)

\* Mutation of NavAwaits: the last edge is taken to have worked.
NavAssumes ==
    /\ result = "ok" /\ call.op \in {"Tap", "Back"}
    /\ IF Len(nav.path) = 1 THEN NavReturn("ok")
       ELSE Begin(CallOf("WaitFor", call.to, call.to)) /\ UNCHANGED nav

\* After an edge's action: wait for where it leads.
NavAwaits ==
    /\ result = "ok" /\ call.op \in {"Tap", "Back"}
    /\ Begin(CallOf("WaitFor", call.to, call.to))
    /\ UNCHANGED nav

NavAdvances ==
    /\ result = "ok" /\ call.op = "WaitFor"
    /\ IF Len(nav.path) > 1 THEN Follow(Tail(nav.path)) ELSE LookAgain

NavReplans == result = "ErrWrongScreen" /\ LookAgain

NavFails == result \notin {"ok", "ErrWrongScreen"} /\ NavReturn(result)

Navigate ==
    /\ pc = "nav"
    /\ NavPlans \/ NavAwaits \/ NavAdvances \/ NavReplans \/ NavFails
    /\ NothingTouched
    /\ UNCHANGED ksVars

-----------------------------------------------------------------------------
(* The rest of the world. *)

Operator ==
    /\ World
    /\ touch' = NoTouch
    /\ UNCHANGED <<device, code, proof, blind>>

Drift ==
    /\ Mishap
    /\ touch' = NoTouch
    /\ UNCHANGED <<ksVars, code, proof, blind>>

\* The code computes in no time; queries, frames and sleeps take time.
Tick ==
    /\ pc # "nav"
    /\ pc \in Gates => query.phase # "idle"
    /\ pc \in Frames => busy < FrameMax
    /\ pc \in Naps => busy < NapMax
    /\ AdvanceClocks
    /\ busy' = IF pc \in Frames \cup Naps THEN busy + 1 ELSE busy
    /\ timer' = CASE rung = Restart -> Saturate(timer + 1, RestartTimeout)
                  [] rung # Restart /\ call.op = "WaitFor" /\ pc \notin
                        {"idle", "pgate", "pnapgate", "pnap", "pframe", "pjudge"} ->
                        Saturate(timer + 1, WaitTimeout + 1)
                  [] OTHER -> timer
    /\ touch' = NoTouch
    /\ UNCHANGED <<device, pc, call, seen, rung, streak, nav, result, proof, blind>>

Step == \/ KillCheck \/ Refused \/ GateOpens \/ SleepBegins \/ SleepEnds
        \/ SleepCut \/ Screenshot \/ AdbFails \/ JudgeAny \/ JudgeVerify \/ ActOnScreen
        \/ AnchorMissing \/ JudgeWait \/ PanicActs \/ PanicClimbs \/ PanicRestarts
        \/ PanicWaits \/ PanicGivesUp \/ PanicRecovers \/ Navigate

Next == TaskCalls \/ Step \/ Operator \/ Drift \/ Tick

Init ==
    /\ KSInit
    /\ shown \in Screens /\ cover \in BOOLEAN
    /\ luck = Mishaps \/ (Endless /\ luck = Forever)
    /\ pc = "idle"
    /\ call = CallOf("Sleep", Entry, Entry)
    /\ seen = NoFrame /\ rung = 0 /\ busy = 0 /\ timer = 0
    /\ streak = NoStreak /\ nav = NoNav /\ result = "none"
    /\ proof = NoFrame /\ blind = 0 /\ touch = NoTouch

Spec == Init /\ [][Next]_ctxVars

\* The goroutine runs whenever it can and time passes whenever it may.
FairSpec == Spec /\ WF_ctxVars(Step) /\ WF_ctxVars(Tick)

-----------------------------------------------------------------------------
\* The longest chain of work behind one check: the check inside panicRoute's
\* sleep, the sleep, the frame that ends the route, verifyScreen's second
\* frame - and then the tap.
StopLag == VerdictLag + NapMax + 2 * FrameMax

\* Every command reaches the device while the account is permitted to act, or
\* at most StopLag after it stopped being so: paused, disabled, or the
\* database out of reach.  No path through the primitives, the panic route or
\* NavigateTo acts on an older permission.
StopsInTime ==
    [][touch'.cmd \in Commands => Permitted(flags) \/ since <= StopLag]_ctxVars

\* No blind touch: since the previous command, a frame has shown the very
\* screen a tap or a back edge is aimed at, and some recognized screen for a
\* swipe; a stored frame showed the screen it is filed under.
TouchesAreProven ==
    [][/\ touch'.cmd \in {"Tap", "Back", "Record"} =>
            touch'.on \in {proof, "_lost"}
       /\ touch'.cmd = "Swipe" => proof \in Screens]_ctxVars

\* The app is restarted only after every gentler rung has been tried and
\* looked at: PanicBacks + 1 unrecognized frames in a row since the route was
\* entered, none of them older than the command before it.
RestartIsLastResort ==
    [][/\ touch'.cmd = "PanicBack" => proof = Unrec
       /\ touch'.cmd = "AppRestart" => proof = Unrec /\ blind > PanicBacks]_ctxVars

\* With no more mishaps than re-plans, a NavigateTo the operator leaves alone
\* never runs out of them: swallowed taps and popups are absorbed.
NavAbsorbsMishaps ==
    [][nav.on /\ ~nav'.on /\ result' = "ErrReplans" => luck = Forever \/ Mishaps > MaxReplans]_ctxVars

\* NavigateTo reports success only from a frame of its target taken after its
\* last touch.
NavArrives ==
    [][nav.on /\ ~nav'.on /\ result' = "ok" => proof = nav.target]_ctxVars

\* Every primitive returns, whatever the game shows: the streak, the deadlines
\* and the re-plan budget bound every loop.
CallsReturn == pc # "idle" ~> pc = "idle"

=============================================================================
