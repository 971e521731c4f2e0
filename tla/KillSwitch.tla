----------------------------- MODULE KillSwitch -----------------------------
(***************************************************************************)
(* runtime.DBKillSwitch: the cached answer to "may this account act now?"  *)
(* and the three rows of the world it reads: flags.pause_all,              *)
(* accounts.enabled, and whether Postgres can be reached at all.           *)
(*                                                                         *)
(* Time is discrete and relative: every clock is an age that Tick advances *)
(* and that saturates once nothing can tell its values apart, so behaviours*)
(* are unbounded while the state space is finite.                          *)
(***************************************************************************)
EXTENDS Integers

CONSTANTS
    TTL,        \* how long a cached verdict is served
    QueryMax,   \* the longest a KillState query is in flight
    Horizon,    \* where the history clock "since" saturates
    Switches    \* what may change: a subset of {"pause", "enabled", "store"}

ASSUME KillSwitchAssumption ==
    /\ TTL \in Nat
    /\ QueryMax \in Nat
    /\ Horizon \in Nat
    /\ Horizon > TTL + QueryMax
    /\ Switches \subseteq {"pause", "enabled", "store"}

VARIABLES
    flags,   \* the database: pause_all, accounts.enabled, reachability
    cache,   \* DBKillSwitch.cached and the age of DBKillSwitch.fetched
    query,   \* the one Check in progress (k.mu admits one at a time)
    since    \* history: ticks since Permitted(flags) last changed

ksVars == <<flags, cache, query, since>>

Denials  == {"ErrPaused", "ErrAccountDisabled"}
Verdicts == {"nil", "ErrStore"} \cup Denials

Never == -1   \* fetched.IsZero()

Permitted(f) == f.up /\ ~f.pauseAll /\ f.enabled

\* The verdict Check derives from one KillState row: the global pause is
\* tested before the account's own bit.
VerdictOf(f) ==
    IF f.pauseAll THEN "ErrPaused"
    ELSE IF ~f.enabled THEN "ErrAccountDisabled" ELSE "nil"

Saturate(n, top) == IF n >= top THEN top ELSE n

Idle == [phase |-> "idle", verdict |-> "nil", age |-> 0]

KSTypeOK ==
    /\ flags \in [pauseAll: BOOLEAN, enabled: BOOLEAN, up: BOOLEAN]
    /\ cache \in [verdict: Verdicts \ {"ErrStore"}, age: Never .. TTL + 1]
    /\ query \in [phase: {"idle", "asked", "read", "done"},
                  verdict: Verdicts, age: 0 .. QueryMax]
    /\ since \in 0 .. Horizon

\* A process starts with an empty cache; the operator's flags are whatever
\* they were left at, for as long as you like.
KSInit ==
    /\ flags \in [pauseAll: BOOLEAN, enabled: BOOLEAN, up: BOOLEAN]
    /\ "pause" \notin Switches => ~flags.pauseAll
    /\ "enabled" \notin Switches => flags.enabled
    /\ "store" \notin Switches => flags.up
    /\ cache = [verdict |-> "nil", age |-> Never]
    /\ query = Idle
    /\ since = Horizon

-----------------------------------------------------------------------------
(* The operator and the database server. *)

Become(f) ==
    /\ flags' = f
    /\ since' = IF Permitted(f) = Permitted(flags) THEN since ELSE 0
    /\ UNCHANGED <<cache, query>>

\* control pause / control resume.
SetPauseAll ==
    /\ "pause" \in Switches
    /\ flags.up
    /\ Become([flags EXCEPT !.pauseAll = ~@])

\* accounts.enabled has no writer in the program: the operator edits the row.
SetAccountEnabled ==
    /\ "enabled" \in Switches
    /\ flags.up
    /\ Become([flags EXCEPT !.enabled = ~@])

StoreOutage ==
    /\ "store" \in Switches
    /\ Become([flags EXCEPT !.up = ~@])

World == SetPauseAll \/ SetAccountEnabled \/ StoreOutage

-----------------------------------------------------------------------------
(* One Check, as its steps: served from the cache, or a query that reads   *)
(* the rows at one moment and returns at a later one.                      *)

\* Mutation of Fresh: the TTL forgotten.
FreshForever == cache.age # Never

Fresh == cache.age # Never /\ cache.age <= TTL

CheckCached ==
    /\ query.phase = "idle"
    /\ Fresh
    /\ query' = [phase |-> "done", verdict |-> cache.verdict, age |-> 0]
    /\ UNCHANGED <<flags, cache, since>>

AskStore ==
    /\ query.phase = "idle"
    /\ ~Fresh
    /\ query' = [phase |-> "asked", verdict |-> "nil", age |-> 0]
    /\ UNCHANGED <<flags, cache, since>>

ReadStore ==
    /\ query.phase = "asked"
    /\ flags.up
    /\ query' = [phase |-> "read", verdict |-> VerdictOf(flags), age |-> query.age]
    /\ UNCHANGED <<flags, cache, since>>

ReturnFresh ==
    /\ query.phase = "read"
    /\ cache' = [verdict |-> query.verdict, age |-> 0]
    /\ query' = [phase |-> "done", verdict |-> query.verdict, age |-> query.age]
    /\ UNCHANGED <<flags, since>>

\* Mutation of ReturnError: the failure is cached like a verdict.
ReturnErrorCached ==
    /\ "store" \in Switches
    /\ query.phase \in {"asked", "read"}
    /\ query' = [phase |-> "done", verdict |-> "ErrStore", age |-> query.age]
    /\ cache' = [verdict |-> "ErrStore", age |-> 0]
    /\ UNCHANGED <<flags, since>>

\* A query may fail at any point of its flight; nothing is cached.
ReturnError ==
    /\ "store" \in Switches
    /\ query.phase \in {"asked", "read"}
    /\ query' = [phase |-> "done", verdict |-> "ErrStore", age |-> query.age]
    /\ UNCHANGED <<flags, cache, since>>

Check == CheckCached \/ AskStore \/ ReadStore \/ ReturnFresh \/ ReturnError

\* The caller takes the verdict and moves on.
Answered(v) == query.phase = "done" /\ query.verdict = v
Consume     == query' = Idle /\ UNCHANGED <<flags, cache, since>>

\* A verdict is taken the moment it is returned, and no query outlives
\* QueryMax: Tick waits for both.
ClockMayAdvance ==
    /\ query.phase # "done"
    /\ query.phase # "idle" => query.age < QueryMax

AdvanceClocks ==
    /\ ClockMayAdvance
    /\ cache' = [cache EXCEPT !.age =
                    IF @ = Never THEN Never ELSE Saturate(@ + 1, TTL + 1)]
    /\ query' = [query EXCEPT !.age = IF query.phase = "idle" THEN 0 ELSE @ + 1]
    /\ since' = Saturate(since + 1, Horizon)
    /\ UNCHANGED flags

-----------------------------------------------------------------------------
(* The switch by itself, under a caller that checks whenever it likes. *)

TakeVerdict == query.phase = "done" /\ Consume

KSNext == World \/ Check \/ TakeVerdict \/ AdvanceClocks

KSSpec == KSInit /\ [][KSNext]_ksVars

-----------------------------------------------------------------------------
(* How long a verdict can disagree with the rows it speaks for. *)
VerdictLag == TTL + QueryMax

\* VerdictIsFresh: a verdict is never older than the cache and the query can
\* make it.  A nil verdict: when the account stopped being permitted (paused,
\* disabled, or the database gone) at most VerdictLag ticks ago.  A refusal:
\* after a resume it is handed out for at most VerdictLag ticks, so a cached
\* denial cannot keep a resumed fleet idle.
VerdictIsFresh ==
    /\ Answered("nil") /\ ~Permitted(flags) => since <= VerdictLag
    /\ query.phase = "done" /\ query.verdict \in Denials /\ Permitted(flags)
          => since <= VerdictLag

=============================================================================
