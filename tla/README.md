# lw-manager in TLA+

lw-manager runs chores for game accounts on Android devices: an agent looks at
screenshots, recognizes the screen by its anchors, taps where an anchor matched,
and records what it saw; an ingest step reads names and points off the recorded
frames into an append-only fact table, and a human settles what it could not
read.  This directory specifies the parts whose correctness depends on order,
time or failure, checks them with TLC on small instances, and proves the most
important statements with TLAPS for every value of the constants.

## 1. Inventory

| component | state it keeps | operations | talks to |
|---|---|---|---|
| kill switch (`runtime/killswitch.go`) | cached verdict, when it was fetched | `Check` | `db.KillState` |
| runtime primitives (`runtime/ctx.go`, `act.go`, `capture.go`) | none between calls, except recorded screenshot ids | `CurrentScreen`, `WaitFor`, `Tap`, `Sees`, `Swipe`, `TypeText`, `Capture`, `Sleep`, `Screenshot`, `VerifyFrame` | kill switch, recognizer, transport, capture service |
| panic route (`runtime/panic.go`) | the rung it is on | wake, back x3, restart, wait for entry, record the lost frame | kill switch, transport, capture service |
| navigation (`runtime/graph.go`, `navigate.go`) | the topology; attempts of one call | `Path`, `NavigateTo`, `walk` | primitives |
| run records (`runtime/runner.go`) | a `task_runs` row | `Run` | store, task bodies |
| scheduler (`scheduler/*.go`, `db/scheduler.go`) | none: everything is in `task_runs` and `flags` | `SchedulerSnapshot`, `Plan`, `tickOnce`, `Run` | store, runner |
| task bodies (`tasks/*.go`) | local counters | mail, tech donation, radar, roster and VS capture | primitives, capture recorder |
| scroll capture (`tasks/scrollcapture.go`) | previous frame, offsets, retries | `scrollCapture`, `swipeOnce`, `measureAfterSwipe` | primitives, `vision/scroll.go` |
| capture service (`capture/capture.go`, `blob/*`) | blobs by content hash, `screenshots` and `captures` rows, the device's resolution | `Capture`, `Record`, `RecordCapture`; `Put`, `Exists`, `GetContent` | blob store, database, transport |
| ingest (`ingest/*.go`) | roster/VS cursor of one run | `IngestRoster`, `IngestVS`, `attributeRow`, `repairPoints` | OCR, roster matching, database |
| roster matching (`roster/*.go`) | none | `Assign`, `Rank`, `TokenSetRatio`, `Normalize` | - |
| facts, members, reviews (`db/analytics.go`) | `captures`, `capture_frames`, `members`, `member_aliases`, `facts`, `review_queue` | `InsertFact`, `UpsertFact`, `SupersedeFact`, `QueueReview`, `ResolveReview`, `RejectReview`, `RecordCapture` | - |
| studio (`studio/*.go`) | none | the review pages: list, crop, resolve, reject; the labelling pages: capture now, label, crop | database, blobs, corpus, template library |
| vision (`vision/*.go`) | none | `Recognize`, `Match`, `MeasureScroll`, segmentation | template library |
| template library (`vision/manifest_write.go`, `registry.go`) | `manifest.yaml` and the template PNGs | `WriteAnchor`, `SetThresholds`, `LoadRegistry` | - |
| corpus (`corpus/*.go`, `cmd/agent/corpus.go`, `record.go`) | a directory per label, a file per frame; `index.yaml` with the stamps | `Add`, `Find`, `Relabel`, `List`, `ReadIndex`, `WriteIndex`; record, index, push, pull | blobs, git |
| transport (`transport/*.go`) | adb serial, resolution | tap, swipe, back, wake, restart, screencap; replay | adb |
| control CLI, agent CLI, config, logging, migrations | - | wiring | everything |

### What makes them hard, and what makes them right

* **Kill switch.**  One row is read at one moment and believed for a TTL.  A
  grant and a denial must both be at most *TTL + one query* out of date; an
  outage must never be cached.
* **Primitives and panic route.**  Permission, proof (a frame of the screen) and
  action are three moments with waits between them, and any primitive can divert
  into the panic route and come back.  Commands must stop within a bounded lag;
  no touch may be blind; restarts come last; every call returns although the
  game never behaves.
* **Navigation.**  The search must be shortest, total and terminating; the walk
  must absorb as many mishaps as it has re-plans and must not claim an arrival
  no frame shows.
* **Scheduler.**  The table is its only memory; rows are counted or not by their
  status; the snapshot is four queries at four moments; runs fail before, during
  and after their row is written.  Runs of a pair must be spaced by the rows that
  count, and no pair may be starved by another.
* **Scroll capture.**  Offsets are measured between a frame and the last one
  recorded; retries, swallowed swipes and overshoot must not lose or repeat rows.
* **Ingest, facts and reviews.**  Names are matched to members one-to-one, by
  claims whose order matters; points are bounded by the ranking's own order,
  which one misread seed must not spoil; absence is written as a zero.  Ingest is
  run again over the same capture, dies half-way, and shares its tables with a
  reviewer and with a roster ingest that adds members.
* **Capture service.**  Blob first, row second, and every camera of the agent
  shares both stores: a crash, a failed put or another camera between the two may
  leave an orphan blob, never a row without its pixels.
* **Corpus.**  Files without locks, worked on by the studio's request goroutines
  and by commands beside it.  `Add` searches, then writes in place; `Relabel`
  searches, then renames; the index is read, recomputed and written.  A frame must
  not vanish, a lone tool must neither double a frame nor lose its stamps, and a
  pull must not pass a short corpus for a whole one.  Any write may be cut short, by
  a kill or by a full disk, and what it leaves carries the name of the whole frame.
* **Template library.**  An edit writes two files before it knows whether the
  library still loads, and puts both back if not, or if a write failed: a rejected
  edit must leave no trace, an accepted one nobody else's entry missing.  The
  putting back writes to the same disk and may fail as well.

## 2. Modules

| module | models | composes |
|---|---|---|
| `KillSwitch` | `DBKillSwitch.Check` as the steps of one query, and the rows it reads | - |
| `ScreenGraph` | the topology and what a route is | - |
| `Order` | what a loop that skips some entries of a list leaves: the others, in their order | - |
| `PathSearch` (`MCPathSearch`) | `Graph.Path`, one expansion per step | `ScreenGraph`, `Order` |
| `Ctx` (`MCCtx`) | primitives, `panicRoute`, `NavigateTo` and `walk`, against a misbehaving game | `KillSwitch`, `ScreenGraph` |
| `Scheduler` (`MCScheduler`) | snapshot, `Plan`, the loop, `Execute`, `Run`, `run-task`, `task_runs` | - |
| `Ranking` | the rows and the members, shared by the next three | - |
| `Assign` | `roster.Assign`, one claim per step | `Ranking` |
| `Points` | `monotonicKnown` and `pointsBounds`, one loop round per step | `Ranking` |
| `FactStore` | members, aliases, facts and review items of one capture | `Ranking` |
| `Board` | what the fact table promises its readers: the abstract specification `VSIngest` implements | - |
| `VSIngest` (`MCVSIngest`) | `IngestVS` run again and again beside a reviewer and a growing roster | `Assign`, `Points`, `FactStore`, `Board` |
| `Scroll` | `scrollCapture` and `measureAfterSwipe`, against a list that flings, coasts and swallows | - |
| `VSCapture` | `vs_capture` from the Ranking button on, and the row cursor of its ingest | `Scroll`, `Order` |
| `RosterCapture` | `normalizeGroups`, `toggleChevron` and the group loop | - |
| `Chores` | `radar`, `tech_donate`, `mail_collect` and the two base tasks | - |
| `AgentTasks` (`MCTasks`) | the tasks of one agent, one at a time | `VSCapture`, `RosterCapture`, `Chores` |
| `RosterIngest` (`MCRosterIngest`) | `IngestRoster` run again and again over one capture | - |
| `BlobStore` | the content-addressed object store, whole and torn contents | - |
| `CaptureService` | `Capture`, `Record`, a task's stored frames and `RecordCapture`, for several cameras | `BlobStore` |
| `Corpus` | the tree of labelled frames, its index, and the tools over both | `BlobStore` |
| `Manifest` | `WriteAnchor`, `SetThresholds`, `LoadRegistry`, the crop page and the scoring run | `Corpus` |
| `Workbench` (`MCWorkbench`) | the operator's machine: cameras, corpus tools and editors at once, and what may die | `CaptureService`, `Manifest` |
| `CtxProofs` (with `KillSwitch`'s), `PathProofs` (of `PathSearch`), `OrderProofs`, `SchedulerProofs`, `VSProofs` (of `Assign`, `Points` and `VSIngest`), `TaskProofs` (of `Scroll` and `AgentTasks`), `RosterProofs`, `WorkbenchProofs` | the theorems | the module each is named after |

### How state and actions correspond to the code

**KillSwitch.**  `cache` is `DBKillSwitch.cached` with the age of `fetched`;
`query` is the one `Check` in progress (the mutex admits one).  A check is
`CheckCached`, or `AskStore`, `ReadStore`, `ReturnFresh`: the row is read at
`ReadStore` and stamped at `ReturnFresh`, which is why the lag has two terms.
`ReturnError` leaves the cache alone.  The operator's `control pause`, the
`accounts.enabled` column (no code writes it) and the database's reachability
change at any moment.

**Ctx.**  `pc` is the program point of the run's only goroutine.  Every `gate`
is a call of `ks.Check`; `frame` is the screenshot, `judge` what the code does
with its recognition; points prefixed `p` are inside `panicRoute`.  `call` is
the primitive, `nav` the `NavigateTo` around it.  The game is `shown` (a screen)
and `cover` (something no template recognizes); it obeys the graph except for
mishaps: a swallowed touch, a popup, a jump, a missing anchor.  Task code is
arbitrary: at `idle` it calls any primitive on any screen.  Computation takes no
time; queries, frames and sleeps take up to `QueryMax`, `FrameMax`, `NapMax`.
With `Flaky` an adb command, `cap.Record` (`Recorded`) and a sleep whose context is
cancelled (`SleepCut`) may fail; what a run without a capturer answers is left out,
as the agent gives every run one.
`proof` and `blind` are history: what the newest frame since the last command
showed, and how many unrecognized frames there were in a row.

**Scheduler.**  `table` keeps, per (account, task) pair, what the snapshot query
can see of its rows: the newest counted start, the shift its hash gives the
cadence (any value within `Jitter`), the last success and the failures since.
Rows `running` and `paused` are in none of them, as in the SQL: a run that a crash
or a failed finishing write leaves `running` is as if it had never been.  `loop` is the
loop's point and the run it has in hand; the snapshot is read by `ReadPause`,
`ReadAccounts`, `ReadTasks`, `ReadRuns`.  `ExecuteFails` is the failure before
`StartTaskRun`, which leaves no row.  `Finish` leaves the table alone when the
outcome is `paused` or the finishing write fails.  `Crash` and `Startup` are the
process dying and coming back; `ManualStart`/`ManualFinish` are the operator's
`run-task` beside the loop.  `passed` and `passedOver` are history for
`NoSecondTurn`.  The backoff adds `cadence * (2^f - 1)` to a due time that
already contains one cadence.

**Assign.**  `out` is the slice `Assign` returns; `rowTaken` and `memTaken` are
the complements of `Open` and `Free`.  `Claim` is one turn of the claim loop: the
row and member whose score no other claimable pair outbids, the earlier row
winning a draw.  `stage` says which of the two calls of `claim` runs;
`EndConfident` contains the duplicate check between them.

**Points.**  `at` is the loop variable, `len` and `prev` the dynamic program's
arrays (indexed by row rather than by position in `idx`, so 0 is "none"), `kept`
the result.  `Bound` makes both passes of `pointsBounds` at once: one goes down
and the other up, and neither reads what the other writes.

**FactStore.**  A fact's key has five columns of which a VS capture fixes four,
so `facts` is a function of the member.  Each action is one statement, or one
transaction, of `db/analytics.go`.  `queue` counts pending items per row and kind:
an item is inserted again by every run that cannot settle its row.

**VSIngest.**  A `capture` is what OCR makes of its frames: for each row an
`owner`, the `text` of the name, its score against each member's own name, and
the points read.  Reading is a function of pixels, so every run reads the same.
`Begin` is the load of capture and members, `ReadRows` that of the aliases and
the reading; `AssignRows`, `Seed`, `BoundPoints` and `StartWriting` lead to
`AttributeRow`, one row per step, and `InferZero`, one member per step.
`Repaired` does what `repairPoints` does with text: of the ten values one damaged
position can stand for, exactly one fits the window.  `Crash` is the process
dying, and also the early return of any step whose query or OCR call fails: both
leave what was written and start over at `Begin`.  `Resolve` is `studio`'s
handler with the transaction of `ResolveReview`; it takes the reviewer to be
right about whose row it is.  `RosterAdds` is `IngestRoster`'s `CreateMember`.
One `control ingest` runs over a capture at a time: the command has no lock, and
two at once are not modelled.

**Scroll.**  A frame is the position of the list it shows (`top`) and the
`offset` recorded with it.  `seq`, `zeroes`, `prev`, `frames` and `complete` are
the locals of `scrollCapture`, `looks` the attempts of `measureAfterSwipe`.
`Swipe` is the swipe with its settle and first screenshot; `Offsets` is what
`ScrollOffset` may answer for the pair of frames: within `Tol` of the truth,
never backwards, never past `Reach` (probe 0's limit less one strip).  The frame
goes through `Unmoved`, `BottomProven`, `KeepFrame` or `Overshot` by that answer,
or through `LookAgain` and `Unmeasurable` when there is none.  `Interrupted` is
every other error.  `pos`, `coast` and `swallowed` are the game's.

**VSCapture.**  `step` is the line of `vsCapture`, then of `readVSRows`; `tries`
the counter of the loop it is in.  `filter` is what the list is filtered by and
`mark` the checkmark drawn for it; `TapFilter` toggles the one, and the other
follows at once or by `DrawMark`.  `Record` writes the frames of a scroll that
failed as partial, as the code does.  `cursor` is `vsRowCursor`; `ReadFrame`
takes one frame through `accept`, and a row read is its number in the list.

**RosterCapture.**  `open` is the set of open groups, which the task cannot
tell apart: `TapChevron` takes any of the wanted kind, and is confirmed by any of
the other kind.  What `scrollCapture` does inside a group is `ScrollGroup`: the
rows of whatever is open, to their end or not.

**Chores.**  `chore` is the task's goroutine: `at` the line, `n` the counter of
its loop, `said` what it returned.  A step is one primitive, so a tap and the
frame that proves it are one (`Ctx` takes them apart).  `game` is what the screens
show and what the game took: `board` is the radar, where an accepted tap may be
drawn late (`starting`, `opening`) and only one button is drawn at a time;
`paid` is history.  `Deaf` are the controls whose taps may be swallowed: those of
`Proven` (execute, badge, donate) are tapped again until the screen shows the
effect, and those of `Trusted` (claim, banner, tab, mail, icon) are tapped once;
`missed` remembers that one of the latter was swallowed.

**RosterIngest.**  `groups` is the run's map of `groupTracker`s, `sighted` being
that one exists and `expected = 0` that no count of it could be read; `prevRanks`
is `prevFrameRanks`.  A frame is its sticky header, its header cards and its row
bands, with what OCR makes of each.  `ReadHeaders` is one frame from its badge to
`prevFrameRanks`, `DropFrame` the `continue` of an unmatched badge; then one
action per band: `SkipRow` (already somebody), `MatchRow`, `CreateMember` or
`QueueName`, which is `processRow` by its outcome.  `Seen` is `seenRow`, the
collected row within half a pitch.  `Finish` reconciles, sets the alliance's member
count and finishes the capture.  `Fail` is the process dying or any query or OCR
call failing, the last one with the member count set as well; `FailAfterCreating` fails between
`CreateMember` and the facts of the row.  What a band truly shows (`player`) and
where its list stood (`open`, `top`) are kept beside what was read of it, for the
properties only.  A run is one `control ingest`; nothing else writes members
meanwhile, so `members` is read where the code reads the list it loaded and
extends.  The reviewer's aliases, which are `VSIngest`'s subject, are left out.

**BlobStore.**  A content is a number: `f` is a whole frame, `-f` the same file
cut short, `0` no file.  SHA-256 tells contents apart, so a content is its own
digest and the key made of it.  `PutFile` is the directory's temporary file and
rename, all or nothing for a process that dies or a write that fails; nothing is
synced (`fs.go:52-65`), so a loss of power is outside the model.  `PutObject` is the
bucket, whose upload may have succeeded although the answer says otherwise; which of the two is configuration.

**CaptureService.**  `cam[c].at` is the program point of one capturing goroutine:
`CaptureTargetByAccount`, `UpsertDevice` and `Screenshot` are `Service.Capture`;
`PutContent`, `PutFrame` and `InsertScreenshot` are `Record`, one store call each;
`StartTask`, `StoreAnother` and `RecordCapture` are the task that stores several
frames and files them in one transaction.  `GiveUp` is any of these calls failing,
and the process dying.  `shots` and `captures` are the tables, `device` the
recorded and the real resolution.

**Corpus.**  `tree` is the corpus root of two clones, `index` their `index.yaml`,
`tool[t]` one request or command: `at` its program point, `f` the frame and `found`
the label in hand, `seen`, `prev` and `metas` what it has listed, read of the index
and stamped.  A step is one file system or store call.  `Find` and `All` take the
label directories one by one, so a frame renamed meanwhile can be missed or seen
twice; `os.WriteFile` is `AddTruncates` and `AddWrites`, `IndexTruncates` and
`IndexWrites`.  `fd` is the label the file a writer holds open is now under: a
rename takes it along, a rename over it leaves the writer writing to nobody's file.
`Rename` fails when its source has moved.  `AddFails` is an `Add` that fails, in mid-write
or before it: the torn file stays, a recording session indexes what it took before,
other commands report and end.  `Dies` is a kill, or another call failing for
good; `cutShort` remembers whose write was cut short by either.  `Commit` is git carrying the
index from the desk to the clone.

**Manifest.**  `manifest` and `templates` are the files, `edit[t]` what an editor
means to write and what it would put back, `accepted` (history) what the edits
that reported success made of the library.  `CropPlans` is the handler up to
`WriteAnchor`, then `ReadTemplate`, `WriteTemplate`, `WriteManifestFile`,
`CheckLibrary` and the two restores; `TunePlans` enters the same path at the
manifest.  `Refuses` is what fails before anything is written.  Either write may fail,
before or after the file was cut, and so may the check of a library that would load:
all lead into the restores.  `RestoreFails` is a restore that failed, unseen by the
code; `spoilt` (history) remembers it.  A region is one of two that do not overlap.

**Workbench.**  `desk` is what goes on: which commands are given, how many tools
work at once, how many commands in all.  `death` lets at most one tool die per
behaviour.  Where nothing is recorded, `Init` is what a recorder has left that
filed one frame and was killed over the other.

## 3. What is checked

| run | properties | instance |
|---|---|---|
| `PathSearch` | `RoutedExactly`, `AnswerIsRight`, `SearchReturns` | all pairs of the 15 production screens and of a 6-screen graph with parallel edges, diamonds and an unreachable screen |
| `CtxStop` | `VerdictIsFresh`, `StopsInTime`, `TouchesAreProven`, `RestartIsLastResort` | 2 screens, an endlessly misbehaving game, pause and outage at any moment |
| `CtxNav` | `NavAbsorbsMishaps`, `NavArrives`, `CallsReturn` | a chain of 3 screens, every primitive, failing adb, 3 mishaps or mishaps without end, fairness |
| `SchedulerTurns` | `TypeOK`, `NoSecondTurn`, `ServedInTurn` | 2 pairs of more work than the agent has time for, failing tasks, run-task |
| `SchedulerWorld` | `RunsAreSpaced` | 1 pair, every event; spacing of counted attempts |
| `VSIngest` | `TypeOK`, `RowsGoOneToOne`, `ClearWinnersAreMatched`, `WindowsAreSound`, `DroppedSeedsAreQueued`, `ZeroMeansAbsent`, `ImplementsBoard`, `ResolvedNamesStaySettled`, `IngestReturns` | every 3x2 and 2x3 score matrix over the interesting scores, every mix of points reads on 4 rows, and six captures ingested three times with crashes, reviews and newcomers |
| `Tasks` | `NoRowPassesUnseen`, `CompleteHasEveryRow`, `OnlyAllianceIsPhotographed`, `RowsAreReadOnce`, `GroupsInIsolation`, `ReportsAreTrue`, `TasksReturn` | lists of 0, 2 and 5 rows of 9 pixels on a region of 24, three swipes, a coasting fling, two swallowed swipes in a row, one dropped band, a late checkmark; 4 rank groups, any of them left open; a radar found in any state, either tech tab, three mailboxes |
| `RosterIngest` | `TypeOK`, `WithinBudget`, `NobodyMintedTwice`, `CompleteSawEverybody`, `NoGoodPhotographIsWasted` | an alliance of four in two groups; every reading of one row over its three photographs under four choices of counts, every scroll of up to three frames with offsets that run up to three eighths of a pitch ahead or behind, and captures gone astray (a wrong, unmatched or missing header, wrong counts) |
| `Workbench` | `ScreenshotsHaveTheirFrame`, `AloneIsSafe`, `PullIsHonest`, `AcceptedEditsStand`, `FiledStaysFiled` | 2 frames, 2 labels, 2 cameras, 2 tools; eight desks of up to three commands, two of four, one tool or two at a time, any call failing, restores included, one tool killed |

`VerdictIsFresh` bounds how old a grant and a denial may be; `AnswerIsRight` says
that a route found is a shortest one and that none is only answered where there is
none.  `NavAbsorbsMishaps` says that a navigation gives up only after more mishaps
than it has re-plans, `NavArrives` that it reports an arrival only on a frame that
shows the screen, and `CallsReturn` that every call ends although the game may
misbehave without end.

What the `VSIngest` properties say, beyond their names: a pair that is each
other's strict best is matched whatever is claimed before it; no member is given
two rows, and a row that reads like a member already pinned is never given to
somebody else (`RowsGoOneToOne`); a seed that the
longest non-increasing run leaves out lies outside its own window and so is
queued; a zero concluded from absence never stands against a member of the list,
unless that member's row reads like somebody else (`Unmistakable`, which a
residual match needs); and once a run has loaded the alias a reviewer confirmed,
it does not ask about that text again.  `ImplementsBoard` is the refinement: with
`facts` as `board`, every step publishes one number at or above the gate and more
confident than the one it replaces, or changes nothing the board shows.

What the `Tasks` properties say: every row that ends above the lower edge of
the frame kept last is whole in some frame (`NoRowPassesUnseen`); a capture is
called complete only with all its rows (`CompleteHasEveryRow`); ingest reads each
row once and in the ranking's order, and of a complete capture all of them
(`RowsAreReadOnce`), whatever the offsets were off by.  The ranking is
photographed with the filter on although the control is a toggle that may start
on, swallow taps and draw late (`OnlyAllianceIsPhotographed`).  A chore reports
success only when there is nothing left of what it came for, whichever taps of
`Proven` are swallowed, unless one of `Trusted` was, and blames the claim
only after an execution the game took (`ReportsAreTrue`).

`RunsAreSpaced` measures from the newest *counted* attempt (succeeded or failed): a
run that was killed, or whose finishing write failed, is not one, and the same pair may
run again at once.

What the `RosterIngest` properties say: the members a run creates of a group are
no more than some header it read of that group states (`WithinBudget`, on every
capture, however wrongly read).  The others are about captures the way
`roster_capture` means to record them (`Steady`: one group open at a time, badges
matched, bands of the open group's rows in their places, and the offsets of a
group's frames within half a pitch of the distance scrolled, added up): nobody is
created twice, by one run or by another (`NobodyMintedTwice`, names without a
letter or digit apart); if counts are read right or not at all (`Honest`),
"complete" means that everybody has a row (`CompleteSawEverybody`); and a row that
stays nobody had no photograph that would have made it somebody: of a member the
run began with, or of a new one once a count could be read and with room under
every count there is (`NoGoodPhotographIsWasted`).
`TypeOK` holds what the run keeps on the row: it is asked about once a run.

What the `Workbench` properties say: what lies at a key is what the key was made
from, and every `screenshots` row and filed capture leads to a whole frame
(`ScreenshotsHaveTheirFrame`); a frame in the corpus stays in it, whole unless a
writer failed or was killed over it, however the tools interleave (`FiledStaysFiled`).  Two
tools at once *can* file a frame under two labels and lose each other's stamps,
since nothing is locked; one at a time cannot (`AloneIsSafe`; of stamps, those of the
frames whose write was not cut short).  A pull that reports
success has every frame its index names under its name in the clone, whole with two
exceptions: a file another pull is still writing, and one that an earlier pull,
killed or failing in mid-write, left torn (`PullIsHonest`).  With one editor at work, none killed and no restore failed,
the library at rest is exactly what the accepted edits made it, and loads, whichever
writes failed (`AcceptedEditsStand`).

More runs show where the code and its own words part:

| run | what the repository says | what happens |
|---|---|---|
| `SchedulerOutage` | scheduler-design.md:210-211: an unplugged device "fails one task and recovers on the next tick" | no row is written, so the same pair stays the most overdue and every other device waits |
| `RosterGroups` | `roster_capture.go:136`: the loop breaks when "every group has been visited"; `roster_capture_test.go:272`: it "visits every collapsed group and stops once none remain" | the group just captured is closed and is a target again: the loop goes round eight times, may open the same group every time, and records a complete roster |
| `RosterSkips` | `roster.go:859-861`, `1209-1211`: an offset is a group's own travel exactly when both consecutive frames carried its header | a frame with an unmatched badge is dropped with its offset, and the next frame still counts as the continuation of the one before: its rows land on the places of rows above and are skipped or read as those |

Differences of words without a run of their own:

* `db/scheduler.go:93-95` says `last_run` is "the most recent attempt that actually
  ran (succeeded or failed — paused/running did no work ...)".  A run that was killed
  while it acted did work and stays `running`, so the restarted agent runs the same
  pair at once, without cadence or backoff.
* `radar.go:34-35` says radar "claims any banked rewards, then runs one execution
  and claims its rewards too".  A swallowed tap on Claim All (`radar.go:142`, 174) is
  not noticed: the rewards stay, block Quick Execute, and radar reports success.
  The same holds of Claim All in a mailbox (`mail_collect.go:37`), the tab of
  `tech_donate` (`tech_donate.go:66`), the banner (`helpers.go:77`) and the icons on
  the base (`helpers.go:116`): `Trusted` in `Chores`.
* `sync.go:40-44` says a pull "materializes every frame named in idx" and fails
  loudly rather than "silently producing a short corpus".  `Add` writes in place
  (`corpus.go:122`): a pull cut short in mid-write leaves a torn file under the
  frame's name, which the next pull's `Find` takes for the frame.
* `studio/handlers.go:262-263` says "a rejected crop leaves the manifest exactly as
  it was".  `restore` ignores its own errors (`manifest_write.go:303-313`) and cuts
  the file before it writes: where the disk that failed the edit fails the restore
  too, the manifest stays cut.
* `assign.go:93-95` says a tie refused at `AutoAccept` "falls through to the
  duplicate check and then to phase 2".  The claim loop looks at the row again
  after each claim, so once another row has taken one of the two members it
  claims the other in the same phase, as confident.
* `analytics.go:676-678` says that after a resolve `control ingest` matches the
  name directly "and writes the fact", and `vs.go:461-463` that a clean read
  supersedes a residual match by itself.  A residual match is written at 0.85; a
  clean read at 0.80 to 0.84 does not replace it, so if it was wrong it stands.
* `roster.go:1532-1540` says the refusal of empty names ended the members that
  every re-run added.  A name of symbols only passes that test and scores 0
  against everybody, the member the last run made of it included, so each run
  still adds one (`Lettered`, the exception in `NobodyMintedTwice`).
* `ctx.go:115-117` says `ErrNoScreenRecognized` "never crosses the package
  boundary"; `verifyScreen` returns the error of its second frame untranslated.
* `db/scheduler.go:93-95` says paused and running rows "did no work"; a run
  stopped half-way by the kill switch, or by a crash, has acted and does not move
  `last_run`.
* `vs_capture.go:202-205` says a retry "can never double-tap a checkbox that did
  register but rendered its checkmark slowly".  It can when the checkmark takes
  longer than the settle: `TapFilter` is enabled in `filter /\ ~mark`.  What the
  loop does ensure is `OnlyAllianceIsPhotographed`.
* `roster_capture.go:226-231` confirms that a group closed by any collapsed
  chevron.  With several groups there always is one, so a swallowed close tap goes
  unnoticed and the group stays open beside the next: with `"close"` in
  `Swallows`, `GroupsInIsolation` fails.
* `helpers.go:21-22` says `ErrExecuteIgnored` means the game did not start an
  execution.  `startExecution` returns it after the third tap without another look
  at the button, so an execution started by that tap is reported as ignored and its
  rewards are left to a later run.  `tapUntilGone` has the same edge: with exactly
  `maxDonations` donations to give, it reports a button still matching after the tap
  that made it go, which `helpers.go:13-14` calls always a bug.
* `tech_donate` taps the tab once and looks once more; if that tap is swallowed it
  finds nothing and reports success.  So do `mail_collect` and the base tasks with
  the single tap each trusts (`Trusted`, the exception in `ReportsAreTrue`).
* `scrollcapture.go:29-30` says `ErrScrollOvershot` would be reached at
  `Pitch < 0.24*regionH`; `Usable < Reach` asks for a pitch *above* two strips.

* `vs.go` says an inferred zero (0.90) "sits below every OCR-derived confidence
  this package writes"; facts are written from 0.80.
* `vs.go:749-752` says that clearing the review queue and ingesting again writes
  the deferred zeroes.  It does after resolves; a row that was *rejected* stays
  unidentified, so its capture never infers any.
* A name that normalizes to nothing scores 0 against the equal alias too, so its
  row is queued again by every run (`Blanks`, the exception in
  `ResolvedNamesStaySettled`).
* Resolving an item that was queued for its *points* stores the points text as
  an alias of the member, as it stores any raw text.

* `index.go:79` and `cmd/agent/record.go:139-143` say that `Add` cannot file one
  frame under two labels.  It looks label by label before it writes, so two `Add`s,
  or an `Add` and a `Relabel` carrying the frame past the search, can: with two
  tools at once the first part of `AloneIsSafe` fails.  So does the second: two
  read-modify-writes of the index (`record.go:118`, `handlers.go:158`) lose the
  stamps of the one that writes first.
* `manifest_write.go:32-37` says the check after the writes "is what keeps the
  manifest from ever reaching a state that breaks `agent run-task`".  Two concurrent
  crops restore over each other, and a library at rest that does not load is reached.
* A manifest or index cut to nothing by a killed writer reads as an empty one, so
  the next crop writes a library of one anchor, and the next index forgets all stamps.
* `corpus.go` takes a frame a killed recorder tore for filed: `Add` never repairs
  it, and `Push` uploads the torn bytes under their own sum and reports success.
  A pull into a clone that has no such frame then refuses, far from where it happened.
* `analytics.go:221` says ingest re-hashes what it reads; `ingest/roster.go:1905-1923`
  and `review.go:160` do not.  What makes it harmless is
  `ScreenshotsHaveTheirFrame`.

Scheduler words: scheduler-design.md gives the backoff term as
`cadence * 2^min(failures, 5)`; the code adds `cadence * (2^f - 1)` to a due time
with a cadence in it, so one failure doubles the wait rather than tripling it.
The model follows the code.

### Bounds

* `CtxStop` needs a horizon for the history clock above the lag it measures:
  `Horizon = 7 > StopLag = 6`; with `StopLag - 1` TLC finds a violation, so the
  bound is exact.  `PanicBacks = 2` gives the ladder a rung to skip.
* `CtxNav` uses the production value of `MaxReplans`, 3, and three mishaps; with a
  fourth TLC finds a navigation that gives up, so that bound is exact too.
  `WrongStreak = 3`, `WaitTimeout = 4` and `RestartTimeout = 2` scale the streak
  and the deadlines down to the ticks of the clock.
* `SchedulerTurns`: `ServedInTurn` allows less than a round of 5 ticks past a due
  time of 2; the horizon of 8 leaves room to exceed it.
* `SchedulerWorld`: the horizon of 6 leaves room for a run, a failure, its
  doubled wait of 4 less the shift of 1, and a restart in between.
* `MaxBackoffFailures = 1` stands for the code's 5: both the growing and the
  capped branch are reached.  The proof covers every value up to 5, where the
  shift table ends as the code's cap does.

* `VSIngest`: four rows and four members let a row have a rival for its member, a
  rival member, and a second sighting, and let a seed be dropped between kept
  ones and be first or last.  Scores are 0, 70, 93 and 95: below the residual
  floor, residual, and two above `AutoAccept` that differ; margins of 0, 2, 23
  and more fall on both sides of both rules.  Only the captures in `Reviewed`
  meet the reviewer, the roster and crashes, and are ingested `MaxRuns = 3` times:
  once to queue, once after the review, once to find nothing changed.

* `Tasks`: rows of 9 on a region of 24, so a frame shows two or three rows and
  a move may be kept, refused as an overshoot, or out of reach; an error of 1 and
  a coast of 1 make the boundary of each fall both ways.  Five rows need three
  moves and the three zero offsets; `MaxFrames = 6` also runs out.  The scale is
  chosen so that `Usable < Reach`, the branch the production lists do not reach;
  the proof covers both.  The numbers keep `Proportions`, on which `RowsReadOnce`
  rests: 2 * (1 + 3) * 1 < 9, and the shortest swipe is 10.  `MaxGroups = 3` with four groups left open reaches
  `ErrNormalizeFailed`; `RosterGroups` has the production value 8.
  `ExecuteTaps = 3` is production's; three donations and three polls make both caps
  fall on either side of what there is to do.

* `RosterIngest`: a pitch of 8 and offsets that have slipped by up to three either
  way put a row just inside half a pitch of its place, and by six, which is no
  longer `Steady`, outside; three rows fit on a frame, so a
  row is photographed up to three times and under both groups' headers.  One
  row's reading varies at a time: its own name, a name like another's, nobody's,
  a blank, each sure or not.  Only the captures that differ in what a second run
  would do are ingested twice, those with misread counts among them.

* `Workbench`: with two frames one can be filed while the other is torn or
  recorded; two labels are enough for a frame to be carried past a search; two
  tools race, and a third command shows what they have left to the next.  Commands
  that share state are put on one desk (`record`, `capture`, `label`, `index`;
  `record`, `push`, `pull`; `index`, `push`, `pull`; cameras and `push`; `crop` and
  `score`).  A tool alone with `record`, `push` and `pull` is given four commands, so
  that a second pull follows one that was cut short, and so are two tools that index,
  push and pull what a killed recorder left, so that two pulls fill one clone at
  once.  `MaxShots = 2`
  lets two cameras store one frame at once, or two.

What the capture models take for granted: a list is opened at its top and stands
still but for the swipes (the ranking is live, and members who overtake each
other in mid-capture are beyond the code as well); the game swallows fewer swipes
in a row than `zeroOffsetRetries` (2 of 3: with a third, the bottom is believed
in mid-list, as `scrollcapture.go:43-45` concedes); an offset that is answered is
within the tolerance (`ScrollOffset` asks its probes to agree within 4 pixels);
below the last row there is blank space of at least that tolerance; a band
segmentation drops is only known to the model (`blurred`).  Nothing in the code
counts the bands of a frame: a dropped row is passed for good once a lower one is
accepted, and its member is taken for absent.

### Fairness

Only `CallsReturn`, `SearchReturns`, `IngestReturns` and `TasksReturn` need it.  `CallsReturn` assumes that the
goroutine runs when it can (`WF(Step)`; the Go scheduler) and that time passes
when it may (`WF(Tick)`).  The operator, the game and task code get none.
`SearchReturns` assumes that the loop of `Path` keeps running, `IngestReturns`
that the one goroutine of `control ingest` does (`WF(Run)`), `TasksReturn`
that the task's does; the reviewer, the roster, crashes and the game get none.

## 4. What is proved

| theorem | statement | argument |
|---|---|---|
| `KillSwitchFreshness` | `KSSpec => []VerdictIsFresh` | `KSInv`: the verdict in the cache or in flight was right at most `age` ticks ago, plus the flight of the query that fetched it |
| `NoLateCommand` | `Spec => StopsInTime` (of `Ctx`) | `CtxInv` adds to `KSInv` a `Clock` part: at each program point, how long ago the last granted check can have been |
| `TouchesFollowFrames` | `Spec => TouchesAreProven` (of `Ctx`) | `SightInv`: whichever program point waits for a verdict to touch, the game has not been touched since the frame that justified it (`Asking`, `Seeing`) |
| `RestartComesLast` | `Spec => RestartIsLastResort` | `Ladder`, in `SightInv`: at each rung of the panic route, how many unrecognized frames there have been since the last recognized one |
| `ArrivalIsSeen` | `Spec => NavArrives` | `OnRoute`, in `SightInv`: what `walk` has left of its route starts with the edge it is on and ends at the target, so the frame the last hop waited for is one of the target |
| `PathIsShortest` | `Spec => []AnswerIsRight` (of `PathSearch`) | `SearchInv`: queued nodes are of one depth and the next, in this order, each with a walk that gets a hop further with every edge (`Straight`); everything nearer than the head is visited, and what is visited and not queued has only visited successors.  An empty queue then means that `visited` is closed, so nothing reachable is outside it |
| `AnswersAreTaken` | `Spec => []AnswersWithARoute` (of `PathSearch`) | from the same invariant, and because a straight walk repeats no edge: what the search answers is what `Ctx` takes for its answer, one of `ShortestRoutes`, or `ErrNoPath` where there are none |
| `SchedulerTyped` | `Spec => []TypeOK` (of `Scheduler`) | inductive with the shape of the run in hand |
| `BoundedOvertaking` | `Spec => NoSecondTurn` | `SchedInv`: a pair in `passed` is due before the pair that passed it, because that pair's row was counted after it became due |
| `SpacedRuns` | `Spec => RunsAreSpaced` (spacing of counted attempts; not of runs a crash left uncounted) | `SchedInv`: a row is only counted at `FinishRun`, so what the snapshot read is what `StartRun` finds, and due times only grow |
| `EverybodyInTurn` | `Calm => (Spec => []ServedInTurn)` | `TurnInv`: a pair due at d is late by at most a slot (a run and a sleep) for each pair that has been served since d.  Those that may still go before it are the ones counted before d, and every turn that goes to another takes one out of them for good, which pays for the time it took (`FewerGoFirst`, `TurnIsPaid`).  `Calm` leaves failing tasks and the operator's `run-task`; a pause, a store or a device that is down stops everybody's clock but the wall's.  A pair that is run by hand is left out: a success may pull a backed-off due time into the past |
| `OneToOne` | `AssignSpec => []RowsGoOneToOne` | `AssignInv`: a claimed member was free, and in the second phase no open row reads like a confidently claimed member |
| `ClearWinnersWin` | `AssignSpec => []ClearWinnersAreMatched` | `AssignInv` keeps a clear pair either open and free, hence claimable, or matched: whoever would take one half is outbid by the pair |
| `SoundWindows` | `PointsSpec => []WindowsAreSound` | `PointsInv`: `prev` links a seed to an earlier one of no smaller value, so what is kept is in order, and each carried value is the last kept one |
| `DroppedSeedsStayOut` | `PointsSpec => []DroppedSeedsAreQueued` | `Longest`: each finished seed ends a run at least as long as through any earlier seed it may follow, and `best` the longest of all; `Chained`: what is kept is the chain of `prev` from `best`.  A dropped seed inside its window would lengthen that chain |
| `ZeroesMeanAbsence` | `Spec => []ZeroMeansAbsent` (of `VSIngest`) | `VSInv`: a run's scores are those of the aliases it loaded, which only grow (`Matching`); each row is claimed at or above the floor or sights a claimed member (`Claims`); a run with nothing unidentified has assigned every row behind it (`Accounted`).  So a member of the list who would not be mistaken has a row that claims or sights only that member |
| `IngestImplementsBoard` | `Spec => ImplementsBoard` | every `UpsertFact` publishes or stutters, and nothing else touches `facts` |
| `NothingPasses` | `ScrollSpec => []NoRowPassesUnseen` | `SeenToPrev`: everything above the lower edge of the frame kept last is photographed; a kept move is at most `Usable + 1`, so what the new frame's top has passed was whole in the frame before |
| `CompleteIsWhole` | `ScrollSpec => []CompleteHasEveryRow` | `ObeyedSwipeShows`: with fewer swallowed swipes than zero offsets one swipe was obeyed, and it either showed as a movement or met the end of the list; a frame taken on the fling shows a movement too |
| `RowsReadOnce` | `Proportions => (Spec => []RowsAreReadOnce)` (of `AgentTasks`) | `FilmInv`: kept moves are positive and at most `Usable + 1`, and a third one in a row of less than a row's height shows the bottom, so the film does not stand still for long.  `ReadInv`: the newest row read stands where the cursor has it up to one `Tol` per frame since it was read, less than half a row in all, so a frame's rows below it are told from those at and above it.  What is read of a frame is then exactly its bands below, in order; and as no band lies between what one frame and the next show whole, without a dropped band these are all rows up to the frame's last |
| `FilterIsOn` | `Spec => []OnlyAllianceIsPhotographed` (of `AgentTasks`) | `FilterInv`: a checkmark is never drawn for a filter that is off, and the list is scrolled only past a checkmark that was seen |
| `CompleteRecords` | `Spec => []CompleteHasEveryRow` (of `AgentTasks`), and the same for what is recorded | every step of the tasks is a step of `ScrollSpec` or leaves the scroll alone, so the scroll's theorems apply; `RecordInv` carries them to the recorded capture |
| `OneGroupAtATime` | `Spec => []GroupsInIsolation`, unless closing taps are swallowed | `GroupsInv`: whatever was open before, `normalizeGroups` leaves no group open, and opening and closing leave one and none |
| `ChoresReportTruly` | `Spec => []ReportsAreTrue`, for every `Deaf`; of success, unless a tap of `Trusted` was swallowed | `ChoreInv`: per chore and line, what the last frame it saw says of what the game has taken |
| `RosterTyped` | `Spec => []TypeOK` (of `RosterIngest`) | `TypeInv`: a row asked about is marked `reviewed`, and rows are only taken of a frame whose badge was matched, so each band has an owner |
| `BudgetKept` | `Spec => []WithinBudget` | `BudgetInv`: what a run created of a group is among what its rows were resolved to, and `expected`, once known, was read off a frame and never changes, so `CanCreate` bounds the former by the latter |
| `SteadySightingsAgree` | `Spec => [](Steady => SightingsAgree)` | `GeometryInv`: in the coordinates of an open group each collected row stands at its player's place, off by what the offsets had slipped when it was photographed; rows of one player are at most half a pitch apart, so they are one row (`OneRowEach`), and rows of two are more |
| `CompleteMeansEverybody` | `Spec => []CompleteSawEverybody` | `OneRowEach` maps the rows of a group one to one into its players, and the rows of all groups into the alliance; `BudgetInv` says that the count was read, `Honest` that it is right, so there are as many rows as players and the map is onto |
| `GoodPhotographsCount` | `Spec => []NoGoodPhotographIsWasted` | `UsedInv`: of every band the run has passed, if it would identify its row now, the row is somebody.  It would then also have identified it when it was read (`HopeOnlyFades`): a run only adds members and matches, and a count, once read, stays.  The count the run took is one of the counts there are, so room under all of them is room under it |
| `NobodyIsMintedTwice` | `Spec => []NobodyMintedTwice` | `MintInv` remembers the photograph each member was made from, and that no earlier one of that row could have made one, by blank, doubt, missing count or likeness to a member, nor can in a later run; a later run that comes to the photograph itself finds him by name |
| `SettledNamesStay` | `Spec => ResolvedNamesStaySettled` | `Settled`: what the first pass leaves unassigned and reads exactly like one member reads exactly like two |
| `RunsKeepTheirPromises` | `Spec => [](RowsGoOneToOne /\ ClearWinnersAreMatched /\ WindowsAreSound /\ DroppedSeedsAreQueued)` (of `VSIngest`) | `AlgorithmsInv`, the invariants of `Assign` and `Points` together: while a run uses the one, the other does not move, and what starts a run starts both over |
| `IngestTypes` | `Spec => []TypeOK` (of `VSIngest`) | `TypeInv` adds `QueuedOnce`, which rows the run in progress can still queue, and `Counted`, which of them it has passed |
| `RowsHavePixels` | `Spec => []ScreenshotsHaveTheirFrame` (of `Workbench`) | `CamInv`: an object holds what its key says and never goes away, and whoever is about to insert a row has seen its object put or there |
| `FiledForGood` | `Spec => FiledStaysFiled` | `TreeInv`: a torn file has a writer, at its program point and holding that very file, or had one that failed or was killed; so whoever renames or truncates leaves the frame whole, in a writer's hands, or excused |
| `PullsAreHonest` | `Spec => []PullIsHonest`, with the two exceptions stated there | `PullInv`, on `TreeInv`: each entry of the committed index is still to do, in the clone already, or what the pull has in its hands |
| `AloneAllIsSafe` | `Spec => []AloneIsSafe`, frames whose write was cut short losing their stamps | `AloneInv`: with one tool at work, the labels its search has ruled out stay ruled out until it files the frame.  `StampInv`: until the index is rewritten a frame filed in this session is among the session's metas, what was stamped before is in the index or in the hands of its writer, and whoever rewrites the index has listed every frame |
| `AcceptedEditsAllStand` | `Spec => []AcceptedEditsStand`, whichever writes fail, no restore having failed | `LibInv`: at each stage of an edit, how far either file has got from what was accepted, and that the edit holds what would bring it back |

The proofs assume only the named `ASSUME`s of the modules they are about
(`KillSwitchAssumption`, `CtxAssumption`,
`RankingAssumption`, `AssignAssumption`, `VSAssumption`,
`ScrollAssumption`, `RosterAssumption` (rows of one group are listed a pitch apart),
`RostersAssumption`, `FramesAssumption`,
`BytesAssumption`, `CamerasAssumption`, `CorpusAssumption`, `VSCaptureAssumption`,
`RosterCaptureAssumption`, `ChoresAssumption`, and these five, which say something
about the world: `CaptureAssumption`, the shape of a capture and that one which claims
to be complete and has rows has one for everybody on the list, which is what
`CompleteRecords` and `RowsAreReadOnce` say of the capture task; `SentinelAssumption`,
the two values that stand for "no screen" are no screens; `SchedulerAssumption`,
there are finitely many pairs; `GraphAssumption`, the
topology is a finite list of edges between finitely many screens; `ManifestAssumption`, there is a frame and there
are regions enough for the shared-template library `Init` may start from).  They hold for
every graph, number of pairs, cadence, timing bound, score matrix and list, and
for every set of frames, labels, cameras, tools, anchors and groups.

Two theorems have a hypothesis besides.  `EverybodyInTurn` has `Calm`, above.
`RowsReadOnce` has `Proportions`: without it the errors of the offsets, which the
cursor adds up, could grow to half a row over a long list and a row be read twice
or skipped.  It says that a frame is at least two rows high, that the blank space
below the last row is less than a row, that the shortest swipe carries a row and
what a fling may have left, and that half a row exceeds `Blurs + 3` tolerances.  The
lists keep it: rows of 112 and 128 pixels in regions of 720 and 984
(`scrollcapture.go:22-24`); swipes of 247 to 393 pixels measured on the roster
(`roster_capture.go:147`), a drag of 246 before its fling on the ranking, against the
25 a re-look found left (`scrollcapture.go:52`); offsets within 4 pixels, so that up to ten dropped bands leave
2 * 13 * 4 = 104 < 112.

Only model-checked, with the reason:

* all liveness (`CallsReturn`, `SearchReturns`, `IngestReturns`, `TasksReturn`) and
  everything that follows from it: out of the prover's reach;
* `NavAbsorbsMishaps`: it holds of this graph, where a mishap costs a re-plan; for
  graphs in general (a jump to where no route leads from) it is false;
* `RoutedExactly`: it is about one topology, the production one, and TLC tries every
  pair of its screens.

## 5. Plan

Done: the runtime, the scheduler, VS ingest with its matching, its windows and
the tables it shares with the reviewer, the tasks of an agent, roster ingest, and the
workbench: capture service, corpus and template library.
Left, in this order:

1. `RosterIngest` beside a reviewer, with aliases over `FactStore`, and composed
   with the frames `RosterCapture` and `Scroll` produce, so that `Steady` becomes
   a consequence.
2. `OfflineWindow`: the nightly window's arithmetic over days of 23, 24 and 25 hours.

## 6. Not modelled

Pixels: template matching, the probes of a scroll measurement, preprocessing and OCR are what
the models treat as a recognized screen, an offset or a string.  Transport is a
command that reaches the device or fails.  The CLIs, configuration, logging and
migrations are wiring.  Of the labelling pages, which page is drawn and where the
browser is sent is left out, and of the template editor, where a template is found
in its own frame and how a rectangle is padded.
