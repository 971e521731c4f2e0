------------------------------ MODULE VSCapture -----------------------------
(***************************************************************************)
(* vs_capture and the first pass of its ingest: make sure Alliance Duel is *)
(* on the tab with the Ranking button, tick Your Alliance, photograph the  *)
(* ranking, record the frames, and later read the rows off them, dropping  *)
(* what an earlier frame already showed (vsRowCursor).                     *)
(*                                                                         *)
(* The game keeps the filter between sessions and may draw its checkmark   *)
(* some time after it took the tap.  Reading a row is taken to find out    *)
(* which row of the list it is; Blurs times SegmentRows drops a row of a   *)
(* frame.                                                                  *)
(***************************************************************************)
EXTENDS Scroll, Order

CONSTANTS
    Attempts,      \* rankingButtonCheckAttempts and filterTapAttempts
    Blurs          \* how many bands segmentation drops in all

ASSUME VSCaptureAssumption ==
    /\ Attempts \in Nat \ {0} /\ Blurs \in Nat

VARIABLES
    step,      \* where the task, then the ingest, stands
    tries,     \* the counter of the loop it is in
    tab,       \* what Alliance Duel shows: "progress", "other", "unlabelled"
    filter,    \* whether the list holds this alliance only
    mark,      \* whether the checkmark is drawn
    recorded,  \* the capture in the database, if any
    cursor,    \* vsRowCursor, and how many frames it has been through
    rows,      \* the rows read, in order
    blurred    \* how many bands were dropped

taskVars   == <<step, tries>>
screenVars == <<tab, filter, mark>>
ingestVars == <<recorded, cursor, rows, blurred>>
vsVars     == <<scrollVars, taskVars, screenVars, ingestVars>>

NoCapture == [there |-> FALSE, frames |-> <<>>, complete |-> FALSE]

GiveUp == step' = "out" /\ UNCHANGED <<tries, scrollVars, ingestVars>>

-----------------------------------------------------------------------------
(* ensureRankingButton. *)

\* The bottom bar may not be drawn yet.
SeesRanking == tab = "progress"

FindRanking ==
    /\ step = "ranking"
    /\ SeesRanking
    /\ step' = "filter" /\ tries' = 0
    /\ UNCHANGED <<scrollVars, screenVars, ingestVars>>

MissRanking ==
    /\ step = "ranking"
    /\ IF tries + 1 < Attempts
       THEN step' = step /\ tries' = tries + 1
       ELSE step' = "steer" /\ UNCHANGED tries
    /\ UNCHANGED <<scrollVars, screenVars, ingestVars>>

\* The anchor is cropped from the unselected tab; on "unlabelled" there is none.
SelectProgress ==
    /\ step = "steer"
    /\ tab = "other"
    /\ tab' \in {"progress", "other"}
    /\ IF tab' = "progress" THEN step' = "filter" ELSE step' = "out"
    /\ tries' = 0
    /\ UNCHANGED <<scrollVars, filter, mark, ingestVars>>

NowhereToSteer ==
    step = "steer" /\ tab # "other" /\ GiveUp /\ UNCHANGED screenVars

-----------------------------------------------------------------------------
(* applyAllianceFilter. *)

Confirmed ==
    /\ step = "filter"
    /\ mark
    /\ step' = "scroll" /\ tries' = 0
    /\ UNCHANGED <<scrollVars, screenVars, ingestVars>>

\* A tap toggles the filter, or is swallowed; a slow checkmark follows later.
Toggle ==
    /\ filter' \in BOOLEAN
    /\ mark' \in {mark, filter'}
    /\ UNCHANGED tab

\* Mutation of MayTap: the control is tapped before its state is read.
MayTapFirst == step = "filter" /\ (tries = 0 \/ ~mark) /\ tries < Attempts

MayTap == step = "filter" /\ ~mark /\ tries < Attempts

TapFilter ==
    /\ MayTap
    /\ Toggle
    /\ tries' = tries + 1
    /\ UNCHANGED <<step, scrollVars, ingestVars>>

NotApplied ==
    step = "filter" /\ ~mark /\ tries >= Attempts /\ GiveUp /\ UNCHANGED screenVars

-----------------------------------------------------------------------------
(* The list, and its record. *)

\* A scroll that failed is recorded too, as partial.
Record ==
    /\ step = "scroll"
    /\ at \in {"done", "failed"}
    /\ recorded' = [there |-> TRUE, frames |-> frames,
                    complete |-> at = "done" /\ complete]
    /\ step' = "read"
    /\ UNCHANGED <<tries, scrollVars, screenVars, cursor, rows, blurred>>

\* The kill switch, adb or the database ends the task where it stands.
Abort ==
    /\ step \in {"ranking", "steer", "filter", "scroll"}
    /\ step = "scroll" => at \in {"done", "failed"}
    /\ GiveUp
    /\ UNCHANGED screenVars

-----------------------------------------------------------------------------
(* readVSRows. *)

Ended == cursor.frame > Len(recorded.frames)

\* The bands of a frame: the rows whole in it.
BandsOf(f) == {r \in 1 .. list : f.top <= RowTop(r) /\ RowTop(r) + Pitch <= f.top + Height}

\* Mutation of IsNew: no allowance for the measurement.
IsNewByAnything(rowY) == cursor.lastRowY < 0 \/ rowY > cursor.lastRowY

IsNew(rowY) == cursor.lastRowY < 0 \/ rowY > cursor.lastRowY + Pitch \div 2

\* The bands stand a pitch apart and in order, so accepting one of them never
\* rejects the next: those below the threshold are dropped, the rest is read.
ReadFrame ==
    /\ step = "read"
    /\ ~Ended
    /\ LET f == recorded.frames[cursor.frame]
           contentY == IF cursor.frame = 1 THEN 0 ELSE cursor.contentY + f.offset
           rowY(r) == contentY + (RowTop(r) - f.top)
       IN  \E lost \in {{}} \cup {{r} : r \in BandsOf(f)} :
             LET seen  == {r \in BandsOf(f) \ lost : IsNew(rowY(r))}
                 bands == InOrder(seen)
             IN  /\ lost = {} \/ blurred < Blurs
                 /\ blurred' = IF lost = {} THEN blurred ELSE blurred + 1
                 /\ rows' = rows \o bands
                 /\ cursor' = [frame |-> cursor.frame + 1, contentY |-> contentY,
                               lastRowY |-> IF seen = {} THEN cursor.lastRowY
                                            ELSE rowY(bands[Len(bands)])]
    /\ UNCHANGED <<taskVars, scrollVars, screenVars, recorded>>

RowsRead ==
    /\ step = "read" /\ Ended
    /\ step' = "out"
    /\ UNCHANGED <<tries, scrollVars, screenVars, ingestVars>>

DrawMark ==
    /\ mark # filter
    /\ mark' = filter
    /\ UNCHANGED <<scrollVars, taskVars, tab, filter, ingestVars>>

VSStep == \/ FindRanking \/ MissRanking \/ SelectProgress \/ NowhereToSteer
          \/ Confirmed \/ TapFilter \/ NotApplied
          \/ step = "scroll" /\ ScrollStep /\ UNCHANGED <<taskVars, screenVars, ingestVars>>
          \/ Record \/ Abort \/ ReadFrame \/ RowsRead

VSInit ==
    /\ ScrollInit
    /\ step = "ranking" /\ tries = 0
    /\ tab \in {"progress", "other", "unlabelled"}
    /\ filter \in BOOLEAN /\ mark = filter
    /\ recorded = NoCapture
    /\ cursor = [frame |-> 1, contentY |-> 0, lastRowY |-> -1]
    /\ rows = <<>> /\ blurred = 0

-----------------------------------------------------------------------------
\* Only the own alliance is ever photographed: whatever an earlier session left
\* of the filter, whichever taps are swallowed and however late the checkmark is
\* drawn, the list is filtered from the first frame to the last.
OnlyAllianceIsPhotographed == step = "scroll" => filter

\* RowsAreReadOnce: rows are read in the ranking's order and none of them
\* twice, whatever the offsets were off by and whatever segmentation dropped,
\* as the points windows and the matching rely on; and unless segmentation
\* dropped a band, the rows read off a complete capture are all the rows there
\* are: only then may an absent member be given a zero.
RowsAreReadOnce ==
    /\ \A i \in 1 .. Len(rows) - 1 : rows[i] < rows[i + 1]
    /\ step = "read" /\ Ended /\ recorded.complete /\ blurred = 0 => Len(rows) = list

=============================================================================
