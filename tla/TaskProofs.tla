----------------------------- MODULE TaskProofs -----------------------------
(***************************************************************************)
(* What the tasks of one agent promise, for every list, swipe, fling and   *)
(* error of measurement ScrollAssumption allows and for every number of    *)
(* retries, groups, donations and mailboxes.                               *)
(*                                                                         *)
(* scrollCapture first: no row passes unseen, because a kept move never    *)
(* reaches past the rows the frame before it showed whole (SeenToPrev);    *)
(* and a capture called complete has every row, because with more zero     *)
(* offsets in a row than the game swallows swipes one swipe was obeyed,    *)
(* and it either showed in the measurement or met the end of the list      *)
(* (ObeyedSwipeShows).                                                     *)
(*                                                                         *)
(* Then the reading of the recorded frames (RowsReadOnce): the cursor adds *)
(* up offsets each of which may be off, but the newest row it read is      *)
(* never many frames old, so the error in hand stays below half a row and  *)
(* every frame's rows are told new from old.                               *)
(*                                                                         *)
(* Then the tasks around it: that only the own alliance is photographed,   *)
(* that no two rank groups are open in front of the camera, and that a     *)
(* chore does not report what it has not done.  Each task has an invariant *)
(* of its own, over its own variables; the agent runs one of them at a     *)
(* time and leaves the others' alone.                                      *)
(***************************************************************************)
EXTENDS AgentTasks, OrderProofs

-----------------------------------------------------------------------------
(* scrollCapture. *)

Frame == [top : Int, offset : Int]

ScrollType ==
    /\ list \in Nat
    /\ pos \in Int /\ coast \in Nat /\ prev \in Nat
    /\ swallowed \in 0 .. MaxSwallowed
    /\ zeroes \in Nat
    /\ at \in {"first", "loop", "look", "done", "failed"}
    /\ frames \in Seq(Frame)
    /\ complete \in BOOLEAN

\* The list is never past its bottom, nor behind the frame kept last.
InPlace ==
    /\ prev <= pos /\ pos + coast <= Bottom
    /\ at = "first" => frames = <<>> /\ pos = 0 /\ prev = 0 /\ zeroes = 0
    /\ at # "done" => ~complete

\* Everything down to the lower edge of the frame kept last is whole in some
\* frame.
SeenToPrev ==
    frames # <<>> => \A y \in Nat : y + Pitch <= prev + Height => Photographed(y)

\* Swipes since the frame kept last.
Tried == IF at = "look" THEN zeroes + 1 ELSE zeroes

\* If the game obeyed one of them, the list is at its end or is seen to have
\* moved; a fling that is photographed on its way is seen to move.
ObeyedSwipeShows ==
    /\ at \in {"loop", "look"} /\ swallowed < Tried =>
          pos + coast = Bottom \/ pos - prev > Tol
    /\ at = "look" /\ coast > 0 => pos - prev > Tol
    /\ at = "loop" /\ zeroes > 0 => coast = 0

ProvenToTheEnd == complete => frames # <<>> /\ list * Pitch <= prev + Height

Framed == at \notin {"first", "failed"} => frames # <<>>

ScrollInv == ScrollType /\ InPlace /\ SeenToPrev /\ ObeyedSwipeShows
             /\ ProvenToTheEnd /\ Framed

-----------------------------------------------------------------------------
(* Arithmetic. *)

\* The bottom leaves every row, and the margin, above the region's edge.
LEMMA BottomIsEnough ==
    ASSUME list \in Nat
    PROVE  Bottom \in Nat /\ list * Pitch + Margin <= Bottom + Height
<1>1. list * Pitch \in Nat
  BY ScrollAssumption
<1>2. QED
  BY <1>1, ScrollAssumption DEF Bottom

\* A row of the list ends no later than its last row.
LEMMA RowsEndInTime ==
    ASSUME NEW n \in Nat, NEW r \in 1 .. n
    PROVE  RowTop(r) \in Nat /\ RowTop(r) + Pitch <= n * Pitch
<1>1. Pitch \in Nat
  BY ScrollAssumption
<1>2. r * Pitch \in Nat /\ n * Pitch \in Nat /\ (r - 1) * Pitch \in Nat
      /\ (n - r) * Pitch \in Nat
  BY <1>1
<1>3. n * Pitch = r * Pitch + (n - r) * Pitch /\ r * Pitch = (r - 1) * Pitch + Pitch
  BY <1>1
<1>4. QED
  BY <1>1, <1>2, <1>3 DEF RowTop

-----------------------------------------------------------------------------
(* Keeping a frame. *)

\* What was photographed stays photographed, and the new frame adds its own.
LEMMA KeepPhotographs ==
    ASSUME ScrollType, NEW m \in Int, Keep(m), NEW y \in Int,
           Photographed(y) \/ (pos <= y /\ y + Pitch <= pos + Height)
    PROVE  Photographed(y)'
<1>1. /\ Len(frames) \in Nat
      /\ DOMAIN frames = 1 .. Len(frames)
      /\ DOMAIN frames' = 1 .. (Len(frames) + 1)
      /\ \A i \in 1 .. Len(frames) : frames'[i] = frames[i]
      /\ frames'[Len(frames) + 1] = [top |-> pos, offset |-> m]
  BY DEF ScrollType, Keep, Frame
<1>2. CASE Photographed(y)
  BY <1>1, <1>2 DEF Photographed
<1>3. CASE pos <= y /\ y + Pitch <= pos + Height
  <2>1. Len(frames) + 1 \in DOMAIN frames' /\ frames'[Len(frames) + 1].top = pos
    BY <1>1
  <2>2. QED
    BY <1>3, <2>1 DEF Photographed
<1>4. QED
  BY <1>2, <1>3

\* A kept move is at most one pixel longer than what the frame before it
\* showed of its rows.
LEMMA KeptMovesAreShort ==
    ASSUME ScrollType, NEW m \in Offsets, Within(m)
    PROVE  pos - prev <= Usable + 1
<1>1. m \in Int /\ m <= Usable /\ m <= Reach /\ pos - prev - Tol <= m
  BY ScrollAssumption DEF Offsets, Within, ScrollType, Reach
<1>2. QED
  BY <1>1, ScrollAssumption DEF ScrollType, Usable, Reach

-----------------------------------------------------------------------------
(* The game's own moves. *)

\* An obeyed swipe brings the list to its end or well past where it was; caught
\* on its way, it can be seen to move.
LEMMA ObeyedSwipe ==
    ASSUME ScrollType, InPlace, NEW d \in Travels, Swiped(d), UNCHANGED <<list, prev>>
    PROVE  /\ pos' \in Int /\ coast' \in Nat
           /\ prev <= pos' /\ pos' + coast' <= Bottom
           /\ pos' + coast' = Bottom \/ pos' - prev > Tol
           /\ coast' > 0 => pos' - prev > Tol
<1> DEFINE from == pos + coast
           aim  == IF from + d < Bottom THEN from + d ELSE Bottom
<1>1. /\ Bottom \in Nat /\ d \in Nat /\ d > Coast + 2 * Tol
      /\ from \in Int /\ prev <= from /\ from <= Bottom
      /\ Tol \in Nat /\ Coast \in Nat /\ prev \in Nat
  BY BottomIsEnough, ScrollAssumption DEF ScrollType, InPlace
<1>2. PICK rest \in 0 .. Coast : /\ rest = 0 \/ aim - rest > from + Tol
                                 /\ pos' = aim - rest
                                 /\ coast' = rest
  BY DEF Swiped
<1>3. aim \in Int /\ from <= aim /\ aim <= Bottom /\ (aim = Bottom \/ aim = from + d)
  BY <1>1
<1> HIDE DEF from, aim
<1>4. QED
  BY <1>1, <1>2, <1>3

\* A list that is left alone comes to rest where its fling was going.
LEMMA Settling ==
    ASSUME ScrollType, InPlace, Settled, UNCHANGED <<list, prev>>
    PROVE  /\ pos' \in Int /\ coast' = 0
           /\ prev <= pos' /\ pos <= pos' /\ pos' + coast' <= Bottom
           /\ pos' + coast' = pos + coast
  BY BottomIsEnough DEF ScrollType, InPlace, Settled

\* What is seen to have moved is still seen to have when it moves on.
LEMMA Further ==
    ASSUME ScrollType, NEW p \in Int, pos <= p, pos - prev > Tol
    PROVE  p - prev > Tol
<1>1. pos \in Int /\ prev \in Int /\ Tol \in Int
  BY ScrollAssumption DEF ScrollType
<1>2. QED
  BY <1>1

-----------------------------------------------------------------------------
(* The steps. *)

\* What only speaks of the frames and the list is left alone by a step that
\* leaves both alone.
LEMMA FramesKept ==
    ASSUME ScrollInv, UNCHANGED <<list, prev, frames>>
    PROVE  SeenToPrev'
<1>1. \A y : Photographed(y)' = Photographed(y)
  BY DEF Photographed
<1>2. QED
  BY <1>1 DEF ScrollInv, SeenToPrev

LEMMA SwipeKeepsScrollInv == ScrollInv /\ Swipe => ScrollInv'
<1> SUFFICES ASSUME ScrollInv, Swipe PROVE ScrollInv'
  OBVIOUS
<1>1. UNCHANGED <<list, prev, frames, zeroes, complete>> /\ at = "loop" /\ at' = "look"
  BY DEF Swipe
<1>2. Bottom' = Bottom
  BY <1>1 DEF Bottom
<1>3. CASE (\E d \in Travels : Swiped(d)) /\ swallowed' = 0
  <2>1. /\ pos' \in Int /\ coast' \in Nat
        /\ prev <= pos' /\ pos' + coast' <= Bottom
        /\ pos' + coast' = Bottom \/ pos' - prev > Tol
        /\ coast' > 0 => pos' - prev > Tol
    BY <1>1, <1>3, ObeyedSwipe DEF ScrollInv
  <2>2. ScrollType'
    BY <1>1, <1>3, <2>1, ScrollAssumption DEF ScrollInv, ScrollType
  <2>3. InPlace'
    BY <1>1, <1>2, <2>1 DEF ScrollInv, InPlace
  <2>4. ObeyedSwipeShows'
    BY <1>1, <1>2, <2>1 DEF ObeyedSwipeShows
  <2>5. QED
    BY <1>1, <2>2, <2>3, <2>4, FramesKept DEF ScrollInv, ProvenToTheEnd, Framed
<1>4. CASE swallowed < MaxSwallowed /\ Settled /\ swallowed' = swallowed + 1
  <2>1. /\ pos' \in Int /\ coast' = 0
        /\ prev <= pos' /\ pos <= pos' /\ pos' + coast' <= Bottom
        /\ pos' + coast' = pos + coast
    BY <1>1, <1>4, Settling DEF ScrollInv
  <2>2. ScrollType'
    BY <1>1, <1>4, <2>1, ScrollAssumption DEF ScrollInv, ScrollType
  <2>3. InPlace'
    BY <1>1, <1>2, <2>1 DEF ScrollInv, InPlace
  <2>4. swallowed' < Tried' => pos + coast = Bottom \/ pos - prev > Tol
    BY <1>1, <1>4 DEF ScrollInv, ScrollType, ObeyedSwipeShows, Tried
  <2>5. pos - prev > Tol => pos' - prev > Tol
    BY <2>1, Further DEF ScrollInv
  <2>6. ObeyedSwipeShows'
    BY <1>1, <1>2, <2>1, <2>4, <2>5 DEF ObeyedSwipeShows
  <2>7. QED
    BY <1>1, <2>2, <2>3, <2>6, FramesKept DEF ScrollInv, ProvenToTheEnd, Framed
<1>5. QED
  BY <1>3, <1>4 DEF Swipe

LEMMA LookAgainKeepsScrollInv == ScrollInv /\ LookAgain => ScrollInv'
<1> SUFFICES ASSUME ScrollInv, LookAgain PROVE ScrollInv'
  OBVIOUS
<1>1. /\ UNCHANGED <<list, prev, frames, zeroes, complete, at, swallowed>>
      /\ at = "look" /\ Settled
  BY DEF LookAgain, MayLookAgain
<1>2. Bottom' = Bottom /\ Tried' = Tried
  BY <1>1 DEF Bottom, Tried
<1>3. /\ pos' \in Int /\ coast' = 0
      /\ prev <= pos' /\ pos <= pos' /\ pos' + coast' <= Bottom
      /\ pos' + coast' = pos + coast
  BY <1>1, Settling DEF ScrollInv
<1>4. ScrollType'
  BY <1>1, <1>3 DEF ScrollInv, ScrollType
<1>5. InPlace'
  BY <1>1, <1>2, <1>3 DEF ScrollInv, InPlace
<1>6. pos - prev > Tol => pos' - prev > Tol
  BY <1>3, Further DEF ScrollInv
<1>7. swallowed < Tried => pos' + coast' = Bottom' \/ pos' - prev' > Tol
  BY <1>1, <1>2, <1>3, <1>6 DEF ObeyedSwipeShows, ScrollInv
<1>8. ~(coast' > 0)
  BY <1>3
<1>9. ObeyedSwipeShows'
  BY <1>1, <1>2, <1>7, <1>8 DEF ObeyedSwipeShows
<1>10. QED
  BY <1>1, <1>4, <1>5, <1>9, FramesKept DEF ScrollInv, ProvenToTheEnd, Framed

\* A zero offset means the list has not moved by more than the tolerance, and
\* is at rest.
LEMMA ZeroOffset ==
    ASSUME ScrollInv, at = "look", 0 \in Offsets
    PROVE  /\ pos - prev <= Tol /\ coast = 0
           /\ swallowed < zeroes + 1 => pos = Bottom
<1>1. pos - prev <= Tol
  BY ScrollAssumption DEF Offsets, ScrollInv, ScrollType
<1>2. coast = 0
  BY <1>1, ScrollAssumption DEF ScrollInv, ScrollType, ObeyedSwipeShows
<1>3. QED
  BY <1>1, <1>2, ScrollAssumption DEF ScrollInv, ScrollType, ObeyedSwipeShows, Tried

LEMMA UnmovedKeepsScrollInv == ScrollInv /\ Unmoved => ScrollInv'
<1> SUFFICES ASSUME ScrollInv, Unmoved PROVE ScrollInv'
  OBVIOUS
<1>1. /\ UNCHANGED <<list, pos, coast, swallowed, prev, frames, complete>>
      /\ at = "look" /\ at' = "loop" /\ zeroes' = zeroes + 1 /\ 0 \in Offsets
  BY DEF Unmoved, gameVars
<1>2. Bottom' = Bottom /\ Tried' = Tried
  BY <1>1 DEF Bottom, Tried
<1>3. ScrollType' /\ InPlace'
  BY <1>1, <1>2 DEF ScrollInv, ScrollType, InPlace
<1>4. ObeyedSwipeShows'
  BY <1>1, <1>2, ZeroOffset DEF ScrollInv, ObeyedSwipeShows
<1>5. QED
  BY <1>1, <1>3, <1>4, FramesKept DEF ScrollInv, ProvenToTheEnd, Framed

LEMMA BottomProvenKeepsScrollInv == ScrollInv /\ BottomProven => ScrollInv'
<1> SUFFICES ASSUME ScrollInv, BottomProven PROVE ScrollInv'
  OBVIOUS
<1>1. /\ UNCHANGED <<list, pos, coast, swallowed, zeroes, prev, frames>>
      /\ at = "look" /\ at' = "done" /\ complete' = TRUE
      /\ 0 \in Offsets /\ zeroes + 1 >= ZeroRetries
  BY DEF BottomProven, BelievesZero, Done, gameVars
<1>2. Bottom' = Bottom
  BY <1>1 DEF Bottom
<1>3. ScrollType' /\ InPlace'
  BY <1>1, <1>2 DEF ScrollInv, ScrollType, InPlace
<1>4. ObeyedSwipeShows' /\ Framed'
  BY <1>1 DEF ObeyedSwipeShows, ScrollInv, Framed
<1>5. ProvenToTheEnd'
  <2>1. pos = Bottom /\ pos - prev <= Tol
    BY <1>1, ZeroOffset, ScrollAssumption DEF ScrollInv, ScrollType
  <2>2. Bottom \in Nat /\ list * Pitch + Margin <= Bottom + Height
    BY BottomIsEnough DEF ScrollInv, ScrollType
  <2>3. list * Pitch \in Nat
    BY ScrollAssumption DEF ScrollInv, ScrollType
  <2>4. list * Pitch <= prev + Height
    BY <2>1, <2>2, <2>3, ScrollAssumption DEF ScrollInv, ScrollType
  <2>5. QED
    BY <1>1, <2>4 DEF ProvenToTheEnd, ScrollInv, Framed
<1>6. QED
  BY <1>1, <1>3, <1>4, <1>5, FramesKept DEF ScrollInv

LEMMA FirstFrameKeepsScrollInv == ScrollInv /\ FirstFrame => ScrollInv'
<1> SUFFICES ASSUME ScrollInv, FirstFrame PROVE ScrollInv'
  OBVIOUS
<1>1. /\ UNCHANGED <<list, pos, coast, swallowed, zeroes, complete>>
      /\ at = "first" /\ at' = "loop" /\ Keep(0)
      /\ frames = <<>> /\ pos = 0 /\ prev = 0 /\ ~complete
      /\ prev' = 0 /\ frames' = Append(frames, [top |-> pos, offset |-> 0])
  BY DEF FirstFrame, gameVars, Keep, ScrollInv, InPlace
<1>2. Bottom' = Bottom
  BY <1>1 DEF Bottom
<1>3. frames' \in Seq(Frame) /\ frames' # <<>>
  BY <1>1 DEF ScrollInv, ScrollType, Frame
<1>4. ScrollType' /\ InPlace'
  BY <1>1, <1>2, <1>3 DEF ScrollInv, ScrollType, InPlace
<1>5. SeenToPrev'
  <2>1. SUFFICES ASSUME NEW y \in Nat, y + Pitch <= prev' + Height
                 PROVE  Photographed(y)'
    BY DEF SeenToPrev
  <2>2. pos <= y /\ y + Pitch <= pos + Height
    BY <1>1, <2>1
  <2>3. QED
    BY <1>1, <2>2, KeepPhotographs DEF ScrollInv
<1>6. zeroes' = 0 /\ Tried' = 0
  BY <1>1 DEF Tried, ScrollInv, InPlace
<1>7. ObeyedSwipeShows'
  BY <1>1, <1>6 DEF ObeyedSwipeShows, ScrollInv, ScrollType, InPlace
<1>8. QED
  BY <1>1, <1>3, <1>4, <1>5, <1>7 DEF ScrollInv, ProvenToTheEnd, Framed

\* A row that ends above the lower edge of the new frame is in the frame
\* before it or in the new one, for the list moved by Usable + 1 at most.
LEMMA KeepFrameKeepsScrollInv == ScrollInv /\ KeepFrame => ScrollInv'
<1> SUFFICES ASSUME ScrollInv, KeepFrame PROVE ScrollInv'
  OBVIOUS
<1>1. PICK m \in Offsets : Within(m) /\ Keep(m)
  BY DEF KeepFrame
<1>2. /\ UNCHANGED <<list, pos, coast, swallowed, complete>>
      /\ at = "look" /\ at' = "loop" /\ zeroes' = 0 /\ prev' = pos
      /\ frames' = Append(frames, [top |-> pos, offset |-> m])
      /\ frames # <<>> /\ ~complete
  BY <1>1 DEF KeepFrame, gameVars, Keep, ScrollInv, Framed, InPlace
<1>3. Bottom' = Bottom /\ Tried' = 0
  BY <1>2 DEF Bottom, Tried
<1>4. m \in Int
  BY ScrollAssumption DEF Offsets, Reach
<1>5. frames' \in Seq(Frame) /\ frames' # <<>>
  BY <1>2, <1>4 DEF ScrollInv, ScrollType, Frame
<1>6. pos \in Nat
  BY DEF ScrollInv, ScrollType, InPlace
<1>7. ScrollType' /\ InPlace'
  BY <1>2, <1>3, <1>5, <1>6 DEF ScrollInv, ScrollType, InPlace
<1>8. SeenToPrev'
  <2>1. SUFFICES ASSUME NEW y \in Nat, y + Pitch <= prev' + Height
                 PROVE  Photographed(y)'
    BY DEF SeenToPrev
  <2>2. y + Pitch <= pos + Height
    BY <1>2, <2>1
  <2>3. CASE y + Pitch <= prev + Height
    <3>1. Photographed(y)
      BY <1>2, <2>3 DEF ScrollInv, SeenToPrev
    <3>2. QED
      BY <1>1, <1>4, <3>1, KeepPhotographs DEF ScrollInv
  <2>4. CASE ~(y + Pitch <= prev + Height)
    <3>1. pos - prev <= Usable + 1
      BY <1>1, KeptMovesAreShort DEF ScrollInv
    <3>2. pos <= y
      BY <1>6, <2>4, <3>1, ScrollAssumption DEF Usable, ScrollInv, ScrollType
    <3>3. QED
      BY <1>1, <1>4, <2>2, <3>2, KeepPhotographs DEF ScrollInv
  <2>5. QED
    BY <2>3, <2>4
<1>9. ObeyedSwipeShows'
  BY <1>2, <1>3 DEF ObeyedSwipeShows, ScrollInv, ScrollType
<1>10. QED
  BY <1>2, <1>5, <1>7, <1>8, <1>9 DEF ScrollInv, ProvenToTheEnd, Framed

\* A capture that ends without a proven bottom claims nothing.
LEMMA EndingKeepsScrollInv == ScrollInv /\ (OutOfFrames \/ Fail) /\ at # "done" => ScrollInv'
<1> SUFFICES ASSUME ScrollInv, OutOfFrames \/ Fail, at # "done" PROVE ScrollInv'
  OBVIOUS
<1>1. /\ UNCHANGED <<list, pos, coast, swallowed, zeroes, prev, frames>>
      /\ at' \in {"done", "failed"} /\ complete' = FALSE
      /\ at' = "done" => at = "loop"
  <2>1. complete = FALSE
    BY DEF ScrollInv, ScrollType, InPlace
  <2>2. QED
    BY <2>1 DEF OutOfFrames, Done, Fail, gameVars
<1>2. Bottom' = Bottom
  BY <1>1 DEF Bottom
<1>3. ScrollType' /\ InPlace'
  BY <1>1, <1>2 DEF ScrollInv, ScrollType, InPlace
<1>4. ObeyedSwipeShows' /\ ProvenToTheEnd'
  BY <1>1 DEF ObeyedSwipeShows, ProvenToTheEnd
<1>5. Framed'
  BY <1>1 DEF Framed, ScrollInv
<1>6. QED
  BY <1>1, <1>3, <1>4, <1>5, FramesKept DEF ScrollInv

LEMMA StutterKeepsScrollInv == ScrollInv /\ UNCHANGED scrollVars => ScrollInv'
<1> SUFFICES ASSUME ScrollInv, UNCHANGED scrollVars PROVE ScrollInv'
  OBVIOUS
<1>1. UNCHANGED <<list, pos, coast, swallowed, at, zeroes, prev, frames, complete>>
  BY DEF scrollVars, gameVars, loopVars
<1>2. Bottom' = Bottom /\ Tried' = Tried
  BY <1>1 DEF Bottom, Tried
<1>3. QED
  BY <1>1, <1>2, FramesKept
     DEF ScrollInv, ScrollType, InPlace, ObeyedSwipeShows, ProvenToTheEnd, Framed

-----------------------------------------------------------------------------
(* The promises. *)

LEMMA ScrollInvInit == ScrollInit => ScrollInv
<1> SUFFICES ASSUME ScrollInit PROVE ScrollInv
  OBVIOUS
<1>1. list \in Nat
  BY ScrollAssumption DEF ScrollInit
<1>2. Bottom \in Nat
  BY <1>1, BottomIsEnough
<1>3. frames \in Seq(Frame)
  BY DEF ScrollInit
<1>4. ScrollType
  <2>1. 0 \in 0 .. MaxSwallowed
    BY ScrollAssumption
  <2>2. pos \in Int /\ coast \in Nat /\ prev \in Nat /\ zeroes \in Nat
    BY DEF ScrollInit
  <2>3. swallowed \in 0 .. MaxSwallowed
    BY <2>1 DEF ScrollInit
  <2>4. at \in {"first", "loop", "look", "done", "failed"} /\ complete \in BOOLEAN
    BY DEF ScrollInit
  <2>5. QED
    BY <1>1, <1>3, <2>2, <2>3, <2>4 DEF ScrollType
<1>5. InPlace
  BY <1>2 DEF ScrollInit, InPlace
<1>6. QED
  BY <1>4, <1>5 DEF ScrollInit, ScrollInv, SeenToPrev, ObeyedSwipeShows, ProvenToTheEnd, Framed

LEMMA StepsKeepScrollInv == ScrollInv /\ [ScrollStep]_scrollVars => ScrollInv'
<1> SUFFICES ASSUME ScrollInv, [ScrollStep]_scrollVars PROVE ScrollInv'
  OBVIOUS
<1>1. CASE OutOfFrames \/ Overshot \/ Unmeasurable \/ Interrupted
  BY <1>1, EndingKeepsScrollInv DEF OutOfFrames, Overshot, Unmeasurable, Interrupted
<1>2. CASE FirstFrame \/ Swipe \/ LookAgain \/ Unmoved \/ BottomProven \/ KeepFrame
  BY <1>2, FirstFrameKeepsScrollInv, SwipeKeepsScrollInv, LookAgainKeepsScrollInv,
     UnmovedKeepsScrollInv, BottomProvenKeepsScrollInv, KeepFrameKeepsScrollInv
<1>3. QED
  BY <1>1, <1>2, StutterKeepsScrollInv DEF ScrollStep

\* No row above the lower edge of the frame kept last has passed unphotographed:
\* what usableHeight and ScrollOffset's reach are there for.
THEOREM NothingPasses == ScrollSpec => []NoRowPassesUnseen
<1>1. ScrollInv => NoRowPassesUnseen
  <2> SUFFICES ASSUME ScrollInv, frames # <<>>, NEW r \in 1 .. list,
                      RowTop(r) + Pitch <= prev + Height
               PROVE  Photographed(RowTop(r))
    BY DEF NoRowPassesUnseen
  <2>1. RowTop(r) \in Nat
    BY RowsEndInTime DEF ScrollInv, ScrollType
  <2>2. QED
    BY <2>1 DEF ScrollInv, SeenToPrev
<1>2. QED
  BY <1>1, ScrollInvInit, StepsKeepScrollInv, PTL DEF ScrollSpec

\* A capture called complete has every row of the list, as long as the game
\* swallows fewer swipes in a row than zeroOffsetRetries.
THEOREM CompleteIsWhole == ScrollSpec => []CompleteHasEveryRow
<1>1. ScrollInv => CompleteHasEveryRow
  <2> SUFFICES ASSUME ScrollInv, complete, NEW r \in 1 .. list
               PROVE  Photographed(RowTop(r))
    BY DEF CompleteHasEveryRow
  <2>1. frames # <<>> /\ list * Pitch <= prev + Height
    BY DEF ScrollInv, ProvenToTheEnd
  <2>2. RowTop(r) \in Nat /\ RowTop(r) + Pitch <= list * Pitch
    BY RowsEndInTime DEF ScrollInv, ScrollType
  <2>3. list * Pitch \in Nat /\ Pitch \in Nat /\ prev + Height \in Nat
    BY ScrollAssumption DEF ScrollInv, ScrollType
  <2>4. RowTop(r) + Pitch <= prev + Height
    BY <2>1, <2>2, <2>3
  <2>5. QED
    BY <2>1, <2>2, <2>4 DEF ScrollInv, SeenToPrev
<1>2. QED
  BY <1>1, ScrollInvInit, StepsKeepScrollInv, PTL DEF ScrollSpec

-----------------------------------------------------------------------------
(* The frames of a scroll, as a film: how far it moves from one to the     *)
(* next.                                                                   *)

MoveOf(fs, i) == fs[i].top - fs[i - 1].top

\* Moves of less than a row: a fling that was photographed on its way comes to
\* rest, or the list meets its end.
Short(fs, i) == MoveOf(fs, i) < Pitch

FilmOK(fs) ==
    /\ fs \in Seq(Frame)
    /\ fs # <<>> => fs[1].top = 0
    /\ \A i \in DOMAIN fs : fs[i].top \in 0 .. Bottom
    /\ \A i \in 2 .. Len(fs) :
          /\ MoveOf(fs, i) \in 1 .. Usable + 1
          /\ fs[i].offset \in Nat
          /\ fs[i].offset - MoveOf(fs, i) \in -Tol .. Tol
    /\ \A i \in 4 .. Len(fs) :
          Short(fs, i - 1) /\ Short(fs, i - 2) => fs[i].top = Bottom

\* How large the lists' moves are beside a row and a frame, and the errors of
\* measurement beside them: rows of 112 and 128 pixels in regions of 720 and 984,
\* swipes that carry more than a row, offsets within 4 pixels, up to ten bands
\* dropped, and less than a row of blank space below the last one.
Proportions ==
    /\ 2 * Pitch <= Height
    /\ Margin < Pitch
    /\ \A d \in Travels : d >= Pitch + Coast
    /\ 2 * ((Blurs + 3) * Tol) < Pitch

\* What the list may do next, by what the newest frames show.
Pace ==
    /\ at = "look" => coast = 0 \/ pos + coast = Bottom \/ pos - prev >= Pitch
    /\ at \in {"loop", "look"} /\ Len(frames) >= 2 /\ Short(frames, Len(frames)) =>
          \/ coast = 0 /\ pos = prev
          \/ pos + coast = Bottom
          \/ pos - prev >= Pitch
    /\ at \in {"loop", "look"} /\ Len(frames) >= 3
          /\ Short(frames, Len(frames)) /\ Short(frames, Len(frames) - 1) =>
          /\ pos + coast = Bottom
          /\ at = "look" => pos = Bottom

FilmInv ==
    /\ FilmOK(frames)
    /\ frames # <<>> => frames[Len(frames)].top = prev
    /\ Pace

LEMMA FilmKept ==
    ASSUME FilmOK(frames), UNCHANGED <<list, frames>>
    PROVE  FilmOK(frames)'
<1>1. Bottom' = Bottom
  BY DEF Bottom
<1>2. QED
  BY <1>1 DEF FilmOK, MoveOf, Short

LEMMA ObeyedSwipeIsLong ==
    ASSUME Proportions, ScrollType, InPlace, NEW d \in Travels, Swiped(d), UNCHANGED <<list, prev>>
    PROVE  /\ pos' + coast' = Bottom \/ pos' - prev >= Pitch
           /\ pos + coast = Bottom => pos' = Bottom /\ coast' = 0
<1> DEFINE from == pos + coast
           aim  == IF from + d < Bottom THEN from + d ELSE Bottom
<1>1. /\ Bottom \in Nat /\ d \in Nat /\ d >= Pitch + Coast
      /\ from \in Int /\ prev <= from /\ from <= Bottom
      /\ Tol \in Nat /\ Coast \in Nat /\ prev \in Nat /\ Pitch \in Nat \ {0}
  BY BottomIsEnough, ScrollAssumption DEF ScrollType, InPlace, Proportions
<1>2. PICK rest \in 0 .. Coast : /\ rest = 0 \/ aim - rest > from + Tol
                                 /\ pos' = aim - rest
                                 /\ coast' = rest
  BY DEF Swiped
<1>3. aim \in Int /\ from <= aim /\ aim <= Bottom /\ (aim = Bottom \/ aim = from + d)
  BY <1>1
<1>4. (pos + coast = Bottom) = (from = Bottom)
  OBVIOUS
<1> HIDE DEF from, aim
<1>5. QED
  BY <1>1, <1>2, <1>3, <1>4

LEMMA FilmSwipe ==
    ASSUME Proportions, ScrollInv, FilmInv, Swipe \/ LookAgain
    PROVE  FilmInv'
<1>1. /\ UNCHANGED <<list, prev, frames>> /\ at' = "look"
      /\ at \in {"loop", "look"}
      /\ Settled \/ \E d \in Travels : Swiped(d)
  BY DEF Swipe, LookAgain, MayLookAgain
<1>2. Bottom' = Bottom
  BY <1>1 DEF Bottom
<1>3. FilmOK(frames)' /\ (frames # <<>> => frames[Len(frames)].top = prev)'
  BY <1>1, FilmKept DEF FilmInv
<1>4. CASE Settled
  <2>1. /\ pos' \in Int /\ coast' = 0 /\ pos <= pos' /\ pos' + coast' = pos + coast
    BY <1>1, <1>4, Settling DEF ScrollInv
  <2>2. pos \in Int /\ coast \in Int /\ prev \in Int /\ Pitch \in Int /\ Bottom \in Int
    BY BottomIsEnough, ScrollAssumption DEF ScrollInv, ScrollType
  <2>3. pos' = pos + coast
    BY <1>4 DEF Settled
  <2>4. /\ pos' + coast' = Bottom' \/ pos + coast # Bottom
        /\ pos + coast = Bottom => pos' = Bottom'
        /\ pos - prev >= Pitch => pos' - prev' >= Pitch
        /\ coast = 0 /\ pos = prev => pos' = prev'
    BY <1>1, <1>2, <2>1, <2>2, <2>3
  <2>5. Pace'
    BY <1>1, <2>1, <2>4 DEF FilmInv, Pace
  <2>6. QED
    BY <1>3, <2>5 DEF FilmInv
<1>5. CASE \E d \in Travels : Swiped(d)
  <2>1. /\ pos' + coast' = Bottom \/ pos' - prev >= Pitch
        /\ pos + coast = Bottom => pos' = Bottom /\ coast' = 0
    BY <1>1, <1>5, ObeyedSwipeIsLong DEF ScrollInv
  <2>2. pos + coast = Bottom => pos' = Bottom' /\ pos' + coast' = Bottom'
    BY <1>2, <2>1, BottomIsEnough DEF ScrollInv, ScrollType
  <2>3. pos' + coast' = Bottom' \/ pos' - prev' >= Pitch
    BY <1>1, <1>2, <2>1
  <2>4. Pace'
    BY <1>1, <2>2, <2>3 DEF FilmInv, Pace
  <2>5. QED
    BY <1>3, <2>4 DEF FilmInv
<1>6. QED
  BY <1>1, <1>4, <1>5

LEMMA FilmUnmoved ==
    ASSUME FilmInv, Unmoved
    PROVE  FilmInv'
<1>1. /\ UNCHANGED <<list, pos, coast, prev, frames>>
      /\ at = "look" /\ at' = "loop"
  BY DEF Unmoved, gameVars
<1>2. Bottom' = Bottom
  BY <1>1 DEF Bottom
<1>3. FilmOK(frames)'
  BY <1>1, FilmKept DEF FilmInv
<1>4. QED
  BY <1>1, <1>2, <1>3 DEF FilmInv, Pace

LEMMA FilmEnds ==
    ASSUME FilmInv, UNCHANGED <<list, prev, frames>>, at' \in {"done", "failed"}
    PROVE  FilmInv'
<1>1. FilmOK(frames)'
  BY FilmKept DEF FilmInv
<1>2. QED
  BY <1>1 DEF FilmInv, Pace

LEMMA FilmFirst ==
    ASSUME ScrollInv, FilmInv, FirstFrame
    PROVE  FilmInv'
<1>1. /\ UNCHANGED <<list, pos, coast>>
      /\ at = "first" /\ at' = "loop"
      /\ frames = <<>> /\ pos = 0
      /\ prev' = 0 /\ frames' = Append(frames, [top |-> pos, offset |-> 0])
  BY DEF FirstFrame, gameVars, Keep, ScrollInv, InPlace
<1>2. Bottom' = Bottom /\ Bottom \in Nat
  BY <1>1, BottomIsEnough DEF Bottom, ScrollInv, ScrollType
<1>3. /\ frames' = <<[top |-> 0, offset |-> 0]>> /\ Len(frames') = 1
      /\ frames' \in Seq(Frame) /\ DOMAIN frames' = {1} /\ frames'[1].top = 0
  BY <1>1 DEF Frame
<1>4. FilmOK(frames)'
  BY <1>2, <1>3 DEF FilmOK
<1>5. QED
  BY <1>1, <1>3, <1>4 DEF FilmInv, Pace

\* A kept frame has moved, by no more than the frame before it showed of its
\* rows; and the third of two moves of less than a row shows the bottom.
LEMMA FilmKeepFrame ==
    ASSUME ScrollInv, FilmInv, KeepFrame
    PROVE  FilmInv'
<1> DEFINE n == Len(frames)
<1>1. PICK m \in Offsets : Within(m) /\ Keep(m)
  BY DEF KeepFrame
<1>2. /\ UNCHANGED <<list, pos, coast>>
      /\ at = "look" /\ at' = "loop" /\ prev' = pos
      /\ frames' = Append(frames, [top |-> pos, offset |-> m])
      /\ frames # <<>>
  BY <1>1 DEF KeepFrame, gameVars, Keep, ScrollInv, Framed
<1>3. Bottom' = Bottom /\ Bottom \in Nat
  BY <1>2, BottomIsEnough DEF Bottom, ScrollInv, ScrollType
<1>4. /\ pos \in Nat /\ prev \in Nat /\ coast \in Nat /\ pos + coast <= Bottom
      /\ Pitch \in Nat /\ Tol \in Nat /\ Usable \in Int
  BY ScrollAssumption DEF ScrollInv, ScrollType, InPlace, Usable
<1>5. /\ m \in Nat /\ m # 0 /\ pos - prev >= 0 /\ (pos - prev = 0 => m = 0)
      /\ pos - prev - Tol <= m /\ m <= pos - prev + Tol
  BY <1>1, <1>4, ScrollAssumption DEF Offsets, Within, Reach
<1>6. pos - prev <= Usable + 1
  BY <1>1, KeptMovesAreShort DEF ScrollInv
<1>7. pos - prev \in 1 .. Usable + 1 /\ m - (pos - prev) \in -Tol .. Tol
  BY <1>4, <1>5, <1>6
<1>8. /\ n \in Nat \ {0} /\ frames \in Seq(Frame) /\ frames[n].top = prev
      /\ frames' \in Seq(Frame) /\ Len(frames') = n + 1 /\ frames' # <<>>
      /\ DOMAIN frames = 1 .. n /\ DOMAIN frames' = 1 .. n + 1
      /\ \A i \in 1 .. n : frames'[i] = frames[i]
      /\ frames'[n + 1] = [top |-> pos, offset |-> m]
      /\ 1 \in 1 .. n
  BY <1>2, <1>4, <1>5 DEF ScrollInv, ScrollType, Frame, FilmInv
<1> HIDE DEF n
<1>9. /\ \A i \in 2 .. n : i \in 1 .. n /\ i - 1 \in 1 .. n
      /\ n + 1 - 1 = n /\ n \in 1 .. n /\ n + 1 - 2 = n - 1
  BY <1>8
<1>10. /\ \A i \in 2 .. n : MoveOf(frames', i) = MoveOf(frames, i)
       /\ MoveOf(frames', n + 1) = pos - prev
  BY <1>8, <1>9 DEF MoveOf
<1>11. frames'[1].top = 0 /\ \A i \in DOMAIN frames' : frames'[i].top \in 0 .. Bottom'
  <2>1. frames'[1].top = 0
    BY <1>8, <1>2 DEF FilmInv, FilmOK
  <2>2. \A i \in 1 .. n : frames'[i].top \in 0 .. Bottom'
    BY <1>8, <1>3 DEF FilmInv, FilmOK
  <2>3. frames'[n + 1].top \in 0 .. Bottom'
    BY <1>3, <1>4, <1>8
  <2>4. \A i \in 1 .. n + 1 : i \in 1 .. n \/ i = n + 1
    BY <1>8
  <2>5. QED
    BY <1>8, <2>1, <2>2, <2>3, <2>4
<1>12. \A i \in 2 .. n + 1 : /\ MoveOf(frames', i) \in 1 .. Usable + 1
                             /\ frames'[i].offset \in Nat
                             /\ frames'[i].offset - MoveOf(frames', i) \in -Tol .. Tol
  <2>1. SUFFICES ASSUME NEW i \in 2 .. n + 1
                 PROVE  /\ MoveOf(frames', i) \in 1 .. Usable + 1
                        /\ frames'[i].offset \in Nat
                        /\ frames'[i].offset - MoveOf(frames', i) \in -Tol .. Tol
    OBVIOUS
  <2>2. CASE i \in 2 .. n
    BY <2>2, <1>8, <1>9, <1>10 DEF FilmInv, FilmOK, n
  <2>3. CASE i = n + 1
    BY <2>3, <1>5, <1>7, <1>8, <1>10
  <2>4. QED
    BY <2>2, <2>3, <1>8
<1>13. /\ \A i \in 2 .. n : Short(frames', i) <=> Short(frames, i)
       /\ Short(frames', n + 1) <=> pos - prev < Pitch
  BY <1>10 DEF Short
<1>14. \A i \in 4 .. n + 1 :
          Short(frames', i - 1) /\ Short(frames', i - 2) => frames'[i].top = Bottom'
  <2>1. SUFFICES ASSUME NEW i \in 4 .. n + 1, Short(frames', i - 1), Short(frames', i - 2)
                 PROVE  frames'[i].top = Bottom'
    OBVIOUS
  <2>2. i - 1 \in 2 .. n /\ i - 2 \in 2 .. n
    BY <1>8
  <2>3. Short(frames, i - 1) /\ Short(frames, i - 2)
    BY <2>1, <2>2, <1>13
  <2>4. CASE i \in 4 .. n
    <3>1. frames[i].top = Bottom
      BY <2>3, <2>4, <1>8 DEF FilmInv, FilmOK, n
    <3>2. QED
      BY <3>1, <2>4, <1>3, <1>8
  <2>5. CASE i = n + 1
    <3>1. pos = Bottom
      BY <2>3, <2>5, <1>2, <1>8 DEF FilmInv, Pace, n
    <3>2. QED
      BY <3>1, <2>5, <1>3, <1>8
  <2>6. QED
    BY <2>4, <2>5, <1>8
<1>15. FilmOK(frames)'
  BY <1>8, <1>11, <1>12, <1>14 DEF FilmOK, MoveOf, Short
<1>16. Pace'
  <2>1. coast = 0 \/ pos + coast = Bottom \/ pos - prev >= Pitch
    BY <1>2 DEF FilmInv, Pace
  <2>2. Short(frames', n + 1) => (coast' = 0 /\ pos' = prev') \/ pos' + coast' = Bottom'
    BY <1>2, <1>3, <1>4, <1>13, <2>1
  <2>3. ASSUME n + 1 >= 3, Short(frames', n + 1), Short(frames', n)
        PROVE  pos' + coast' = Bottom'
    <3>1. n >= 2 /\ Short(frames, n) /\ pos - prev < Pitch
      <4>1. n \in 2 .. n
        BY <2>3, <1>8
      <4>2. QED
        BY <4>1, <2>3, <1>8, <1>13
    <3>2. (coast = 0 /\ pos = prev) \/ pos + coast = Bottom \/ pos - prev >= Pitch
      BY <1>2, <3>1 DEF FilmInv, Pace, n
    <3>3. QED
      BY <1>2, <1>3, <1>4, <1>7, <3>1, <3>2
  <2>4. QED
    BY <1>2, <1>8, <1>9, <2>2, <2>3 DEF Pace
<1>17. QED
  BY <1>2, <1>8, <1>15, <1>16 DEF FilmInv

LEMMA StepsKeepFilmInv ==
    ASSUME Proportions
    PROVE  ScrollInv /\ FilmInv /\ [ScrollStep]_scrollVars => FilmInv'
<1> SUFFICES ASSUME ScrollInv, FilmInv, [ScrollStep]_scrollVars PROVE FilmInv'
  OBVIOUS
<1>1. CASE OutOfFrames \/ Overshot \/ Unmeasurable \/ Interrupted \/ BottomProven
  <2>1. UNCHANGED <<list, prev, frames>> /\ at' \in {"done", "failed"}
    BY <1>1 DEF OutOfFrames, Overshot, Unmeasurable, Interrupted, BottomProven, Done, Fail,
                gameVars
  <2>2. QED
    BY <2>1, FilmEnds
<1>2. CASE FirstFrame \/ Swipe \/ LookAgain \/ Unmoved \/ KeepFrame
  BY <1>2, FilmFirst, FilmSwipe, FilmUnmoved, FilmKeepFrame
<1>3. CASE UNCHANGED scrollVars
  <2>1. UNCHANGED <<list, pos, coast, at, prev, frames>>
    BY <1>3 DEF scrollVars, gameVars, loopVars
  <2>2. Bottom' = Bottom /\ FilmOK(frames)'
    BY <2>1, FilmKept DEF Bottom, FilmInv
  <2>3. QED
    BY <2>1, <2>2 DEF FilmInv, Pace
<1>4. QED
  BY <1>1, <1>2, <1>3 DEF ScrollStep

LEMMA FilmInvInit == ScrollInit => FilmInv
<1> SUFFICES ASSUME ScrollInit PROVE FilmInv
  OBVIOUS
<1>1. frames = <<>> /\ at = "first" /\ Len(frames) = 0 /\ DOMAIN frames = {}
      /\ frames \in Seq(Frame)
  BY DEF ScrollInit
<1>2. QED
  BY <1>1 DEF FilmInv, FilmOK, Pace

-----------------------------------------------------------------------------
(* vs_capture: the checkmark may lag behind the filter, never run ahead of *)
(* it.                                                                     *)

FilterInv ==
    /\ filter \in BOOLEAN
    /\ mark => filter
    /\ step = "scroll" => filter

LEMMA VSKeepsFilter == FilterInv /\ (VSStep \/ DrawMark) => FilterInv'
<1> SUFFICES ASSUME FilterInv, VSStep \/ DrawMark PROVE FilterInv'
  OBVIOUS
<1> USE DEF FilterInv
<1>1. CASE TapFilter
  BY <1>1 DEF TapFilter, MayTap, Toggle
<1>2. CASE Confirmed
  BY <1>2 DEF Confirmed, screenVars
<1>3. CASE step = "scroll" /\ ScrollStep /\ UNCHANGED <<taskVars, screenVars, ingestVars>>
  BY <1>3 DEF taskVars, screenVars
<1>4. CASE FindRanking \/ MissRanking \/ SelectProgress \/ NowhereToSteer \/ NotApplied
  BY <1>4 DEF FindRanking, MissRanking, SelectProgress, NowhereToSteer, NotApplied,
              GiveUp, screenVars
<1>5. CASE Record \/ Abort \/ RowsRead
  BY <1>5 DEF Record, Abort, RowsRead, GiveUp, screenVars
<1>6. CASE ReadFrame
  <2>1. UNCHANGED <<taskVars, screenVars>>
    BY <1>6 DEF ReadFrame
  <2>2. QED
    BY <2>1 DEF taskVars, screenVars
<1>7. CASE DrawMark
  BY <1>7 DEF DrawMark, taskVars
<1>8. QED
  BY <1>1, <1>2, <1>3, <1>4, <1>5, <1>6, <1>7 DEF VSStep

\* The list is photographed with the filter on, whatever an earlier session
\* left of it, however many taps are allowed and swallowed and however late the
\* game draws the checkmark (applyAllianceFilter).
THEOREM FilterIsOn == Spec => []OnlyAllianceIsPhotographed
<1>1. Init => FilterInv
  BY DEF Init, VSInit, FilterInv
<1>2. FilterInv /\ [Next]_routeVars => FilterInv'
  <2> SUFFICES ASSUME FilterInv, [Next]_routeVars PROVE FilterInv'
    OBVIOUS
  <2>1. CASE UNCHANGED vsVars
    BY <2>1 DEF vsVars, screenVars, taskVars, FilterInv
  <2>2. CASE VSStep \/ DrawMark
    BY <2>2, VSKeepsFilter
  <2>3. QED
    BY <2>1, <2>2 DEF Next, Run, Draw, routeVars
<1>3. FilterInv => OnlyAllianceIsPhotographed
  BY DEF FilterInv, OnlyAllianceIsPhotographed
<1>4. QED
  BY <1>1, <1>2, <1>3, PTL DEF Spec

-----------------------------------------------------------------------------
(* The list and its record: the agent scrolls as Scroll says, and what it  *)
(* records is what the scroll kept.                                        *)

LEMMA StepsScroll == [Next]_routeVars => [ScrollStep]_scrollVars
<1> SUFFICES ASSUME [Next]_routeVars PROVE [ScrollStep]_scrollVars
  OBVIOUS
<1>1. CASE UNCHANGED vsVars
  BY <1>1 DEF vsVars
<1>2. CASE VSStep
  <2>1. CASE FindRanking \/ MissRanking \/ SelectProgress \/ NowhereToSteer \/ Confirmed
             \/ TapFilter \/ NotApplied
    BY <2>1 DEF FindRanking, MissRanking, SelectProgress, NowhereToSteer, Confirmed,
                TapFilter, NotApplied, GiveUp
  <2>2. CASE Record \/ Abort \/ ReadFrame \/ RowsRead
    BY <2>2 DEF Record, Abort, ReadFrame, RowsRead, GiveUp
  <2>3. QED
    BY <1>2, <2>1, <2>2 DEF VSStep
<1>3. CASE DrawMark
  BY <1>3 DEF DrawMark
<1>4. QED
  BY <1>1, <1>2, <1>3 DEF Next, Run, Draw, routeVars

LEMMA TasksScroll == Spec => ScrollSpec
<1>1. Init => ScrollInit
  BY DEF Init, VSInit
<1>2. QED
  BY <1>1, StepsScroll, PTL DEF Spec, ScrollSpec

\* What is in the database is what the scroll ended with.
RecordInv ==
    recorded.complete => /\ step \in {"read", "out"}
                         /\ at = "done" /\ complete /\ recorded.frames = frames

\* A capture recorded as complete holds every row of the list, and the list is
\* the own alliance's: what ingest concludes a zero from.
RecordIsWhole ==
    recorded.complete =>
        \A r \in 1 .. list :
            \E i \in DOMAIN recorded.frames :
                /\ recorded.frames[i].top <= RowTop(r)
                /\ RowTop(r) + Pitch <= recorded.frames[i].top + Height

LEMMA VSKeepsRecord == RecordInv /\ (VSStep \/ DrawMark) => RecordInv'
<1> SUFFICES ASSUME RecordInv, VSStep \/ DrawMark PROVE RecordInv'
  OBVIOUS
<1> USE DEF RecordInv
<1>1. CASE FindRanking \/ MissRanking \/ SelectProgress \/ NowhereToSteer
  BY <1>1 DEF FindRanking, MissRanking, SelectProgress, NowhereToSteer, GiveUp, ingestVars
<1>2. CASE Confirmed \/ TapFilter \/ NotApplied
  BY <1>2 DEF Confirmed, TapFilter, MayTap, NotApplied, GiveUp, ingestVars
<1>3. CASE step = "scroll" /\ ScrollStep /\ UNCHANGED <<taskVars, screenVars, ingestVars>>
  BY <1>3 DEF taskVars, ingestVars
<1>4. CASE Record
  <2>1. /\ recorded' = [there |-> TRUE, frames |-> frames, complete |-> at = "done" /\ complete]
        /\ step' = "read" /\ UNCHANGED scrollVars
    BY <1>4 DEF Record
  <2>2. recorded'.frames = frames /\ recorded'.complete = (at = "done" /\ complete)
    BY <2>1
  <2>3. QED
    BY <2>1, <2>2 DEF scrollVars, gameVars, loopVars
<1>5. CASE Abort
  BY <1>5 DEF Abort, GiveUp, ingestVars
<1>6. CASE ReadFrame
  <2>1. UNCHANGED <<taskVars, scrollVars, recorded>>
    BY <1>6 DEF ReadFrame
  <2>2. QED
    BY <2>1 DEF taskVars, scrollVars, gameVars, loopVars
<1>7. CASE RowsRead
  BY <1>7 DEF RowsRead, scrollVars, gameVars, loopVars, ingestVars
<1>8. CASE DrawMark
  BY <1>8 DEF DrawMark, taskVars, scrollVars, gameVars, loopVars, ingestVars
<1>9. QED
  BY <1>1, <1>2, <1>3, <1>4, <1>5, <1>6, <1>7, <1>8 DEF VSStep

LEMMA StepsKeepRecord == RecordInv /\ [Next]_routeVars => RecordInv'
<1> SUFFICES ASSUME RecordInv, [Next]_routeVars PROVE RecordInv'
  OBVIOUS
<1>1. CASE UNCHANGED vsVars
  BY <1>1 DEF vsVars, taskVars, scrollVars, gameVars, loopVars, ingestVars, RecordInv
<1>2. CASE VSStep \/ DrawMark
  BY <1>2, VSKeepsRecord
<1>3. QED
  BY <1>1, <1>2 DEF Next, Run, Draw, routeVars

\* The scroll keeps its promise inside the task and beside all the others, and
\* what vs_capture records as complete is: no row is missing from the frames
\* ingest reads, for every list, swipe, fling and error of measurement
\* (vs_capture.go, scrollcapture.go).
THEOREM CompleteRecords ==
    Spec => [](NoRowPassesUnseen /\ CompleteHasEveryRow /\ RecordIsWhole)
<1>1. Init => RecordInv
  BY DEF Init, VSInit, NoCapture, RecordInv
<1>2. RecordInv /\ CompleteHasEveryRow => RecordIsWhole
  BY DEF RecordInv, CompleteHasEveryRow, RecordIsWhole, Photographed
<1>3. QED
  BY <1>1, <1>2, StepsKeepRecord, TasksScroll, NothingPasses, CompleteIsWhole, PTL DEF Spec

-----------------------------------------------------------------------------
(* Reading the film. *)

\* The last row that ends above the lower edge of a frame.
LastWhole(v, top) ==
    /\ v \in 0 .. list
    /\ RowTop(v) + Pitch <= top + Height
    /\ v = list \/ RowTop(v + 1) + Pitch > top + Height

LEMMA RowsApart ==
    /\ Pitch \in Nat \ {0} /\ RowTop(0) + Pitch = 0 /\ RowTop(1) = 0
    /\ \A r \in Int : RowTop(r) \in Int /\ RowTop(r + 1) = RowTop(r) + Pitch
                      /\ RowTop(r) + Pitch = r * Pitch
    /\ \A r, s \in Int : r < s => RowTop(r) + Pitch <= RowTop(s)
<1>1. Pitch \in Nat \ {0}
  BY ScrollAssumption
<1>2. RowTop(0) + Pitch = 0 /\ RowTop(1) = 0
  BY <1>1 DEF RowTop
<1>3. \A r \in Int : RowTop(r) \in Int /\ RowTop(r + 1) = RowTop(r) + Pitch
                     /\ RowTop(r) + Pitch = r * Pitch
  <2> TAKE r \in Int
  <2>1. (r - 1) * Pitch \in Int /\ r * Pitch = (r - 1) * Pitch + Pitch
        /\ ((r + 1) - 1) * Pitch = r * Pitch
    BY <1>1
  <2>2. QED
    BY <2>1 DEF RowTop
<1>4. ASSUME NEW r \in Int, NEW s \in Int, r < s
      PROVE  RowTop(r) + Pitch <= RowTop(s)
  <2> DEFINE k == s - r - 1
  <2>1. k \in Nat /\ s - 1 = r + k
    BY <1>4
  <2> HIDE DEF k
  <2>2. k * Pitch \in Nat /\ r * Pitch \in Int /\ (r + k) * Pitch = r * Pitch + k * Pitch
    BY <1>1, <2>1
  <2>3. RowTop(s) = r * Pitch + k * Pitch
    BY <2>1, <2>2 DEF RowTop
  <2>4. QED
    BY <1>3, <2>2, <2>3
<1>5. QED
  BY <1>1, <1>2, <1>3, <1>4

LEMMA LastWholeExists ==
    ASSUME list \in Nat, NEW top \in Nat
    PROVE  \E v \in 0 .. list : LastWhole(v, top)
<1> DEFINE S == {v \in 0 .. list : v = list \/ RowTop(v + 1) + Pitch > top + Height}
<1>1. S \in SUBSET Nat /\ S # {}
  OBVIOUS
<1>2. PICK v \in S : \A w \in S : v <= w
  <2> HIDE DEF S
  <2>1. QED
    BY <1>1, LeastExists
<1>3. v \in 0 .. list /\ (v = list \/ RowTop(v + 1) + Pitch > top + Height)
  BY <1>2
<1>4. CASE v = 0
  <2>1. RowTop(v) + Pitch <= top + Height
    BY <1>4, RowsApart, ScrollAssumption
  <2>2. QED
    BY <1>3, <2>1 DEF LastWhole
<1>5. CASE v # 0
  <2>1. v - 1 \in 0 .. list /\ (v - 1) + 1 = v /\ ~(v <= v - 1)
    BY <1>3, <1>5
  <2>2. v - 1 \notin S
    BY <1>2, <2>1
  <2>3. ~(RowTop(v) + Pitch > top + Height)
    BY <2>1, <2>2
  <2>4. RowTop(v) \in Int /\ Pitch \in Int /\ Height \in Int
    BY <1>3, RowsApart, ScrollAssumption
  <2>5. RowTop(v) + Pitch <= top + Height
    BY <2>3, <2>4
  <2>6. QED
    BY <1>3, <2>5 DEF LastWhole
<1>6. QED
  BY <1>4, <1>5

\* Of the rows that end above the lower edge it is the last; it is whole in the
\* frame, which is two rows high; and there is one if there is a row at all.
LEMMA LastWholeIsLast ==
    ASSUME Proportions, list \in Nat, NEW top \in 0 .. Bottom, NEW v, LastWhole(v, top)
    PROVE  /\ \A r \in 0 .. list : RowTop(r) + Pitch <= top + Height <=> r <= v
           /\ v # 0 => top <= RowTop(v)
           /\ v = 0 => list = 0
           /\ v <= 1 /\ top = 0 => list <= 1
<1>1. /\ v \in 0 .. list /\ RowTop(v) + Pitch <= top + Height
      /\ v = list \/ RowTop(v + 1) + Pitch > top + Height
  BY DEF LastWhole
<1>2. /\ top \in Nat /\ Height \in Nat /\ Pitch \in Nat \ {0} /\ Margin \in Nat
      /\ 2 * Pitch <= Height /\ Margin < Pitch /\ Bottom \in Nat
  BY BottomIsEnough, ScrollAssumption DEF Proportions
<1>3. \A r \in 0 .. list : RowTop(r) \in Int /\ RowTop(r + 1) = RowTop(r) + Pitch
  <2> TAKE r \in 0 .. list
  <2>1. r \in Int
    OBVIOUS
  <2>2. QED
    BY <2>1, RowsApart
<1>4. ASSUME NEW r \in 0 .. list
      PROVE  RowTop(r) + Pitch <= top + Height <=> r <= v
  <2>1. CASE r <= v
    <3>1. r = v \/ RowTop(r) + Pitch <= RowTop(v)
      BY <1>1, <2>1, RowsApart
    <3>2. QED
      BY <1>1, <1>2, <1>3, <2>1, <3>1
  <2>2. CASE ~(r <= v)
    <3>1. v # list /\ (r = v + 1 \/ v + 1 < r)
      BY <1>1, <2>2
    <3>2. RowTop(v + 1) <= RowTop(r)
      <4>1. v + 1 < r => RowTop(v + 1) + Pitch <= RowTop(r)
        BY <1>1, RowsApart
      <4>2. v + 1 \in 0 .. list
        BY <1>1, <3>1
      <4>3. QED
        BY <1>2, <1>3, <3>1, <4>1, <4>2
    <3>3. v + 1 \in 0 .. list
      BY <1>1, <3>1
    <3>4. QED
      BY <1>1, <1>2, <1>3, <2>2, <3>1, <3>2, <3>3
  <2>3. QED
    BY <2>1, <2>2
<1>5. ASSUME v # 0 PROVE top <= RowTop(v)
  <2>1. CASE v = list
    <3>1. RowTop(v) + Pitch = list * Pitch /\ list * Pitch \in Int /\ RowTop(v) \in Int
      BY <1>1, <1>2, <2>1, RowsApart
    <3>2. 0 <= RowTop(v)
      <4>1. RowTop(1) = 0
        BY RowsApart
      <4>2. v = 1 \/ RowTop(1) + Pitch <= RowTop(v)
        BY <1>1, <1>5, RowsApart
      <4>3. QED
        BY <1>2, <3>1, <4>1, <4>2
    <3>3. Bottom = 0 \/ Bottom = list * Pitch + Margin - Height
      BY <1>2, <3>1 DEF Bottom
    <3>4. QED
      BY <1>2, <3>1, <3>2, <3>3
  <2>2. CASE v # list
    BY <1>1, <1>2, <1>3, <2>2
  <2>3. QED
    BY <2>1, <2>2
<1>6. ASSUME v = 0 PROVE list = 0
  BY <1>1, <1>2, <1>6, RowsApart
<1>7. ASSUME v <= 1, top = 0 PROVE list <= 1
  <2>1. RowTop(1 + 1) = Pitch /\ RowTop(0 + 1) = 0
    BY <1>2, RowsApart
  <2>2. v = 0 \/ v = 1
    BY <1>1, <1>7
  <2>3. QED
    BY <1>1, <1>2, <1>7, <2>1, <2>2
<1>8. QED
  BY <1>4, <1>5, <1>6, <1>7

LEMMA FilmGrows ==
    ASSUME list \in Nat, NEW fs, FilmOK(fs),
           NEW i \in 1 .. Len(fs), NEW j \in 1 .. Len(fs), i < j
    PROVE  fs[i].top < fs[j].top
<1> DEFINE S == {k \in 1 .. Len(fs) : i < k /\ ~(fs[i].top < fs[k].top)}
<1>1. Len(fs) \in Nat /\ DOMAIN fs = 1 .. Len(fs)
  BY DEF FilmOK
<1>2. \A k \in 1 .. Len(fs) : fs[k].top \in Nat
  BY <1>1, BottomIsEnough DEF FilmOK
<1>3. \A k \in 2 .. Len(fs) : fs[k - 1].top < fs[k].top
  <2> TAKE k \in 2 .. Len(fs)
  <2>1. MoveOf(fs, k) \in 1 .. Usable + 1
    BY DEF FilmOK
  <2>2. fs[k].top - fs[k - 1].top >= 1
    BY <2>1, ScrollAssumption DEF MoveOf, Usable
  <2>3. k \in 1 .. Len(fs) /\ k - 1 \in 1 .. Len(fs)
    BY <1>1
  <2>4. QED
    BY <1>2, <2>2, <2>3
<1>4. S = {}
  <2> SUFFICES ASSUME S # {} PROVE FALSE
    OBVIOUS
  <2>1. S \in SUBSET Nat
    OBVIOUS
  <2>2. PICK k \in S : \A m \in S : k <= m
    <3> HIDE DEF S
    <3>1. QED
      BY <2>1, LeastExists
  <2>3. k \in 2 .. Len(fs) /\ i <= k - 1 /\ k - 1 \in 1 .. Len(fs) /\ ~(k <= k - 1)
    BY <1>1, <2>2
  <2>4. fs[i].top <= fs[k - 1].top
    <3>1. CASE i = k - 1
      BY <1>2, <3>1
    <3>2. CASE i # k - 1
      <4>1. k - 1 \notin S
        BY <2>2, <2>3
      <4>2. i < k - 1
        BY <2>3, <3>2
      <4>3. fs[i].top < fs[k - 1].top
        BY <2>3, <4>1, <4>2
      <4>4. QED
        BY <1>2, <2>3, <4>3
    <3>3. QED
      BY <3>1, <3>2
  <2>5. fs[k - 1].top < fs[k].top
    BY <1>3, <2>3
  <2>6. fs[i].top < fs[k].top
    BY <1>2, <2>3, <2>4, <2>5
  <2>7. QED
    BY <2>2, <2>6
<1>5. QED
  BY <1>4

\* Three frames in a row that move by less than a row end the film.
LEMMA FilmStandsStill ==
    ASSUME list \in Nat, Proportions, NEW fs, FilmOK(fs),
           NEW a \in 1 .. Len(fs), NEW c \in 1 .. Len(fs), a <= c,
           fs[c].top - fs[a].top < Pitch
    PROVE  c - a <= 2 \/ c = Len(fs)
<1>1. Len(fs) \in Nat /\ DOMAIN fs = 1 .. Len(fs)
  BY DEF FilmOK
<1>2. \A k \in 1 .. Len(fs) : fs[k].top \in 0 .. Bottom
  BY <1>1 DEF FilmOK
<1>3. /\ Bottom \in Nat /\ Pitch \in Nat
      /\ \A k \in 1 .. Len(fs) : fs[k].top \in Int
  BY <1>2, BottomIsEnough, ScrollAssumption
<1>4. SUFFICES ASSUME c - a >= 3, c < Len(fs) PROVE FALSE
  <2>1. a \in Int /\ c \in Int /\ c <= Len(fs)
    BY <1>1
  <2>2. ~(c - a >= 3) => c - a <= 2
    BY <2>1
  <2>3. ~(c < Len(fs)) => c = Len(fs)
    <3>1. \A x, y \in Int : x <= y /\ ~(x < y) => x = y
      OBVIOUS
    <3>2. Len(fs) \in Int
      BY <1>1
    <3>3. QED
      BY <2>1, <3>1, <3>2, Zenon
  <2>4. QED
    BY <2>2, <2>3
<1>5. \A k \in a + 1 .. c : k \in 1 .. Len(fs) /\ k - 1 \in 1 .. Len(fs)
  BY <1>1
<1>6. \A k \in a + 1 .. c : Short(fs, k)
  <2> TAKE k \in a + 1 .. c
  <2>1. k - 1 = a \/ a < k - 1
    OBVIOUS
  <2>2. fs[a].top <= fs[k - 1].top
    BY <1>2, <1>3, <1>5, <2>1, FilmGrows
  <2>3. k = c \/ k < c
    BY <1>1
  <2>4. fs[k].top <= fs[c].top
    BY <1>2, <1>3, <1>5, <2>3, FilmGrows
  <2>5. fs[k].top - fs[k - 1].top < Pitch
    <3> DEFINE w == fs[a].top
               x == fs[k - 1].top
               y == fs[k].top
               z == fs[c].top
    <3>1. x \in Int /\ y \in Int
      BY <1>3, <1>5
    <3>2. w \in Int /\ z \in Int
      BY <1>3
    <3>3. w <= x /\ y <= z /\ z - w < Pitch
      BY <2>2, <2>4
    <3> HIDE DEF w, x, y, z
    <3>4. y - x < Pitch
      BY <1>3, <3>1, <3>2, <3>3
    <3>5. QED
      BY <3>4 DEF x, y
  <2>6. QED
    BY <2>5 DEF Short, MoveOf
<1>7. a + 3 \in 4 .. Len(fs) /\ Short(fs, (a + 3) - 1) /\ Short(fs, (a + 3) - 2)
  BY <1>1, <1>4, <1>6
<1>8. fs[a + 3].top = Bottom
  BY <1>7 DEF FilmOK
<1>9. a + 3 \in 1 .. Len(fs) /\ a + 3 < Len(fs) /\ Len(fs) \in 1 .. Len(fs)
  BY <1>1, <1>4
<1>10. fs[a + 3].top < fs[Len(fs)].top
  BY <1>9, FilmGrows
<1>11. QED
  <2> DEFINE z == fs[Len(fs)].top
  <2>1. z \in 0 .. Bottom
    BY <1>2, <1>9
  <2>2. Bottom < z
    BY <1>8, <1>10
  <2> HIDE DEF z
  <2>3. QED
    BY <1>3, <2>1, <2>2

\* How many frames have been read.
Read == cursor.frame - 1

\* The row read last stands where it was found in frame a, and the offsets since
\* are the only error between it and the frame read last.  Frames that show no
\* new row follow only while the list hardly moves, or where a band is dropped.
Tied(a) ==
    LET fs == recorded.frames
        l  == rows[Len(rows)]
    IN  /\ RowTop(l) + Pitch <= fs[a].top + Height
        /\ Read - a <= 2 + blurred \/ Read = Len(fs)
        /\ (cursor.contentY - fs[Read].top) - (cursor.lastRowY - RowTop(l))
              \in -((Read - a) * Tol) .. (Read - a) * Tol

Rising(s) == \A i \in 1 .. Len(s) - 1 : s[i] < s[i + 1]

ReadType ==
    /\ cursor.frame \in 1 .. Len(recorded.frames) + 1
    /\ blurred \in 0 .. Blurs
    /\ cursor.contentY \in Nat
    /\ cursor.lastRowY \in Int
    /\ rows \in Seq(1 .. list)

ReadInv ==
    /\ ReadType
    /\ Read > 0 => step \in {"read", "out"}
    /\ Rising(rows)
    /\ Read = 0 => rows = <<>> /\ cursor.contentY = 0
    /\ rows = <<>> => /\ cursor.lastRowY = -1
                      /\ Read > 0 => Len(recorded.frames) = 1
    /\ rows # <<>> => /\ cursor.lastRowY >= 0
                      /\ \E a \in 1 .. Read : Tied(a)
    /\ blurred = 0 =>
          /\ \A i \in 1 .. Len(rows) : rows[i] = i
          /\ Read > 0 => LastWhole(Len(rows), recorded.frames[Read].top)

\* One more frame adds one more error, and all of them together are less than
\* half a row.
LEMMA Drift ==
    ASSUME Proportions, list \in Nat, FilmOK(recorded.frames), ReadInv, ~Ended, rows # <<>>,
           NEW a \in 1 .. Read, Tied(a)
    PROVE  LET c == cursor.frame
               f == recorded.frames[c]
           IN  /\ c \in 2 .. Len(recorded.frames) /\ (c - a) * Tol \in Nat
               /\ ((cursor.contentY + f.offset) - f.top)
                     - (cursor.lastRowY - RowTop(rows[Len(rows)]))
                        \in -((c - a) * Tol) .. (c - a) * Tol
               /\ 2 * ((c - a) * Tol) < Pitch
               /\ c - a <= 3 + blurred
<1> DEFINE fs == recorded.frames
           c  == cursor.frame
           l  == rows[Len(rows)]
<1>1. /\ Len(fs) \in Nat /\ DOMAIN fs = 1 .. Len(fs) /\ c \in 1 .. Len(fs)
      /\ Read = c - 1 /\ Read \in 0 .. Len(fs)
  <2>1. Len(fs) \in Nat /\ DOMAIN fs = 1 .. Len(fs)
    BY DEF FilmOK
  <2>2. c \in 1 .. Len(fs) + 1 /\ ~(c > Len(fs))
    BY DEF ReadInv, ReadType, Ended
  <2> HIDE DEF c, fs
  <2>3. c \in 1 .. Len(fs) /\ c - 1 \in 0 .. Len(fs)
    BY <2>1, <2>2
  <2>4. Read = c - 1
    BY DEF Read, c
  <2>5. QED
    BY <2>1, <2>3, <2>4
<1>2. c \in 2 .. Len(fs) /\ Read \in 1 .. Len(fs) /\ c - 1 = Read
  BY <1>1
<1>3. /\ fs[c].offset \in Nat /\ fs[c].offset - (fs[c].top - fs[Read].top) \in -Tol .. Tol
      /\ fs[c].top \in Nat /\ fs[Read].top \in Nat
  <2> HIDE DEF fs
  <2>1. FilmOK(fs)
    BY DEF fs
  <2>2. Bottom \in Nat /\ c \in DOMAIN fs /\ Read \in DOMAIN fs
    BY <1>1, <1>2, BottomIsEnough
  <2>3. fs[c].top \in Nat /\ fs[Read].top \in Nat
    BY <2>1, <2>2 DEF FilmOK
  <2>4. /\ fs[c].offset \in Nat /\ fs[c].offset - MoveOf(fs, c) \in -Tol .. Tol
        /\ MoveOf(fs, c) = fs[c].top - fs[Read].top
    BY <1>2, <2>1 DEF FilmOK, MoveOf
  <2>5. QED
    BY <2>3, <2>4
<1>4. Tol \in Nat /\ Pitch \in Nat /\ Blurs \in Nat /\ a \in Nat
  BY ScrollAssumption, VSCaptureAssumption
<1>5. Read - a <= 2 + blurred /\ blurred \in 0 .. Blurs
  <2>1. blurred \in 0 .. Blurs
    BY DEF ReadInv, ReadType
  <2>2. Read - a <= 2 + blurred \/ Read = Len(fs)
    BY DEF Tied
  <2> HIDE DEF c, fs
  <2>3. Read # Len(fs)
    BY <1>1
  <2>4. QED
    BY <2>1, <2>2, <2>3
<1>6. /\ Read - a \in Nat /\ (c - a) = (Read - a) + 1 /\ c - a \in Nat
      /\ (Blurs + 3) - (c - a) \in Nat
  <2> HIDE DEF c
  <2>1. c \in Int /\ Read \in Int /\ c = Read + 1 /\ a \in Int /\ a <= Read
    BY <1>1, <1>2, <1>4
  <2>2. QED
    BY <1>4, <1>5, <2>1
<1>7. /\ (Read - a) * Tol \in Nat /\ (c - a) * Tol \in Nat
      /\ (c - a) * Tol = (Read - a) * Tol + Tol
  BY <1>4, <1>6
<1>8. 2 * ((c - a) * Tol) < Pitch
  <2>1. /\ ((Blurs + 3) - (c - a)) * Tol \in Nat
        /\ (Blurs + 3) * Tol = (c - a) * Tol + ((Blurs + 3) - (c - a)) * Tol
    <3>1. \A x, k, t \in Nat : k * t \in Nat /\ (x + k) * t = x * t + k * t
      OBVIOUS
    <3> DEFINE k == (Blurs + 3) - (c - a)
    <3>2. k \in Nat /\ c - a \in Nat /\ (c - a) + k = Blurs + 3
      BY <1>4, <1>6
    <3> HIDE DEF k
    <3>3. k * Tol \in Nat /\ ((c - a) + k) * Tol = (c - a) * Tol + k * Tol
      BY <1>4, <3>1, <3>2
    <3>4. QED
      BY <3>2, <3>3 DEF k
  <2>2. 2 * ((Blurs + 3) * Tol) < Pitch /\ (Blurs + 3) * Tol \in Nat
    BY <1>4 DEF Proportions
  <2>3. QED
    BY <1>4, <1>7, <2>1, <2>2
<1>9. l \in 1 .. list /\ RowTop(l) \in Int
  <2>1. l \in 1 .. list
    BY DEF ReadInv, ReadType
  <2>2. l \in Int
    BY <2>1
  <2>3. QED
    BY <2>1, <2>2, RowsApart
<1>10. (cursor.contentY - fs[Read].top) - (cursor.lastRowY - RowTop(l))
          \in -((Read - a) * Tol) .. (Read - a) * Tol
  BY DEF Tied
<1>11. cursor.contentY \in Nat /\ cursor.lastRowY \in Int
  BY DEF ReadInv, ReadType
<1>12. ((cursor.contentY + fs[c].offset) - fs[c].top) - (cursor.lastRowY - RowTop(l))
          \in -((c - a) * Tol) .. (c - a) * Tol
  <2> DEFINE k == cursor.contentY
             y == cursor.lastRowY
             R == RowTop(l)
             o == fs[c].offset
             t == fs[Read].top
             u == fs[c].top
             p == (Read - a) * Tol
             q == (c - a) * Tol
  <2>1. k \in Int /\ y \in Int
    BY <1>11
  <2>2. R \in Int
    BY <1>9
  <2>3. o \in Int /\ t \in Int /\ u \in Int /\ o - (u - t) \in -Tol .. Tol
    BY <1>3
  <2>4. p \in Int /\ q \in Int /\ q = p + Tol
    BY <1>7
  <2>5. (k - t) - (y - R) \in -p .. p
    BY <1>10
  <2> HIDE DEF k, y, R, o, t, u, p, q
  <2>6. ((k + o) - u) - (y - R) \in -q .. q
    BY <1>4, <2>1, <2>2, <2>3, <2>4, <2>5
  <2>7. QED
    BY <2>6 DEF k, y, R, o, u, q
<1>13. c - a <= 3 + blurred
  BY <1>4, <1>5, <1>6
<1>14. QED
  BY <1>2, <1>7, <1>8, <1>12, <1>13

\* So the next frame tells the rows below the one read last from the others.
LEMMA NewRows ==
    ASSUME Proportions, list \in Nat, FilmOK(recorded.frames), ReadInv, ~Ended, rows # <<>>,
           NEW r \in 1 .. list
    PROVE  LET f == recorded.frames[cursor.frame]
           IN  IsNew(cursor.contentY + f.offset + (RowTop(r) - f.top)) <=> r > rows[Len(rows)]
<1> DEFINE f == recorded.frames[cursor.frame]
           l == rows[Len(rows)]
           e == ((cursor.contentY + f.offset) - f.top) - (cursor.lastRowY - RowTop(l))
           y == cursor.contentY + f.offset + (RowTop(r) - f.top)
<1>1. PICK a \in 1 .. Read : Tied(a)
  BY DEF ReadInv
<1> DEFINE d == (cursor.frame - a) * Tol
<1>2. /\ cursor.frame \in 2 .. Len(recorded.frames)
      /\ d \in Nat /\ e \in -d .. d /\ 2 * d < Pitch
  BY <1>1, Drift
<1>3. /\ f.offset \in Nat /\ f.top \in Nat
      /\ cursor.contentY \in Nat /\ cursor.lastRowY \in Nat
  <2>1. cursor.frame \in DOMAIN recorded.frames
    BY <1>2 DEF FilmOK
  <2>2. f.top \in Nat /\ f.offset \in Nat
    <3> DEFINE fs == recorded.frames
               c  == cursor.frame
    <3>1. FilmOK(fs) /\ c \in 2 .. Len(fs) /\ c \in DOMAIN fs /\ f = fs[c]
      BY <1>2, <2>1
    <3> HIDE DEF fs, c, f
    <3>2. fs[c].top \in Nat
      BY <3>1, BottomIsEnough DEF FilmOK
    <3>3. fs[c].offset \in Nat
      BY <3>1 DEF FilmOK
    <3>4. QED
      BY <3>1, <3>2, <3>3
  <2>3. cursor.contentY \in Nat /\ cursor.lastRowY \in Nat
    BY DEF ReadInv, ReadType
  <2>4. QED
    BY <2>2, <2>3
<1>4. l \in 1 .. list
  BY DEF ReadInv, ReadType
<1>5. RowTop(l) \in Int /\ RowTop(r) \in Int /\ Pitch \in Nat
  <2>1. l \in Int /\ r \in Int
    BY <1>4
  <2>2. QED
    BY <2>1, RowsApart
<1>6. y - cursor.lastRowY = e + RowTop(r) - RowTop(l) /\ y \in Int
  <2> DEFINE k == cursor.contentY
             z == cursor.lastRowY
             o == f.offset
             t == f.top
             L == RowTop(l)
             R == RowTop(r)
  <2>1. k \in Int /\ z \in Int /\ o \in Int /\ t \in Int /\ L \in Int /\ R \in Int
    BY <1>3, <1>5
  <2> HIDE DEF k, z, o, t, L, R
  <2>2. /\ (k + o + (R - t)) - z = ((k + o) - t) - (z - L) + R - L
        /\ k + o + (R - t) \in Int
    BY <2>1
  <2>3. QED
    BY <2>2 DEF k, z, o, t, L, R
<1>7. IsNew(y) <=> y - cursor.lastRowY > Pitch \div 2
  <2> HIDE DEF y, f
  <2>1. cursor.lastRowY \in Nat /\ y \in Int /\ Pitch \div 2 \in Int
    BY <1>3, <1>5, <1>6
  <2>2. ~(cursor.lastRowY < 0)
        /\ (y > cursor.lastRowY + Pitch \div 2 <=> y - cursor.lastRowY > Pitch \div 2)
    BY <2>1
  <2>3. QED
    BY <2>2 DEF IsNew
<1> HIDE DEF d, e, y, l, f
<1>8. CASE r > l
  <2>1. RowTop(l) + Pitch <= RowTop(r)
    BY <1>4, <1>8, RowsApart
  <2>2. QED
    BY <1>2, <1>5, <1>6, <1>7, <1>8, <2>1 DEF f, l, y
<1>9. CASE ~(r > l)
  <2>1. r = l \/ RowTop(r) + Pitch <= RowTop(l)
    BY <1>4, <1>9, RowsApart
  <2>2. RowTop(r) <= RowTop(l)
    BY <1>5, <2>1
  <2>3. QED
    BY <1>2, <1>5, <1>6, <1>7, <1>9, <2>2 DEF f, l, y
<1>10. QED
  BY <1>8, <1>9

\* Rows that are all below the row read last come after it, in order.
LEMMA AppendRows ==
    ASSUME list \in Nat, rows \in Seq(1 .. list), Rising(rows), NEW S \in SUBSET (1 .. list),
           rows # <<>> => \A r \in S : r > rows[Len(rows)]
    PROVE  LET b == InOrder(S)
               s == rows \o b
           IN  /\ s \in Seq(1 .. list) /\ Rising(s)
               /\ Len(b) = Cardinality(S) /\ Len(s) = Len(rows) + Len(b)
               /\ \A i \in 1 .. Len(rows) : s[i] = rows[i]
               /\ \A i \in 1 .. Len(b) : s[Len(rows) + i] = b[i]
               /\ S = {} => s = rows
               /\ S # {} => Len(b) > 0 /\ b[Len(b)] \in S /\ s[Len(s)] = b[Len(b)]
<1> DEFINE b == InOrder(S)
           s == rows \o b
           n == Cardinality(S)
<1>1. /\ IsFiniteSet(S) /\ n \in Nat /\ DOMAIN b = 1 .. n
      /\ \A k \in 1 .. n : b[k] \in S
      /\ \A k, l \in 1 .. n : k < l => b[k] < b[l]
  BY InOrderLists
<1>2. b \in [1 .. n -> 1 .. list]
  <2>1. b = [k \in 1 .. n |-> b[k]]
    BY <1>1 DEF InOrder
  <2> HIDE DEF b, n
  <2>2. QED
    BY <1>1, <2>1
<1> HIDE DEF b, n
<1>3. b \in Seq(1 .. list) /\ Len(b) = n
  BY <1>1, <1>2
<1>4. /\ s \in Seq(1 .. list) /\ Len(s) = Len(rows) + n /\ Len(rows) \in Nat
      /\ \A i \in 1 .. Len(rows) : s[i] = rows[i]
      /\ \A i \in 1 .. n : s[Len(rows) + i] = b[i]
  <2> DEFINE T == 1 .. list
  <2> HIDE DEF T
  <2>1. s \in Seq(1 .. list) /\ Len(s) = Len(rows) + Len(b) /\ Len(rows) \in Nat
    <3>1. rows \in Seq(T) /\ b \in Seq(T)
      BY <1>3 DEF T
    <3>2. s \in Seq(T)
      BY <3>1
    <3>3. Len(s) = Len(rows) + Len(b) /\ Len(rows) \in Nat
      BY <3>1
    <3>4. QED
      BY <3>2, <3>3 DEF T
  <2>2. \A i \in 1 .. Len(rows) : s[i] = rows[i]
    BY <1>3
  <2>3. \A i \in 1 .. Len(b) : s[Len(rows) + i] = b[i]
    BY <1>3
  <2>4. QED
    BY <1>3, <2>1, <2>2, <2>3
<1>5. S = {} => n = 0
  BY FS_EmptySet DEF n
<1>6. S = {} => s = rows
  <2> SUFFICES ASSUME S = {} PROVE s = rows
    OBVIOUS
  <2>1. b = <<>>
    BY <1>3, <1>5
  <2>2. QED
    BY <2>1
<1>7. ASSUME S # {} PROVE n > 0 /\ b[n] \in S /\ s[Len(s)] = b[n]
  <2>1. n # 0
    BY <1>1, <1>7, FS_EmptySet DEF n
  <2>2. QED
    BY <1>1, <1>4, <2>1
<1> HIDE DEF s
<1>8. Rising(s)
  <2> SUFFICES ASSUME NEW i \in 1 .. Len(s) - 1 PROVE s[i] < s[i + 1]
    BY DEF Rising
  <2>1. CASE i < Len(rows)
    <3>1. i \in 1 .. Len(rows) - 1 /\ i \in 1 .. Len(rows) /\ i + 1 \in 1 .. Len(rows)
      BY <1>4, <2>1
    <3>2. QED
      BY <1>4, <3>1 DEF Rising
  <2>2. CASE i = Len(rows)
    <3>1. /\ rows # <<>> /\ i \in 1 .. Len(rows) /\ 1 \in 1 .. n
          /\ rows[Len(rows)] \in Int
      BY <1>1, <1>4, <2>2
    <3>2. s[i] = rows[Len(rows)] /\ s[i + 1] = b[1] /\ b[1] \in S
      BY <1>1, <1>4, <2>2, <3>1
    <3>3. b[1] > rows[Len(rows)] /\ b[1] \in Int
      <4>1. \A x \in S : x \in Int
        OBVIOUS
      <4>2. QED
        BY <3>1, <3>2, <4>1
    <3>4. QED
      BY <3>1, <3>2, <3>3
  <2>3. CASE i > Len(rows)
    <3>1. PICK k \in 1 .. n : i = Len(rows) + k /\ k + 1 \in 1 .. n /\ k < k + 1
                              /\ i + 1 = Len(rows) + (k + 1)
      <4> DEFINE m == Len(rows)
      <4>0. m \in Nat /\ i > m /\ i \in 1 .. (m + n) - 1
        BY <1>4, <2>3
      <4> HIDE DEF m
      <4>1. i - m \in 1 .. n /\ (i - m) + 1 \in 1 .. n
            /\ i = m + (i - m) /\ i + 1 = m + ((i - m) + 1) /\ i - m < (i - m) + 1
        BY <1>1, <4>0
      <4>2. QED
        BY <4>1 DEF m
    <3>2. s[i] = b[k] /\ s[i + 1] = b[k + 1]
      BY <1>4, <3>1
    <3>3. QED
      BY <1>1, <3>1, <3>2
  <2>4. QED
    BY <1>4, <2>1, <2>2, <2>3
<1>9. S # {} => Len(b) > 0 /\ b[Len(b)] \in S /\ s[Len(s)] = b[Len(b)]
  BY <1>3, <1>7
<1>10. Len(b) = n /\ Len(s) = Len(rows) + Len(b)
       /\ \A i \in 1 .. Len(b) : s[Len(rows) + i] = b[i]
  BY <1>3, <1>4
<1>11. QED
  BY <1>4, <1>6, <1>8, <1>9, <1>10 DEF b, s, n

\* Two frames are less than a row apart if the row after one that is whole in the
\* first is not whole in the second.
LEMMA LessThanARow ==
    ASSUME NEW x \in Int, NEW y \in Int, NEW R \in Int, NEW P \in Int, NEW H \in Int,
           R + P <= x + H, R + P + P > y + H
    PROVE  y - x < P
  OBVIOUS

\* A frame shows no new row, though none is dropped, only while the list has
\* moved by less than a row since the row read last was found.
LEMMA NothingNew ==
    ASSUME Proportions, list \in Nat, NEW fs, FilmOK(fs),
           NEW a \in 1 .. Len(fs), NEW c \in 1 .. Len(fs), a <= c,
           NEW l \in 1 .. list, RowTop(l) + Pitch <= fs[a].top + Height,
           NEW v, LastWhole(v, fs[c].top), v <= l
    PROVE  c - a <= 2 \/ c = Len(fs)
<1>1. /\ DOMAIN fs = 1 .. Len(fs) /\ Len(fs) \in Nat
      /\ fs[a].top \in 0 .. Bottom /\ fs[c].top \in 0 .. Bottom
  BY DEF FilmOK
<1>2. /\ Bottom \in Nat /\ Pitch \in Nat /\ Height \in Nat /\ Margin \in Nat /\ Margin < Pitch
  BY BottomIsEnough, ScrollAssumption DEF Proportions
<1>3. a = c \/ a < c
  BY <1>1
<1>4. fs[a].top <= fs[c].top
  <2>1. CASE a = c
    BY <1>1, <1>2, <2>1
  <2>2. CASE a < c
    <3>1. fs[a].top < fs[c].top
      BY <2>2, FilmGrows
    <3>2. QED
      BY <1>1, <1>2, <3>1
  <2>3. QED
    BY <1>3, <2>1, <2>2
<1>5. l \in Int /\ l \in 0 .. list /\ v \in 0 .. list
  BY DEF LastWhole
<1>6. RowTop(l) \in Int /\ RowTop(l + 1) = RowTop(l) + Pitch /\ RowTop(l) + Pitch = l * Pitch
  BY <1>5, RowsApart
<1>7. RowTop(l) + Pitch <= fs[c].top + Height
  <2> DEFINE end == RowTop(l) + Pitch
  <2>1. end \in Int
    BY <1>2, <1>6
  <2>2. end <= fs[a].top + Height
    OBVIOUS
  <2> HIDE DEF end
  <2>3. end <= fs[c].top + Height
    BY <1>1, <1>2, <1>4, <2>1, <2>2
  <2>4. QED
    BY <2>3 DEF end
<1>8. v = l
  <2>1. l <= v
    BY <1>1, <1>5, <1>7, LastWholeIsLast
  <2>2. QED
    BY <1>5, <2>1
<1>9. fs[c].top - fs[a].top < Pitch
  <2>1. CASE l = list
    <3>1. Bottom = 0 \/ Bottom = l * Pitch + Margin - Height
      BY <1>2, <1>6, <2>1 DEF Bottom
    <3>2. Bottom = 0 \/ Bottom = RowTop(l) + Pitch + Margin - Height
      BY <1>6, <3>1
    <3> DEFINE x == fs[a].top
               y == fs[c].top
               R == RowTop(l)
    <3>3. /\ x \in 0 .. Bottom /\ y \in 0 .. Bottom /\ R \in Int
          /\ R + Pitch <= x + Height /\ (Bottom = 0 \/ Bottom = R + Pitch + Margin - Height)
      BY <1>1, <1>6, <3>2
    <3> HIDE DEF x, y, R
    <3>4. Bottom = 0 => y - x < Pitch
      BY <1>2, <3>3, ScrollAssumption
    <3>5. Bottom # 0 => y <= R + Pitch + Margin - Height /\ y \in Int /\ x \in Int
      BY <1>2, <3>3
    <3>6. Bottom # 0 => y - x < Pitch
      BY <1>2, <3>3, <3>5
    <3>7. QED
      BY <3>4, <3>6 DEF x, y
  <2>2. CASE l # list
    <3>1. RowTop(l + 1) + Pitch > fs[c].top + Height
      BY <1>8, <2>2 DEF LastWhole
    <3> DEFINE x == fs[a].top
               y == fs[c].top
               R == RowTop(l)
    <3>2. x \in Int /\ y \in Int /\ R \in Int
      BY <1>1, <1>2, <1>6
    <3>3. R + Pitch <= x + Height
      OBVIOUS
    <3>4. R + Pitch + Pitch > y + Height
      BY <1>6, <3>1
    <3> HIDE DEF x, y, R
    <3>5. Pitch \in Int /\ Height \in Int
      BY <1>2
    <3>6. y - x < Pitch
      BY <3>2, <3>3, <3>4, <3>5, LessThanARow, Zenon
    <3>7. QED
      BY <3>6 DEF x, y
  <2>3. QED
    BY <2>1, <2>2
<1>10. QED
  BY <1>9, FilmStandsStill

\* The row after the last whole one of a frame is whole in the next frame, or
\* further down: no move passes it.
LEMMA NextRowIsAhead ==
    ASSUME list \in Nat, NEW fs, FilmOK(fs), NEW c \in 1 .. Len(fs), NEW l \in 0 .. list,
           l # list, c = 1 => l = 0, c # 1 => LastWhole(l, fs[c - 1].top)
    PROVE  fs[c].top <= RowTop(l + 1)
<1>1. /\ DOMAIN fs = 1 .. Len(fs) /\ Len(fs) \in Nat
      /\ \A i \in 1 .. Len(fs) : fs[i].top \in Nat
  BY BottomIsEnough DEF FilmOK
<1>2. CASE c = 1
  <2>1. fs[c].top = 0
    BY <1>1, <1>2 DEF FilmOK
  <2>2. RowTop(l + 1) = 0
    BY <1>2, RowsApart
  <2>3. QED
    BY <2>1, <2>2
<1>3. CASE c # 1
  <2>1. c \in 2 .. Len(fs) /\ c - 1 \in 1 .. Len(fs)
    BY <1>1, <1>3
  <2>2. MoveOf(fs, c) \in 1 .. Usable + 1
    BY <2>1 DEF FilmOK
  <2>3. RowTop(l + 1) + Pitch > fs[c - 1].top + Height
    BY <1>3 DEF LastWhole
  <2>4. RowTop(l + 1) \in Int /\ Pitch \in Nat /\ Height \in Nat
    <3>1. l + 1 \in Int
      OBVIOUS
    <3>2. QED
      BY <3>1, RowsApart, ScrollAssumption
  <2>5. fs[c].top \in Nat /\ fs[c - 1].top \in Nat
    BY <1>1, <2>1
  <2> DEFINE x == fs[c - 1].top
             y == fs[c].top
             R == RowTop(l + 1)
  <2>6. /\ x \in Nat /\ y \in Nat /\ R \in Int /\ R + Pitch > x + Height
        /\ y - x \in 1 .. (Height - Pitch) + 1
    BY <2>2, <2>3, <2>4, <2>5 DEF MoveOf, Usable
  <2> HIDE DEF x, y, R
  <2>7. y <= R
    BY <2>4, <2>6
  <2>8. QED
    BY <2>7 DEF y, R
<1>4. QED
  BY <1>2, <1>3

\* A frame that is read brings the rows below those read so far, whatever the
\* offset was off by; all of them, and without a gap, if no band is dropped.
LEMMA ReadFrameKeepsReadInv ==
    ASSUME Proportions, list \in Nat, FilmOK(recorded.frames), ReadInv, ReadFrame
    PROVE  ReadInv'
<1> DEFINE fs == recorded.frames
           c  == cursor.frame
           f  == fs[c]
           l  == IF rows = <<>> THEN 0 ELSE rows[Len(rows)]
           contentY == IF c = 1 THEN 0 ELSE cursor.contentY + f.offset
           rowY(r)  == contentY + (RowTop(r) - f.top)
<1>1. /\ Len(fs) \in Nat /\ DOMAIN fs = 1 .. Len(fs) /\ c \in 1 .. Len(fs)
      /\ Read = c - 1 /\ c - 1 \in 0 .. Len(fs) /\ ~Ended /\ step = "read"
  <2>1. Len(fs) \in Nat /\ DOMAIN fs = 1 .. Len(fs)
    BY DEF FilmOK
  <2>2. c \in 1 .. Len(fs) + 1 /\ ~(c > Len(fs)) /\ ~Ended /\ step = "read"
    BY DEF ReadInv, ReadType, Ended, ReadFrame
  <2> HIDE DEF c, fs
  <2>3. c \in 1 .. Len(fs) /\ c - 1 \in 0 .. Len(fs)
    BY <2>1, <2>2
  <2>4. Read = c - 1
    BY DEF Read, c
  <2>5. QED
    BY <2>1, <2>2, <2>3, <2>4
<1>2. rows = <<>> <=> c = 1
  <2>1. c = 1 => rows = <<>>
    BY <1>1 DEF ReadInv
  <2>2. rows = <<>> /\ c # 1 => Len(fs) = 1
    BY <1>1 DEF ReadInv
  <2> HIDE DEF c, fs
  <2>3. QED
    BY <1>1, <2>1, <2>2
<1>3. /\ rows \in Seq(1 .. list) /\ Len(rows) \in Nat /\ l \in 0 .. list
      /\ rows # <<>> => l = rows[Len(rows)] /\ l \in 1 .. list
  BY DEF ReadInv, ReadType
<1>4. f.top \in 0 .. Bottom /\ Bottom \in Nat /\ f.top \in Nat /\ (c = 1 => f.top = 0)
  <2> HIDE DEF fs, c
  <2>1. FilmOK(fs)
    BY DEF fs
  <2>2. QED
    BY <1>1, <2>1, BottomIsEnough DEF FilmOK
<1>5. contentY \in Nat
  <2>1. c # 1 => f.offset \in Nat
    <3> HIDE DEF fs, c
    <3>1. FilmOK(fs) /\ (c # 1 => c \in 2 .. Len(fs))
      BY <1>1 DEF fs
    <3>2. QED
      BY <3>1 DEF FilmOK
  <2>2. cursor.contentY \in Nat
    BY DEF ReadInv, ReadType
  <2> HIDE DEF f, c
  <2>3. QED
    BY <2>1, <2>2
<1>6. ASSUME NEW r \in 1 .. list PROVE IsNew(rowY(r)) <=> r > l
  <2>1. CASE c = 1
    <3>1. cursor.lastRowY < 0 /\ l = 0
      BY <1>2, <2>1 DEF ReadInv
    <3>2. QED
      BY <3>1 DEF IsNew
  <2>2. CASE c # 1
    <3>1. rows # <<>>
      BY <1>2, <2>2
    <3>2. IsNew(cursor.contentY + f.offset + (RowTop(r) - f.top)) <=> r > rows[Len(rows)]
      BY <1>1, <3>1, NewRows
    <3>3. QED
      BY <2>2, <3>1, <3>2
  <2>3. QED
    BY <2>1, <2>2
<1>7. PICK v \in 0 .. list : LastWhole(v, f.top)
  BY <1>4, LastWholeExists
<1>8. /\ \A r \in 0 .. list : RowTop(r) + Pitch <= f.top + Height <=> r <= v
      /\ v # 0 => f.top <= RowTop(v)
      /\ v <= 1 /\ f.top = 0 => list <= 1
  BY <1>4, <1>7, LastWholeIsLast
<1>9. PICK lost \in {{}} \cup {{r} : r \in BandsOf(f)} :
        LET seen  == {r \in BandsOf(f) \ lost : IsNew(rowY(r))}
            bands == InOrder(seen)
        IN  /\ lost = {} \/ blurred < Blurs
            /\ blurred' = IF lost = {} THEN blurred ELSE blurred + 1
            /\ rows' = rows \o bands
            /\ cursor' = [frame |-> c + 1, contentY |-> contentY,
                          lastRowY |-> IF seen = {} THEN cursor.lastRowY
                                       ELSE rowY(bands[Len(bands)])]
  BY DEF ReadFrame
<1> DEFINE S == {r \in 1 .. list : f.top <= RowTop(r) /\ r <= v /\ r > l /\ r \notin lost}
           b == InOrder(S)
<1>10. {r \in BandsOf(f) \ lost : IsNew(rowY(r))} = S
  <2>1. \A r \in 1 .. list : r \in BandsOf(f) <=> f.top <= RowTop(r) /\ r <= v
    BY <1>8 DEF BandsOf
  <2>2. BandsOf(f) \subseteq 1 .. list
    BY DEF BandsOf
  <2> HIDE DEF f, rowY, l
  <2>3. QED
    BY <1>6, <2>1, <2>2
<1>11. /\ lost = {} \/ blurred < Blurs
       /\ blurred' = IF lost = {} THEN blurred ELSE blurred + 1
       /\ rows' = rows \o b
       /\ cursor'.frame = c + 1 /\ cursor'.contentY = contentY
       /\ cursor'.lastRowY = IF S = {} THEN cursor.lastRowY ELSE rowY(b[Len(b)])
  <2> HIDE DEF S, rowY, contentY, f, c
  <2>1. QED
    BY <1>9, <1>10
<1>12. /\ S \in SUBSET (1 .. list) /\ Rising(rows)
       /\ rows # <<>> => \A r \in S : r > rows[Len(rows)]
  BY <1>3 DEF ReadInv
<1>13. /\ rows' \in Seq(1 .. list) /\ Rising(rows')
       /\ Len(b) = Cardinality(S) /\ Len(rows') = Len(rows) + Len(b)
       /\ \A i \in 1 .. Len(rows) : rows'[i] = rows[i]
       /\ \A i \in 1 .. Len(b) : rows'[Len(rows) + i] = b[i]
       /\ S = {} => rows' = rows
       /\ S # {} => Len(b) > 0 /\ b[Len(b)] \in S /\ rows'[Len(rows')] = b[Len(b)]
  <2> HIDE DEF S
  <2>1. QED
    BY <1>3, <1>11, <1>12, AppendRows
<1>14. UNCHANGED <<list, step, recorded>> /\ Read' = c
  <2>1. UNCHANGED <<list, step, recorded>>
    BY DEF ReadFrame, taskVars, scrollVars, gameVars
  <2>2. cursor.frame' = c + 1 /\ c \in Nat
    <3> HIDE DEF S, b, rowY, contentY, l, f, fs
    <3>1. cursor.frame' = c + 1
      BY <1>11
    <3>2. c \in Nat
      BY <1>1
    <3>3. QED
      BY <3>1, <3>2
  <2>3. Read' = c
    BY <2>2 DEF Read
  <2>4. QED
    BY <2>1, <2>3
<1> HIDE DEF S, b, rowY, contentY, l, f, fs, c
<1>15. ReadType'
  <2>1. cursor'.lastRowY \in Int
    <3>1. CASE S = {}
      BY <1>11, <3>1 DEF ReadInv, ReadType
    <3>2. CASE S # {}
      <4>1. b[Len(b)] \in Int
        BY <1>12, <1>13, <3>2
      <4>2. RowTop(b[Len(b)]) \in Int
        BY <4>1, RowsApart
      <4>3. rowY(b[Len(b)]) \in Int
        BY <1>4, <1>5, <4>2 DEF rowY
      <4>4. QED
        BY <1>11, <3>2, <4>3
    <3>3. QED
      BY <3>1, <3>2
  <2>2. blurred' \in 0 .. Blurs
    BY <1>11, VSCaptureAssumption DEF ReadInv, ReadType
  <2>3. cursor'.frame \in 1 .. Len(recorded'.frames) + 1
    BY <1>1, <1>11, <1>14 DEF fs
  <2>4. QED
    BY <1>5, <1>11, <1>13, <1>14, <2>1, <2>2, <2>3 DEF ReadType
<1>16. (Read > 0 => step \in {"read", "out"})'
  BY <1>1, <1>14
<1>17. (Read = 0 => rows = <<>> /\ cursor.contentY = 0)'
  BY <1>1, <1>14
<1>18. ASSUME rows' = <<>> PROVE cursor'.lastRowY = -1 /\ Len(recorded'.frames) = 1
  <2>1. S = {} /\ rows = <<>> /\ c = 1 /\ l = 0
    <3>1. S = {}
      BY <1>3, <1>13, <1>18
    <3>2. QED
      BY <1>2, <1>13, <1>18, <3>1 DEF l
  <2>2. cursor'.lastRowY = -1
    BY <1>11, <2>1 DEF ReadInv
  <2>3. v <= 1
    <3> SUFFICES ASSUME ~(v <= 1) PROVE FALSE
      OBVIOUS
    <3>1. 1 \in 1 .. list /\ 2 \in 1 .. list /\ 1 <= v /\ 2 <= v /\ 1 > l /\ 2 > l
      BY <1>7, <2>1
    <3>2. f.top <= RowTop(1) /\ f.top <= RowTop(2)
      <4>1. RowTop(1) = 0 /\ RowTop(1) + Pitch <= RowTop(2) /\ Pitch \in Nat
            /\ RowTop(2) \in Int
        BY RowsApart
      <4>2. QED
        BY <1>4, <2>1, <4>1
    <3>3. 1 \notin lost => 1 \in S
      BY <3>1, <3>2 DEF S
    <3>4. 2 \notin lost => 2 \in S
      BY <3>1, <3>2 DEF S
    <3>5. ~(1 \in lost /\ 2 \in lost)
      BY <1>9
    <3>6. QED
      BY <2>1, <3>3, <3>4, <3>5
  <2>4. list <= 1
    BY <1>4, <1>8, <2>1, <2>3
  <2>5. Bottom = 0
    <3>1. list * Pitch = 0 \/ list * Pitch = Pitch
      <4>1. list = 0 \/ list = 1
        BY <2>4
      <4>2. QED
        BY <4>1, ScrollAssumption
    <3>2. QED
      BY <3>1, ScrollAssumption DEF Bottom, Proportions
  <2>6. Len(fs) = 1
    <3> SUFFICES ASSUME Len(fs) # 1 PROVE FALSE
      OBVIOUS
    <3>1. 1 \in 1 .. Len(fs) /\ 2 \in 1 .. Len(fs) /\ 1 < 2
      BY <1>1
    <3>2. FilmOK(fs)
      BY DEF fs
    <3>3. fs[1].top < fs[2].top
      BY <3>1, <3>2, FilmGrows
    <3>4. fs[1].top \in 0 .. Bottom /\ fs[2].top \in 0 .. Bottom
      BY <1>1, <3>1, <3>2 DEF FilmOK
    <3>5. QED
      BY <2>5, <3>3, <3>4
  <2>7. QED
    BY <1>14, <2>2, <2>6 DEF fs
<1>19. ASSUME rows' # <<>> PROVE cursor'.lastRowY >= 0 /\ \E a \in 1 .. c : Tied(a)'
  <2>1. CASE S = {}
    <3>1. /\ rows' = rows /\ rows # <<>> /\ c # 1
          /\ cursor'.lastRowY = cursor.lastRowY
      BY <1>2, <1>11, <1>13, <1>19, <2>1
    <3>2. cursor'.lastRowY >= 0
      BY <3>1 DEF ReadInv
    <3>3. PICK a \in 1 .. Read : Tied(a)
      BY <3>1 DEF ReadInv
    <3>4. FilmOK(fs) /\ a \in 1 .. Len(fs) /\ a \in 1 .. c /\ a <= c
      BY <1>1, <3>3 DEF fs
    <3>5. RowTop(l) + Pitch <= fs[a].top + Height
      BY <1>3, <3>1, <3>3 DEF Tied, fs
    <3>6. /\ (c - a) * Tol \in Nat /\ c - a <= 3 + blurred
          /\ (contentY - f.top) - (cursor.lastRowY - RowTop(l)) \in -((c - a) * Tol) .. (c - a) * Tol
      <4>1. /\ (cursor.frame - a) * Tol \in Nat /\ cursor.frame - a <= 3 + blurred
            /\ ((cursor.contentY + fs[cursor.frame].offset) - fs[cursor.frame].top)
                  - (cursor.lastRowY - RowTop(rows[Len(rows)]))
                     \in -((cursor.frame - a) * Tol) .. (cursor.frame - a) * Tol
        BY <1>1, <3>1, <3>3, Drift DEF fs
      <4>2. contentY = cursor.contentY + f.offset /\ l = rows[Len(rows)]
        BY <1>3, <3>1 DEF contentY
      <4> DEFINE x == cursor.contentY + f.offset
      <4>3. /\ (c - a) * Tol \in Nat /\ c - a <= 3 + blurred
            /\ (x - f.top) - (cursor.lastRowY - RowTop(rows[Len(rows)])) \in -((c - a) * Tol) .. (c - a) * Tol
        BY <4>1 DEF c, f
      <4>4. contentY = x /\ rows[Len(rows)] = l
        BY <4>2
      <4> HIDE DEF x
      <4>5. QED
        BY <4>3, <4>4
    <3>7. c - a <= 2 + blurred' \/ c = Len(fs)
      <4>1. CASE lost # {}
        <5>1. blurred' = blurred + 1 /\ blurred \in Nat
          BY <1>11, <4>1 DEF ReadInv, ReadType
        <5>2. c - a \in Int /\ c - a <= 3 + blurred
          BY <1>1, <3>4, <3>6
        <5>3. c - a <= 2 + blurred'
          BY <5>1, <5>2
        <5>4. QED
          BY <5>3
      <4>2. CASE lost = {}
        <5>1. v <= l
          <6> SUFFICES ASSUME ~(v <= l) PROVE FALSE
            OBVIOUS
          <6>1. v \in 1 .. list /\ v > l /\ v # 0
            BY <1>3, <1>7
          <6>2. v \in S
            BY <1>8, <4>2, <6>1 DEF S
          <6>3. QED
            BY <2>1, <6>2
        <5>2. c - a <= 2 \/ c = Len(fs)
          BY <1>1, <1>3, <1>7, <3>1, <3>4, <3>5, <5>1, NothingNew DEF f
        <5>3. blurred' \in Nat
          BY <1>15 DEF ReadType
        <5>4. c - a \in Int
          BY <1>1, <3>4
        <5>5. c - a <= 2 => c - a <= 2 + blurred'
          BY <5>3, <5>4
        <5>6. QED
          BY <5>2, <5>5
      <4>3. QED
        BY <4>1, <4>2
    <3>8. Tied(a)'
      BY <1>3, <1>11, <1>14, <3>1, <3>5, <3>6, <3>7 DEF Tied, fs, f
    <3>9. QED
      BY <3>2, <3>4, <3>8
  <2>2. CASE S # {}
    <3> DEFINE k == b[Len(b)]
    <3>1. k \in S /\ rows'[Len(rows')] = k /\ cursor'.lastRowY = rowY(k)
      BY <1>11, <1>13, <2>2
    <3>2. k \in 1 .. list /\ f.top <= RowTop(k) /\ k <= v /\ k \in 0 .. list /\ k \in Int
      BY <1>12, <3>1 DEF S
    <3>3. RowTop(k) \in Int /\ RowTop(k) + Pitch <= f.top + Height
      BY <1>8, <3>2, RowsApart
    <3> HIDE DEF k
    <3>4. cursor'.lastRowY >= 0
      BY <1>4, <1>5, <3>1, <3>2, <3>3 DEF rowY
    <3>5. (contentY - f.top) - (rowY(k) - RowTop(k)) = 0
      BY <1>4, <1>5, <3>3 DEF rowY
    <3>6. PICK n \in 1 .. c : n = c
      BY <1>1
    <3>7. blurred' \in Nat
      BY <1>15 DEF ReadType
    <3>8. Read' - n = 0 /\ (Read' - n) * Tol = 0
      BY <1>1, <1>14, <3>6, ScrollAssumption
    <3>9. (cursor'.contentY - fs[Read'].top) - (cursor'.lastRowY - RowTop(rows'[Len(rows')]))
             \in -((Read' - n) * Tol) .. (Read' - n) * Tol
      <4>1. (cursor'.contentY - fs[Read'].top) - (cursor'.lastRowY - RowTop(rows'[Len(rows')])) = 0
        BY <1>11, <1>14, <3>1, <3>5 DEF f
      <4>2. QED
        BY <3>8, <4>1
    <3>10. RowTop(rows'[Len(rows')]) + Pitch <= fs[n].top + Height
      BY <3>1, <3>3, <3>6 DEF f
    <3>11. Read' - n <= 2 + blurred'
      BY <3>7, <3>8
    <3>12. Tied(n)'
      BY <1>14, <3>9, <3>10, <3>11 DEF Tied, fs
    <3>13. QED
      BY <3>4, <3>6, <3>12
  <2>3. QED
    BY <2>1, <2>2
<1>20. ASSUME blurred' = 0
       PROVE  /\ \A i \in 1 .. Len(rows') : rows'[i] = i
              /\ LastWhole(Len(rows'), f.top)
  <2>1. lost = {} /\ blurred = 0
    BY <1>11, <1>20 DEF ReadInv, ReadType
  <2>2. (\A i \in 1 .. Len(rows) : rows[i] = i) /\ Len(rows) = l
    <3>1. \A i \in 1 .. Len(rows) : rows[i] = i
      BY <2>1 DEF ReadInv
    <3>2. CASE rows = <<>>
      BY <3>1, <3>2 DEF l
    <3>3. CASE rows # <<>>
      <4>1. Len(rows) \in 1 .. Len(rows)
        BY <1>3, <3>3
      <4>2. QED
        BY <1>3, <3>1, <3>3, <4>1
    <3>4. QED
      BY <3>1, <3>2, <3>3
  <2>3. FilmOK(fs) /\ c \in 1 .. Len(fs)
    BY <1>1 DEF fs
  <2>4. c # 1 => LastWhole(l, fs[c - 1].top)
    BY <1>1, <2>1, <2>2 DEF ReadInv, fs
  <2>5. c = 1 => l = 0
    BY <1>2 DEF l
  <2>6. l <= v
    <3>1. CASE c = 1
      BY <1>7, <2>5, <3>1
    <3>2. CASE c # 1
      <4>1. c - 1 \in 1 .. Len(fs) /\ c - 1 < c
        BY <1>1, <3>2
      <4>2. fs[c - 1].top < f.top /\ fs[c - 1].top \in Nat
        <5>1. fs[c - 1].top < fs[c].top
          BY <2>3, <4>1, FilmGrows
        <5>2. fs[c - 1].top \in 0 .. Bottom
          BY <1>1, <2>3, <4>1 DEF FilmOK
        <5>3. QED
          BY <1>4, <5>1, <5>2 DEF f
      <4>3. RowTop(l) + Pitch <= fs[c - 1].top + Height
        BY <2>4, <3>2 DEF LastWhole
      <4>4. RowTop(l) \in Int /\ Pitch \in Nat /\ Height \in Nat
        <5>1. l \in Int
          BY <1>3
        <5>2. QED
          BY <5>1, RowsApart, ScrollAssumption
      <4>5. RowTop(l) + Pitch <= f.top + Height
        BY <1>4, <4>2, <4>3, <4>4
      <4>6. QED
        BY <1>3, <1>8, <4>5
    <3>3. QED
      BY <3>1, <3>2
  <2>7. S = l + 1 .. v
    <3>1. \A r \in l + 1 .. v : r \in 1 .. list /\ r > l /\ r <= v
      BY <1>3, <1>7
    <3>2. \A r \in l + 1 .. v : f.top <= RowTop(r)
      <4> TAKE r \in l + 1 .. v
      <4>1. l # list
        BY <1>3, <1>7
      <4>2. f.top <= RowTop(l + 1)
        BY <1>3, <2>3, <2>4, <2>5, <4>1, NextRowIsAhead DEF f
      <4>3. r = l + 1 \/ RowTop(l + 1) + Pitch <= RowTop(r)
        <5>1. l + 1 \in Int /\ r \in Int /\ (r = l + 1 \/ l + 1 < r)
          BY <1>3
        <5>2. QED
          BY <5>1, RowsApart
      <4>4. RowTop(r) \in Int /\ RowTop(l + 1) \in Int /\ Pitch \in Nat
        <5>1. l + 1 \in Int /\ r \in Int
          BY <1>3
        <5>2. QED
          BY <5>1, RowsApart
      <4>5. QED
        BY <1>4, <4>2, <4>3, <4>4
    <3>3. \A r \in S : r \in l + 1 .. v
      BY <1>3, <1>7 DEF S
    <3>4. \A r \in l + 1 .. v : r \in S
      BY <2>1, <3>1, <3>2 DEF S
    <3>5. QED
      BY <3>3, <3>4
  <2>8. Len(b) = v - l /\ \A k \in 1 .. v - l : b[k] = l + k
    <3>1. l \in Nat /\ v \in Nat
      BY <1>3, <1>7
    <3>2. /\ Cardinality(l + 1 .. v) = v - l
          /\ \A k \in 1 .. v - l : InOrder(l + 1 .. v)[k] = l + k
      BY <2>6, <3>1, IntervalInOrder
    <3>3. b = InOrder(l + 1 .. v)
      BY <2>7 DEF b
    <3>4. QED
      BY <1>13, <2>7, <3>2, <3>3
  <2>9. Len(rows') = v
    BY <1>3, <1>7, <1>13, <2>2, <2>8
  <2>10. ASSUME NEW i \in 1 .. Len(rows') PROVE rows'[i] = i
    <3>1. CASE i <= l
      <4>1. i \in 1 .. Len(rows)
        BY <1>3, <2>2, <3>1
      <4>2. QED
        BY <1>13, <2>2, <4>1
    <3>2. CASE ~(i <= l)
      <4>1. i - l \in 1 .. v - l /\ i = l + (i - l)
        BY <1>3, <1>7, <2>9, <3>2
      <4>2. rows'[l + (i - l)] = l + (i - l)
        BY <1>13, <2>2, <2>8, <4>1
      <4>3. QED
        BY <4>1, <4>2
    <3>3. QED
      BY <3>1, <3>2
  <2>11. QED
    BY <1>7, <2>9, <2>10
<1>21. (rows = <<>> => cursor.lastRowY = -1 /\ (Read > 0 => Len(recorded.frames) = 1))'
  BY <1>18
<1>22. (rows # <<>> => cursor.lastRowY >= 0 /\ \E a \in 1 .. Read : Tied(a))'
  BY <1>14, <1>19
<1>23. (blurred = 0 =>
          /\ \A i \in 1 .. Len(rows) : rows[i] = i
          /\ Read > 0 => LastWhole(Len(rows), recorded.frames[Read].top))'
  <2>1. Read' > 0 /\ recorded'.frames[Read'].top = f.top
    BY <1>1, <1>14 DEF fs, f
  <2>2. LastWhole(Len(rows'), f.top) => LastWhole(Len(rows), recorded.frames[Read].top)'
    BY <1>14, <2>1 DEF LastWhole
  <2>3. QED
    BY <1>20, <2>1, <2>2
<1>24. Rising(rows)'
  BY <1>13 DEF Rising
<1>25. QED
  BY <1>15, <1>16, <1>17, <1>21, <1>22, <1>23, <1>24 DEF ReadInv

LEMMA ListStays == [ScrollStep]_scrollVars => UNCHANGED list
<1> SUFFICES ASSUME [ScrollStep]_scrollVars PROVE UNCHANGED list
  OBVIOUS
<1> USE DEF gameVars
<1>1. CASE FirstFrame \/ Swipe \/ LookAgain \/ Unmoved \/ KeepFrame
  BY <1>1 DEF FirstFrame, Swipe, LookAgain, Unmoved, KeepFrame
<1>2. CASE OutOfFrames \/ BottomProven \/ Overshot \/ Unmeasurable \/ Interrupted
  BY <1>2 DEF OutOfFrames, BottomProven, Done, Overshot, Unmeasurable, Interrupted, Fail
<1>3. CASE UNCHANGED scrollVars
  BY <1>3 DEF scrollVars
<1>4. QED
  BY <1>1, <1>2, <1>3 DEF ScrollStep

LEMMA ReadKept ==
    ASSUME ReadInv, UNCHANGED <<list, recorded, cursor, rows, blurred>>,
           step \in {"read", "out"} => step' \in {"read", "out"}
    PROVE  ReadInv'
<1>1. UNCHANGED Read /\ ReadType'
  BY DEF Read, ReadInv, ReadType
<1>2. \A a : Tied(a) => Tied(a)'
  BY <1>1 DEF Tied
<1>3. \A v, top : LastWhole(v, top)' = LastWhole(v, top)
  BY DEF LastWhole
<1>4. (Rising(rows) /\ (Read > 0 => step \in {"read", "out"}))'
  BY <1>1 DEF ReadInv, Rising
<1>5. (rows # <<>> => cursor.lastRowY >= 0 /\ \E a \in 1 .. Read : Tied(a))'
  BY <1>1, <1>2 DEF ReadInv
<1>6. /\ (Read = 0 => rows = <<>> /\ cursor.contentY = 0)'
      /\ (rows = <<>> => cursor.lastRowY = -1 /\ (Read > 0 => Len(recorded.frames) = 1))'
  BY <1>1 DEF ReadInv
<1>7. (blurred = 0 =>
          /\ \A i \in 1 .. Len(rows) : rows[i] = i
          /\ Read > 0 => LastWhole(Len(rows), recorded.frames[Read].top))'
  BY <1>1 DEF ReadInv, LastWhole
<1>8. QED
  BY <1>1, <1>4, <1>5, <1>6, <1>7 DEF ReadInv

\* The frames that are read are those of a film, whichever were recorded.
FilmRecorded == FilmOK(recorded.frames)

VSReadInv == ScrollInv /\ FilmInv /\ RecordInv /\ FilmRecorded /\ ReadInv

LEMMA VSKeepsRead ==
    ASSUME Proportions, VSReadInv, list \in Nat, VSStep \/ DrawMark, UNCHANGED list
    PROVE  FilmRecorded' /\ ReadInv'
<1> USE DEF VSReadInv
<1>1. CASE Record
  <2>1. /\ recorded'.frames = frames /\ UNCHANGED <<cursor, rows, blurred>>
        /\ step = "scroll" /\ step' = "read"
    BY <1>1 DEF Record
  <2>2. Read = 0 /\ Read' = 0 /\ cursor.frame = 1 /\ cursor'.frame = 1
    <3>1. cursor.frame \in Int /\ cursor.frame - 1 >= 0
      BY DEF ReadInv, ReadType, FilmRecorded, FilmOK
    <3>2. ~(cursor.frame - 1 > 0)
      BY <2>1 DEF ReadInv, Read
    <3>3. QED
      BY <2>1, <3>1, <3>2 DEF Read
  <2>3. FilmRecorded'
    <3>1. FilmOK(frames) /\ Bottom' = Bottom
      BY DEF FilmInv, Bottom
    <3>2. QED
      BY <2>1, <3>1 DEF FilmRecorded, FilmOK, MoveOf, Short
  <2>4. rows = <<>> /\ Len(frames) \in Nat
    BY <2>2 DEF ReadInv, FilmInv, FilmOK
  <2>5. ReadType'
    BY <2>1, <2>2, <2>4 DEF ReadInv, ReadType
  <2>6. /\ rows' = <<>> /\ Len(rows') = 0 /\ cursor'.lastRowY = -1 /\ cursor'.contentY = 0
    BY <2>1, <2>2, <2>4 DEF ReadInv
  <2>7. QED
    BY <2>2, <2>3, <2>5, <2>6 DEF ReadInv, Rising
<1>2. CASE ReadFrame
  <2>1. ReadInv'
    BY <1>2, ReadFrameKeepsReadInv DEF FilmRecorded
  <2>2. UNCHANGED recorded /\ Bottom' = Bottom
    BY <1>2 DEF ReadFrame, Bottom
  <2>3. QED
    BY <2>1, <2>2 DEF FilmRecorded, FilmOK, MoveOf, Short
<1>3. CASE ~Record /\ ~ReadFrame
  <2>1. UNCHANGED ingestVars /\ (step \in {"read", "out"} => step' \in {"read", "out"})
    <3>1. CASE FindRanking \/ MissRanking \/ SelectProgress \/ NowhereToSteer
      BY <3>1 DEF FindRanking, MissRanking, SelectProgress, NowhereToSteer, GiveUp
    <3>2. CASE Confirmed \/ TapFilter \/ NotApplied \/ Abort \/ RowsRead
      BY <3>2 DEF Confirmed, TapFilter, NotApplied, Abort, RowsRead, GiveUp
    <3>3. CASE step = "scroll" /\ ScrollStep /\ UNCHANGED <<taskVars, screenVars, ingestVars>>
      BY <3>3
    <3>4. CASE DrawMark
      BY <3>4 DEF DrawMark, taskVars
    <3>5. QED
      BY <1>3, <3>1, <3>2, <3>3, <3>4 DEF VSStep
  <2>2. UNCHANGED <<recorded, cursor, rows, blurred>> /\ Bottom' = Bottom
    BY <2>1 DEF ingestVars, Bottom
  <2>3. QED
    BY <2>1, <2>2, ReadKept DEF FilmRecorded, FilmOK, MoveOf, Short
<1>4. QED
  BY <1>1, <1>2, <1>3

LEMMA VSReadInvInit == Init => VSReadInv
<1> SUFFICES ASSUME Init PROVE VSReadInv
  OBVIOUS
<1>1. ScrollInit /\ list \in Nat
  BY ScrollAssumption DEF Init, VSInit, ScrollInit
<1>2. ScrollInv /\ FilmInv
  BY <1>1, ScrollInvInit, FilmInvInit
<1>3. /\ recorded.frames = <<>> /\ recorded.complete = FALSE
      /\ cursor.frame = 1 /\ cursor.contentY = 0 /\ cursor.lastRowY = -1
      /\ rows = <<>> /\ blurred = 0 /\ Len(rows) = 0
  BY DEF Init, VSInit, NoCapture
<1>4. Len(recorded.frames) = 0 /\ DOMAIN recorded.frames = {}
      /\ recorded.frames \in Seq(Frame)
  BY <1>3
<1>5. RecordInv /\ FilmRecorded
  BY <1>3, <1>4 DEF RecordInv, FilmRecorded, FilmOK
<1>6. ReadInv
  BY <1>3, <1>4, VSCaptureAssumption DEF ReadInv, ReadType, Read, Rising
<1>7. QED
  BY <1>2, <1>5, <1>6 DEF VSReadInv

\* The rows read off a recorded capture stand in the ranking's order, none of
\* them twice, whatever the offsets were off by and whatever segmentation
\* dropped; and off a complete one, dropping nothing, all of them are read
\* (vsRowCursor, readVSRows), for rows and moves of the proportions the lists
\* have.
THEOREM RowsReadOnce == Proportions => (Spec => []RowsAreReadOnce)
<1> SUFFICES ASSUME Proportions PROVE Spec => []RowsAreReadOnce
  OBVIOUS
<1>1. VSReadInv /\ [Next]_routeVars => VSReadInv'
  <2> SUFFICES ASSUME VSReadInv, [Next]_routeVars PROVE VSReadInv'
    OBVIOUS
  <2>1. [ScrollStep]_scrollVars /\ UNCHANGED list
    BY StepsScroll, ListStays
  <2>2. ScrollInv' /\ FilmInv'
    BY <2>1, StepsKeepScrollInv, StepsKeepFilmInv DEF VSReadInv
  <2>3. RecordInv'
    BY StepsKeepRecord DEF VSReadInv
  <2>4. list \in Nat
    BY DEF VSReadInv, ScrollInv, ScrollType
  <2>5. FilmRecorded' /\ ReadInv'
    <3>1. CASE UNCHANGED vsVars
      <4>1. UNCHANGED <<recorded, cursor, rows, blurred, step>> /\ Bottom' = Bottom
        BY <2>1, <3>1 DEF vsVars, taskVars, ingestVars, Bottom
      <4>2. QED
        BY <2>1, <4>1, ReadKept DEF VSReadInv, FilmRecorded, FilmOK, MoveOf, Short
    <3>2. CASE VSStep \/ DrawMark
      BY <2>1, <2>4, <3>2, VSKeepsRead
    <3>3. QED
      BY <3>1, <3>2 DEF Next, Run, Draw, routeVars
  <2>6. QED
    BY <2>2, <2>3, <2>5 DEF VSReadInv
<1>2. VSReadInv => RowsAreReadOnce
  <2> SUFFICES ASSUME VSReadInv PROVE RowsAreReadOnce
    OBVIOUS
  <2>1. \A i \in 1 .. Len(rows) - 1 : rows[i] < rows[i + 1]
    BY DEF VSReadInv, ReadInv, Rising
  <2>2. ASSUME step = "read", Ended, recorded.complete, blurred = 0
        PROVE  Len(rows) = list
    <3>1. /\ list \in Nat /\ frames # <<>> /\ frames = recorded.frames
          /\ list * Pitch <= prev + Height /\ frames[Len(frames)].top = prev
      BY <2>2 DEF VSReadInv, RecordInv, ScrollInv, ScrollType, ProvenToTheEnd, FilmInv
    <3>2. Len(frames) \in Nat /\ Len(frames) # 0 /\ DOMAIN frames = 1 .. Len(frames)
      BY <3>1 DEF VSReadInv, ScrollInv, ScrollType
    <3>3. Read = Len(frames) /\ Read > 0
      <4>1. cursor.frame \in 1 .. Len(frames) + 1 /\ cursor.frame > Len(frames)
        BY <2>2, <3>1 DEF VSReadInv, ReadInv, ReadType, Ended
      <4>2. QED
        BY <3>2, <4>1 DEF Read
    <3>4. LastWhole(Len(rows), prev)
      BY <2>2, <3>1, <3>3 DEF VSReadInv, ReadInv
    <3>5. prev \in 0 .. Bottom
      BY <3>1, <3>2 DEF VSReadInv, FilmInv, FilmOK
    <3>6. list \in 0 .. list /\ RowTop(list) + Pitch <= prev + Height
      BY <3>1, RowsApart
    <3>7. list <= Len(rows)
      BY <3>1, <3>4, <3>5, <3>6, LastWholeIsLast
    <3>8. QED
      BY <3>1, <3>4, <3>7 DEF LastWhole
  <2>3. QED
    BY <2>1, <2>2 DEF RowsAreReadOnce
<1>3. QED
  BY <1>1, <1>2, VSReadInvInit, PTL DEF Spec

-----------------------------------------------------------------------------
(* roster_capture: between two groups all of them are closed, and from the *)
(* flip that opened a group to the one that closes it, that one is open.   *)

GroupsInv ==
    /\ open \subseteq Groups
    /\ place \in {"groups", "open"} => open = {}
    /\ place \in {"scroll", "close"} => \E g \in Groups : open = {g}

LEMMA RosterKeepsGroups ==
    ASSUME "close" \notin Swallows, GroupsInv, RosterStep PROVE GroupsInv'
<1> USE DEF GroupsInv
<1>1. CASE TapChevron
  <2>1. CASE place = "open"
    <3>1. PICK g \in Groups : open' \in {{g}, {}}
      BY <1>1, <2>1 DEF TapChevron, Collapsed
    <3>2. IF open' # {} THEN place' = "scroll" ELSE place' = "open"
      BY <1>1, <2>1 DEF TapChevron, Flipped, Expanded
    <3>3. QED
      BY <3>1, <3>2
  <2>2. CASE place = "close"
    <3>1. open' = {}
      BY <1>1, <2>2 DEF TapChevron, Expanded
    <3>2. place' \in {"groups", "close"} /\ (place' = "close" => Groups = {})
      BY <1>1, <2>2, <3>1 DEF TapChevron, Flipped, Collapsed
    <3>3. Groups # {}
      BY <2>2
    <3>4. QED
      BY <3>1, <3>2, <3>3
  <2>3. CASE place = "normalize.close"
    <3>1. open' \subseteq Groups /\ place' \in {"normalize", "normalize.close"}
      BY <1>1, <2>3 DEF TapChevron, Flipped, Expanded
    <3>2. QED
      BY <3>1
  <2>4. QED
    BY <1>1, <2>1, <2>2, <2>3 DEF TapChevron
<1>2. CASE Normalize
  BY <1>2 DEF Normalize, Expanded
<1>3. CASE NextGroup \/ ScrollGroup
  BY <1>3 DEF NextGroup, ScrollGroup
<1>4. CASE NothingFlipped \/ RecordRoster \/ RosterFails
  BY <1>4 DEF NothingFlipped, RecordRoster, RosterFails
<1>5. QED
  BY <1>1, <1>2, <1>3, <1>4 DEF RosterStep

\* As long as the game takes every tap that closes a group, one group at a time
\* is in front of the camera: for every set of groups and whichever an earlier
\* session left open, however many rounds and taps the loops are given, and
\* whichever taps that open a group are swallowed (normalizeGroups,
\* toggleChevron). A swallowed close goes unnoticed, and there it fails.
THEOREM OneGroupAtATime ==
    ASSUME "close" \notin Swallows PROVE Spec => []GroupsInIsolation
<1>1. Init => GroupsInv
  BY DEF Init, RosterInit, GroupsInv
<1>2. GroupsInv /\ [Next]_routeVars => GroupsInv'
  <2> SUFFICES ASSUME GroupsInv, [Next]_routeVars PROVE GroupsInv'
    OBVIOUS
  <2>1. CASE UNCHANGED rosterVars
    BY <2>1 DEF rosterVars, GroupsInv
  <2>2. CASE RosterStep
    BY <2>2, RosterKeepsGroups
  <2>3. QED
    BY <2>1, <2>2 DEF Next, Run, Draw, routeVars
<1>3. GroupsInv => GroupsInIsolation
  <2> SUFFICES ASSUME GroupsInv, place = "scroll" PROVE Cardinality(open) = 1
    BY DEF GroupsInIsolation
  <2>1. PICK g \in Groups : open = {g}
    BY DEF GroupsInv
  <2>2. QED
    BY <2>1, FS_Singleton
<1>4. QED
  BY <1>1, <1>2, <1>3, PTL DEF Spec

-----------------------------------------------------------------------------
(* The chores. Each task keeps to its own part of the game, and each of    *)
(* its control points says what the game must look like there.             *)

Reward == {"none", "ready", "short"}      \* what the board shows after a claim
Asking == {"ready", "short", "opening"}   \* boards an execution was asked of in vain

ChoreType ==
    /\ DOMAIN chore = {"task", "at", "n", "said"}
    /\ chore.task \in {"none", "radar", "tech_donate", "mail_collect", "base"}
    /\ chore.n \in Nat
    /\ DOMAIN game = {"board", "began", "paid", "party", "prompt", "tech", "badge",
                      "dialog", "left", "mail", "icon", "missed"}

\* radar: nothing is paid before the first probe; after it, either the game took
\* an execution or the button to ask for one is still coming; the poll begins
\* when the button has gone, so it was taken.  What was claimed is off the board
\* and celebrated no more, unless a tap was missed.
RadarInv ==
    chore.task = "radar" =>
        /\ chore.at \in {"banked", "cheer", "probe", "execute", "settle", "poll",
                         "cheerLast", "back"}
        /\ game.prompt => game.board = "short"
        /\ game.board = "starting" => game.paid
        /\ At("banked") => /\ chore.n = 0 /\ ~game.party /\ ~game.prompt /\ ~game.paid
                           /\ game.board # "opening"
                           /\ game.began = "claim" => game.board = "claim"
        /\ At("cheer") => /\ chore.n = 0 /\ ~game.paid
                          /\ game.missed \/ game.board \in Reward
        /\ At("probe") /\ chore.n = 0 =>
               /\ ~game.paid
               /\ game.missed \/ ~game.party
               /\ game.began = "claim" => game.missed \/ game.board \in Reward
        /\ (At("probe") /\ chore.n > 0) \/ At("execute") \/ At("settle") =>
               /\ ~game.party
               /\ game.paid \/ game.board \in Asking
        /\ At("poll") => game.paid
        /\ At("cheerLast") => game.paid /\ (game.missed \/ game.board \in Reward)

\* tech_donate: the header is looked at once this tab's list was seen without
\* the badge, the list again once the header had it.
TechInv ==
    chore.task = "tech_donate" =>
        /\ chore.at \in {"list", "tab", "listAgain", "dialog", "donate", "back"}
        /\ game.badge => game.tech \in {"here", "there"}
        /\ At("tab") => game.tech # "here"
        /\ At("listAgain") => game.missed \/ game.tech = "here"

\* mail_collect: the mailboxes gone through are empty.
MailInv ==
    chore.task = "mail_collect" =>
        /\ chore.at \in {"box", "cheerBox", "back"}
        /\ At("box") => game.missed \/ game.mail \subseteq chore.n .. Mailboxes - 1
        /\ At("cheerBox") => game.missed \/ game.mail \subseteq chore.n + 1 .. Mailboxes - 1

BaseInv == chore.task = "base" => chore.at \in {"icon", "back"}

Silent ==
    /\ chore.task = "none" => At("back")
    /\ ~At("back") \/ chore.task = "none" => chore.said = "nothing"

ChoreInv ==
    ChoreType /\ RadarInv /\ TechInv /\ MailInv /\ BaseInv /\ Silent /\ ReportsAreTrue

\* What each way to go on leaves of the chore's own record.
Moved(where, n, said) ==
    /\ DOMAIN chore' = DOMAIN chore /\ chore'.task = chore.task
    /\ chore'.at = where /\ chore'.n = n /\ chore'.said = said

LEMMA ToMoves == ASSUME ChoreType, NEW p, To(p) PROVE Moved(p, chore.n, chore.said)
  BY DEF ChoreType, To, Moved

LEMMA CountsMoves == ASSUME ChoreType, NEW p, Counts(p) PROVE Moved(p, chore.n + 1, chore.said)
  BY DEF ChoreType, Counts, Moved

LEMMA ReturnsMoves ==
    ASSUME ChoreType, NEW what, Returns(what) PROVE Moved("back", chore.n, what)
  BY DEF ChoreType, Returns, Moved

\* A tap that is missed leaves no mark on the game.
LEMMA Missing ==
    ASSUME ChoreType, NEW control, Misses(control)
    PROVE  /\ DOMAIN game' = DOMAIN game /\ game'.missed = TRUE /\ game'.began = game.began
           /\ game'.board = game.board /\ game'.paid = game.paid
           /\ game'.party = game.party /\ game'.prompt = game.prompt
           /\ game'.tech = game.tech /\ game'.badge = game.badge /\ game'.mail = game.mail
  BY DEF ChoreType, Misses

\* Each control point belongs to one task.
LEMMA WhoseTurn ==
    ASSUME ChoreInv
    PROVE  /\ chore.at \in {"banked", "cheer", "cheerLast", "probe", "execute", "settle", "poll"}
                 => chore.task = "radar"
           /\ chore.at \in {"list", "listAgain", "tab", "dialog", "donate"}
                 => chore.task = "tech_donate"
           /\ chore.at \in {"box", "cheerBox"} => chore.task = "mail_collect"
           /\ chore.at = "icon" => chore.task = "base"
<1>1. ChoreType /\ RadarInv /\ TechInv /\ MailInv /\ BaseInv /\ Silent
  BY DEF ChoreInv
<1>2. CASE chore.task = "none"
  BY <1>1, <1>2 DEF Silent, At
<1>3. CASE chore.task = "radar"
  BY <1>1, <1>3 DEF RadarInv
<1>4. CASE chore.task = "tech_donate"
  BY <1>1, <1>4 DEF TechInv
<1>5. CASE chore.task = "mail_collect"
  BY <1>1, <1>5 DEF MailInv
<1>6. CASE chore.task = "base"
  BY <1>1, <1>6 DEF BaseInv
<1>7. QED
  BY <1>1, <1>2, <1>3, <1>4, <1>5, <1>6 DEF ChoreType

\* The other tasks' parts of the invariant say nothing of a chore.
LEMMA OwnInvariant ==
    ASSUME ChoreType', chore'.task # "none",
           chore'.task = "radar" => RadarInv', chore'.task = "tech_donate" => TechInv',
           chore'.task = "mail_collect" => MailInv', chore'.task = "base" => BaseInv',
           \/ chore'.at # "back" /\ chore'.said = "nothing"
           \/ /\ chore'.at = "back" /\ chore'.said = "ok" => game'.missed \/ Accomplished'
              /\ chore'.at = "back" /\ chore'.said = "ErrClaimNeverAppeared" => game'.paid
              /\ chore'.at = "back"
    PROVE  ChoreInv'
<1>1. RadarInv' /\ TechInv' /\ MailInv' /\ BaseInv'
  BY DEF RadarInv, TechInv, MailInv, BaseInv
<1>2. Silent'
  BY DEF Silent, At
<1>3. ReportsAreTrue'
  BY DEF ReportsAreTrue, At
<1>4. QED
  BY <1>1, <1>2, <1>3 DEF ChoreInv

\* A chore that breaks off, or reports less than success, promises nothing.
LEMMA GivingUpKeepsChoreInv ==
    ASSUME ChoreInv, chore.at # "back", UNCHANGED game, NEW what, Returns(what),
           what \notin {"ok", "ErrClaimNeverAppeared"}
    PROVE  ChoreInv'
<1>1. ChoreType /\ chore.task # "none" /\ RadarInv /\ TechInv
  BY DEF ChoreInv, Silent, At
<1>2. /\ DOMAIN chore' = DOMAIN chore /\ chore'.task = chore.task /\ chore'.at = "back"
      /\ chore'.n = chore.n /\ chore'.said = what
  BY <1>1, ReturnsMoves DEF Moved
<1>3. ChoreType'
  BY <1>1, <1>2 DEF ChoreType
<1>4. RadarInv' /\ TechInv' /\ MailInv' /\ BaseInv'
  BY <1>1, <1>2 DEF RadarInv, TechInv, MailInv, BaseInv, At
<1>5. QED
  BY <1>1, <1>2, <1>3, <1>4, OwnInvariant

-----------------------------------------------------------------------------
(* radar. *)

\* What a step of radar does to the game it keeps to.
Shows(board, paid, party, prompt) ==
    /\ DOMAIN game' = DOMAIN game /\ game'.began = game.began /\ game'.missed = game.missed
    /\ game'.board = board /\ game'.paid = paid
    /\ game'.party = party /\ game'.prompt = prompt

LEMMA Showing ==
    ASSUME ChoreType
    PROVE  /\ UNCHANGED game => Shows(game.board, game.paid, game.party, game.prompt)
           /\ \A b : game' = [game EXCEPT !.board = b, !.party = TRUE] =>
                     Shows(b, game.paid, TRUE, game.prompt)
           /\ \A b : game' = [game EXCEPT !.board = b, !.paid = TRUE] =>
                     Shows(b, TRUE, game.party, game.prompt)
           /\ \A b, p : game' = [game EXCEPT !.board = b, !.prompt = p] =>
                        Shows(b, game.paid, game.party, p)
           /\ \A b : game' = [game EXCEPT !.board = b] =>
                     Shows(b, game.paid, game.party, game.prompt)
           /\ game' = [game EXCEPT !.party = FALSE] =>
                 Shows(game.board, game.paid, FALSE, game.prompt)
           /\ game' = [game EXCEPT !.prompt = FALSE] =>
                 Shows(game.board, game.paid, game.party, FALSE)
<1> USE DEF ChoreType, Shows
<1>1. UNCHANGED game => Shows(game.board, game.paid, game.party, game.prompt)
  OBVIOUS
<1>2. ASSUME NEW b, game' = [game EXCEPT !.board = b, !.party = TRUE]
      PROVE  Shows(b, game.paid, TRUE, game.prompt)
  BY <1>2
<1>3. ASSUME NEW b, game' = [game EXCEPT !.board = b, !.paid = TRUE]
      PROVE  Shows(b, TRUE, game.party, game.prompt)
  BY <1>3
<1>4. ASSUME NEW b, NEW p, game' = [game EXCEPT !.board = b, !.prompt = p]
      PROVE  Shows(b, game.paid, game.party, p)
  BY <1>4
<1>5. ASSUME NEW b, game' = [game EXCEPT !.board = b]
      PROVE  Shows(b, game.paid, game.party, game.prompt)
  BY <1>5
<1>6. ASSUME game' = [game EXCEPT !.party = FALSE]
      PROVE  Shows(game.board, game.paid, FALSE, game.prompt)
  BY <1>6
<1>7. ASSUME game' = [game EXCEPT !.prompt = FALSE]
      PROVE  Shows(game.board, game.paid, game.party, FALSE)
  BY <1>7
<1> HIDE DEF ChoreType, Shows
<1>8. QED
  BY <1>1, <1>2, <1>3, <1>4, <1>5, <1>6, <1>7

\* A step of radar that goes on, and one that ends it.
LEMMA RadarGoesOn ==
    ASSUME ChoreInv, chore.task = "radar", chore.at # "back",
           NEW p, NEW n \in Nat, Moved(p, n, "nothing"), p # "back", RadarInv',
           DOMAIN game' = DOMAIN game
    PROVE  ChoreInv'
<1>1. ChoreType' /\ chore'.task = "radar" /\ chore'.at = p /\ chore'.said = "nothing"
  BY DEF ChoreInv, ChoreType, Moved
<1>2. QED
  BY <1>1, OwnInvariant

LEMMA RadarReturns ==
    ASSUME ChoreInv, chore.task = "radar", NEW what, Returns(what),
           DOMAIN game' = DOMAIN game, game'.began = game.began,
           game'.prompt => game'.board = "short", game'.board = "starting" => game'.paid,
           what = "ok" => game'.missed \/
               /\ game'.paid \/ game.began = "claim" =>
                      game'.board \notin {"starting", "running", "claim"}
               /\ game'.board = "ready" => game'.paid,
           what = "ErrClaimNeverAppeared" => game'.paid
    PROVE  ChoreInv'
<1>1. /\ DOMAIN chore' = DOMAIN chore /\ chore'.task = "radar" /\ chore'.at = "back"
      /\ chore'.n = chore.n /\ chore'.said = what
  BY ReturnsMoves DEF ChoreInv, Moved
<1>2. ChoreType'
  BY <1>1 DEF ChoreInv, ChoreType
<1>3. RadarInv'
  BY <1>1 DEF RadarInv, At
<1>4. what = "ok" => game'.missed \/ Accomplished'
  BY <1>1 DEF Accomplished
<1>5. QED
  BY <1>1, <1>2, <1>3, <1>4, OwnInvariant

LEMMA RadarNow ==
    ASSUME ChoreInv, chore.task = "radar", chore.at # "back"
    PROVE  /\ ChoreType /\ RadarInv /\ chore.said = "nothing" /\ chore.n \in Nat
           /\ \A p : To(p) => Moved(p, chore.n, "nothing")
           /\ \A p : Counts(p) => Moved(p, chore.n + 1, "nothing")
<1>1. ChoreType /\ RadarInv /\ chore.said = "nothing" /\ chore.n \in Nat
  BY DEF ChoreInv, Silent, At, ChoreType
<1>2. QED
  BY <1>1, ToMoves, CountsMoves

LEMMA ClaimBankedKeepsChoreInv == ChoreInv /\ ClaimBanked => ChoreInv'
<1> SUFFICES ASSUME ChoreInv, ClaimBanked PROVE ChoreInv'
  OBVIOUS
<1>1. chore.at = "banked" /\ chore.task = "radar"
  BY WhoseTurn DEF ClaimBanked, At
<1>2. CASE ClaimShown
  <2>1. Moved("cheer", chore.n, "nothing")
    BY <1>1, <1>2, RadarNow DEF ClaimBanked
  <2>2. CASE Misses("claim")
    <3>1. RadarInv'
      BY <1>1, <2>1, <2>2, RadarNow, Missing DEF RadarInv, At, Moved
    <3>2. QED
      BY <1>1, <2>1, <2>2, <3>1, RadarNow, RadarGoesOn, Missing
  <2>3. CASE \E next \in Reward : game' = [game EXCEPT !.board = next, !.party = TRUE]
    <3>1. PICK next \in Reward : game' = [game EXCEPT !.board = next, !.party = TRUE]
      BY <2>3
    <3>2. Shows(next, game.paid, TRUE, game.prompt)
      BY <1>1, <3>1, RadarNow, Showing
    <3>3. RadarInv'
      BY <1>1, <2>1, <3>2, RadarNow DEF RadarInv, At, Shows, Moved, Reward
    <3>4. QED
      BY <1>1, <2>1, <3>2, <3>3, RadarNow, RadarGoesOn DEF Shows
  <2>4. QED
    BY <1>2, <2>2, <2>3 DEF ClaimBanked, Claimed, Reward
<1>3. CASE ~ClaimShown
  <2>1. UNCHANGED game /\ Moved("probe", chore.n, "nothing")
    BY <1>1, <1>3, RadarNow DEF ClaimBanked
  <2>2. game.began # "claim"
    BY <1>1, <1>3, RadarNow DEF ClaimShown, RadarInv, At
  <2>3. RadarInv'
    BY <1>1, <2>1, <2>2, RadarNow DEF RadarInv, At, Moved
  <2>4. QED
    BY <1>1, <2>1, <2>3, RadarNow, RadarGoesOn
<1>4. QED
  BY <1>2, <1>3

LEMMA DismissRewardsKeepsChoreInv == ChoreInv /\ DismissRewards => ChoreInv'
<1> SUFFICES ASSUME ChoreInv, DismissRewards PROVE ChoreInv'
  OBVIOUS
<1>1. ChoreType /\ (game' = [game EXCEPT !.party = FALSE] \/ Misses("banner"))
  BY DEF DismissRewards, ChoreInv
<1>2. /\ DOMAIN game' = DOMAIN game /\ game'.began = game.began /\ game'.board = game.board
      /\ game'.paid = game.paid /\ game'.prompt = game.prompt /\ game'.mail = game.mail
      /\ game'.missed = TRUE \/ (~game'.party /\ game'.missed = game.missed)
  <2>1. CASE Misses("banner")
    BY <1>1, <2>1, Missing
  <2>2. CASE game' = [game EXCEPT !.party = FALSE]
    BY <1>1, <2>2 DEF ChoreType
  <2>3. QED
    BY <1>1, <2>1, <2>2
<1>3. CASE At("cheer") /\ To("probe")
  <2>1. chore.at = "cheer" /\ chore.task = "radar" /\ Moved("probe", chore.n, "nothing")
    BY <1>3, WhoseTurn, RadarNow DEF At
  <2>2. RadarInv'
    BY <1>2, <2>1, RadarNow DEF RadarInv, At, Moved
  <2>3. QED
    BY <1>2, <2>1, <2>2, RadarNow, RadarGoesOn
<1>4. CASE At("cheerLast") /\ Returns("ok")
  <2>1. chore.at = "cheerLast" /\ chore.task = "radar"
    BY <1>4, WhoseTurn DEF At
  <2>2. /\ game.paid /\ (game.prompt => game.board = "short")
        /\ game'.missed \/ game.board \in Reward
    BY <1>2, <2>1, RadarNow DEF RadarInv, At
  <2>3. QED
    BY <1>2, <1>4, <2>1, <2>2, RadarReturns DEF Reward
<1>5. CASE At("cheerBox") /\ Counts("box")
  <2>1. chore.at = "cheerBox" /\ chore.task = "mail_collect" /\ chore.said = "nothing"
    BY <1>5, WhoseTurn DEF At, ChoreInv, Silent
  <2>2. /\ DOMAIN chore' = DOMAIN chore /\ chore'.task = chore.task /\ chore'.at = "box"
        /\ chore'.n = chore.n + 1 /\ chore'.said = "nothing"
    BY <1>1, <1>5, <2>1, CountsMoves DEF Moved
  <2>3. ChoreType'
    BY <1>1, <1>2, <2>2 DEF ChoreType
  <2>4. MailInv'
    BY <1>2, <2>1, <2>2 DEF ChoreInv, MailInv, At
  <2>5. QED
    BY <2>1, <2>2, <2>3, <2>4, OwnInvariant
<1>6. QED
  BY <1>3, <1>4, <1>5 DEF DismissRewards

LEMMA ProbeKeepsChoreInv == ChoreInv /\ Probe => ChoreInv'
<1> SUFFICES ASSUME ChoreInv, Probe PROVE ChoreInv'
  OBVIOUS
<1>1. UNCHANGED game /\ chore.at = "probe" /\ chore.task = "radar" /\ chore.n \in Nat
  BY WhoseTurn, RadarNow DEF Probe, At
<1>2. /\ game.prompt => game.board = "short"
      /\ game.board = "starting" => game.paid
      /\ chore.n = 0 => /\ ~game.paid /\ (game.missed \/ ~game.party)
                        /\ game.began = "claim" => game.missed \/ game.board \in Reward
      /\ chore.n > 0 => ~game.party /\ (game.paid \/ game.board \in Asking)
  BY <1>1, RadarNow DEF RadarInv, At
<1>3. CASE Returns("ErrExecuteIgnored") \/ Returns("error")
  BY <1>1, <1>3, GivingUpKeepsChoreInv
<1>4. CASE ExecuteShown /\ To("execute")
  <2>1. ~game.party /\ (game.paid \/ game.board \in Asking)
    BY <1>2, <1>4 DEF ExecuteShown, Asking
  <2>2. Moved("execute", chore.n, "nothing")
    BY <1>1, <1>4, RadarNow
  <2>3. RadarInv'
    BY <1>1, <1>2, <2>1, <2>2 DEF RadarInv, At, Moved
  <2>4. QED
    BY <1>1, <2>2, <2>3, RadarGoesOn
<1>5. CASE ~game.prompt /\ ~ExecuteShown /\ chore.n > 0
             /\ chore' = [chore EXCEPT !.at = "poll", !.n = 0]
  <2>1. game.paid /\ ~game.party
    BY <1>2, <1>5 DEF ExecuteShown, Asking
  <2>2. Moved("poll", 0, "nothing")
    BY <1>1, <1>5, RadarNow DEF Moved, ChoreType
  <2>3. RadarInv'
    BY <1>1, <1>2, <2>1, <2>2 DEF RadarInv, At, Moved
  <2>4. QED
    BY <1>1, <2>2, <2>3, RadarGoesOn
<1>6. CASE ~game.prompt /\ ~ExecuteShown /\ ~(chore.n > 0) /\ Returns("ok")
  <2>1. chore.n = 0
    BY <1>1, <1>6
  <2>2. /\ ~game.paid /\ (game.missed \/ game.board \notin {"ready", "starting"})
        /\ game.began = "claim" => game.missed \/ game.board \in Reward
    BY <1>2, <1>6, <2>1 DEF ExecuteShown
  <2>3. QED
    BY <1>1, <1>2, <1>6, <2>2, RadarReturns DEF Reward
<1>7. QED
  BY <1>3, <1>4, <1>5, <1>6 DEF Probe

LEMMA ExecuteKeepsChoreInv == ChoreInv /\ Execute => ChoreInv'
<1> SUFFICES ASSUME ChoreInv, Execute PROVE ChoreInv'
  OBVIOUS
<1>1. chore.at = "execute" /\ chore.task = "radar" /\ ChoreType
  BY WhoseTurn DEF Execute, At, ChoreInv
<1>2. /\ ~game.party /\ (game.paid \/ game.board \in Asking)
      /\ game.prompt => game.board = "short"
  BY <1>1, RadarNow DEF RadarInv, At
<1>3. CASE ~ExecuteShown
  BY <1>1, <1>3, GivingUpKeepsChoreInv DEF Execute
<1>4. CASE ExecuteShown
  <2>1. ~game.prompt /\ Moved("settle", chore.n, "nothing") /\ chore.n \in Nat
    BY <1>1, <1>4, RadarNow DEF Execute, ExecuteShown
  <2>2. ASSUME DOMAIN game' = DOMAIN game, ~game'.party,
               game'.prompt => game'.board = "short", game'.paid \/ game'.board \in Asking
        PROVE  ChoreInv'
    <3>1. RadarInv'
      BY <1>1, <2>1, <2>2 DEF RadarInv, At, Moved, Asking
    <3>2. QED
      BY <1>1, <2>1, <2>2, <3>1, RadarGoesOn
  <2>3. CASE UNCHANGED game
    BY <1>2, <2>2, <2>3
  <2>4. CASE \E b \in {"starting", "running"} : game' = [game EXCEPT !.board = b, !.paid = TRUE]
    <3>1. PICK b : Shows(b, TRUE, game.party, game.prompt)
      BY <1>1, <2>4, Showing
    <3>2. QED
      BY <1>2, <2>1, <2>2, <3>1 DEF Shows
  <2>5. CASE /\ game.board = "short"
             /\ \E p \in BOOLEAN : game' = [game EXCEPT !.board = IF p THEN @ ELSE "opening",
                                                        !.prompt = p]
    <3>1. PICK p \in BOOLEAN :
             game' = [game EXCEPT !.board = IF p THEN game.board ELSE "opening", !.prompt = p]
      BY <2>5
    <3>2. Shows(IF p THEN game.board ELSE "opening", game.paid, game.party, p)
      BY <1>1, <3>1, Showing
    <3>3. CASE p
      BY <1>2, <2>2, <2>5, <3>2, <3>3 DEF Asking, Shows
    <3>4. CASE ~p
      BY <1>2, <2>2, <3>2, <3>4 DEF Asking, Shows
    <3>5. QED
      BY <3>3, <3>4
  <2>6. QED
    BY <1>4, <2>3, <2>4, <2>5 DEF Execute, Ignores
<1>5. QED
  BY <1>3, <1>4

\* The dialog that sells stamina is drawn over a board that is short of it.
LEMMA BacksOutKeepsChoreInv ==
    ASSUME ChoreInv, chore.task = "radar", chore.at # "back", game.prompt, BacksOut
    PROVE  ChoreInv'
<1>1. Shows(game.board, game.paid, game.party, FALSE) /\ Returns("ok")
  BY RadarNow, Showing DEF BacksOut
<1>2. game.board = "short"
  BY RadarNow DEF RadarInv
<1>3. QED
  BY <1>1, <1>2, RadarReturns DEF Shows

LEMMA SettleKeepsChoreInv == ChoreInv /\ Settle => ChoreInv'
<1> SUFFICES ASSUME ChoreInv, Settle PROVE ChoreInv'
  OBVIOUS
<1>1. chore.at = "settle" /\ chore.task = "radar" /\ chore.n \in Nat
  BY WhoseTurn, RadarNow DEF Settle, At
<1>2. CASE game.prompt /\ BacksOut
  BY <1>1, <1>2, BacksOutKeepsChoreInv
<1>3. CASE UNCHANGED game /\ Counts("probe")
  <2>1. Moved("probe", chore.n + 1, "nothing") /\ chore.n + 1 \in Nat /\ chore.n + 1 # 0
    BY <1>1, <1>3, RadarNow
  <2>2. RadarInv'
    BY <1>1, <1>3, <2>1, RadarNow DEF RadarInv, At, Moved
  <2>3. QED
    BY <1>1, <1>3, <2>1, <2>2, RadarGoesOn
<1>4. QED
  BY <1>2, <1>3 DEF Settle

LEMMA PollKeepsChoreInv == ChoreInv /\ Poll => ChoreInv'
<1> SUFFICES ASSUME ChoreInv, Poll PROVE ChoreInv'
  OBVIOUS
<1>1. chore.at = "poll" /\ chore.task = "radar" /\ chore.n \in Nat
  BY WhoseTurn, RadarNow DEF Poll, At
<1>2. game.paid /\ (game.prompt => game.board = "short")
  BY <1>1, RadarNow DEF RadarInv, At
<1>3. CASE game.prompt /\ BacksOut
  BY <1>1, <1>3, BacksOutKeepsChoreInv
<1>4. CASE ~game.prompt /\ Claimed /\ To("cheerLast")
  <2>1. Moved("cheerLast", chore.n, "nothing")
    BY <1>1, <1>4, RadarNow
  <2>2. CASE Misses("claim")
    <3>1. RadarInv'
      BY <1>1, <1>2, <1>4, <2>1, <2>2, RadarNow, Missing DEF RadarInv, At, Moved
    <3>2. QED
      BY <1>1, <2>1, <2>2, <3>1, RadarNow, RadarGoesOn, Missing
  <2>3. CASE \E next \in Reward : game' = [game EXCEPT !.board = next, !.party = TRUE]
    <3>1. PICK next \in Reward : game' = [game EXCEPT !.board = next, !.party = TRUE]
      BY <2>3
    <3>2. Shows(next, game.paid, TRUE, game.prompt)
      BY <1>1, <3>1, RadarNow, Showing
    <3>3. RadarInv'
      BY <1>1, <1>2, <1>4, <2>1, <3>2 DEF RadarInv, At, Moved, Shows, Reward
    <3>4. QED
      BY <1>1, <2>1, <3>2, <3>3, RadarGoesOn DEF Shows
  <2>4. QED
    BY <1>4, <2>2, <2>3 DEF Claimed, Reward
<1>5. CASE UNCHANGED game /\ Returns("ErrClaimNeverAppeared")
  BY <1>1, <1>2, <1>5, RadarReturns
<1>6. CASE UNCHANGED game /\ Counts("poll")
  <2>1. Moved("poll", chore.n + 1, "nothing") /\ chore.n + 1 \in Nat
    BY <1>1, <1>6, RadarNow
  <2>2. RadarInv'
    BY <1>1, <1>2, <1>6, <2>1 DEF RadarInv, At, Moved
  <2>3. QED
    BY <1>1, <1>6, <2>1, <2>2, RadarGoesOn
<1>7. QED
  BY <1>3, <1>4, <1>5, <1>6 DEF Poll

-----------------------------------------------------------------------------
(* tech_donate, mail_collect and the two icons. *)

LEMMA TechKeepsChoreInv ==
    ChoreInv /\ (FindRecommendation \/ AwaitDialog \/ TapUntilGone) => ChoreInv'
<1> SUFFICES ASSUME ChoreInv, FindRecommendation \/ AwaitDialog \/ TapUntilGone
             PROVE  ChoreInv'
  OBVIOUS
<1>1. /\ chore.at \in {"list", "listAgain", "tab", "dialog", "donate"}
      /\ chore.task = "tech_donate"
  BY WhoseTurn DEF FindRecommendation, AwaitDialog, TapUntilGone, At
<1>2. ChoreType /\ TechInv /\ chore.said = "nothing" /\ chore.n \in Nat
  BY <1>1 DEF ChoreInv, Silent, At, ChoreType
<1>3. ASSUME NEW p \in {"list", "listAgain", "tab", "dialog", "donate"},
             To(p) \/ Counts(p), DOMAIN game' = DOMAIN game, game'.badge = game.badge,
             game'.badge => game'.tech \in {"here", "there"},
             p = "tab" => game'.tech # "here",
             p = "listAgain" => game'.missed \/ game'.tech = "here"
      PROVE  ChoreInv'
  <2>1. PICK n \in Nat : Moved(p, n, "nothing")
    BY <1>2, <1>3, ToMoves, CountsMoves
  <2>2. ChoreType' /\ chore'.task = "tech_donate" /\ chore'.at = p /\ chore'.said = "nothing"
    BY <1>1, <1>2, <1>3, <2>1 DEF ChoreType, Moved
  <2>3. TechInv'
    BY <1>3, <2>2 DEF TechInv, At
  <2>4. QED
    BY <1>3, <2>2, <2>3, OwnInvariant
<1>4. ASSUME UNCHANGED game, Returns("ok"), game.missed \/ (game.badge => game.left = 0)
      PROVE  ChoreInv'
  <2>1. Moved("back", chore.n, "ok")
    BY <1>2, <1>4, ReturnsMoves
  <2>2. ChoreType' /\ chore'.task = "tech_donate" /\ chore'.at = "back" /\ chore'.said = "ok"
    BY <1>1, <1>2, <1>4, <2>1 DEF ChoreType, Moved
  <2>3. TechInv'
    BY <1>1, <1>2, <1>4, <2>2 DEF TechInv, At
  <2>4. game'.missed \/ Accomplished'
    BY <1>4, <2>2 DEF Accomplished
  <2>5. QED
    BY <2>2, <2>3, <2>4, OwnInvariant
<1>5. CASE UNCHANGED game /\ (Returns("error") \/ Returns("ErrTapCapReached"))
  BY <1>1, <1>5, GivingUpKeepsChoreInv
<1>6. CASE FindRecommendation
  <2>1. CASE chore.at \in {"list", "listAgain"} /\ game.tech = "here"
    <3>1. To("dialog") /\ (game' = game \/ game' = [game EXCEPT !.dialog = TRUE])
      BY <1>6, <2>1 DEF FindRecommendation, Ignores, At
    <3>2. DOMAIN game' = DOMAIN game /\ game'.tech = game.tech /\ game'.badge = game.badge
      BY <1>2, <3>1 DEF ChoreType
    <3>3. QED
      BY <1>3, <2>1, <3>1, <3>2
  <2>2. CASE chore.at \in {"list", "listAgain"} /\ game.tech # "here"
    <3>1. CASE chore.at = "list"
      <4>1. To("tab") /\ UNCHANGED game
        BY <1>6, <2>2, <3>1 DEF FindRecommendation, At
      <4>2. QED
        BY <1>1, <1>2, <1>3, <2>2, <4>1 DEF TechInv
    <3>2. CASE chore.at = "listAgain"
      <4>1. game.missed
        BY <1>1, <1>2, <2>2, <3>2 DEF TechInv, At
      <4>2. Returns("ok") /\ UNCHANGED game
        BY <1>6, <2>2, <3>2 DEF FindRecommendation, At
      <4>3. QED
        BY <1>4, <4>1, <4>2
    <3>3. QED
      BY <2>2, <3>1, <3>2
  <2>3. CASE chore.at = "tab" /\ game.tech = "there"
    <3>1. To("listAgain") /\ (Misses("tab") \/ game' = [game EXCEPT !.tech = "here"])
      BY <1>6, <2>3 DEF FindRecommendation, At
    <3>2. CASE game' = [game EXCEPT !.tech = "here"]
      <4>1. DOMAIN game' = DOMAIN game /\ game'.tech = "here" /\ game'.badge = game.badge
        BY <1>2, <3>2 DEF ChoreType
      <4>2. QED
        BY <1>3, <3>1, <4>1
    <3>3. CASE Misses("tab")
      BY <1>1, <1>2, <1>3, <3>1, <3>3, <2>3, Missing
    <3>4. QED
      BY <3>1, <3>2, <3>3
  <2>4. CASE chore.at = "tab" /\ game.tech # "there"
    <3>1. UNCHANGED game /\ Returns("ok")
      BY <1>6, <2>4 DEF FindRecommendation, At
    <3>2. ~game.badge
      BY <1>1, <1>2, <2>4 DEF TechInv, At
    <3>3. QED
      BY <1>4, <3>1, <3>2
  <2>5. QED
    BY <1>6, <2>1, <2>2, <2>3, <2>4 DEF FindRecommendation, At
<1>7. CASE AwaitDialog
  <2>1. CASE To("donate") /\ UNCHANGED game
    BY <1>1, <1>2, <1>3, <2>1 DEF TechInv
  <2>2. QED
    BY <1>5, <1>7, <2>1 DEF AwaitDialog
<1>8. CASE TapUntilGone
  <2>1. CASE game.left = 0 /\ Returns("ok") /\ UNCHANGED game
    BY <1>4, <2>1
  <2>2. CASE Counts("donate") /\ (game' = game \/ game' = [game EXCEPT !.left = @ - 1])
    <3>1. DOMAIN game' = DOMAIN game /\ game'.tech = game.tech /\ game'.badge = game.badge
      BY <1>2, <2>2 DEF ChoreType
    <3>2. QED
      BY <1>1, <1>2, <1>3, <2>2, <3>1 DEF TechInv
  <2>3. QED
    BY <1>5, <1>8, <2>1, <2>2 DEF TapUntilGone, Ignores
<1>9. QED
  BY <1>6, <1>7, <1>8

LEMMA MailKeepsChoreInv == ChoreInv /\ MailCollect => ChoreInv'
<1> SUFFICES ASSUME ChoreInv, MailCollect PROVE ChoreInv'
  OBVIOUS
<1>1. chore.at = "box" /\ chore.task = "mail_collect" /\ ChoreType /\ chore.n \in Nat
  BY WhoseTurn DEF MailCollect, At, ChoreInv, ChoreType
<1>2. /\ game.missed \/ game.mail \subseteq chore.n .. Mailboxes - 1
      /\ chore.said = "nothing" /\ Mailboxes \in Nat
  BY <1>1, ChoresAssumption DEF ChoreInv, MailInv, Silent, At
<1>3. CASE chore.n = Mailboxes
  <2>1. (game.missed \/ game.mail = {}) /\ Returns("ok") /\ UNCHANGED game
    BY <1>2, <1>3 DEF MailCollect
  <2>2. Moved("back", chore.n, "ok")
    BY <1>1, <2>1, ReturnsMoves
  <2>3. ChoreType' /\ chore'.task = "mail_collect" /\ chore'.at = "back" /\ chore'.said = "ok"
    BY <1>1, <2>1, <2>2 DEF ChoreType, Moved
  <2>4. MailInv' /\ (game'.missed \/ Accomplished')
    BY <2>1, <2>3 DEF MailInv, Accomplished, At
  <2>5. QED
    BY <2>3, <2>4, OwnInvariant
<1>4. CASE chore.n # Mailboxes
  <2>1. /\ To("cheerBox")
        /\ \/ Misses("mail")
           \/ game' = [game EXCEPT !.mail = @ \ {chore.n}, !.party = chore.n \in game.mail]
    BY <1>4 DEF MailCollect
  <2>2. /\ DOMAIN game' = DOMAIN game
        /\ \/ game'.missed = TRUE
           \/ game'.missed = game.missed /\ game'.mail = game.mail \ {chore.n}
    <3>1. CASE Misses("mail")
      BY <1>1, <3>1, Missing
    <3>2. CASE game' = [game EXCEPT !.mail = @ \ {chore.n}, !.party = chore.n \in game.mail]
      BY <1>1, <3>2 DEF ChoreType
    <3>3. QED
      BY <2>1, <3>1, <3>2
  <2>3. Moved("cheerBox", chore.n, "nothing")
    BY <1>1, <1>2, <2>1, ToMoves
  <2>4. /\ ChoreType' /\ chore'.task = "mail_collect" /\ chore'.at = "cheerBox"
        /\ chore'.said = "nothing" /\ chore'.n = chore.n
    BY <1>1, <2>2, <2>3 DEF ChoreType, Moved
  <2>5. game'.missed \/ game'.mail \subseteq chore.n + 1 .. Mailboxes - 1
    BY <1>1, <1>2, <2>2
  <2>6. MailInv'
    BY <2>4, <2>5 DEF MailInv, At
  <2>7. QED
    BY <2>4, <2>6, OwnInvariant
<1>5. QED
  BY <1>3, <1>4

LEMMA BaseTapKeepsChoreInv == ChoreInv /\ BaseTap => ChoreInv'
<1> SUFFICES ASSUME ChoreInv, BaseTap PROVE ChoreInv'
  OBVIOUS
<1>1. /\ chore.task = "base" /\ ChoreType /\ Returns("ok")
      /\ game' = [game EXCEPT !.icon = FALSE] \/ Misses("icon")
  BY WhoseTurn DEF BaseTap, ChoreInv, At
<1>2. DOMAIN game' = DOMAIN game /\ (game'.missed = TRUE \/ ~game'.icon)
  <2>1. CASE Misses("icon")
    BY <1>1, <2>1, Missing
  <2>2. CASE game' = [game EXCEPT !.icon = FALSE]
    BY <1>1, <2>2 DEF ChoreType
  <2>3. QED
    BY <1>1, <2>1, <2>2
<1>3. Moved("back", chore.n, "ok")
  BY <1>1, ReturnsMoves
<1>4. ChoreType' /\ chore'.task = "base" /\ chore'.at = "back" /\ chore'.said = "ok"
  BY <1>1, <1>2, <1>3 DEF ChoreType, Moved
<1>5. BaseInv' /\ (game'.missed \/ Accomplished')
  BY <1>2, <1>4 DEF BaseInv, Accomplished
<1>6. QED
  BY <1>4, <1>5, OwnInvariant

-----------------------------------------------------------------------------
(* The game, and all of it together. *)

\* The game catches up: it runs only what was paid for, and asks to be paid
\* only where it shows the board it is short on.
LEMMA GameKeepsChoreInv == ChoreInv /\ GameMoves => ChoreInv'
<1> SUFFICES ASSUME ChoreInv, GameMoves PROVE ChoreInv'
  OBVIOUS
<1>1. UNCHANGED chore /\ ChoreType
  BY DEF GameMoves, ChoreInv
<1>2. \/ game.board = "starting" /\ Shows("running", game.paid, game.party, game.prompt)
      \/ game.board = "running" /\ Shows("claim", game.paid, game.party, game.prompt)
      \/ game.board = "opening" /\ Shows("short", game.paid, game.party, TRUE)
      \/ Shows(game.board, game.paid, FALSE, game.prompt)
  BY <1>1, Showing DEF GameMoves
<1>3. /\ game'.tech = game.tech /\ game'.badge = game.badge /\ game'.left = game.left
      /\ game'.mail = game.mail /\ game'.icon = game.icon /\ game'.missed = game.missed
  BY <1>1 DEF GameMoves, ChoreType
<1>4. ChoreType'
  BY <1>1, <1>2 DEF ChoreType, Shows
<1>5. RadarInv'
  <2>1. RadarInv
    BY DEF ChoreInv
  <2>2. CASE game.board = "starting" /\ Shows("running", game.paid, game.party, game.prompt)
    BY <1>1, <2>1, <2>2 DEF RadarInv, At, Shows, Reward, Asking
  <2>3. CASE game.board = "running" /\ Shows("claim", game.paid, game.party, game.prompt)
    BY <1>1, <2>1, <2>3 DEF RadarInv, At, Shows, Reward, Asking
  <2>4. CASE game.board = "opening" /\ Shows("short", game.paid, game.party, TRUE)
    BY <1>1, <2>1, <2>4 DEF RadarInv, At, Shows, Reward, Asking
  <2>5. CASE Shows(game.board, game.paid, FALSE, game.prompt)
    BY <1>1, <2>1, <2>5 DEF RadarInv, At, Shows
  <2>6. QED
    BY <1>2, <2>2, <2>3, <2>4, <2>5
<1>6. TechInv' /\ MailInv' /\ BaseInv' /\ Silent'
  BY <1>1, <1>3 DEF ChoreInv, TechInv, MailInv, BaseInv, Silent, At
<1>7. ReportsAreTrue'
  BY <1>1, <1>2, <1>3 DEF ChoreInv, RadarInv, ReportsAreTrue, Accomplished, At, Shows
<1>8. QED
  BY <1>4, <1>5, <1>6, <1>7 DEF ChoreInv

LEMMA ChoreInvInit == NoChore \/ ChoreInit => ChoreInv
<1>1. CASE NoChore
  BY <1>1 DEF NoChore, Chore, Asleep, ChoreInv, ChoreType, RadarInv, TechInv, MailInv, BaseInv,
              Silent, ReportsAreTrue, Accomplished, At
<1>2. ASSUME NEW task \in {"radar", "tech_donate", "mail_collect", "base"}, NEW p,
             chore = Chore(task, p), p # "back",
             DOMAIN game = DOMAIN Asleep, RadarInv, TechInv, MailInv, BaseInv
      PROVE  ChoreInv
  <2>1. chore.task = task /\ chore.at = p /\ chore.said = "nothing" /\ ChoreType
    BY <1>2 DEF Chore, ChoreType, Asleep
  <2>2. Silent /\ ReportsAreTrue
    BY <1>2, <2>1 DEF Silent, ReportsAreTrue, At
  <2>3. QED
    BY <1>2, <2>1, <2>2 DEF ChoreInv
<1>3. CASE /\ chore = Chore("radar", "banked")
           /\ \E b \in {"none", "ready", "short", "running", "claim"} :
                  game = [Asleep EXCEPT !.board = b, !.began = b]
  <2>1. PICK b \in {"none", "ready", "short", "running", "claim"} :
           game = [Asleep EXCEPT !.board = b, !.began = b]
    BY <1>3
  <2>2. /\ DOMAIN game = DOMAIN Asleep /\ game.board = b /\ game.began = b
        /\ ~game.paid /\ ~game.party /\ ~game.prompt
    BY <2>1 DEF Asleep
  <2>3. chore.task = "radar" /\ chore.at = "banked" /\ chore.n = 0
    BY <1>3 DEF Chore
  <2>4. RadarInv /\ TechInv /\ MailInv /\ BaseInv
    BY <2>2, <2>3 DEF RadarInv, TechInv, MailInv, BaseInv, At
  <2>5. QED
    BY <1>2, <1>3, <2>2, <2>4
<1>4. CASE /\ chore = Chore("tech_donate", "list")
           /\ \E where \in {"none", "here", "there"}, k \in 0 .. MaxDonations :
                  game = [Asleep EXCEPT !.tech = where, !.badge = where # "none", !.left = k]
  <2>1. PICK where \in {"none", "here", "there"}, k \in 0 .. MaxDonations :
           game = [Asleep EXCEPT !.tech = where, !.badge = where # "none", !.left = k]
    BY <1>4
  <2>2. DOMAIN game = DOMAIN Asleep /\ game.tech = where /\ game.badge = (where # "none")
    BY <2>1 DEF Asleep
  <2>3. chore.task = "tech_donate" /\ chore.at = "list"
    BY <1>4 DEF Chore
  <2>4. RadarInv /\ TechInv /\ MailInv /\ BaseInv
    BY <2>2, <2>3 DEF RadarInv, TechInv, MailInv, BaseInv, At
  <2>5. QED
    BY <1>2, <1>4, <2>2, <2>4
<1>5. CASE /\ chore = Chore("mail_collect", "box")
           /\ \E boxes \in SUBSET (0 .. Mailboxes - 1) : game = [Asleep EXCEPT !.mail = boxes]
  <2>1. DOMAIN game = DOMAIN Asleep /\ game.mail \subseteq 0 .. Mailboxes - 1
    BY <1>5 DEF Asleep
  <2>2. chore.task = "mail_collect" /\ chore.at = "box" /\ chore.n = 0
    BY <1>5 DEF Chore
  <2>3. RadarInv /\ TechInv /\ MailInv /\ BaseInv
    BY <2>1, <2>2 DEF RadarInv, TechInv, MailInv, BaseInv, At
  <2>4. QED
    BY <1>2, <1>5, <2>1, <2>3
<1>6. CASE /\ chore = Chore("base", "icon")
           /\ \E there \in BOOLEAN : game = [Asleep EXCEPT !.icon = there]
  <2>1. DOMAIN game = DOMAIN Asleep
    BY <1>6 DEF Asleep
  <2>2. chore.task = "base" /\ chore.at = "icon"
    BY <1>6 DEF Chore
  <2>3. RadarInv /\ TechInv /\ MailInv /\ BaseInv
    BY <2>2 DEF RadarInv, TechInv, MailInv, BaseInv
  <2>4. QED
    BY <1>2, <1>6, <2>1, <2>3
<1>7. QED
  BY <1>1, <1>3, <1>4, <1>5, <1>6 DEF ChoreInit

\* No chore reports success for doing nothing, unless the game swallowed a tap
\* whose effect the code never looks for, nor blames the game for rewards of an
\* execution it never took: for any number of retries, polls, donations and
\* mailboxes, whichever taps are swallowed and however late the game shows the
\* others (radar.go, tech_donate.go, mail_collect.go, helpers.go).
THEOREM ChoresReportTruly == Spec => []ReportsAreTrue
<1>1. Init => ChoreInv
  BY ChoreInvInit DEF Init
<1>2. ChoreInv /\ [Next]_routeVars => ChoreInv'
  <2> SUFFICES ASSUME ChoreInv, [Next]_routeVars PROVE ChoreInv'
    OBVIOUS
  <2>1. CASE UNCHANGED choreVars
    BY <2>1 DEF choreVars, ChoreInv, ChoreType, RadarInv, TechInv, MailInv, BaseInv, Silent,
                At, ReportsAreTrue, Accomplished
  <2>2. CASE Breaks
    BY <2>2, GivingUpKeepsChoreInv DEF Breaks, At
  <2>3. CASE ChoreStep
    BY <2>2, <2>3, ClaimBankedKeepsChoreInv, DismissRewardsKeepsChoreInv, ProbeKeepsChoreInv,
       ExecuteKeepsChoreInv, SettleKeepsChoreInv, PollKeepsChoreInv, TechKeepsChoreInv,
       MailKeepsChoreInv, BaseTapKeepsChoreInv
    DEF ChoreStep
  <2>4. QED
    BY <2>1, <2>3, GameKeepsChoreInv DEF Next, Run, Draw, routeVars
<1>3. ChoreInv => ReportsAreTrue
  BY DEF ChoreInv
<1>4. QED
  BY <1>1, <1>2, <1>3, PTL DEF Spec

=============================================================================
