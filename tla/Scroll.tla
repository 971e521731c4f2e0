------------------------------- MODULE Scroll -------------------------------
(***************************************************************************)
(* tasks.scrollCapture: swipe through a list, photograph a frame per step, *)
(* measure how far the list moved between the frame kept last and this     *)
(* one, and say whether the bottom was proven.                             *)
(*                                                                         *)
(* Distances are pixels.  A frame is the position of the list it shows,    *)
(* "top", with the measured "offset" recorded beside it.  The list obeys   *)
(* swipes except that the game may swallow MaxSwallowed of them in a row,  *)
(* and that a frame may be taken while the fling still has up to Coast     *)
(* pixels to go.  The kill switch, adb and a frame of another screen are   *)
(* all of them errors to this code, and may strike at any step.            *)
(***************************************************************************)
EXTENDS Integers, Sequences

CONSTANTS
    Lists,         \* the numbers of rows a list may have
    Height,        \* of the list's region
    Pitch,         \* of one row
    Margin,        \* blank space below the last row
    Strip,         \* height of ScrollOffset's probe strips
    Tol,           \* how far a measured offset may be off
    Travels,       \* how far a swipe may carry, fling included
    Coast,         \* what a fling may have left when it is photographed
    MaxSwallowed,  \* how many swipes in a row the game swallows at most
    MaxFrames,     \* maxScrollFrames
    ZeroRetries,   \* zeroOffsetRetries
    Remeasures     \* offsetRemeasureAttempts

\* The last two hold of both production lists: 128 and 112 pixels of pitch,
\* strips of 118 and 86, travels from 150 up, errors of at most 4.
ASSUME ScrollAssumption ==
    /\ Lists \subseteq Nat
    /\ Height \in Nat /\ Pitch \in Nat \ {0} /\ Pitch < Height
    /\ Strip \in Nat /\ 4 * Strip <= Height
    /\ Margin \in Nat /\ Tol \in Nat /\ Coast \in Nat /\ Tol <= Margin
    /\ MaxSwallowed \in Nat /\ MaxFrames \in Nat \ {0}
    /\ ZeroRetries \in Nat /\ MaxSwallowed < ZeroRetries
    /\ Remeasures \in Nat
    /\ Travels \subseteq Nat
    /\ \A d \in Travels : d > Coast + 2 * Tol
    /\ Tol <= 1 \/ Pitch + Tol <= 2 * Strip + 1

VARIABLES
    list,       \* how many rows the list has
    pos, coast, \* where it stands, and what its fling has left to go
    swallowed,  \* swipes the game has swallowed in a row
    at,         \* where scrollCapture stands
    seq,        \* the loop's counter
    zeroes,     \* zero offsets in a row
    looks,      \* measureAfterSwipe: looks taken again
    prev,       \* the position the frame kept last shows
    frames,     \* the frames kept
    complete    \* the second result

gameVars   == <<list, pos, coast, swallowed>>
loopVars   == <<at, seq, zeroes, looks, prev, frames, complete>>
scrollVars == <<gameVars, loopVars>>

RowTop(r) == (r - 1) * Pitch

Bottom ==
    LET end == list * Pitch + Margin IN IF end > Height THEN end - Height ELSE 0

Usable == Height - Pitch        \* usableHeight
Reach  == Height - 2 * Strip    \* probe 0's limit, less one strip

-----------------------------------------------------------------------------
(* The game. *)

\* A fling may be caught on its way once it can be seen to move.
Swiped(d) ==
    LET from == pos + coast
        aim  == IF from + d < Bottom THEN from + d ELSE Bottom
    IN  \E rest \in 0 .. Coast :
            /\ rest = 0 \/ aim - rest > from + Tol
            /\ pos' = aim - rest
            /\ coast' = rest

Settled == pos' = pos + coast /\ coast' = 0

\* ScrollOffset looks only forward, refuses what its probes cannot reach, and
\* may refuse anything.  What has not moved it places exactly.
Offsets ==
    LET moved == pos - prev
    IN  {m \in 0 .. Reach :
            /\ moved >= 0 /\ moved - Tol <= m /\ m <= moved + Tol
            /\ moved = 0 => m = 0}

-----------------------------------------------------------------------------
(* scrollCapture. *)

Keep(offset) ==
    /\ frames' = Append(frames, [top |-> pos, offset |-> offset])
    /\ prev' = pos

Done(proven) ==
    /\ at' = "done"
    /\ complete' = proven
    /\ UNCHANGED <<gameVars, seq, zeroes, looks, prev, frames>>

FirstFrame ==
    /\ at = "first"
    /\ at' = "loop"
    /\ Keep(0)
    /\ UNCHANGED <<gameVars, seq, zeroes, looks, complete>>

Swipe ==
    /\ at = "loop"
    /\ seq < MaxFrames
    /\ at' = "look"
    /\ looks' = 0
    /\ \/ /\ \E d \in Travels : Swiped(d)
          /\ swallowed' = 0
       \/ /\ swallowed < MaxSwallowed
          /\ Settled
          /\ swallowed' = swallowed + 1
    /\ UNCHANGED <<list, seq, zeroes, prev, frames, complete>>

OutOfFrames == at = "loop" /\ seq >= MaxFrames /\ Done(FALSE)

MayLookAgain == at = "look" /\ looks < Remeasures

\* measureAfterSwipe: another screenshot, never another swipe.
LookAgain ==
    /\ MayLookAgain
    /\ looks' = looks + 1
    /\ Settled
    /\ UNCHANGED <<list, swallowed, at, seq, zeroes, prev, frames, complete>>

\* Mutation of BelievesZero: one retry short.
BelievesZeroEarly(n) == n >= ZeroRetries - 1

BelievesZero(n) == n >= ZeroRetries

\* Mutation of Unmoved: the swipe is tried again for ever.
UnmovedForever ==
    /\ at = "look"
    /\ 0 \in Offsets
    /\ at' = "loop"
    /\ UNCHANGED <<gameVars, seq, zeroes, looks, prev, frames, complete>>

Unmoved ==
    /\ at = "look"
    /\ 0 \in Offsets
    /\ ~BelievesZero(zeroes + 1)
    /\ at' = "loop"
    /\ seq' = seq + 1
    /\ zeroes' = zeroes + 1
    /\ UNCHANGED <<gameVars, looks, prev, frames, complete>>

BottomProven ==
    /\ at = "look"
    /\ 0 \in Offsets
    /\ BelievesZero(zeroes + 1)
    /\ Done(TRUE)

\* Mutation of Within: any measured offset will do.
WithinReach(offset) == offset # 0

Within(offset) == offset # 0 /\ offset <= Usable

KeepFrame ==
    /\ at = "look"
    /\ \E offset \in Offsets : Within(offset) /\ Keep(offset)
    /\ at' = "loop"
    /\ seq' = seq + 1
    /\ zeroes' = 0
    /\ UNCHANGED <<gameVars, looks, complete>>

Fail == at' = "failed" /\ UNCHANGED <<gameVars, seq, zeroes, looks, prev, frames, complete>>

Overshot == at = "look" /\ (\E offset \in Offsets : offset > Usable) /\ Fail

Unmeasurable == at = "look" /\ looks >= Remeasures /\ Fail

\* The kill switch refuses, adb fails, or the frame shows another screen.
Interrupted == at \in {"first", "loop", "look"} /\ Fail

ScrollStep == \/ FirstFrame \/ Swipe \/ OutOfFrames \/ LookAgain \/ Unmoved
              \/ BottomProven \/ KeepFrame \/ Overshot \/ Unmeasurable
              \/ Interrupted

\* The list has been opened: it stands at its top.
ScrollInit ==
    /\ list \in Lists
    /\ pos = 0 /\ coast = 0 /\ swallowed = 0
    /\ at = "first" /\ seq = 1 /\ zeroes = 0 /\ looks = 0 /\ prev = 0
    /\ frames = <<>> /\ complete = FALSE

ScrollSpec == ScrollInit /\ [][ScrollStep]_scrollVars

-----------------------------------------------------------------------------
Photographed(y) ==
    \E i \in DOMAIN frames : frames[i].top <= y /\ y + Pitch <= frames[i].top + Height

\* ErrScrollOvershot's promise: no row passes by without being photographed.
\* Every row that ends above the lower edge of the frame kept last is whole
\* in some frame, however the swipes carried, coasted or were swallowed, and
\* whatever the measurements were off by.
NoRowPassesUnseen ==
    frames # <<>> =>
        \A r \in 1 .. list :
            RowTop(r) + Pitch <= prev + Height => Photographed(RowTop(r))

\* A capture is only called complete when every row of the list is whole in
\* one of its frames: ingest concludes zeroes from it.
CompleteHasEveryRow ==
    at = "done" /\ complete => \A r \in 1 .. list : Photographed(RowTop(r))

=============================================================================
