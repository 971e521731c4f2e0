------------------------------- MODULE Points -------------------------------
(***************************************************************************)
(* monotonicKnown and pointsBounds of internal/ingest/points.go.  Some     *)
(* rows of the ranking carry a value worth trusting, a seed; of the seeds  *)
(* the longest run that respects the ranking's order is kept, and every    *)
(* row's value is then bounded by the kept seeds around it.                *)
(*                                                                         *)
(* One step is one round of one of the code's loops: the dynamic program   *)
(* over the seeds, the walk back along the best run, and the two passes    *)
(* that carry the last kept value down and up.                             *)
(***************************************************************************)
EXTENDS Ranking

VARIABLES
    seeds,   \* the rows in "known"
    value,   \* the value read on each row
    at,      \* the loop variable
    loop,    \* "weigh", "keep", "bound" or "bounded"
    len,     \* the longest non-increasing run that ends at each seed
    prev,    \* the seed before it in that run, or 0
    best,    \* where the longest run ends
    kept,    \* the seeds of that run
    hi,      \* each row's window
    lo,
    above,   \* the two values being carried, "hi" and "lo" of the code
    below

pointsVars ==
    <<seeds, value, at, loop, len, prev, best, kept, hi, lo, above, below>>

Loops == {"weigh", "keep", "bound", "bounded"}

PointsTypeOK ==
    /\ seeds \subseteq Rows
    /\ value \in [Rows -> 0..MaxPoints]
    /\ at \in 0..(NRows + 1)
    /\ loop \in Loops
    /\ len \in [Rows -> Nat]
    /\ prev \in [Rows -> 0..NRows]
    /\ best \in 0..NRows
    /\ kept \subseteq Rows
    /\ hi \in [Rows -> 0..MaxPoints]
    /\ lo \in [Rows -> 0..MaxPoints]
    /\ above \in 0..MaxPoints
    /\ below \in 0..MaxPoints

Zeroes == [r \in Rows |-> 0]

\* A call over the seeds "ss" with the values "vs".
PointsCall(ss, vs) ==
    /\ seeds' = ss
    /\ value' = vs
    /\ at' = 1
    /\ loop' = "weigh"
    /\ len' = Zeroes
    /\ prev' = Zeroes
    /\ best' = 0
    /\ kept' = {}
    /\ hi' = Zeroes
    /\ lo' = Zeroes
    /\ above' = MaxPoints
    /\ below' = 0

-----------------------------------------------------------------------------

BeforeStrictly(j) == {k \in seeds : k < j /\ value[k] > value[j]}

BeforeOrAt(j) == {k \in seeds : k <= j /\ value[k] >= value[j]}

\* The seeds that may stand before seed j: equal values are in order.
Before(j) == {k \in seeds : k < j /\ value[k] >= value[j]}

\* The first of the longest runs seed j can extend.
Extends(j, k) ==
    /\ k \in Before(j)
    /\ \A i \in Before(j) :
          len[i] < len[k] \/ (len[i] = len[k] /\ k <= i)

\* One round of the dynamic program.
Weigh ==
    /\ loop = "weigh"
    /\ at <= NRows
    /\ \/ at \notin seeds /\ UNCHANGED <<len, prev, best>>
       \/ /\ at \in seeds
          /\ \/ /\ Before(at) = {}
                /\ len' = [len EXCEPT ![at] = 1]
                /\ UNCHANGED prev
             \/ \E k \in Before(at) :
                /\ Extends(at, k)
                /\ len' = [len EXCEPT ![at] = len[k] + 1]
                /\ prev' = [prev EXCEPT ![at] = k]
          /\ best' = IF best = 0 \/ len'[at] > len'[best] THEN at ELSE best
    /\ at' = at + 1
    /\ UNCHANGED <<seeds, value, loop, kept, hi, lo, above, below>>

\* The walk back starts at the end of the longest run.
Weighed ==
    /\ loop = "weigh"
    /\ at > NRows
    /\ loop' = "keep"
    /\ at' = best
    /\ UNCHANGED <<seeds, value, len, prev, best, kept, hi, lo, above, below>>

Keep ==
    /\ loop = "keep"
    /\ at # 0
    /\ kept' = kept \cup {at}
    /\ at' = prev[at]
    /\ UNCHANGED <<seeds, value, loop, len, prev, best, hi, lo, above, below>>

Kept ==
    /\ loop = "keep"
    /\ at = 0
    /\ loop' = "bound"
    /\ at' = 1
    /\ UNCHANGED <<seeds, value, len, prev, best, kept, hi, lo, above, below>>

BoundingUnfiltered == seeds

\* The seeds that define windows.
Bounding == kept

\* One round of both passes: row "at" from the top, "up" from the bottom.
Bound ==
    LET up == NRows + 1 - at
    IN  /\ loop = "bound"
        /\ at <= NRows
        /\ hi' = [hi EXCEPT ![at] = above]
        /\ above' = IF at \in Bounding THEN value[at] ELSE above
        /\ lo' = [lo EXCEPT ![up] = below]
        /\ below' = IF up \in Bounding THEN value[up] ELSE below
        /\ at' = at + 1
        /\ UNCHANGED <<seeds, value, loop, len, prev, best, kept>>

Bounded ==
    /\ loop = "bound"
    /\ at > NRows
    /\ loop' = "bounded"
    /\ UNCHANGED <<seeds, value, at, len, prev, best, kept, hi, lo, above,
                   below>>

PointsStep == Weigh \/ Weighed \/ Keep \/ Kept \/ Bound \/ Bounded

PointsInit ==
    /\ seeds \in SUBSET Rows
    /\ value \in [Rows -> 0..MaxPoints]
    /\ at = 1
    /\ loop = "weigh"
    /\ len = Zeroes
    /\ prev = Zeroes
    /\ best = 0
    /\ kept = {}
    /\ hi = Zeroes
    /\ lo = Zeroes
    /\ above = MaxPoints
    /\ below = 0

PointsSpec == PointsInit /\ [][PointsStep]_pointsVars

WithinBounds(v, r) == lo[r] <= v /\ v <= hi[r]

-----------------------------------------------------------------------------

\* A value inside its window respects the ranking's order against every kept
\* seed, near or far, and a window is open only where no seed was kept: a bad
\* seed anywhere must not widen, cross or misplace another row's window.
WindowsAreSound ==
    loop = "bounded" =>
        \A r \in Rows :
            /\ lo[r] <= hi[r]
            /\ \A s \in kept : /\ s < r => hi[r] <= value[s]
                               /\ s > r => lo[r] >= value[s]
            /\ hi[r] = MaxPoints \/ \E s \in kept : s < r /\ hi[r] = value[s]
            /\ lo[r] = 0 \/ \E s \in kept : s > r /\ lo[r] = value[s]

\* A seed that was dropped lies outside the window it gets, so its row is
\* queued for a human instead of written: "one bad seed anywhere in the run
\* only costs itself", and it does cost itself.  This is where the run must
\* be the longest one, with equal values in order.
DroppedSeedsAreQueued ==
    loop = "bounded" =>
        \A s \in seeds \ kept : ~WithinBounds(value[s], s)

=============================================================================
