----------------------------- MODULE MCVSIngest -----------------------------
(***************************************************************************)
(* Captures of at most four rows and four members.  "Matching" tries every *)
(* small score matrix, "Ordering" every mix of points reads, and           *)
(* "Misreading" a few captures worth reviewing and ingesting again.        *)
(***************************************************************************)
EXTENDS VSIngest, Sequences

Four == 1..4

\* Points reads.
Clean(v) == [values |-> {v}, parsed |-> TRUE, conf |-> 95, retried |-> FALSE,
             again |-> {}, againConf |-> 0]
Fair(v) == [Clean(v) EXCEPT !.conf = 83]
Weak(v) == [Clean(v) EXCEPT !.conf = 40]
Retried(v) == [Clean(v) EXCEPT !.retried = TRUE]
Damaged(vs) == [Clean(0) EXCEPT !.parsed = FALSE, !.values = vs]
Late(v) == [Damaged({}) EXCEPT !.again = {v}, !.againConf = 40]

Reads == {Clean(20), Clean(40), Clean(50), Weak(45), Retried(40),
          Damaged({15, 45, 75}), Late(45)}

RowFrom(r, owner, like, points) ==
    [owner |-> owner, text |-> r, figures |-> r + 4, like |-> like,
     values |-> points.values, parsed |-> points.parsed, conf |-> points.conf,
     retried |-> points.retried, again |-> points.again,
     againConf |-> points.againConf]

CaptureOf(rows, who, list, complete) ==
    [rows |-> rows, members |-> who, list |-> list, complete |-> complete]

\* How a text scores against the four members.
Scoring(a, b, c, d) == <<a, b, c, d>>

Matching ==
    {CaptureOf([r \in 1..3 |-> RowFrom(r, r, Scoring(l[r], l[r + 3], 0, 0),
                                       Clean(50 - r))],
               {1, 2}, 1..3, TRUE) :
        l \in [1..6 -> {0, 70, 93, 95}]}
    \cup
    {CaptureOf([r \in 1..2 |-> RowFrom(r, r, Scoring(l[r], l[r + 2], l[r + 4], 0),
                                       Clean(50 - r))],
               1..3, 1..2, TRUE) :
        l \in [1..6 -> {70, 93, 95}]}

Alone(m, score) == [n \in Four |-> IF n = m THEN score ELSE 0]

Ordering ==
    {CaptureOf([r \in Four |-> RowFrom(r, r, Alone(r, 95), p[r])],
               Four, Four, TRUE) :
        p \in [Four -> Reads]}

\* Row 1 is unreadable as member 1, row 2 belongs to a newcomer who reads a
\* little like member 1.
Newcomer(points, complete) ==
    CaptureOf(<<RowFrom(1, 1, Alone(1, 50), points),
                RowFrom(2, 4, Scoring(70, 0, 0, 95), Clean(30)),
                RowFrom(3, 2, Alone(2, 95), Clean(20))>>,
              1..3, {1, 2, 4}, complete)

\* The first row is pinned: it shows member 3 again, read badly.  Member 4 is
\* not on the list.
Pinned ==
    CaptureOf(<<RowFrom(1, 3, Alone(3, 70), Clean(20)),
                RowFrom(2, 1, Alone(1, 50), Late(30)),
                RowFrom(3, 2, Alone(2, 75), Weak(25)),
                RowFrom(4, 3, Alone(3, 95), Clean(20))>>,
              Four, 1..3, TRUE)

\* Two rows that read the same.
Twins ==
    CaptureOf(<<RowFrom(1, 1, Alone(1, 50), Clean(40)),
                RowFrom(1, 2, Alone(2, 50), Clean(30))>>, 1..3, 1..2, TRUE)

\* The list was there and no row of it could be segmented.
Blank == CaptureOf(<<>>, 1..2, 1..2, TRUE)

\* A name OCR sees no letter of.
Faded ==
    CaptureOf(<<[RowFrom(1, 1, Alone(1, 0), Clean(40)) EXCEPT !.text = 9],
                RowFrom(2, 2, Alone(2, 95), Clean(30))>>, 1..2, 1..2, TRUE)

Misreading ==
    {Newcomer(Clean(40), TRUE), Newcomer(Fair(40), FALSE), Pinned, Twins, Blank,
     Faded}

AllCaptures == Matching \cup Ordering \cup Misreading

TextsRead == 1..9

=============================================================================
