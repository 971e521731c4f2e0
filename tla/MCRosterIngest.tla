--------------------------- MODULE MCRosterIngest ---------------------------
(***************************************************************************)
(* An alliance of four: player 4 alone in R4, players 1 to 3 below each    *)
(* other in R3.  Three rows fit on a frame, a header card is half a row.   *)
(*                                                                         *)
(* "Readings" tries what OCR may make of the row that is photographed      *)
(* three times, with every choice of headers it can count.  "Scrolls"      *)
(* tries where frames were taken and how far the offsets are off.          *)
(* "Astray" are captures roster_capture does not mean to record.           *)
(***************************************************************************)
EXTENDS RosterIngest, SequencesExt

R3 == 3
R4 == 4

Alliance == 1..4

RankOfAlliance == [p \in Alliance |-> IF p = 4 THEN R4 ELSE R3]

\* Each player's own name, 5 that reads a little like 2, 6 like nobody, 7 like
\* 1, 8 for a name without a letter and 9 for a blank.
SomeTexts == 1..9

Pair(t, u) == {t, u}

SomeScores ==
    [t \in SomeTexts |-> [u \in SomeTexts |->
        CASE {t, u} \cap {8, 9} # {}    -> 0
          [] t = u                   -> 100
          [] Pair(t, u) = Pair(1, 7) -> 95
          [] Pair(t, u) = Pair(2, 5) -> 80
          [] OTHER                   -> 10]]

Read(t, sure) == [text |-> t, sure |-> sure, fields |-> 3]

Clear(p) == Read(p, TRUE)

KnownAs(ps) ==
    {[name |-> p, rank |-> RankOfAlliance[p], player |-> p, run |-> 0,
      seen |-> <<0, 0>>] : p \in ps}

-----------------------------------------------------------------------------
(* The frames of one pass over a group. *)

\* Where rows stand in the open list of their group; the first frame of R3
\* shows R4's header above the list and R3's own card on top of it.
Places == <<4, 12, 20, 0>>

Visible(ps, top) ==
    SetToSortSeq({p \in ps : Places[p] - top \in 0..16}, <)

BandsAt(ps, top, read(_)) ==
    LET seen == Visible(ps, top)
    IN  [j \in DOMAIN seen |->
            [y |-> Places[seen[j]] - top, player |-> seen[j],
             text |-> read(seen[j]).text, sure |-> read(seen[j]).sure,
             fields |-> read(seen[j]).fields]]

Card(rank, count, y) == [rank |-> rank, count |-> count, y |-> y]

Frame(open, top, badge, count, cards, offset, slip, bands) ==
    [open |-> open, top |-> top, badge |-> badge, count |-> count,
     cards |-> cards, offset |-> offset, slip |-> slip, bands |-> bands]

\* counts: what is read off R4's sticky header and R3's card below the row.
OverR4(counts, read) ==
    <<Frame(R4, 0, R4, counts[1], <<Card(R3, counts[2], 8)>>, 0, 0,
            BandsAt({4}, 0, LAMBDA p : read))>>

\* slips[k] is how far the offsets up to the k-th frame of R3 are off, counts[k]
\* what is read off its header there, reads[k][p] off p's row.
OverR3(tops, slips, counts, reads) ==
    [k \in DOMAIN tops |->
        LET bands  == BandsAt(1..3, tops[k], LAMBDA p : reads[k][p])
            offset == IF k = 1 THEN 0 ELSE tops[k] - tops[k - 1] + slips[k] - slips[k - 1]
        IN  IF tops[k] = 0
            THEN Frame(R3, 0, R4, 0, <<Card(R3, counts[k], 0)>>, offset, slips[k], bands)
            ELSE Frame(R3, tops[k], R3, counts[k], <<>>, offset, slips[k], bands)]

CaptureOf(frames, total) == [frames |-> frames, total |-> total, ingests |-> 1]

Again(c) == [c EXCEPT !.ingests = 2]

Plainly(n) == [k \in 1..n |-> [p \in Alliance |-> Clear(p)]]

NoSlips(n) == [k \in 1..n |-> 0]

-----------------------------------------------------------------------------
Badly == {Clear(2), Read(2, FALSE), Clear(6), Read(6, FALSE), Clear(5), Clear(9)}

\* first: how row 1 reads on its first photograph; second: row 2 on all three.
Reading(counts, first, second) ==
    CaptureOf(OverR4(<<1, 0>>, Clear(4)) \o
              OverR3(<<0, 4, 12>>, NoSlips(3), counts,
                     [k \in 1..3 |-> [p \in Alliance |->
                         CASE p = 2           -> second[k]
                           [] p = 1 /\ k = 1 -> first
                           [] OTHER           -> Clear(p)]]),
              4)

Counted == {<<0, 0, 0>>, <<0, 3, 0>>, <<0, 0, 3>>, <<3, 3, 3>>}

Readings ==
    {Reading(c, a, b) :
        c \in Counted, a \in {Clear(1), Clear(9)}, b \in [1..3 -> Badly]}
    \cup
    {Again(Reading(<<0, 3, 0>>, Clear(7), b)) : b \in [1..3 -> Badly]}

\* Off by nothing at first, and by up to half a pitch either way at worst.
Slips(n) == {s \in [1..n -> {-3, 0, 3}] : s[1] = 0}

Tops == {<<0>>, <<0, 4>>, <<0, 12>>, <<0, 4, 12>>, <<0, 8, 12>>, <<4, 12>>}

Scrolls ==
    UNION {{CaptureOf(IF first = R4 THEN OverR4(<<1, c>>, r) \o OverR3(t, s, [k \in DOMAIN t |-> 3], Plainly(3))
                      ELSE OverR3(t, s, [k \in DOMAIN t |-> 3], Plainly(3)) \o OverR4(<<1, c>>, r),
                      total) :
        s \in Slips(Len(t)), first \in Ranks, c \in {0, 3}, r \in {Clear(4), Clear(9)}, total \in {0, 4}} : t \in Tops}
    \cup
    {CaptureOf(OverR4(<<1, c>>, Clear(4)), total) : c \in {0, 3}, total \in {0, 4}}

\* The k-th frame with another badge, or without its cards.
Rebadged(frames, k, badge) == [frames EXCEPT ![k].badge = badge]
Cardless(frames, k) == [frames EXCEPT ![k].cards = <<>>]

Straight(counts) ==
    OverR4(<<1, 0>>, Clear(4)) \o OverR3(<<0, 4, 12>>, NoSlips(3), counts, Plainly(3))

Astray ==
    LET all == {Straight(c) : c \in [1..3 -> {0, 1, 2, 5}]}
    IN  {CaptureOf(Rebadged(f, k, b), 4) : f \in all, k \in 1..4, b \in {R3, Unmatched}}
        \cup {Again(CaptureOf(f, 4)) : f \in all}
        \cup {CaptureOf(Cardless(f, k), 4) : f \in all, k \in 1..2}
        \cup {CaptureOf(f \o OverR3(<<0, 4, 12>>, NoSlips(3), <<3, 3, 3>>,
                    [k \in 1..3 |-> [p \in Alliance |-> Clear(6)]]), 4) : f \in all}

\* Row 3 always reads as a symbol.
Hollow ==
    {Again(CaptureOf(OverR3(<<0, 4, 12>>, NoSlips(3), <<3, 3, 3>>,
                            [k \in 1..3 |-> [Plainly(3)[k] EXCEPT ![3] = Read(8, TRUE)]]),
                     0))}

SomeCaptures == Hollow \cup Readings \cup Scrolls \cup Astray

\* One badge in the middle of R3's scroll matches nothing.
OneUnmatched == {CaptureOf(Rebadged(Straight(<<3, 3, 3>>), 3, Unmatched), 4)}

SomeRosters == {{}, KnownAs({1, 2})}

=============================================================================
