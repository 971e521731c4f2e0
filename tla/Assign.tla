------------------------------- MODULE Assign -------------------------------
(***************************************************************************)
(* Assign of internal/roster/assign.go: rows of the ranking are matched to *)
(* members one to one.  A first phase pins the confident rows; rows that   *)
(* are second sightings of a pinned member are set aside; a second phase   *)
(* matches what is left among the members nobody has claimed.  One step    *)
(* is one claim, or the end of a phase.                                    *)
(***************************************************************************)
EXTENDS Ranking

CONSTANTS
    AutoAccept,      \* the floor of the first phase
    ResidualFloor,   \* the rule of the second phase
    ResidualMargin

ASSUME AssignAssumption ==
    /\ AutoAccept \in Nat
    /\ ResidualFloor \in Nat
    /\ ResidualMargin \in Nat \ {0}

VARIABLES
    scores,   \* each row's name score against each member
    seen,     \* the rows the capture yielded
    listed,   \* the members the run loaded
    stage,    \* "confident", "residual" or "assigned"
    out       \* the Assignment of each row

assignVars == <<scores, seen, listed, stage, out>>

Phases == {"unassigned", "confident", "residual", "duplicate"}

Unassigned == [member |-> Nobody, phase |-> "unassigned"]

Duplicate == [member |-> Nobody, phase |-> "duplicate"]

AssignTypeOK ==
    /\ scores \in [Rows -> [Members -> Nat]]
    /\ seen \subseteq Rows
    /\ listed \subseteq Members
    /\ stage \in {"confident", "residual", "assigned"}
    /\ out \in [Rows -> [member : Members \cup {Nobody}, phase : Phases]]

\* A call of Assign over the rows "rs", the members "ms" and the matrix "sc".
AssignCall(sc, rs, ms) ==
    /\ scores' = sc
    /\ seen' = rs
    /\ listed' = ms
    /\ stage' = "confident"
    /\ out' = [r \in Rows |-> Unassigned]

-----------------------------------------------------------------------------

\* rowTaken and memTaken of the code are the complements of these two.
Open == {r \in seen : out[r] = Unassigned}

Free == {m \in listed : \A r \in Rows : out[r].member # m}

Floor == IF stage = "confident" THEN AutoAccept ELSE ResidualFloor

Margin == IF stage = "confident" THEN 1 ELSE ResidualMargin

\* Among the free members, m is the one row r clearly stands for.
MayClaim(r, m) ==
    /\ r \in Open
    /\ m \in Free
    /\ scores[r][m] >= Floor
    /\ \A n \in Free \ {m} : scores[r][m] - scores[r][n] >= Margin

OutbidsByRow(r, m, q, n) == r <= q

\* The highest score claims first; of equal scores, the earlier row.
Outbids(r, m, q, n) ==
    \/ scores[r][m] > scores[q][n]
    \/ scores[r][m] = scores[q][n] /\ r <= q

ClaimOf(r, m) == out' = [out EXCEPT ![r] = [member |-> m, phase |-> stage]]

Claim ==
    /\ stage \in {"confident", "residual"}
    /\ \E r \in Open, m \in Free :
          /\ MayClaim(r, m)
          /\ \A q \in Open, n \in Free :
                MayClaim(q, n) => Outbids(r, m, q, n)
          /\ ClaimOf(r, m)
    /\ UNCHANGED <<scores, seen, listed, stage>>

NothingToClaim == \A r \in Open, m \in Free : ~MayClaim(r, m)

NoSecondSighting(r) == FALSE

\* A row that reads like a member already claimed.
SecondSighting(r) ==
    \E m \in listed \ Free : scores[r][m] >= AutoAccept

EndConfident ==
    /\ stage = "confident"
    /\ NothingToClaim
    /\ out' = [r \in Rows |->
                 IF r \in Open /\ SecondSighting(r) THEN Duplicate ELSE out[r]]
    /\ stage' = "residual"
    /\ UNCHANGED <<scores, seen, listed>>

EndResidual ==
    /\ stage = "residual"
    /\ NothingToClaim
    /\ stage' = "assigned"
    /\ UNCHANGED <<scores, seen, listed, out>>

AssignStep == Claim \/ EndConfident \/ EndResidual

AssignInit ==
    /\ scores \in [Rows -> [Members -> Nat]]
    /\ seen \in SUBSET Rows
    /\ listed \in SUBSET Members
    /\ stage = "confident"
    /\ out = [r \in Rows |-> Unassigned]

AssignSpec == AssignInit /\ [][AssignStep]_assignVars

-----------------------------------------------------------------------------

\* "Scoring each row against the whole roster discards the constraint that a
\* member appears at most once": Assign never lets two rows claim one member.
OneRowPerMember ==
    \A r, q \in Rows :
        out[r].member = out[q].member /\ out[r].member # Nobody => r = q

\* The member row r reads like more than like any other, and who is read on
\* no other row as well.
ClearWinner(r, m) ==
    /\ r \in seen
    /\ m \in listed
    /\ scores[r][m] >= AutoAccept
    /\ \A n \in listed \ {m} : scores[r][n] < scores[r][m]
    /\ \A q \in seen \ {r} : scores[q][m] < scores[r][m]

\* The greedy order never trades away a pair that is best on both sides,
\* which is why the code prefers it to a maximum-weight matching.
ClearWinnersAreMatched ==
    stage # "confident" =>
        \A r \in Rows, m \in Members :
            ClearWinner(r, m) => out[r] = [member |-> m, phase |-> "confident"]

\* A row that reads like a member the first phase claimed is evidence about
\* that member only: the second phase never gives it to anybody else.
SecondSightingsStayOut ==
    \A r, q \in Rows :
        out[r].phase = "residual" /\ out[q].phase = "confident" =>
            scores[r][out[q].member] < AutoAccept

\* RowsGoOneToOne: what Assign returns names a member once, and never on the
\* strength of a row that is another member's second sighting.
RowsGoOneToOne == OneRowPerMember /\ SecondSightingsStayOut

=============================================================================
