------------------------------ MODULE VSProofs ------------------------------
(***************************************************************************)
(* VS ingest, for every set of captures, members, texts, scores and        *)
(* thresholds.                                                             *)
(*                                                                         *)
(* First the two algorithms over the rows of a ranking by themselves: what *)
(* Assign promises for every number of rows and members, every score       *)
(* matrix and every residual rule; and that the points windows are sound   *)
(* for every mix of seeds and values, and the kept run the longest one as  *)
(* far as it matters: no seed that was left out fits the window it gets.   *)
(*                                                                         *)
(* Then the ingest that uses them: a zero on the board stands for somebody *)
(* who was not on the list, and ingest implements the board.               *)
(***************************************************************************)
EXTENDS VSIngest, WellFoundedInduction, TLAPS

-----------------------------------------------------------------------------
(* Matching rows to members. *)

\* A row is matched to a listed member in one of the two phases, or to nobody.
Outcome(r) ==
    \/ out[r] \in {Unassigned, Duplicate}
    \/ out[r].member \in listed /\ out[r].phase \in {"confident", "residual"}

\* Until the first phase ends, a pair that is best on both sides is either
\* matched or has both its row and its member still unclaimed.
ClearWinnersAhead ==
    \A r \in Rows, m \in Members :
        ClearWinner(r, m) =>
            \/ out[r] = [member |-> m, phase |-> "confident"]
            \/ stage = "confident" /\ r \in Open /\ m \in Free

\* Once it has ended, no row still open reads like a member it claimed.
OpenRowsAreNew ==
    stage # "confident" =>
        \A r \in Open, q \in Rows :
            out[q].phase = "confident" => scores[r][out[q].member] < AutoAccept

NoResidualYet ==
    stage = "confident" => \A r \in Rows : out[r].phase # "residual"

AssignInv ==
    /\ AssignTypeOK
    /\ \A r \in Rows : Outcome(r)
    /\ OneRowPerMember
    /\ ClearWinnersAhead
    /\ NoResidualYet
    /\ OpenRowsAreNew
    /\ SecondSightingsStayOut

LEMMA AssignInvInit == AssignInit => AssignInv
  BY RankingAssumption, AssignAssumption
     DEF AssignInit, AssignInv, AssignTypeOK, Outcome, OneRowPerMember,
         ClearWinnersAhead, NoResidualYet, OpenRowsAreNew,
         SecondSightingsStayOut, ClearWinner, Open, Free, Unassigned, Phases

\* A claim takes an open row and a free member, and leaves the others alone.
LEMMA ClaimKeepsInv == AssignInv /\ Claim => AssignInv'
  <1> SUFFICES ASSUME AssignInv, Claim PROVE AssignInv'
    OBVIOUS
  <1> USE RankingAssumption, AssignAssumption DEF AssignInv, AssignTypeOK
  <1>1. PICK r \in Open, m \in Free :
           /\ MayClaim(r, m)
           /\ \A q \in Open, n \in Free : MayClaim(q, n) => Outbids(r, m, q, n)
           /\ ClaimOf(r, m)
    BY DEF Claim
  <1> DEFINE pair == [member |-> m, phase |-> stage]
  <1>2. /\ r \in Rows /\ r \in seen /\ out[r] = Unassigned
        /\ m \in listed /\ m \in Members /\ m # Nobody
        /\ \A q \in Rows : out[q].member # m
    BY DEF Open, Free
  <1>3. /\ out' = [out EXCEPT ![r] = pair]
        /\ UNCHANGED <<scores, seen, listed, stage>>
        /\ stage \in {"confident", "residual"}
    BY <1>1 DEF Claim, ClaimOf
  <1>4. out'[r] = pair /\ \A q \in Rows \ {r} : out'[q] = out[q]
    BY <1>2, <1>3
  <1>5. pair # Unassigned /\ pair # Duplicate
    BY <1>2 DEF Unassigned, Duplicate
  <1>6. Open' = Open \ {r} /\ Free' = Free \ {m}
    <2>1. \A q \in Rows : q \in Open' <=> q \in Open /\ q # r
      BY <1>2, <1>3, <1>4, <1>5 DEF Open
    <2>2. \A n \in Members : n \in Free' <=> n \in Free /\ n # m
      <3>1. out'[r].member = m /\ out[r].member = Nobody
        BY <1>2, <1>4 DEF Unassigned
      <3>2. \A n \in Members :
              (\A q \in Rows : out'[q].member # n)
                 <=> n # m /\ (\A q \in Rows : out[q].member # n)
        BY <1>2, <1>4, <3>1
      <3> QED BY <1>3, <3>2 DEF Free
    <2>3. Open \subseteq Rows /\ Open' \subseteq Rows
      BY <1>3 DEF Open
    <2>4. Free \subseteq Members /\ Free' \subseteq Members
      BY <1>3 DEF Free
    <2> QED BY <2>1, <2>2, <2>3, <2>4
  <1>7. AssignTypeOK'
    BY <1>2, <1>3 DEF Phases
  <1>8. \A q \in Rows : Outcome(q)'
    BY <1>2, <1>3, <1>4 DEF Outcome, Unassigned, Duplicate
  <1>9. OneRowPerMember'
    BY <1>2, <1>4 DEF OneRowPerMember
  <1>10. ClearWinnersAhead'
    <2> SUFFICES ASSUME NEW q \in Rows, NEW n \in Members, ClearWinner(q, n)
                 PROVE  \/ out'[q] = [member |-> n, phase |-> "confident"]
                        \/ stage = "confident" /\ q \in Open' /\ n \in Free'
      BY <1>3 DEF ClearWinnersAhead, ClearWinner
    <2>1. CASE out[q] = [member |-> n, phase |-> "confident"]
      BY <2>1, <1>2, <1>4 DEF Unassigned
    <2>2. CASE stage = "confident" /\ q \in Open /\ n \in Free
      <3>1. \A k \in Free \ {n} : scores[q][k] < scores[q][n]
        BY DEF ClearWinner, Free
      <3>2. \A k \in Members : scores[q][k] \in Nat /\ scores[r][k] \in Nat
        BY <1>2
      <3>3. MayClaim(q, n)
        BY <2>2, <3>1, <3>2 DEF MayClaim, Margin, Floor, ClearWinner, Free
      <3>4. Outbids(r, m, q, n)
        BY <1>1, <2>2, <3>3
      <3>5. CASE q = r
        <4>1. m = n
          BY <1>2, <2>2, <3>1, <3>2, <3>5, <3>4 DEF Outbids
        <4> QED BY <4>1, <3>5, <1>4, <2>2
      <3>6. CASE q # r
        <4>1. m # n
          BY <1>2, <3>2, <3>4, <3>6 DEF Outbids, ClearWinner
        <4> QED BY <4>1, <3>6, <1>6, <2>2
      <3> QED BY <3>5, <3>6
    <2> QED BY <2>1, <2>2 DEF ClearWinnersAhead
  <1>11. NoResidualYet'
    BY <1>3, <1>4 DEF NoResidualYet
  <1>12. OpenRowsAreNew'
    BY <1>2, <1>3, <1>4, <1>6 DEF OpenRowsAreNew
  <1>13. SecondSightingsStayOut'
    <2> SUFFICES ASSUME NEW q \in Rows, NEW p \in Rows,
                        out'[q].phase = "residual", out'[p].phase = "confident"
                 PROVE  scores[q][out'[p].member] < AutoAccept
      BY <1>3 DEF SecondSightingsStayOut
    <2>1. CASE q # r /\ p # r
      BY <2>1, <1>4 DEF SecondSightingsStayOut
    <2>2. CASE q = r
      <3>1. stage = "residual" /\ p # r
        BY <2>2, <1>4
      <3> QED BY <2>2, <3>1, <1>1, <1>4 DEF OpenRowsAreNew
    <2>3. CASE p = r /\ q # r
      <3>1. stage = "confident" /\ out[q].phase = "residual"
        BY <2>3, <1>4
      <3> QED BY <3>1 DEF NoResidualYet
    <2> QED BY <2>1, <2>2, <2>3
  <1> QED BY <1>7, <1>8, <1>9, <1>10, <1>11, <1>12, <1>13

\* The first phase cannot end while a pair best on both sides is unclaimed,
\* and it leaves open only rows unlike every member it claimed.
LEMMA EndConfidentKeepsInv == AssignInv /\ EndConfident => AssignInv'
  <1> SUFFICES ASSUME AssignInv, EndConfident PROVE AssignInv'
    OBVIOUS
  <1> USE RankingAssumption, AssignAssumption DEF AssignInv, AssignTypeOK
  <1>1. /\ UNCHANGED <<scores, seen, listed>>
        /\ stage = "confident" /\ stage' = "residual"
        /\ \A r \in Rows :
              out'[r] = IF r \in Open /\ SecondSighting(r) THEN Duplicate
                        ELSE out[r]
    BY DEF EndConfident
  <1>2. \A r \in Rows : out[r] # Unassigned => out'[r] = out[r]
    BY <1>1 DEF Open
  <1>3. \A r \in Rows : out'[r].member = out[r].member
    BY <1>1 DEF Open, Unassigned, Duplicate
  <1>4. \A r \in Rows : out'[r].phase \in {"confident", "residual"}
                           => out'[r] = out[r]
    BY <1>1 DEF Duplicate
  <1>5. AssignTypeOK'
    BY DEF EndConfident, Phases, Duplicate
  <1>6. \A r \in Rows : Outcome(r)'
    BY <1>1 DEF Outcome
  <1>7. OneRowPerMember'
    BY <1>3 DEF OneRowPerMember
  <1>8. ClearWinnersAhead'
    <2> SUFFICES ASSUME NEW r \in Rows, NEW m \in Members, ClearWinner(r, m)
                 PROVE  out'[r] = [member |-> m, phase |-> "confident"]
      BY <1>1 DEF ClearWinnersAhead, ClearWinner
    <2>1. ~(r \in Open /\ m \in Free)
      <3> SUFFICES ASSUME r \in Open, m \in Free PROVE FALSE
        OBVIOUS
      <3>1. \A k \in Free \ {m} : scores[r][k] < scores[r][m]
        BY DEF ClearWinner, Free
      <3>2. \A k \in Members : scores[r][k] \in Nat
        OBVIOUS
      <3>3. MayClaim(r, m)
        BY <1>1, <3>1, <3>2 DEF MayClaim, Margin, Floor, ClearWinner, Free
      <3> QED BY <3>3 DEF EndConfident, NothingToClaim
    <2>2. out[r] = [member |-> m, phase |-> "confident"]
      BY <2>1 DEF ClearWinnersAhead
    <2> QED BY <2>2, <1>2 DEF Unassigned
  <1>9. NoResidualYet'
    BY <1>1 DEF NoResidualYet
  <1>10. OpenRowsAreNew'
    <2> SUFFICES ASSUME NEW r \in Rows, r \in Open', NEW q \in Rows,
                        out'[q].phase = "confident"
                 PROVE  scores[r][out[q].member] < AutoAccept
      BY <1>1, <1>3 DEF OpenRowsAreNew, Open
    <2>1. r \in Open /\ ~SecondSighting(r)
      BY <1>1 DEF Open, Unassigned, Duplicate
    <2>2. out[q].phase = "confident"
      BY <1>4
    <2>3. out[q].member \in listed
      BY <2>2 DEF Outcome, Unassigned, Duplicate
    <2>4. out[q].member \notin Free
      BY DEF Free
    <2>5. scores[r] \in [Members -> Nat] /\ out[q].member \in Members
      BY <2>3
    <2>6. scores[r][out[q].member] \in Nat
      BY <2>5
    <2>7. ~(scores[r][out[q].member] >= AutoAccept)
      BY <2>1, <2>3, <2>4 DEF SecondSighting
    <2> QED BY <2>6, <2>7
  <1>11. SecondSightingsStayOut'
    BY <1>1, <1>4 DEF SecondSightingsStayOut, NoResidualYet
  <1> QED BY <1>5, <1>6, <1>7, <1>8, <1>9, <1>10, <1>11

LEMMA EndResidualKeepsInv == AssignInv /\ EndResidual => AssignInv'
  BY DEF EndResidual, AssignInv, AssignTypeOK, Outcome, OneRowPerMember,
         ClearWinnersAhead, NoResidualYet, OpenRowsAreNew,
         SecondSightingsStayOut, ClearWinner, Open, Free

LEMMA AssignStutterKeepsInv == AssignInv /\ UNCHANGED assignVars => AssignInv'
  BY DEF assignVars, AssignInv, AssignTypeOK, Outcome, OneRowPerMember,
         ClearWinnersAhead, NoResidualYet, OpenRowsAreNew,
         SecondSightingsStayOut, ClearWinner, Open, Free

LEMMA AssignInvHolds == AssignSpec => []AssignInv
  <1>1. AssignInv /\ [AssignStep]_assignVars => AssignInv'
    BY ClaimKeepsInv, EndConfidentKeepsInv, EndResidualKeepsInv,
       AssignStutterKeepsInv DEF AssignStep
  <1> QED BY AssignInvInit, <1>1, PTL DEF AssignSpec

\* No two rows of a capture are ever written under one member's name, and a
\* second sighting of a member is never written under somebody else's by the
\* residual phase.
THEOREM OneToOne == AssignSpec => []RowsGoOneToOne
  <1>1. AssignInv => RowsGoOneToOne
    BY DEF AssignInv, RowsGoOneToOne
  <1> QED BY AssignInvHolds, <1>1, PTL

\* Greedy matching keeps every pair that is best on both sides, whatever the
\* other rows claim and in whatever order.
THEOREM ClearWinnersWin == AssignSpec => []ClearWinnersAreMatched
  <1>1. AssignInv => ClearWinnersAreMatched
    BY DEF AssignInv, ClearWinnersAhead, ClearWinnersAreMatched
  <1> QED BY AssignInvHolds, <1>1, PTL

-----------------------------------------------------------------------------
(* The points windows. *)

\* Every step of the walk back goes to an earlier seed worth at least as much.
Linked ==
    \A j \in Rows :
        prev[j] # 0 => /\ prev[j] \in seeds
                       /\ prev[j] < j
                       /\ value[prev[j]] >= value[j]

\* The seeds kept so far respect the ranking's order, and the walk is at one
\* that may stand before them all.
InOrder ==
    /\ kept \subseteq seeds
    /\ \A s, t \in kept : s < t => value[s] >= value[t]
    /\ loop = "weigh" => kept = {}
    /\ loop = "keep" /\ at # 0 =>
          /\ at \in seeds
          /\ \A s \in kept : at < s /\ value[at] >= value[s]

\* "v" is the nearest kept value above row i, and its counterpart below.
Ceiling(i, v) ==
    /\ \A s \in kept : s < i => v <= value[s]
    /\ v = MaxPoints \/ \E s \in kept : s < i /\ v = value[s]

Ground(i, v) ==
    /\ \A s \in kept : s > i => v >= value[s]
    /\ v = 0 \/ \E s \in kept : s > i /\ v = value[s]

\* How far the two passes have come: the one down is at row "at", the one up
\* at its mirror image.
Bounds ==
    /\ loop \in {"weigh", "keep"} => above = MaxPoints /\ below = 0
    /\ loop = "bound" =>
          /\ at >= 1
          /\ Ceiling(at, above)
          /\ Ground(NRows + 1 - at, below)
          /\ \A i \in Rows : i < at => Ceiling(i, hi[i])
          /\ \A i \in Rows : i > NRows + 1 - at => Ground(i, lo[i])
    /\ loop = "bounded" =>
          \A i \in Rows : Ceiling(i, hi[i]) /\ Ground(i, lo[i])

Begun ==
    /\ loop = "weigh" => at >= 1
    /\ best # 0 => best \in seeds

PointsInv == PointsTypeOK /\ Begun /\ Linked /\ InOrder /\ Bounds

LEMMA PointsInvInit == PointsInit => PointsInv
  BY RankingAssumption
     DEF PointsInit, PointsInv, PointsTypeOK, Begun, Linked, InOrder, Bounds,
         Loops, Zeroes, Rows

\* What the steps need of the types: rows are numbers, and so are values.
LEMMA Numbers ==
    PointsInv => /\ \A r \in Rows : r \in Int /\ 1 <= r /\ r <= NRows
                 /\ \A r \in Rows : value[r] \in Int /\ 0 <= value[r]
                 /\ seeds \subseteq Rows
                 /\ kept \subseteq Rows
                 /\ at \in Int
                 /\ NRows \in Nat
<1> SUFFICES ASSUME PointsInv
             PROVE  /\ \A r \in Rows : r \in Int /\ 1 <= r /\ r <= NRows
                    /\ \A r \in Rows : value[r] \in Int /\ 0 <= value[r]
                    /\ seeds \subseteq Rows
                    /\ kept \subseteq Rows
                    /\ at \in Int
                    /\ NRows \in Nat
  OBVIOUS
<1>1. NRows \in Nat /\ MaxPoints \in Nat
  BY RankingAssumption
<1>2. /\ seeds \subseteq Rows
      /\ kept \subseteq Rows
      /\ at \in 0..(NRows + 1)
      /\ value \in [Rows -> 0..MaxPoints]
  BY DEF PointsInv, PointsTypeOK
<1>3. \A r \in Rows : value[r] \in 0..MaxPoints
  BY <1>2
<1>4. \A r \in Rows : value[r] \in Int /\ 0 <= value[r]
  BY <1>1, <1>3
<1>5. \A r \in Rows : r \in Int /\ 1 <= r /\ r <= NRows
  BY <1>1 DEF Rows
<1>6. at \in Int
  BY <1>1, <1>2
<1> QED
  BY <1>1, <1>2, <1>4, <1>5, <1>6

\* A round of the dynamic program links a seed to one it may follow.
LEMMA WeighKeepsInv == PointsInv /\ Weigh => PointsInv'
  <1> SUFFICES ASSUME PointsInv, Weigh PROVE PointsInv'
    OBVIOUS
  <1>1. /\ loop = "weigh" /\ at \in Rows /\ at' = at + 1 /\ loop' = "weigh"
        /\ UNCHANGED <<seeds, value, kept, hi, lo, above, below>>
    BY RankingAssumption DEF Weigh, PointsInv, Begun, PointsTypeOK, Rows
  <1>2. /\ len' \in [Rows -> Nat]
        /\ prev' \in [Rows -> 0..NRows]
        /\ best' \in 0..NRows
        /\ best' # 0 => best' \in seeds
        /\ Linked'
    <2>1. CASE at \notin seeds
      <3>1. UNCHANGED <<len, prev, best>>
        BY <2>1 DEF Weigh
      <3> QED BY <1>1, <3>1 DEF PointsInv, PointsTypeOK, Begun, Linked
    <2>2. CASE at \in seeds
      <3>1. best' \in {at, best}
        BY <2>2, Zenon DEF Weigh
      <3>2. best' \in 0..NRows /\ (best' # 0 => best' \in seeds)
        BY <3>1, <2>2, <1>1 DEF PointsInv, PointsTypeOK, Begun, Rows
      <3>3. CASE Before(at) = {}
        <4>1. len' = [len EXCEPT ![at] = 1] /\ prev' = prev
          BY <2>2, <3>3, Zenon DEF Weigh
        <4>2. Linked'
          BY <4>1, <1>1 DEF PointsInv, Linked
        <4> QED BY <3>2, <4>1, <4>2 DEF PointsInv, PointsTypeOK
      <3>4. CASE Before(at) # {}
        <4>1. PICK k \in Before(at) : /\ len' = [len EXCEPT ![at] = len[k] + 1]
                                      /\ prev' = [prev EXCEPT ![at] = k]
          BY <2>2, <3>4, Zenon DEF Weigh
        <4>2. k \in seeds /\ k \in Rows /\ k < at /\ value[k] >= value[at]
          BY Numbers DEF Before
        <4>3. prev' \in [Rows -> 0..NRows] /\ len' \in [Rows -> Nat]
          <5>1. k \in 0..NRows /\ len[k] + 1 \in Nat
            BY <4>2, Numbers DEF PointsInv, PointsTypeOK
          <5> QED BY <4>1, <5>1 DEF PointsInv, PointsTypeOK
        <4>4. \A j \in Rows : prev'[j] = IF j = at THEN k ELSE prev[j]
          BY <4>1 DEF PointsInv, PointsTypeOK
        <4>5. Linked'
          BY <4>2, <4>4, <1>1 DEF PointsInv, Linked
        <4> QED BY <3>2, <4>3, <4>5
      <3> QED BY <3>3, <3>4
    <2> QED BY <2>1, <2>2
  <1>3. PointsTypeOK'
    <2>1. at' \in 0..(NRows + 1)
      BY <1>1, Numbers
    <2> QED BY <2>1, <1>1, <1>2 DEF PointsInv, PointsTypeOK, Loops
  <1>4. Begun'
    BY <1>1, <1>2, Numbers DEF Begun
  <1>5. InOrder' /\ Bounds'
    BY <1>1 DEF PointsInv, InOrder, Bounds
  <1> QED BY <1>2, <1>3, <1>4, <1>5 DEF PointsInv

LEMMA WeighedKeepsInv == PointsInv /\ Weighed => PointsInv'
  <1> SUFFICES ASSUME PointsInv, Weighed PROVE PointsInv'
    OBVIOUS
  <1>1. /\ loop = "weigh" /\ loop' = "keep" /\ at' = best
        /\ UNCHANGED <<seeds, value, len, prev, best, kept, hi, lo>>
        /\ UNCHANGED <<above, below>>
    BY DEF Weighed
  <1>2. at' \in 0..(NRows + 1)
    BY <1>1, Numbers DEF PointsInv, PointsTypeOK
  <1>3. PointsTypeOK' /\ Begun' /\ Linked'
    BY <1>1, <1>2 DEF PointsInv, PointsTypeOK, Begun, Linked, Loops
  <1>4. InOrder' /\ Bounds'
    BY <1>1 DEF PointsInv, Begun, InOrder, Bounds
  <1> QED BY <1>3, <1>4 DEF PointsInv

\* The walk back adds a seed in front of those already kept.
LEMMA KeepKeepsInv == PointsInv /\ Keep => PointsInv'
  <1> SUFFICES ASSUME PointsInv, Keep PROVE PointsInv'
    OBVIOUS
  <1>1. /\ loop = "keep" /\ loop' = "keep"
        /\ at \in seeds /\ at \in Rows /\ at' = prev[at]
        /\ kept' = kept \cup {at}
        /\ UNCHANGED <<seeds, value, len, prev, best, hi, lo, above, below>>
    BY Numbers DEF Keep, PointsInv, InOrder
  <1>2. PointsTypeOK' /\ Begun' /\ Linked'
    <2>1. at' \in 0..(NRows + 1)
      BY <1>1, Numbers DEF PointsInv, PointsTypeOK
    <2> QED BY <2>1, <1>1 DEF PointsInv, PointsTypeOK, Begun, Linked, Loops
  <1>3. \A s \in kept : at < s /\ value[at] >= value[s]
    <2>1. at # 0
      BY <1>1, Numbers
    <2> QED BY <2>1, <1>1 DEF PointsInv, InOrder
  <1>4. kept' \subseteq seeds
    BY <1>1 DEF PointsInv, InOrder
  <1>5. \A s, t \in kept' : s < t => value[s] >= value[t]
    BY <1>1, <1>3, Numbers DEF PointsInv, InOrder
  <1>6. ASSUME at' # 0
        PROVE  at' \in seeds /\ \A s \in kept' : at' < s /\ value[at'] >= value[s]
    <2>1. at' \in seeds /\ at' \in Rows /\ at' < at /\ value[at'] >= value[at]
      BY <1>1, <1>6, Numbers DEF PointsInv, Linked
    <2> QED BY <1>1, <1>3, <2>1, Numbers
  <1>7. InOrder'
    BY <1>1, <1>4, <1>5, <1>6 DEF InOrder
  <1>8. Bounds'
    BY <1>1 DEF PointsInv, Bounds
  <1> QED BY <1>2, <1>7, <1>8 DEF PointsInv

\* Before the passes start nothing has been carried, and nothing is above the
\* first row or below the last.
LEMMA KeptKeepsInv == PointsInv /\ Kept => PointsInv'
  <1> SUFFICES ASSUME PointsInv, Kept PROVE PointsInv'
    OBVIOUS
  <1>1. /\ loop = "keep" /\ loop' = "bound" /\ at' = 1
        /\ UNCHANGED <<seeds, value, len, prev, best, kept, hi, lo, above, below>>
    BY DEF Kept
  <1>2. PointsTypeOK' /\ Begun' /\ Linked' /\ InOrder'
    BY <1>1, Numbers DEF PointsInv, PointsTypeOK, Begun, Linked, InOrder, Loops
  <1>3. above = MaxPoints /\ below = 0
    BY <1>1 DEF PointsInv, Bounds
  <1>4. Ceiling(1, MaxPoints)' /\ Ground(NRows, 0)'
    BY <1>1, Numbers DEF Ceiling, Ground
  <1>5. Bounds'
    BY <1>1, <1>3, <1>4, Numbers DEF Bounds
  <1> QED BY <1>2, <1>5 DEF PointsInv

\* A round of the passes hands the carried values to two rows, and picks up
\* theirs if they are kept.
LEMMA BoundKeepsInv == PointsInv /\ Bound => PointsInv'
  <1> SUFFICES ASSUME PointsInv, Bound PROVE PointsInv'
    OBVIOUS
  <1> DEFINE up == NRows + 1 - at
  <1>1. /\ loop = "bound" /\ loop' = "bound" /\ at' = at + 1
        /\ at \in Rows /\ up \in Rows
        /\ hi' = [hi EXCEPT ![at] = above]
        /\ above' = IF at \in kept THEN value[at] ELSE above
        /\ lo' = [lo EXCEPT ![up] = below]
        /\ below' = IF up \in kept THEN value[up] ELSE below
        /\ UNCHANGED <<seeds, value, len, prev, best, kept>>
    BY RankingAssumption
       DEF Bound, PointsInv, PointsTypeOK, Bounds, Bounding, Rows
  <1>2. PointsTypeOK'
    <2>1. at' \in 0..(NRows + 1)
      BY <1>1, Numbers
    <2>2. /\ above' \in 0..MaxPoints /\ below' \in 0..MaxPoints
          /\ above \in 0..MaxPoints /\ below \in 0..MaxPoints
      BY <1>1 DEF PointsInv, PointsTypeOK
    <2>3. hi' \in [Rows -> 0..MaxPoints] /\ lo' \in [Rows -> 0..MaxPoints]
      BY <1>1, <2>2 DEF PointsInv, PointsTypeOK
    <2> QED BY <2>1, <2>2, <2>3, <1>1 DEF PointsInv, PointsTypeOK, Loops
  <1>3. Begun' /\ Linked' /\ InOrder'
    BY <1>1 DEF PointsInv, Begun, Linked, InOrder
  <1>4. /\ Ceiling(at, above) /\ Ground(up, below)
        /\ \A i \in Rows : i < at => Ceiling(i, hi[i])
        /\ \A i \in Rows : i > up => Ground(i, lo[i])
    BY <1>1 DEF PointsInv, Bounds
  <1>5. /\ \A s, t \in kept : s < t => value[s] >= value[t]
        /\ \A i \in Rows : hi'[i] = IF i = at THEN above ELSE hi[i]
        /\ \A i \in Rows : lo'[i] = IF i = up THEN below ELSE lo[i]
    BY <1>1 DEF PointsInv, InOrder, PointsTypeOK
  <1>6. Ceiling(at + 1, above')
    <2>1. CASE at \in kept
      <3>1. \A s \in kept : s < at + 1 => s < at \/ s = at
        BY Numbers
      <3>2. \A s \in kept : s < at + 1 => value[at] <= value[s]
        BY <2>1, <3>1, <1>5, Numbers
      <3>3. at < at + 1
        BY Numbers
      <3> QED BY <2>1, <3>2, <3>3, <1>1 DEF Ceiling
    <2>2. CASE at \notin kept
      <3>1. \A s \in kept : s < at + 1 <=> s < at
        BY <2>2, Numbers
      <3> QED BY <2>2, <3>1, <1>1, <1>4 DEF Ceiling
    <2> QED BY <2>1, <2>2
  <1>7. Ground(up - 1, below')
    <2>1. CASE up \in kept
      <3>1. \A s \in kept : s > up - 1 => s > up \/ s = up
        BY Numbers
      <3>2. \A s \in kept : s > up - 1 => value[up] >= value[s]
        BY <2>1, <3>1, <1>5, Numbers
      <3>3. up > up - 1
        BY Numbers
      <3> QED BY <2>1, <3>2, <3>3, <1>1 DEF Ground
    <2>2. CASE up \notin kept
      <3>1. \A s \in kept : s > up - 1 <=> s > up
        BY <2>2, Numbers
      <3> QED BY <2>2, <3>1, <1>1, <1>4 DEF Ground
    <2> QED BY <2>1, <2>2
  <1>8. \A i \in Rows : i < at + 1 => Ceiling(i, hi'[i])
    <2>1. \A i \in Rows : i < at + 1 => i = at \/ i < at
      BY Numbers
    <2> QED BY <2>1, <1>4, <1>5, Numbers
  <1>9. \A i \in Rows : i > up - 1 => Ground(i, lo'[i])
    <2>1. \A i \in Rows : i > up - 1 => i = up \/ i > up
      BY Numbers
    <2> QED BY <2>1, <1>4, <1>5, Numbers
  <1>10. NRows + 1 - at' = up - 1 /\ at' >= 1
    BY <1>1, Numbers
  <1>11. /\ Ceiling(at, above)' /\ Ground(NRows + 1 - at, below)'
         /\ \A i \in Rows : i < at' => Ceiling(i, hi[i])'
         /\ \A i \in Rows : i > NRows + 1 - at' => Ground(i, lo[i])'
    BY <1>1, <1>6, <1>7, <1>8, <1>9, <1>10 DEF Ceiling, Ground
  <1>12. Bounds'
    BY <1>1, <1>10, <1>11 DEF Bounds
  <1> QED BY <1>2, <1>3, <1>12 DEF PointsInv

LEMMA BoundedKeepsInv == PointsInv /\ Bounded => PointsInv'
  <1> SUFFICES ASSUME PointsInv, Bounded PROVE PointsInv'
    OBVIOUS
  <1>1. /\ loop = "bound" /\ loop' = "bounded" /\ at > NRows
        /\ UNCHANGED <<seeds, value, at, len, prev, best, kept, hi, lo>>
        /\ UNCHANGED <<above, below>>
    BY DEF Bounded
  <1>2. PointsTypeOK' /\ Begun' /\ Linked' /\ InOrder'
    BY <1>1 DEF PointsInv, PointsTypeOK, Begun, Linked, InOrder, Loops
  <1>3. \A i \in Rows : i < at /\ i > NRows + 1 - at
    BY <1>1, Numbers
  <1>4. \A i \in Rows : Ceiling(i, hi[i]) /\ Ground(i, lo[i])
    BY <1>1, <1>3 DEF PointsInv, Bounds
  <1>5. Bounds'
    BY <1>1, <1>4 DEF Bounds, Ceiling, Ground
  <1> QED BY <1>2, <1>5 DEF PointsInv

LEMMA PointsStutterKeepsInv == PointsInv /\ UNCHANGED pointsVars => PointsInv'
  BY DEF pointsVars, PointsInv, PointsTypeOK, Begun, Linked, InOrder, Bounds,
         Ceiling, Ground

LEMMA PointsStepKeepsInv == PointsInv /\ PointsStep => PointsInv'
  BY WeighKeepsInv, WeighedKeepsInv, KeepKeepsInv, KeptKeepsInv,
     BoundKeepsInv, BoundedKeepsInv DEF PointsStep

LEMMA PointsInvHolds == PointsSpec => []PointsInv
  BY PointsInvInit, PointsStepKeepsInv, PointsStutterKeepsInv, PTL
     DEF PointsSpec

\* What the passes promise at their end is what makes a window sound.
LEMMA InvMeansSound == PointsInv => WindowsAreSound
  <1> SUFFICES ASSUME PointsInv, loop = "bounded", NEW r \in Rows
               PROVE  /\ lo[r] <= hi[r]
                      /\ \A s \in kept : /\ s < r => hi[r] <= value[s]
                                         /\ s > r => lo[r] >= value[s]
                      /\ hi[r] = MaxPoints
                            \/ \E s \in kept : s < r /\ hi[r] = value[s]
                      /\ lo[r] = 0 \/ \E s \in kept : s > r /\ lo[r] = value[s]
    BY DEF WindowsAreSound
  <1>1. Ceiling(r, hi[r]) /\ Ground(r, lo[r])
    BY DEF PointsInv, Bounds
  <1>2. \A s, t \in kept : s < t => value[s] >= value[t]
    BY DEF PointsInv, InOrder
  <1>3. \A s \in kept : s \in Nat /\ value[s] \in 0..MaxPoints
    BY DEF PointsInv, PointsTypeOK, InOrder, Rows
  <1>4. lo[r] \in 0..MaxPoints /\ hi[r] \in 0..MaxPoints /\ r \in Nat
    BY DEF PointsInv, PointsTypeOK, Rows
  <1>5. lo[r] <= hi[r]
    BY <1>1, <1>2, <1>3, <1>4, RankingAssumption DEF Ceiling, Ground
  <1> QED BY <1>1, <1>5 DEF Ceiling, Ground

\* A value that is inside its window is in the ranking's order against every
\* kept seed, however many rows and seeds there are and wherever the bad ones
\* stand; and no window is empty.
THEOREM SoundWindows == PointsSpec => []WindowsAreSound
  BY PointsInvHolds, InvMeansSound, PTL

-----------------------------------------------------------------------------
(* The kept run is the longest one. *)

\* The seeds the dynamic program has been to.
Done(j) == j \in seeds /\ (loop = "weigh" => j < at)

\* Each of them is linked to a seed whose run is as long as any it could
\* extend, and the best run ends at one of them.
Longest ==
    /\ \A j \in seeds :
          Done(j) => /\ best # 0 /\ len[j] <= len[best]
                     /\ \A i \in Before(j) :
                           prev[j] # 0 /\ len[i] <= len[prev[j]]
                     /\ prev[j] # 0 => len[prev[j]] < len[j]
    /\ best # 0 => Done(best)
    /\ loop = "weigh" => \A j \in Rows : j >= at => prev[j] = 0

\* The seed the walk back is at; 0 before the first of the run.
Walked == IF loop = "keep" THEN at ELSE 0

\* The walk back leaves no seed of the run out.
Chained ==
    loop # "weigh" =>
        /\ best \in kept \cup {Walked}
        /\ \A j \in kept : prev[j] \in kept \cup {Walked}

LEMMA LongestInit == PointsInit => Longest /\ Chained
  BY RankingAssumption
     DEF PointsInit, Longest, Chained, Done, Zeroes, Rows

\* A round of the dynamic program leaves the seeds behind it as they are, and
\* does the same for the one it is at.
LEMMA WeighKeepsLongest == PointsInv /\ Longest /\ Weigh => Longest'
  <1> SUFFICES ASSUME PointsInv, Longest, Weigh PROVE Longest'
    OBVIOUS
  <1>1. /\ loop = "weigh" /\ at \in Rows /\ at' = at + 1 /\ loop' = "weigh"
        /\ UNCHANGED <<seeds, value>>
    BY RankingAssumption DEF Weigh, PointsInv, Begun, PointsTypeOK, Rows
  <1>2. /\ \A r \in Rows : r \in Int /\ 1 <= r /\ r <= NRows
        /\ seeds \subseteq Rows
        /\ \A r \in Rows : len[r] \in Nat
        /\ \A r \in Rows : prev[r] # 0 => prev[r] \in Rows /\ prev[r] < r
    BY Numbers DEF PointsInv, PointsTypeOK, Linked
  <1>3. \A j \in seeds : Before(j)' = Before(j) /\ \A i \in Before(j) : i \in seeds /\ i < j
    BY <1>1 DEF Before
  <1>4. /\ \A j \in seeds : j < at =>
              /\ best # 0 /\ len[j] <= len[best]
              /\ \A i \in Before(j) : prev[j] # 0 /\ len[i] <= len[prev[j]]
              /\ prev[j] # 0 => len[prev[j]] < len[j]
        /\ best # 0 => best \in seeds /\ best < at
        /\ \A j \in Rows : j >= at => prev[j] = 0
    BY <1>1 DEF Longest, Done
  <1>5. CASE at \notin seeds
    <2>1. UNCHANGED <<len, prev, best>>
      BY <1>5 DEF Weigh
    <2>2. \A j \in seeds : j < at + 1 => j < at
      BY <1>2, <1>5, <1>1
    <2>3. \A j \in Rows : j >= at + 1 => j >= at
      BY <1>1, <1>2
    <2>4. best # 0 => best < at + 1
      BY <1>1, <1>2, <1>4
    <2> QED BY <1>1, <1>3, <1>4, <2>1, <2>2, <2>3, <2>4 DEF Longest, Done
  <1>6. CASE at \in seeds
    <2>1. /\ \A j \in Rows \ {at} : len'[j] = len[j] /\ prev'[j] = prev[j]
          /\ len'[at] \in Nat
          /\ \A i \in Before(at) : prev'[at] # 0 /\ len[i] <= len[prev'[at]]
          /\ prev'[at] # 0 =>
                prev'[at] \in seeds /\ prev'[at] < at /\ len[prev'[at]] < len'[at]
      <3>1. CASE Before(at) = {}
        <4>1. len' = [len EXCEPT ![at] = 1] /\ prev' = prev
          BY <1>6, <3>1, Zenon DEF Weigh
        <4>2. prev[at] = 0
          BY <1>1, <1>2, <1>4
        <4> QED BY <3>1, <4>1, <4>2, <1>1 DEF PointsInv, PointsTypeOK
      <3>2. CASE Before(at) # {}
        <4>1. PICK k \in Before(at) : /\ Extends(at, k)
                                      /\ len' = [len EXCEPT ![at] = len[k] + 1]
                                      /\ prev' = [prev EXCEPT ![at] = k]
          BY <1>6, <3>2, Zenon DEF Weigh
        <4>2. k \in seeds /\ k \in Rows /\ k < at /\ k # 0
          BY <1>2, <1>3, <1>6, <4>1
        <4>3. len'[at] = len[k] + 1 /\ prev'[at] = k
          BY <4>1, <1>1 DEF PointsInv, PointsTypeOK
        <4>4. \A i \in Before(at) : len[i] <= len[k]
          BY <4>1, <4>2, <1>2, <1>3, <1>6 DEF Extends
        <4>5. \A j \in Rows \ {at} : len'[j] = len[j] /\ prev'[j] = prev[j]
          BY <4>1, <1>1 DEF PointsInv, PointsTypeOK
        <4> QED BY <1>2, <4>2, <4>3, <4>4, <4>5
      <3> QED BY <3>1, <3>2
    <2>2. best' = IF best = 0 \/ len'[at] > len'[best] THEN at ELSE best
      BY <1>6 DEF Weigh
    <2>3. /\ best' # 0 /\ best' \in seeds /\ best' < at + 1
          /\ len'[at] <= len'[best']
          /\ best # 0 => len[best] <= len'[best']
      <3>1. best # 0 => best \in Rows /\ best # at /\ len'[best] = len[best]
        BY <1>1, <1>2, <1>4, <2>1
      <3> QED BY <1>1, <1>2, <1>4, <1>6, <2>1, <2>2, <3>1
    <2>4. ASSUME NEW j \in seeds, j < at + 1
          PROVE  /\ len'[j] <= len'[best']
                 /\ \A i \in Before(j) : prev'[j] # 0 /\ len'[i] <= len'[prev'[j]]
                 /\ prev'[j] # 0 => len'[prev'[j]] < len'[j]
      <3>1. \A i \in seeds : i < j => i \in Rows \ {at} /\ len'[i] = len[i]
        BY <1>1, <1>2, <2>1, <2>4
      <3>2. CASE j = at
        <4>1. \A i \in Before(at) : len'[i] = len[i]
          BY <1>3, <3>1, <3>2
        <4>2. prev'[at] # 0 => len'[prev'[at]] = len[prev'[at]]
          BY <2>1, <3>1, <3>2
        <4> QED BY <2>1, <2>3, <3>2, <4>1, <4>2
      <3>3. CASE j # at
        <4>1. j < at /\ j \in Rows \ {at}
          BY <1>1, <1>2, <2>4, <3>3
        <4>2. len'[j] = len[j] /\ prev'[j] = prev[j]
          BY <2>1, <4>1
        <4>3. \A i \in Before(j) : len'[i] = len[i]
          BY <1>3, <3>1
        <4>4. prev[j] # 0 => len'[prev[j]] = len[prev[j]]
          BY <3>1, <4>1 DEF PointsInv, Linked
        <4>5. len[j] <= len'[best']
          <5>1. len[j] \in Nat /\ len[best] \in Nat /\ len[j] <= len[best]
            BY <1>2, <1>4, <4>1
          <5>2. len'[best'] \in Nat
            BY <1>2, <2>1, <2>3
          <5> QED BY <1>4, <2>3, <4>1, <5>1, <5>2
        <4> QED BY <1>4, <4>1, <4>2, <4>3, <4>4, <4>5
      <3> QED BY <3>2, <3>3
    <2>5. \A j \in Rows : j >= at + 1 => prev'[j] = 0
      <3>1. \A j \in Rows : j >= at + 1 => j >= at /\ j # at
        BY <1>1, <1>2
      <3> QED BY <1>4, <2>1, <3>1
    <2> QED BY <1>1, <1>3, <2>3, <2>4, <2>5 DEF Longest, Done
  <1> QED BY <1>5, <1>6

\* The other loops change neither run lengths nor links.
LEMMA LongestStays ==
    PointsInv /\ Longest /\ PointsStep => Weigh \/ Longest'
  <1> SUFFICES ASSUME PointsInv, Longest, PointsStep, ~Weigh PROVE Longest'
    OBVIOUS
  <1>1. /\ UNCHANGED <<seeds, value, len, prev, best>>
        /\ loop' # "weigh"
        /\ loop = "weigh" => at > NRows
    BY DEF PointsStep, Weighed, Keep, Kept, Bound, Bounded
  <1>2. \A j \in seeds : loop = "weigh" => j < at
    BY <1>1, Numbers
  <1>3. \A j \in seeds : Done(j)
    BY <1>2 DEF Done
  <1> QED BY <1>1, <1>3 DEF Longest, Done, Before, PointsInv, Begun

LEMMA ChainedStays ==
    PointsInv /\ Chained /\ PointsStep => Chained'
  <1> SUFFICES ASSUME PointsInv, Chained, PointsStep PROVE Chained'
    OBVIOUS
  <1>1. CASE Weigh
    BY <1>1 DEF Weigh, Chained
  <1>2. CASE Weighed
    BY <1>2 DEF Weighed, Chained, Walked, PointsInv, InOrder
  <1>3. CASE Keep
    BY <1>3 DEF Keep, Chained, Walked
  <1>4. CASE Kept
    BY <1>4 DEF Kept, Chained, Walked
  <1>5. CASE Bound \/ Bounded
    BY <1>5 DEF Bound, Bounded, Chained, Walked
  <1> QED BY <1>1, <1>2, <1>3, <1>4, <1>5 DEF PointsStep

\* A set of rows has a first one.
LEMMA FirstRow ==
    ASSUME NEW T, T \subseteq Rows, T # {}
    PROVE  \E j \in T : \A i \in T : j <= i
  <1>1. T \subseteq Nat
    BY RankingAssumption DEF Rows
  <1>2. PICK j \in T : \A i \in T : <<i, j>> \notin OpToRel(<, Nat)
    BY <1>1, NatLessThanWellFounded, WFMin
  <1>3. \A i \in T : ~(i < j)
    BY <1>1, <1>2 DEF OpToRel
  <1> QED BY <1>1, <1>3

\* Were a dropped seed inside its window, the kept run would have passed it
\* by although it could have stood between two of its seeds, or at its end.
LEMMA DroppedIsOutside ==
    PointsInv /\ Longest /\ Chained => DroppedSeedsAreQueued
  <1> SUFFICES ASSUME PointsInv, Longest, Chained, loop = "bounded",
                      NEW s \in seeds \ kept, WithinBounds(value[s], s)
               PROVE  FALSE
    BY DEF DroppedSeedsAreQueued
  <1>1. /\ s \in Rows /\ s # 0
        /\ \A r \in Rows : r \in Int /\ value[r] \in Int /\ len[r] \in Nat
        /\ \A r \in Rows : hi[r] \in Int /\ lo[r] \in Int
        /\ kept \subseteq Rows
        /\ 0 \notin Rows
    BY Numbers, RankingAssumption DEF PointsInv, PointsTypeOK
  <1>2. \A j \in seeds :
           /\ best # 0 /\ len[j] <= len[best]
           /\ \A i \in Before(j) : prev[j] # 0 /\ len[i] <= len[prev[j]]
           /\ prev[j] # 0 => len[prev[j]] < len[j]
    BY DEF Longest, Done
  <1>3. best \in kept /\ \A j \in kept : prev[j] \in kept \cup {0}
    BY <1>2 DEF Chained, Walked
  <1>4. kept \subseteq seeds
    BY DEF PointsInv, InOrder
  <1>5. \A k \in kept : k < s => value[s] <= value[k] /\ k \in Before(s)
    <2>1. Ceiling(s, hi[s]) /\ value[s] <= hi[s]
      BY <1>1 DEF PointsInv, Bounds, WithinBounds
    <2>2. \A k \in kept : k < s => value[s] <= value[k]
      BY <1>1, <2>1 DEF Ceiling
    <2> QED BY <1>1, <1>4, <2>2 DEF Before
  <1>6. \A k \in kept : k > s => value[s] >= value[k] /\ s \in Before(k)
    <2>1. Ground(s, lo[s]) /\ lo[s] <= value[s]
      BY <1>1 DEF PointsInv, Bounds, WithinBounds
    <2>2. \A k \in kept : k > s => value[s] >= value[k]
      BY <1>1, <2>1 DEF Ground
    <2> QED BY <1>1, <1>4, <2>2 DEF Before
  <1>7. \A k \in Before(s) : len[k] < len[s]
    <2>1. \A k \in Before(s) : k \in Rows /\ prev[s] # 0 /\ len[k] <= len[prev[s]]
      BY <1>2, Numbers DEF Before
    <2>2. prev[s] # 0 => prev[s] \in Rows /\ len[prev[s]] < len[s]
      BY <1>1, <1>2, Numbers DEF PointsInv, Linked
    <2> QED BY <1>1, <2>1, <2>2
  <1>8. CASE s > best
    <2>1. best \in Before(s) /\ best \in Rows
      BY <1>1, <1>3, <1>5, <1>8
    <2> QED BY <1>1, <1>2, <1>7, <2>1
  <1>9. CASE ~(s > best)
    <2> DEFINE T == {j \in kept : j > s}
    <2>1. best \in T
      BY <1>1, <1>3, <1>9
    <2>2. PICK j \in T : \A i \in T : j <= i
      <3> HIDE DEF T
      <3>1. T \subseteq Rows
        BY <1>1 DEF T
      <3> QED BY <2>1, <3>1, FirstRow
    <2>3. s \in Before(j) /\ j \in seeds /\ j \in Rows
      BY <1>1, <1>4, <1>6, <2>2
    <2>4. prev[j] # 0 /\ len[s] <= len[prev[j]]
      BY <1>2, <2>3
    <2>5. prev[j] \in kept /\ prev[j] < j
      BY <1>3, <2>2, <2>3, <2>4 DEF PointsInv, Linked
    <2>6. prev[j] < s
      <3>1. prev[j] \in Int /\ j \in Int /\ s \in Int
        BY <1>1, <2>3, <2>5
      <3>2. prev[j] \notin T
        BY <2>2, <2>5, <3>1
      <3>3. prev[j] # s
        BY <2>5
      <3> QED BY <2>5, <3>1, <3>2, <3>3
    <2>7. prev[j] \in Before(s)
      BY <1>5, <2>5, <2>6
    <2> QED BY <1>1, <1>7, <2>4, <2>5, <2>7
  <1> QED BY <1>8, <1>9

LEMMA LongestStutters ==
    Longest /\ Chained /\ UNCHANGED pointsVars => Longest' /\ Chained'
  BY DEF pointsVars, Longest, Chained, Done, Before, Walked

LEMMA LongestHolds == PointsSpec => [](Longest /\ Chained)
  <1>1. PointsInv /\ Longest /\ Chained /\ [PointsStep]_pointsVars
           => Longest' /\ Chained'
    BY LongestStutters, WeighKeepsLongest, LongestStays, ChainedStays
  <1> QED BY LongestInit, PointsInvHolds, <1>1, PTL DEF PointsSpec

\* "One bad seed anywhere in the run only costs itself", and it does cost
\* itself: for every mix of seeds and values, a seed the longest run leaves
\* out lies outside the window it gets, so its row is never written with it.
THEOREM DroppedSeedsStayOut == PointsSpec => []DroppedSeedsAreQueued
  BY PointsInvHolds, LongestHolds, DroppedIsOutside, PTL

-----------------------------------------------------------------------------
(* Ingest. *)


Running == {"assign", "points", "write", "zero"}

VSTyped ==
    /\ capture \in Captures
    /\ members \subseteq Members
    /\ loaded \subseteq Members
    /\ listed \subseteq Members
    /\ scores \in [Rows -> [Members -> Nat]]
    /\ out \in [Rows -> [member : Members \cup {Nobody}, phase : Phases]]
    /\ facts = [m \in Members |-> facts[m]]
    /\ aliases = [m \in Members |-> aliases[m]]
    /\ unread \in Nat
    /\ pc \in Running \cup {"idle", "load"}
    /\ row \in Nat
    /\ pc = "write" => 1 <= row

\* A run matches by the texts and aliases it loaded, and aliases only grow.
Matching ==
    pc \in Running =>
        /\ seen = DOMAIN RowOf
        /\ \A m \in Members : known[m] \subseteq aliases[m]
        /\ \A r \in DOMAIN RowOf, m \in listed :
              scores[r][m] = ScoreWith(known, r, m)

\* A row is claimed on its score, or is a second sighting of a claimed member,
\* or is still unassigned.
Claims ==
    pc \in Running =>
        /\ \A r \in Rows : out[r].member # Nobody =>
              /\ out[r].member \in listed
              /\ scores[r][out[r].member] >= ResidualFloor
        /\ \A r \in Rows : out[r].member = Nobody =>
              \/ out[r] = Unassigned
              \/ \E q \in Rows :
                    /\ out[q].member # Nobody
                    /\ scores[r][out[q].member] >= ResidualFloor

\* A run that counts nothing unidentified has assigned every row behind it.
Accounted ==
    pc \in {"write", "zero"} /\ unread = 0 =>
        \A r \in DOMAIN RowOf : pc = "zero" \/ r < row => out[r] # Unassigned

VSInv == VSTyped /\ Matching /\ Claims /\ Accounted /\ ZeroMeansAbsent

-----------------------------------------------------------------------------

\* The capture a run reads is one of those assumed.
LEMMA TheCapture ==
    ASSUME capture \in Captures
    PROVE  /\ DOMAIN RowOf \subseteq Rows
           /\ \E n \in Nat : DOMAIN RowOf = 1..n
           /\ \A r \in DOMAIN RowOf : /\ RowOf[r].owner \in Members
                                      /\ RowOf[r].like \in [Members -> 0..100]
           /\ capture.complete /\ DOMAIN RowOf # {} =>
                 \A m \in capture.list :
                    \E r \in DOMAIN RowOf : RowOf[r].owner = m
           /\ capture.members \subseteq Members
<1>1. PICK n \in 0..NRows : DOMAIN capture.rows = 1..n
  BY CaptureAssumption
<1>2. n \in Nat /\ 1..n \subseteq 1..NRows
  BY RankingAssumption
<1>3. DOMAIN RowOf \subseteq Rows /\ \E k \in Nat : DOMAIN RowOf = 1..k
  BY <1>1, <1>2 DEF RowOf, Rows
<1> QED
  BY <1>3, CaptureAssumption DEF RowOf

\* A text never scores less for an alias more.
LEMMA ScoreGrows ==
    ASSUME capture \in Captures,
           NEW al, NEW bl, NEW r \in DOMAIN RowOf, NEW m \in Members,
           al[m] \subseteq bl[m]
    PROVE  /\ ScoreWith(al, r, m) \in Nat
           /\ ScoreWith(bl, r, m) \in Nat
           /\ ScoreWith(al, r, m) <= ScoreWith(bl, r, m)
<1>1. RowOf[r].like[m] \in 0..100
  BY TheCapture
<1>2. RowOf[r].text \in al[m] \ Blanks => RowOf[r].text \in bl[m] \ Blanks
  OBVIOUS
<1> QED
  BY <1>1, <1>2 DEF ScoreWith

\* Zeroes stay justified while aliases grow and no new zero is written.
LEMMA ZeroesStand ==
    /\ VSTyped /\ ZeroMeansAbsent
    /\ capture' = capture
    /\ \A m \in Members : aliases[m] \subseteq aliases'[m]
    /\ \A m \in Members :
          facts'[m] # NoFact /\ facts'[m].row = Nobody => facts[m] = facts'[m]
    => ZeroMeansAbsent'
<1> SUFFICES ASSUME VSTyped, ZeroMeansAbsent, capture' = capture,
                    \A m \in Members : aliases[m] \subseteq aliases'[m],
                    NEW m \in Members,
                    facts[m] = facts'[m],
                    facts'[m] # NoFact, facts'[m].row = Nobody, Unmistakable(m)'
             PROVE  m \notin capture.list
  BY DEF ZeroMeansAbsent
<1>1. capture \in Captures
  BY DEF VSTyped
<1>2. ASSUME NEW r \in OwnRows(m), NEW n \in Members \ {m}
      PROVE  ScoreWith(aliases, r, n) < ResidualFloor
  <2>1. r \in DOMAIN RowOf /\ n \in Members
    BY DEF OwnRows
  <2>2. ScoreWith(aliases', r, n) < ResidualFloor
    <3>1. r \in OwnRows(m)'
      BY DEF OwnRows, RowOf
    <3>2. ScoreWith(aliases, r, n)' < ResidualFloor
      BY <3>1 DEF Unmistakable
    <3> QED
      BY <3>2 DEF ScoreWith, RowOf
  <2>3. /\ ScoreWith(aliases, r, n) \in Nat
        /\ ScoreWith(aliases', r, n) \in Nat
        /\ ScoreWith(aliases, r, n) <= ScoreWith(aliases', r, n)
    BY <1>1, <2>1, ScoreGrows
  <2> QED
    BY <2>2, <2>3, AssignAssumption
<1>3. Unmistakable(m)
  BY <1>2 DEF Unmistakable
<1> QED
  BY <1>3 DEF ZeroMeansAbsent

\* Nobody is on the board before the first run.
LEMMA InitInv == Init => VSInv
<1> SUFFICES ASSUME Init
             PROVE  VSInv
  OBVIOUS
<1>1. capture \in Captures /\ members \subseteq Members
  BY TheCapture DEF Init
<1>2. /\ scores \in [Rows -> [Members -> Nat]]
      /\ out \in [Rows -> [member : Members \cup {Nobody}, phase : Phases]]
  BY DEF Init, Unassigned, Phases
<1>3. /\ facts = [m \in Members |-> facts[m]]
      /\ aliases = [m \in Members |-> aliases[m]]
  BY DEF Init
<1>4. VSTyped
  BY <1>1, <1>2, <1>3 DEF VSTyped, Init, Running
<1>5. ZeroMeansAbsent
  BY DEF Init, ZeroMeansAbsent
<1> QED
  BY <1>4, <1>5 DEF VSInv, Matching, Claims, Accounted, Init, Running

-----------------------------------------------------------------------------
(* Between runs *)

\* A run begins, or dies: nothing of it is believed.
LEMMA OutsideKeepsInv ==
    VSInv /\ (Begin \/ Finish \/ Crash) => VSInv'
<1> SUFFICES ASSUME VSInv, Begin \/ Finish \/ Crash
             PROVE  VSInv'
  OBVIOUS
<1>1. /\ pc' \in {"idle", "load"}
      /\ loaded' \in {loaded, members}
      /\ UNCHANGED <<capture, row, unread, assignVars, storeVars>>
  BY DEF Begin, Finish, Crash
<1>2. VSTyped'
  BY <1>1 DEF VSInv, VSTyped, Running, assignVars, storeVars
<1>3. ZeroMeansAbsent'
  BY <1>1, ZeroesStand DEF VSInv, storeVars
<1>4. pc' \notin Running
  BY <1>1 DEF Running
<1>5. Matching' /\ Claims' /\ Accounted'
  BY <1>4 DEF Matching, Claims, Accounted, Running
<1> QED
  BY <1>2, <1>3, <1>5 DEF VSInv

\* The reviewer's aliases and the roster's members leave a run as it is.
LEMMA OthersKeepInv ==
    VSInv /\ (Resolve \/ Reject \/ RosterAdds) => VSInv'
<1> SUFFICES ASSUME VSInv, Resolve \/ Reject \/ RosterAdds
             PROVE  VSInv'
  OBVIOUS
<1>1. UNCHANGED <<capture, pc, row, loaded, known, unread, facts, assignVars>>
  BY DEF Resolve, Reject, RosterAdds, ResolveReview, RejectReview,
         CreateMember, vsVars
<1>2. members' \subseteq Members
  BY DEF Resolve, Reject, RosterAdds, ResolveReview, RejectReview,
         CreateMember, VSInv, VSTyped
<1>3. /\ aliases' = [m \in Members |-> aliases'[m]]
      /\ \A m \in Members : aliases[m] \subseteq aliases'[m]
  <2>1. CASE Resolve
    <3>1. PICK m \in members :
             \E text : aliases' = [aliases EXCEPT ![m] = @ \cup {text}]
      BY <2>1 DEF Resolve, ResolveReview
    <3> QED
      BY <3>1 DEF VSInv, VSTyped
  <2>2. CASE Reject \/ RosterAdds
    BY <2>2 DEF Reject, RosterAdds, RejectReview, CreateMember, VSInv, VSTyped
  <2> QED
    BY <2>1, <2>2
<1>4. VSTyped'
  BY <1>1, <1>2, <1>3 DEF VSInv, VSTyped, Running, assignVars
<1>5. ZeroMeansAbsent'
  BY <1>1, <1>3, ZeroesStand DEF VSInv
<1>6. Matching'
  BY <1>1, <1>3 DEF VSInv, Matching, assignVars, RowOf, ScoreWith
<1>7. Claims' /\ Accounted'
  BY <1>1 DEF VSInv, Claims, Accounted, assignVars, RowOf
<1> QED
  BY <1>4, <1>5, <1>6, <1>7 DEF VSInv

-----------------------------------------------------------------------------
(* A run *)

LEMMA ReadRowsKeepsInv == VSInv /\ ReadRows => VSInv'
<1> SUFFICES ASSUME VSInv, ReadRows
             PROVE  VSInv'
  OBVIOUS
<1> USE DEF ReadRows, AssignCall
<1>1. /\ \A r \in DOMAIN RowOf, m \in Members : ScoreWith(aliases, r, m) \in Nat
      /\ DOMAIN RowOf \subseteq Rows
  BY TheCapture, ScoreGrows DEF VSInv, VSTyped
<1>2. scores' \in [Rows -> [Members -> Nat]]
  BY <1>1
<1>3. out' \in [Rows -> [member : Members \cup {Nobody}, phase : Phases]]
  BY DEF Unassigned, Phases
<1>4. VSTyped'
  BY <1>2, <1>3 DEF VSInv, VSTyped, Running, storeVars
<1>5. \A r \in DOMAIN RowOf, m \in listed' :
         scores'[r][m] = ScoreWith(aliases, r, m)
  BY <1>1 DEF VSInv, VSTyped
<1>6. Matching'
  BY <1>5 DEF Matching, RowOf, ScoreWith, storeVars
<1>7. Claims'
  BY DEF Claims, Unassigned
<1>8. Accounted'
  BY DEF Accounted
<1>9. ZeroMeansAbsent'
  BY ZeroesStand DEF VSInv, storeVars
<1> QED
  BY <1>4, <1>6, <1>7, <1>8, <1>9 DEF VSInv

\* Assign claims for a listed member on a score at or above the floor, and
\* sets aside who reads like a member claimed.
LEMMA AssignRowsKeepsInv == VSInv /\ AssignRows => VSInv'
<1> SUFFICES ASSUME VSInv, AssignRows
             PROVE  VSInv'
  OBVIOUS
<1>1. /\ UNCHANGED <<scores, seen, listed, storeVars, vsVars>>
      /\ pc = "assign"
  BY DEF AssignRows, AssignStep, Claim, EndConfident, EndResidual
<1>2. /\ \A r \in Rows : out[r].member # Nobody =>
            out[r].member \in listed /\ scores[r][out[r].member] >= ResidualFloor
      /\ \A r \in Rows : out[r].member = Nobody =>
            \/ out[r] = Unassigned
            \/ \E q \in Rows : /\ out[q].member # Nobody
                               /\ scores[r][out[q].member] >= ResidualFloor
  BY <1>1 DEF VSInv, Claims, Running
<1>3. out \in [Rows -> [member : Members \cup {Nobody}, phase : Phases]]
  BY DEF VSInv, VSTyped
<1>4. /\ out' \in [Rows -> [member : Members \cup {Nobody}, phase : Phases]]
      /\ \A r \in Rows : out'[r].member # Nobody =>
            out'[r].member \in listed /\ scores[r][out'[r].member] >= ResidualFloor
      /\ \A r \in Rows : out'[r].member = Nobody =>
            \/ out'[r] = Unassigned
            \/ \E q \in Rows : /\ out'[q].member # Nobody
                               /\ scores[r][out'[q].member] >= ResidualFloor
  <2>1. CASE Claim
    <3>1. PICK r \in Open, m \in Free : MayClaim(r, m) /\ ClaimOf(r, m)
      BY <2>1 DEF Claim
    <3>2. r \in DOMAIN RowOf /\ DOMAIN RowOf \subseteq Rows
      BY <1>1, <3>1, TheCapture DEF Open, VSInv, VSTyped, Matching, Running
    <3>3. /\ r \in Rows /\ out[r] = Unassigned
          /\ m \in listed /\ m \in Members /\ m # Nobody
      BY <3>1, <3>2, RankingAssumption DEF Open, Free, VSInv, VSTyped
    <3>4. scores[r][m] >= ResidualFloor
      <4>1. scores[r][m] >= Floor
        BY <3>1 DEF MayClaim
      <4>2. Floor \in {AutoAccept, ResidualFloor}
        BY DEF Floor
      <4>3. scores[r][m] \in Nat
        BY <3>3 DEF VSInv, VSTyped
      <4> QED
        BY <4>1, <4>2, <4>3, AssignAssumption, VSAssumption
    <3>5. /\ out' = [out EXCEPT ![r] = [member |-> m, phase |-> stage]]
          /\ stage \in Phases
      BY <2>1, <3>1 DEF Claim, ClaimOf, Phases
    <3>6. out' \in [Rows -> [member : Members \cup {Nobody}, phase : Phases]]
      BY <1>3, <3>3, <3>5
    <3>7. /\ out'[r].member = m
          /\ \A q \in Rows \ {r} : out'[q] = out[q]
      BY <1>3, <3>3, <3>5
    <3>8. ASSUME NEW q \in Rows, out[q].member # Nobody
          PROVE  out'[q] = out[q]
      BY <3>3, <3>7, <3>8 DEF Unassigned
    <3> QED
      BY <1>2, <3>3, <3>4, <3>6, <3>7, <3>8
  <2>2. CASE EndConfident
    <3>1. /\ out' = [r \in Rows |-> IF r \in Open /\ SecondSighting(r)
                                     THEN Duplicate ELSE out[r]]
          /\ Duplicate.member = Nobody
      BY <2>2 DEF EndConfident, Duplicate
    <3>2. out' \in [Rows -> [member : Members \cup {Nobody}, phase : Phases]]
      BY <1>3, <3>1 DEF Duplicate, Phases
    <3>3. ASSUME NEW q \in Rows, out[q].member # Nobody
          PROVE  out'[q] = out[q]
      BY <3>1, <3>3 DEF Open, Unassigned
    <3>4. ASSUME NEW r \in Rows, r \in Open, SecondSighting(r)
          PROVE  \E q \in Rows : /\ out[q].member # Nobody
                                 /\ scores[r][out[q].member] >= ResidualFloor
      <4>1. PICK m \in listed \ Free : scores[r][m] >= AutoAccept
        BY <3>4 DEF SecondSighting
      <4>2. PICK q \in Rows : out[q].member = m
        BY <4>1 DEF Free
      <4>3. m \in Members /\ m # Nobody /\ scores[r][m] \in Nat
        BY <3>4, <4>1, RankingAssumption DEF VSInv, VSTyped
      <4> QED
        BY <4>1, <4>2, <4>3, AssignAssumption, VSAssumption
    <3> QED
      BY <1>2, <3>1, <3>2, <3>3, <3>4
  <2>3. CASE EndResidual
    BY <1>2, <1>3, <2>3 DEF EndResidual
  <2> QED
    BY <2>1, <2>2, <2>3 DEF AssignRows, AssignStep
<1>5. VSTyped'
  BY <1>1, <1>4 DEF VSInv, VSTyped, Running, storeVars, vsVars
<1>6. Claims'
  BY <1>1, <1>4 DEF Claims
<1>7. Matching'
  BY <1>1 DEF VSInv, Matching, storeVars, vsVars, RowOf, ScoreWith
<1>8. Accounted'
  BY <1>1 DEF Accounted, vsVars
<1>9. ZeroMeansAbsent'
  BY <1>1, ZeroesStand DEF VSInv, storeVars, vsVars
<1> QED
  BY <1>5, <1>6, <1>7, <1>8, <1>9 DEF VSInv

\* The steps between matching, bounding and writing change no row and no fact.
LEMMA BoundingKeepsInv ==
    VSInv /\ (Seed \/ BoundPoints \/ StartWriting) => VSInv'
<1> SUFFICES ASSUME VSInv, Seed \/ BoundPoints \/ StartWriting
             PROVE  VSInv'
  OBVIOUS
<1>1. /\ UNCHANGED <<capture, loaded, known, unread, assignVars, storeVars>>
      /\ pc \in {"assign", "points"}
      /\ \/ pc' = "points" /\ row' = row
         \/ pc' = "write" /\ row' = 1
  BY DEF Seed, BoundPoints, StartWriting, vsVars
<1>2. VSTyped'
  BY <1>1 DEF VSInv, VSTyped, Running, assignVars, storeVars
<1>3. Matching'
  BY <1>1 DEF VSInv, Matching, Running, assignVars, storeVars, RowOf, ScoreWith
<1>4. Claims'
  BY <1>1 DEF VSInv, Claims, Running, assignVars
<1>5. Accounted'
  <2>1. \A r \in DOMAIN RowOf : r \in Nat /\ ~(r < 1)
    BY TheCapture DEF VSInv, VSTyped
  <2> QED
    BY <1>1, <2>1 DEF Accounted, RowOf
<1>6. ZeroMeansAbsent'
  BY <1>1, ZeroesStand DEF VSInv, storeVars
<1> QED
  BY <1>2, <1>3, <1>4, <1>5, <1>6 DEF VSInv

\* When the last row is done, every row is.
LEMMA StartZeroingKeepsInv == VSInv /\ StartZeroing => VSInv'
<1> SUFFICES ASSUME VSInv, StartZeroing
             PROVE  VSInv'
  OBVIOUS
<1>1. /\ UNCHANGED <<capture, loaded, known, unread, assignVars, storeVars>>
      /\ pc = "write" /\ pc' = "zero" /\ row' = 0
      /\ row \notin DOMAIN RowOf
  BY DEF StartZeroing
<1>2. VSTyped'
  BY <1>1 DEF VSInv, VSTyped, Running, assignVars, storeVars
<1>3. Matching'
  BY <1>1 DEF VSInv, Matching, Running, assignVars, storeVars, RowOf, ScoreWith
<1>4. Claims'
  BY <1>1 DEF VSInv, Claims, Running, assignVars
<1>5. Accounted'
  <2>1. PICK n \in Nat : DOMAIN RowOf = 1..n
    BY TheCapture DEF VSInv, VSTyped
  <2>2. row \in Nat /\ 1 <= row
    BY <1>1 DEF VSInv, VSTyped
  <2>3. \A r \in DOMAIN RowOf : r < row
    BY <1>1, <2>1, <2>2
  <2> QED
    BY <1>1, <2>3 DEF VSInv, Accounted, RowOf, assignVars
<1>6. ZeroMeansAbsent'
  BY <1>1, ZeroesStand DEF VSInv, storeVars
<1> QED
  BY <1>2, <1>3, <1>4, <1>5, <1>6 DEF VSInv

\* A row is dropped, queued or written; a row without an assignment is counted.
LEMMA AttributeRowKeepsInv == VSInv /\ AttributeRow => VSInv'
<1> SUFFICES ASSUME VSInv, AttributeRow
             PROVE  VSInv'
  OBVIOUS
<1>1. /\ UNCHANGED <<capture, pc, loaded, known, runs, assignVars>>
      /\ UNCHANGED <<members, aliases>>
      /\ pc = "write" /\ row \in DOMAIN RowOf /\ row' = row + 1
  BY DEF AttributeRow, NextRow, DropDuplicate, QueueName, QueuePoints,
         WriteFact, QueueReview, UpsertFact, storeVars
<1>2. /\ row \in Nat /\ unread \in Nat
      /\ row \in Rows /\ row # Nobody
      /\ DOMAIN RowOf \subseteq Nat
  <2>1. DOMAIN RowOf \subseteq Rows /\ capture \in Captures
    BY TheCapture DEF VSInv, VSTyped
  <2> QED
    BY <1>1, <2>1, RankingAssumption DEF VSInv, VSTyped, Rows, Nobody
<1>3. unread' \in Nat /\ (unread' = 0 => unread = 0 /\ out[row] # Unassigned)
  <2>1. CASE DropDuplicate \/ QueuePoints \/ WriteFact
    BY <1>2, <2>1 DEF DropDuplicate, QueuePoints, WriteFact, Unassigned
  <2>2. CASE QueueName
    BY <1>2, <2>2 DEF QueueName
  <2> QED
    BY <2>1, <2>2 DEF AttributeRow
<1>4. \/ facts' = facts
      \/ \E m \in Members, f \in FactsOf(row) : facts' = [facts EXCEPT ![m] = f]
  <2>1. CASE DropDuplicate \/ QueueName \/ QueuePoints
    BY <2>1 DEF DropDuplicate, QueueName, QueuePoints, QueueReview, storeVars
  <2>2. CASE WriteFact
    <3>1. out[row].member \in Members
      BY <1>2, <2>2 DEF WriteFact, VSInv, VSTyped
    <3> QED
      BY <2>2, <3>1 DEF WriteFact, UpsertFact
  <2> QED
    BY <2>1, <2>2 DEF AttributeRow
<1>5. facts' = [m \in Members |-> facts'[m]]
  BY <1>4 DEF VSInv, VSTyped
<1>6. VSTyped'
  BY <1>1, <1>2, <1>3, <1>5 DEF VSInv, VSTyped, Running, assignVars
<1>7. Matching'
  BY <1>1 DEF VSInv, Matching, Running, assignVars, RowOf, ScoreWith
<1>8. Claims'
  BY <1>1 DEF VSInv, Claims, Running, assignVars
<1>9. Accounted'
  <2>1. ASSUME unread' = 0, NEW r \in DOMAIN RowOf, r < row + 1
        PROVE  out[r] # Unassigned
    <3>1. r \in Nat /\ (r = row \/ r < row)
      BY <1>2, <2>1
    <3> QED
      BY <1>1, <1>3, <2>1, <3>1 DEF VSInv, Accounted
  <2> QED
    BY <1>1, <2>1 DEF Accounted, RowOf, assignVars
<1>10. ZeroMeansAbsent'
  <2>1. \A f \in FactsOf(row) : f.row = row
    BY DEF FactsOf
  <2>2. \A m \in Members :
           facts'[m] # NoFact /\ facts'[m].row = Nobody => facts[m] = facts'[m]
    BY <1>2, <1>4, <2>1 DEF VSInv, VSTyped
  <2> QED
    BY <1>1, <2>2, ZeroesStand DEF VSInv
<1> QED
  BY <1>6, <1>7, <1>8, <1>9, <1>10 DEF VSInv

\* Who is still unclaimed when every row is accounted for, and would not be
\* mistaken for another, was not on the list.
LEMMA AbsentMeansAbsent ==
    ASSUME VSInv, pc = "zero", MayInferZeroes,
           NEW m \in listed \cap Free, Unmistakable(m)
    PROVE  m \notin capture.list
<1> SUFFICES ASSUME m \in capture.list
             PROVE  FALSE
  OBVIOUS
<1>1. capture \in Captures /\ m \in Members
  BY DEF VSInv, VSTyped
<1>2. PICK r \in DOMAIN RowOf : RowOf[r].owner = m
  BY <1>1, TheCapture DEF MayInferZeroes
<1>3. r \in OwnRows(m) /\ r \in Rows
  BY <1>1, <1>2, TheCapture DEF OwnRows
<1>4. out[r] # Unassigned
  BY <1>2 DEF VSInv, Accounted, MayInferZeroes
<1>5. PICK q \in Rows : /\ out[q].member # Nobody
                        /\ scores[r][out[q].member] >= ResidualFloor
  BY <1>3, <1>4 DEF VSInv, Claims, Running
<1>6. out[q].member \in listed /\ out[q].member \in Members
  BY <1>5 DEF VSInv, VSTyped, Claims, Running
<1>7. out[q].member # m
  BY DEF Free
<1>8. ScoreWith(aliases, r, out[q].member) < ResidualFloor
  BY <1>3, <1>6, <1>7 DEF Unmistakable
<1>9. scores[r][out[q].member] = ScoreWith(known, r, out[q].member)
  BY <1>2, <1>6 DEF VSInv, Matching, Running
<1>10. known[out[q].member] \subseteq aliases[out[q].member]
  BY <1>6 DEF VSInv, Matching, Running
<1>11. /\ ScoreWith(known, r, out[q].member) \in Nat
       /\ ScoreWith(aliases, r, out[q].member) \in Nat
       /\ ScoreWith(known, r, out[q].member)
             <= ScoreWith(aliases, r, out[q].member)
  BY <1>1, <1>2, <1>6, <1>10, ScoreGrows
<1> QED
  BY <1>5, <1>8, <1>9, <1>11, AssignAssumption

LEMMA InferZeroKeepsInv == VSInv /\ InferZero => VSInv'
<1> SUFFICES ASSUME VSInv, InferZero
             PROVE  VSInv'
  OBVIOUS
<1>1. /\ UNCHANGED <<capture, pc, loaded, known, unread, assignVars>>
      /\ UNCHANGED <<members, aliases>>
      /\ pc = "zero" /\ MayInferZeroes
  BY DEF InferZero, UpsertFact
<1>2. PICK m \in Absent :
         /\ UpsertFact(m, [value |-> 0, conf |-> ZeroConf, row |-> Nobody])
         /\ row' = m + 1
  BY DEF InferZero
<1>3. m \in listed \cap Free /\ m \in Members /\ m \in Nat
  BY <1>2, RankingAssumption DEF Absent, VSInv, VSTyped
<1>4. \A n \in Members \ {m} : facts'[n] = facts[n]
  BY <1>2 DEF UpsertFact, VSInv, VSTyped
<1>5. facts' = [n \in Members |-> facts'[n]]
  BY <1>2 DEF UpsertFact, VSInv, VSTyped
<1>6. VSTyped'
  BY <1>1, <1>2, <1>3, <1>5 DEF VSInv, VSTyped, Running, assignVars
<1>7. Matching'
  BY <1>1 DEF VSInv, Matching, Running, assignVars, RowOf, ScoreWith
<1>8. Claims'
  BY <1>1 DEF VSInv, Claims, Running, assignVars
<1>9. Accounted'
  BY <1>1 DEF VSInv, Accounted, RowOf, assignVars
<1>10. ZeroMeansAbsent'
  <2>1. \A n \in Members : Unmistakable(n)' <=> Unmistakable(n)
    BY <1>1 DEF Unmistakable, OwnRows, ScoreWith, RowOf
  <2>2. Unmistakable(m) => m \notin capture.list
    BY <1>1, <1>3, AbsentMeansAbsent
  <2> QED
    BY <1>1, <1>4, <2>1, <2>2 DEF VSInv, ZeroMeansAbsent
<1> QED
  BY <1>6, <1>7, <1>8, <1>9, <1>10 DEF VSInv

LEMMA StutterKeepsInv == VSInv /\ UNCHANGED vars => VSInv'
<1> SUFFICES ASSUME VSInv, UNCHANGED vars
             PROVE  VSInv'
  OBVIOUS
<1>1. UNCHANGED <<capture, pc, row, loaded, known, unread, assignVars, storeVars>>
  BY DEF vars, vsVars
<1>2. VSTyped' /\ Accounted' /\ Claims'
  BY <1>1 DEF VSInv, VSTyped, Accounted, Claims, RowOf, assignVars, storeVars
<1>3. Matching'
  BY <1>1 DEF VSInv, Matching, assignVars, storeVars, RowOf, ScoreWith
<1>4. ZeroMeansAbsent'
  BY <1>1, ZeroesStand DEF VSInv, storeVars
<1> QED
  BY <1>2, <1>3, <1>4 DEF VSInv

LEMMA VSInvHolds == Spec => []VSInv
<1>1. VSInv /\ [Next]_vars => VSInv'
  BY OutsideKeepsInv, OthersKeepInv, ReadRowsKeepsInv, AssignRowsKeepsInv,
     BoundingKeepsInv, StartZeroingKeepsInv, AttributeRowKeepsInv,
     InferZeroKeepsInv, StutterKeepsInv
  DEF Next, Run
<1> QED
  BY InitInv, <1>1, PTL DEF Spec

-----------------------------------------------------------------------------
(* The theorems *)

\* However often the capture is ingested, wherever runs die and whatever the
\* reviewer and the roster do meanwhile, an inferred zero stands for a member
\* who was not on the list, unless OCR took that member for somebody else.
THEOREM ZeroesMeanAbsence == Spec => []ZeroMeansAbsent
<1>1. VSInv => ZeroMeansAbsent
  BY DEF VSInv
<1> QED
  BY VSInvHolds, <1>1, PTL

\* A fact that is upserted is published: it clears the gate and is more
\* confident than the one it replaces.
LEMMA UpsertPublishes ==
    ASSUME VSInv, NEW m \in Members, NEW f, f.conf >= Gate, UpsertFact(m, f)
    PROVE  TheBoard!Publish(m) \/ facts' = facts
<1>1. facts = [n \in Members |-> facts[n]]
  BY DEF VSInv, VSTyped
<1>2. CASE facts[m] = NoFact \/ Outranks(f, m)
  <2>1. facts' = [facts EXCEPT ![m] = f] /\ facts'[m] = f
    BY <1>1, <1>2 DEF UpsertFact
  <2> QED
    BY <1>2, <2>1 DEF TheBoard!Publish, Outranks
<1>3. CASE ~(facts[m] = NoFact \/ Outranks(f, m))
  BY <1>3 DEF UpsertFact
<1> QED
  BY <1>2, <1>3

\* Every step of ingest, reviewer and roster is a step of the board or leaves
\* it alone: no number below the gate, none withdrawn, none weakened.
THEOREM IngestImplementsBoard == Spec => ImplementsBoard
<1>1. Init => TheBoard!Init
  BY DEF Init, TheBoard!Init
<1>2. VSInv /\ [Next]_vars => [TheBoard!Next]_facts
  <2> SUFFICES ASSUME VSInv, [Next]_vars
               PROVE  TheBoard!Next \/ facts' = facts
    OBVIOUS
  <2>1. CASE AttributeRow /\ WriteFact
    <3>1. PICK f \in FactsOf(row) : UpsertFact(out[row].member, f)
      BY <2>1 DEF WriteFact
    <3>2. f.conf >= Gate
      BY DEF FactsOf
    <3>3. out[row].member \in Members
      <4>1. row \in Rows
        BY <2>1, TheCapture DEF AttributeRow, VSInv, VSTyped
      <4> QED
        BY <2>1, <4>1 DEF WriteFact, VSInv, VSTyped
    <3> QED
      BY <3>1, <3>2, <3>3, UpsertPublishes DEF TheBoard!Next
  <2>2. CASE AttributeRow /\ ~WriteFact
    BY <2>2 DEF AttributeRow, DropDuplicate, QueueName, QueuePoints,
                QueueReview, storeVars
  <2>3. CASE InferZero
    <3>1. PICK m \in Absent :
             UpsertFact(m, [value |-> 0, conf |-> ZeroConf, row |-> Nobody])
      BY <2>3 DEF InferZero
    <3>2. m \in Members
      BY <3>1 DEF Absent, VSInv, VSTyped
    <3> QED
      BY <3>1, <3>2, UpsertPublishes, VSAssumption DEF TheBoard!Next
  <2>4. CASE Begin \/ ReadRows \/ AssignRows \/ Seed \/ BoundPoints
             \/ StartWriting \/ StartZeroing \/ Finish \/ Crash
    BY <2>4 DEF Begin, ReadRows, AssignRows, Seed, BoundPoints, StartWriting,
                StartZeroing, Finish, Crash, storeVars
  <2>5. CASE Resolve \/ Reject \/ RosterAdds
    BY <2>5 DEF Resolve, Reject, RosterAdds, ResolveReview, RejectReview,
                CreateMember
  <2>6. CASE UNCHANGED vars
    BY <2>6 DEF vars, storeVars
  <2> QED
    BY <2>1, <2>2, <2>3, <2>4, <2>5, <2>6 DEF Next, Run
<1> QED
  BY VSInvHolds, <1>1, <1>2, PTL DEF Spec, ImplementsBoard, TheBoard!Spec

-----------------------------------------------------------------------------
(* Settled names *)

\* After the first pass, a row still unassigned that reads exactly like one
\* member reads exactly like another as well.
Settled ==
    /\ queue \in [Items -> Nat]
    /\ pc \in Running \ {"assign"} => stage = "assigned"
    /\ pc \in Running /\ stage # "confident" =>
          \A r \in DOMAIN RowOf, m \in listed :
             out[r] = Unassigned /\ scores[r][m] = 100 =>
                \E n \in listed \ {m} : scores[r][n] = 100

LEMMA ScoresAreShares ==
    ASSUME VSInv, pc \in Running, NEW r \in DOMAIN RowOf, NEW m \in listed
    PROVE  scores[r][m] \in 0..100
<1>1. capture \in Captures /\ m \in Members
  BY DEF VSInv, VSTyped
<1>2. RowOf[r].like[m] \in 0..100
  BY <1>1, TheCapture
<1>3. scores[r][m] = ScoreWith(known, r, m)
  BY DEF VSInv, Matching
<1> QED
  BY <1>2, <1>3 DEF ScoreWith

\* The first pass leaves no row that reads exactly like one member only: that
\* member is free, and then the row may claim, or claimed, and then the row is
\* a second sighting.
LEMMA FirstPassSettles ==
    ASSUME VSInv, pc = "assign", stage = "confident", NothingToClaim,
           NEW r \in DOMAIN RowOf, NEW m \in listed,
           out[r] = Unassigned, ~SecondSighting(r), scores[r][m] = 100
    PROVE  \E n \in listed \ {m} : scores[r][n] = 100
<1>1. pc \in Running
  BY DEF Running
<1>2. r \in Open
  BY <1>1 DEF Open, VSInv, Matching
<1>3. m \in Free
  BY AssignAssumption, VSAssumption DEF SecondSighting
<1>4. ~MayClaim(r, m)
  BY <1>2, <1>3 DEF NothingToClaim
<1>5. PICK n \in Free \ {m} : ~(scores[r][m] - scores[r][n] >= Margin)
  BY <1>2, <1>3, <1>4, AssignAssumption, VSAssumption DEF MayClaim, Floor
<1>6. n \in listed /\ scores[r][n] \in 0..100
  BY <1>1, <1>5, ScoresAreShares DEF Free
<1>7. Margin = 1
  BY DEF Margin
<1>8. scores[r][n] = 100
  BY <1>5, <1>6, <1>7
<1> QED
  BY <1>5, <1>6, <1>8

\* Only a row left unassigned is queued for its name.
LEMMA QueueGrows ==
    ASSUME VSInv, Settled, [Next]_vars
    PROVE  /\ queue' \in [Items -> Nat]
           /\ \A r \in DOMAIN RowOf :
                 queue'[<<r, "name">>] > queue[<<r, "name">>] =>
                    pc = "write" /\ out[r] = Unassigned
<1>1. DOMAIN RowOf \subseteq Rows
  BY TheCapture DEF VSInv, VSTyped
<1>2. queue \in [Items -> Nat]
  BY DEF Settled
<1>3. \A r \in DOMAIN RowOf : <<r, "name">> \in Items /\ queue[<<r, "name">>] \in Nat
  BY <1>1, <1>2 DEF Items, Kinds
<1>4. CASE queue' = queue
  BY <1>2, <1>3, <1>4
<1>5. CASE AttributeRow /\ QueueName
  <2>1. /\ queue' = [queue EXCEPT ![<<row, "name">>] = @ + 1]
        /\ pc = "write" /\ row \in DOMAIN RowOf /\ out[row] = Unassigned
    BY <1>5 DEF AttributeRow, QueueName, QueueReview
  <2>2. queue' \in [Items -> Nat]
    BY <1>2, <1>3, <2>1
  <2>3. ASSUME NEW r \in DOMAIN RowOf, r # row
        PROVE  queue'[<<r, "name">>] = queue[<<r, "name">>]
    <3>1. <<r, "name">> # <<row, "name">>
      BY <2>3
    <3> QED
      BY <1>2, <1>3, <2>1, <3>1
  <2>4. ASSUME NEW r \in DOMAIN RowOf, queue'[<<r, "name">>] > queue[<<r, "name">>]
        PROVE  r = row
    BY <1>3, <2>3, <2>4
  <2> QED
    BY <2>1, <2>2, <2>4
<1>6. CASE AttributeRow /\ QueuePoints
  <2>1. /\ queue' = [queue EXCEPT ![<<row, "points">>] = @ + 1]
        /\ row \in DOMAIN RowOf
    BY <1>6 DEF AttributeRow, QueuePoints, QueueReview
  <2>2. <<row, "points">> \in Items
    BY <1>1, <2>1 DEF Items, Kinds
  <2>3. queue' \in [Items -> Nat]
    BY <1>2, <2>1, <2>2
  <2>4. ASSUME NEW r \in DOMAIN RowOf
        PROVE  queue'[<<r, "name">>] = queue[<<r, "name">>]
    <3>1. <<r, "name">> # <<row, "points">>
      OBVIOUS
    <3> QED
      BY <1>2, <1>3, <2>1, <3>1
  <2> QED
    BY <1>3, <2>3, <2>4
<1>7. CASE Resolve \/ Reject
  <2>1. PICK item \in Items : queue' = [queue EXCEPT ![item] = @ - 1] /\ queue[item] > 0
    BY <1>7 DEF Resolve, Reject, ResolveReview, RejectReview
  <2>2. queue[item] \in Nat /\ queue[item] - 1 \in Nat
    BY <1>2, <2>1
  <2>3. queue' \in [Items -> Nat]
    BY <1>2, <2>1, <2>2
  <2>4. \A i \in Items : queue'[i] = queue[i] \/ queue'[i] = queue[i] - 1
    BY <1>2, <2>1
  <2> QED
    BY <1>3, <2>3, <2>4
<1> QED
  <2>1. CASE Next
    <3>1. CASE AttributeRow
      BY <1>4, <1>5, <1>6, <3>1
      DEF AttributeRow, DropDuplicate, WriteFact, UpsertFact, storeVars
    <3>2. CASE InferZero \/ RosterAdds
      BY <1>4, <3>2 DEF InferZero, UpsertFact, RosterAdds, CreateMember
    <3>3. CASE Begin \/ ReadRows \/ AssignRows \/ Seed \/ BoundPoints
               \/ StartWriting \/ StartZeroing \/ Finish \/ Crash
      BY <1>4, <3>3 DEF Begin, ReadRows, AssignRows, Seed, BoundPoints,
                        StartWriting, StartZeroing, Finish, Crash, storeVars
    <3> QED
      BY <1>7, <2>1, <3>1, <3>2, <3>3 DEF Next, Run
  <2>2. CASE UNCHANGED vars
    BY <1>4, <2>2 DEF vars, storeVars
  <2> QED
    BY <2>1, <2>2

LEMMA SettledHolds == VSInv /\ Settled /\ [Next]_vars => Settled'
<1> SUFFICES ASSUME VSInv, Settled, [Next]_vars
             PROVE  Settled'
  OBVIOUS
<1>1. queue' \in [Items -> Nat]
  BY QueueGrows
<1>2. CASE Begin \/ Finish \/ Crash
  <2>1. pc' \notin Running
    BY <1>2 DEF Begin, Finish, Crash, Running
  <2> QED
    BY <1>1, <2>1 DEF Settled
<1>3. CASE ReadRows
  <2>1. pc' = "assign" /\ stage' = "confident"
    BY <1>3 DEF ReadRows, AssignCall
  <2> QED
    BY <1>1, <2>1 DEF Settled
<1>4. CASE AssignRows
  <2>1. /\ UNCHANGED <<scores, seen, listed, storeVars, vsVars>>
        /\ pc = "assign" /\ pc' = "assign" /\ capture' = capture
    BY <1>4 DEF AssignRows, AssignStep, Claim, EndConfident, EndResidual, vsVars
  <2>2. ASSUME stage' # "confident", NEW r \in DOMAIN RowOf, NEW m \in listed,
               out'[r] = Unassigned, scores[r][m] = 100
        PROVE  \E n \in listed \ {m} : scores[r][n] = 100
    <3>1. r \in Rows /\ out \in [Rows -> [member : Members \cup {Nobody}, phase : Phases]]
      BY <2>2, TheCapture DEF VSInv, VSTyped
    <3>2. CASE Claim
      <4>1. PICK q \in Open, n \in Free : ClaimOf(q, n)
        BY <3>2 DEF Claim
      <4>2. stage # "confident" /\ stage' = stage
        BY <2>2, <3>2 DEF Claim
      <4>3. out[r] = Unassigned
        <5>1. CASE r = q
          BY <4>1, <5>1 DEF Open
        <5>2. CASE r # q
          BY <2>2, <3>1, <4>1, <5>2 DEF ClaimOf
        <5> QED
          BY <5>1, <5>2
      <4> QED
        BY <2>1, <2>2, <4>2, <4>3 DEF Settled, Running
    <3>3. CASE EndConfident
      <4>1. out'[r] = IF r \in Open /\ SecondSighting(r) THEN Duplicate ELSE out[r]
        BY <3>1, <3>3 DEF EndConfident
      <4>2. Duplicate # Unassigned
        BY DEF Duplicate, Unassigned
      <4>3. out[r] = Unassigned /\ ~(r \in Open /\ SecondSighting(r))
        BY <2>2, <4>1, <4>2
      <4>4. r \in Open
        BY <2>1, <4>3 DEF Open, VSInv, Matching, Running
      <4> QED
        BY <2>1, <2>2, <3>3, <4>3, <4>4, FirstPassSettles DEF EndConfident
    <3>4. CASE EndResidual
      BY <2>1, <2>2, <3>4 DEF EndResidual, Settled, Running
    <3> QED
      BY <1>4, <3>2, <3>3, <3>4 DEF AssignRows, AssignStep
  <2> QED
    BY <1>1, <2>1, <2>2 DEF Settled, RowOf, Running
<1>5. CASE Seed \/ BoundPoints \/ StartWriting \/ StartZeroing
  <2>1. /\ UNCHANGED <<capture, assignVars>>
        /\ pc \in Running /\ pc' \in Running \ {"assign"}
        /\ stage = "assigned"
    BY <1>5 DEF Seed, BoundPoints, StartWriting, StartZeroing, vsVars, Running,
                Settled
  <2> QED
    BY <1>1, <2>1 DEF Settled, RowOf, assignVars
<1>6. CASE AttributeRow \/ InferZero \/ Resolve \/ Reject \/ RosterAdds \/ UNCHANGED vars
  <2>1. UNCHANGED <<capture, pc, assignVars>>
    BY <1>6 DEF AttributeRow, NextRow, InferZero, Resolve, Reject, RosterAdds,
                vars, vsVars
  <2> QED
    BY <1>1, <2>1 DEF Settled, RowOf, assignVars
<1> QED
  BY <1>2, <1>3, <1>4, <1>5, <1>6 DEF Next, Run

\* A run that loaded the alias a reviewer confirmed never asks about that name
\* again, unless the text is exactly another member's too or is blank.
THEOREM SettledNamesStay == Spec => ResolvedNamesStaySettled
<1>1. Init => Settled
  BY DEF Init, Settled, Running
<1>2. ASSUME VSInv, Settled, [Next]_vars,
             NEW r \in DOMAIN RowOf, NEW m \in listed,
             queue'[<<r, "name">>] > queue[<<r, "name">>],
             RowOf[r].text \in known[m] \ Blanks
      PROVE  \E n \in listed \ {m} : ScoreWith(known, r, n) = 100
  <2>1. pc = "write" /\ out[r] = Unassigned
    BY <1>2, QueueGrows
  <2>2. \A n \in listed : scores[r][n] = ScoreWith(known, r, n)
    BY <1>2, <2>1 DEF VSInv, Matching, Running
  <2>3. scores[r][m] = 100
    BY <1>2, <2>2 DEF ScoreWith
  <2>4. stage = "assigned"
    BY <1>2, <2>1 DEF Settled, Running
  <2>5. \E n \in listed \ {m} : scores[r][n] = 100
    BY <1>2, <2>1, <2>3, <2>4 DEF Settled, Running
  <2> QED
    BY <2>2, <2>5
<1>3. VSInv /\ Settled /\ [Next]_vars =>
         [\A r \in DOMAIN RowOf, m \in listed :
             /\ queue'[<<r, "name">>] > queue[<<r, "name">>]
             /\ RowOf[r].text \in known[m] \ Blanks
             => \E n \in listed \ {m} : ScoreWith(known, r, n) = 100]_vars
  BY <1>2
<1> QED
  BY VSInvHolds, SettledHolds, <1>1, <1>3, PTL DEF Spec, ResolvedNamesStaySettled

-----------------------------------------------------------------------------
(* The algorithms, as every run calls them *)

\* A call starts an algorithm where its own specification does.
LEMMA AssignBegins == AssignInit' => AssignInv'
  BY AssignInvInit, PTL

LEMMA PointsBegins == PointsInit' => PointsInv' /\ Longest' /\ Chained'
  BY PointsInvInit, LongestInit, PTL

AlgorithmsInv == AssignInv /\ PointsInv /\ Longest /\ Chained

LEMMA AlgorithmsInit == Init => AlgorithmsInv
<1> SUFFICES ASSUME Init PROVE AlgorithmsInv
  OBVIOUS
<1>1. AssignInit
  BY DEF Init, AssignInit
<1>2. PointsInit
  BY RankingAssumption DEF Init, PointsInit, Zeroes
<1> QED
  BY <1>1, <1>2, AssignInvInit, PointsInvInit, LongestInit DEF AlgorithmsInv

\* OCR reads one number off a row that parses.
LEMMA ParsedValue ==
    ASSUME capture \in Captures, NEW r \in DOMAIN RowOf, Parsed(r)
    PROVE  ValueOf(r) \in 0..MaxPoints /\ ValueOf(r) \in RowOf[r].values
<1>1. \E v \in 0..MaxPoints : RowOf[r].values = {v}
  BY CaptureAssumption DEF RowOf, Parsed
<1> QED
  BY <1>1 DEF ValueOf

LEMMA AlgorithmsHold == Spec => []AlgorithmsInv
<1>1. ASSUME VSInv, AlgorithmsInv, [Next]_vars
      PROVE  AlgorithmsInv'
  <2> USE DEF AlgorithmsInv
  <2>1. CASE ReadRows
    <3>1. /\ \A r \in DOMAIN RowOf, m \in Members : ScoreWith(aliases, r, m) \in Nat
          /\ DOMAIN RowOf \subseteq Rows
      BY <1>1, TheCapture, ScoreGrows DEF VSInv, VSTyped
    <3>2. AssignInit'
      BY <1>1, <2>1, <3>1 DEF ReadRows, AssignCall, AssignInit, VSInv, VSTyped
    <3>3. UNCHANGED pointsVars
      BY <2>1 DEF ReadRows
    <3> QED
      BY <1>1, <3>2, <3>3, AssignBegins, PointsStutterKeepsInv, LongestStutters
  <2>2. CASE AssignRows
    <3>1. AssignStep /\ UNCHANGED pointsVars
      BY <2>2 DEF AssignRows
    <3> QED
      BY <1>1, <3>1, ClaimKeepsInv, EndConfidentKeepsInv, EndResidualKeepsInv,
         PointsStutterKeepsInv, LongestStutters DEF AssignStep
  <2>3. CASE Seed
    <3> DEFINE ss == {r \in DOMAIN RowOf : SeedsAWindow(r)}
    <3>1. /\ PointsCall(ss, [r \in Rows |-> IF r \in ss THEN ValueOf(r) ELSE 0])
          /\ UNCHANGED assignVars
      BY <2>3 DEF Seed
    <3>2. ss \subseteq Rows /\ \A r \in ss : ValueOf(r) \in 0..MaxPoints
      BY <1>1, TheCapture, ParsedValue DEF SeedsAWindow, VSInv, VSTyped
    <3>3. [r \in Rows |-> IF r \in ss THEN ValueOf(r) ELSE 0]
             \in [Rows -> 0..MaxPoints]
      BY <3>2, RankingAssumption
    <3>4. PointsInit'
      BY <3>1, <3>2, <3>3 DEF PointsCall, PointsInit, Zeroes
    <3> QED
      BY <1>1, <3>1, <3>4, PointsBegins, AssignStutterKeepsInv
  <2>4. CASE BoundPoints
    <3>1. PointsStep /\ UNCHANGED assignVars
      BY <2>4 DEF BoundPoints
    <3> QED
      BY <1>1, <3>1, PointsStepKeepsInv, AssignStutterKeepsInv,
         WeighKeepsLongest, LongestStays, ChainedStays
  <2>5. CASE ~(ReadRows \/ AssignRows \/ Seed \/ BoundPoints)
    <3>1. UNCHANGED <<assignVars, pointsVars>>
      BY <1>1, <2>5 DEF Next, Run, Begin, StartWriting, AttributeRow,
         StartZeroing, InferZero, Finish, Crash, Resolve, Reject, RosterAdds, vars
    <3> QED
      BY <1>1, <3>1, AssignStutterKeepsInv, PointsStutterKeepsInv, LongestStutters
  <2> QED
    BY <2>1, <2>2, <2>3, <2>4, <2>5
<1> QED
  BY AlgorithmsInit, VSInvHolds, <1>1, PTL DEF Spec

\* What the two algorithms promise on their own, they promise in every run of
\* ingest, again and again over stores that change between runs: rows and
\* members one to one, clear winners matched, windows sound, and a seed that
\* was dropped outside its window.
THEOREM RunsKeepTheirPromises ==
    Spec => [](/\ RowsGoOneToOne
               /\ ClearWinnersAreMatched
               /\ WindowsAreSound
               /\ DroppedSeedsAreQueued)
<1>1. AlgorithmsInv => /\ RowsGoOneToOne
                       /\ ClearWinnersAreMatched
                       /\ WindowsAreSound
                       /\ DroppedSeedsAreQueued
  BY InvMeansSound, DroppedIsOutside
     DEF AlgorithmsInv, AssignInv, RowsGoOneToOne, ClearWinnersAhead,
         ClearWinnersAreMatched
<1> QED
  BY AlgorithmsHold, <1>1, PTL

-----------------------------------------------------------------------------
(* Types, and how often a row is queued *)

\* A run queues a row once at most: what is pending of a row it has still to
\* look at is what earlier runs left.
QueuedOnce ==
    /\ pc \in {"load", "assign", "points"} => \A i \in Items : queue[i] < runs
    /\ pc = "write" => \A i \in Items : i[1] >= row => queue[i] < runs

\* It counts no row as unidentified before it has looked at it.
Counted ==
    /\ pc \in {"assign", "points"} => unread = 0
    /\ pc = "write" => unread < row

TypeInv == TypeOK /\ QueuedOnce /\ Counted

LEMMA TypeInit == Init => TypeInv
<1> SUFFICES ASSUME Init PROVE TypeInv
  OBVIOUS
<1>1. AssignTypeOK /\ PointsTypeOK
  BY AlgorithmsInit DEF AlgorithmsInv, AssignInv, PointsInv
<1>2. StoreTypeOK
  BY TheCapture, RankingAssumption DEF Init, StoreTypeOK, NoFact
<1>3. \A i \in Items : queue[i] <= runs
  BY DEF Init
<1>4. pc = "idle" /\ row = 0 /\ runs = 0 /\ unread = 0
  BY DEF Init
<1>5. \A m \in Members : facts[m] = NoFact
  BY DEF Init
<1>6. loaded \subseteq Members /\ known \in [Members -> SUBSET Texts]
  BY DEF Init
<1> QED
  BY <1>1, <1>2, <1>3, <1>4, <1>5, <1>6, VSAssumption, RankingAssumption
     DEF TypeInv, TypeOK, QueuedOnce, Counted

\* A fact keeps to the types when it is upserted, and the gate holds.
LEMMA UpsertTypes ==
    ASSUME StoreTypeOK, NEW m \in Members, NEW f,
           \A n \in Members : facts[n] = NoFact \/ facts[n].conf >= Gate,
           f \in [value : 0..MaxPoints, conf : 0..100, row : Rows \cup {Nobody}],
           f.conf >= Gate,
           UpsertFact(m, f)
    PROVE  /\ StoreTypeOK' /\ queue' = queue
           /\ \A n \in Members : facts'[n] = NoFact \/ facts'[n].conf >= Gate
<1>1. UNCHANGED <<members, aliases, queue>>
  BY DEF UpsertFact
<1>2. CASE facts' = facts
  BY <1>1, <1>2 DEF StoreTypeOK
<1>3. CASE facts' = [facts EXCEPT ![m] = f]
  <2>1. facts' \in [Members -> [value : 0..MaxPoints, conf : 0..100,
                                row : Rows \cup {Nobody}]]
    BY <1>3 DEF StoreTypeOK
  <2>2. \A n \in Members : facts'[n] = IF n = m THEN f ELSE facts[n]
    BY <1>3 DEF StoreTypeOK
  <2> QED
    BY <1>1, <2>1, <2>2 DEF StoreTypeOK
<1> QED
  BY <1>2, <1>3 DEF UpsertFact

\* What a row supports is a value between the bounds of an int64, and as sure
\* as a share can be.
LEMMA FactsAreTyped ==
    ASSUME VSInv, AlgorithmsInv, pc = "write",
           NEW r \in DOMAIN RowOf, out[r].member # Nobody,
           NEW f \in FactsOf(r)
    PROVE  /\ f \in [value : 0..MaxPoints, conf : 0..100, row : Rows \cup {Nobody}]
           /\ f.conf >= Gate
<1>1. PICK x \in Readings(r) :
         /\ Confidence(r, x) >= Gate
         /\ f = [value |-> x.value, conf |-> Confidence(r, x), row |-> r]
  BY DEF FactsOf
<1>2. capture \in Captures /\ r \in Rows
  BY TheCapture DEF VSInv, VSTyped
<1>3. /\ RowOf[r].values \subseteq 0..MaxPoints
      /\ RowOf[r].again \subseteq 0..MaxPoints
      /\ RowOf[r].conf \in 0..100
      /\ RowOf[r].againConf \in 0..100
  BY <1>2, CaptureAssumption DEF RowOf
<1>4. x.value \in 0..MaxPoints /\ x.conf \in 0..100
  <2>1. CASE Parsed(r)
    <3>1. x = [value |-> ValueOf(r), conf |-> RowOf[r].conf]
      BY <1>1, <2>1 DEF Readings, Repaired, ReadAgain
    <3> QED
      BY <1>2, <1>3, <2>1, <3>1, ParsedValue
  <2>2. CASE ~Parsed(r) /\ Repaired(r)
    <3>1. \E v \in InWindow(r, RowOf[r].values) :
             x = [value |-> v, conf |-> RowOf[r].conf]
      BY <1>1, <2>2 DEF Readings, ReadAgain
    <3> QED
      BY <1>3, <3>1 DEF InWindow
  <2>3. CASE ~Parsed(r) /\ ~Repaired(r) /\ ReadAgain(r)
    <3>1. \E v \in RowOf[r].again :
             x = [value |-> v, conf |-> RowOf[r].againConf]
      BY <1>1, <2>3 DEF Readings
    <3> QED
      BY <1>3, <3>1
  <2> QED
    BY <1>1, <2>1, <2>2, <2>3 DEF Readings
<1>5. MatchConf(r) \in 0..100
  <2>1. out[r].member \in listed
    BY <1>2 DEF VSInv, Claims, Running
  <2>2. scores[r][out[r].member] \in 0..100
    BY <2>1, ScoresAreShares DEF Running
  <2>3. Residual \in 0..100
    BY VSAssumption
  <2> QED
    BY <2>2, <2>3 DEF MatchConf
<1>6. Gate \in 0..100
  BY VSAssumption
<1>7. Confidence(r, x) \in 0..100
  <2>1. Confidence(r, x) \in {MatchConf(r), x.conf, Gate}
    BY DEF Confidence
  <2> QED
    BY <1>4, <1>5, <1>6, <2>1
<1> QED
  BY <1>1, <1>2, <1>4, <1>7

LEMMA WritingKeepsTypes ==
    VSInv /\ AlgorithmsInv /\ TypeInv /\ AttributeRow => TypeInv'
<1> SUFFICES ASSUME VSInv, AlgorithmsInv, TypeInv, AttributeRow
             PROVE  TypeInv'
  OBVIOUS
<1>1. /\ UNCHANGED <<capture, pc, loaded, known, runs>>
      /\ UNCHANGED <<assignVars, pointsVars>>
      /\ pc = "write" /\ row \in DOMAIN RowOf /\ row' = row + 1
  BY DEF AttributeRow, NextRow
<1>2. /\ row \in Rows /\ row \in Nat /\ row <= NRows /\ NRows \in Nat
      /\ unread \in Nat /\ unread < row /\ runs \in Nat
  <2>1. row \in Rows
    BY <1>1, TheCapture DEF VSInv, VSTyped
  <2>2. MaxRuns \in Nat /\ NRows \in Nat
    BY VSAssumption, RankingAssumption
  <2> QED
    BY <1>1, <2>1, <2>2 DEF TypeInv, TypeOK, Counted, Rows
<1>3. AssignTypeOK' /\ PointsTypeOK'
  BY <1>1 DEF TypeInv, TypeOK, AssignTypeOK, PointsTypeOK, assignVars, pointsVars
<1>4. unread' \in {unread, unread + 1}
  BY DEF AttributeRow, DropDuplicate, QueueName, QueuePoints, WriteFact
<1>5. unread' \in 0..NRows /\ unread' < row'
  BY <1>1, <1>2, <1>4
<1>6. /\ queue \in [Items -> Nat]
      /\ \A i \in Items : queue[i] <= runs
      /\ \A i \in Items : i[1] >= row => queue[i] < runs
      /\ \A i \in Items : i[1] \in Rows
  BY <1>1 DEF TypeInv, TypeOK, StoreTypeOK, QueuedOnce, Items
<1>7. /\ StoreTypeOK'
      /\ \A m \in Members : facts'[m] = NoFact \/ facts'[m].conf >= Gate
      /\ queue' = queue \/ \E kind \in Kinds :
                              queue' = [queue EXCEPT ![<<row, kind>>] = @ + 1]
  <2>1. CASE DropDuplicate
    BY <2>1 DEF DropDuplicate, TypeInv, TypeOK, StoreTypeOK, storeVars
  <2>2. ASSUME NEW kind \in Kinds, QueueReview(<<row, kind>>)
        PROVE  StoreTypeOK' /\ facts' = facts
               /\ queue' = [queue EXCEPT ![<<row, kind>>] = @ + 1]
    <3>1. <<row, kind>> \in Items
      BY <1>2 DEF Items
    <3>2. queue' \in [Items -> Nat]
      BY <1>6, <2>2, <3>1 DEF QueueReview
    <3> QED
      BY <2>2, <3>2 DEF QueueReview, TypeInv, TypeOK, StoreTypeOK
  <2>3. CASE QueueName
    BY <2>2, <2>3 DEF QueueName, TypeInv, TypeOK, Kinds
  <2>4. CASE QueuePoints
    BY <2>2, <2>4 DEF QueuePoints, TypeInv, TypeOK, Kinds
  <2>5. CASE WriteFact
    <3>1. PICK f \in FactsOf(row) : UpsertFact(out[row].member, f)
      BY <2>5 DEF WriteFact
    <3>2. out[row].member # Nobody /\ out[row].member \in Members
      BY <1>2, <2>5 DEF WriteFact, VSInv, VSTyped
    <3>3. /\ f \in [value : 0..MaxPoints, conf : 0..100, row : Rows \cup {Nobody}]
          /\ f.conf >= Gate
      BY <1>1, <3>2, FactsAreTyped
    <3> QED
      BY <3>1, <3>2, <3>3, UpsertTypes DEF TypeInv, TypeOK
  <2> QED
    BY <2>1, <2>3, <2>4, <2>5 DEF AttributeRow
<1>8. /\ \A i \in Items : queue'[i] <= runs
      /\ \A i \in Items : i[1] >= row + 1 => queue'[i] < runs
  <2>1. CASE queue' = queue
    <3>1. \A i \in Items : i[1] >= row + 1 => i[1] >= row
      BY <1>2, <1>6 DEF Rows
    <3> QED
      BY <1>6, <2>1, <3>1
  <2>2. ASSUME NEW kind \in Kinds,
               queue' = [queue EXCEPT ![<<row, kind>>] = @ + 1]
        PROVE  /\ \A i \in Items : queue'[i] <= runs
               /\ \A i \in Items : i[1] >= row + 1 => queue'[i] < runs
    <3>1. <<row, kind>> \in Items /\ queue[<<row, kind>>] < runs
      BY <1>2, <1>6 DEF Items
    <3>2. queue'[<<row, kind>>] <= runs
      BY <1>2, <1>6, <2>2, <3>1
    <3>3. \A i \in Items : i # <<row, kind>> => queue'[i] = queue[i]
      BY <1>6, <2>2
    <3>4. \A i \in Items : i[1] >= row + 1 => i[1] >= row /\ i # <<row, kind>>
      BY <1>2, <1>6 DEF Rows
    <3> QED
      BY <1>6, <3>2, <3>3, <3>4
  <2> QED
    BY <1>7, <2>1, <2>2
<1> QED
  BY <1>1, <1>2, <1>3, <1>5, <1>7, <1>8
     DEF TypeInv, TypeOK, QueuedOnce, Counted

\* The reviewer and the roster queue nothing, and name known texts.
LEMMA OthersKeepTypes ==
    VSInv /\ TypeInv /\ (Resolve \/ Reject \/ RosterAdds) => TypeInv'
<1> SUFFICES ASSUME VSInv, TypeInv, Resolve \/ Reject \/ RosterAdds
             PROVE  TypeInv'
  OBVIOUS
<1>1. UNCHANGED <<assignVars, pointsVars, vsVars, facts>>
  BY DEF Resolve, Reject, RosterAdds, ResolveReview, RejectReview, CreateMember
<1>2. /\ queue \in [Items -> Nat]
      /\ \A i \in Items : queue[i] <= runs
      /\ runs \in Int
  <2>1. runs \in Int
    BY VSAssumption DEF TypeInv, TypeOK
  <2> QED
    BY <2>1 DEF TypeInv, TypeOK, StoreTypeOK
<1>3. queue' \in [Items -> Nat] /\ \A i \in Items : queue'[i] <= queue[i]
  <2>1. ASSUME NEW item \in Items, queue[item] > 0,
               queue' = [queue EXCEPT ![item] = @ - 1]
        PROVE  queue' \in [Items -> Nat] /\ \A i \in Items : queue'[i] <= queue[i]
    <3>1. queue[item] - 1 \in Nat
      BY <1>2, <2>1
    <3> QED
      BY <1>2, <2>1, <3>1
  <2>2. CASE queue' = queue
    BY <1>2, <2>2
  <2> QED
    BY <2>1, <2>2
    DEF Resolve, Reject, RosterAdds, ResolveReview, RejectReview, CreateMember
<1>4. members' \subseteq Members
  BY DEF Resolve, Reject, RosterAdds, ResolveReview, RejectReview,
         CreateMember, VSInv, VSTyped
<1>5. aliases' \in [Members -> SUBSET Texts]
  <2>1. aliases \in [Members -> SUBSET Texts]
    BY DEF TypeInv, TypeOK, StoreTypeOK
  <2>2. CASE Resolve
    <3>1. PICK item \in Items :
             /\ item[1] \in DOMAIN RowOf
             /\ RowOf[item[1]].owner \in members
             /\ ResolveReview(item, RowOf[item[1]].owner, RawText(item))
      BY <2>2 DEF Resolve
    <3>2. RawText(item) \in Texts
      BY <3>1, CaptureAssumption DEF RawText, RowOf, VSInv, VSTyped
    <3> QED
      BY <2>1, <3>1, <3>2 DEF ResolveReview
  <2>3. CASE Reject \/ RosterAdds
    BY <2>1, <2>3 DEF Reject, RosterAdds, RejectReview, CreateMember
  <2> QED
    BY <2>2, <2>3
<1>6. \A i \in Items : queue'[i] <= runs /\ (queue[i] < runs => queue'[i] < runs)
  BY <1>2, <1>3
<1> QED
  BY <1>1, <1>3, <1>4, <1>5, <1>6
  DEF TypeInv, TypeOK, StoreTypeOK, AssignTypeOK, PointsTypeOK, QueuedOnce,
      Counted, assignVars, pointsVars, vsVars

LEMMA RunKeepsTypes ==
    /\ VSInv /\ TypeInv /\ AssignTypeOK' /\ PointsTypeOK'
    /\ \/ Begin \/ ReadRows \/ AssignRows \/ Seed \/ BoundPoints
       \/ StartWriting \/ StartZeroing \/ Finish \/ Crash \/ UNCHANGED vars
    => TypeInv'
<1> SUFFICES ASSUME VSInv, TypeInv, AssignTypeOK', PointsTypeOK',
                    \/ Begin \/ ReadRows \/ AssignRows \/ Seed \/ BoundPoints
                    \/ StartWriting \/ StartZeroing \/ Finish \/ Crash
                    \/ UNCHANGED vars
             PROVE  TypeInv'
  OBVIOUS
<1>1. UNCHANGED storeVars
  BY DEF Begin, ReadRows, AssignRows, Seed, BoundPoints, StartWriting,
         StartZeroing, Finish, Crash, vars
<1>2. /\ StoreTypeOK /\ StoreTypeOK'
      /\ \A m \in Members : facts'[m] = NoFact \/ facts'[m].conf >= Gate
  BY <1>1 DEF TypeInv, TypeOK, StoreTypeOK, storeVars
<1>3. \A i \in Items : queue[i] \in Nat /\ queue'[i] = queue[i] /\ queue[i] <= runs
  BY <1>1 DEF TypeInv, TypeOK, StoreTypeOK, storeVars
<1>4. runs \in 0..MaxRuns /\ MaxRuns \in Nat \ {0} /\ NRows \in Nat
  BY VSAssumption, RankingAssumption DEF TypeInv, TypeOK
<1>5. CASE Begin
  <2>1. /\ pc' = "load" /\ runs' = runs + 1 /\ loaded' = members
        /\ UNCHANGED <<row, known, unread>>
        /\ runs < MaxRuns \/ runs < 1
    BY <1>5 DEF Begin
  <2>2. runs' \in 0..MaxRuns /\ \A i \in Items : queue'[i] < runs'
    BY <1>3, <1>4, <2>1
  <2>3. \A i \in Items : queue'[i] <= runs'
    BY <1>3, <1>4, <2>1
  <2> QED
    BY <1>2, <2>1, <2>2, <2>3
    DEF TypeInv, TypeOK, StoreTypeOK, QueuedOnce, Counted
<1>6. CASE ReadRows
  BY <1>2, <1>3, <1>4, <1>6
  DEF ReadRows, TypeInv, TypeOK, StoreTypeOK, QueuedOnce, Counted
<1>7. CASE AssignRows \/ Seed \/ BoundPoints
  <2>1. /\ UNCHANGED <<row, runs, loaded, known, unread>>
        /\ pc \in {"assign", "points"} /\ pc' \in {"assign", "points"}
    BY <1>7 DEF AssignRows, Seed, BoundPoints, vsVars
  <2> QED
    BY <1>2, <1>3, <2>1 DEF TypeInv, TypeOK, QueuedOnce, Counted
<1>8. CASE StartWriting
  BY <1>2, <1>3, <1>8
  DEF StartWriting, TypeInv, TypeOK, QueuedOnce, Counted
<1>9. CASE StartZeroing \/ Finish \/ Crash
  <2>1. /\ UNCHANGED <<runs, loaded, known, unread>>
        /\ pc' \in {"zero", "idle"} /\ row' \in {0, row}
    BY <1>9 DEF StartZeroing, Finish, Crash
  <2> QED
    BY <1>2, <1>3, <2>1 DEF TypeInv, TypeOK, QueuedOnce, Counted
<1>10. CASE UNCHANGED vars
  BY <1>2, <1>3, <1>10 DEF TypeInv, TypeOK, QueuedOnce, Counted, vars, vsVars
<1> QED
  BY <1>5, <1>6, <1>7, <1>8, <1>9, <1>10

LEMMA InferZeroKeepsTypes == VSInv /\ TypeInv /\ InferZero => TypeInv'
<1> SUFFICES ASSUME VSInv, TypeInv, InferZero
             PROVE  TypeInv'
  OBVIOUS
<1>1. /\ UNCHANGED <<pc, runs, loaded, known, unread, assignVars, pointsVars>>
      /\ pc = "zero"
  BY DEF InferZero
<1> DEFINE zero == [value |-> 0, conf |-> ZeroConf, row |-> Nobody]
<1>2. PICK m \in Absent : UpsertFact(m, zero) /\ row' = m + 1
  BY DEF InferZero
<1>3. m \in Members /\ m + 1 \in Nat
  BY <1>2, RankingAssumption DEF Absent, VSInv, VSTyped
<1>4. /\ zero \in [value : 0..MaxPoints, conf : 0..100, row : Rows \cup {Nobody}]
      /\ zero.conf >= Gate
  BY VSAssumption, RankingAssumption
<1>5. /\ StoreTypeOK' /\ queue' = queue
      /\ \A n \in Members : facts'[n] = NoFact \/ facts'[n].conf >= Gate
  <2> HIDE DEF zero
  <2> QED
    BY <1>2, <1>3, <1>4, UpsertTypes DEF TypeInv, TypeOK
<1> QED
  BY <1>1, <1>2, <1>3, <1>5
  DEF TypeInv, TypeOK, AssignTypeOK, PointsTypeOK, QueuedOnce, Counted,
      assignVars, pointsVars

\* Facts, aliases and confidences keep to their ranges, nothing on the board
\* is below the gate, and however often a capture is ingested, every run adds
\* each row to the review queue at most once for each reason.
THEOREM IngestTypes == Spec => []TypeOK
<1>1. ASSUME VSInv, AlgorithmsInv, AlgorithmsInv', TypeInv, [Next]_vars
      PROVE  TypeInv'
  <2>1. AssignTypeOK' /\ PointsTypeOK'
    BY <1>1 DEF AlgorithmsInv, AssignInv, PointsInv
  <2> QED
    BY <1>1, <2>1, RunKeepsTypes, WritingKeepsTypes, InferZeroKeepsTypes,
       OthersKeepTypes DEF Next, Run
<1>2. TypeInv => TypeOK
  BY DEF TypeInv
<1> QED
  BY TypeInit, VSInvHolds, AlgorithmsHold, <1>1, <1>2, PTL DEF Spec

=============================================================================
