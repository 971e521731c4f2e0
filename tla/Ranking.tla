------------------------------ MODULE Ranking -------------------------------
(***************************************************************************)
(* The two sets a weekly-ranking capture relates: the rows read off its    *)
(* frames, numbered in rank order, and the members of the alliance.        *)
(***************************************************************************)
EXTENDS Integers

CONSTANTS
    NRows,      \* the most rows a capture yields
    Members,    \* everybody who is, or will be, a member
    MaxPoints   \* math.MaxInt64: the upper end of an open points window

Rows == 1..NRows

Nobody == 0

ASSUME RankingAssumption ==
    /\ NRows \in Nat
    /\ Members \subseteq Nat \ {Nobody}
    /\ MaxPoints \in Nat

=============================================================================
