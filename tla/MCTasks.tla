------------------------------ MODULE MCTasks -------------------------------
(***************************************************************************)
(* A list region of 24 with rows of 9: usableHeight is 15, ScrollOffset    *)
(* measures up to 20.  Of the three swipes the first is short, the second  *)
(* overshoots or not by the measurement and the fling, and the third is    *)
(* out of reach.                                                           *)
(***************************************************************************)
EXTENDS AgentTasks

SomeTravels == {10, 17, 23}
SomeLists   == {0, 2, 5}
EmptyList   == {0}
FourGroups  == {"R1", "R2", "R3", "R4"}

EveryControl == Proven \cup Trusted

=============================================================================
