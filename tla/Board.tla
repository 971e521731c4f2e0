------------------------------- MODULE Board --------------------------------
(***************************************************************************)
(* What participation_facts promises the readers of one week's board, all  *)
(* ingest runs, crashes and reviews taken together: numbers appear one     *)
(* member at a time, none below the gate, and a number only ever gives way *)
(* to a more confident one.                                                *)
(***************************************************************************)
EXTENDS Integers

CONSTANTS
    Members,   \* those who may be on the board
    Gate,      \* the least confidence a number may have
    Nothing    \* what the board holds for a member without a number

VARIABLE board

Init == board = [m \in Members |-> Nothing]

Publish(m) ==
    /\ board' = [board EXCEPT ![m] = board'[m]]
    /\ board'[m].conf >= Gate
    /\ board[m] = Nothing \/ board'[m].conf > board[m].conf

Next == \E m \in Members : Publish(m)

Spec == Init /\ [][Next]_board

=============================================================================
