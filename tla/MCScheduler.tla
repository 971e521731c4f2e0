---------------------------- MODULE MCScheduler -----------------------------
(* Instances of the scheduler for TLC: two accounts on two devices, two tasks. *)
EXTENDS Scheduler

TwoAccounts == {1, 2}
TwoTasks    == {1, 2}
JustOne     == {1}

TwoPairs   == {<<1, 1>>, <<2, 1>>}
OnePair    == {<<1, 1>>}

OwnDevice  == [a \in Accounts |-> a]
OneDevice  == [a \in Accounts |-> 1]

ShortCadence == [t \in Tasks |-> 1 + t]
NoJitter     == [t \in Tasks |-> 0]
UnitJitter   == [t \in Tasks |-> 1]

=============================================================================
