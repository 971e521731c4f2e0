----------------------------- MODULE AgentTasks ----------------------------
(***************************************************************************)
(* The tasks of one agent, which runs one of them at a time: the two that  *)
(* capture lists, and the chores.                                          *)
(***************************************************************************)
EXTENDS VSCapture, RosterCapture, Chores

VARIABLE route   \* the task that is run: "vs_ranking", "roster" or "chore"

routeVars == <<vsVars, rosterVars, choreVars, route>>

\* What the other tasks would look at has one value.
NothingListed == list = 0 /\ tab = "progress" /\ filter

Init ==
    /\ VSInit /\ RosterInit
    /\ \/ route = "vs_ranking" /\ open = {} /\ NoChore
       \/ route = "roster" /\ NothingListed /\ NoChore
       \/ route = "chore" /\ NothingListed /\ open = {} /\ ChoreInit

\* One step of the goroutine that runs the task, or of the ingest after it.
Run ==
    /\ \/ route = "vs_ranking" /\ VSStep /\ UNCHANGED <<rosterVars, choreVars>>
       \/ route = "roster" /\ RosterStep /\ UNCHANGED <<vsVars, choreVars>>
       \/ route = "chore" /\ ChoreStep /\ UNCHANGED <<vsVars, rosterVars>>
    /\ UNCHANGED route

Draw ==
    /\ \/ DrawMark /\ UNCHANGED <<rosterVars, choreVars>>
       \/ GameMoves /\ UNCHANGED <<vsVars, rosterVars>>
    /\ UNCHANGED route

Next == Run \/ Draw

Spec == Init /\ [][Next]_routeVars

\* The goroutine runs whenever it can.
FairSpec == Spec /\ WF_routeVars(Run)

-----------------------------------------------------------------------------
\* Every task comes to its end, whatever the game swallows: every retry and
\* every loop of the routes is bounded.
TasksReturn == <>(step = "out" \/ place = "gone" \/ (route = "chore" /\ At("back")))

=============================================================================
