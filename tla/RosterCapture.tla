---------------------------- MODULE RosterCapture ---------------------------
(***************************************************************************)
(* roster_capture: collapse every rank group, then open one collapsed      *)
(* group after the other, photograph its rows and close it again, until no *)
(* collapsed chevron is to be seen or the loop has gone round MaxGroups    *)
(* times.                                                                  *)
(*                                                                         *)
(* The task never knows which group it looks at: a chevron is tapped       *)
(* wherever Match places it best, and a flip is confirmed by any chevron   *)
(* of the wanted kind.  Scrolling an open list is Scroll's business: here  *)
(* it photographs the rows of whatever is open, or stops short.            *)
(***************************************************************************)
EXTENDS Integers, FiniteSets

CONSTANTS
    Groups,       \* the rank groups of the alliance
    MaxGroups,    \* maxRankGroups
    TapAttempts,  \* chevronTapAttempts
    Swallows      \* the taps the game may swallow: subset of {"open", "close"}

ASSUME RosterCaptureAssumption ==
    /\ IsFiniteSet(Groups) /\ MaxGroups \in Nat /\ TapAttempts \in Nat \ {0}
    /\ Swallows \subseteq {"open", "close"}

VARIABLES
    place,     \* where the task stands
    round,     \* the counter of the loop it is in
    taps,      \* toggleChevron's counter
    open,      \* the groups that are open
    captured,  \* the groups whose rows were photographed to their end
    whole,     \* allComplete
    roster     \* what was recorded

rosterVars == <<place, round, taps, open, captured, whole, roster>>

NoRoster == [there |-> FALSE, complete |-> FALSE, groups |-> {}]

-----------------------------------------------------------------------------
(* toggleChevron: both kinds of it, from both of its callers. *)

Expanded  == open
Collapsed == Groups \ open

\* Where to go once the chevron is seen to have flipped.
Flipped(from) == CASE from = "normalize.close" -> "normalize"
                   [] from = "open"            -> "scroll"
                   [] from = "close"           -> "groups"

TapChevron ==
    /\ place \in {"normalize.close", "open", "close"}
    /\ taps < TapAttempts
    /\ IF place = "open"
       THEN \E g \in Collapsed : open' \in {open \cup {g}} \cup
                IF "open" \in Swallows THEN {open} ELSE {}
       ELSE \E g \in Expanded : open' \in {open \ {g}} \cup
                IF "close" \in Swallows THEN {open} ELSE {}
    /\ LET wanted == IF place = "open" THEN Expanded' ELSE Collapsed'
       IN  IF wanted # {}
           THEN place' = Flipped(place) /\ taps' = 0
           ELSE place' = place /\ taps' = taps + 1
    /\ UNCHANGED <<round, captured, whole, roster>>

\* The taps are used up, or there is no chevron of the kind to tap.
NothingFlipped ==
    /\ place \in {"normalize.close", "open", "close"}
    /\ \/ taps >= TapAttempts
       \/ (IF place = "open" THEN Collapsed ELSE Expanded) = {}
    /\ place' = "gone"
    /\ UNCHANGED <<round, taps, open, captured, whole, roster>>

-----------------------------------------------------------------------------
(* normalizeGroups. *)

\* Mutation of Normalize: what an earlier session left open is let be.
NormalizeNothing ==
    /\ place = "normalize"
    /\ place' = "groups" /\ round' = 0
    /\ UNCHANGED <<taps, open, captured, whole, roster>>

Normalize ==
    /\ place = "normalize"
    /\ \/ /\ Expanded = {}
          /\ place' = "groups" /\ round' = 0
       \/ /\ Expanded # {} /\ round < MaxGroups
          /\ place' = "normalize.close" /\ round' = round + 1
       \/ /\ Expanded # {} /\ round >= MaxGroups
          /\ place' = "gone" /\ UNCHANGED round
    /\ UNCHANGED <<taps, open, captured, whole, roster>>

-----------------------------------------------------------------------------
(* The group loop. *)

NextGroup ==
    /\ place = "groups"
    /\ IF round < MaxGroups /\ Collapsed # {}
       THEN place' = "open" /\ round' = round + 1
       ELSE place' = "record" /\ UNCHANGED round
    /\ UNCHANGED <<taps, open, captured, whole, roster>>

ScrollGroup ==
    /\ place = "scroll"
    /\ place' = "close"
    /\ \/ captured' = captured \cup open /\ UNCHANGED whole
       \/ whole' = FALSE /\ UNCHANGED captured
    /\ UNCHANGED <<round, taps, open, roster>>

RecordRoster ==
    /\ place = "record"
    /\ place' = "gone"
    /\ roster' = [there |-> TRUE, complete |-> whole, groups |-> captured]
    /\ UNCHANGED <<round, taps, open, captured, whole>>

\* Any error on the way ends the task, with nothing recorded.
RosterFails ==
    /\ place # "gone"
    /\ place' = "gone"
    /\ UNCHANGED <<round, taps, open, captured, whole, roster>>

RosterStep == \/ TapChevron \/ NothingFlipped \/ Normalize \/ NextGroup
              \/ ScrollGroup \/ RecordRoster \/ RosterFails

\* An earlier session may have left any group open.
RosterInit ==
    /\ place = "normalize" /\ round = 0 /\ taps = 0
    /\ open \in SUBSET Groups
    /\ captured = {} /\ whole = TRUE /\ roster = NoRoster

-----------------------------------------------------------------------------
\* Each group is captured in isolation: two groups open at once are two lists
\* interleaved in one stream of frames.
GroupsInIsolation == place = "scroll" => Cardinality(open) = 1

\* roster_capture.go: the loop ends when "every group has been visited".
CompleteHasEveryGroup == roster.there /\ roster.complete => roster.groups = Groups

=============================================================================
