------------------------------ MODULE VSIngest ------------------------------
(***************************************************************************)
(* IngestVS of internal/ingest/vs.go over one capture of the weekly        *)
(* ranking, run as often as the operator likes, beside a reviewer who      *)
(* settles queued rows and a roster ingest that adds members.              *)
(*                                                                         *)
(* A run loads members and aliases, matches rows to members (Assign),      *)
(* bounds the points (Points), then writes or queues one row per step, and *)
(* finally infers zeroes.  The process may die between any two steps.      *)
(* The capture never changes, and OCR reads the same pixels the same way.  *)
(***************************************************************************)
EXTENDS Assign, Points, FactStore, FiniteSets

CONSTANTS
    Captures,    \* the captures explored
    Reviewed,    \* those explored beside a reviewer, a roster and crashes
    Blanks,      \* the texts of which Normalize leaves nothing
    MaxRuns,     \* the bound on ingest runs over a capture
    Gate,        \* factConfidenceGate, in percent like all confidences
    Residual,    \* residualMatchConfidence
    ZeroConf     \* zeroInferenceConfidence

ASSUME VSAssumption ==
    /\ Reviewed \subseteq Captures
    /\ MaxRuns \in Nat \ {0}
    /\ Blanks \subseteq Texts
    /\ {Gate, Residual, ZeroConf} \subseteq 1..100
    /\ Gate <= ZeroConf
    /\ ResidualFloor <= AutoAccept
    /\ AutoAccept <= 100

\* Captures are what OCR can yield: points that parse are one number, and no
\* number exceeds an int64.  One that claims to be complete and has rows has a
\* row for everybody who was on the list.
ASSUME CaptureAssumption ==
    \A c \in Captures :
        /\ c.members \subseteq Members
        /\ \E n \in 0..NRows : DOMAIN c.rows = 1..n
        /\ \A r \in DOMAIN c.rows :
              /\ c.rows[r].owner \in Members
              /\ {c.rows[r].text, c.rows[r].figures} \subseteq Texts
              /\ c.rows[r].like \in [Members -> 0..100]
              /\ c.rows[r].values \cup c.rows[r].again \subseteq 0..MaxPoints
              /\ c.rows[r].parsed => \E v \in 0..MaxPoints : c.rows[r].values = {v}
              /\ {c.rows[r].conf, c.rows[r].againConf} \subseteq 0..100
        /\ c.complete /\ DOMAIN c.rows # {} =>
              \A m \in c.list : \E r \in DOMAIN c.rows : c.rows[r].owner = m

VARIABLES
    capture,   \* the capture: its rows, the list it was taken of, its status
    pc,        \* where the run is
    row,       \* the loop variable over rows, then over members
    runs,      \* how many runs began
    loaded,    \* the members the run loaded
    known,     \* the aliases it loaded
    unread     \* the run's Unidentified count

vsVars == <<capture, pc, row, runs, loaded, known, unread>>

vars == <<assignVars, pointsVars, storeVars, vsVars>>

\* A row: who it belongs to, what its name reads as and how that text scores
\* against each member's own name, and its points.  The points text parses
\* ("parsed", one value), is damaged in one position ("values" are then what
\* the ten digits make of it) or neither; "again" is what the late retry
\* reads, with its own confidence.
RowOf == capture.rows

Parsed(r) == RowOf[r].parsed

ValueOf(r) == CHOOSE v \in RowOf[r].values : TRUE

ScoreByName(al, r, m) == RowOf[r].like[m]

\* The best score of the text over a member's name and loaded aliases; a text
\* that normalizes to nothing scores 0, against an equal alias too.
ScoreWith(al, r, m) ==
    IF RowOf[r].text \in al[m] \ Blanks THEN 100 ELSE RowOf[r].like[m]

\* The capture and the members are loaded.
Begin ==
    /\ pc = "idle"
    /\ runs < (IF capture \in Reviewed THEN MaxRuns ELSE 1)
    /\ pc' = "load"
    /\ runs' = runs + 1
    /\ loaded' = members
    /\ UNCHANGED <<capture, row, known, unread, assignVars, pointsVars,
                   storeVars>>

\* Their aliases are loaded, every frame is read, and Assign is called.
ReadRows ==
    /\ pc = "load"
    /\ pc' = "assign"
    /\ known' = aliases
    /\ unread' = 0
    /\ row' = 0
    /\ AssignCall([r \in Rows |-> [m \in Members |->
                     IF r \in DOMAIN RowOf /\ m \in loaded
                     THEN ScoreWith(aliases, r, m) ELSE 0]],
                  DOMAIN RowOf, loaded)
    /\ UNCHANGED <<capture, runs, loaded, pointsVars, storeVars>>

AssignRows ==
    /\ pc = "assign"
    /\ AssignStep
    /\ UNCHANGED <<pointsVars, storeVars, vsVars>>

\* Only a confident primary read of an attributed row seeds a window.
SeedsAWindow(r) ==
    /\ out[r].member # Nobody
    /\ Parsed(r)
    /\ RowOf[r].conf >= Gate
    /\ ~RowOf[r].retried

Seed ==
    /\ pc = "assign"
    /\ stage = "assigned"
    /\ pc' = "points"
    /\ LET ss == {r \in DOMAIN RowOf : SeedsAWindow(r)}
       IN  PointsCall(ss, [r \in Rows |-> IF r \in ss THEN ValueOf(r) ELSE 0])
    /\ UNCHANGED <<assignVars, storeVars, capture, row, runs, loaded,
                   known, unread>>

BoundPoints ==
    /\ pc = "points"
    /\ PointsStep
    /\ UNCHANGED <<assignVars, storeVars, vsVars>>

StartWriting ==
    /\ pc = "points"
    /\ loop = "bounded"
    /\ pc' = "write"
    /\ row' = 1
    /\ UNCHANGED <<assignVars, pointsVars, storeVars, capture, runs, loaded,
                   known, unread>>

-----------------------------------------------------------------------------
(* attributeRow *)

InWindow(r, vs) == {v \in vs : WithinBounds(v, r)}

\* repairPoints: exactly one digit makes the damaged text fit its window.
Repaired(r) ==
    ~Parsed(r) /\ Cardinality(InWindow(r, RowOf[r].values)) = 1

\* retryPointsLate, for a row whose text neither parses nor repairs.
ReadAgain(r) ==
    /\ ~Parsed(r) /\ ~Repaired(r) /\ ~RowOf[r].retried
    /\ InWindow(r, RowOf[r].again) # {}

\* What the row says, with the confidence of the read it came from; the empty
\* set when its points are unparseable.
Readings(r) ==
    CASE Parsed(r)    -> {[value |-> ValueOf(r), conf |-> RowOf[r].conf]}
      [] Repaired(r)  -> {[value |-> v, conf |-> RowOf[r].conf] :
                             v \in InWindow(r, RowOf[r].values)}
      [] ReadAgain(r) -> {[value |-> v, conf |-> RowOf[r].againConf] :
                             v \in RowOf[r].again}
      [] OTHER        -> {}

MatchConf(r) ==
    IF out[r].phase = "residual" THEN Residual ELSE scores[r][out[r].member]

\* A window closed on both sides and no wider than the value itself vouches
\* for a weak read, unless the value was made to fit it.
Corroborated(r, v) ==
    /\ ~Repaired(r)
    /\ lo[r] > 0
    /\ hi[r] < MaxPoints
    /\ hi[r] - lo[r] <= v

Confidence(r, reading) ==
    LET conf == IF MatchConf(r) < reading.conf THEN MatchConf(r) ELSE reading.conf
    IN  IF Corroborated(r, reading.value) /\ conf < Gate THEN Gate ELSE conf

FactsUngated(r) ==
    {[value |-> x.value, conf |-> Confidence(r, x), row |-> r] :
        x \in {y \in Readings(r) : WithinBounds(y.value, r)}}

\* The fact the row supports, if it clears window and gate.
FactsOf(r) ==
    {[value |-> x.value, conf |-> Confidence(r, x), row |-> r] :
        x \in {y \in Readings(r) :
                 WithinBounds(y.value, r) /\ Confidence(r, y) >= Gate}}

NextRow == row' = row + 1 /\ UNCHANGED <<capture, pc, runs, loaded, known>>

\* Dropped: the member it reads like has a row already.
DropDuplicate ==
    /\ out[row].phase = "duplicate"
    /\ UNCHANGED <<storeVars, unread>>

QueueName ==
    /\ out[row] = Unassigned
    /\ QueueReview(<<row, "name">>)
    /\ unread' = unread + 1

QueuePoints ==
    /\ out[row].member # Nobody
    /\ FactsOf(row) = {}
    /\ QueueReview(<<row, "points">>)
    /\ UNCHANGED unread

WriteFact ==
    /\ out[row].member # Nobody
    /\ \E f \in FactsOf(row) : UpsertFact(out[row].member, f)
    /\ UNCHANGED unread

AttributeRow ==
    /\ pc = "write"
    /\ row \in DOMAIN RowOf
    /\ DropDuplicate \/ QueueName \/ QueuePoints \/ WriteFact
    /\ NextRow
    /\ UNCHANGED <<assignVars, pointsVars>>

-----------------------------------------------------------------------------

MayInferFromTheMatched == capture.complete /\ DOMAIN RowOf # {}

\* Absence means zero only on a complete capture with rows, all of them
\* attributed.
MayInferZeroes == capture.complete /\ unread = 0 /\ DOMAIN RowOf # {}

\* The members still to be looked at are those from "row" on.
Absent == {m \in listed \cap Free : m >= row}

StartZeroing ==
    /\ pc = "write"
    /\ row \notin DOMAIN RowOf
    /\ pc' = "zero"
    /\ row' = 0
    /\ UNCHANGED <<assignVars, pointsVars, storeVars, capture, runs, loaded,
                   known, unread>>

InferZero ==
    /\ pc = "zero"
    /\ MayInferZeroes
    /\ \E m \in Absent :
          /\ \A n \in Absent : m <= n
          /\ UpsertFact(m, [value |-> 0, conf |-> ZeroConf, row |-> Nobody])
          /\ row' = m + 1
    /\ UNCHANGED <<assignVars, pointsVars, capture, pc, runs, loaded, known,
                   unread>>

\* FinishCapture records the status it was given and a row count.
Finish ==
    /\ pc = "zero"
    /\ ~MayInferZeroes \/ Absent = {}
    /\ pc' = "idle"
    /\ UNCHANGED <<assignVars, pointsVars, storeVars, capture, row, runs,
                   loaded, known, unread>>

\* The process dies; what it wrote stays.
Crash ==
    /\ pc # "idle"
    /\ capture \in Reviewed
    /\ pc' = "idle"
    /\ UNCHANGED <<assignVars, pointsVars, storeVars, capture, row, runs,
                   loaded, known, unread>>

-----------------------------------------------------------------------------
(* The reviewer and the roster *)

RawText(item) ==
    IF item[2] = "name" THEN RowOf[item[1]].text ELSE RowOf[item[1]].figures

\* The reviewer knows whose row it is, and names that member.
Resolve ==
    /\ capture \in Reviewed
    /\ \E item \in Items :
          /\ item[1] \in DOMAIN RowOf
          /\ RowOf[item[1]].owner \in members
          /\ ResolveReview(item, RowOf[item[1]].owner, RawText(item))
    /\ UNCHANGED <<assignVars, pointsVars, vsVars>>

Reject ==
    /\ capture \in Reviewed
    /\ \E item \in Items : RejectReview(item)
    /\ UNCHANGED <<assignVars, pointsVars, vsVars>>

RosterAdds ==
    /\ capture \in Reviewed
    /\ \E m \in Members : CreateMember(m)
    /\ UNCHANGED <<assignVars, pointsVars, vsVars>>

Init ==
    /\ capture \in Captures
    /\ members = capture.members
    /\ aliases = [m \in Members |-> {}]
    /\ facts = [m \in Members |-> NoFact]
    /\ queue = [i \in Items |-> 0]
    /\ pc = "idle" /\ row = 0 /\ runs = 0 /\ unread = 0
    /\ loaded = {} /\ known = [m \in Members |-> {}]
    /\ scores = [r \in Rows |-> [m \in Members |-> 0]]
    /\ seen = {} /\ listed = {} /\ stage = "confident"
    /\ out = [r \in Rows |-> Unassigned]
    /\ seeds = {} /\ value = Zeroes /\ at = 1 /\ loop = "weigh"
    /\ len = Zeroes /\ prev = Zeroes /\ best = 0 /\ kept = {}
    /\ hi = Zeroes /\ lo = Zeroes /\ above = MaxPoints /\ below = 0

Run ==
    \/ ReadRows \/ AssignRows \/ Seed \/ BoundPoints \/ StartWriting
    \/ AttributeRow \/ StartZeroing \/ InferZero \/ Finish

Next == Begin \/ Run \/ Crash \/ Resolve \/ Reject \/ RosterAdds

Spec == Init /\ [][Next]_vars

\* The one goroutine of the ingest command keeps running.
FairSpec == Spec /\ WF_vars(Run)

-----------------------------------------------------------------------------
(* Properties *)

TypeOK ==
    /\ AssignTypeOK /\ PointsTypeOK /\ StoreTypeOK
    /\ pc \in {"idle", "load", "assign", "points", "write", "zero"}
    /\ row \in Nat /\ runs \in 0..MaxRuns /\ unread \in 0..NRows
    /\ loaded \subseteq Members /\ known \in [Members -> SUBSET Texts]
    /\ \A m \in Members : facts[m] = NoFact \/ facts[m].conf >= Gate
    /\ \A i \in Items : queue[i] <= runs

\* The board's promise, kept by every run over the capture: this module
\* implements Board.
TheBoard == INSTANCE Board WITH board <- facts, Nothing <- NoFact

ImplementsBoard == TheBoard!Spec

OwnRows(m) == {r \in DOMAIN RowOf : RowOf[r].owner = m}

\* No row of m's reads like somebody else, even with today's aliases.
Unmistakable(m) ==
    \A r \in OwnRows(m), n \in Members \ {m} :
        ScoreWith(aliases, r, n) < ResidualFloor

\* A zero on the board was concluded, not read.  However runs crash, repeat
\* and overlap with the reviewer and the roster, it never stands against a
\* member who is on the list the capture was taken of, unless OCR took that
\* member's row for somebody else's.
ZeroMeansAbsent ==
    \A m \in Members :
        facts[m] # NoFact /\ facts[m].row = Nobody /\ Unmistakable(m)
            => m \notin capture.list

\* "Tomorrow's identical misread matches directly instead of queueing again":
\* a run that loaded the alias a reviewer confirmed never asks about that
\* name again, unless the text is exactly another member's too or is blank.
ResolvedNamesStaySettled ==
    [][\A r \in DOMAIN RowOf, m \in listed :
          /\ queue'[<<r, "name">>] > queue[<<r, "name">>]
          /\ RowOf[r].text \in known[m] \ Blanks
          => \E n \in listed \ {m} : ScoreWith(known, r, n) = 100]_vars

\* The claim loop, the walk back and the loops over rows and members all end:
\* a run comes back, whatever it reads.
IngestReturns == [](pc # "idle" => <>(pc = "idle"))

=============================================================================
