---------------------------- MODULE RosterIngest ----------------------------
(***************************************************************************)
(* IngestRoster of internal/ingest/roster.go over the frames of one roster *)
(* capture, run as often as the operator likes and dying wherever it does. *)
(*                                                                         *)
(* Every frame says for itself which rank groups it shows: a sticky header *)
(* above the list and header cards inside it.  A row is recognised by its  *)
(* place in its group's own scroll, read once or until it has become       *)
(* somebody, matched to a member or, within the count its group's header   *)
(* states, made a new one.                                                 *)
(*                                                                         *)
(* The capture never changes and OCR reads the same pixels the same way.   *)
(* What the three numeric fields say is left out, since it never decides   *)
(* who a row is.                                                           *)
(***************************************************************************)
EXTENDS Integers, Sequences, FiniteSets, FiniteSetsExt

CONSTANTS
    Ranks,        \* what a rank badge may say
    Unmatched,    \* a badge that matches no template by the gap it must
    Players,      \* who is in the alliance
    RankOf,       \* the group each player's row stands in
    PlaceOf,      \* and how far down its group's list
    Texts,        \* what OCR may read for a name
    Blanks,       \* those with nothing in them
    Score,        \* TokenSetRatio of a text and a name, 0 if either has no
                  \* letter or digit in it
    AutoAccept,
    ReviewFloor,
    Pitch,        \* memberRowPitch
    Captures,     \* the captures explored
    Rosters       \* the sets of members there may be to begin with

\* A capture is its frames and the alliance frame's total, 0 if unread, and how
\* often it is ingested at most, which is a bound of the model's.  A frame has
\* its sticky header's badge and count (0 if unread), its cards and its bands,
\* both from top to bottom, and the offset measured from the frame before.  What
\* was photographed is kept beside what was made of it: which group was open,
\* where its list stood and how far the measured offsets had slipped from that,
\* and whose row a band is.  Rows of one group stand a pitch apart.
ASSUME RosterAssumption ==
    /\ Unmatched \notin Ranks
    /\ IsFiniteSet(Ranks) /\ IsFiniteSet(Players)
    /\ RankOf \in [Players -> Ranks]
    /\ PlaceOf \in [Players -> Nat]
    /\ \A p, q \in Players :
          p # q /\ RankOf[p] = RankOf[q] => PlaceOf[p] - PlaceOf[q] \notin (1 - Pitch)..(Pitch - 1)
    /\ Blanks \subseteq Texts
    /\ Score \in [Texts -> [Texts -> 0..100]]
    /\ \A t \in Texts : Score[t][t] \in {0, 100}
    /\ 0 < ReviewFloor /\ ReviewFloor <= AutoAccept /\ AutoAccept <= 100
    /\ AutoAccept \in Nat /\ ReviewFloor \in Nat
    /\ Pitch \in Nat \ {0}

\* A member was created by a run, for a player's row at a place among the
\* frames and bands, or was there before.
ASSUME RostersAssumption ==
    \A roster \in Rosters :
        roster \subseteq [name : Texts, rank : Ranks, player : Players,
                          run : {0}, seen : Nat \X Nat]

ASSUME FramesAssumption ==
    \A c \in Captures :
        /\ c.total \in Nat /\ c.ingests \in Nat
        /\ Len(c.frames) \in Nat /\ DOMAIN c.frames = 1..Len(c.frames)
        /\ \A k \in DOMAIN c.frames :
              /\ c.frames[k].badge \in Ranks \cup {Unmatched}
              /\ c.frames[k].count \in Nat /\ c.frames[k].offset \in Int
              /\ c.frames[k].open \in Ranks
              /\ c.frames[k].top \in Int /\ c.frames[k].slip \in Int
              /\ c.frames[k].cards \in Seq([rank : Ranks, count : Nat, y : Nat])
              /\ Len(c.frames[k].bands) \in Nat
              /\ DOMAIN c.frames[k].bands = 1..Len(c.frames[k].bands)
              /\ \A j \in DOMAIN c.frames[k].bands :
                    LET b == c.frames[k].bands[j]
                    IN  /\ b.y \in Nat /\ b.player \in Players
                        /\ b.text \in Texts /\ b.sure \in BOOLEAN
                        /\ b.fields \in 0..3

VARIABLES
    capture,
    pc, frame, band,   \* where the run is
    prevRanks,         \* prevFrameRanks
    groups,            \* the run's groupTrackers
    members,           \* the members table, with who was photographed when
    facts,             \* the members whose row gave a fact
    queue,             \* how many review items of each class were queued
    status,            \* the capture's
    memberCount,       \* the alliance's
    runs               \* how many runs began

inMemory == <<pc, frame, band, prevRanks, groups>>
stored   == <<members, facts, queue, status, memberCount>>
vars     == <<capture, inMemory, stored, runs>>

Classes == {"header", "badge", "name", "field"}

\* A group's expected is 0 while no header of it could be read: a count of 0
\* is no count.
Unsighted == [sighted |-> FALSE, expected |-> 0, contentY |-> 0,
              resolved |-> {}, rows |-> <<>>]

NothingInMemory ==
    /\ pc' = "idle" /\ frame' = 1 /\ band' = 1 /\ prevRanks' = {}
    /\ groups' = [g \in Ranks |-> Unsighted]

Frames == capture.frames

Current == Frames[frame]

-----------------------------------------------------------------------------
(* Headers. *)

\* The sticky header stands above the list.
Headers(f) == <<[rank |-> f.badge, count |-> f.count, y |-> -1]>> \o f.cards

RanksOn(f) == {Headers(f)[i].rank : i \in DOMAIN Headers(f)}

\* The first count read off a header of g on frame f, or 0.
CountOn(f, g) ==
    LET read == {i \in DOMAIN Headers(f) :
                    Headers(f)[i].rank = g /\ Headers(f)[i].count # 0}
    IN  IF read = {} THEN 0 ELSE Headers(f)[Min(read)].count

Unread(f) == {i \in DOMAIN Headers(f) : Headers(f)[i].count = 0}

\* ownerOf: the last header at or above a band's top.
Owner(f, b) ==
    Headers(f)[Max({i \in DOMAIN Headers(f) : Headers(f)[i].y <= b.y})].rank

\* Mutation of Upgraded: the count is what the first header of the group gave.
FirstHeaderOnly(gt, count) ==
    IF gt.sighted THEN gt.expected ELSE count

\* noteHeader: a count is taken once, from whichever header first has it.
Upgraded(gt, count) ==
    IF gt.expected = 0 THEN count ELSE gt.expected

Sighted(g) ==
    [groups[g] EXCEPT
        !.sighted = TRUE,
        !.expected = Upgraded(groups[g], CountOn(Current, g)),
        !.contentY = IF g \in prevRanks THEN @ + Current.offset ELSE @]

-----------------------------------------------------------------------------
(* The run and its frames. *)

Begin ==
    /\ pc \in {"idle", "done"}
    /\ runs < capture.ingests
    /\ runs' = runs + 1
    /\ pc' = "frames" /\ frame' = 1 /\ band' = 1
    /\ prevRanks' = {}
    /\ groups' = [g \in Ranks |-> Unsighted]
    /\ UNCHANGED <<capture, stored>>

\* The rows of a frame whose badge matches nothing have nowhere to attach.
DropFrame ==
    /\ pc = "frames"
    /\ frame \in DOMAIN Frames
    /\ Current.badge = Unmatched
    /\ frame' = frame + 1
    /\ queue' = [queue EXCEPT !["badge"] = @ + 1,
                              !["header"] = IF Current.count = 0 THEN @ + 1 ELSE @]
    /\ UNCHANGED <<capture, pc, band, prevRanks, groups, members, facts,
                   status, memberCount, runs>>

ReadHeaders ==
    /\ pc = "frames"
    /\ frame \in DOMAIN Frames
    /\ Current.badge # Unmatched
    /\ pc' = "rows" /\ band' = 1
    /\ groups' = [g \in Ranks |->
                     IF g \in RanksOn(Current) THEN Sighted(g) ELSE groups[g]]
    /\ prevRanks' = RanksOn(Current)
    /\ queue' = [queue EXCEPT !["header"] = @ + Cardinality(Unread(Current))]
    /\ UNCHANGED <<capture, frame, members, facts, status, memberCount, runs>>

EndFrame ==
    /\ pc = "rows"
    /\ band \notin DOMAIN Current.bands
    /\ pc' = "frames" /\ frame' = frame + 1
    /\ UNCHANGED <<capture, band, prevRanks, groups, stored, runs>>

\* The rows of all groups together.
Parsed == Cardinality(UNION {{g} \X DOMAIN groups[g].rows : g \in Ranks})

\* Mutation of Tallies: a group without a count cannot fall short of it.
TalliesIfCounted(g) ==
    groups[g].expected # 0 => Len(groups[g].rows) = groups[g].expected

Tallies(g) ==
    groups[g].expected # 0 /\ Len(groups[g].rows) = groups[g].expected

Reconciled ==
    /\ \A g \in Ranks : groups[g].sighted => Tallies(g)
    /\ capture.total # 0 => Parsed = capture.total

Finish ==
    /\ pc = "frames"
    /\ frame \notin DOMAIN Frames
    /\ pc' = "done"
    /\ status' = IF Reconciled THEN "complete" ELSE "partial"
    /\ memberCount' = IF capture.total # 0 THEN capture.total ELSE memberCount
    /\ UNCHANGED <<capture, frame, band, prevRanks, groups, members, facts,
                   queue, runs>>

\* The process dies, or a query or the OCR engine fails: the last query too,
\* FinishCapture, when SetAllianceMemberCount before it has gone through.
Fail ==
    /\ pc \in {"frames", "rows"}
    /\ NothingInMemory
    /\ \/ UNCHANGED memberCount
       \/ /\ pc = "frames" /\ frame \notin DOMAIN Frames
          /\ capture.total # 0
          /\ memberCount' = capture.total
    /\ UNCHANGED <<capture, members, facts, queue, status, runs>>

-----------------------------------------------------------------------------
(* Rows. *)

Band == Current.bands[band]

Group == Owner(Current, Band)

Rows == groups[Group].rows

RowY == groups[Group].contentY + Band.y

Near(y, z) == y - z \in -(Pitch \div 2) .. Pitch \div 2

\* seenRow.
Seen == {i \in DOMAIN Rows : Near(RowY, Rows[i].y)}

\* The row the band shows: the collected one, or a new one at the end.
Index == IF Seen = {} THEN Len(Rows) + 1 ELSE Min(Seen)

Row ==
    IF Seen = {}
    THEN [y |-> RowY, resolved |-> FALSE, reviewed |-> FALSE, asked |-> 0,
          player |-> Band.player]
    ELSE Rows[Index]

Collected(row) ==
    IF Seen = {} THEN Append(Rows, row) ELSE [Rows EXCEPT ![Index] = row]

\* Mutation of IsSomebody: every photograph is read.
NeverSomebody(row) == FALSE

IsSomebody(row) == row.resolved

AtRow == pc = "rows" /\ band \in DOMAIN Current.bands

\* A row that is somebody is not read again.
SkipRow ==
    /\ AtRow
    /\ IsSomebody(Row)
    /\ band' = band + 1
    /\ UNCHANGED <<capture, pc, frame, prevRanks, groups, stored, runs>>

\* processRow runs, on a row not collected yet or still nobody.
ReadsRow ==
    /\ AtRow
    /\ ~IsSomebody(Row)
    /\ band' = band + 1
    /\ UNCHANGED <<capture, pc, frame, prevRanks, status, memberCount, runs>>

Likeness(m) == Score[Band.text][m.name]

BestMatches == {m \in members : \A n \in members : Likeness(n) <= Likeness(m)}

Resembles(floor) == \E m \in members : Likeness(m) >= floor

ResolveTo(m) ==
    /\ groups' = [groups EXCEPT ![Group].resolved = @ \cup {m},
                                ![Group].rows = Collected([Row EXCEPT !.resolved = TRUE])]
    /\ facts' = IF Band.fields > 0 THEN facts \cup {m} ELSE facts
    /\ queue' = [queue EXCEPT !["field"] = @ + 3 - Band.fields]

\* Mutation of CanCreate: a count nobody has read is no limit.
CanCreateUncounted(gt) ==
    gt.expected = 0 \/ Cardinality(gt.resolved) < gt.expected

CanCreate(gt) == gt.expected # 0 /\ Cardinality(gt.resolved) < gt.expected

MatchRow ==
    /\ ReadsRow
    /\ Band.text \notin Blanks
    /\ Resembles(AutoAccept)
    /\ \E m \in BestMatches : ResolveTo(m)
    /\ UNCHANGED members

Creates ==
    /\ Band.text \notin Blanks
    /\ ~Resembles(ReviewFloor)
    /\ Band.sure
    /\ CanCreate(groups[Group])

NewMember ==
    [name |-> Band.text, rank |-> Group, player |-> Band.player, run |-> runs,
     seen |-> <<frame, band>>]

CreateMember ==
    /\ ReadsRow
    /\ Creates
    /\ members' = members \cup {NewMember}
    /\ ResolveTo(NewMember)

\* The run fails once the member is in the table and before the row's facts are.
FailAfterCreating ==
    /\ AtRow
    /\ ~IsSomebody(Row)
    /\ Creates
    /\ members' = members \cup {NewMember}
    /\ NothingInMemory
    /\ UNCHANGED <<capture, facts, queue, status, memberCount, runs>>

\* Mutation of Reviewed: the row remembers its last photograph only.
ReviewedJustNow(row) == [row EXCEPT !.reviewed = ~@]

Reviewed(row) == [row EXCEPT !.reviewed = TRUE]

\* queueNameReview: unreadable, ambiguous, below the floor, or out of budget.
QueueName ==
    /\ ReadsRow
    /\ Band.text \notin Blanks => ~Resembles(AutoAccept) /\ ~Creates
    /\ LET row == Reviewed(Row)
       IN  IF Row.reviewed
           THEN /\ groups' = [groups EXCEPT ![Group].rows = Collected(row)]
                /\ UNCHANGED queue
           ELSE /\ groups' = [groups EXCEPT ![Group].rows =
                                 Collected([row EXCEPT !.asked = @ + 1])]
                /\ queue' = [queue EXCEPT !["name"] = @ + 1]
    /\ UNCHANGED <<members, facts>>

-----------------------------------------------------------------------------
Init ==
    /\ capture \in Captures
    /\ members \in Rosters
    /\ pc = "idle" /\ frame = 1 /\ band = 1 /\ prevRanks = {}
    /\ groups = [g \in Ranks |-> Unsighted]
    /\ facts = {} /\ queue = [c \in Classes |-> 0]
    /\ status = "recorded" /\ memberCount = 0 /\ runs = 0

Next == \/ Begin \/ DropFrame \/ ReadHeaders \/ EndFrame \/ Finish \/ Fail
        \/ SkipRow \/ MatchRow \/ CreateMember \/ FailAfterCreating \/ QueueName

Spec == Init /\ [][Next]_vars

-----------------------------------------------------------------------------
MemberRecords ==
    [name : Texts, rank : Ranks, player : Players, run : Nat, seen : Nat \X Nat]

RowRecords ==
    [y : Int, resolved : BOOLEAN, reviewed : BOOLEAN, asked : 0..1,
     player : Players]

\* Every variable has its type; in particular a row is put before a human at
\* most once a run, however often it is photographed (queueNameReview).
TypeOK ==
    /\ pc \in {"idle", "frames", "rows", "done"}
    /\ frame \in Nat /\ band \in Nat
    /\ prevRanks \subseteq Ranks
    /\ groups \in [Ranks -> [sighted : BOOLEAN, expected : Nat, contentY : Int,
                             resolved : SUBSET members, rows : Seq(RowRecords)]]
    /\ members \subseteq MemberRecords
    /\ facts \subseteq members
    /\ queue \in [Classes -> Nat]
    /\ status \in {"recorded", "complete", "partial"}
    /\ memberCount \in Nat
    /\ runs \in Nat

\* The frames whose headers the run has read.
FramesRead ==
    {k \in DOMAIN Frames :
        /\ Frames[k].badge # Unmatched
        /\ k < frame \/ (k = frame /\ pc = "rows")}

MintedIn(g) == {m \in members : m.run = runs /\ m.rank = g}

\* The creation budget: a run makes no more members of a group than a header
\* it has read off that group states, and none of a group no header of which
\* it could read (canCreate, noteHeader).
WithinBudget ==
    pc # "idle" =>
        \A g \in Ranks : MintedIn(g) # {} =>
            \E k \in FramesRead : Cardinality(MintedIn(g)) <= CountOn(Frames[k], g)

-----------------------------------------------------------------------------
(* Captures the way roster_capture means to record them: one group after   *)
(* the other opened and scrolled, every badge matched, every band a row of *)
(* the open group in its place, and the measured offsets within half a     *)
(* pitch of the distance scrolled, over as many frames as the group has.   *)

\* A frame of an open group says so and shows rows of it, each in its place.
ShowsOpenGroup(f) ==
    /\ f.badge # Unmatched
    /\ f.open \in RanksOn(f)
    /\ \A j \in DOMAIN f.bands :
          LET b == f.bands[j]
          IN  /\ Owner(f, b) = f.open
              /\ RankOf[b.player] = f.open
              /\ f.top + b.y = PlaceOf[b.player]

Steady ==
    /\ \A k \in DOMAIN Frames : ShowsOpenGroup(Frames[k])
    /\ \A i, k \in DOMAIN Frames :
          Frames[i].open = Frames[k].open =>
              /\ \A j \in DOMAIN Frames : i < j /\ j < k => Frames[j].open = Frames[i].open
              /\ 2 * (Frames[k].slip - Frames[i].slip) < Pitch
              /\ k = i + 1 =>
                    Frames[k].offset = Frames[k].top - Frames[i].top
                                       + Frames[k].slip - Frames[i].slip

SizeOf(g) == Cardinality({p \in Players : RankOf[p] = g})

\* Counts are read right or not at all.
Honest ==
    /\ capture.total \in {0, Cardinality(Players)}
    /\ \A k \in DOMAIN Frames : \A g \in Ranks :
          CountOn(Frames[k], g) \in {0, SizeOf(g)}

\* Every name that is not blank has a letter or a digit in it.
Lettered ==
    \A k \in DOMAIN Frames : \A j \in DOMAIN Frames[k].bands :
        LET t == Frames[k].bands[j].text IN t \in Blanks \/ Score[t][t] = 100

\* Nobody is made a member twice, by the photographs of one run or by another
\* run after a crash: "that is the geometric dedupe, and it is what stops one
\* member being minted twice off two photographs" (roster.go:1258).
NobodyMintedTwice ==
    Steady /\ Lettered =>
        \A m, n \in members :
            m.run # 0 /\ n.run # 0 /\ m.player = n.player => m = n

\* A capture reconciled as complete has a row of everybody: in the groups it
\* sighted, and in every group once the alliance's own total was read.
CompleteSawEverybody ==
    Steady /\ Honest /\ pc = "done" /\ status = "complete" =>
        \A p \in Players : groups[RankOf[p]].sighted \/ capture.total # 0 =>
            \E i \in DOMAIN groups[RankOf[p]].rows : groups[RankOf[p]].rows[i].player = p

\* Some header of g can be read on frame k or before.
CountedBy(g, k) == \E l \in 1..k : CountOn(Frames[l], g) # 0

\* Under no count of g on any frame is the group full.
RoomIn(g) ==
    \A l \in DOMAIN Frames :
        CountOn(Frames[l], g) # 0 =>
            Cardinality(groups[g].resolved) < CountOn(Frames[l], g)

\* Reading band b of group g on frame k would make it somebody: it is one of
\* the members the run began with, or a new one with room for it.
WouldResolve(b, g, k) ==
    /\ b.text \notin Blanks
    /\ \/ \E m \in members : m.run < runs /\ Score[b.text][m.name] >= AutoAccept
       \/ /\ b.sure
          /\ CountedBy(g, k) /\ RoomIn(g)
          /\ \A m \in members : Score[b.text][m.name] < ReviewFloor

\* A row that stays nobody was read badly on every photograph of it: a good
\* one is never taken and thrown away (collectedRow, roster.go:718-729).
NoGoodPhotographIsWasted ==
    Steady /\ pc = "done" =>
        \A k \in DOMAIN Frames : \A j \in DOMAIN Frames[k].bands :
            LET b == Frames[k].bands[j]
                g == Owner(Frames[k], b)
            IN  WouldResolve(b, g, k) =>
                    \E i \in DOMAIN groups[g].rows :
                        groups[g].rows[i].player = b.player /\ groups[g].rows[i].resolved

\* roster.go:1209: the offset between two consecutive frames "is this group's
\* own travel exactly when this group was on screen for both of them"; so a
\* band at the place of a collected row is a photograph of that row.
SightingsAgree == AtRow /\ Seen # {} => Row.player = Band.player

=============================================================================
