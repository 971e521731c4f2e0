---------------------------- MODULE RosterProofs ----------------------------
(***************************************************************************)
(* Theorems about RosterIngest for every capture, set of members, texts,   *)
(* scores and thresholds, over any number of runs and crashes: the types,  *)
(* with at most one name review a row and run, the creation budget, and    *)
(* of steady captures that sightings are told apart, that a complete one   *)
(* has everybody, that no good photograph is wasted and that nobody is     *)
(* made a member twice.                                                    *)
(***************************************************************************)
EXTENDS RosterIngest, OrderProofs

-----------------------------------------------------------------------------
(* The least and the greatest of some numbers. *)

LEMMA MinIsLeast ==
  ASSUME NEW S \in SUBSET Nat, S # {}
  PROVE  Min(S) \in S
  <1>1. PICK x \in S : \A y \in S : ~(y < x)
    BY LeastExists
  <1>2. \A y \in S : x <= y
    BY <1>1
  <1> QED BY <1>2 DEF Min

LEMMA MaxIsGreatest ==
  ASSUME NEW n \in Nat, NEW S \in SUBSET (1..n), S # {}
  PROVE  Max(S) \in S
  <1> DEFINE T == {n - x : x \in S}
  <1>1. \A x \in S : x \in Int /\ n - x \in Nat
    OBVIOUS
  <1>2. T \in SUBSET Nat
    BY <1>1
  <1>3. T # {}
    OBVIOUS
  <1>4. \A x \in S : n - x \in T
    OBVIOUS
  <1>5. PICK t \in T : \A y \in T : ~(y < t)
    <2> HIDE DEF T
    <2> QED BY <1>2, <1>3, LeastExists
  <1>6. PICK x \in S : t = n - x
    BY <1>5
  <1>7. ASSUME NEW y \in S
        PROVE  x >= y
    <2>1. ~(n - y < n - x)
      BY <1>4, <1>5, <1>6
    <2>2. x \in Int /\ y \in Int
      BY <1>1
    <2> QED BY <2>1, <2>2
  <1> QED BY <1>7 DEF Max

-----------------------------------------------------------------------------
(* Frames, headers and rows have their types. *)

HeaderRecords == [rank : Ranks, count : Nat, y : Int]

\* A frame whose badge was matched.
Readable(f) ==
    /\ f.badge \in Ranks
    /\ f.count \in Nat /\ f.offset \in Int
    /\ f.cards \in Seq([rank : Ranks, count : Nat, y : Nat])

LEMMA FramesAreTyped ==
  ASSUME capture \in Captures, NEW k \in DOMAIN Frames,
         Frames[k].badge # Unmatched
  PROVE  Readable(Frames[k])
  BY FramesAssumption DEF Frames, Readable

LEMMA BandsAreTyped ==
  ASSUME capture \in Captures, NEW k \in DOMAIN Frames,
         NEW j \in DOMAIN Frames[k].bands
  PROVE  LET b == Frames[k].bands[j]
         IN  /\ b.y \in Nat /\ b.player \in Players
             /\ b.text \in Texts /\ b.sure \in BOOLEAN
             /\ b.fields \in 0..3
  BY FramesAssumption DEF Frames

LEMMA SeqOfMore ==
  ASSUME NEW S, NEW T, S \subseteq T, NEW s \in Seq(S)
  PROVE  s \in Seq(T)
  <1>1. s \in [1..Len(s) -> T] /\ Len(s) \in Nat
    OBVIOUS
  <1> QED BY <1>1

LEMMA HeadersAreTyped ==
  ASSUME NEW f, Readable(f)
  PROVE  /\ Headers(f) \in Seq(HeaderRecords)
         /\ 1 \in DOMAIN Headers(f)
         /\ Headers(f)[1].y = -1
         /\ \E n \in Nat : DOMAIN Headers(f) = 1..n
  <1> DEFINE sticky == <<[rank |-> f.badge, count |-> f.count, y |-> -1]>>
  <1>1. f.cards \in Seq(HeaderRecords)
    <2>1. [rank : Ranks, count : Nat, y : Nat] \subseteq HeaderRecords
      BY DEF HeaderRecords
    <2>2. f.cards \in Seq([rank : Ranks, count : Nat, y : Nat])
      BY DEF Readable
    <2> QED BY <2>1, <2>2, SeqOfMore
  <1>2. [rank |-> f.badge, count |-> f.count, y |-> -1] \in HeaderRecords
    BY DEF Readable, HeaderRecords
  <1>3. sticky \in Seq(HeaderRecords) /\ Len(sticky) = 1
        /\ sticky[1] = [rank |-> f.badge, count |-> f.count, y |-> -1]
    BY <1>2
  <1>4. Headers(f) = sticky \o f.cards
    BY DEF Headers
  <1>5. Headers(f) \in Seq(HeaderRecords)
    BY <1>1, <1>3, <1>4
  <1>6. Len(Headers(f)) = 1 + Len(f.cards) /\ Headers(f)[1] = sticky[1]
    BY <1>1, <1>3, <1>4
  <1>7. DOMAIN Headers(f) = 1..Len(Headers(f)) /\ Len(Headers(f)) \in Nat
    BY <1>5
  <1>8. 1 \in DOMAIN Headers(f)
    BY <1>1, <1>6, <1>7
  <1>9. Headers(f)[1].y = -1
    BY <1>3, <1>6
  <1> QED BY <1>5, <1>7, <1>8, <1>9

LEMMA OwnersAreRanks ==
  ASSUME NEW f, Readable(f), NEW b, b.y \in Nat
  PROVE  Owner(f, b) \in Ranks
  <1> DEFINE above == {i \in DOMAIN Headers(f) : Headers(f)[i].y <= b.y}
  <1>1. PICK n \in Nat : DOMAIN Headers(f) = 1..n
    BY HeadersAreTyped
  <1>2. 1 \in above
    BY HeadersAreTyped
  <1>3. Max(above) \in above
    BY <1>1, <1>2, MaxIsGreatest
  <1>4. Headers(f)[Max(above)] \in HeaderRecords
    BY <1>3, HeadersAreTyped
  <1> QED BY <1>4 DEF Owner, HeaderRecords

LEMMA CountsAreNumbers ==
  ASSUME NEW f, Readable(f), NEW g
  PROVE  CountOn(f, g) \in Nat
  <1> DEFINE read == {i \in DOMAIN Headers(f) :
                        Headers(f)[i].rank = g /\ Headers(f)[i].count # 0}
  <1>1. CASE read = {}
    BY <1>1 DEF CountOn
  <1>2. CASE read # {}
    <2>1. read \in SUBSET Nat
      BY HeadersAreTyped
    <2>2. Min(read) \in read
      BY <1>2, <2>1, MinIsLeast
    <2>3. Headers(f)[Min(read)] \in HeaderRecords
      BY <2>2, HeadersAreTyped
    <2> QED BY <1>2, <2>3 DEF CountOn, HeaderRecords
  <1> QED BY <1>1, <1>2

LEMMA RanksOnAreRanks ==
  ASSUME NEW f, Readable(f)
  PROVE  RanksOn(f) \subseteq Ranks
  <1>1. \A i \in DOMAIN Headers(f) : Headers(f)[i] \in HeaderRecords
    BY HeadersAreTyped
  <1>2. \A i \in DOMAIN Headers(f) : Headers(f)[i].rank \in Ranks
    BY <1>1 DEF HeaderRecords
  <1> QED BY <1>2 DEF RanksOn

LEMMA UnreadIsCounted ==
  ASSUME NEW f, Readable(f)
  PROVE  Cardinality(Unread(f)) \in Nat
  <1>1. PICK n \in Nat : DOMAIN Headers(f) = 1..n
    BY HeadersAreTyped
  <1>2. IsFiniteSet(1..n)
    BY FS_Interval
  <1>3. Unread(f) \in SUBSET (1..n)
    BY <1>1 DEF Unread
  <1> QED BY <1>2, <1>3, FS_Subset, FS_CardinalityType

-----------------------------------------------------------------------------
(* The type invariant, strengthened: a row that was put before a human      *)
(* remembers it, and the frame whose rows are taken had its badge matched.  *)

SoundRows == {r \in RowRecords : r.asked = 1 => r.reviewed}

Trackers(known) ==
    [sighted : BOOLEAN, expected : Nat, contentY : Int,
     resolved : SUBSET known, rows : Seq(SoundRows)]

TypeInv ==
    /\ capture \in Captures
    /\ pc \in {"idle", "frames", "rows", "done"}
    /\ frame \in Nat /\ band \in Nat
    /\ prevRanks \subseteq Ranks
    /\ groups \in [Ranks -> Trackers(members)]
    /\ members \subseteq MemberRecords
    /\ facts \subseteq members
    /\ queue \in [Classes -> Nat]
    /\ status \in {"recorded", "complete", "partial"}
    /\ memberCount \in Nat
    /\ runs \in Nat
    /\ pc = "rows" => frame \in DOMAIN Frames /\ Current.badge # Unmatched

LEMMA SoundMeansTyped ==
  ASSUME TypeInv
  PROVE  TypeOK
  <1>1. SoundRows \subseteq RowRecords
    BY DEF SoundRows
  <1>2. \A s \in Seq(SoundRows) : s \in Seq(RowRecords)
    BY <1>1, SeqOfMore
  <1>3. Trackers(members) \subseteq
          [sighted : BOOLEAN, expected : Nat, contentY : Int,
           resolved : SUBSET members, rows : Seq(RowRecords)]
    BY <1>2 DEF Trackers
  <1> QED BY <1>3 DEF TypeInv, TypeOK

LEMMA MoreAreKnown ==
  ASSUME NEW S, NEW T, S \subseteq T
  PROVE  Trackers(S) \subseteq Trackers(T)
  BY DEF Trackers

\* The band and the row a run is at, and where the row goes.
LEMMA RowsAreTyped ==
  ASSUME TypeInv, AtRow
  PROVE  /\ Group \in Ranks
         /\ Band.y \in Nat /\ Band.player \in Players
         /\ Band.text \in Texts /\ Band.fields \in 0..3
         /\ Row \in SoundRows
         /\ \A row \in SoundRows : Collected(row) \in Seq(SoundRows)
  <1>1. /\ frame \in DOMAIN Frames /\ Current.badge # Unmatched
        /\ band \in DOMAIN Current.bands /\ capture \in Captures
    BY DEF AtRow, TypeInv
  <1>2. Readable(Current)
    BY <1>1, FramesAreTyped DEF Current
  <1>3. /\ Band.y \in Nat /\ Band.player \in Players
        /\ Band.text \in Texts /\ Band.fields \in 0..3
    BY <1>1, BandsAreTyped DEF Current, Band
  <1>4. Group \in Ranks
    BY <1>2, <1>3, OwnersAreRanks DEF Group
  <1>5. Rows \in Seq(SoundRows) /\ groups[Group].contentY \in Int
    BY <1>4 DEF TypeInv, Trackers, Rows
  <1>6. RowY \in Int
    BY <1>3, <1>5 DEF RowY
  <1>7. ASSUME Seen # {}
        PROVE  Index \in 1..Len(Rows)
    <2>1. Seen \in SUBSET Nat /\ Seen \subseteq 1..Len(Rows)
      BY <1>5 DEF Seen
    <2>2. Min(Seen) \in Seen
      BY <1>7, <2>1, MinIsLeast
    <2> QED BY <1>7, <2>1, <2>2 DEF Index
  <1>8. Row \in SoundRows
    <2>1. CASE Seen = {}
      BY <2>1, <1>3, <1>6 DEF Row, SoundRows, RowRecords
    <2>2. CASE Seen # {}
      BY <2>2, <1>5, <1>7 DEF Row
    <2> QED BY <2>1, <2>2
  <1>9. ASSUME NEW row \in SoundRows
        PROVE  Collected(row) \in Seq(SoundRows)
    <2>1. CASE Seen = {}
      BY <2>1, <1>5, <1>9 DEF Collected
    <2>2. CASE Seen # {}
      BY <2>2, <1>5, <1>7, <1>9 DEF Collected
    <2> QED BY <2>1, <2>2
  <1> QED BY <1>3, <1>4, <1>8, <1>9

LEMMA ResolvedIsTyped ==
  ASSUME TypeInv, ReadsRow, members \subseteq members',
         NEW m \in members', ResolveTo(m)
  PROVE  /\ groups' \in [Ranks -> Trackers(members')]
         /\ facts' \subseteq members'
         /\ queue' \in [Classes -> Nat]
  <1>1. AtRow
    BY DEF ReadsRow
  <1>2. groups \in [Ranks -> Trackers(members')]
    BY MoreAreKnown DEF TypeInv
  <1>3. [Row EXCEPT !.resolved = TRUE] \in SoundRows
    BY <1>1, RowsAreTyped DEF SoundRows, RowRecords
  <1>4. Collected([Row EXCEPT !.resolved = TRUE]) \in Seq(SoundRows)
    BY <1>1, <1>3, RowsAreTyped
  <1>5. groups' \in [Ranks -> Trackers(members')]
    BY <1>1, <1>2, <1>4, RowsAreTyped DEF ResolveTo, Trackers
  <1>6. facts' \subseteq members'
    BY DEF ResolveTo, TypeInv
  <1>7. queue' \in [Classes -> Nat]
    <2>1. Band.fields \in 0..3
      BY <1>1, RowsAreTyped
    <2>2. queue["field"] \in Nat /\ queue \in [Classes -> Nat]
      BY DEF TypeInv, Classes
    <2>3. queue["field"] + 3 - Band.fields \in Nat
      BY <2>1, <2>2
    <2> QED BY <2>2, <2>3 DEF ResolveTo
  <1> QED BY <1>5, <1>6, <1>7

LEMMA TypeInvInit ==
  ASSUME Init
  PROVE  TypeInv
  <1>1. members \subseteq MemberRecords
    BY RostersAssumption DEF Init, MemberRecords
  <1>2. Unsighted \in Trackers(members)
    BY DEF Unsighted, Trackers
  <1>3. groups \in [Ranks -> Trackers(members)]
    BY <1>2 DEF Init
  <1> QED BY <1>1, <1>3 DEF Init, TypeInv, Classes

LEMMA HeadersKeepTypes ==
  ASSUME TypeInv, ReadHeaders
  PROVE  TypeInv'
  <1>1. frame \in DOMAIN Frames /\ Current.badge # Unmatched /\ capture \in Captures
    BY DEF ReadHeaders, TypeInv
  <1>2. Readable(Current)
    BY <1>1, FramesAreTyped DEF Current
  <1>3. \A g \in Ranks : CountOn(Current, g) \in Nat
    BY <1>2, CountsAreNumbers
  <1>4. ASSUME NEW g \in Ranks
        PROVE  Sighted(g) \in Trackers(members)
    <2>1. groups[g] \in Trackers(members) /\ CountOn(Current, g) \in Nat
      BY <1>3 DEF TypeInv
    <2>2. Upgraded(groups[g], CountOn(Current, g)) \in Nat
      BY <2>1 DEF Upgraded, Trackers
    <2>3. Current.offset \in Int
      BY <1>2 DEF Readable
    <2>4. (IF g \in prevRanks THEN groups[g].contentY + Current.offset
                              ELSE groups[g].contentY) \in Int
      BY <2>1, <2>3 DEF Trackers
    <2> DEFINE count == Upgraded(groups[g], CountOn(Current, g))
               y     == IF g \in prevRanks THEN groups[g].contentY + Current.offset
                                          ELSE groups[g].contentY
    <2>5. Sighted(g) = [groups[g] EXCEPT !.sighted = TRUE, !.expected = count,
                                         !.contentY = y]
      BY DEF Sighted
    <2>6. count \in Nat /\ y \in Int
      BY <2>2, <2>4
    <2> HIDE DEF count, y
    <2> QED BY <2>1, <2>5, <2>6 DEF Trackers
  <1>5. groups' \in [Ranks -> Trackers(members)]
    BY <1>4 DEF ReadHeaders, TypeInv
  <1>6. prevRanks' \subseteq Ranks
    BY <1>2, RanksOnAreRanks DEF ReadHeaders
  <1>7. queue' \in [Classes -> Nat]
    <2>1. Cardinality(Unread(Current)) \in Nat
      BY <1>2, UnreadIsCounted
    <2>2. queue \in [Classes -> Nat] /\ queue["header"] \in Nat
      BY DEF TypeInv, Classes
    <2>3. queue' = [queue EXCEPT !["header"] = @ + Cardinality(Unread(Current))]
      BY DEF ReadHeaders
    <2> DEFINE n == queue["header"] + Cardinality(Unread(Current))
    <2>4. n \in Nat
      BY <2>1, <2>2
    <2>5. queue' = [queue EXCEPT !["header"] = n]
      BY <2>3
    <2> HIDE DEF n
    <2> QED BY <2>2, <2>4, <2>5
  <1>8. frame' \in DOMAIN Frames' /\ Current'.badge # Unmatched
    BY <1>1 DEF ReadHeaders, Frames, Current
  <1> QED BY <1>1, <1>5, <1>6, <1>7, <1>8 DEF ReadHeaders, TypeInv

LEMMA QueueKeepsTypes ==
  ASSUME TypeInv, QueueName
  PROVE  TypeInv'
  <1>1. AtRow
    BY DEF QueueName, ReadsRow
  <1>2. Row \in SoundRows /\ Group \in Ranks
    BY <1>1, RowsAreTyped
  <1>3. ASSUME NEW row \in SoundRows,
               groups' = [groups EXCEPT ![Group].rows = Collected(row)]
        PROVE  groups' \in [Ranks -> Trackers(members)]
    <2>1. Collected(row) \in Seq(SoundRows)
      BY <1>1, <1>3, RowsAreTyped
    <2>2. groups \in [Ranks -> Trackers(members)]
      BY DEF TypeInv
    <2> QED BY <1>2, <1>3, <2>1, <2>2 DEF Trackers
  <1>4. CASE Row.reviewed
    <2>1. Reviewed(Row) \in SoundRows
      BY <1>2 DEF Reviewed, SoundRows, RowRecords
    <2>2. groups' \in [Ranks -> Trackers(members)]
      BY <1>3, <1>4, <2>1 DEF QueueName
    <2> QED BY <1>1, <1>4, <2>2 DEF QueueName, ReadsRow, AtRow, TypeInv, Frames, Current
  <1>5. CASE ~Row.reviewed
    <2>1. Row.asked = 0
      BY <1>2, <1>5 DEF SoundRows, RowRecords
    <2>2. [Reviewed(Row) EXCEPT !.asked = @ + 1] \in SoundRows
      <3>1. PICK row \in RowRecords : row = Reviewed(Row)
        BY <1>2 DEF Reviewed, SoundRows, RowRecords
      <3>2. row.reviewed = TRUE /\ row.asked = 0
        BY <1>2, <2>1, <3>1 DEF Reviewed, SoundRows, RowRecords
      <3>3. [row EXCEPT !.asked = row.asked + 1] \in SoundRows
        BY <3>2 DEF SoundRows, RowRecords
      <3> QED BY <3>1, <3>3
    <2>3. groups' \in [Ranks -> Trackers(members)]
      BY <1>3, <1>5, <2>2 DEF QueueName
    <2>4. queue' \in [Classes -> Nat]
      BY <1>5 DEF QueueName, TypeInv, Classes
    <2> QED BY <1>1, <1>5, <2>3, <2>4 DEF QueueName, ReadsRow, AtRow, TypeInv, Frames, Current
  <1> QED BY <1>4, <1>5

LEMMA RowsKeepTypes ==
  ASSUME TypeInv, MatchRow \/ CreateMember
  PROVE  TypeInv'
  <1>1. AtRow /\ ReadsRow
    BY DEF MatchRow, CreateMember, ReadsRow
  <1>2. Group \in Ranks /\ Band.text \in Texts /\ Band.player \in Players
    BY <1>1, RowsAreTyped
  <1>3. CASE MatchRow
    <2>1. members' = members /\ members \subseteq MemberRecords
      BY <1>3 DEF MatchRow, TypeInv
    <2>2. PICK m \in members : ResolveTo(m)
      BY <1>3 DEF MatchRow, BestMatches
    <2>3. /\ groups' \in [Ranks -> Trackers(members')]
          /\ facts' \subseteq members' /\ queue' \in [Classes -> Nat]
      BY <1>1, <2>1, <2>2, ResolvedIsTyped
    <2> QED BY <1>1, <2>1, <2>3 DEF ReadsRow, AtRow, TypeInv, Frames, Current
  <1>4. CASE CreateMember
    <2>1. members' = members \cup {NewMember} /\ ResolveTo(NewMember)
      BY <1>4 DEF CreateMember
    <2>2. NewMember \in MemberRecords
      BY <1>2 DEF NewMember, MemberRecords, TypeInv
    <2>3. members' \subseteq MemberRecords
      BY <2>1, <2>2 DEF TypeInv
    <2>4. /\ groups' \in [Ranks -> Trackers(members')]
          /\ facts' \subseteq members' /\ queue' \in [Classes -> Nat]
      BY <1>1, <2>1, ResolvedIsTyped
    <2> QED BY <1>1, <2>3, <2>4 DEF ReadsRow, AtRow, TypeInv, Frames, Current
  <1> QED BY <1>3, <1>4

LEMMA TypeInvNext ==
  ASSUME TypeInv, [Next]_vars
  PROVE  TypeInv'
  <1>1. Unsighted \in Trackers(members)
    BY DEF Unsighted, Trackers
  <1>2. [g \in Ranks |-> Unsighted] \in [Ranks -> Trackers(members)]
    BY <1>1
  <1>3. CASE Begin
    BY <1>2, <1>3 DEF Begin, TypeInv, stored
  <1>4. CASE DropFrame
    <2>1. queue' \in [Classes -> Nat]
      BY <1>4 DEF DropFrame, TypeInv, Classes
    <2> QED BY <1>4, <2>1 DEF DropFrame, TypeInv
  <1>5. CASE ReadHeaders
    BY <1>5, HeadersKeepTypes
  <1>6. CASE EndFrame
    BY <1>6 DEF EndFrame, TypeInv, stored
  <1>7. CASE Finish
    <2>1. capture.total \in Nat
      BY FramesAssumption DEF TypeInv
    <2> QED BY <1>7, <2>1 DEF Finish, TypeInv
  <1>8. CASE Fail
    <2>1. memberCount' \in Nat
      BY <1>8, FramesAssumption DEF Fail, TypeInv
    <2> QED BY <1>2, <1>8, <2>1 DEF Fail, NothingInMemory, TypeInv
  <1>9. CASE SkipRow
    BY <1>9 DEF SkipRow, AtRow, TypeInv, stored, Frames, Current
  <1>10. CASE MatchRow \/ CreateMember
    BY <1>10, RowsKeepTypes
  <1>11. CASE QueueName
    BY <1>11, QueueKeepsTypes
  <1>12. CASE FailAfterCreating
    <2>1. NewMember \in MemberRecords
      BY <1>12, RowsAreTyped DEF FailAfterCreating, NewMember, MemberRecords, TypeInv
    <2>2. members' = members \cup {NewMember} /\ members' \subseteq MemberRecords
      BY <1>12, <2>1 DEF FailAfterCreating, TypeInv
    <2>3. groups' \in [Ranks -> Trackers(members')]
      BY <1>2, <1>12, <2>2, MoreAreKnown DEF FailAfterCreating, NothingInMemory
    <2> QED BY <1>12, <2>2, <2>3 DEF FailAfterCreating, NothingInMemory, TypeInv
  <1>13. CASE UNCHANGED vars
    BY <1>13 DEF vars, inMemory, stored, TypeInv, Frames, Current
  <1> QED BY <1>3, <1>4, <1>5, <1>6, <1>7, <1>8, <1>9, <1>10, <1>11, <1>12, <1>13
          DEF Next

\* Every variable keeps its type and no row is put before a human twice in a
\* run (queueNameReview, collectedRow.reviewed).
THEOREM RosterTyped == Spec => []TypeOK
  <1>1. Init => TypeInv
    BY TypeInvInit
  <1>2. TypeInv /\ [Next]_vars => TypeInv'
    BY TypeInvNext
  <1>3. TypeInv => TypeOK
    BY SoundMeansTyped
  <1> QED BY <1>1, <1>2, <1>3, PTL DEF Spec

-----------------------------------------------------------------------------
(* The creation budget, strengthened: the new members of a group are among  *)
(* those its rows were resolved to, and its count was read off a frame.     *)

Counted(g) ==
    /\ IsFiniteSet(groups[g].resolved)
    /\ MintedIn(g) \subseteq groups[g].resolved
    /\ groups[g].expected # 0 =>
          \E k \in FramesRead : CountOn(Frames[k], g) = groups[g].expected
    /\ MintedIn(g) # {} =>
          /\ groups[g].expected # 0
          /\ Cardinality(MintedIn(g)) <= groups[g].expected

BudgetInv ==
    /\ \A m \in members : m.run <= runs
    /\ pc # "idle" => \A g \in Ranks : Counted(g)

LEMMA BudgetIsWithin ==
  ASSUME BudgetInv
  PROVE  WithinBudget
  BY DEF BudgetInv, Counted, WithinBudget

LEMMA BudgetInit ==
  ASSUME Init
  PROVE  BudgetInv
  BY RostersAssumption DEF Init, BudgetInv

\* A step that neither mints a member of a group nor reads its headers.
LEMMA StaysCounted ==
  ASSUME NEW g \in Ranks, Counted(g), capture' = capture,
         FramesRead \subseteq FramesRead', MintedIn(g)' = MintedIn(g),
         groups'[g].expected = groups[g].expected,
         groups[g].resolved \subseteq groups'[g].resolved,
         IsFiniteSet(groups'[g].resolved)
  PROVE  Counted(g)'
  <1>1. Frames' = Frames
    BY DEF Frames
  <1>2. groups'[g].expected # 0 =>
            \E k \in FramesRead' : CountOn(Frames'[k], g) = groups'[g].expected
    BY <1>1 DEF Counted
  <1> QED BY <1>2 DEF Counted

LEMMA FramesStayRead ==
  ASSUME TypeInv, capture' = capture,
         \/ frame' = frame /\ pc' = pc
         \/ frame' = frame /\ pc # "rows"
         \/ frame' = frame + 1
  PROVE  FramesRead \subseteq FramesRead'
  <1>1. Frames' = Frames /\ frame \in Nat
    BY DEF Frames, TypeInv
  <1>2. \A k \in DOMAIN Frames : k \in Nat
    BY FramesAssumption DEF Frames, TypeInv
  <1> QED BY <1>1, <1>2 DEF FramesRead

LEMMA HeadersKeepBudget ==
  ASSUME TypeInv, BudgetInv, ReadHeaders, NEW g \in Ranks
  PROVE  Counted(g)'
  <1>1. /\ pc = "frames" /\ pc' = "rows" /\ frame' = frame
        /\ capture' = capture /\ members' = members /\ runs' = runs
        /\ frame \in DOMAIN Frames /\ Current.badge # Unmatched
    BY DEF ReadHeaders
  <1>2. Frames' = Frames
    BY <1>1 DEF Frames
  <1>3. FramesRead \subseteq FramesRead'
    BY <1>1, FramesStayRead
  <1>4. frame \in FramesRead'
    BY <1>1, <1>2 DEF FramesRead, Current
  <1>5. Counted(g)
    BY <1>1 DEF BudgetInv
  <1>6. MintedIn(g)' = MintedIn(g)
    BY <1>1 DEF MintedIn
  <1>7. groups[g] \in Trackers(members)
    BY DEF TypeInv
  <1>8. CASE g \notin RanksOn(Current)
    <2>1. groups'[g] = groups[g]
      BY <1>8 DEF ReadHeaders
    <2> QED BY <1>1, <1>3, <1>5, <1>6, <2>1, StaysCounted DEF Counted
  <1>9. CASE g \in RanksOn(Current)
    <2>1. groups'[g] = Sighted(g)
      BY <1>9 DEF ReadHeaders
    <2>2. /\ groups'[g].resolved = groups[g].resolved
          /\ groups'[g].expected = Upgraded(groups[g], CountOn(Current, g))
      BY <1>7, <2>1 DEF Sighted, Trackers
    <2>3. CASE groups[g].expected # 0
      <3>1. groups'[g].expected = groups[g].expected
        BY <2>2, <2>3 DEF Upgraded
      <3> QED BY <1>1, <1>3, <1>5, <1>6, <2>2, <3>1, StaysCounted DEF Counted
    <2>4. CASE groups[g].expected = 0
      <3>1. groups'[g].expected = CountOn(Current, g)
        BY <2>2, <2>4 DEF Upgraded
      <3>2. \E k \in FramesRead' : CountOn(Frames'[k], g) = groups'[g].expected
        BY <1>2, <1>4, <3>1 DEF Current
      <3>3. MintedIn(g)' = {}
        BY <1>5, <1>6, <2>4 DEF Counted
      <3>4. IsFiniteSet(groups'[g].resolved)
        BY <1>5, <2>2 DEF Counted
      <3> QED BY <3>2, <3>3, <3>4 DEF Counted
    <2> QED BY <2>3, <2>4
  <1> QED BY <1>8, <1>9

LEMMA CreateKeepsBudget ==
  ASSUME TypeInv, BudgetInv, CreateMember, NEW g \in Ranks
  PROVE  Counted(g)'
  <1>1. /\ AtRow /\ ReadsRow /\ CanCreate(groups[Group])
        /\ ResolveTo(NewMember) /\ members' = members \cup {NewMember}
    BY DEF CreateMember, ReadsRow, Creates
  <1>2. /\ pc = "rows" /\ pc' = pc /\ frame' = frame
        /\ capture' = capture /\ runs' = runs
    BY <1>1 DEF ReadsRow, AtRow
  <1>3. FramesRead \subseteq FramesRead'
    BY <1>2, FramesStayRead
  <1>4. Counted(g) /\ groups[g] \in Trackers(members) /\ Group \in Ranks
    BY <1>1, <1>2, RowsAreTyped DEF BudgetInv, TypeInv
  <1>5. NewMember.rank = Group /\ NewMember.run = runs
    BY DEF NewMember
  <1>6. CASE g # Group
    <2>1. groups'[g] = groups[g]
      BY <1>1, <1>4, <1>6 DEF ResolveTo, TypeInv
    <2>2. MintedIn(g)' = MintedIn(g)
      BY <1>1, <1>2, <1>5, <1>6 DEF MintedIn
    <2> QED BY <1>2, <1>3, <1>4, <2>1, <2>2, StaysCounted DEF Counted
  <1>7. CASE g = Group
    <2>1. /\ groups'[g].resolved = groups[g].resolved \cup {NewMember}
          /\ groups'[g].expected = groups[g].expected
      BY <1>1, <1>4, <1>7 DEF ResolveTo, Trackers, TypeInv
    <2>2. IsFiniteSet(groups[g].resolved) /\ MintedIn(g) \subseteq groups[g].resolved
      BY <1>4 DEF Counted
    <2>3. /\ groups[g].expected # 0 /\ groups[g].expected \in Nat
          /\ Cardinality(groups[g].resolved) < groups[g].expected
      BY <1>1, <1>4, <1>7 DEF CanCreate, Trackers
    <2>4. MintedIn(g)' = MintedIn(g) \cup {NewMember}
      BY <1>1, <1>2, <1>5, <1>7 DEF MintedIn
    <2>5. IsFiniteSet(groups'[g].resolved)
      BY <2>1, <2>2, FS_AddElement
    <2>6. Cardinality(MintedIn(g)') <= groups'[g].expected
      <3>1. /\ IsFiniteSet(MintedIn(g))
            /\ Cardinality(MintedIn(g)) <= Cardinality(groups[g].resolved)
        BY <2>2, FS_Subset
      <3>2. /\ Cardinality(MintedIn(g)) \in Nat
            /\ Cardinality(groups[g].resolved) \in Nat
        BY <2>2, <3>1, FS_CardinalityType
      <3>3. \/ Cardinality(MintedIn(g)') = Cardinality(MintedIn(g))
            \/ Cardinality(MintedIn(g)') = Cardinality(MintedIn(g)) + 1
        BY <2>4, <3>1, FS_AddElement
      <3> QED BY <2>1, <2>3, <3>1, <3>2, <3>3
    <2>7. \E k \in FramesRead' : CountOn(Frames'[k], g) = groups'[g].expected
      <3>1. Frames' = Frames
        BY <1>2 DEF Frames
      <3> QED BY <1>3, <1>4, <2>1, <2>3, <3>1 DEF Counted
    <2>8. MintedIn(g)' \subseteq groups'[g].resolved
      BY <2>1, <2>2, <2>4
    <2> QED BY <2>1, <2>3, <2>5, <2>6, <2>7, <2>8 DEF Counted
  <1> QED BY <1>6, <1>7

LEMMA OthersKeepBudget ==
  ASSUME TypeInv, BudgetInv, NEW g \in Ranks, pc # "idle",
         DropFrame \/ EndFrame \/ Finish \/ SkipRow \/ MatchRow \/ QueueName
  PROVE  Counted(g)'
  <1>1. /\ capture' = capture /\ runs' = runs /\ members' = members
        /\ \/ frame' = frame /\ pc' = pc
           \/ frame' = frame /\ pc # "rows"
           \/ frame' = frame + 1
    BY DEF DropFrame, EndFrame, Finish, SkipRow, MatchRow, QueueName, ReadsRow, stored
  <1>2. FramesRead \subseteq FramesRead'
    BY <1>1, FramesStayRead
  <1>3. Counted(g) /\ groups[g] \in Trackers(members)
    BY DEF BudgetInv, TypeInv
  <1>4. MintedIn(g)' = MintedIn(g)
    BY <1>1 DEF MintedIn
  <1>5. /\ groups'[g].expected = groups[g].expected
        /\ groups[g].resolved \subseteq groups'[g].resolved
        /\ IsFiniteSet(groups'[g].resolved)
    <2>1. CASE DropFrame \/ EndFrame \/ Finish \/ SkipRow
      <3>1. groups' = groups
        BY <2>1 DEF DropFrame, EndFrame, Finish, SkipRow
      <3> QED BY <1>3, <3>1 DEF Counted
    <2>2. CASE MatchRow
      <3>1. PICK m \in members : ResolveTo(m)
        BY <2>2 DEF MatchRow, BestMatches
      <3>2. /\ groups'[g].expected = groups[g].expected
            /\ \/ groups'[g].resolved = groups[g].resolved
               \/ groups'[g].resolved = groups[g].resolved \cup {m}
        BY <1>3, <3>1 DEF ResolveTo, Trackers, TypeInv
      <3> QED BY <1>3, <3>2, FS_AddElement DEF Counted
    <2>3. CASE QueueName
      <3>1. \E row : groups' = [groups EXCEPT ![Group].rows = Collected(row)]
        BY <2>3 DEF QueueName
      <3>2. /\ groups'[g].expected = groups[g].expected
            /\ groups'[g].resolved = groups[g].resolved
        BY <1>3, <3>1 DEF Trackers, TypeInv
      <3> QED BY <1>3, <3>2 DEF Counted
    <2> QED BY <2>1, <2>2, <2>3
  <1> QED BY <1>1, <1>2, <1>3, <1>4, <1>5, StaysCounted

LEMMA BudgetNext ==
  ASSUME TypeInv, BudgetInv, [Next]_vars
  PROVE  BudgetInv'
  <1>1. CASE Begin
    <2>1. /\ runs \in Nat /\ runs' = runs + 1 /\ members' = members
          /\ groups' = [g \in Ranks |-> Unsighted]
      BY <1>1 DEF Begin, stored, TypeInv
    <2>2. \A m \in members : m.run \in Nat /\ m.run <= runs
      BY DEF BudgetInv, TypeInv, MemberRecords
    <2>3. \A m \in members' : m.run <= runs' /\ m.run # runs'
      BY <2>1, <2>2
    <2>4. \A g : MintedIn(g)' = {}
      BY <2>3 DEF MintedIn
    <2>5. \A g \in Ranks : Counted(g)'
      BY <2>1, <2>4, FS_EmptySet DEF Counted, Unsighted
    <2> QED BY <2>3, <2>5 DEF BudgetInv
  <1>2. CASE ReadHeaders
    <2>1. \A g \in Ranks : Counted(g)'
      BY <1>2, HeadersKeepBudget
    <2> QED BY <1>2, <2>1 DEF ReadHeaders, BudgetInv
  <1>3. CASE CreateMember
    <2>1. \A g \in Ranks : Counted(g)'
      BY <1>3, CreateKeepsBudget
    <2>2. NewMember.run <= runs'
      BY <1>3 DEF CreateMember, ReadsRow, NewMember, TypeInv
    <2>3. \A m \in members' : m.run <= runs'
      BY <1>3, <2>2 DEF CreateMember, ReadsRow, BudgetInv
    <2> QED BY <2>1, <2>3 DEF BudgetInv
  <1>4. CASE Fail
    BY <1>4 DEF Fail, NothingInMemory, stored, BudgetInv
  <1>5. CASE FailAfterCreating
    <2>1. NewMember.run <= runs'
      BY <1>5 DEF FailAfterCreating, NewMember, TypeInv
    <2> QED BY <1>5, <2>1 DEF FailAfterCreating, NothingInMemory, BudgetInv
  <1>6. CASE DropFrame \/ EndFrame \/ Finish \/ SkipRow \/ MatchRow \/ QueueName
    <2>1. pc # "idle" /\ members' = members /\ runs' = runs
      BY <1>6 DEF DropFrame, EndFrame, Finish, SkipRow, MatchRow, QueueName, ReadsRow,
                  AtRow, stored
    <2>2. \A g \in Ranks : Counted(g)'
      BY <1>6, <2>1, OthersKeepBudget
    <2> QED BY <2>1, <2>2 DEF BudgetInv
  <1>7. CASE UNCHANGED vars
    <2>1. ASSUME pc # "idle", NEW g \in Ranks
          PROVE  Counted(g)'
      <3>1. Counted(g) /\ UNCHANGED <<capture, pc, frame, groups, members, runs>>
        BY <1>7, <2>1 DEF BudgetInv, vars, inMemory, stored
      <3>2. FramesRead \subseteq FramesRead' /\ MintedIn(g)' = MintedIn(g)
        BY <3>1 DEF FramesRead, Frames, MintedIn
      <3> QED BY <3>1, <3>2, StaysCounted DEF Counted
    <2> QED BY <1>7, <2>1 DEF BudgetInv, vars, inMemory, stored
  <1> QED BY <1>1, <1>2, <1>3, <1>4, <1>5, <1>6, <1>7 DEF Next

\* A run creates no more members of a group than a header it read states, and
\* none of a group without one (canCreate, noteHeader, noteResolved).
THEOREM BudgetKept == Spec => []WithinBudget
  <1>1. Init => TypeInv /\ BudgetInv
    BY TypeInvInit, BudgetInit
  <1>2. TypeInv /\ BudgetInv /\ [Next]_vars => (TypeInv /\ BudgetInv)'
    BY TypeInvNext, BudgetNext
  <1>3. BudgetInv => WithinBudget
    BY BudgetIsWithin
  <1> QED BY <1>1, <1>2, <1>3, PTL DEF Spec

-----------------------------------------------------------------------------
(* Where rows stand.  In a steady capture a row keeps its distance from the *)
(* place its player has, up to what the measured offsets have slipped.      *)

LastRead == IF pc = "rows" THEN frame ELSE frame - 1

\* A step of the run goes forward.
WalkInv ==
    /\ frame >= 1 /\ band >= 1
    /\ pc = "done" => frame \notin DOMAIN Frames
    /\ pc # "idle" => LastRead \in 0..Len(Frames)

Underway == Steady /\ pc # "idle"

InPlace(g, r) ==
    /\ RankOf[r.player] = g
    /\ \E k \in 1..LastRead :
          /\ Frames[k].open = g
          /\ Frames[LastRead].open = g =>
                r.y - PlaceOf[r.player] - Frames[k].slip
                  = groups[g].contentY - Frames[LastRead].top - Frames[LastRead].slip

RowsInPlace ==
    \A g \in Ranks : \A i \in DOMAIN groups[g].rows : InPlace(g, groups[g].rows[i])

OneRowEach ==
    \A g \in Ranks : \A i, j \in DOMAIN groups[g].rows :
        groups[g].rows[i].player = groups[g].rows[j].player => i = j

GeometryInv ==
    Underway =>
        /\ prevRanks = IF LastRead = 0 THEN {} ELSE RanksOn(Frames[LastRead])
        /\ RowsInPlace
        /\ OneRowEach

LEMMA CapturesAreTyped ==
  ASSUME capture \in Captures
  PROVE  /\ Len(Frames) \in Nat /\ DOMAIN Frames = 1..Len(Frames)
         /\ capture.total \in Nat
         /\ \A k \in DOMAIN Frames :
               /\ Frames[k].open \in Ranks
               /\ Frames[k].top \in Int /\ Frames[k].slip \in Int
               /\ Frames[k].offset \in Int
               /\ Len(Frames[k].bands) \in Nat
               /\ DOMAIN Frames[k].bands = 1..Len(Frames[k].bands)
  BY FramesAssumption DEF Frames

\* The capture never changes, nor what is said of it.
LEMMA CaptureStays ==
  ASSUME capture' = capture
  PROVE  /\ Frames' = Frames
         /\ Steady' <=> Steady
         /\ Lettered' <=> Lettered
         /\ Honest' <=> Honest
         /\ \A g, k : CountedBy(g, k)' <=> CountedBy(g, k)
  <1>1. Frames' = Frames
    BY DEF Frames
  <1> QED BY <1>1 DEF Steady, Lettered, Honest, CountedBy

LEMMA SteadyFrames ==
  ASSUME TypeInv, Steady, NEW k \in DOMAIN Frames
  PROVE  /\ Frames[k].badge # Unmatched
         /\ Frames[k].open \in RanksOn(Frames[k])
         /\ \A j \in DOMAIN Frames[k].bands :
               LET b == Frames[k].bands[j]
               IN  /\ Owner(Frames[k], b) = Frames[k].open
                   /\ RankOf[b.player] = Frames[k].open
                   /\ Frames[k].top + b.y = PlaceOf[b.player]
  BY DEF Steady, ShowsOpenGroup

LEMMA WalkInit ==
  ASSUME Init
  PROVE  WalkInv
  BY DEF Init, WalkInv

LEMMA WalkNext ==
  ASSUME TypeInv, WalkInv, [Next]_vars
  PROVE  WalkInv'
  <1>1. /\ capture \in Captures /\ frame \in Nat /\ band \in Nat
        /\ capture' = capture /\ Frames' = Frames
    BY DEF TypeInv, Next, vars, Begin, DropFrame, ReadHeaders, EndFrame, Finish, Fail,
           SkipRow, ReadsRow, MatchRow, CreateMember, FailAfterCreating, QueueName, Frames
  <1>2. Len(Frames) \in Nat /\ DOMAIN Frames = 1..Len(Frames)
    BY <1>1, CapturesAreTyped
  <1>3. CASE Begin
    BY <1>1, <1>2, <1>3 DEF Begin, WalkInv, LastRead
  <1>4. CASE DropFrame
    BY <1>1, <1>2, <1>4 DEF DropFrame, WalkInv, LastRead
  <1>5. CASE ReadHeaders
    BY <1>1, <1>2, <1>5 DEF ReadHeaders, WalkInv, LastRead
  <1>6. CASE EndFrame
    BY <1>1, <1>2, <1>6 DEF EndFrame, WalkInv, LastRead, TypeInv
  <1>7. CASE Finish
    BY <1>1, <1>2, <1>7 DEF Finish, WalkInv, LastRead
  <1>8. CASE Fail \/ FailAfterCreating
    BY <1>1, <1>2, <1>8 DEF Fail, FailAfterCreating, NothingInMemory, WalkInv, LastRead
  <1>9. CASE SkipRow \/ MatchRow \/ CreateMember \/ QueueName
    <2>1. /\ pc = "rows" /\ pc' = pc /\ frame' = frame /\ band' = band + 1
      BY <1>9 DEF SkipRow, MatchRow, CreateMember, QueueName, ReadsRow, AtRow
    <2> QED BY <1>1, <1>2, <2>1 DEF WalkInv, LastRead, TypeInv
  <1>10. CASE UNCHANGED vars
    BY <1>1, <1>10 DEF vars, inMemory, WalkInv, LastRead
  <1> QED BY <1>3, <1>4, <1>5, <1>6, <1>7, <1>8, <1>9, <1>10 DEF Next

\* The row under the run's eyes belongs to the open group and stands where its
\* player does.
LEMMA BandStands ==
  ASSUME TypeInv, WalkInv, Steady, AtRow
  PROVE  /\ frame \in DOMAIN Frames /\ frame \in 1..LastRead /\ LastRead = frame
         /\ Group = Frames[frame].open /\ Group = RankOf[Band.player]
         /\ Group \in Ranks /\ Band.player \in Players
         /\ RowY = groups[Group].contentY + PlaceOf[Band.player] - Frames[frame].top
         /\ groups[Group].contentY \in Int
  <1>1. /\ frame \in DOMAIN Frames /\ band \in DOMAIN Frames[frame].bands
        /\ pc = "rows" /\ capture \in Captures
    BY DEF AtRow, TypeInv, Current
  <1>2. LastRead = frame /\ frame \in 1..LastRead
    BY <1>1 DEF LastRead, WalkInv, TypeInv
  <1>3. /\ Owner(Frames[frame], Band) = Frames[frame].open
        /\ RankOf[Band.player] = Frames[frame].open
        /\ Frames[frame].top + Band.y = PlaceOf[Band.player]
    BY <1>1, SteadyFrames DEF Band, Current
  <1>4. Group = Frames[frame].open
    BY <1>3 DEF Group, Current
  <1>5. Group \in Ranks /\ Band.y \in Nat /\ Band.player \in Players
    BY RowsAreTyped
  <1>6. groups[Group].contentY \in Int
    BY <1>5 DEF TypeInv, Trackers
  <1>7. PlaceOf[Band.player] \in Nat /\ Frames[frame].top \in Int
    BY <1>1, <1>5, CapturesAreTyped, RosterAssumption
  <1>8. RowY = groups[Group].contentY + PlaceOf[Band.player] - Frames[frame].top
    BY <1>3, <1>5, <1>6, <1>7 DEF RowY
  <1> QED BY <1>1, <1>2, <1>3, <1>4, <1>5, <1>6, <1>8

\* What is collected at a place half a pitch away or less is this player's row,
\* and nothing else is.
LEMMA SeenIsTheRow ==
  ASSUME TypeInv, WalkInv, GeometryInv, Steady, AtRow
  PROVE  \A i \in DOMAIN Rows : i \in Seen <=> Rows[i].player = Band.player
  <1> SUFFICES ASSUME NEW i \in DOMAIN Rows
               PROVE  i \in Seen <=> Rows[i].player = Band.player
    OBVIOUS
  <1> DEFINE p == Band.player
             r == Rows[i]
             q == r.player
  <1>1. /\ frame \in DOMAIN Frames /\ LastRead = frame /\ frame \in 1..LastRead
        /\ Group = Frames[frame].open /\ Group = RankOf[p]
        /\ Group \in Ranks /\ p \in Players
        /\ RowY = groups[Group].contentY + PlaceOf[p] - Frames[frame].top
        /\ groups[Group].contentY \in Int
    BY BandStands
  <1>2. Rows \in Seq(SoundRows)
    BY <1>1 DEF TypeInv, Trackers, Rows
  <1>3. r \in SoundRows
    BY <1>2
  <1>4. r.y \in Int /\ q \in Players
    BY <1>3 DEF SoundRows, RowRecords
  <1>5. InPlace(Group, r)
    BY <1>1 DEF GeometryInv, Underway, RowsInPlace, Rows, AtRow
  <1>6. PICK k \in 1..LastRead :
          /\ Frames[k].open = Group
          /\ Frames[LastRead].open = Group =>
                r.y - PlaceOf[q] - Frames[k].slip
                  = groups[Group].contentY - Frames[LastRead].top - Frames[LastRead].slip
    BY <1>5 DEF InPlace
  <1>7. RankOf[q] = RankOf[p]
    BY <1>1, <1>5 DEF InPlace
  <1>8. DOMAIN Frames = 1..Len(Frames) /\ k \in DOMAIN Frames
    BY <1>1, <1>6, CapturesAreTyped DEF TypeInv
  <1>9. /\ Frames[k].slip \in Int /\ Frames[frame].slip \in Int /\ Frames[frame].top \in Int
        /\ PlaceOf[p] \in Nat /\ PlaceOf[q] \in Nat /\ Pitch \in Nat /\ Pitch > 0
    <2>1. /\ Frames[k].slip \in Int
          /\ Frames[frame].slip \in Int /\ Frames[frame].top \in Int
      BY <1>1, <1>8, CapturesAreTyped DEF TypeInv
    <2>2. PlaceOf[p] \in Nat /\ PlaceOf[q] \in Nat /\ Pitch \in Nat /\ Pitch > 0
      BY <1>1, <1>4, RosterAssumption
    <2>3. QED
      BY <2>1, <2>2
  <1>10. 2 * (Frames[k].slip - Frames[frame].slip) < Pitch
         /\ 2 * (Frames[frame].slip - Frames[k].slip) < Pitch
    BY <1>1, <1>6, <1>8 DEF Steady
  <1>11. RowY - r.y = PlaceOf[p] - PlaceOf[q] + Frames[frame].slip - Frames[k].slip
    <2> DEFINE c == groups[Group].contentY
               t == Frames[frame].top
               u == Frames[frame].slip
               v == Frames[k].slip
               x == PlaceOf[p]
               z == PlaceOf[q]
               y == r.y
    <2>1. RowY = c + x - t /\ c \in Int
      BY <1>1
    <2>2. y - z - v = c - t - u
      BY <1>1, <1>6
    <2>3. u \in Int /\ v \in Int /\ t \in Int /\ x \in Int /\ z \in Int /\ y \in Int
      BY <1>4, <1>9
    <2> HIDE DEF c, t, u, v, x, z, y
    <2>4. RowY - y = x - z + u - v
      BY <2>1, <2>2, <2>3
    <2> QED BY <2>4 DEF u, v, x, z, y
  <1>12. PICK h \in Nat : h = Pitch \div 2 /\ 2 * h <= Pitch /\ Pitch <= 2 * h + 1
    BY <1>9
  <1>13. i \in Seen <=> RowY - r.y \in (-h)..h
    BY <1>12 DEF Seen, Near
  <1>14. RowY - r.y \in Int
    BY <1>9, <1>11
  <1>15. CASE p = q
    <2>1. RowY - r.y = Frames[frame].slip - Frames[k].slip
      BY <1>9, <1>11, <1>15
    <2>2. RowY - r.y \in (-h)..h
      BY <1>9, <1>10, <1>12, <1>14, <2>1
    <2> QED BY <1>13, <1>15, <2>2
  <1>16. CASE p # q
    <2>1. PlaceOf[p] - PlaceOf[q] \notin (1 - Pitch)..(Pitch - 1)
      BY <1>1, <1>4, <1>7, <1>16, RosterAssumption
    <2>2. RowY - r.y \notin (-h)..h
      BY <1>9, <1>10, <1>11, <1>12, <1>14, <2>1
    <2> QED BY <1>13, <1>16, <2>2
  <1> QED BY <1>15, <1>16

LEMMA SightingsAreRight ==
  ASSUME TypeInv, WalkInv, GeometryInv, Steady
  PROVE  SightingsAgree
  <1> SUFFICES ASSUME AtRow, Seen # {}
               PROVE  Row.player = Band.player
    BY DEF SightingsAgree
  <1>1. Group \in Ranks
    BY BandStands
  <1>2. Rows \in Seq(SoundRows)
    BY <1>1 DEF TypeInv, Trackers, Rows
  <1>3. Seen \in SUBSET Nat /\ Seen \subseteq DOMAIN Rows
    BY <1>2 DEF Seen
  <1>4. Min(Seen) \in Seen
    BY <1>3, MinIsLeast
  <1> QED BY <1>3, <1>4, SeenIsTheRow DEF Row, Index

\* The row that is taken is the player's, in its place, and the only one of his.
LEMMA TheRow ==
  ASSUME TypeInv, WalkInv, GeometryInv, Steady, AtRow
  PROVE  /\ Row.player = Band.player
         /\ InPlace(Group, Row)
         /\ Index \in DOMAIN Rows => Rows[Index].player = Band.player
         /\ \A row :
               /\ DOMAIN Rows \subseteq DOMAIN Collected(row)
               /\ Index \in DOMAIN Collected(row) /\ Collected(row)[Index] = row
               /\ \A i \in DOMAIN Collected(row) \ {Index} :
                     /\ i \in DOMAIN Rows /\ Collected(row)[i] = Rows[i]
                     /\ Rows[i].player # Band.player
  <1>1. /\ frame \in DOMAIN Frames /\ LastRead = frame /\ frame \in 1..LastRead
        /\ Group = Frames[frame].open /\ Group = RankOf[Band.player]
        /\ Group \in Ranks /\ Band.player \in Players
        /\ RowY = groups[Group].contentY + PlaceOf[Band.player] - Frames[frame].top
        /\ groups[Group].contentY \in Int
    BY BandStands
  <1>2. Rows \in Seq(SoundRows) /\ Rows = groups[Group].rows
    BY <1>1 DEF TypeInv, Trackers, Rows
  <1>3. \A i \in DOMAIN Rows : i \in Seen <=> Rows[i].player = Band.player
    BY SeenIsTheRow
  <1>4. RowsInPlace /\ OneRowEach
    BY DEF GeometryInv, Underway, AtRow
  <1>5. CASE Seen = {}
    <2>1. /\ Row.player = Band.player /\ Row.y = RowY /\ Index = Len(Rows) + 1
          /\ \A row : Collected(row) = Append(Rows, row)
      BY <1>5 DEF Row, Index, Collected
    <2>2. InPlace(Group, Row)
      <3>1. /\ Frames[frame].slip \in Int /\ Frames[frame].top \in Int
            /\ PlaceOf[Band.player] \in Nat
        BY <1>1, CapturesAreTyped, RosterAssumption DEF TypeInv
      <3>2. Row.y - PlaceOf[Row.player] - Frames[frame].slip
              = groups[Group].contentY - Frames[LastRead].top - Frames[LastRead].slip
        BY <1>1, <2>1, <3>1
      <3> QED BY <1>1, <2>1, <3>2 DEF InPlace
    <2>3. \A row : /\ DOMAIN Append(Rows, row) = 1..Len(Rows) + 1
                   /\ Append(Rows, row)[Len(Rows) + 1] = row
                   /\ \A i \in 1..Len(Rows) : Append(Rows, row)[i] = Rows[i]
      BY <1>2
    <2>4. DOMAIN Rows = 1..Len(Rows) /\ Len(Rows) \in Nat
      BY <1>2
    <2>5. \A i \in DOMAIN Rows : Rows[i].player # Band.player
      BY <1>3, <1>5
    <2> QED BY <2>1, <2>2, <2>3, <2>4, <2>5
  <1>6. CASE Seen # {}
    <2>1. Seen \in SUBSET Nat /\ Seen \subseteq DOMAIN Rows
      BY <1>2 DEF Seen
    <2>2. Index \in Seen
      BY <1>6, <2>1, MinIsLeast DEF Index
    <2>3. /\ Row = Rows[Index] /\ Index \in DOMAIN Rows
          /\ \A row : Collected(row) = [Rows EXCEPT ![Index] = row]
      BY <1>6, <2>1, <2>2 DEF Row, Collected
    <2>4. Row.player = Band.player
      BY <1>3, <2>2, <2>3
    <2>5. InPlace(Group, Row)
      BY <1>1, <1>2, <1>4, <2>3 DEF RowsInPlace
    <2>6. \A i \in DOMAIN Rows \ {Index} : Rows[i].player # Band.player
      BY <1>1, <1>2, <1>4, <2>3, <2>4 DEF OneRowEach
    <2> QED BY <2>3, <2>4, <2>5, <2>6
  <1> QED BY <1>5, <1>6

\* The run has a row of p that is somebody.
Somebody(p) ==
    \E i \in DOMAIN groups[RankOf[p]].rows :
        groups[RankOf[p]].rows[i].player = p /\ groups[RankOf[p]].rows[i].resolved

LEMMA SomebodyIsSeen ==
  ASSUME TypeInv, WalkInv, GeometryInv, Steady, AtRow
  PROVE  Somebody(Band.player) <=> IsSomebody(Row)
  <1>1. Group = RankOf[Band.player] /\ Group \in Ranks
    BY BandStands
  <1>2. Rows \in Seq(SoundRows) /\ Rows = groups[Group].rows
    BY <1>1 DEF TypeInv, Trackers, Rows
  <1>3. \A i \in DOMAIN Rows : i \in Seen <=> Rows[i].player = Band.player
    BY SeenIsTheRow
  <1>4. OneRowEach
    BY DEF GeometryInv, Underway, AtRow
  <1>5. Seen \in SUBSET Nat /\ Seen \subseteq DOMAIN Rows
    BY <1>2 DEF Seen
  <1>6. CASE Seen = {}
    BY <1>1, <1>2, <1>3, <1>6 DEF Somebody, IsSomebody, Row
  <1>7. CASE Seen # {}
    <2>1. Index \in Seen /\ Row = Rows[Index]
      BY <1>5, <1>7, MinIsLeast DEF Index, Row
    <2>2. \A i \in DOMAIN Rows : Rows[i].player = Band.player => i = Index
      BY <1>1, <1>2, <1>3, <1>4, <1>5, <2>1 DEF OneRowEach
    <2>3. Index \in DOMAIN Rows /\ Rows[Index].player = Band.player
      BY <1>3, <1>5, <2>1
    <2> QED BY <1>1, <1>2, <2>1, <2>2, <2>3 DEF Somebody, IsSomebody
  <1> QED BY <1>6, <1>7

\* The group the run is at takes the row, everything else about it and every
\* other group stays where it stands.
Takes(row) ==
    /\ row.player = Row.player /\ row.y = Row.y
    /\ groups'[Group].rows = Collected(row)
    /\ \A g \in Ranks \ {Group} : groups'[g].rows = groups[g].rows
    /\ \A g \in Ranks : groups'[g].contentY = groups[g].contentY

LEMMA TakingKeepsPlaces ==
  ASSUME TypeInv, WalkInv, GeometryInv, Steady, ReadsRow, NEW row, Takes(row)
  PROVE  /\ GeometryInv'
         /\ \A p \in Players : Somebody(p) => Somebody(p)'
         /\ row.resolved =>
               \A p \in Players : p = Band.player => Somebody(p)'
  <1>1. /\ AtRow /\ ~IsSomebody(Row) /\ capture' = capture /\ frame' = frame
        /\ pc = "rows" /\ pc' = "rows" /\ prevRanks' = prevRanks
    BY DEF ReadsRow, AtRow
  <1>2. Frames' = Frames /\ LastRead' = LastRead
    BY <1>1 DEF Frames, LastRead
  <1>3. /\ prevRanks = IF LastRead = 0 THEN {} ELSE RanksOn(Frames[LastRead])
        /\ RowsInPlace /\ OneRowEach
    BY <1>1 DEF GeometryInv, Underway
  <1>4. Group = RankOf[Band.player] /\ Group \in Ranks
    BY <1>1, BandStands
  <1> DEFINE c == Collected(row)
  <1>5. /\ Row.player = Band.player /\ InPlace(Group, Row)
        /\ Index \in DOMAIN Rows => Rows[Index].player = Band.player
        /\ DOMAIN Rows \subseteq DOMAIN c
        /\ Index \in DOMAIN c /\ c[Index] = row
        /\ \A i \in DOMAIN c \ {Index} :
              i \in DOMAIN Rows /\ c[i] = Rows[i] /\ Rows[i].player # Band.player
    BY <1>1, TheRow
  <1>6. groups'[Group].rows = c /\ Rows = groups[Group].rows
    BY DEF Takes, Rows
  <1>7. row.player = Band.player
    BY <1>5 DEF Takes
  <1> HIDE DEF c
  <1>8. \A g \in Ranks : \A r : InPlace(g, r) => InPlace(g, r)'
    BY <1>2 DEF Takes, InPlace
  <1>9. InPlace(Group, row)
    BY <1>5 DEF Takes, InPlace
  <1>10. RowsInPlace'
    <2>1. ASSUME NEW g \in Ranks, NEW i \in DOMAIN groups'[g].rows, NEW r,
                 r = groups'[g].rows[i]
          PROVE  InPlace(g, r)'
      <3>1. CASE g # Group
        <4>1. InPlace(g, r)
          BY <1>3, <2>1, <3>1 DEF Takes, RowsInPlace
        <4> QED BY <1>8, <4>1
      <3>2. CASE g = Group
        <4>1. InPlace(g, r)
          BY <1>3, <1>5, <1>6, <1>9, <2>1, <3>2 DEF RowsInPlace
        <4> QED BY <1>8, <4>1
      <3> QED BY <3>1, <3>2
    <2> QED BY <2>1 DEF RowsInPlace, InPlace
  <1>11. OneRowEach'
    <2> SUFFICES ASSUME NEW g \in Ranks, NEW i \in DOMAIN groups'[g].rows,
                        NEW j \in DOMAIN groups'[g].rows,
                        groups'[g].rows[i].player = groups'[g].rows[j].player
                 PROVE  i = j
      BY DEF OneRowEach
    <2>1. CASE g # Group
      <3>1. groups'[g].rows = groups[g].rows
        BY <2>1 DEF Takes
      <3> QED BY <1>3, <3>1 DEF OneRowEach
    <2>2. CASE g = Group
      BY <1>3, <1>5, <1>6, <1>7, <2>2 DEF OneRowEach
    <2> QED BY <2>1, <2>2
  <1>12. ASSUME NEW p \in Players, Somebody(p)
         PROVE  Somebody(p)'
    <2>1. p # Band.player
      BY <1>1, <1>12, SomebodyIsSeen
    <2>2. PICK i \in DOMAIN groups[RankOf[p]].rows :
            groups[RankOf[p]].rows[i].player = p /\ groups[RankOf[p]].rows[i].resolved
      BY <1>12 DEF Somebody
    <2>3. RankOf[p] \in Ranks
      BY RosterAssumption
    <2>4. CASE RankOf[p] # Group
      BY <2>2, <2>3, <2>4 DEF Takes, Somebody
    <2>5. CASE RankOf[p] = Group
      <3>1. i \in DOMAIN c
        BY <1>5, <1>6, <2>2, <2>5
      <3>2. i # Index
        BY <1>5, <1>6, <2>1, <2>2, <2>5
      <3>3. c[i] = groups[RankOf[p]].rows[i]
        BY <1>5, <1>6, <2>5, <3>1, <3>2
      <3> QED BY <1>6, <2>2, <2>5, <3>1, <3>3 DEF Somebody
    <2> QED BY <2>4, <2>5
  <1>13. ASSUME row.resolved, NEW p \in Players, p = Band.player
         PROVE  Somebody(p)'
    BY <1>4, <1>5, <1>6, <1>7, <1>13 DEF Somebody
  <1>14. prevRanks' = IF LastRead' = 0 THEN {} ELSE RanksOn(Frames'[LastRead'])
    BY <1>1, <1>2, <1>3
  <1> QED BY <1>10, <1>11, <1>12, <1>13, <1>14 DEF GeometryInv

LEMMA RowStepsTake ==
  ASSUME TypeInv, MatchRow \/ CreateMember \/ QueueName
  PROVE  /\ ReadsRow
         /\ \E row : Takes(row) /\ (MatchRow \/ CreateMember => row.resolved)
         /\ \A g \in Ranks : /\ groups'[g].expected = groups[g].expected
                             /\ groups[g].resolved \subseteq groups'[g].resolved
  <1>1. ReadsRow /\ AtRow
    BY DEF MatchRow, CreateMember, QueueName, ReadsRow
  <1>2. Group \in Ranks /\ Row \in SoundRows
    BY <1>1, RowsAreTyped
  <1>3. groups \in [Ranks -> Trackers(members)]
    BY DEF TypeInv
  <1>4. ASSUME NEW row, row.player = Row.player, row.y = Row.y,
               \/ groups' = [groups EXCEPT ![Group].rows = Collected(row)]
               \/ \E m : groups' = [groups EXCEPT ![Group].resolved = @ \cup {m},
                                                  ![Group].rows = Collected(row)]
        PROVE  /\ Takes(row)
               /\ \A g \in Ranks : /\ groups'[g].expected = groups[g].expected
                                   /\ groups[g].resolved \subseteq groups'[g].resolved
    <2>1. groups'[Group].rows = Collected(row)
      BY <1>2, <1>3, <1>4 DEF Trackers
    <2>2. \A g \in Ranks \ {Group} : groups'[g] = groups[g]
      BY <1>2, <1>3, <1>4
    <2>3. /\ groups'[Group].contentY = groups[Group].contentY
          /\ groups'[Group].expected = groups[Group].expected
          /\ groups[Group].resolved \subseteq groups'[Group].resolved
      <3>1. groups[Group] \in Trackers(members)
        BY <1>2, <1>3
      <3>2. CASE groups' = [groups EXCEPT ![Group].rows = Collected(row)]
        <4>1. groups'[Group] = [groups[Group] EXCEPT !.rows = Collected(row)]
          BY <1>2, <1>3, <3>2
        <4> QED BY <3>1, <4>1 DEF Trackers
      <3>3. CASE \E m : groups' = [groups EXCEPT ![Group].resolved = @ \cup {m},
                                                 ![Group].rows = Collected(row)]
        <4>1. PICK m : groups'[Group] = [groups[Group] EXCEPT !.resolved = @ \cup {m},
                                                              !.rows = Collected(row)]
          BY <1>2, <1>3, <3>3
        <4> QED BY <3>1, <4>1 DEF Trackers
      <3> QED BY <1>4, <3>2, <3>3
    <2> QED BY <1>4, <2>1, <2>2, <2>3 DEF Takes
  <1>5. CASE MatchRow \/ CreateMember
    <2> DEFINE row == [Row EXCEPT !.resolved = TRUE]
    <2>1. PICK m : ResolveTo(m)
      BY <1>5 DEF MatchRow, CreateMember
    <2>2. row.player = Row.player /\ row.y = Row.y /\ row.resolved
      BY <1>2 DEF SoundRows, RowRecords
    <2>3. groups' = [groups EXCEPT ![Group].resolved = @ \cup {m},
                                   ![Group].rows = Collected(row)]
      BY <2>1 DEF ResolveTo
    <2> HIDE DEF row
    <2> QED BY <1>1, <1>4, <2>2, <2>3
  <1>6. CASE QueueName /\ ~(MatchRow \/ CreateMember)
    <2>1. PICK row : /\ groups' = [groups EXCEPT ![Group].rows = Collected(row)]
                     /\ \/ row = Reviewed(Row)
                        \/ row = [Reviewed(Row) EXCEPT !.asked = @ + 1]
      BY <1>6 DEF QueueName
    <2>2. row.player = Row.player /\ row.y = Row.y
      BY <1>2, <2>1 DEF Reviewed, SoundRows, RowRecords
    <2> QED BY <1>1, <1>4, <1>6, <2>1, <2>2
  <1> QED BY <1>5, <1>6

\* The next frame's headers move a group that was and is open by what was
\* measured, and no row of a group that opens now was collected before.
LEMMA HeadersKeepPlaces ==
  ASSUME TypeInv, WalkInv, GeometryInv, ReadHeaders
  PROVE  GeometryInv'
  <1> SUFFICES ASSUME Steady, Underway'
               PROVE  GeometryInv'
    BY CaptureStays DEF GeometryInv, Underway, ReadHeaders
  <1>1. /\ pc = "frames" /\ pc' = "rows" /\ frame' = frame /\ capture' = capture
        /\ frame \in DOMAIN Frames /\ Current = Frames[frame] /\ Frames' = Frames
        /\ prevRanks' = RanksOn(Frames[frame])
        /\ capture \in Captures /\ frame \in Nat /\ frame >= 1
    BY DEF ReadHeaders, Current, Frames, TypeInv, WalkInv
  <1>2. LastRead = frame - 1 /\ LastRead' = frame /\ LastRead' # 0
    BY <1>1 DEF LastRead
  <1>3. /\ prevRanks = IF LastRead = 0 THEN {} ELSE RanksOn(Frames[LastRead])
        /\ RowsInPlace /\ OneRowEach
    BY <1>1 DEF GeometryInv, Underway
  <1>4. DOMAIN Frames = 1..Len(Frames) /\ Len(Frames) \in Nat
    BY <1>1, CapturesAreTyped
  <1>5. \A g \in Ranks : groups'[g].rows = groups[g].rows
    <2> SUFFICES ASSUME NEW g \in Ranks
                 PROVE  groups'[g].rows = groups[g].rows
      OBVIOUS
    <2>1. groups[g] \in Trackers(members)
      BY DEF TypeInv
    <2>2. groups'[g] = groups[g] \/ groups'[g] = Sighted(g)
      BY DEF ReadHeaders
    <2> QED BY <2>1, <2>2 DEF Sighted, Trackers
  <1>6. ASSUME NEW g \in Ranks, NEW r \in SoundRows, InPlace(g, r)
        PROVE  InPlace(g, r)'
    <2>1. PICK k \in 1..LastRead :
            /\ Frames[k].open = g
            /\ Frames[LastRead].open = g =>
                  r.y - PlaceOf[r.player] - Frames[k].slip
                    = groups[g].contentY - Frames[LastRead].top - Frames[LastRead].slip
      BY <1>6 DEF InPlace
    <2>2. k \in 1..LastRead' /\ k \in DOMAIN Frames /\ LastRead \in DOMAIN Frames
      BY <1>1, <1>2, <1>4, <2>1
    <2>3. CASE Frames[frame].open # g
      BY <1>1, <1>2, <1>6, <2>1, <2>2, <2>3 DEF InPlace
    <2>4. CASE Frames[frame].open = g
      <3>1. Frames[LastRead].open = g
        <4>1. CASE k = LastRead
          BY <2>1, <4>1
        <4>2. CASE k # LastRead
          <5>1. k < LastRead /\ LastRead < frame
            BY <1>1, <1>2, <2>1, <4>2
          <5> QED BY <1>1, <2>1, <2>2, <2>4, <5>1 DEF Steady
        <4> QED BY <4>1, <4>2
      <3>2. Frames[frame].offset = Frames[frame].top - Frames[LastRead].top
                                   + Frames[frame].slip - Frames[LastRead].slip
        <4>1. frame = LastRead + 1
          BY <1>1, <1>2
        <4> QED BY <1>1, <2>2, <2>4, <3>1, <4>1 DEF Steady
      <3>3. g \in RanksOn(Frames[LastRead]) /\ g \in RanksOn(Frames[frame])
        BY <1>1, <2>2, <2>4, <3>1, SteadyFrames
      <3>4. groups'[g] = Sighted(g) /\ g \in prevRanks
        BY <1>1, <1>2, <1>3, <2>1, <3>3 DEF ReadHeaders
      <3>5. groups[g] \in Trackers(members)
        BY DEF TypeInv
      <3>6. groups'[g].contentY = groups[g].contentY + Frames[frame].offset
        BY <1>1, <3>4, <3>5 DEF Sighted, Trackers
      <3>7. /\ groups[g].contentY \in Int /\ r.y \in Int /\ PlaceOf[r.player] \in Nat
            /\ Frames[frame].top \in Int /\ Frames[frame].slip \in Int
            /\ Frames[frame].offset \in Int
            /\ Frames[LastRead].top \in Int /\ Frames[LastRead].slip \in Int
            /\ Frames[k].slip \in Int
        BY <1>1, <2>2, <3>5, CapturesAreTyped, RosterAssumption
           DEF Trackers, SoundRows, RowRecords
      <3>8. r.y - PlaceOf[r.player] - Frames[k].slip
              = groups'[g].contentY - Frames[frame].top - Frames[frame].slip
        BY <2>1, <3>1, <3>2, <3>6, <3>7
      <3> QED BY <1>1, <1>2, <1>6, <2>1, <2>2, <3>8 DEF InPlace
    <2> QED BY <2>3, <2>4
  <1>7. \A g \in Ranks : groups[g].rows \in Seq(SoundRows)
    BY DEF TypeInv, Trackers
  <1>8. RowsInPlace'
    <2>1. ASSUME NEW g \in Ranks, NEW i \in DOMAIN groups'[g].rows, NEW r,
                 r = groups'[g].rows[i]
          PROVE  InPlace(g, r)'
      <3>1. r = groups[g].rows[i] /\ i \in DOMAIN groups[g].rows
        BY <1>5, <2>1
      <3>2. r \in SoundRows
        BY <1>7, <3>1
      <3>3. InPlace(g, r)
        BY <1>3, <3>1 DEF RowsInPlace
      <3> QED BY <1>6, <3>2, <3>3
    <2> QED BY <2>1 DEF RowsInPlace, InPlace
  <1>9. OneRowEach'
    BY <1>3, <1>5 DEF OneRowEach
  <1> QED BY <1>1, <1>2, <1>8, <1>9 DEF GeometryInv

\* Steps that take no row and read no header.
LEMMA PlacesStay ==
  ASSUME GeometryInv, capture' = capture, UNCHANGED <<groups, prevRanks>>,
         pc # "idle", LastRead' = LastRead
  PROVE  GeometryInv'
  <1>1. Frames' = Frames /\ (Steady' <=> Steady)
    BY CaptureStays
  <1>2. \A g \in Ranks : \A r : InPlace(g, r)' <=> InPlace(g, r)
    BY <1>1 DEF InPlace
  <1>3. RowsInPlace' <=> RowsInPlace
    BY <1>1, <1>2 DEF RowsInPlace, InPlace
  <1>4. OneRowEach' <=> OneRowEach
    BY DEF OneRowEach
  <1> QED BY <1>1, <1>3, <1>4 DEF GeometryInv, Underway

LEMMA GeometryInit ==
  ASSUME Init
  PROVE  GeometryInv
  BY DEF Init, GeometryInv, Underway

LEMMA GeometryNext ==
  ASSUME TypeInv, WalkInv, GeometryInv, [Next]_vars
  PROVE  GeometryInv'
  <1>1. CASE Begin
    <2>1. /\ pc' = "frames" /\ frame' = 1 /\ prevRanks' = {}
          /\ \A g \in Ranks : groups'[g].rows = <<>>
      BY <1>1 DEF Begin, Unsighted
    <2>2. LastRead' = 0
      BY <2>1 DEF LastRead
    <2>3. RowsInPlace' /\ OneRowEach'
      BY <2>1 DEF RowsInPlace, OneRowEach
    <2> QED BY <2>1, <2>2, <2>3 DEF GeometryInv
  <1>2. CASE DropFrame
    <2>1. ~Steady /\ capture' = capture
      BY <1>2 DEF DropFrame, Steady, ShowsOpenGroup, Current
    <2> QED BY <2>1, CaptureStays DEF GeometryInv, Underway
  <1>3. CASE ReadHeaders
    BY <1>3, HeadersKeepPlaces
  <1>4. CASE EndFrame
    BY <1>4, PlacesStay DEF EndFrame, LastRead, TypeInv
  <1>5. CASE Finish
    BY <1>5, PlacesStay DEF Finish, LastRead
  <1>6. CASE SkipRow
    BY <1>6, PlacesStay DEF SkipRow, AtRow, LastRead
  <1>7. CASE MatchRow \/ CreateMember \/ QueueName
    <2>1. ReadsRow /\ \E row : Takes(row)
      BY <1>7, RowStepsTake
    <2>2. Steady => GeometryInv'
      BY <2>1, TakingKeepsPlaces
    <2>3. Steady' <=> Steady
      BY <2>1, CaptureStays DEF ReadsRow
    <2> QED BY <2>2, <2>3 DEF GeometryInv, Underway
  <1>8. CASE Fail \/ FailAfterCreating
    BY <1>8 DEF Fail, FailAfterCreating, NothingInMemory, GeometryInv, Underway
  <1>9. CASE UNCHANGED vars
    <2>1. pc = "idle" => GeometryInv'
      BY <1>9 DEF vars, inMemory, GeometryInv, Underway
    <2> QED BY <1>9, <2>1, PlacesStay DEF vars, inMemory, LastRead
  <1> QED BY <1>1, <1>2, <1>3, <1>4, <1>5, <1>6, <1>7, <1>8, <1>9 DEF Next

\* While a capture is steady, a band at the place of a collected row is a
\* photograph of that row, over any number of frames (seenRow, advance).
THEOREM SteadySightingsAgree == Spec => [](Steady => SightingsAgree)
  <1>1. Init => TypeInv /\ WalkInv /\ GeometryInv
    BY TypeInvInit, WalkInit, GeometryInit
  <1>2. TypeInv /\ WalkInv /\ GeometryInv /\ [Next]_vars
          => (TypeInv /\ WalkInv /\ GeometryInv)'
    BY TypeInvNext, WalkNext, GeometryNext
  <1>3. TypeInv /\ WalkInv /\ GeometryInv => (Steady => SightingsAgree)
    BY SightingsAreRight
  <1> QED BY <1>1, <1>2, <1>3, PTL DEF Spec

-----------------------------------------------------------------------------
(* As many rows as there are players, no two of one player: everybody's.    *)

\* A capture is called complete by the reconciliation of this very run.
StatusInv == pc = "done" /\ status = "complete" => Reconciled

LEMMA StatusNext ==
  ASSUME StatusInv, [Next]_vars
  PROVE  StatusInv'
  <1>1. CASE Finish
    BY <1>1 DEF Finish, StatusInv, Reconciled, Parsed, Tallies
  <1>2. CASE UNCHANGED vars
    BY <1>2 DEF vars, inMemory, stored, StatusInv, Reconciled, Parsed, Tallies
  <1>3. CASE Next /\ ~Finish
    <2>1. pc' # "done"
      BY <1>3 DEF Next, Begin, DropFrame, ReadHeaders, EndFrame, Fail, NothingInMemory,
                  SkipRow, MatchRow, CreateMember, FailAfterCreating, QueueName,
                  ReadsRow, AtRow
    <2> QED BY <2>1 DEF StatusInv
  <1> QED BY <1>1, <1>2, <1>3

LEMMA AsManyMeansAll ==
  ASSUME NEW D, NEW S, IsFiniteSet(S), NEW f \in [D -> S],
         \A d, e \in D : f[d] = f[e] => d = e,
         Cardinality(D) = Cardinality(S)
  PROVE  \A s \in S : \E d \in D : f[d] = s
  <1>1. f \in Injection(D, S)
    BY DEF Injection, IsInjective
  <1>2. f \in Surjection(D, S)
    BY <1>1, FS_Injection
  <1> QED BY <1>2 DEF Surjection

\* A group with as many rows as it has players has a row of each.
LEMMA GroupIsWhole ==
  ASSUME TypeInv, RowsInPlace, OneRowEach, NEW g \in Ranks,
         Len(groups[g].rows) = SizeOf(g)
  PROVE  \A p \in Players : RankOf[p] = g =>
            \E i \in DOMAIN groups[g].rows : groups[g].rows[i].player = p
  <1> DEFINE S == {p \in Players : RankOf[p] = g}
             D == DOMAIN groups[g].rows
             f == [i \in D |-> groups[g].rows[i].player]
  <1>1. groups[g].rows \in Seq(SoundRows)
    BY DEF TypeInv, Trackers
  <1>2. IsFiniteSet(S)
    BY FS_Subset, RosterAssumption
  <1>3. \A i \in D : groups[g].rows[i].player \in S
    BY <1>1 DEF RowsInPlace, InPlace, SoundRows, RowRecords
  <1>4. f \in [D -> S]
    BY <1>3
  <1>5. \A i, j \in D : f[i] = f[j] => i = j
    BY DEF OneRowEach
  <1>6. Cardinality(D) = Cardinality(S)
    <2>1. D = 1..Len(groups[g].rows) /\ Len(groups[g].rows) \in Nat
      BY <1>1
    <2>2. Cardinality(D) = Len(groups[g].rows)
      BY <2>1, FS_Interval
    <2> QED BY <2>2 DEF SizeOf
  <1>7. \A s \in S : \E i \in D : f[i] = s
    <2> HIDE DEF f, D, S
    <2> QED BY <1>2, <1>4, <1>5, <1>6, AsManyMeansAll
  <1> QED BY <1>7

\* As many rows as there are players are one of each.
LEMMA AllianceIsWhole ==
  ASSUME TypeInv, RowsInPlace, OneRowEach, Parsed = Cardinality(Players)
  PROVE  \A p \in Players :
            \E i \in DOMAIN groups[RankOf[p]].rows : groups[RankOf[p]].rows[i].player = p
  <1> DEFINE D == UNION {{g} \X DOMAIN groups[g].rows : g \in Ranks}
             f == [d \in D |-> groups[d[1]].rows[d[2]].player]
  <1>1. \A d \in D : /\ d = <<d[1], d[2]>> /\ d[1] \in Ranks
                     /\ d[2] \in DOMAIN groups[d[1]].rows
    OBVIOUS
  <1>2. \A g \in Ranks : groups[g].rows \in Seq(SoundRows)
    BY DEF TypeInv, Trackers
  <1> HIDE DEF D
  <1>3. \A d \in D : /\ f[d] \in Players /\ RankOf[f[d]] = d[1]
                     /\ f[d] = groups[d[1]].rows[d[2]].player
    <2> SUFFICES ASSUME NEW d \in D
                 PROVE  /\ groups[d[1]].rows[d[2]].player \in Players
                        /\ RankOf[groups[d[1]].rows[d[2]].player] = d[1]
      OBVIOUS
    <2>1. PICK g \in Ranks : g = d[1]
      BY <1>1
    <2>2. PICK i \in DOMAIN groups[g].rows : i = d[2]
      BY <1>1, <2>1
    <2>3. groups[g].rows[i] \in SoundRows /\ InPlace(g, groups[g].rows[i])
      BY <1>2 DEF RowsInPlace
    <2> QED BY <2>1, <2>2, <2>3 DEF InPlace, SoundRows, RowRecords
  <1>4. f \in [D -> Players]
    BY <1>3
  <1>5. \A d, e \in D : f[d] = f[e] => d = e
    <2> SUFFICES ASSUME NEW d \in D, NEW e \in D, f[d] = f[e]
                 PROVE  d = e
      OBVIOUS
    <2> HIDE DEF f
    <2>1. d[1] = e[1]
      BY <1>3
    <2>2. PICK g \in Ranks : g = d[1]
      BY <1>1
    <2>3. PICK i \in DOMAIN groups[g].rows : i = d[2]
      BY <1>1, <2>2
    <2>4. PICK j \in DOMAIN groups[g].rows : j = e[2]
      BY <1>1, <2>1, <2>2
    <2>5. groups[g].rows[i].player = groups[g].rows[j].player
      BY <1>3, <2>1, <2>2, <2>3, <2>4
    <2>6. d[2] = e[2]
      BY <2>3, <2>4, <2>5 DEF OneRowEach
    <2> QED BY <1>1, <2>1, <2>6
  <1>6. Cardinality(D) = Cardinality(Players)
    BY DEF Parsed, D
  <1>7. \A p \in Players : \E d \in D : f[d] = p
    <2> HIDE DEF f
    <2> QED BY <1>4, <1>5, <1>6, AsManyMeansAll, RosterAssumption
  <1> SUFFICES ASSUME NEW p \in Players
               PROVE  \E i \in DOMAIN groups[RankOf[p]].rows :
                         groups[RankOf[p]].rows[i].player = p
    OBVIOUS
  <1> HIDE DEF f
  <1>8. PICK d \in D : f[d] = p
    BY <1>7
  <1> QED BY <1>1, <1>3, <1>8

LEMMA CompleteIsWhole ==
  ASSUME TypeInv, BudgetInv, GeometryInv, StatusInv
  PROVE  CompleteSawEverybody
  <1> SUFFICES ASSUME Steady, Honest, pc = "done", status = "complete",
                      NEW p \in Players,
                      groups[RankOf[p]].sighted \/ capture.total # 0
               PROVE  \E i \in DOMAIN groups[RankOf[p]].rows :
                         groups[RankOf[p]].rows[i].player = p
    BY DEF CompleteSawEverybody
  <1> DEFINE g == RankOf[p]
  <1>1. g \in Ranks /\ RowsInPlace /\ OneRowEach /\ Reconciled /\ Counted(g)
    BY RosterAssumption DEF GeometryInv, Underway, StatusInv, BudgetInv
  <1>2. CASE groups[g].sighted
    <2>1. groups[g].expected # 0 /\ Len(groups[g].rows) = groups[g].expected
      BY <1>1, <1>2 DEF Reconciled, Tallies
    <2>2. PICK k \in FramesRead : CountOn(Frames[k], g) = groups[g].expected
      BY <1>1, <2>1 DEF Counted
    <2>3. CountOn(Frames[k], g) = SizeOf(g)
      BY <1>1, <2>1, <2>2 DEF Honest, FramesRead
    <2> QED BY <1>1, <2>1, <2>2, <2>3, GroupIsWhole
  <1>3. CASE capture.total # 0
    <2>1. Parsed = Cardinality(Players)
      BY <1>1, <1>3 DEF Reconciled, Honest
    <2> QED BY <1>1, <2>1, AllianceIsWhole
  <1> QED BY <1>2, <1>3

\* A capture called complete has a row of everybody in the groups it sighted,
\* and of the whole alliance once its total was read (reconcile).
THEOREM CompleteMeansEverybody == Spec => []CompleteSawEverybody
  <1>1. Init => /\ TypeInv /\ BudgetInv /\ WalkInv /\ GeometryInv
                /\ StatusInv
    BY TypeInvInit, BudgetInit, WalkInit, GeometryInit DEF Init, StatusInv
  <1>2. /\ TypeInv /\ BudgetInv /\ WalkInv /\ GeometryInv /\ StatusInv
        /\ [Next]_vars
        => (TypeInv /\ BudgetInv /\ WalkInv /\ GeometryInv /\ StatusInv)'
    BY TypeInvNext, BudgetNext, WalkNext, GeometryNext, StatusNext
  <1>3. TypeInv /\ BudgetInv /\ GeometryInv /\ StatusInv => CompleteSawEverybody
    BY CompleteIsWhole
  <1> QED BY <1>1, <1>2, <1>3, PTL DEF Spec

-----------------------------------------------------------------------------
(* Every photograph is put to use.                                          *)

Shots(k) == {[at |-> j, band |-> Frames[k].bands[j]] : j \in DOMAIN Frames[k].bands}

\* The run is done with the band at place j of frame k.
Taken(k, j) == k < frame \/ (k = frame /\ pc = "rows" /\ j < band)

\* As WouldResolve, with room under the count that the run took.
MayResolve(b, g, k) ==
    /\ b.text \notin Blanks
    /\ \/ \E m \in members : m.run < runs /\ Score[b.text][m.name] >= AutoAccept
       \/ /\ b.sure
          /\ CountedBy(g, k)
          /\ Cardinality(groups[g].resolved) < groups[g].expected
          /\ \A m \in members : Score[b.text][m.name] < ReviewFloor

\* A group has a count from the first frame on that shows one.
CountInv ==
    Underway => \A g \in Ranks : CountedBy(g, LastRead) <=> groups[g].expected # 0

UsedInv ==
    Underway =>
        \A k \in DOMAIN Frames : \A s \in Shots(k) :
            Taken(k, s.at) /\ MayResolve(s.band, RankOf[s.band.player], k) =>
                Somebody(s.band.player)

LEMMA CountedRankIsOn ==
  ASSUME NEW f, Readable(f), NEW g, CountOn(f, g) # 0
  PROVE  g \in RanksOn(f)
  <1> DEFINE read == {i \in DOMAIN Headers(f) :
                        Headers(f)[i].rank = g /\ Headers(f)[i].count # 0}
  <1>1. PICK i \in read : TRUE
    BY DEF CountOn
  <1> QED BY <1>1 DEF RanksOn

LEMMA CountNext ==
  ASSUME TypeInv, WalkInv, CountInv, [Next]_vars
  PROVE  CountInv'
  <1>1. CASE Begin
    <2>1. /\ pc' = "frames" /\ frame' = 1
          /\ \A g \in Ranks : groups'[g].expected = 0
      BY <1>1 DEF Begin, Unsighted
    <2>2. LastRead' = 0
      BY <2>1 DEF LastRead
    <2> QED BY <2>1, <2>2 DEF CountInv, CountedBy
  <1>2. CASE ReadHeaders
    <2> SUFFICES ASSUME Steady, NEW g \in Ranks
                 PROVE  CountedBy(g, LastRead)' <=> groups'[g].expected # 0
      BY <1>2, CaptureStays DEF CountInv, Underway, ReadHeaders
    <2>1. /\ pc = "frames" /\ pc' = "rows" /\ frame' = frame /\ capture' = capture
          /\ frame \in DOMAIN Frames /\ Current = Frames[frame] /\ Frames' = Frames
          /\ capture \in Captures /\ frame \in Nat /\ frame >= 1
          /\ Current.badge # Unmatched
      BY <1>2 DEF ReadHeaders, Current, Frames, TypeInv, WalkInv
    <2>2. LastRead = frame - 1 /\ LastRead' = frame
      BY <2>1 DEF LastRead
    <2>3. CountedBy(g, LastRead) <=> groups[g].expected # 0
      BY <2>1 DEF CountInv, Underway
    <2>4. CountedBy(g, LastRead)' <=> CountedBy(g, LastRead) \/ CountOn(Current, g) # 0
      <3>1. \A l : l \in 1..frame <=> l \in 1..(frame - 1) \/ l = frame
        BY <2>1
      <3> QED BY <2>1, <2>2, <3>1 DEF CountedBy
    <2>5. groups[g] \in Trackers(members)
      BY DEF TypeInv
    <2>6. CASE g \in RanksOn(Current)
      <3>1. groups'[g] = Sighted(g)
        BY <1>2, <2>6 DEF ReadHeaders
      <3>2. groups'[g].expected = Upgraded(groups[g], CountOn(Current, g))
        BY <2>5, <3>1 DEF Sighted, Trackers
      <3> QED BY <2>3, <2>4, <3>2 DEF Upgraded
    <2>7. CASE g \notin RanksOn(Current)
      <3>1. groups'[g] = groups[g]
        BY <1>2, <2>7 DEF ReadHeaders
      <3>2. CountOn(Current, g) = 0
        BY <2>1, <2>7, FramesAreTyped, CountedRankIsOn
      <3> QED BY <2>3, <2>4, <3>1, <3>2
    <2> QED BY <2>6, <2>7
  <1>3. CASE DropFrame
    <2>1. ~Steady /\ capture' = capture
      BY <1>3 DEF DropFrame, Steady, ShowsOpenGroup, Current
    <2> QED BY <2>1, CaptureStays DEF CountInv, Underway
  <1>4. CASE Fail \/ FailAfterCreating
    BY <1>4 DEF Fail, FailAfterCreating, NothingInMemory, CountInv, Underway
  <1>5. ASSUME pc # "idle", capture' = capture, LastRead' = LastRead,
               \A g \in Ranks : groups'[g].expected = groups[g].expected
        PROVE  CountInv'
    <2>1. \A g \in Ranks : CountedBy(g, LastRead)' <=> CountedBy(g, LastRead)
      BY <1>5 DEF CountedBy, Frames
    <2>2. Steady' <=> Steady
      BY <1>5, CaptureStays
    <2> QED BY <1>5, <2>1, <2>2 DEF CountInv, Underway
  <1>6. CASE EndFrame \/ Finish \/ SkipRow
    <2>1. /\ pc # "idle" /\ capture' = capture /\ LastRead' = LastRead
          /\ groups' = groups
      BY <1>6 DEF EndFrame, Finish, SkipRow, AtRow, LastRead, TypeInv
    <2> QED BY <1>5, <2>1
  <1>7. CASE MatchRow \/ CreateMember \/ QueueName
    <2>1. ReadsRow /\ \A g \in Ranks : groups'[g].expected = groups[g].expected
      BY <1>7, RowStepsTake
    <2>2. pc = "rows" /\ capture' = capture /\ LastRead' = LastRead
      BY <2>1 DEF ReadsRow, AtRow, LastRead
    <2> QED BY <1>5, <2>1, <2>2
  <1>8. CASE UNCHANGED vars
    <2>1. pc = "idle" => CountInv'
      BY <1>8 DEF vars, inMemory, CountInv, Underway
    <2> QED BY <1>5, <1>8, <2>1 DEF vars, inMemory, LastRead
  <1> QED BY <1>1, <1>2, <1>3, <1>4, <1>5, <1>6, <1>7, <1>8 DEF Next

\* Scores are numbers.
LEMMA ScoresAreNumbers ==
  ASSUME NEW t \in Texts, TypeInv, NEW m \in members
  PROVE  Score[t][m.name] \in 0..100
  BY RosterAssumption DEF TypeInv, MemberRecords

\* What the run goes on with: more members, all new ones its own, and groups
\* whose count is set once and whose members are only added to.
GoesOn ==
    /\ capture' = capture /\ runs' = runs
    /\ members \subseteq members'
    /\ \A m \in members' \ members : m.run = runs
    /\ \A g \in Ranks :
          /\ groups[g].resolved \subseteq groups'[g].resolved
          /\ groups[g].expected # 0 => groups'[g].expected = groups[g].expected

\* What would identify a row later would have identified it then.
LEMMA HopeOnlyFades ==
  ASSUME TypeInv, TypeInv', BudgetInv', WalkInv, CountInv, Underway, pc' # "idle", GoesOn,
         NEW g \in Ranks, NEW k \in DOMAIN Frames, k <= LastRead,
         NEW b, b.text \in Texts, MayResolve(b, g, k)'
  PROVE  MayResolve(b, g, k)
  <1>1. b.text \notin Blanks /\ runs' = runs /\ members \subseteq members'
    BY DEF MayResolve, GoesOn
  <1>2. CASE \E m \in members' : m.run < runs' /\ Score[b.text][m.name] >= AutoAccept
    <2>1. PICK m \in members' : m.run < runs' /\ Score[b.text][m.name] >= AutoAccept
      BY <1>2
    <2>2. m.run # runs
      BY <1>1, <2>1 DEF TypeInv
    <2>3. m \in members
      BY <2>2 DEF GoesOn
    <2> QED BY <1>1, <2>1, <2>3 DEF MayResolve
  <1>3. CASE /\ b.sure
             /\ CountedBy(g, k)'
             /\ Cardinality(groups'[g].resolved) < groups'[g].expected
             /\ \A m \in members' : Score[b.text][m.name] < ReviewFloor
    <2>1. CountedBy(g, k)
      BY <1>3, CaptureStays DEF GoesOn
    <2>2. CountedBy(g, LastRead)
      <3>1. k \in Nat /\ LastRead \in Nat
        BY CapturesAreTyped DEF TypeInv, WalkInv, Underway
      <3> QED BY <2>1, <3>1 DEF CountedBy
    <2>3. groups'[g].expected = groups[g].expected
      BY <2>2 DEF CountInv, GoesOn
    <2>4. Cardinality(groups[g].resolved) < groups[g].expected
      <3>1. IsFiniteSet(groups'[g].resolved)
        BY DEF BudgetInv, Counted
      <3>2. groups[g].resolved \subseteq groups'[g].resolved
        BY DEF GoesOn
      <3>3. /\ IsFiniteSet(groups[g].resolved)
            /\ Cardinality(groups[g].resolved) <= Cardinality(groups'[g].resolved)
        BY <3>1, <3>2, FS_Subset
      <3>4. /\ Cardinality(groups[g].resolved) \in Nat
            /\ Cardinality(groups'[g].resolved) \in Nat
        BY <3>1, <3>3, FS_CardinalityType
      <3>5. groups[g].expected \in Nat
        BY DEF TypeInv, Trackers
      <3> QED BY <1>3, <2>3, <3>3, <3>4, <3>5
    <2> QED BY <1>1, <1>3, <2>1, <2>4 DEF MayResolve
  <1> QED BY <1>2, <1>3 DEF MayResolve

LEMMA ShotsAreTyped ==
  ASSUME TypeInv, NEW k \in DOMAIN Frames, NEW s \in Shots(k)
  PROVE  /\ s.at \in DOMAIN Frames[k].bands /\ s.at \in Nat /\ s.at >= 1
         /\ s.band = Frames[k].bands[s.at]
         /\ s.band.text \in Texts /\ s.band.player \in Players
         /\ RankOf[s.band.player] \in Ranks
  <1>1. PICK j \in DOMAIN Frames[k].bands : s = [at |-> j, band |-> Frames[k].bands[j]]
    BY DEF Shots
  <1>2. s.at = j /\ s.band = Frames[k].bands[j]
    BY <1>1
  <1>3. j \in Nat /\ j >= 1
    BY CapturesAreTyped DEF TypeInv
  <1>4. s.band.text \in Texts /\ s.band.player \in Players
    BY <1>2, BandsAreTyped DEF TypeInv
  <1> QED BY <1>2, <1>3, <1>4, RosterAssumption

\* The steps of a run that goes on.
LEMMA StepsGoOn ==
  ASSUME TypeInv, Next, ~Begin, pc' # "idle"
  PROVE  GoesOn /\ pc # "idle"
  <1>1. CASE DropFrame \/ EndFrame \/ Finish \/ SkipRow
    BY <1>1 DEF DropFrame, EndFrame, Finish, SkipRow, AtRow, GoesOn, stored
  <1>2. CASE ReadHeaders
    <2>1. ASSUME NEW g \in Ranks
          PROVE  /\ groups[g].resolved \subseteq groups'[g].resolved
                 /\ groups[g].expected # 0 => groups'[g].expected = groups[g].expected
      <3>1. groups[g] \in Trackers(members)
        BY DEF TypeInv
      <3>2. groups'[g] = groups[g] \/ groups'[g] = Sighted(g)
        BY <1>2 DEF ReadHeaders
      <3> QED BY <3>1, <3>2 DEF Sighted, Upgraded, Trackers
    <2> QED BY <1>2, <2>1 DEF ReadHeaders, GoesOn
  <1>3. CASE MatchRow \/ CreateMember \/ QueueName
    <2>1. /\ ReadsRow
          /\ \A g \in Ranks : /\ groups'[g].expected = groups[g].expected
                              /\ groups[g].resolved \subseteq groups'[g].resolved
      BY <1>3, RowStepsTake
    <2>2. /\ members \subseteq members'
          /\ \A m \in members' \ members : m.run = runs
      BY <1>3 DEF MatchRow, CreateMember, QueueName, NewMember
    <2> QED BY <2>1, <2>2 DEF ReadsRow, AtRow, GoesOn
  <1>4. CASE Fail \/ FailAfterCreating
    BY <1>4 DEF Fail, FailAfterCreating, NothingInMemory
  <1> QED BY <1>1, <1>2, <1>3, <1>4 DEF Next

\* A row stays somebody.
LEMMA SomebodyStays ==
  ASSUME TypeInv, WalkInv, GeometryInv, Steady, Next, ~Begin, pc' # "idle",
         NEW p \in Players, Somebody(p)
  PROVE  Somebody(p)'
  <1>1. CASE MatchRow \/ CreateMember \/ QueueName
    BY <1>1, RowStepsTake, TakingKeepsPlaces
  <1>2. CASE DropFrame \/ EndFrame \/ Finish \/ SkipRow
    BY <1>2 DEF DropFrame, EndFrame, Finish, SkipRow, Somebody
  <1>3. CASE ReadHeaders
    <2>1. RankOf[p] \in Ranks
      BY RosterAssumption
    <2>2. groups[RankOf[p]] \in Trackers(members)
      BY <2>1 DEF TypeInv
    <2>3. groups'[RankOf[p]] = groups[RankOf[p]] \/ groups'[RankOf[p]] = Sighted(RankOf[p])
      BY <1>3, <2>1 DEF ReadHeaders
    <2>4. groups'[RankOf[p]].rows = groups[RankOf[p]].rows
      BY <2>2, <2>3 DEF Sighted, Trackers
    <2> QED BY <2>4 DEF Somebody
  <1>4. CASE Fail \/ FailAfterCreating
    BY <1>4 DEF Fail, FailAfterCreating, NothingInMemory
  <1> QED BY <1>1, <1>2, <1>3, <1>4 DEF Next

\* What a step is done with, it was done with before, or it is the band taken.
LEMMA TakenNow ==
  ASSUME TypeInv, WalkInv, Steady, Next, ~Begin, pc' # "idle",
         NEW k \in DOMAIN Frames, NEW s \in Shots(k), Taken(k, s.at)'
  PROVE  /\ k <= LastRead'
         /\ \/ Taken(k, s.at) /\ k <= LastRead
            \/ /\ AtRow /\ k = frame /\ s.band = Band
               /\ SkipRow \/ MatchRow \/ CreateMember \/ QueueName
  <1>1. /\ s.at \in DOMAIN Frames[k].bands /\ s.at \in Nat /\ s.at >= 1
        /\ s.band = Frames[k].bands[s.at]
    BY ShotsAreTyped
  <1>2. /\ DOMAIN Frames = 1..Len(Frames) /\ Len(Frames) \in Nat /\ k \in Nat
        /\ frame \in Nat /\ band \in Nat /\ frame >= 1 /\ band >= 1
    BY CapturesAreTyped DEF TypeInv, WalkInv
  <1>3. CASE DropFrame
    BY <1>3 DEF DropFrame, Steady, ShowsOpenGroup, Current
  <1>4. CASE ReadHeaders
    BY <1>1, <1>2, <1>4 DEF ReadHeaders, Taken, LastRead
  <1>5. CASE EndFrame
    <2>1. /\ pc = "rows" /\ pc' = "frames" /\ frame' = frame + 1
          /\ band \notin DOMAIN Frames[frame].bands
      BY <1>5 DEF EndFrame, Current
    <2>2. k = frame => s.at < band
      <3> SUFFICES ASSUME k = frame
                   PROVE  s.at < band
        OBVIOUS
      <3>1. DOMAIN Frames[k].bands = 1..Len(Frames[k].bands) /\ Len(Frames[k].bands) \in Nat
        BY CapturesAreTyped DEF TypeInv
      <3> QED BY <1>1, <1>2, <2>1, <3>1
    <2> QED BY <1>1, <1>2, <2>1, <2>2 DEF Taken, LastRead
  <1>6. CASE Finish
    BY <1>1, <1>2, <1>6 DEF Finish, Taken, LastRead
  <1>7. CASE SkipRow \/ MatchRow \/ CreateMember \/ QueueName
    <2>1. /\ AtRow /\ pc = "rows" /\ pc' = "rows" /\ frame' = frame /\ band' = band + 1
      BY <1>7 DEF SkipRow, MatchRow, CreateMember, QueueName, ReadsRow, AtRow
    <2>2. k < frame \/ (k = frame /\ s.at < band) \/ (k = frame /\ s.at = band)
      BY <1>1, <1>2, <2>1 DEF Taken
    <2>3. k = frame /\ s.at = band => s.band = Band
      BY <1>1 DEF Band, Current
    <2> QED BY <1>2, <1>7, <2>1, <2>2, <2>3 DEF Taken, LastRead
  <1>8. CASE Fail \/ FailAfterCreating
    BY <1>8 DEF Fail, FailAfterCreating, NothingInMemory
  <1> QED BY <1>3, <1>4, <1>5, <1>6, <1>7, <1>8 DEF Next

\* A band that would identify its row is not put before a human.
LEMMA GoodOnesAreRead ==
  ASSUME TypeInv, BudgetInv, WalkInv, CountInv, Steady, AtRow,
         MayResolve(Band, Group, frame)
  PROVE  ~QueueName
  <1> SUFFICES ASSUME QueueName
               PROVE  FALSE
    OBVIOUS
  <1>1. /\ Band.text \notin Blanks /\ Band.text \in Texts
        /\ ~Resembles(AutoAccept) /\ ~Creates
    BY RowsAreTyped DEF QueueName, MayResolve
  <1>2. ~\E m \in members : m.run < runs /\ Score[Band.text][m.name] >= AutoAccept
    BY <1>1 DEF Resembles, Likeness
  <1>3. /\ Band.sure /\ CountedBy(Group, frame)
        /\ Cardinality(groups[Group].resolved) < groups[Group].expected
        /\ \A m \in members : Score[Band.text][m.name] < ReviewFloor
    BY <1>2 DEF MayResolve
  <1>4. Group \in Ranks /\ LastRead = frame
    BY BandStands
  <1>5. groups[Group].expected # 0
    BY <1>3, <1>4 DEF CountInv, Underway, AtRow
  <1>6. ~Resembles(ReviewFloor)
    <2>1. \A m \in members : Score[Band.text][m.name] \in 0..100
      BY <1>1, ScoresAreNumbers
    <2>2. ReviewFloor \in Nat
      BY RosterAssumption
    <2> QED BY <1>3, <2>1, <2>2 DEF Resembles, Likeness
  <1> QED BY <1>1, <1>3, <1>5, <1>6 DEF Creates, CanCreate

LEMMA UsedNext ==
  ASSUME TypeInv, BudgetInv, WalkInv, GeometryInv, CountInv, UsedInv,
         TypeInv', BudgetInv', [Next]_vars
  PROVE  UsedInv'
  <1>1. CASE Begin
    <2>1. frame' = 1 /\ pc' = "frames" /\ Frames' = Frames
      BY <1>1 DEF Begin, Frames
    <2>2. \A k \in DOMAIN Frames' : \A j : ~Taken(k, j)'
      <3>1. \A k \in DOMAIN Frames' : k \in Nat /\ k >= 1
        BY <2>1, CapturesAreTyped DEF TypeInv
      <3> QED BY <2>1, <3>1 DEF Taken
    <2> QED BY <2>2 DEF UsedInv
  <1>2. CASE Next /\ ~Begin
    <2> SUFFICES ASSUME Steady', pc' # "idle",
                        NEW k \in DOMAIN Frames', NEW s \in Shots(k)',
                        Taken(k, s.at)',
                        MayResolve(s.band, RankOf[s.band.player], k)'
                 PROVE  Somebody(s.band.player)'
      BY DEF UsedInv, Underway
    <2>1. GoesOn /\ pc # "idle"
      BY <1>2, StepsGoOn
    <2>2. Frames' = Frames /\ Steady /\ Shots(k)' = Shots(k)
      BY <2>1, CaptureStays DEF GoesOn, Shots
    <2>3. /\ s.band.text \in Texts /\ s.band.player \in Players
          /\ RankOf[s.band.player] \in Ranks
      BY <2>2, ShotsAreTyped
    <2>4. /\ k <= LastRead'
          /\ \/ Taken(k, s.at) /\ k <= LastRead
             \/ /\ AtRow /\ k = frame /\ s.band = Band
                /\ SkipRow \/ MatchRow \/ CreateMember \/ QueueName
      BY <1>2, <2>2, TakenNow
    <2>5. CASE Taken(k, s.at) /\ k <= LastRead
      <3>1. MayResolve(s.band, RankOf[s.band.player], k)
        BY <2>1, <2>2, <2>3, <2>5, HopeOnlyFades DEF Underway
      <3>2. Somebody(s.band.player)
        BY <2>1, <2>2, <2>5, <3>1 DEF UsedInv, Underway
      <3> QED BY <1>2, <2>2, <2>3, <3>2, SomebodyStays
    <2>6. CASE /\ AtRow /\ k = frame /\ s.band = Band
               /\ SkipRow \/ MatchRow \/ CreateMember \/ QueueName
      <3>1. LastRead = frame /\ Group = RankOf[Band.player]
        BY <2>2, <2>6, BandStands
      <3>2. k <= LastRead
        BY <2>6, <3>1 DEF TypeInv
      <3>3. MayResolve(s.band, RankOf[s.band.player], k)
        BY <2>1, <2>2, <2>3, <3>2, HopeOnlyFades DEF Underway
      <3>4. ~QueueName
        BY <2>2, <2>6, <3>1, <3>3, GoodOnesAreRead
      <3>5. CASE SkipRow
        <4>1. Somebody(s.band.player)
          BY <2>2, <2>6, <3>5, SomebodyIsSeen DEF SkipRow
        <4> QED BY <1>2, <2>2, <2>3, <4>1, SomebodyStays
      <3>6. CASE MatchRow \/ CreateMember
        <4>1. PICK row : Takes(row) /\ row.resolved
          BY <3>6, RowStepsTake
        <4>2. ReadsRow
          BY <3>6, RowStepsTake
        <4> QED BY <2>2, <2>3, <2>6, <4>1, <4>2, TakingKeepsPlaces
      <3> QED BY <2>6, <3>4, <3>5, <3>6
    <2> QED BY <2>4, <2>5, <2>6
  <1>3. CASE UNCHANGED vars
    <2>1. UNCHANGED <<capture, pc, frame, band, groups, members, runs>>
      BY <1>3 DEF vars, inMemory, stored
    <2>2. Frames' = Frames /\ (Steady' <=> Steady)
      BY <2>1, CaptureStays
    <2>3. \A k : Shots(k)' = Shots(k)
      BY <2>2 DEF Shots
    <2>4. \A p : Somebody(p)' <=> Somebody(p)
      BY <2>1 DEF Somebody
    <2>5. \A k, j : Taken(k, j)' <=> Taken(k, j)
      BY <2>1 DEF Taken
    <2>6. \A b, g, k : MayResolve(b, g, k)' <=> MayResolve(b, g, k)
      BY <2>1, <2>2 DEF MayResolve, CountedBy
    <2> QED BY <2>1, <2>2, <2>3, <2>4, <2>5, <2>6 DEF UsedInv, Underway
  <1> QED BY <1>1, <1>2, <1>3

\* What the invariants of a run say together.
RunInv ==
    /\ TypeInv /\ BudgetInv /\ WalkInv
    /\ GeometryInv /\ CountInv /\ UsedInv

LEMMA RunInit ==
  ASSUME Init
  PROVE  RunInv
  BY TypeInvInit, BudgetInit, WalkInit, GeometryInit
     DEF Init, RunInv, CountInv, UsedInv, Underway

LEMMA RunNext ==
  ASSUME RunInv, [Next]_vars
  PROVE  RunInv'
  <1>1. TypeInv' /\ BudgetInv'
    BY TypeInvNext, BudgetNext DEF RunInv
  <1>2. WalkInv' /\ GeometryInv' /\ CountInv'
    BY WalkNext, GeometryNext, CountNext DEF RunInv
  <1>3. UsedInv'
    BY <1>1, UsedNext DEF RunInv
  <1> QED BY <1>1, <1>2, <1>3 DEF RunInv

LEMMA UsedMeansNotWasted ==
  ASSUME RunInv
  PROVE  NoGoodPhotographIsWasted
  <1> SUFFICES ASSUME Steady, pc = "done",
                      NEW k \in DOMAIN Frames, NEW j \in DOMAIN Frames[k].bands,
                      NEW b, b = Frames[k].bands[j],
                      NEW g, g = Owner(Frames[k], b),
                      WouldResolve(b, g, k)
               PROVE  \E i \in DOMAIN groups[g].rows :
                         groups[g].rows[i].player = b.player /\ groups[g].rows[i].resolved
    BY DEF NoGoodPhotographIsWasted
  <1>1. PICK s \in Shots(k) : s.at = j /\ s.band = b
    <2> DEFINE s == [at |-> j, band |-> b]
    <2>1. s \in Shots(k) /\ s.at = j /\ s.band = b
      BY DEF Shots
    <2> QED BY <2>1
  <1>2. RankOf[b.player] = g
    BY SteadyFrames DEF RunInv
  <1>3. Taken(k, j)
    <2>1. /\ frame \notin DOMAIN Frames /\ frame >= 1 /\ frame \in Nat
          /\ DOMAIN Frames = 1..Len(Frames) /\ Len(Frames) \in Nat
      BY CapturesAreTyped DEF RunInv, TypeInv, WalkInv
    <2> QED BY <2>1 DEF Taken
  <1>4. MayResolve(b, g, k)
    <2>1. CASE CountedBy(g, k) /\ RoomIn(g)
      <3>1. g \in Ranks /\ k <= LastRead /\ k \in Nat /\ LastRead \in Nat
        BY <1>2, <1>3, SteadyFrames, CapturesAreTyped
           DEF RunInv, TypeInv, WalkInv, Taken, LastRead
      <3>2. CountedBy(g, LastRead)
        BY <2>1, <3>1 DEF CountedBy
      <3>3. groups[g].expected # 0
        BY <3>1, <3>2 DEF RunInv, CountInv, Underway
      <3>4. PICK l \in FramesRead : CountOn(Frames[l], g) = groups[g].expected
        BY <3>1, <3>3 DEF RunInv, BudgetInv, Counted
      <3>5. Cardinality(groups[g].resolved) < groups[g].expected
        BY <2>1, <3>3, <3>4 DEF RoomIn, FramesRead
      <3> QED BY <2>1, <3>5 DEF WouldResolve, MayResolve
    <2>2. CASE ~(CountedBy(g, k) /\ RoomIn(g))
      BY <2>2 DEF WouldResolve, MayResolve
    <2> QED BY <2>1, <2>2
  <1>5. Somebody(b.player)
    BY <1>1, <1>2, <1>3, <1>4 DEF RunInv, UsedInv, Underway
  <1> QED BY <1>2, <1>5 DEF Somebody

\* A row that stays nobody was read badly on every photograph of it, in every
\* steady capture and whatever the counts (collectedRow, processRow).
THEOREM GoodPhotographsCount == Spec => []NoGoodPhotographIsWasted
  <1>1. Init => RunInv
    BY RunInit
  <1>2. RunInv /\ [Next]_vars => RunInv'
    BY RunNext
  <1>3. RunInv => NoGoodPhotographIsWasted
    BY UsedMeansNotWasted
  <1> QED BY <1>1, <1>2, <1>3, PTL DEF Spec

-----------------------------------------------------------------------------
(* Nobody is minted twice.  A member carries the photograph he was made     *)
(* from; every earlier photograph of the same row could not have made one,  *)
(* and cannot in any later run either, since members only become more.      *)

Hopeless(b, k) ==
    \/ b.text \in Blanks \/ ~b.sure \/ ~CountedBy(RankOf[b.player], k)
    \/ \E m \in members : Score[b.text][m.name] >= ReviewFloor

Before(k, j, seen) == k < seen[1] \/ (k = seen[1] /\ j < seen[2])

\* A member's photograph: the band it was made from, or, made by none, any.
Portrait(m, k, s) ==
    /\ m.seen = <<k, s.at>>
    /\ s.band.player = m.player /\ s.band.text = m.name /\ m.name \notin Blanks

MadeFromFirst(m) ==
    /\ \E k \in DOMAIN Frames : \E s \in Shots(k) : Portrait(m, k, s)
    /\ \A k \in DOMAIN Frames : \A s \in Shots(k) :
          s.band.player = m.player /\ Before(k, s.at, m.seen) => Hopeless(s.band, k)

MintInv ==
    Steady /\ Lettered =>
        /\ \A m \in members : m.run # 0 => MadeFromFirst(m)
        /\ \A m \in members : m.run # 0 /\ m.run = runs /\ pc # "idle" => Somebody(m.player)
        /\ NobodyMintedTwice

\* Who is about to be made a member has not been made one before, by this run
\* or by another.
LEMMA NewOneIsNew ==
  ASSUME RunInv, MintInv, Steady, Lettered, AtRow, ~IsSomebody(Row), Creates,
         NEW m \in members, m.run # 0
  PROVE  m.player # Band.player
  <1> SUFFICES ASSUME m.player = Band.player
               PROVE  FALSE
    OBVIOUS
  <1>1. TypeInv /\ BudgetInv /\ WalkInv /\ GeometryInv /\ CountInv /\ UsedInv
    BY DEF RunInv
  <1>2. ~Somebody(Band.player) /\ Underway
    BY <1>1, SomebodyIsSeen DEF Underway, AtRow
  <1>3. m.run # runs /\ m.run <= runs /\ m.run \in Nat /\ runs \in Nat
    BY <1>1, <1>2 DEF MintInv, Underway, BudgetInv, TypeInv, MemberRecords
  <1>4. m.run < runs
    BY <1>3
  <1>5. MadeFromFirst(m)
    BY DEF MintInv
  <1>6. PICK k \in DOMAIN Frames : \E s \in Shots(k) : Portrait(m, k, s)
    BY <1>5 DEF MadeFromFirst
  <1>7. PICK s \in Shots(k) : Portrait(m, k, s)
    BY <1>6
  <1>8. /\ s.at \in Nat /\ s.band.text \in Texts /\ s.at \in DOMAIN Frames[k].bands
        /\ s.band = Frames[k].bands[s.at] /\ k \in Nat
        /\ s.band.player = Band.player /\ s.band.text = m.name /\ m.name \notin Blanks
        /\ m.seen[1] = k /\ m.seen[2] = s.at
    BY <1>1, <1>7, ShotsAreTyped, CapturesAreTyped DEF Portrait, TypeInv
  <1>9. Score[m.name][m.name] = 100
    BY <1>8 DEF Lettered
  <1>10. /\ AutoAccept \in Nat /\ ReviewFloor \in Nat
         /\ ReviewFloor <= AutoAccept /\ AutoAccept <= 100
    BY RosterAssumption
  <1>11. /\ frame \in Nat /\ band \in Nat /\ frame \in DOMAIN Frames
         /\ band \in DOMAIN Frames[frame].bands /\ pc = "rows"
    BY <1>1 DEF TypeInv, AtRow, Current
  <1>12. LastRead = frame /\ Group = RankOf[Band.player] /\ Group \in Ranks
    BY <1>1, BandStands
  <1>13. CASE Before(frame, band, m.seen)
    <2> DEFINE now == [at |-> band, band |-> Band]
    <2>1. now \in Shots(frame) /\ now.at = band /\ now.band = Band
      BY <1>11 DEF Shots, Band, Current
    <2>2. Hopeless(Band, frame)
      BY <1>5, <1>11, <1>13, <2>1 DEF MadeFromFirst
    <2>3. CountedBy(RankOf[Band.player], frame)
      BY <1>1, <1>2, <1>12 DEF CountInv, Creates, CanCreate
    <2> QED BY <2>2, <2>3 DEF Hopeless, Creates, Resembles, Likeness
  <1>14. CASE k = frame /\ s.at = band
    <2>1. Band.text = m.name
      BY <1>8, <1>14 DEF Band, Current
    <2>2. Likeness(m) >= ReviewFloor
      BY <1>9, <1>10, <2>1 DEF Likeness
    <2> QED BY <2>2 DEF Creates, Resembles
  <1>15. CASE Taken(k, s.at)
    <2>1. Score[s.band.text][m.name] >= AutoAccept
      BY <1>8, <1>9, <1>10
    <2>2. MayResolve(s.band, RankOf[s.band.player], k)
      BY <1>4, <1>8, <2>1 DEF MayResolve
    <2>3. Somebody(s.band.player)
      BY <1>1, <1>2, <1>15, <2>2 DEF UsedInv
    <2> QED BY <1>2, <1>8, <2>3
  <1>16. \/ Before(frame, band, m.seen) \/ (k = frame /\ s.at = band)
         \/ Taken(k, s.at)
    BY <1>8, <1>11 DEF Before, Taken
  <1> QED BY <1>13, <1>14, <1>15, <1>16

\* And no earlier photograph of the row could have made him one.
LEMMA EarlierOnesHopeless ==
  ASSUME RunInv, Steady, AtRow, ~IsSomebody(Row), Creates,
         NEW k \in DOMAIN Frames, NEW s \in Shots(k),
         s.band.player = Band.player, Before(k, s.at, <<frame, band>>)
  PROVE  Hopeless(s.band, k)
  <1>1. TypeInv /\ BudgetInv /\ WalkInv /\ GeometryInv /\ CountInv /\ UsedInv
    BY DEF RunInv
  <1>2. ~Somebody(Band.player) /\ Underway /\ pc = "rows"
    BY <1>1, SomebodyIsSeen DEF Underway, AtRow
  <1>3. Taken(k, s.at)
    BY <1>2 DEF Before, Taken
  <1>4. ~MayResolve(s.band, RankOf[s.band.player], k)
    BY <1>1, <1>2, <1>3 DEF UsedInv
  <1>5. Cardinality(groups[Group].resolved) < groups[Group].expected
    BY DEF Creates, CanCreate
  <1>6. Group = RankOf[Band.player]
    BY <1>1, BandStands
  <1>7. s.band.text \in Texts
    BY <1>1, ShotsAreTyped
  <1>8. \A m \in members : Score[s.band.text][m.name] \in 0..100
    BY <1>1, <1>7, ScoresAreNumbers
  <1>9. ReviewFloor \in Nat
    BY RosterAssumption
  <1>10. \/ s.band.text \in Blanks \/ ~s.band.sure \/ ~CountedBy(RankOf[s.band.player], k)
         \/ \E m \in members : ~(Score[s.band.text][m.name] < ReviewFloor)
    BY <1>4, <1>5, <1>6 DEF MayResolve
  <1>11. \A m \in members : \/ Score[s.band.text][m.name] < ReviewFloor
                            \/ Score[s.band.text][m.name] >= ReviewFloor
    <2>1. \A n \in 0..100 : n < ReviewFloor \/ n >= ReviewFloor
      BY <1>9
    <2> QED BY <1>8, <2>1
  <1>12. CASE \E m \in members : ~(Score[s.band.text][m.name] < ReviewFloor)
    BY <1>11, <1>12 DEF Hopeless
  <1> QED BY <1>10, <1>12 DEF Hopeless

\* More members leave what was hopeless so.
LEMMA StillMadeFromFirst ==
  ASSUME capture' = capture, members \subseteq members', NEW m, MadeFromFirst(m)
  PROVE  MadeFromFirst(m)'
  <1>1. Frames' = Frames
    BY DEF Frames
  <1>2. \A k : Shots(k)' = Shots(k)
    BY <1>1 DEF Shots
  <1>3. \A b, k : Hopeless(b, k) => Hopeless(b, k)'
    BY <1>1 DEF Hopeless, CountedBy
  <1>4. \A k, s : Portrait(m, k, s)' <=> Portrait(m, k, s)
    BY DEF Portrait
  <1> QED BY <1>1, <1>2, <1>3, <1>4 DEF MadeFromFirst

LEMMA NewOnesPortrait ==
  ASSUME RunInv, Steady, AtRow, ~IsSomebody(Row), Creates,
         capture' = capture, members \subseteq members'
  PROVE  \A m : m = NewMember => MadeFromFirst(m)'
  <1> SUFFICES ASSUME NEW m, m = NewMember
               PROVE  MadeFromFirst(m)'
    OBVIOUS
  <1>1. /\ m.name = Band.text /\ m.player = Band.player
        /\ m.seen = <<frame, band>>
    BY DEF NewMember
  <1> DEFINE now == [at |-> band, band |-> Band]
  <1>2. frame \in DOMAIN Frames /\ band \in DOMAIN Frames[frame].bands
    BY DEF RunInv, TypeInv, AtRow, Current
  <1>3. now \in Shots(frame) /\ now.at = band /\ now.band = Band
    BY <1>2 DEF Shots, Band, Current
  <1>4. Portrait(m, frame, now)
    BY <1>1, <1>3 DEF Portrait, Creates
  <1>5. \A k \in DOMAIN Frames : \A s \in Shots(k) :
           s.band.player = m.player /\ Before(k, s.at, m.seen) => Hopeless(s.band, k)
    BY <1>1, EarlierOnesHopeless
  <1>6. MadeFromFirst(m)
    BY <1>2, <1>3, <1>4, <1>5 DEF MadeFromFirst
  <1> QED BY <1>6, StillMadeFromFirst

LEMMA MintNext ==
  ASSUME RunInv, MintInv, [Next]_vars
  PROVE  MintInv'
  <1>1. capture' = capture /\ Frames' = Frames
    BY DEF Next, vars, Begin, DropFrame, ReadHeaders, EndFrame, Finish, Fail, SkipRow,
           ReadsRow, MatchRow, CreateMember, FailAfterCreating, QueueName, Frames
  <1> SUFFICES ASSUME Steady, Lettered
               PROVE  MintInv'
    BY <1>1, CaptureStays DEF MintInv
  <1>2. TypeInv /\ BudgetInv /\ WalkInv /\ GeometryInv
    BY DEF RunInv
  <1>3. /\ \A m \in members : m.run # 0 => MadeFromFirst(m)
        /\ \A m \in members : m.run # 0 /\ m.run = runs /\ pc # "idle" => Somebody(m.player)
        /\ \A m, n \in members :
              m.run # 0 /\ n.run # 0 /\ m.player = n.player => m = n
        /\ \A m \in members : m.player \in Players /\ m.run <= runs /\ m.run \in Nat
    BY <1>2 DEF MintInv, NobodyMintedTwice, TypeInv, MemberRecords, BudgetInv
  <1>4. CASE CreateMember \/ FailAfterCreating
    <2>1. /\ AtRow /\ ~IsSomebody(Row) /\ Creates /\ runs' = runs
          /\ members' = members \cup {NewMember}
      BY <1>4 DEF CreateMember, FailAfterCreating, ReadsRow
    <2>2. \A m \in members : m.run # 0 => m.player # Band.player
      BY <2>1, NewOneIsNew
    <2>3. \A m \in members' : m.run # 0 => MadeFromFirst(m)'
      BY <1>1, <1>3, <2>1, StillMadeFromFirst, NewOnesPortrait
    <2>4. NewMember.player = Band.player
      BY DEF NewMember
    <2>5. \A m, n \in members' :
             m.run # 0 /\ n.run # 0 /\ m.player = n.player => m = n
      BY <1>3, <2>1, <2>2, <2>4
    <2>6. \A m \in members' : m.run # 0 /\ m.run = runs' /\ pc' # "idle" => Somebody(m.player)'
      <3>1. CASE FailAfterCreating
        BY <3>1 DEF FailAfterCreating, NothingInMemory
      <3>2. CASE CreateMember
        <4>1. PICK row : Takes(row) /\ row.resolved
          BY <1>2, <3>2, RowStepsTake
        <4>2. ReadsRow /\ pc # "idle"
          BY <2>1, <3>2 DEF CreateMember, AtRow
        <4>3. /\ \A p \in Players : Somebody(p) => Somebody(p)'
              /\ \A p \in Players : p = Band.player => Somebody(p)'
          BY <1>2, <4>1, <4>2, TakingKeepsPlaces
        <4>4. Band.player \in Players
          BY <1>2, <2>1, RowsAreTyped
        <4> QED BY <1>3, <2>1, <2>4, <4>2, <4>3, <4>4
      <3> QED BY <1>4, <3>1, <3>2
    <2> QED BY <2>3, <2>5, <2>6 DEF MintInv, NobodyMintedTwice
  <1>5. ASSUME members' = members,
               \A m \in members : m.run # 0 /\ m.run = runs' /\ pc' # "idle" => Somebody(m.player)'
        PROVE  MintInv'
    <2>1. \A m \in members' : m.run # 0 => MadeFromFirst(m)'
      BY <1>1, <1>3, <1>5, StillMadeFromFirst
    <2>2. \A m, n \in members' :
             m.run # 0 /\ n.run # 0 /\ m.player = n.player => m = n
      BY <1>3, <1>5
    <2> QED BY <1>5, <2>1, <2>2 DEF MintInv, NobodyMintedTwice
  <1>6. CASE Begin
    <2>1. members' = members /\ runs' = runs + 1 /\ runs \in Nat
      BY <1>2, <1>6 DEF Begin, stored, TypeInv
    <2>2. \A m \in members : m.run # runs'
      BY <1>3, <2>1
    <2> QED BY <1>5, <2>1, <2>2
  <1>7. CASE UNCHANGED vars
    <2>1. UNCHANGED <<pc, groups, members, runs>>
      BY <1>7 DEF vars, inMemory, stored
    <2>2. \A p : Somebody(p)' <=> Somebody(p)
      BY <2>1 DEF Somebody
    <2> QED BY <1>3, <1>5, <2>1, <2>2
  <1>8. CASE Next /\ ~(Begin \/ CreateMember \/ FailAfterCreating)
    <2>1. members' = members /\ runs' = runs
      BY <1>8 DEF Next, DropFrame, ReadHeaders, EndFrame, Finish, Fail, SkipRow,
                  ReadsRow, MatchRow, QueueName, stored
    <2>2. ASSUME pc' # "idle", NEW m \in members, m.run # 0, m.run = runs
          PROVE  Somebody(m.player)'
      <3>1. pc # "idle"
        BY <1>2, <1>8, <2>2, StepsGoOn
      <3>2. Somebody(m.player) /\ m.player \in Players
        BY <1>3, <2>2, <3>1
      <3> QED BY <1>2, <1>8, <2>2, <3>2, SomebodyStays
    <2> QED BY <1>5, <2>1, <2>2
  <1> QED BY <1>4, <1>6, <1>7, <1>8

\* Nobody is made a member twice by steady captures, off however many
\* photographs and over however many runs and failures, whatever the counts
\* (seenRow, processRow).
THEOREM NobodyIsMintedTwice == Spec => []NobodyMintedTwice
  <1>1. Init => RunInv /\ MintInv
    <2>1. Init => \A m \in members : m.run = 0
      BY RostersAssumption DEF Init
    <2> QED BY <2>1, RunInit DEF MintInv, NobodyMintedTwice
  <1>2. RunInv /\ MintInv /\ [Next]_vars => (RunInv /\ MintInv)'
    BY RunNext, MintNext
  <1>3. MintInv => NobodyMintedTwice
    BY DEF MintInv, NobodyMintedTwice
  <1> QED BY <1>1, <1>2, <1>3, PTL DEF Spec

=============================================================================
