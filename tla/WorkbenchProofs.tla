--------------------------- MODULE WorkbenchProofs ---------------------------
(***************************************************************************)
(* The properties of the workbench, for every set of frames, labels,       *)
(* cameras, tools, anchors and regions and for everything that may go on   *)
(* at the desk. ScreenshotsHaveTheirFrame follows from CamInv, what a      *)
(* camera may rely on; FiledStaysFiled from TreeInv, how far every writer  *)
(* has got; PullIsHonest from PullInv, what a pull still owes; AloneIsSafe *)
(* from AloneInv and StampInv, which hold as long as one tool works at a   *)
(* time; and AcceptedEditsStand from LibInv, how far an edit has got.      *)
(***************************************************************************)
EXTENDS Workbench, FiniteSetTheorems, TLAPS

(* What a camera may rely on: an object is there as a whole or not at all, *)
(* none is ever taken away, and whoever is about to insert a row has put   *)
(* its frame. Nothing is said about the tools: whatever bytes one of them  *)
(* pushes lie at their own key.                                            *)
KeysTell == /\ DOMAIN blobs = Bytes
            /\ \A k \in Bytes : blobs[k] \in {0, k}

Stages == {"off", "open", "shoot", "exists", "put", "insert", "stored"}
CamTypes == [at: Stages, frame: Nat, recorded: Nat, kept: SUBSET Nat, task: BOOLEAN]

Holding(c) ==
    /\ cam[c].at \in {"exists", "put", "insert"} => cam[c].frame \in Frames
    /\ cam[c].at = "insert" => blobs[cam[c].frame] = cam[c].frame
    /\ cam[c].kept \subseteq DOMAIN shots

CamInv ==
    /\ KeysTell
    /\ device \in [recorded: Nat, real: Nat]
    /\ shots \in Seq(Frames)
    /\ \A id \in DOMAIN shots : blobs[shots[id]] = shots[id]
    /\ \A k \in captures : k \subseteq DOMAIN shots
    /\ cam \in [Cameras -> CamTypes]
    /\ \A c \in Cameras : Holding(c)

LEMMA FrameBytes == /\ Frames \subseteq Bytes
                    /\ 0 \notin Bytes
                    /\ \A f \in Frames : f \in Nat /\ f > 0
  BY BytesAssumption DEF Bytes, Torn

LEMMA CamInvInit == Init => CamInv
  BY FrameBytes DEF Init, BlobsInit, CamInit, CamInv, KeysTell, CamTypes, Stages, Off, Holding

LEMMA CamInvIsEnough == CamInv => ScreenshotsHaveTheirFrame
  <1> SUFFICES ASSUME CamInv PROVE ScreenshotsHaveTheirFrame
    OBVIOUS
  <1>1. \A k \in Bytes : Exists(k) => Sum(blobs[k]) = k
    BY DEF CamInv, KeysTell, Exists, Sum
  <1>2. \A id \in DOMAIN shots : LoadFrame(id)
    <2> TAKE id \in DOMAIN shots
    <2>1. shots[id] \in Frames /\ blobs[shots[id]] = shots[id]
      BY DEF CamInv
    <2> QED BY <2>1, FrameBytes DEF LoadFrame, ScreenshotObjectKey, Exists, Whole
  <1>3. \A k \in captures : ReviewCrop(k)
    BY <1>2 DEF CamInv, ReviewCrop
  <1> QED BY <1>1, <1>2, <1>3 DEF ScreenshotsHaveTheirFrame

\* Whoever puts, and whether or not the put reports success: the keys still
\* tell, and what was there stays there.
LEMMA PutKeepsKeys ==
  ASSUME KeysTell, NEW d, NEW ok \in BOOLEAN, Put(d, ok)
  PROVE  /\ KeysTell'
         /\ \A k \in Bytes : blobs[k] = k => blobs'[k] = k
         /\ ok /\ d \in Bytes => blobs'[d] = d
  <1>1. Stored(d) \/ (UNCHANGED blobs /\ ~ok)
    BY DEF Put, PutFile, PutObject
  <1>2. CASE Stored(d)
    BY <1>2 DEF Stored, KeysTell, Key, Sum, Bytes, Torn
  <1>3. CASE UNCHANGED blobs /\ ~ok
    BY <1>3 DEF KeysTell, Bytes, Torn
  <1> QED BY <1>1, <1>2, <1>3

\* A step that leaves the cameras alone and takes nothing out of the store.
LEMMA QuietKeepsCamInv ==
  ASSUME CamInv, KeysTell', UNCHANGED camVars, \A k \in Bytes : blobs[k] = k => blobs'[k] = k
  PROVE  CamInv'
  <1>1. \A id \in DOMAIN shots : shots[id] \in Bytes
    BY FrameBytes DEF CamInv
  <1> QED BY <1>1, FrameBytes DEF CamInv, camVars, Holding

LEMMA UntouchedKeepsCamInv ==
  ASSUME CamInv, UNCHANGED blobs, UNCHANGED camVars PROVE CamInv'
  BY QuietKeepsCamInv DEF CamInv, KeysTell, Bytes, Torn

-----------------------------------------------------------------------------
(* The cameras. Each step moves one of them and leaves what it kept in the  *)
(* rows; only RecordCapture and InsertScreenshot write rows.               *)
LEMMA CameraMoves ==
  ASSUME CamInv, NEW c \in Cameras, NEW r \in CamTypes,
         cam' = [cam EXCEPT ![c] = r], KeysTell',
         \A k \in Bytes : blobs[k] = k => blobs'[k] = k,
         device' \in [recorded: Nat, real: Nat],
         shots' = shots \/ (\E f \in Frames : shots' = Append(shots, f) /\ blobs'[f] = f),
         \A k \in captures' : k \in captures \/ k \subseteq DOMAIN shots,
         r.at \in {"exists", "put", "insert"} => r.frame \in Frames,
         r.at = "insert" => blobs'[r.frame] = r.frame,
         r.kept \subseteq DOMAIN shots'
  PROVE  CamInv'
  <1> DEFINE filed == /\ shots' \in Seq(Frames) /\ DOMAIN shots \subseteq DOMAIN shots'
                      /\ \A id \in DOMAIN shots' : blobs'[shots'[id]] = shots'[id]
  <1>1. filed
    <2>1. \A id \in DOMAIN shots : shots[id] \in Bytes
      BY FrameBytes DEF CamInv
    <2>2. CASE shots' = shots
      BY <2>1, <2>2 DEF CamInv
    <2>3. ASSUME NEW f \in Frames, shots' = Append(shots, f), blobs'[f] = f
          PROVE  filed
      <3>1. shots \in Seq(Frames) /\ \A id \in DOMAIN shots : blobs[shots[id]] = shots[id]
        BY DEF CamInv
      <3>2. /\ shots' \in Seq(Frames) /\ DOMAIN shots = 1 .. Len(shots) /\ DOMAIN shots' = 1 .. Len(shots) + 1
            /\ shots'[Len(shots) + 1] = f /\ \A id \in 1 .. Len(shots) : shots'[id] = shots[id]
            /\ Len(shots) \in Nat
        BY <2>3, <3>1
      <3>3. ASSUME NEW id \in DOMAIN shots' PROVE blobs'[shots'[id]] = shots'[id]
        <4>1. CASE id = Len(shots) + 1
          BY <2>3, <3>2, <4>1
        <4>2. CASE id # Len(shots) + 1
          <5>1. id \in DOMAIN shots /\ shots'[id] = shots[id]
            BY <3>2, <3>3, <4>2
          <5> QED BY <5>1, <2>1, <3>1
        <4> QED BY <4>1, <4>2
      <3> QED BY <3>2, <3>3
    <2> QED BY <2>2, <2>3
  <1>2. cam' \in [Cameras -> CamTypes]
    BY DEF CamInv
  <1>3. ASSUME NEW d \in Cameras PROVE Holding(d)'
    <2>1. CASE d = c
      BY <2>1, <1>2 DEF Holding, CamInv
    <2>2. CASE d # c
      <3>1. cam'[d] = cam[d] /\ Holding(d)
        BY <2>2 DEF CamInv
      <3> QED BY <3>1, <1>1, FrameBytes DEF Holding
    <2> QED BY <2>1, <2>2
  <1>4. \A k \in captures' : k \subseteq DOMAIN shots'
    BY <1>1 DEF CamInv
  <1> QED BY <1>1, <1>2, <1>3, <1>4 DEF CamInv

LEMMA CamStepKeepsCamInv ==
  ASSUME CamInv, NEW c \in Cameras, CamStep(c)
  PROVE  CamInv'
  <1> DEFINE same == /\ KeysTell' /\ (\A k \in Bytes : blobs[k] = k => blobs'[k] = k)
                     /\ shots' = shots /\ captures' = captures /\ device' = device
  <1>1. /\ cam[c] \in CamTypes /\ Holding(c) /\ Off \in CamTypes /\ cam \in [Cameras -> CamTypes]
        /\ device \in [recorded: Nat, real: Nat] /\ shots \in Seq(Frames) /\ Frames \subseteq Nat
        /\ Off.at = "off" /\ Off.kept = {}
    BY BytesAssumption DEF CamInv, Off, CamTypes, Stages
  <1>2. UNCHANGED <<blobs, shots, captures, device>> => same
    BY DEF CamInv, KeysTell, Bytes, Torn
  <1>3. CASE CaptureTargetByAccount(c)
    <2> DEFINE r == [Off EXCEPT !.at = "open", !.recorded = device.recorded]
    <2>1. r \in CamTypes /\ r.at = "open" /\ r.kept = {}
      BY <1>1 DEF CamTypes, Stages, Off
    <2> QED BY <1>1, <1>2, <1>3, <2>1, CameraMoves DEF CaptureTargetByAccount
  <1>4. CASE UpsertDevice(c)
    <2> DEFINE r == [cam[c] EXCEPT !.at = "shoot", !.recorded = 0]
    <2>1. r \in CamTypes /\ r.at = "shoot" /\ r.kept = cam[c].kept /\ cam' = [cam EXCEPT ![c] = r]
      BY <1>1, <1>4 DEF CamTypes, Stages, UpsertDevice
    <2>2. device' \in [recorded: Nat, real: Nat] /\ UNCHANGED <<blobs, shots, captures>>
      BY <1>1, <1>4 DEF UpsertDevice
    <2>3. KeysTell'
      BY <2>2 DEF CamInv, KeysTell, Bytes, Torn
    <2> QED BY <1>1, <2>1, <2>2, <2>3, CameraMoves DEF Holding
  <1>5. CASE StartTask(c)
    <2> DEFINE r == [Off EXCEPT !.at = "shoot", !.task = TRUE]
    <2>1. r \in CamTypes /\ r.at = "shoot" /\ r.kept = {}
      BY <1>1 DEF CamTypes, Stages, Off
    <2> QED BY <1>1, <1>2, <1>5, <2>1, CameraMoves DEF StartTask
  <1>6. CASE Screenshot(c)
    <2>1. PICK f \in Frames : cam' = [cam EXCEPT ![c].at = "exists", ![c].frame = f]
      BY <1>6 DEF Screenshot
    <2> DEFINE r == [cam[c] EXCEPT !.at = "exists", !.frame = f]
    <2>2. r \in CamTypes /\ r.at = "exists" /\ r.frame = f /\ r.kept = cam[c].kept /\ cam' = [cam EXCEPT ![c] = r]
      BY <1>1, <2>1 DEF CamTypes, Stages
    <2> QED BY <1>1, <1>2, <1>6, <2>2, CameraMoves DEF Screenshot, Holding
  <1>7. CASE PutContent(c)
    <2> DEFINE r == [cam[c] EXCEPT !.at = IF Exists(Key(Sum(cam[c].frame))) THEN "insert" ELSE "put"]
    <2>1. /\ r \in CamTypes /\ r.at = (IF Exists(cam[c].frame) THEN "insert" ELSE "put")
          /\ r.frame = cam[c].frame /\ r.kept = cam[c].kept /\ cam' = [cam EXCEPT ![c] = r]
          /\ cam[c].frame \in Frames
      BY <1>1, <1>7 DEF CamTypes, Stages, PutContent, Step, Holding, Key, Sum
    <2>2. Exists(cam[c].frame) => blobs[cam[c].frame] = cam[c].frame
      BY <2>1, FrameBytes DEF Exists, CamInv, KeysTell
    <2>3. same /\ blobs' = blobs
      BY <1>2, <1>7 DEF PutContent
    <2> HIDE DEF r
    <2> QED BY <1>1, <2>1, <2>2, <2>3, CameraMoves DEF Holding
  <1>8. CASE PutFrame(c)
    <2>1. cam[c].frame \in Frames /\ cam[c].frame \in Bytes
      BY <1>1, <1>8, FrameBytes DEF PutFrame, Holding
    <2>2. CASE Put(cam[c].frame, TRUE) /\ Step(c, "insert")
      <3> DEFINE r == [cam[c] EXCEPT !.at = "insert"]
      <3>1. r \in CamTypes /\ r.at = "insert" /\ r.frame = cam[c].frame /\ r.kept = cam[c].kept /\ cam' = [cam EXCEPT ![c] = r]
        BY <1>1, <2>2 DEF CamTypes, Stages, Step
      <3>2. same /\ blobs'[cam[c].frame] = cam[c].frame
        BY <1>8, <2>1, <2>2, PutKeepsKeys DEF PutFrame, CamInv
      <3> QED BY <1>1, <2>1, <3>1, <3>2, CameraMoves DEF Holding
    <2>3. CASE Put(cam[c].frame, FALSE) /\ cam' = [cam EXCEPT ![c] = Off]
      <3>1. same
        BY <1>8, <2>3, PutKeepsKeys DEF PutFrame, CamInv
      <3> QED BY <1>1, <2>3, <3>1, CameraMoves
    <2> QED BY <1>8, <2>2, <2>3 DEF PutFrame
  <1>9. CASE InsertScreenshot(c)
    <2> DEFINE r == IF cam[c].task
                    THEN [cam[c] EXCEPT !.at = "stored", !.frame = 0, !.kept = cam[c].kept \cup {Len(shots) + 1}]
                    ELSE Off
    <2>1. /\ r \in CamTypes /\ r.at \in {"stored", "off"} /\ r.kept \subseteq cam[c].kept \cup {Len(shots) + 1}
          /\ cam' = [cam EXCEPT ![c] = r]
      <3>1. cam' = [cam EXCEPT ![c] = r]
        BY <1>9, Zenon DEF InsertScreenshot
      <3>4. Len(shots) + 1 \in Nat
        BY <1>1
      <3>2. CASE cam[c].task
        BY <1>1, <3>1, <3>2, <3>4 DEF CamTypes, Stages
      <3>3. CASE ~cam[c].task
        BY <1>1, <3>1, <3>3
      <3> QED BY <3>2, <3>3
    <2>2. cam[c].frame \in Frames /\ blobs[cam[c].frame] = cam[c].frame /\ shots' = Append(shots, cam[c].frame)
      BY <1>1, <1>9 DEF InsertScreenshot, Holding, Key, Sum
    <2>3. DOMAIN shots' = DOMAIN shots \cup {Len(shots) + 1}
      BY <1>1, <2>2
    <2>4. KeysTell' /\ UNCHANGED <<blobs, captures, device>>
      BY <1>9 DEF InsertScreenshot, CamInv, KeysTell, Bytes, Torn
    <2> HIDE DEF r
    <2> QED BY <1>1, <2>1, <2>2, <2>3, <2>4, CameraMoves DEF Holding
  <1>10. CASE StoreAnother(c)
    <2> DEFINE r == [cam[c] EXCEPT !.at = "shoot"]
    <2>1. r \in CamTypes /\ r.at = "shoot" /\ r.kept = cam[c].kept /\ cam' = [cam EXCEPT ![c] = r]
      BY <1>1, <1>10 DEF CamTypes, Stages, Step, StoreAnother
    <2> QED BY <1>1, <1>2, <1>10, <2>1, CameraMoves DEF StoreAnother, Holding
  <1>11. CASE RecordCapture(c)
    <2>1. \A k \in captures' : k \in captures \/ k \subseteq DOMAIN shots
      BY <1>1, <1>11 DEF RecordCapture, Holding
    <2>2. KeysTell'
      BY <1>11 DEF RecordCapture, CamInv, KeysTell, Bytes, Torn
    <2> QED BY <1>1, <1>11, <2>1, <2>2, CameraMoves DEF RecordCapture
  <1>12. CASE GiveUp(c)
    BY <1>1, <1>2, <1>12, CameraMoves DEF GiveUp
  <1> QED BY <1>3, <1>4, <1>5, <1>6, <1>7, <1>8, <1>9, <1>10, <1>11, <1>12 DEF CamStep

LEMMA OperatorKeepsCamInv == CamInv /\ Operator => CamInv'
  <1> SUFFICES ASSUME CamInv, Operator PROVE CamInv'
    OBVIOUS
  <1>1. device' \in [recorded: Nat, real: Nat] /\ UNCHANGED <<blobs, shots, captures, cam>>
    <2>1. device \in [recorded: Nat, real: Nat]
      BY DEF CamInv
    <2>2. UNCHANGED <<blobs, shots, captures, cam>>
      BY DEF Operator
    <2>3. device' = device \/ device' = [device EXCEPT !.real = 2]
      BY DEF Operator
    <2> QED BY <2>1, <2>2, <2>3
  <1>2. KeysTell' /\ \A c \in Cameras : Holding(c)'
    BY <1>1 DEF CamInv, KeysTell, Bytes, Torn, Holding
  <1>3. (shots \in Seq(Frames))' /\ (cam \in [Cameras -> CamTypes])'
    BY <1>1 DEF CamInv, CamTypes, Stages
  <1>4. (\A id \in DOMAIN shots : blobs[shots[id]] = shots[id])' /\ (\A k \in captures : k \subseteq DOMAIN shots)'
    BY <1>1 DEF CamInv
  <1> QED BY <1>1, <1>2, <1>3, <1>4 DEF CamInv

-----------------------------------------------------------------------------
(* The tools. Push is the only one that writes to the store.                *)
LEMMA PushKeepsCamInv ==
  ASSUME CamInv, UNCHANGED camVars, NEW t \in Tools, PushPuts(t) PROVE CamInv'
  <1>1. \/ UNCHANGED blobs
        \/ \E ok \in BOOLEAN : Put(tool[t].f, ok)
    BY DEF PushPuts
  <1>2. ASSUME NEW ok \in BOOLEAN, Put(tool[t].f, ok) PROVE CamInv'
    BY <1>2, PutKeepsKeys, QuietKeepsCamInv DEF CamInv
  <1> QED BY <1>1, <1>2, UntouchedKeepsCamInv

LEMMA ToolsLeaveBlobs ==
  ASSUME NEW t \in Tools, ToolStep(t) PROVE UNCHANGED blobs \/ PushPuts(t)
  <1>1. CASE Find(t) \/ All(t) \/ AddFinds(t) \/ Draw(t) \/ ReadIndex(t) \/ PushNext(t) \/ Read(t) \/ Fetch(t)
    BY <1>1 DEF Find, All, AddFinds, Draw, ReadIndex, PushNext, Read, Fetch, files
  <1>2. CASE AddTruncates(t) \/ AddWrites(t) \/ AddFails(t) \/ Rename(t)
    BY <1>2 DEF AddTruncates, Opens, AddWrites, AddFails, Rename
  <1>3. CASE IndexTruncates(t)
    BY <1>3 DEF IndexTruncates
  <1>4. CASE IndexWrites(t)
    BY <1>4 DEF IndexWrites
  <1>5. CASE PullNext(t)
    BY <1>5 DEF PullNext
  <1> QED BY <1>1, <1>2, <1>3, <1>4, <1>5 DEF ToolStep

LEMMA EditorsLeaveBlobs ==
  ASSUME NEW t \in Tools, LibStep(t) PROVE UNCHANGED blobs
  BY DEF LibStep, ScoreReads, CropPlans, TunePlans, ReadTemplate, WriteTemplate, WriteManifestFile,
         CheckLibrary, RestoreManifest, RestoreTemplate, RestoreFails, Refuses, Writes, Keeps, files

LEMMA NextKeepsCamInv == CamInv /\ [Next]_vars => CamInv'
  <1> SUFFICES ASSUME CamInv, [Next]_vars PROVE CamInv'
    OBVIOUS
  <1>1. ASSUME NEW t \in Tools, Begin(t) PROVE CamInv'
    BY <1>1, UntouchedKeepsCamInv DEF Begin, Start, StartLib, Keeps, files
  <1>2. ASSUME NEW t \in Tools, Work(t) PROVE CamInv'
    BY <1>2, ToolsLeaveBlobs, EditorsLeaveBlobs, PushKeepsCamInv, UntouchedKeepsCamInv DEF Work
  <1>3. ASSUME NEW t \in Tools, Crash(t) PROVE CamInv'
    BY <1>3, UntouchedKeepsCamInv DEF Crash, Dies
  <1>4. CASE Photograph
    BY <1>4, OperatorKeepsCamInv, CamStepKeepsCamInv DEF Photograph
  <1>5. CASE Git
    BY <1>5, UntouchedKeepsCamInv DEF Git, Commit
  <1>6. CASE UNCHANGED vars
    BY <1>6, UntouchedKeepsCamInv DEF vars
  <1> QED BY <1>1, <1>2, <1>3, <1>4, <1>5, <1>6 DEF Next

\* No screenshots row is ever without its pixels: for every set of frames,
\* cameras, tools and commands, whichever calls fail and whoever dies, a row's
\* key leads to the whole frame it was computed from.
THEOREM RowsHavePixels == Spec => []ScreenshotsHaveTheirFrame
  BY CamInvInit, NextKeepsCamInv, CamInvIsEnough, PTL DEF Spec

-----------------------------------------------------------------------------
(* FiledStaysFiled. What a tool holds: labels that exist, a search that     *)
(* has somewhere to look, and a label to file under when it comes to that. *)
Entries == [hash: Frames, label: LabelSet, stamped: BOOLEAN]
Places == {"idle", "draw", "find", "list", "add", "write", "rename", "readIndex", "cutIndex", "writeIndex",
           "push", "read", "got", "entries", "fetch", "score", "tune", "readTemplate", "cutTemplate",
           "putTemplate", "cutManifest", "putManifest", "check", "undoManifest", "backManifest",
           "undoTemplate", "backTemplate"}
Commands == {"none", "record", "capture", "label", "index", "push", "pull", "crop", "score"}
MayBeNone == LabelSet \cup {NoLabel}
ToolTypes == [cmd: Commands, at: Places, then: Places, f: Int, to: MayBeNone, fd: MayBeNone, found: MayBeNone,
              todo: Seq(LabelSet), seen: SUBSET (Frames \X LabelSet), prev: SUBSET Entries,
              metas: SUBSET Int, left: Int]
Filing == {"add", "rename", "fetch"}

Good(r) ==
    /\ r \in ToolTypes
    /\ r.at \in Filing \cup {"find", "read"} => r.f \in Frames
    /\ r.at = "find" => r.todo # << >> /\ r.then \in Filing \cup {"read"}
    /\ r.at = "list" => r.todo # << >> /\ r.then \in {"cutIndex", "push", "score"}
    /\ r.at \in Filing \cup {"draw", "write"} => r.to \in LabelSet
    /\ r.at = "find" /\ r.then \in Filing => r.to \in LabelSet

Present(s, f) == \E l \in LabelSet : tree[s][l][f] # 0
Writer(t, s, f) == At(t, "write") /\ Site(t) = s /\ tool[t].f = f

\* A torn file is being written or its writer was killed; and a frame being
\* written is there, under the label its writer's file has now, if it has one.
TornIsKnown ==
    \A s \in Sites, l \in LabelSet, f \in Frames :
        tree[s][l][f] \notin {0, f} =>
            <<s, f>> \in cutShort \/ \E t \in Tools : Writer(t, s, f) /\ tool[t].fd = l
WritersFiles ==
    \A t \in Tools, s \in Sites, f \in Frames :
        Writer(t, s, f) => /\ Present(s, f)
                           /\ tool[t].fd # NoLabel => tree[s][tool[t].fd][f] # 0

Trees == [Sites -> [LabelSet -> [Frames -> Int]]]
Indexes == [Sites -> [cut: BOOLEAN, of: SUBSET Entries]]
StaysFiled == \A s \in Sites, f \in Frames : Kept(s, f) => Kept(s, f)'

TreeInv ==
    /\ tree \in Trees /\ index \in Indexes
    /\ tool \in [Tools -> ToolTypes] /\ \A t \in Tools : Good(tool[t])
    /\ TornIsKnown /\ WritersFiles

LEMMA LabelsAreLabels == Labels \in Seq(LabelSet) /\ Labels # << >> /\ Unsorted \in LabelSet /\ NoLabel \notin LabelSet
  BY CorpusAssumption

LEMMA IdleIsGood == Good(Idle) /\ Idle.at = "idle"
  <1>1. << >> \in Seq(LabelSet)
    OBVIOUS
  <1>2. Idle \in ToolTypes
    <2> DEFINE lists == Seq(LabelSet)
               sights == SUBSET (Frames \X LabelSet)
               entries == SUBSET Entries
               names == MayBeNone
               stamps == SUBSET Int
    <2>1. NoLabel \in names /\ << >> \in lists
      BY <1>1 DEF MayBeNone
    <2>3. "none" \in Commands /\ "idle" \in Places
      BY DEF Commands, Places
    <2>4. {} \in sights /\ {} \in entries /\ {} \in stamps
      BY Zenon
    <2>2. Idle \in [cmd: Commands, at: Places, then: Places, f: Int, to: names, fd: names, found: names, todo: lists,
                     seen: sights, prev: entries, metas: stamps, left: Int]
      <3> HIDE DEF lists, sights, entries, names, stamps
      <3> QED BY <2>1, <2>3, <2>4 DEF Idle
    <2> QED BY <2>2 DEF ToolTypes
  <1> QED BY <1>2 DEF Good, Idle, Filing

LEMMA SitesOfTools == \A t \in Tools : Site(t) \in Sites
  BY DEF Site, Sites

LEMMA KeptIsPresent ==
  ASSUME TreeInv, NEW s \in Sites, NEW f \in Frames
  PROVE  Kept(s, f) <=> Present(s, f) \/ <<s, f>> \in cutShort
  <1>1. WholeIn(s, f) => Present(s, f)
    BY FrameBytes DEF WholeIn, Present
  <1>2. BeingWritten(s, f) => Present(s, f)
    BY DEF BeingWritten, TreeInv, WritersFiles, Writer
  <1>3. ASSUME NEW l \in LabelSet, tree[s][l][f] # 0, <<s, f>> \notin cutShort
        PROVE  WholeIn(s, f) \/ BeingWritten(s, f)
    <2>1. CASE tree[s][l][f] = f
      BY <2>1 DEF WholeIn
    <2>2. CASE tree[s][l][f] # f
      BY <1>3, <2>2 DEF TreeInv, TornIsKnown, Writer, BeingWritten
    <2> QED BY <2>1, <2>2
  <1> QED BY <1>1, <1>2, <1>3 DEF Kept, Present

\* A step of one tool that touches no frame's file, begins no write and ends
\* none.
LEMMA QuietTool ==
  ASSUME TreeInv, NEW t \in Tools, NEW r, Good(r), tool' = [tool EXCEPT ![t] = r],
         UNCHANGED <<tree, cutShort>>, index' \in Indexes, ~At(t, "write"), r.at # "write"
  PROVE  TreeInv' /\ StaysFiled
  <1>1. tool' \in [Tools -> ToolTypes] /\ \A u \in Tools : Good(tool'[u])
    BY DEF TreeInv, Good
  <1>2. \A u \in Tools, s \in Sites, f \in Frames : Writer(u, s, f)' <=> Writer(u, s, f)
    BY DEF Writer, At, Site, TreeInv
  <1>3. \A u \in Tools : At(u, "write") => tool'[u] = tool[u]
    BY DEF At, TreeInv
  <1>4. TornIsKnown'
    BY <1>2, <1>3 DEF TornIsKnown, TreeInv, Writer
  <1>5. WritersFiles'
    BY <1>2, <1>3 DEF WritersFiles, TreeInv, Writer, Present
  <1>6. TreeInv'
    BY <1>1, <1>4, <1>5 DEF TreeInv
  <1>7. StaysFiled
    BY <1>2 DEF StaysFiled, Kept, WholeIn, BeingWritten, Writer
  <1> QED BY <1>6, <1>7

-----------------------------------------------------------------------------
(* Every step of a tool that touches no frame's file gives it a record that *)
(* is Good again.                                                          *)
Resting == Places \ ({"find", "read", "list", "write", "draw"} \cup Filing)

LEMMA PlainMove ==
  ASSUME TreeInv, NEW t \in Tools, NEW p \in Resting, Goes(t, p), ~At(t, "write"),
         UNCHANGED <<tree, cutShort>>, index' \in Indexes
  PROVE  TreeInv' /\ StaysFiled
  <1> DEFINE r == [tool[t] EXCEPT !.at = p]
  <1>1. tool[t] \in ToolTypes /\ tool \in [Tools -> ToolTypes]
    BY DEF TreeInv
  <1>2. r \in ToolTypes /\ r.at = p
    <2>1. p \in Places
      BY DEF Resting
    <2> QED BY <1>1, <2>1 DEF ToolTypes
  <1>3. Good(r) /\ r.at # "write"
    BY <1>2 DEF Good, Resting, Filing
  <1>4. tool' = [tool EXCEPT ![t] = r]
    BY DEF Goes
  <1> HIDE DEF r
  <1> QED BY <1>3, <1>4, QuietTool

LEMMA EndsQuietly ==
  ASSUME TreeInv, NEW t \in Tools, Ends(t), ~At(t, "write"), UNCHANGED <<tree, cutShort>>, index' \in Indexes
  PROVE  TreeInv' /\ StaysFiled
  BY IdleIsGood, QuietTool DEF Ends

\* What the tools look for next, label after label.
LEMMA MoreToDo ==
  ASSUME NEW q \in Seq(LabelSet), q # << >>
  PROVE  /\ Head(q) \in LabelSet /\ Tail(q) \in Seq(LabelSet)
         /\ Len(q) # 1 => Tail(q) # << >>
  <1>1. Len(q) \in Nat /\ Len(q) # 0 /\ Len(Tail(q)) = Len(q) - 1 /\ Len(<< >>) = 0
    OBVIOUS
  <1>2. Head(q) \in LabelSet /\ Tail(q) \in Seq(LabelSet)
    OBVIOUS
  <1>3. Len(q) # 1 => Len(Tail(q)) # 0
    BY <1>1
  <1> QED BY <1>1, <1>2, <1>3, Zenon

LEMMA SeeksQuietly ==
  ASSUME TreeInv, NEW t \in Tools, NEW f \in Frames, NEW then \in Filing, tool[t].to \in LabelSet,
         Seeks(t, f, then), ~At(t, "write"), UNCHANGED <<tree, cutShort, index>>
  PROVE  TreeInv' /\ StaysFiled
  <1> DEFINE r == [tool[t] EXCEPT !.at = "find", !.f = f, !.todo = Labels, !.then = then]
  <1>1. tool[t] \in ToolTypes /\ tool \in [Tools -> ToolTypes] /\ index' \in Indexes
    BY DEF TreeInv
  <1>2. "find" \in Places /\ then \in Places /\ Labels \in Seq(LabelSet) /\ f \in Int
    BY FrameBytes, LabelsAreLabels DEF Places, Filing
  <1>3. r \in ToolTypes /\ r.at = "find" /\ r.f = f /\ r.todo = Labels /\ r.then = then /\ r.to = tool[t].to
    BY <1>1, <1>2 DEF ToolTypes
  <1>4. Good(r)
    BY <1>3, LabelsAreLabels DEF Good, Filing
  <1>5. tool' = [tool EXCEPT ![t] = r]
    BY <1>1, Zenon DEF Seeks
  <1> HIDE DEF r
  <1> QED BY <1>1, <1>3, <1>4, <1>5, QuietTool

LEMMA FindIsQuiet ==
  ASSUME TreeInv, NEW t \in Tools, Find(t) PROVE TreeInv' /\ StaysFiled
  <1> DEFINE l == Head(tool[t].todo)
             hit == tree[Site(t)][l][tool[t].f] # 0
             over == hit \/ Len(tool[t].todo) = 1
             r == [tool[t] EXCEPT !.todo = IF over THEN << >> ELSE Tail(tool[t].todo),
                                  !.at = IF over THEN tool[t].then ELSE tool[t].at,
                                  !.found = IF hit THEN l ELSE NoLabel]
  <1>1. tool[t] \in ToolTypes /\ tool \in [Tools -> ToolTypes] /\ index' \in Indexes /\ Good(tool[t]) /\ tool[t].at = "find"
    BY DEF TreeInv, Find, files, At
  <1>2. /\ tool[t].todo \in Seq(LabelSet) /\ tool[t].todo # << >> /\ << >> \in Seq(LabelSet)
        /\ tool[t].f \in Frames /\ tool[t].then \in Filing \cup {"read"} /\ (tool[t].then \in Filing => tool[t].to \in LabelSet)
    BY <1>1 DEF Good, ToolTypes
  <1>3. l \in LabelSet /\ Tail(tool[t].todo) \in Seq(LabelSet) /\ (~over => Tail(tool[t].todo) # << >>)
    BY <1>2, MoreToDo
  <1>4. tool' = [tool EXCEPT ![t] = r]
    BY <1>1, Zenon DEF Find
  <1>5. /\ r \in ToolTypes /\ r.f = tool[t].f /\ r.to = tool[t].to /\ r.then = tool[t].then
        /\ \/ r.at = "find" /\ r.todo = Tail(tool[t].todo) /\ ~over
           \/ r.at = tool[t].then
    <2> HIDE DEF over, l
    <2>1. "find" \in Places /\ tool[t].then \in Places /\ (IF hit THEN l ELSE NoLabel) \in MayBeNone
      BY <1>1, <1>3 DEF ToolTypes, Places, MayBeNone
    <2> HIDE DEF hit
    <2>2. CASE over
      BY <1>1, <1>2, <1>3, <2>1, <2>2 DEF ToolTypes
    <2>3. CASE ~over
      BY <1>1, <1>2, <1>3, <2>1, <2>3 DEF ToolTypes
    <2> QED BY <2>2, <2>3
  <1> HIDE DEF r, over
  <1>6. Good(r) /\ r.at # "write"
    BY <1>2, <1>3, <1>5 DEF Good, Filing
  <1> QED BY <1>1, <1>4, <1>6, QuietTool DEF Find, files, At

LEMMA AllIsQuiet ==
  ASSUME TreeInv, NEW t \in Tools, All(t) PROVE TreeInv' /\ StaysFiled
  <1> DEFINE l == Head(tool[t].todo)
             sights == tool[t].seen \cup {<<f, l>> : f \in {g \in Frames : tree[Site(t)][l][g] # 0}}
             over == Len(tool[t].todo) = 1
             r == [tool[t] EXCEPT !.seen = sights, !.todo = Tail(tool[t].todo),
                                  !.at = IF over THEN tool[t].then ELSE tool[t].at]
  <1>1. tool[t] \in ToolTypes /\ tool \in [Tools -> ToolTypes] /\ index' \in Indexes /\ Good(tool[t]) /\ tool[t].at = "list"
    BY DEF TreeInv, All, files, At
  <1>2. /\ tool[t].todo \in Seq(LabelSet) /\ tool[t].todo # << >>
        /\ tool[t].then \in {"cutIndex", "push", "score"} /\ tool[t].seen \in SUBSET (Frames \X LabelSet)
    BY <1>1 DEF Good, ToolTypes
  <1>3. l \in LabelSet /\ Tail(tool[t].todo) \in Seq(LabelSet) /\ (~over => Tail(tool[t].todo) # << >>)
    BY <1>2, MoreToDo
  <1>4. tool' = [tool EXCEPT ![t] = r]
    BY <1>1, Zenon DEF All
  <1>5. sights \in SUBSET (Frames \X LabelSet)
    BY <1>2, <1>3, FrameBytes
  <1>6. /\ r \in ToolTypes /\ r.then = tool[t].then
        /\ \/ r.at = "list" /\ r.todo = Tail(tool[t].todo) /\ ~over
           \/ r.at = tool[t].then
    <2> HIDE DEF over, sights
    <2>1. "list" \in Places /\ tool[t].then \in Places
      BY <1>1 DEF ToolTypes, Places
    <2>2. CASE over
      BY <1>1, <1>3, <1>5, <2>1, <2>2 DEF ToolTypes
    <2>3. CASE ~over
      BY <1>1, <1>3, <1>5, <2>1, <2>3 DEF ToolTypes
    <2> QED BY <2>2, <2>3
  <1> HIDE DEF r, over
  <1>7. Good(r) /\ r.at # "write"
    BY <1>2, <1>3, <1>6 DEF Good, Filing
  <1> QED BY <1>1, <1>4, <1>7, QuietTool DEF All, files, At

\* Where a command goes on after its Add.
LEMMA AfterAddIsGood ==
  ASSUME TreeInv, NEW t \in Tools, NEW added \in BOOLEAN, AfterAdd(t, added), tool[t].to \in LabelSet
  PROVE  \E r \in ToolTypes : Good(r) /\ r.at # "write" /\ tool' = [tool EXCEPT ![t] = r]
  <1>1. tool[t] \in ToolTypes /\ tool \in [Tools -> ToolTypes]
    BY DEF TreeInv
  <1>2. "readIndex" \in Places /\ "draw" \in Places /\ "entries" \in Places /\ tool[t].f \in Int
        /\ tool[t].metas \in SUBSET Int /\ tool[t].left \in Int
    BY <1>1 DEF Places, ToolTypes
  <1>3. ASSUME NEW r \in ToolTypes, r.at \in {"readIndex", "draw", "entries"}, r.to = tool[t].to PROVE Good(r) /\ r.at # "write"
    BY <1>3 DEF Good, Filing
  <1>4. CASE /\ tool' = [tool EXCEPT ![t].at = IF tool[t].left = 1 THEN "readIndex" ELSE "draw", ![t].left = @ - 1,
                                     ![t].metas = IF added THEN @ \cup {tool[t].f} ELSE @]
    <2> DEFINE m == IF added THEN tool[t].metas \cup {tool[t].f} ELSE tool[t].metas
               p == IF tool[t].left = 1 THEN "readIndex" ELSE "draw"
               n == tool[t].left - 1
               r == [tool[t] EXCEPT !.at = p, !.left = n, !.metas = m]
    <2>1. tool' = [tool EXCEPT ![t] = r]
      BY <1>1, <1>4, Zenon
    <2>2. m \in SUBSET Int /\ p \in Places /\ p \in {"readIndex", "draw", "entries"} /\ n \in Int
      BY <1>2
    <2> HIDE DEF m, p, n
    <2>3. r \in ToolTypes /\ r.at = p /\ r.to = tool[t].to
      BY <1>1, <2>2 DEF ToolTypes
    <2> HIDE DEF r
    <2> QED BY <1>3, <2>1, <2>2, <2>3
  <1>5. CASE FoldMeta(t)
    <2> DEFINE r == [tool[t] EXCEPT !.at = "readIndex", !.metas = {tool[t].f}]
    <2>1. r \in ToolTypes /\ r.at = "readIndex" /\ r.to = tool[t].to
      BY <1>1, <1>2 DEF ToolTypes
    <2>2. tool' = [tool EXCEPT ![t] = r]
      BY <1>1, <1>5, Zenon DEF FoldMeta
    <2> HIDE DEF r
    <2> QED BY <1>3, <2>1, <2>2
  <1>6. CASE Ends(t)
    BY <1>6, IdleIsGood DEF Ends, Good
  <1>7. CASE Goes(t, "entries")
    <2> DEFINE r == [tool[t] EXCEPT !.at = "entries"]
    <2>1. r \in ToolTypes /\ r.at = "entries" /\ r.to = tool[t].to
      BY <1>1, <1>2 DEF ToolTypes
    <2>2. tool' = [tool EXCEPT ![t] = r]
      BY <1>1, <1>7, Zenon DEF Goes
    <2> HIDE DEF r
    <2> QED BY <1>3, <2>1, <2>2
  <1> QED BY <1>4, <1>5, <1>6, <1>7 DEF AfterAdd

LEMMA AddFindsIsQuiet ==
  ASSUME TreeInv, NEW t \in Tools, AddFinds(t) PROVE TreeInv' /\ StaysFiled
  <1>1. tool[t].to \in LabelSet /\ index' \in Indexes
    BY DEF TreeInv, Good, AddFinds, At, Filing, files
  <1>2. PICK r \in ToolTypes : Good(r) /\ r.at # "write" /\ tool' = [tool EXCEPT ![t] = r]
    BY <1>1, AfterAddIsGood DEF AddFinds
  <1> QED BY <1>1, <1>2, QuietTool DEF AddFinds, files, At

LEMMA DrawIsQuiet ==
  ASSUME TreeInv, NEW t \in Tools, Draw(t) PROVE TreeInv' /\ StaysFiled
  <1>1. tool[t].to \in LabelSet /\ index' \in Indexes /\ ~At(t, "write") /\ UNCHANGED <<tree, cutShort, index>>
    BY DEF TreeInv, Good, Draw, At, files
  <1>2. ASSUME NEW f \in Frames, Seeks(t, f, "add") PROVE TreeInv' /\ StaysFiled
    BY <1>1, <1>2, FrameBytes, SeeksQuietly DEF Filing
  <1>3. CASE Goes(t, "readIndex")
    BY <1>1, <1>3, PlainMove DEF Resting, Places, Filing
  <1>4. CASE Ends(t)
    BY <1>1, <1>4, EndsQuietly
  <1> QED BY <1>2, <1>3, <1>4 DEF Draw

LEMMA FetchIsQuiet ==
  ASSUME TreeInv, NEW t \in Tools, Fetch(t) PROVE TreeInv' /\ StaysFiled
  <1>1. tool[t].to \in LabelSet /\ index' \in Indexes /\ ~At(t, "write") /\ UNCHANGED <<tree, cutShort, index>> /\ tool[t].f \in Frames
    BY DEF TreeInv, Good, Fetch, At, files, Filing, ToolTypes
  <1>2. CASE Seeks(t, tool[t].f, "add")
    BY <1>1, <1>2, SeeksQuietly DEF Filing
  <1>3. CASE Goes(t, "entries")
    BY <1>1, <1>3, PlainMove DEF Resting, Places, Filing
  <1>4. CASE Ends(t)
    BY <1>1, <1>4, EndsQuietly
  <1> QED BY <1>2, <1>3, <1>4 DEF Fetch

LEMMA ReadIndexIsQuiet ==
  ASSUME TreeInv, NEW t \in Tools, ReadIndex(t) PROVE TreeInv' /\ StaysFiled
  <1>1. /\ index' \in Indexes /\ index[Site(t)].of \in SUBSET Entries /\ ~At(t, "write") /\ UNCHANGED <<tree, cutShort>>
        /\ tool[t] \in ToolTypes /\ tool \in [Tools -> ToolTypes]
    BY SitesOfTools DEF TreeInv, ReadIndex, At, files, Indexes
  <1>2. CASE tool' = [tool EXCEPT ![t].prev = index[Site(t)].of, ![t].todo = Labels, ![t].then = "cutIndex",
                                  ![t].at = IF tool[t].cmd = "pull" THEN "entries" ELSE "list"]
    <2> DEFINE known == index[Site(t)].of
               p == IF tool[t].cmd = "pull" THEN "entries" ELSE "list"
               r == [tool[t] EXCEPT !.prev = known, !.todo = Labels, !.then = "cutIndex", !.at = p]
    <2>1. tool' = [tool EXCEPT ![t] = r]
      BY <1>1, <1>2, Zenon
    <2>2. p \in {"entries", "list"} /\ p \in Places /\ "cutIndex" \in Places /\ known \in SUBSET Entries
      BY <1>1 DEF Places
    <2> HIDE DEF p, known
    <2>3. r \in ToolTypes /\ r.at = p /\ r.todo = Labels /\ r.then = "cutIndex"
      BY <1>1, <2>2, LabelsAreLabels DEF ToolTypes
    <2> HIDE DEF r
    <2>4. Good(r) /\ r.at # "write"
      BY <2>2, <2>3, LabelsAreLabels DEF Good, Filing
    <2> QED BY <1>1, <2>1, <2>4, QuietTool
  <1>3. CASE Ends(t)
    BY <1>1, <1>3, EndsQuietly
  <1> QED BY <1>2, <1>3 DEF ReadIndex

LEMMA IndexTruncatesIsQuiet ==
  ASSUME TreeInv, NEW t \in Tools, IndexTruncates(t) PROVE TreeInv' /\ StaysFiled
  <1>1. index \in Indexes /\ ~At(t, "write") /\ UNCHANGED <<tree, cutShort>>
    BY DEF TreeInv, IndexTruncates, At
  <1>2. CASE Ends(t) /\ UNCHANGED index
    BY <1>1, <1>2, EndsQuietly
  <1>3. CASE Goes(t, "writeIndex") /\ index' = [index EXCEPT !["desk"] = [cut |-> TRUE, of |-> {}]]
    <2>1. index' \in Indexes
      BY <1>1, <1>3 DEF Indexes
    <2> QED BY <1>1, <1>3, <2>1, PlainMove DEF Resting, Places, Filing
  <1> QED BY <1>2, <1>3 DEF IndexTruncates

LEMMA IndexWritesIsQuiet ==
  ASSUME TreeInv, NEW t \in Tools, IndexWrites(t) PROVE TreeInv' /\ StaysFiled
  <1>1. index \in Indexes /\ ~At(t, "write") /\ UNCHANGED <<tree, cutShort>> /\ Ends(t) /\ tool[t].seen \in SUBSET (Frames \X LabelSet)
    BY DEF TreeInv, IndexWrites, At, ToolTypes
  <1>2. Reindex(tool[t].prev, tool[t].seen, tool[t].metas) \in SUBSET Entries
    <2>1. \A x \in tool[t].seen : x[1] \in Frames /\ x[2] \in LabelSet
      BY <1>1
    <2> DEFINE known(x) == x[1] \in tool[t].metas \/ \E e \in tool[t].prev : e.hash = x[1] /\ e.stamped
               entry(x) == [hash |-> x[1], label |-> x[2], stamped |-> known(x)]
    <2>2. ASSUME NEW x \in tool[t].seen PROVE entry(x) \in Entries
      <3>1. known(x) \in BOOLEAN
        BY Zenon
      <3> HIDE DEF known
      <3> QED BY <2>1, <3>1 DEF Entries
    <2>3. Reindex(tool[t].prev, tool[t].seen, tool[t].metas) = {entry(x) : x \in tool[t].seen}
      BY DEF Reindex
    <2> HIDE DEF entry
    <2> QED BY <2>2, <2>3
  <1>3. PICK garbled \in BOOLEAN :
          index' = [index EXCEPT !["desk"] = [cut |-> garbled, of |-> IF garbled THEN {} ELSE Reindex(tool[t].prev, tool[t].seen, tool[t].metas)]]
    BY DEF IndexWrites
  <1> DEFINE of == IF garbled THEN {} ELSE Reindex(tool[t].prev, tool[t].seen, tool[t].metas)
  <1>4. of \in SUBSET Entries
    BY <1>2
  <1>5. index' \in Indexes
    <2> DEFINE file == [cut |-> garbled, of |-> of]
    <2>1. index' = [index EXCEPT !["desk"] = file]
      BY <1>3
    <2> HIDE DEF of
    <2>2. file \in [cut: BOOLEAN, of: SUBSET Entries]
      BY <1>4
    <2> HIDE DEF file
    <2> QED BY <1>1, <2>1, <2>2 DEF Indexes
  <1> QED BY <1>1, <1>5, EndsQuietly

\* A read is sent into the corpus: find the frame, then read it.
LEMMA LooksFor ==
  ASSUME TreeInv, NEW t \in Tools, NEW f \in Frames, NEW p \in {"push", "score", "find"}, NEW seen \in SUBSET (Frames \X LabelSet),
         tool' = [tool EXCEPT ![t].seen = seen, ![t].f = f, ![t].todo = Labels, ![t].then = "read", ![t].at = p],
         ~At(t, "write"), UNCHANGED <<tree, cutShort, index>>
  PROVE  TreeInv' /\ StaysFiled
  <1> DEFINE r == [tool[t] EXCEPT !.seen = seen, !.f = f, !.todo = Labels, !.then = "read", !.at = p]
  <1>1. tool[t] \in ToolTypes /\ tool \in [Tools -> ToolTypes] /\ index' \in Indexes
    BY DEF TreeInv
  <1>2. tool' = [tool EXCEPT ![t] = r]
    BY <1>1, Zenon
  <1>3. p \in Places /\ "read" \in Places /\ Labels \in Seq(LabelSet) /\ f \in Int
    BY FrameBytes, LabelsAreLabels DEF Places
  <1>4. r \in ToolTypes /\ r.at = p /\ r.f = f /\ r.todo = Labels /\ r.then = "read"
    BY <1>1, <1>3 DEF ToolTypes
  <1> HIDE DEF r
  <1>5. Good(r) /\ r.at # "write"
    BY <1>4, LabelsAreLabels DEF Good, Filing
  <1> QED BY <1>1, <1>2, <1>5, QuietTool

LEMMA PushNextIsQuiet ==
  ASSUME TreeInv, NEW t \in Tools, PushNext(t) PROVE TreeInv' /\ StaysFiled
  <1>1. index' \in Indexes /\ ~At(t, "write") /\ UNCHANGED <<tree, cutShort, index>> /\ tool[t].seen \in SUBSET (Frames \X LabelSet)
    BY DEF TreeInv, PushNext, At, ToolTypes, files
  <1>2. CASE Ends(t)
    BY <1>1, <1>2, EndsQuietly
  <1>3. ASSUME NEW x \in tool[t].seen,
               tool' = [tool EXCEPT ![t].seen = @ \ {x}, ![t].f = x[1], ![t].todo = Labels, ![t].then = "read",
                                    ![t].at = IF Exists(Key(x[1])) THEN "push" ELSE "find"]
        PROVE  TreeInv' /\ StaysFiled
    <2> DEFINE rest == tool[t].seen \ {x}
               p == IF Exists(Key(x[1])) THEN "push" ELSE "find"
    <2>1. x[1] \in Frames /\ rest \in SUBSET (Frames \X LabelSet) /\ p \in {"push", "score", "find"}
      BY <1>1
    <2>2. tool' = [tool EXCEPT ![t].seen = rest, ![t].f = x[1], ![t].todo = Labels, ![t].then = "read", ![t].at = p]
      BY <1>3, Zenon
    <2> HIDE DEF rest, p
    <2> QED BY <1>1, <2>1, <2>2, LooksFor
  <1> QED BY <1>2, <1>3 DEF PushNext

LEMMA ReadIsQuiet ==
  ASSUME TreeInv, NEW t \in Tools, Read(t) PROVE TreeInv' /\ StaysFiled
  <1> DEFINE bytes == IF tool[t].found = NoLabel THEN 0 ELSE tree["desk"][tool[t].found][tool[t].f]
             r == [tool[t] EXCEPT !.f = bytes, !.at = "got"]
  <1>1. index' \in Indexes /\ ~At(t, "write") /\ UNCHANGED <<tree, cutShort>> /\ tool[t] \in ToolTypes /\ tool \in [Tools -> ToolTypes]
    BY DEF TreeInv, Read, At, files
  <1>2. CASE Ends(t)
    BY <1>1, <1>2, EndsQuietly
  <1>3. CASE tool' = [tool EXCEPT ![t].f = bytes, ![t].at = "got"] /\ bytes \in Int
    <2>1. tool' = [tool EXCEPT ![t] = r]
      BY <1>1, <1>3, Zenon
    <2>2. "got" \in Places
      BY DEF Places
    <2> HIDE DEF bytes
    <2>3. r \in ToolTypes /\ r.at = "got"
      BY <1>1, <1>3, <2>2 DEF ToolTypes
    <2> HIDE DEF r
    <2>4. Good(r) /\ r.at # "write"
      BY <2>3 DEF Good, Filing
    <2> QED BY <1>1, <2>1, <2>4, QuietTool
  <1>4. bytes \in Int
    <2>1. tree \in Trees /\ tool[t].f \in Frames /\ (tool[t].found # NoLabel => tool[t].found \in LabelSet) /\ "desk" \in Sites
      BY <1>1 DEF TreeInv, Good, Read, At, ToolTypes, MayBeNone, Sites
    <2>2. CASE tool[t].found = NoLabel
      BY <2>2
    <2>3. CASE tool[t].found # NoLabel
      BY <2>1, <2>3 DEF Trees
    <2> QED BY <2>2, <2>3
  <1> QED BY <1>2, <1>3, <1>4 DEF Read

LEMMA PushPutsIsQuiet ==
  ASSUME TreeInv, NEW t \in Tools, PushPuts(t) PROVE TreeInv' /\ StaysFiled
  <1>1. index' \in Indexes /\ ~At(t, "write") /\ UNCHANGED <<tree, cutShort>> /\ (Goes(t, "push") \/ Ends(t))
    BY DEF TreeInv, PushPuts, At
  <1> QED BY <1>1, PlainMove, EndsQuietly DEF Resting, Places, Filing

LEMMA PullNextIsQuiet ==
  ASSUME TreeInv, NEW t \in Tools, PullNext(t) PROVE TreeInv' /\ StaysFiled
  <1>1. /\ index' \in Indexes /\ ~At(t, "write") /\ UNCHANGED <<tree, cutShort, index>>
        /\ tool[t] \in ToolTypes /\ tool \in [Tools -> ToolTypes]
    BY DEF TreeInv, PullNext, At
  <1>2. CASE Ends(t)
    BY <1>1, <1>2, EndsQuietly
  <1>3. ASSUME NEW e \in tool[t].prev,
               tool' = [tool EXCEPT ![t].prev = @ \ {e}, ![t].f = e.hash, ![t].to = e.label,
                                    ![t].at = "find", ![t].todo = Labels, ![t].then = "fetch"]
        PROVE  TreeInv' /\ StaysFiled
    <2> DEFINE rest == tool[t].prev \ {e}
               r == [tool[t] EXCEPT !.prev = rest, !.f = e.hash, !.to = e.label, !.at = "find", !.todo = Labels, !.then = "fetch"]
    <2>1. tool' = [tool EXCEPT ![t] = r]
      BY <1>1, <1>3, Zenon
    <2>2. rest \in SUBSET Entries /\ e \in Entries
      BY <1>1 DEF ToolTypes
    <2>3. e.hash \in Frames /\ e.hash \in Int /\ e.label \in LabelSet /\ e.label \in MayBeNone
      BY <2>2, FrameBytes DEF Entries, MayBeNone
    <2>4. "find" \in Places /\ "fetch" \in Places /\ Labels \in Seq(LabelSet) /\ Labels # << >>
      BY LabelsAreLabels DEF Places
    <2> HIDE DEF rest
    <2>5. /\ r \in ToolTypes /\ r.at = "find" /\ r.f = e.hash /\ r.todo = Labels /\ r.then = "fetch" /\ r.to = e.label
      BY <1>1, <2>2, <2>3, <2>4 DEF ToolTypes
    <2> HIDE DEF r
    <2>6. Good(r) /\ r.at # "write"
      BY <2>3, <2>4, <2>5 DEF Good, Filing
    <2> QED BY <1>1, <2>1, <2>6, QuietTool
  <1> QED BY <1>2, <1>3 DEF PullNext

\* A command that begins by listing the corpus.
LEMMA ListingIsQuiet ==
  ASSUME TreeInv, NEW t \in Tools, NEW c \in Commands, NEW then \in {"push", "score"},
         tool' = [tool EXCEPT ![t].cmd = c, ![t].at = "list", ![t].todo = Labels, ![t].then = then],
         ~At(t, "write"), UNCHANGED <<tree, cutShort, index>>
  PROVE  TreeInv' /\ StaysFiled
  <1> DEFINE r == [tool[t] EXCEPT !.cmd = c, !.at = "list", !.todo = Labels, !.then = then]
  <1>1. tool[t] \in ToolTypes /\ tool \in [Tools -> ToolTypes] /\ index' \in Indexes
    BY DEF TreeInv
  <1>2. tool' = [tool EXCEPT ![t] = r]
    BY <1>1, Zenon
  <1>3. "list" \in Places /\ then \in Places /\ Labels \in Seq(LabelSet) /\ Labels # << >>
    BY LabelsAreLabels DEF Places
  <1>4. r \in ToolTypes /\ r.at = "list" /\ r.todo = Labels /\ r.then = then
    BY <1>1, <1>3 DEF ToolTypes
  <1> HIDE DEF r
  <1>5. Good(r) /\ r.at # "write"
    BY <1>3, <1>4 DEF Good, Filing
  <1> QED BY <1>1, <1>2, <1>5, QuietTool

\* A command is given to a tool that has nothing to do.
LEMMA StartIsQuiet ==
  ASSUME TreeInv, NEW t \in Tools, NEW cmd, Start(t, cmd) PROVE TreeInv' /\ StaysFiled
  <1>1. /\ index' \in Indexes /\ ~At(t, "write") /\ UNCHANGED <<tree, cutShort, index>>
        /\ tool[t] \in ToolTypes /\ tool \in [Tools -> ToolTypes]
    BY DEF TreeInv, Start, At, files
  <1>2. /\ Labels \in Seq(LabelSet) /\ Labels # << >> /\ Unsorted \in LabelSet /\ Unsorted \in MayBeNone
        /\ 1 \in Int /\ SessionMax \in Int
    BY CorpusAssumption DEF MayBeNone
  <1>3. ASSUME NEW c \in Commands, NEW n \in Int, Sits(t, c, n) PROVE TreeInv' /\ StaysFiled
    <2> DEFINE r == [tool[t] EXCEPT !.cmd = c, !.at = "draw", !.to = Unsorted, !.left = n]
    <2>1. tool' = [tool EXCEPT ![t] = r]
      BY <1>1, <1>3, Zenon DEF Sits
    <2>2. "draw" \in Places
      BY DEF Places
    <2>3. r \in ToolTypes /\ r.at = "draw" /\ r.to = Unsorted
      BY <1>1, <1>2, <2>2 DEF ToolTypes
    <2> HIDE DEF r
    <2>4. Good(r) /\ r.at # "write"
      BY <1>2, <2>3 DEF Good, Filing
    <2> QED BY <1>1, <2>1, <2>4, QuietTool
  <1>4. CASE HandleLabel(t)
    <2>1. PICK f \in Frames, l \in LabelSet :
             tool' = [tool EXCEPT ![t] = [Idle EXCEPT !.cmd = "label", !.to = l, !.at = "find", !.f = f,
                                                      !.todo = Labels, !.then = "rename"]]
      BY <1>4 DEF HandleLabel
    <2> DEFINE r == [Idle EXCEPT !.cmd = "label", !.to = l, !.at = "find", !.f = f, !.todo = Labels, !.then = "rename"]
    <2>2. /\ Idle \in ToolTypes /\ f \in Int /\ l \in MayBeNone /\ "find" \in Places /\ "rename" \in Places
          /\ "label" \in Commands
      BY FrameBytes, IdleIsGood DEF MayBeNone, Places, Good, Commands
    <2>3. r \in ToolTypes /\ r.at = "find" /\ r.f = f /\ r.to = l /\ r.todo = Labels /\ r.then = "rename"
      BY <1>2, <2>2 DEF ToolTypes
    <2>4. tool' = [tool EXCEPT ![t] = r]
      BY <2>1
    <2> HIDE DEF r
    <2>5. Good(r) /\ r.at # "write"
      BY <1>2, <2>3 DEF Good, Filing
    <2> QED BY <1>1, <2>4, <2>5, QuietTool
  <1>5. ASSUME NEW c \in Commands, tool' = [tool EXCEPT ![t].cmd = c, ![t].at = "readIndex"] PROVE TreeInv' /\ StaysFiled
    <2> DEFINE r == [tool[t] EXCEPT !.cmd = c, !.at = "readIndex"]
    <2>1. tool' = [tool EXCEPT ![t] = r]
      BY <1>1, <1>5, Zenon
    <2>2. "readIndex" \in Places
      BY DEF Places
    <2>3. r \in ToolTypes /\ r.at = "readIndex"
      BY <1>1, <2>2 DEF ToolTypes
    <2> HIDE DEF r
    <2>4. Good(r) /\ r.at # "write"
      BY <2>3 DEF Good, Filing
    <2> QED BY <1>1, <2>1, <2>4, QuietTool
  <1>6. ASSUME NEW c \in Commands, NEW then \in {"push", "score"},
               tool' = [tool EXCEPT ![t].cmd = c, ![t].at = "list", ![t].todo = Labels, ![t].then = then]
        PROVE  TreeInv' /\ StaysFiled
    BY <1>1, <1>6, ListingIsQuiet
  <1>7. CASE RunCorpus(t, cmd)
    BY <1>5, <1>6, <1>7 DEF RunCorpus, Commands
  <1>8. CASE cmd = "record" /\ Sits(t, cmd, SessionMax)
    BY <1>2, <1>3, <1>8 DEF Commands
  <1>9. CASE cmd = "capture" /\ HandleCapture(t)
    BY <1>2, <1>3, <1>9 DEF Commands, HandleCapture
  <1> QED BY <1>4, <1>7, <1>8, <1>9 DEF Start

-----------------------------------------------------------------------------
(* The editors of the library never write in the corpus.                    *)
LEMMA StartLibIsQuiet ==
  ASSUME TreeInv, NEW t \in Tools, NEW cmd, StartLib(t, cmd) PROVE TreeInv' /\ StaysFiled
  <1>1. /\ index' \in Indexes /\ ~At(t, "write") /\ UNCHANGED <<tree, cutShort, index>>
        /\ tool[t] \in ToolTypes /\ tool \in [Tools -> ToolTypes]
    BY DEF TreeInv, StartLib, At, Keeps, files
  <1>2. ASSUME NEW f \in Frames, cmd = "crop",
               tool' = [tool EXCEPT ![t] = [Idle EXCEPT !.cmd = cmd, !.at = "find", !.f = f, !.todo = Labels, !.then = "read"]]
        PROVE  TreeInv' /\ StaysFiled
    <2> DEFINE r == [Idle EXCEPT !.cmd = cmd, !.at = "find", !.f = f, !.todo = Labels, !.then = "read"]
    <2>1. /\ Idle \in ToolTypes /\ f \in Int /\ "find" \in Places /\ "read" \in Places /\ cmd \in Commands
          /\ Labels \in Seq(LabelSet) /\ Labels # << >>
      BY <1>2, FrameBytes, IdleIsGood, LabelsAreLabels DEF Places, Good, Commands
    <2>2. r \in ToolTypes /\ r.at = "find" /\ r.f = f /\ r.todo = Labels /\ r.then = "read"
      BY <2>1 DEF ToolTypes
    <2>3. tool' = [tool EXCEPT ![t] = r]
      BY <1>2
    <2> HIDE DEF r
    <2>4. Good(r) /\ r.at # "write"
      BY <2>1, <2>2 DEF Good, Filing
    <2> QED BY <1>1, <2>3, <2>4, QuietTool
  <1>3. ASSUME cmd = "score", tool' = [tool EXCEPT ![t].cmd = cmd, ![t].at = "list", ![t].todo = Labels, ![t].then = "score"]
        PROVE  TreeInv' /\ StaysFiled
    <2>1. cmd \in Commands
      BY <1>3 DEF Commands
    <2> QED BY <1>1, <1>3, <2>1, ListingIsQuiet
  <1> QED BY <1>2, <1>3 DEF StartLib

LEMMA ScoreReadsIsQuiet ==
  ASSUME TreeInv, NEW t \in Tools, ScoreReads(t) PROVE TreeInv' /\ StaysFiled
  <1>1. /\ index' \in Indexes /\ ~At(t, "write") /\ UNCHANGED <<tree, cutShort, index>>
        /\ tool[t].seen \in SUBSET (Frames \X LabelSet)
    BY DEF TreeInv, ScoreReads, At, Keeps, files, ToolTypes
  <1>2. CASE Goes(t, "score") \/ Goes(t, "tune")
    BY <1>1, <1>2, PlainMove DEF Resting, Places, Filing
  <1>3. CASE Leaves(t)
    BY <1>1, <1>3, EndsQuietly DEF Leaves
  <1>4. ASSUME NEW x \in tool[t].seen,
               tool' = [tool EXCEPT ![t].seen = @ \ {x}, ![t].f = x[1], ![t].todo = Labels, ![t].then = "read",
                                    ![t].at = IF x[2] = Unsorted THEN "score" ELSE "find"]
        PROVE  TreeInv' /\ StaysFiled
    <2> DEFINE rest == tool[t].seen \ {x}
               p == IF x[2] = Unsorted THEN "score" ELSE "find"
    <2>1. x[1] \in Frames /\ rest \in SUBSET (Frames \X LabelSet) /\ p \in {"push", "score", "find"}
      BY <1>1
    <2>2. tool' = [tool EXCEPT ![t].seen = rest, ![t].f = x[1], ![t].todo = Labels, ![t].then = "read", ![t].at = p]
      BY <1>4, Zenon
    <2> HIDE DEF rest, p
    <2> QED BY <1>1, <2>1, <2>2, LooksFor
  <1> QED BY <1>2, <1>3, <1>4 DEF ScoreReads

LEMMA EditsAreQuiet ==
  ASSUME TreeInv, NEW t \in Tools,
         \/ CropPlans(t) \/ TunePlans(t) \/ ReadTemplate(t) \/ WriteTemplate(t) \/ WriteManifestFile(t)
         \/ CheckLibrary(t) \/ RestoreManifest(t) \/ RestoreTemplate(t) \/ RestoreFails(t) \/ Refuses(t)
  PROVE  TreeInv' /\ StaysFiled
  <1> DEFINE stops == {"readTemplate", "cutTemplate", "putTemplate", "cutManifest", "putManifest", "check",
                       "undoManifest", "backManifest", "undoTemplate", "backTemplate"}
             moves == /\ ~At(t, "write") /\ Keeps
                      /\ Ends(t) \/ \E p \in stops : Goes(t, p)
  <1>1. moves
    <2>1. CASE CropPlans(t) \/ TunePlans(t) \/ ReadTemplate(t)
      BY <2>1 DEF CropPlans, TunePlans, ReadTemplate, At, Leaves
    <2>2. CASE WriteTemplate(t) \/ WriteManifestFile(t)
      BY <2>2 DEF WriteTemplate, WriteManifestFile, Writes, At
    <2>3. CASE CheckLibrary(t)
      BY <2>3 DEF CheckLibrary, At, Leaves
    <2>4. CASE RestoreManifest(t)
      BY <2>4 DEF RestoreManifest, AfterUndo, At, Leaves
    <2>5. CASE RestoreTemplate(t) \/ RestoreFails(t) \/ Refuses(t)
      BY <2>5 DEF RestoreTemplate, RestoreFails, Refuses, AfterUndo, At, Leaves
    <2> QED BY <2>1, <2>2, <2>3, <2>4, <2>5
  <1>2. index' \in Indexes /\ UNCHANGED <<tree, cutShort>>
    BY <1>1 DEF TreeInv, Keeps, files
  <1>3. CASE Ends(t)
    BY <1>1, <1>2, <1>3, EndsQuietly
  <1>4. ASSUME NEW p \in stops, Goes(t, p) PROVE TreeInv' /\ StaysFiled
    <2>1. p \in Resting
      BY DEF Resting, Places, Filing
    <2> QED BY <1>1, <1>2, <1>4, <2>1, PlainMove
  <1> QED BY <1>1, <1>3, <1>4

LEMMA LibStepIsQuiet ==
  ASSUME TreeInv, NEW t \in Tools, LibStep(t) PROVE TreeInv' /\ StaysFiled
  BY ScoreReadsIsQuiet, EditsAreQuiet DEF LibStep

-----------------------------------------------------------------------------
(* The steps that write, move or abandon a frame's file.                    *)
\* What is there stays there under some label, and a death is not forgotten.
LEMMA GrowingStaysFiled ==
  ASSUME TreeInv, TreeInv', cutShort \subseteq cutShort',
         \A s \in Sites, l \in LabelSet, f \in Frames : tree[s][l][f] # 0 => Present(s, f)'
  PROVE  StaysFiled
  <1> SUFFICES ASSUME NEW s \in Sites, NEW f \in Frames, Kept(s, f) PROVE Kept(s, f)'
    BY DEF StaysFiled
  <1>1. Present(s, f) \/ <<s, f>> \in cutShort
    BY KeptIsPresent
  <1>2. Present(s, f)' \/ <<s, f>> \in cutShort'
    BY <1>1 DEF Present
  <1>3. ASSUME NEW l \in LabelSet, tree'[s][l][f] # 0, <<s, f>> \notin cutShort'
        PROVE  WholeIn(s, f)' \/ BeingWritten(s, f)'
    <2>1. CASE tree'[s][l][f] = f
      BY <2>1 DEF WholeIn
    <2>2. CASE tree'[s][l][f] # f
      BY <1>3, <2>2 DEF TreeInv, TornIsKnown, Writer, BeingWritten
    <2> QED BY <2>1, <2>2
  <1> QED BY <1>2, <1>3 DEF Kept, Present

SameBut(T, U, s, l, f, b) ==
    \A s2 \in Sites, l2 \in LabelSet, f2 \in Frames :
        U[s2][l2][f2] = IF s2 = s /\ l2 = l /\ f2 = f THEN b ELSE T[s2][l2][f2]

LEMMA OneFile ==
  ASSUME NEW T \in Trees, NEW s \in Sites, NEW l \in LabelSet, NEW f \in Int, NEW b \in Int,
         NEW U, U = [T EXCEPT ![s][l][f] = b]
  PROVE  U \in Trees /\ SameBut(T, U, s, l, f, b)
  <1> DEFINE dir == [T[s][l] EXCEPT ![f] = b]
             site == [T[s] EXCEPT ![l] = dir]
  <1>1. U = [T EXCEPT ![s] = site]
    BY Zenon
  <1>2. dir \in [Frames -> Int] /\ \A f2 \in Frames : dir[f2] = IF f2 = f THEN b ELSE T[s][l][f2]
    BY DEF Trees
  <1> HIDE DEF dir
  <1>3. /\ site \in [LabelSet -> [Frames -> Int]]
        /\ \A l2 \in LabelSet : site[l2] = IF l2 = l THEN dir ELSE T[s][l2]
    BY <1>2 DEF Trees
  <1> HIDE DEF site
  <1>4. U \in Trees /\ \A s2 \in Sites : U[s2] = IF s2 = s THEN site ELSE T[s2]
    BY <1>1, <1>3 DEF Trees
  <1> QED BY <1>2, <1>3, <1>4 DEF SameBut

\* What the three steps that write in the tree make of it.
LEMMA WhereOpened ==
  ASSUME TreeInv, NEW t \in Tools, AddTruncates(t)
  PROVE  /\ tree' \in Trees
         /\ \A s \in Sites, l \in LabelSet, f \in Frames :
               tree'[s][l][f] = IF s = Site(t) /\ l = tool[t].to /\ f = tool[t].f THEN Torn(f) ELSE tree[s][l][f]
  <1> DEFINE s == Site(t)
             l == tool[t].to
             f == tool[t].f
  <1>1. tree \in Trees /\ s \in Sites /\ l \in LabelSet /\ f \in Int /\ Torn(f) \in Int
    BY SitesOfTools DEF TreeInv, AddTruncates, At, Good, Filing, ToolTypes, Torn
  <1>2. tree' = [tree EXCEPT ![s][l][f] = Torn(f)]
    BY DEF AddTruncates, Opens
  <1> HIDE DEF s, l, f
  <1>3. tree' \in Trees /\ SameBut(tree, tree', s, l, f, Torn(f))
    BY <1>1, <1>2, OneFile
  <1> QED BY <1>3 DEF SameBut, s, l, f

LEMMA WhereWritten ==
  ASSUME TreeInv, NEW t \in Tools, AddWrites(t)
  PROVE  /\ tree' \in Trees
         /\ \A s \in Sites, l \in LabelSet, f \in Frames :
               tree'[s][l][f] = IF s = Site(t) /\ l = tool[t].fd /\ f = tool[t].f THEN f ELSE tree[s][l][f]
  <1> DEFINE s == Site(t)
             l == tool[t].fd
             f == tool[t].f
  <1>1. tree \in Trees /\ s \in Sites /\ l \in MayBeNone /\ f \in Int /\ NoLabel \notin LabelSet
    BY SitesOfTools, LabelsAreLabels DEF TreeInv, AddWrites, At, Good, ToolTypes
  <1>2. CASE l = NoLabel
    BY <1>1, <1>2 DEF AddWrites
  <1>3. CASE l # NoLabel
    <2>1. tree' = [tree EXCEPT ![s][l][f] = f] /\ l \in LabelSet
      BY <1>1, <1>3 DEF AddWrites, MayBeNone
    <2> HIDE DEF s, l, f
    <2>2. tree' \in Trees /\ SameBut(tree, tree', s, l, f, f)
      BY <1>1, <2>1, OneFile
    <2> QED BY <2>2 DEF SameBut, s, l, f
  <1> QED BY <1>2, <1>3

LEMMA WhereMoved ==
  ASSUME TreeInv, NEW t \in Tools, At(t, "rename"), MustMove(t), Moves(t)
  PROVE  /\ tool[t].found \in LabelSet /\ tool[t].found # tool[t].to /\ tree["desk"][tool[t].found][tool[t].f] # 0
         /\ tree' \in Trees
         /\ \A s \in Sites, l \in LabelSet, f \in Frames :
               tree'[s][l][f] = IF s = "desk" /\ f = tool[t].f /\ l = tool[t].to THEN tree["desk"][tool[t].found][f]
                                ELSE IF s = "desk" /\ f = tool[t].f /\ l = tool[t].found THEN 0 ELSE tree[s][l][f]
  <1> DEFINE f == tool[t].f
             old == tool[t].found
             new == tool[t].to
             b == tree["desk"][old][f]
             T == [tree EXCEPT !["desk"][new][f] = b]
  <1>1. /\ tree \in Trees /\ f \in Frames /\ f \in Int /\ new \in LabelSet /\ old \in MayBeNone /\ "desk" \in Sites
        /\ NoLabel \notin LabelSet
    BY FrameBytes, LabelsAreLabels DEF TreeInv, At, Good, Filing, ToolTypes, Sites
  <1>2. old \in LabelSet /\ old # new /\ tree["desk"][old][f] # 0
    BY <1>1 DEF MustMove, MayBeNone
  <1>3. tree' = [tree EXCEPT !["desk"][new][f] = tree["desk"][old][f], !["desk"][old][f] = 0]
    BY Zenon DEF Moves
  <1> HIDE DEF f, old, new
  <1>4. b \in Int
    BY <1>1, <1>2 DEF Trees
  <1>5. tree' = [T EXCEPT !["desk"][old][f] = 0]
    BY <1>3, Zenon
  <1>6. T \in Trees /\ SameBut(tree, T, "desk", new, f, b)
    <2> HIDE DEF b
    <2> QED BY <1>1, <1>4, OneFile DEF T
  <1>7. tree' \in Trees /\ SameBut(T, tree', "desk", old, f, 0)
    <2> HIDE DEF T
    <2>1. 0 \in Int
      OBVIOUS
    <2> QED BY <1>1, <1>2, <1>5, <1>6, <2>1, OneFile
  <1> HIDE DEF T, b
  <1> QED BY <1>2, <1>6, <1>7 DEF SameBut, b, f, old, new

LEMMA OpensKeepsFiled ==
  ASSUME TreeInv, NEW t \in Tools, AddTruncates(t) PROVE TreeInv' /\ StaysFiled
  <1> DEFINE s == Site(t)
             l == tool[t].to
             f == tool[t].f
             r == [tool[t] EXCEPT !.at = "write", !.fd = l]
  <1>1. /\ tree \in Trees /\ tool \in [Tools -> ToolTypes] /\ tool[t] \in ToolTypes /\ index' \in Indexes
        /\ s \in Sites /\ l \in LabelSet /\ tool[t].at = "add" /\ UNCHANGED cutShort
    BY SitesOfTools DEF TreeInv, AddTruncates, Opens, At, Good, Filing
  <1>2. tool' = [tool EXCEPT ![t] = r]
    BY <1>1, Zenon DEF AddTruncates, Opens
  <1>3. r \in ToolTypes /\ r.at = "write" /\ r.fd = l /\ r.to = l /\ r.f = f /\ r.cmd = tool[t].cmd
    BY <1>1 DEF ToolTypes, Places, MayBeNone
  <1> HIDE DEF r
  <1>4. Good(r)
    BY <1>1, <1>3 DEF Good, Filing
  <1>5. tool' \in [Tools -> ToolTypes] /\ tool'[t] = r /\ \A u \in Tools : u # t => tool'[u] = tool[u]
    BY <1>1, <1>2, <1>3
  <1>6. \A u \in Tools : Good(tool'[u])
    BY <1>4, <1>5 DEF TreeInv
  <1>7. tree' = [tree EXCEPT ![s][l][f] = Torn(f)] /\ f \in Int /\ Torn(f) \in Int
    BY <1>1 DEF AddTruncates, Opens, ToolTypes, Torn
  <1>8. /\ tree' \in Trees
        /\ \A s2 \in Sites, l2 \in LabelSet, f2 \in Frames :
              tree'[s2][l2][f2] = IF s2 = s /\ l2 = l /\ f2 = f THEN Torn(f) ELSE tree[s2][l2][f2]
    <2>1. /\ tree' \in Trees
          /\ \A s2 \in Sites, l2 \in LabelSet, f2 \in Frames :
                tree'[s2][l2][f2] = IF s2 = s /\ l2 = l /\ f2 = f THEN Torn(f2) ELSE tree[s2][l2][f2]
      BY WhereOpened
    <2> HIDE DEF s, l, f
    <2> QED BY <2>1
  <1>9. \A f2 \in Frames : Torn(f2) # 0
    BY FrameBytes DEF Torn
  <1>10. \A s2 \in Sites, l2 \in LabelSet, f2 \in Frames : tree[s2][l2][f2] # 0 => tree'[s2][l2][f2] # 0
    BY <1>8, <1>9
  <1>11. \A u \in Tools, s2 \in Sites, f2 \in Frames :
            IF u = t THEN Writer(u, s2, f2)' <=> s2 = s /\ f2 = f ELSE Writer(u, s2, f2)' <=> Writer(u, s2, f2)
    BY <1>1, <1>3, <1>5 DEF Writer, At, Site
  <1> HIDE DEF s, l, f
  <1>12. TornIsKnown'
    <2> SUFFICES ASSUME NEW s2 \in Sites, NEW l2 \in LabelSet, NEW f2 \in Frames, tree'[s2][l2][f2] \notin {0, f2}
                 PROVE  <<s2, f2>> \in cutShort' \/ \E u \in Tools : Writer(u, s2, f2)' /\ tool'[u].fd = l2
      BY DEF TornIsKnown
    <2>1. CASE s2 = s /\ l2 = l /\ f2 = f
      BY <1>3, <1>5, <1>11, <2>1
    <2>2. CASE ~(s2 = s /\ l2 = l /\ f2 = f)
      <3>1. <<s2, f2>> \in cutShort \/ \E u \in Tools : Writer(u, s2, f2) /\ tool[u].fd = l2
        BY <1>8, <2>2 DEF TreeInv, TornIsKnown
      <3>2. \A u \in Tools : Writer(u, s2, f2) => u # t
        BY <1>1 DEF Writer, At
      <3> QED BY <1>1, <1>5, <1>11, <3>1, <3>2
    <2> QED BY <2>1, <2>2
  <1>13. WritersFiles'
    <2> SUFFICES ASSUME NEW u \in Tools, NEW s2 \in Sites, NEW f2 \in Frames, Writer(u, s2, f2)'
                 PROVE  Present(s2, f2)' /\ (tool'[u].fd # NoLabel => tree'[s2][tool'[u].fd][f2] # 0)
      BY DEF WritersFiles
    <2>1. CASE u = t
      BY <1>1, <1>3, <1>5, <1>8, <1>9, <1>11, <2>1 DEF Present
    <2>2. CASE u # t
      <3>1. Writer(u, s2, f2) /\ tool'[u] = tool[u]
        BY <1>5, <1>11, <2>2
      <3>2. Present(s2, f2) /\ (tool[u].fd # NoLabel => tool[u].fd \in LabelSet /\ tree[s2][tool[u].fd][f2] # 0)
        BY <1>1, <3>1 DEF TreeInv, WritersFiles, ToolTypes, MayBeNone
      <3> QED BY <1>10, <3>1, <3>2 DEF Present
    <2> QED BY <2>1, <2>2
  <1>14. TreeInv'
    BY <1>1, <1>5, <1>6, <1>8, <1>12, <1>13 DEF TreeInv
  <1> QED BY <1>14, <1>10, <1>1, GrowingStaysFiled DEF Present

LEMMA WritesKeepFiled ==
  ASSUME TreeInv, NEW t \in Tools, AddWrites(t) PROVE TreeInv' /\ StaysFiled
  <1> DEFINE s == Site(t)
             l == tool[t].fd
             f == tool[t].f
  <1>1. /\ tree \in Trees /\ tool \in [Tools -> ToolTypes] /\ index' \in Indexes /\ UNCHANGED cutShort
        /\ s \in Sites /\ l \in MayBeNone /\ f \in Int /\ tool[t].at = "write" /\ tool[t].to \in LabelSet
        /\ NoLabel \notin LabelSet
    BY SitesOfTools, LabelsAreLabels DEF TreeInv, AddWrites, At, Good, ToolTypes
  <1>2. PICK r \in ToolTypes : Good(r) /\ r.at # "write" /\ tool' = [tool EXCEPT ![t] = r]
    BY <1>1, AfterAddIsGood DEF AddWrites
  <1>3. tool' \in [Tools -> ToolTypes] /\ tool'[t] = r /\ \A u \in Tools : u # t => tool'[u] = tool[u]
    BY <1>1, <1>2
  <1>4. \A u \in Tools : Good(tool'[u])
    BY <1>2, <1>3 DEF TreeInv
  <1>5. \A u \in Tools, s2 \in Sites, f2 \in Frames : Writer(u, s2, f2)' <=> u # t /\ Writer(u, s2, f2)
    BY <1>2, <1>3 DEF Writer, At, Site
  <1>6. /\ tree' \in Trees
        /\ \A s2 \in Sites, l2 \in LabelSet, f2 \in Frames :
              tree'[s2][l2][f2] = IF s2 = s /\ l2 = l /\ f2 = f THEN f ELSE tree[s2][l2][f2]
    BY WhereWritten
  <1>7. \A s2 \in Sites, l2 \in LabelSet, f2 \in Frames : tree[s2][l2][f2] # 0 => tree'[s2][l2][f2] # 0
    BY <1>6, FrameBytes
  <1>8. TornIsKnown'
    <2> SUFFICES ASSUME NEW s2 \in Sites, NEW l2 \in LabelSet, NEW f2 \in Frames, tree'[s2][l2][f2] \notin {0, f2}
                 PROVE  <<s2, f2>> \in cutShort' \/ \E u \in Tools : Writer(u, s2, f2)' /\ tool'[u].fd = l2
      BY DEF TornIsKnown
    <2>1. ~(s2 = s /\ l2 = l /\ f2 = f) /\ tree[s2][l2][f2] \notin {0, f2}
      BY <1>6
    <2>2. <<s2, f2>> \in cutShort \/ \E u \in Tools : Writer(u, s2, f2) /\ tool[u].fd = l2
      BY <2>1 DEF TreeInv, TornIsKnown
    <2>3. \A u \in Tools : Writer(u, s2, f2) /\ tool[u].fd = l2 => u # t
      BY <2>1 DEF Writer
    <2> QED BY <1>1, <1>3, <1>5, <2>2, <2>3
  <1>9. WritersFiles'
    <2> SUFFICES ASSUME NEW u \in Tools, NEW s2 \in Sites, NEW f2 \in Frames, Writer(u, s2, f2)'
                 PROVE  Present(s2, f2)' /\ (tool'[u].fd # NoLabel => tree'[s2][tool'[u].fd][f2] # 0)
      BY DEF WritersFiles
    <2>1. Writer(u, s2, f2) /\ tool'[u] = tool[u]
      BY <1>3, <1>5
    <2>2. Present(s2, f2) /\ (tool[u].fd # NoLabel => tool[u].fd \in LabelSet /\ tree[s2][tool[u].fd][f2] # 0)
      BY <1>1, <2>1 DEF TreeInv, WritersFiles, ToolTypes, MayBeNone
    <2> QED BY <1>7, <2>1, <2>2 DEF Present
  <1>10. TreeInv'
    BY <1>1, <1>3, <1>4, <1>6, <1>8, <1>9 DEF TreeInv
  <1> QED BY <1>10, <1>7, <1>1, GrowingStaysFiled DEF Present

\* A rename takes the bytes along, and whoever is still writing them.
LEMMA RenameKeepsFiled ==
  ASSUME TreeInv, NEW t \in Tools, Rename(t) PROVE TreeInv' /\ StaysFiled
  <1> DEFINE f == tool[t].f
             old == tool[t].found
             new == tool[t].to
             followed(l) == IF l = old THEN new ELSE IF l = new THEN NoLabel ELSE l
             follows(u) == At(u, "write") /\ Site(u) = "desk" /\ tool[u].f = f
  <1>1. /\ tree \in Trees /\ tool \in [Tools -> ToolTypes] /\ index' \in Indexes /\ UNCHANGED cutShort
        /\ f \in Frames /\ f \in Int /\ tool[t].at = "rename" /\ new \in LabelSet /\ old \in MayBeNone /\ "desk" \in Sites
        /\ NoLabel \notin LabelSet
    BY FrameBytes, LabelsAreLabels DEF TreeInv, Rename, At, Good, Filing, ToolTypes, Sites
  <1>2. CASE Ends(t) /\ UNCHANGED tree
    BY <1>1, <1>2, EndsQuietly DEF At
  <1>3. CASE MustMove(t) /\ Moves(t)
    <2>1. old \in LabelSet /\ old # new /\ tree["desk"][old][f] # 0
      BY <1>1, <1>3 DEF MustMove, MayBeNone
    <2>3. /\ tree' \in Trees
          /\ \A s2 \in Sites, l2 \in LabelSet, f2 \in Frames :
                tree'[s2][l2][f2] = IF s2 = "desk" /\ f2 = f /\ l2 = new THEN tree["desk"][old][f]
                                    ELSE IF s2 = "desk" /\ f2 = f /\ l2 = old THEN 0 ELSE tree[s2][l2][f2]
      BY <1>1, <1>3, WhereMoved DEF At
    <2>4. tool' = [u \in Tools |-> IF u = t THEN Idle
                                  ELSE IF follows(u) THEN [tool[u] EXCEPT !.fd = followed(tool[u].fd)] ELSE tool[u]]
      BY <1>3, Zenon DEF Moves
    <2>5. \A u \in Tools : u # t /\ ~follows(u) => tool'[u] = tool[u]
      BY <2>4
    <2>6. \A u \in Tools : u # t /\ follows(u) =>
             /\ tool'[u] \in ToolTypes /\ tool'[u].fd = followed(tool[u].fd)
             /\ tool'[u].at = "write" /\ tool'[u].to = tool[u].to /\ tool'[u].f = tool[u].f /\ tool'[u].cmd = tool[u].cmd
      <3> SUFFICES ASSUME NEW u \in Tools, u # t, follows(u)
                   PROVE  /\ tool'[u] \in ToolTypes /\ tool'[u].fd = followed(tool[u].fd)
                          /\ tool'[u].at = "write" /\ tool'[u].to = tool[u].to /\ tool'[u].f = tool[u].f /\ tool'[u].cmd = tool[u].cmd
        OBVIOUS
      <3>1. tool'[u] = [tool[u] EXCEPT !.fd = followed(tool[u].fd)]
        BY <2>4
      <3>2. tool[u] \in ToolTypes /\ tool[u].at = "write"
        BY <1>1 DEF At
      <3>3. followed(tool[u].fd) \in MayBeNone
        BY <1>1, <3>2 DEF ToolTypes, MayBeNone
      <3> HIDE DEF followed
      <3> QED BY <3>1, <3>2, <3>3 DEF ToolTypes
    <2>7. tool'[t] = Idle /\ Idle \in ToolTypes /\ Idle.at = "idle" /\ DOMAIN tool' = Tools
      BY <2>4, IdleIsGood DEF Good
    <2>8. tool' \in [Tools -> ToolTypes] /\ \A u \in Tools : Good(tool'[u])
      <3> HIDE DEF follows, followed
      <3>1. ASSUME NEW u \in Tools PROVE tool'[u] \in ToolTypes /\ Good(tool'[u])
        <4>1. CASE u = t
          BY <2>7, <4>1, IdleIsGood
        <4>2. CASE u # t /\ ~follows(u)
          BY <1>1, <2>5, <4>2 DEF TreeInv
        <4>3. CASE u # t /\ follows(u)
          <5>1. tool[u].to \in LabelSet
            BY <4>3 DEF follows, At, TreeInv, Good
          <5> QED BY <2>6, <4>3, <5>1 DEF Good, Filing
        <4> QED BY <4>1, <4>2, <4>3
      <3>2. tool' = [u \in Tools |-> tool'[u]]
        BY <2>4, <2>7
      <3> QED BY <3>1, <3>2
    <2>9. \A u \in Tools, s2 \in Sites, f2 \in Frames :
             Writer(u, s2, f2)' <=> Writer(u, s2, f2)
      <3> TAKE u \in Tools, s2 \in Sites, f2 \in Frames
      <3>1. CASE u = t
        BY <1>1, <2>7, <3>1 DEF Writer, At
      <3>2. CASE u # t /\ ~follows(u)
        BY <2>5, <3>2 DEF Writer, At, Site
      <3>3. CASE u # t /\ follows(u)
        BY <2>6, <3>3 DEF Writer, At, Site
      <3> QED BY <3>1, <3>2, <3>3
    <2>10. \A u \in Tools, s2 \in Sites, f2 \in Frames : Writer(u, s2, f2) =>
              tool'[u].fd = IF s2 = "desk" /\ f2 = f THEN followed(tool[u].fd) ELSE tool[u].fd
      <3> TAKE u \in Tools, s2 \in Sites, f2 \in Frames
      <3> HAVE Writer(u, s2, f2)
      <3>1. u # t /\ (follows(u) <=> s2 = "desk" /\ f2 = f)
        BY <1>1 DEF Writer, At
      <3> QED BY <2>5, <2>6, <3>1
    <2> HIDE DEF f, old, new, follows
    <2>11. \A s2 \in Sites, l2 \in LabelSet, f2 \in Frames : tree[s2][l2][f2] # 0 => Present(s2, f2)'
      <3> TAKE s2 \in Sites, l2 \in LabelSet, f2 \in Frames
      <3> HAVE tree[s2][l2][f2] # 0
      <3>1. CASE s2 = "desk" /\ f2 = f
        <4>1. tree'[s2][new][f2] # 0
          BY <1>1, <2>1, <2>3, <3>1
        <4> QED BY <1>1, <4>1 DEF Present
      <3>2. CASE ~(s2 = "desk" /\ f2 = f)
        <4>1. tree'[s2][l2][f2] # 0
          BY <2>3, <3>2
        <4> QED BY <4>1 DEF Present
      <3> QED BY <3>1, <3>2
    <2>12. TornIsKnown'
      <3> SUFFICES ASSUME NEW s2 \in Sites, NEW l2 \in LabelSet, NEW f2 \in Frames, tree'[s2][l2][f2] \notin {0, f2}
                   PROVE  <<s2, f2>> \in cutShort' \/ \E u \in Tools : Writer(u, s2, f2)' /\ tool'[u].fd = l2
        BY DEF TornIsKnown
      <3> DEFINE from == IF s2 = "desk" /\ f2 = f /\ l2 = new THEN old ELSE l2
      <3>1. from \in LabelSet /\ tree[s2][from][f2] \notin {0, f2} /\ ~(s2 = "desk" /\ f2 = f /\ l2 = old /\ l2 # new)
        BY <1>1, <2>1, <2>3
      <3>2. <<s2, f2>> \in cutShort \/ \E u \in Tools : Writer(u, s2, f2) /\ tool[u].fd = from
        BY <3>1 DEF TreeInv, TornIsKnown
      <3>3. ASSUME NEW u \in Tools, Writer(u, s2, f2), tool[u].fd = from PROVE tool'[u].fd = l2
        BY <2>1, <2>10, <3>1, <3>3
      <3> QED BY <1>1, <2>9, <3>2, <3>3
    <2>13. WritersFiles'
      <3> SUFFICES ASSUME NEW u \in Tools, NEW s2 \in Sites, NEW f2 \in Frames, Writer(u, s2, f2)'
                   PROVE  Present(s2, f2)' /\ (tool'[u].fd # NoLabel => tree'[s2][tool'[u].fd][f2] # 0)
        BY DEF WritersFiles
      <3>1. Writer(u, s2, f2)
        BY <2>9
      <3>2. Present(s2, f2) /\ (tool[u].fd # NoLabel => tool[u].fd \in LabelSet /\ tree[s2][tool[u].fd][f2] # 0)
        BY <1>1, <3>1 DEF TreeInv, WritersFiles, ToolTypes, MayBeNone
      <3>3. Present(s2, f2)'
        BY <2>11, <3>2 DEF Present
      <3>4. CASE s2 = "desk" /\ f2 = f
        <4>1. tool'[u].fd = followed(tool[u].fd)
          BY <2>10, <3>1, <3>4
        <4>2. tree'[s2][new][f2] # 0
          BY <1>1, <2>1, <2>3, <3>4
        <4>3. tool[u].fd \notin {old, new, NoLabel} => tree'[s2][tool[u].fd][f2] # 0
          BY <2>3, <3>2
        <4> QED BY <3>3, <4>1, <4>2, <4>3
      <3>5. CASE ~(s2 = "desk" /\ f2 = f)
        <4>1. tool'[u].fd = tool[u].fd
          BY <2>10, <3>1, <3>5
        <4> QED BY <2>3, <3>2, <3>3, <3>5, <4>1
      <3> QED BY <3>4, <3>5
    <2>14. TreeInv'
      BY <1>1, <2>3, <2>8, <2>12, <2>13 DEF TreeInv
    <2> QED BY <1>1, <2>11, <2>14, GrowingStaysFiled
  <1> QED BY <1>2, <1>3 DEF Rename

\* A tool that abandons what it was doing, in mid-write or not.
LEMMA AbandoningKeepsFiled ==
  ASSUME TreeInv, NEW t \in Tools, NEW r, Good(r), r.at # "write", tool' = [tool EXCEPT ![t] = r], UNCHANGED <<tree, index>>,
         cutShort \subseteq cutShort', At(t, "write") => <<Site(t), tool[t].f>> \in cutShort'
  PROVE  TreeInv' /\ StaysFiled
  <1>1. tool \in [Tools -> ToolTypes]
    BY DEF TreeInv
  <1>2. /\ tool' \in [Tools -> ToolTypes] /\ tool'[t] = r /\ r.at # "write"
        /\ \A u \in Tools : u # t => tool'[u] = tool[u]
    BY <1>1 DEF Good
  <1>3. \A u \in Tools : Good(tool'[u])
    BY <1>2 DEF TreeInv
  <1>4. \A u \in Tools, s \in Sites, f \in Frames : Writer(u, s, f)' <=> u # t /\ Writer(u, s, f)
    BY <1>2 DEF Writer, At, Site
  <1>5. TornIsKnown'
    <2> SUFFICES ASSUME NEW s \in Sites, NEW l \in LabelSet, NEW f \in Frames, tree[s][l][f] \notin {0, f}
                 PROVE  <<s, f>> \in cutShort' \/ \E u \in Tools : Writer(u, s, f)' /\ tool'[u].fd = l
      BY <1>1 DEF TornIsKnown
    <2>1. <<s, f>> \in cutShort \/ \E u \in Tools : Writer(u, s, f) /\ tool[u].fd = l
      BY DEF TreeInv, TornIsKnown
    <2>2. Writer(t, s, f) => <<s, f>> \in cutShort'
      BY <1>1 DEF Writer
    <2> QED BY <1>1, <1>2, <1>4, <2>1, <2>2
  <1>6. WritersFiles'
    BY <1>1, <1>2, <1>4 DEF TreeInv, WritersFiles, Present
  <1>7. TreeInv'
    BY <1>1, <1>2, <1>3, <1>5, <1>6 DEF TreeInv
  <1>8. \A s \in Sites, l \in LabelSet, f \in Frames : tree[s][l][f] # 0 => Present(s, f)'
    BY <1>1 DEF Present
  <1> QED BY <1>1, <1>7, <1>8, GrowingStaysFiled

LEMMA DeathKeepsFiled ==
  ASSUME TreeInv, NEW t \in Tools, Dies(t) PROVE TreeInv' /\ StaysFiled
  BY IdleIsGood, AbandoningKeepsFiled DEF Dies, Ends

LEMMA FailingKeepsFiled ==
  ASSUME TreeInv, NEW t \in Tools, AddFails(t) PROVE TreeInv' /\ StaysFiled
  <1>1. /\ UNCHANGED <<tree, index>> /\ cutShort \subseteq cutShort'
        /\ At(t, "write") => <<Site(t), tool[t].f>> \in cutShort'
    BY DEF AddFails
  <1>2. CASE Ends(t)
    BY <1>1, <1>2, IdleIsGood, AbandoningKeepsFiled DEF Ends
  <1>3. CASE Goes(t, "readIndex")
    <2> DEFINE r == [tool[t] EXCEPT !.at = "readIndex"]
    <2>1. tool[t] \in ToolTypes
      BY DEF TreeInv
    <2>2. r \in ToolTypes /\ r.at = "readIndex"
      BY <2>1 DEF ToolTypes, Places
    <2>3. Good(r) /\ r.at # "write"
      BY <2>2 DEF Good, Filing
    <2>4. tool' = [tool EXCEPT ![t] = r]
      BY <1>3 DEF Goes
    <2> HIDE DEF r
    <2> QED BY <1>1, <2>3, <2>4, AbandoningKeepsFiled
  <1> QED BY <1>2, <1>3 DEF AddFails

\* Whatever else goes on: cameras, the library, git.
LEMMA ElsewhereKeepsFiled ==
  ASSUME TreeInv, UNCHANGED <<tree, tool, cutShort>>, index' \in Indexes
  PROVE  TreeInv' /\ StaysFiled
  BY DEF TreeInv, TornIsKnown, WritersFiles, Writer, Present, At, Site, StaysFiled, Kept, WholeIn, BeingWritten

LEMMA CommitKeepsFiled ==
  ASSUME TreeInv, Commit PROVE TreeInv' /\ StaysFiled
  <1>1. index' \in Indexes
    BY DEF TreeInv, Commit, Indexes, Sites
  <1> QED BY <1>1, ElsewhereKeepsFiled DEF Commit

LEMMA ToolKeepsFiled ==
  ASSUME TreeInv, NEW t \in Tools, ToolStep(t) PROVE TreeInv' /\ StaysFiled
  BY FindIsQuiet, AllIsQuiet, AddFindsIsQuiet, OpensKeepsFiled, WritesKeepFiled, FailingKeepsFiled, DrawIsQuiet,
     RenameKeepsFiled, ReadIndexIsQuiet, IndexTruncatesIsQuiet, IndexWritesIsQuiet, PushNextIsQuiet, ReadIsQuiet, PushPutsIsQuiet,
     PullNextIsQuiet, FetchIsQuiet DEF ToolStep

LEMMA TreeInvNext ==
  ASSUME TreeInv, [Next]_vars PROVE TreeInv' /\ StaysFiled
  <1>1. ASSUME NEW t \in Tools, Begin(t) PROVE TreeInv' /\ StaysFiled
    BY <1>1, StartIsQuiet, StartLibIsQuiet DEF Begin
  <1>2. ASSUME NEW t \in Tools, Work(t) PROVE TreeInv' /\ StaysFiled
    BY <1>2, ToolKeepsFiled, LibStepIsQuiet DEF Work
  <1>3. ASSUME NEW t \in Tools, Crash(t) PROVE TreeInv' /\ StaysFiled
    BY <1>3, DeathKeepsFiled DEF Crash
  <1>4. CASE Photograph
    <2>1. index' \in Indexes
      BY <1>4 DEF Photograph, TreeInv
    <2> QED BY <1>4, <2>1, ElsewhereKeepsFiled DEF Photograph
  <1>5. CASE Git
    BY <1>5, CommitKeepsFiled DEF Git
  <1>6. CASE UNCHANGED vars
    <2>1. index' \in Indexes
      BY <1>6 DEF vars, TreeInv
    <2> QED BY <1>6, <2>1, ElsewhereKeepsFiled DEF vars
  <1> QED BY <1>1, <1>2, <1>3, <1>4, <1>5, <1>6 DEF Next

\* What was found in the corpus: nothing, or what a killed recorder left.
LEMMA TreeInvInit == Init => TreeInv
  <1> SUFFICES ASSUME Init PROVE TreeInv
    OBVIOUS
  <1>1. /\ index = [s \in Sites |-> Blank] /\ tool = [t \in Tools |-> Idle] /\ tree \in {NoFrames, FiledBefore}
        /\ cutShort = {x \in Sites \X Frames : \E l \in LabelSet : tree[x[1]][l][x[2]] \notin {0, x[2]}}
    BY DEF Init, CorpusInit
  <1>2. \A f \in Frames : f \in Int /\ Torn(f) \in Int
    <2>1. \A f \in Frames : f \in Nat
      BY FrameBytes
    <2>2. \A n \in Nat : n \in Int /\ -n \in Int
      OBVIOUS
    <2> QED BY <2>1, <2>2 DEF Torn
  <1>3. NoFrames \in Trees
    <2> DEFINE none == [f \in Frames |-> 0]
    <2>1. none \in [Frames -> Int]
      OBVIOUS
    <2>2. NoFrames = [s \in Sites |-> [l \in LabelSet |-> none]]
      BY DEF NoFrames
    <2> HIDE DEF none
    <2> QED BY <2>1, <2>2, Zenon DEF Trees
  <1>4. FiledBefore \in Trees
    <2> DEFINE first == CHOOSE f \in Frames : TRUE
               bytes(s, l, f) == IF s = "clone" THEN 0
                                 ELSE IF f = first THEN (IF l = Labels[1] THEN f ELSE 0)
                                 ELSE IF l = Unsorted THEN Torn(f) ELSE 0
    <2>1. FiledBefore = [s \in Sites |-> [l \in LabelSet |-> [f \in Frames |-> bytes(s, l, f)]]]
      BY DEF FiledBefore
    <2>2. \A s, l : \A f \in Frames : bytes(s, l, f) \in Int
      <3> SUFFICES ASSUME NEW s, NEW l, NEW f \in Frames PROVE bytes(s, l, f) \in Int
        OBVIOUS
      <3>1. bytes(s, l, f) \in {0, f, Torn(f)}
        BY Zenon
      <3> QED BY <1>2, <3>1
    <2> HIDE DEF bytes
    <2> DEFINE row(s, l) == [f \in Frames |-> bytes(s, l, f)]
    <2>3. \A s, l : row(s, l) \in [Frames -> Int]
      BY <2>2, Zenon
    <2>4. FiledBefore = [s \in Sites |-> [l \in LabelSet |-> row(s, l)]]
      BY <2>1, Zenon
    <2> HIDE DEF row
    <2> QED BY <2>3, <2>4, Zenon DEF Trees
  <1>5. index \in Indexes
    <2>1. {} \in SUBSET Entries /\ FALSE \in BOOLEAN
      BY Zenon
    <2>2. Blank \in [cut: BOOLEAN, of: SUBSET Entries]
      BY <2>1 DEF Blank
    <2> HIDE DEF Blank
    <2> QED BY <1>1, <2>2 DEF Indexes
  <1>6. tool \in [Tools -> ToolTypes] /\ \A t \in Tools : Good(tool[t]) /\ tool[t].at = "idle"
    <2>1. Idle \in ToolTypes
      BY IdleIsGood DEF Good
    <2> QED BY <1>1, <2>1, IdleIsGood
  <1>7. TornIsKnown
    BY <1>1 DEF TornIsKnown
  <1>8. WritersFiles
    BY <1>6 DEF WritersFiles, Writer, At
  <1> QED BY <1>1, <1>3, <1>4, <1>5, <1>6, <1>7, <1>8 DEF TreeInv

\* A frame that is in the corpus stays in it, whole, unless a writer is killed
\* over it: for every set of frames, labels and tools, whatever they do at the
\* same time, and however many of them die.
THEOREM FiledForGood == Spec => FiledStaysFiled
  <1>1. TreeInv /\ [Next]_vars => TreeInv'
    BY TreeInvNext
  <1>2. TreeInv /\ [Next]_vars => [StaysFiled]_vars
    BY TreeInvNext
  <1>3. Spec => []TreeInv
    BY <1>1, TreeInvInit, PTL DEF Spec
  <1>4. Spec => [][StaysFiled]_vars
    BY <1>2, <1>3, PTL DEF Spec
  <1> QED BY <1>4 DEF FiledStaysFiled, StaysFiled

Fields == {"cmd", "at", "then", "f", "to", "fd", "found", "todo", "seen", "prev", "metas", "left"}

LEMMA ToolFields ==
  ASSUME TreeInv
  PROVE  DOMAIN tool = Tools /\ \A t \in Tools : DOMAIN tool[t] = Fields
  BY DEF TreeInv, ToolTypes, Fields

SameCourse(u) ==
    /\ tool'[u].cmd = tool[u].cmd /\ tool'[u].at = tool[u].at /\ tool'[u].then = tool[u].then
    /\ tool'[u].f = tool[u].f /\ tool'[u].to = tool[u].to /\ tool'[u].found = tool[u].found
    /\ tool'[u].todo = tool[u].todo /\ tool'[u].seen = tool[u].seen /\ tool'[u].prev = tool[u].prev
    /\ tool'[u].metas = tool[u].metas /\ tool'[u].left = tool[u].left
    /\ tool'[u] = tool[u] \/ At(u, "write")

LEMMA OthersStay ==
  ASSUME TreeInv, NEW t \in Tools, ToolStep(t) \/ LibStep(t)
  PROVE  \A u \in Tools \ {t} : SameCourse(u)
  <1>1. CASE \E r : tool' = [tool EXCEPT ![t] = r]
    BY <1>1, ToolFields DEF SameCourse
  <1>2. CASE Rename(t) /\ ~Ends(t)
    <2>1. Moves(t)
      BY <1>2 DEF Rename
    <2>2. \A u \in Tools \ {t} : tool'[u] = tool[u] \/ (At(u, "write") /\ \E l : tool'[u] = [tool[u] EXCEPT !.fd = l])
      BY <2>1, Zenon DEF Moves
    <2>3. \A u \in Tools : DOMAIN tool[u] = Fields
      BY ToolFields
    <2> QED BY <2>2, <2>3 DEF SameCourse, Fields
  <1>3. CASE ToolStep(t) /\ ~Rename(t)
    <2>1. CASE Find(t) \/ All(t)
      BY <2>1, <1>1, Zenon DEF Find, All
    <2>2. CASE Read(t) \/ ReadIndex(t)
      BY <2>2, <1>1, Zenon DEF Read, ReadIndex, Ends
    <2>3. CASE PushNext(t) \/ PullNext(t)
      BY <2>3, <1>1, Zenon DEF PushNext, PullNext, Ends
    <2>4. CASE Draw(t) \/ Fetch(t) \/ PushPuts(t) \/ IndexTruncates(t) \/ IndexWrites(t)
      BY <2>4, <1>1, Zenon DEF Draw, Seeks, Fetch, PushPuts, IndexTruncates, IndexWrites, Ends, Goes
    <2>5. CASE AddFinds(t) \/ AddTruncates(t) \/ AddWrites(t) \/ AddFails(t)
      BY <2>5, <1>1, Zenon DEF AddFinds, AddTruncates, AddWrites, AddFails, AfterAdd, FoldMeta, Opens, Ends, Goes
    <2> QED BY <1>3, <2>1, <2>2, <2>3, <2>4, <2>5 DEF ToolStep
  <1>4. CASE LibStep(t)
    <2>1. CASE ScoreReads(t) \/ CropPlans(t) \/ TunePlans(t) \/ ReadTemplate(t) \/ Refuses(t)
      BY <2>1, <1>1, Zenon DEF ScoreReads, CropPlans, TunePlans, ReadTemplate, Refuses, Leaves, Ends, Goes
    <2>2. CASE WriteTemplate(t) \/ WriteManifestFile(t) \/ CheckLibrary(t)
      BY <2>2, <1>1, Zenon DEF WriteTemplate, WriteManifestFile, CheckLibrary, Writes, Leaves, Ends, Goes
    <2>3. CASE RestoreManifest(t) \/ RestoreTemplate(t) \/ RestoreFails(t)
      BY <2>3, <1>1, Zenon DEF RestoreManifest, RestoreTemplate, RestoreFails, AfterUndo, Leaves, Ends, Goes
    <2> QED BY <1>4, <2>1, <2>2, <2>3 DEF LibStep
  <1> QED BY <1>1, <1>2, <1>3, <1>4 DEF Ends

\* How a tool gets on: it is done, or it keeps its command, and a search
\* that is not a step of Find begins at the first label.
GetsOn(t) ==
    \/ tool'[t] = Idle
    \/ /\ tool'[t].cmd = tool[t].cmd
       /\ \/ Find(t)
          \/ tool'[t].at = "find" /\ tool'[t].todo = Labels /\ (tool'[t].then = "fetch" => PullNext(t))
          \/ tool'[t].at = "entries" /\ (tool[t].cmd = "pull" \/ Fetch(t))
          \/ tool'[t].at \notin {"idle", "find", "add", "entries", "fetch"}

LEMMA ToolsGetOn ==
  ASSUME TreeInv, NEW t \in Tools, ToolStep(t) \/ LibStep(t)
  PROVE  GetsOn(t)
  <1>1. tool[t] \in ToolTypes /\ DOMAIN tool = Tools /\ DOMAIN tool[t] = Fields /\ tool[t].at \in Places /\ Good(tool[t])
    BY ToolFields DEF TreeInv, ToolTypes
  <1>2. ASSUME NEW p \in Places \ {"idle", "find", "add", "entries", "fetch"}, Goes(t, p) PROVE GetsOn(t)
    BY <1>1, <1>2 DEF Goes, Fields, GetsOn
  <1>3. CASE Ends(t)
    BY <1>1, <1>3 DEF Ends, GetsOn
  <1>4. CASE Find(t)
    BY <1>1, <1>4 DEF Find, Fields, GetsOn
  <1>5. CASE All(t) \/ Read(t) \/ PushPuts(t) \/ IndexTruncates(t) \/ IndexWrites(t)
    <2>1. CASE All(t)
      <3>1. tool[t].then \notin {"idle", "find", "add", "entries", "fetch"}
        BY <1>1, <2>1 DEF All, At, Good
      <3> QED BY <1>1, <2>1, <3>1 DEF All, At, Fields, GetsOn
    <2>2. CASE Read(t)
      BY <1>1, <1>3, <2>2 DEF Read, Fields, GetsOn
    <2>3. CASE PushPuts(t)
      BY <1>2, <1>3, <2>3 DEF PushPuts, Places
    <2>4. CASE IndexTruncates(t) \/ IndexWrites(t)
      BY <1>2, <1>3, <2>4 DEF IndexTruncates, IndexWrites, Places
    <2> QED BY <1>5, <2>1, <2>2, <2>3, <2>4
  <1>6. CASE AddFinds(t) \/ AddTruncates(t) \/ AddWrites(t) \/ AddFails(t)
    <2>1. ASSUME NEW added \in BOOLEAN, AfterAdd(t, added) PROVE GetsOn(t)
      <3>1. CASE /\ tool' = [tool EXCEPT ![t].at = IF tool[t].left = 1 THEN "readIndex" ELSE "draw", ![t].left = @ - 1,
                                         ![t].metas = IF added THEN @ \cup {tool[t].f} ELSE @]
        BY <1>1, <3>1 DEF Fields, GetsOn
      <3>2. CASE FoldMeta(t)
        BY <1>1, <3>2 DEF Fields, GetsOn, FoldMeta
      <3>3. CASE tool[t].cmd = "pull" /\ Goes(t, "entries")
        BY <1>1, <3>3 DEF Goes, Fields, GetsOn
      <3> QED BY <1>3, <2>1, <3>1, <3>2, <3>3 DEF AfterAdd
    <2>2. CASE AddTruncates(t)
      BY <1>1, <2>2 DEF AddTruncates, Opens, Fields, GetsOn
    <2>3. CASE AddFails(t)
      BY <1>2, <1>3, <2>3 DEF AddFails, Places
    <2> QED BY <1>6, <2>1, <2>2, <2>3 DEF AddFinds, AddWrites
  <1>7. ASSUME NEW f, Seeks(t, f, "add") PROVE GetsOn(t)
    BY <1>1, <1>7 DEF Seeks, Fields, GetsOn
  <1>8. CASE Draw(t) \/ Fetch(t)
    <2>1. CASE Draw(t)
      BY <1>2, <1>3, <1>7, <2>1 DEF Draw, Places
    <2>2. CASE Fetch(t) /\ Goes(t, "entries")
      BY <1>1, <2>2 DEF Goes, Fields, GetsOn
    <2>3. CASE Fetch(t) /\ ~Goes(t, "entries")
      BY <1>3, <1>7, <2>3 DEF Fetch
    <2> QED BY <1>8, <2>1, <2>2, <2>3
  <1>9. CASE Rename(t)
    BY <1>3, <1>9, Zenon DEF Rename, Moves, GetsOn
  <1>10. CASE ReadIndex(t)
    <2> DEFINE p == IF tool[t].cmd = "pull" THEN "entries" ELSE "list"
    <2>1. CASE tool' = [tool EXCEPT ![t].prev = index[Site(t)].of, ![t].todo = Labels, ![t].then = "cutIndex", ![t].at = p]
      <3>1. tool'[t].cmd = tool[t].cmd /\ tool'[t].at = p
        BY <1>1, <2>1 DEF Fields
      <3> QED BY <3>1 DEF GetsOn
    <2> QED BY <1>3, <1>10, <2>1 DEF ReadIndex
  <1>11. ASSUME NEW seen, NEW f, NEW p \in {"push", "score", "find"},
                tool' = [tool EXCEPT ![t].seen = seen, ![t].f = f, ![t].todo = Labels, ![t].then = "read", ![t].at = p]
         PROVE  GetsOn(t)
    BY <1>1, <1>11 DEF Fields, GetsOn
  <1>12. CASE PushNext(t) \/ PullNext(t) \/ ScoreReads(t)
    <2>1. CASE PushNext(t)
      <3>1. ASSUME NEW x \in tool[t].seen,
                   tool' = [tool EXCEPT ![t].seen = @ \ {x}, ![t].f = x[1], ![t].todo = Labels, ![t].then = "read",
                                        ![t].at = IF Exists(Key(x[1])) THEN "push" ELSE "find"]
            PROVE  GetsOn(t)
        <4> DEFINE rest == tool[t].seen \ {x}
                   p == IF Exists(Key(x[1])) THEN "push" ELSE "find"
        <4>1. tool' = [tool EXCEPT ![t].seen = rest, ![t].f = x[1], ![t].todo = Labels, ![t].then = "read", ![t].at = p]
          BY <3>1, Zenon
        <4>2. p \in {"push", "score", "find"}
          OBVIOUS
        <4> HIDE DEF rest, p
        <4> QED BY <1>11, <4>1, <4>2
      <3> QED BY <1>3, <2>1, <3>1 DEF PushNext
    <2>2. CASE PullNext(t)
      <3>1. ASSUME NEW e \in tool[t].prev,
                   tool' = [tool EXCEPT ![t].prev = @ \ {e}, ![t].f = e.hash, ![t].to = e.label,
                                        ![t].at = "find", ![t].todo = Labels, ![t].then = "fetch"]
            PROVE  GetsOn(t)
        BY <1>1, <2>2, <3>1 DEF Fields, GetsOn
      <3> QED BY <1>3, <2>2, <3>1 DEF PullNext
    <2>3. CASE ScoreReads(t)
      <3>1. ASSUME NEW x \in tool[t].seen,
                   tool' = [tool EXCEPT ![t].seen = @ \ {x}, ![t].f = x[1], ![t].todo = Labels, ![t].then = "read",
                                        ![t].at = IF x[2] = Unsorted THEN "score" ELSE "find"]
            PROVE  GetsOn(t)
        <4> DEFINE rest == tool[t].seen \ {x}
                   p == IF x[2] = Unsorted THEN "score" ELSE "find"
        <4>1. tool' = [tool EXCEPT ![t].seen = rest, ![t].f = x[1], ![t].todo = Labels, ![t].then = "read", ![t].at = p]
          BY <3>1, Zenon
        <4>2. p \in {"push", "score", "find"}
          OBVIOUS
        <4> HIDE DEF rest, p
        <4> QED BY <1>11, <4>1, <4>2
      <3>2. CASE Goes(t, "score") \/ Goes(t, "tune")
        BY <1>2, <3>2 DEF Places
      <3>3. CASE Leaves(t)
        BY <1>3, <3>3 DEF Leaves
      <3> QED BY <2>3, <3>1, <3>2, <3>3 DEF ScoreReads
    <2> QED BY <1>12, <2>1, <2>2, <2>3
  <1>13. CASE CropPlans(t) \/ TunePlans(t) \/ ReadTemplate(t) \/ Refuses(t) \/ WriteTemplate(t) \/ WriteManifestFile(t)
    BY <1>2, <1>3, <1>13 DEF CropPlans, TunePlans, ReadTemplate, Refuses, WriteTemplate, WriteManifestFile, Writes, Leaves, Places
  <1>14. CASE CheckLibrary(t) \/ RestoreManifest(t) \/ RestoreTemplate(t) \/ RestoreFails(t)
    BY <1>2, <1>3, <1>14 DEF CheckLibrary, RestoreManifest, RestoreTemplate, RestoreFails, AfterUndo, Leaves, Places
  <1> QED BY <1>4, <1>5, <1>6, <1>8, <1>9, <1>10, <1>11, <1>12, <1>13, <1>14 DEF ToolStep, LibStep

-----------------------------------------------------------------------------
(* PullIsHonest. A pull has every entry of the committed index still to do, *)
(* in the clone already, or in its hands.                                   *)
PullCourse(t) ==
    /\ tool[t].cmd = "pull" =>
           /\ tool[t].at \in {"readIndex", "entries", "find", "fetch", "add", "write"}
           /\ At(t, "find") => tool[t].then \in {"fetch", "add"}
    /\ At(t, "entries") \/ At(t, "fetch") \/ (At(t, "find") /\ tool[t].then = "fetch") => tool[t].cmd = "pull"

Delivered(t, e) ==
    \/ e \in tool[t].prev
    \/ Kept("clone", e.hash)
    \/ tool[t].at \in {"find", "fetch", "add"} /\ tool[t].f = e.hash

Delivers(t) ==
    tool[t].cmd = "pull" =>
        /\ tool[t].at \in {"fetch", "add"} /\ tool[t].found # NoLabel => Kept("clone", tool[t].f)
        /\ ~At(t, "readIndex") => \A e \in index["clone"].of : Delivered(t, e)

PullInv == PullIsHonest /\ \A t \in Tools : PullCourse(t) /\ Delivers(t)

LEMMA Committed ==
  ASSUME TreeInv PROVE \A e \in index["clone"].of : e.hash \in Frames
  BY DEF TreeInv, Indexes, Sites, Entries

LEMMA OnePulls ==
  ASSUME TreeInv, StaysFiled, PullInv, UNCHANGED index["clone"], NEW t \in Tools,
         \A u \in Tools \ {t} : SameCourse(u), PullCourse(t)', Delivers(t)',
         pulled' = "ok" => pulled = "ok" \/ \A e \in index["clone"].of : Kept("clone", e.hash)
  PROVE  PullInv'
  <1>1. /\ \A e \in index["clone"].of : e.hash \in Frames
        /\ \A f \in Frames : Kept("clone", f) => Kept("clone", f)'
    BY Committed DEF StaysFiled, Sites
  <1>2. PullIsHonest'
    BY <1>1 DEF PullInv, PullIsHonest, Kept
  <1>3. ASSUME NEW u \in Tools \ {t} PROVE PullCourse(u)' /\ Delivers(u)'
    <2>1. SameCourse(u) /\ PullCourse(u) /\ Delivers(u) /\ (tool[u].at \in {"fetch", "add"} => tool[u].f \in Frames)
      BY DEF PullInv, TreeInv, Good, Filing
    <2>2. PullCourse(u)'
      BY <2>1 DEF PullCourse, SameCourse, At
    <2>3. Delivers(u)'
      BY <1>1, <2>1 DEF Delivers, Delivered, SameCourse, At
    <2> QED BY <2>2, <2>3
  <1> QED BY <1>2, <1>3 DEF PullInv

\* A tool that does not pull, or is done, owes nothing.
LEMMA NoPull ==
  ASSUME NEW t, tool'[t].cmd # "pull", tool'[t].at \notin {"entries", "fetch"},
         tool'[t].at = "find" => tool'[t].then # "fetch"
  PROVE  PullCourse(t)' /\ Delivers(t)'
  BY DEF PullCourse, Delivers, At

LEMMA NoThens ==
  ASSUME TreeInv, PullInv, NEW t \in Tools, ToolStep(t) \/ LibStep(t), tool[t].cmd # "pull"
  PROVE  PullCourse(t)' /\ Delivers(t)'
  <1>1. tool[t] \in ToolTypes /\ DOMAIN tool = Tools /\ DOMAIN tool[t] = Fields
        /\ ~At(t, "entries") /\ ~At(t, "fetch") /\ (At(t, "find") => tool[t].then \notin {"entries", "fetch"})
    BY ToolFields DEF TreeInv, PullInv, PullCourse, Good, Filing, At
  <1>2. CASE Find(t)
    <2>1. /\ tool'[t].at \in {tool[t].at, tool[t].then} /\ tool'[t].then = tool[t].then /\ tool'[t].cmd = tool[t].cmd
          /\ At(t, "find")
      BY <1>1, <1>2 DEF Find, Fields
    <2> QED BY <1>1, <2>1, NoPull DEF At
  <1>3. CASE ~Find(t)
    <2>1. ~PullNext(t) /\ ~Fetch(t)
      BY <1>1 DEF PullNext, Fetch
    <2>2. GetsOn(t)
      BY ToolsGetOn
    <2> QED BY <1>3, <2>1, <2>2, NoPull DEF GetsOn, Idle
  <1> QED BY <1>2, <1>3

LEMMA CloneKeepsIndex ==
  ASSUME TreeInv, NEW t \in Tools, ToolStep(t) \/ LibStep(t)
  PROVE  index'["clone"] = index["clone"]
  <1>1. index \in Indexes
    BY DEF TreeInv
  <1>2. CASE IndexTruncates(t) \/ IndexWrites(t)
    BY <1>1, <1>2 DEF IndexTruncates, IndexWrites, Indexes, Sites
  <1>3. CASE UNCHANGED index
    BY <1>3
  <1>4. CASE ToolStep(t) /\ ~IndexTruncates(t) /\ ~IndexWrites(t)
    BY <1>3, <1>4 DEF ToolStep, Find, All, AddFinds, AddTruncates, Opens, AddWrites, AddFails, Draw, Rename, ReadIndex,
                      PushNext, Read, PushPuts, PullNext, Fetch, files
  <1>5. CASE LibStep(t)
    BY <1>3, <1>5 DEF LibStep, ScoreReads, CropPlans, TunePlans, ReadTemplate, WriteTemplate, WriteManifestFile,
                      CheckLibrary, RestoreManifest, RestoreTemplate, RestoreFails, Refuses, Writes, Keeps, files
  <1> QED BY <1>2, <1>4, <1>5

\* A step of the pull itself: what it takes off its list it looks for, and
\* what it does not find it fetches and files.
LEMMA PullWorks ==
  ASSUME TreeInv, TreeInv', StaysFiled, PullInv, NEW t \in Tools, ToolStep(t) \/ LibStep(t), tool[t].cmd = "pull"
  PROVE  /\ PullCourse(t)' /\ Delivers(t)'
         /\ pulled' = "ok" => pulled = "ok" \/ \A e \in index["clone"].of : Kept("clone", e.hash)
  <1> DEFINE fine == /\ PullCourse(t)' /\ Delivers(t)'
                     /\ pulled' = "ok" => pulled = "ok" \/ \A e \in index["clone"].of : Kept("clone", e.hash)
  <1>1. /\ DOMAIN tool = Tools /\ DOMAIN tool[t] = Fields /\ Good(tool[t]) /\ Site(t) = "clone" /\ "clone" \in Sites
        /\ tool[t].at \in {"readIndex", "entries", "find", "fetch", "add", "write"}
        /\ (At(t, "find") => tool[t].then \in {"fetch", "add"})
        /\ (tool[t].at \in {"fetch", "add"} /\ tool[t].found # NoLabel => Kept("clone", tool[t].f))
        /\ (~At(t, "readIndex") => \A e \in index["clone"].of : Delivered(t, e))
    BY ToolFields DEF PullInv, PullCourse, Delivers, Site, Sites, TreeInv
  <1>2. /\ index'["clone"] = index["clone"] /\ \A e \in index["clone"].of : e.hash \in Frames
        /\ \A f \in Frames : Kept("clone", f) => Kept("clone", f)'
    BY CloneKeepsIndex, Committed DEF StaysFiled, Sites
  <1>3. \A e \in index["clone"].of : Kept("clone", e.hash) => Kept("clone", e.hash)'
    BY <1>2
  <1>4. CASE tool'[t] = Idle /\ (pulled' = pulled \/ \A e \in index["clone"].of : Kept("clone", e.hash))
    BY <1>4 DEF Idle, PullCourse, Delivers, At
  <1>5. CASE ReadIndex(t)
    <2>1. CASE tool' = [tool EXCEPT ![t].prev = index["clone"].of, ![t].todo = Labels, ![t].then = "cutIndex", ![t].at = "entries"]
      <3>1. tool'[t].prev = index["clone"].of /\ tool'[t].at = "entries" /\ tool'[t].cmd = "pull"
        BY <1>1, <2>1 DEF Fields
      <3> QED BY <1>2, <1>5, <3>1 DEF PullCourse, Delivers, Delivered, At, ReadIndex, files
    <2>2. CASE Ends(t)
      BY <1>1, <1>4, <1>5, <2>2 DEF Ends, ReadIndex, files
    <2> QED BY <1>1, <1>5, <2>1, <2>2 DEF ReadIndex
  <1>6. CASE PullNext(t)
    <2>1. \A e \in index["clone"].of : e \in tool[t].prev \/ Kept("clone", e.hash)
      BY <1>1, <1>6 DEF PullNext, At, Delivered
    <2>2. CASE tool[t].prev = {} /\ Ends(t)
      BY <1>1, <1>4, <2>1, <2>2 DEF Ends
    <2>3. ASSUME NEW e \in tool[t].prev, UNCHANGED pulled,
                 tool' = [tool EXCEPT ![t].prev = @ \ {e}, ![t].f = e.hash, ![t].to = e.label,
                                      ![t].at = "find", ![t].todo = Labels, ![t].then = "fetch"]
          PROVE  fine
      <3>1. /\ tool'[t].prev = tool[t].prev \ {e} /\ tool'[t].f = e.hash /\ tool'[t].at = "find"
            /\ tool'[t].then = "fetch" /\ tool'[t].cmd = "pull"
        BY <1>1, <2>3 DEF Fields
      <3>2. \A d \in index["clone"].of : Delivered(t, d)'
        BY <1>3, <2>1, <3>1 DEF Delivered
      <3> QED BY <1>2, <2>3, <3>1, <3>2 DEF PullCourse, Delivers, At
    <2> QED BY <1>6, <2>2, <2>3 DEF PullNext
  <1>7. CASE Find(t)
    <2> DEFINE l == Head(tool[t].todo)
               hit == tree["clone"][l][tool[t].f] # 0
               over == hit \/ Len(tool[t].todo) = 1
    <2>1. tool[t].f \in Frames /\ l \in LabelSet /\ At(t, "find") /\ tool[t].then \in {"fetch", "add"} /\ pulled' = pulled
      BY <1>1, <1>7, MoreToDo DEF Find, At, Good, ToolTypes, files
    <2>2. /\ tool'[t].at = (IF over THEN tool[t].then ELSE "find") /\ tool'[t].found = (IF hit THEN l ELSE NoLabel)
          /\ tool'[t].cmd = "pull" /\ tool'[t].f = tool[t].f /\ tool'[t].prev = tool[t].prev /\ tool'[t].then = tool[t].then
      BY <1>1, <1>7, <2>1 DEF Find, Fields, At
    <2>3. hit => Kept("clone", tool[t].f)
      BY <1>1, <2>1, KeptIsPresent DEF Present
    <2>4. \A e \in index["clone"].of : Delivered(t, e)'
      BY <1>1, <1>3, <2>1, <2>2 DEF Delivered, At
    <2> HIDE DEF hit, over
    <2> QED BY <1>2, <2>1, <2>2, <2>3, <2>4 DEF PullCourse, Delivers, At
  <1>8. CASE Fetch(t)
    <2>1. At(t, "fetch") /\ tool[t].f \in Frames /\ pulled' = pulled
      BY <1>1, <1>8 DEF Fetch, At, Good, Filing, files
    <2>2. CASE tool[t].found # NoLabel /\ Goes(t, "entries")
      <3>1. tool'[t].at = "entries" /\ tool'[t].cmd = "pull" /\ tool'[t].prev = tool[t].prev
        BY <1>1, <2>2 DEF Goes, Fields
      <3>2. \A e \in index["clone"].of : Delivered(t, e)'
        BY <1>1, <1>3, <2>1, <2>2, <3>1 DEF Delivered, At
      <3> QED BY <1>2, <2>1, <3>1, <3>2 DEF PullCourse, Delivers, At
    <2>3. CASE Seeks(t, tool[t].f, "add")
      <3>1. /\ tool'[t].at = "find" /\ tool'[t].then = "add" /\ tool'[t].cmd = "pull" /\ tool'[t].prev = tool[t].prev
            /\ tool'[t].f = tool[t].f
        BY <1>1, <2>3 DEF Seeks, Fields
      <3>2. \A e \in index["clone"].of : Delivered(t, e)'
        BY <1>1, <1>3, <2>1, <3>1 DEF Delivered, At
      <3> QED BY <1>2, <2>1, <3>1, <3>2 DEF PullCourse, Delivers, At
    <2>4. CASE Ends(t)
      BY <1>1, <1>4, <2>1, <2>4 DEF Ends
    <2> QED BY <1>8, <2>2, <2>3, <2>4 DEF Fetch
  <1>9. CASE AddTruncates(t)
    <2>1. At(t, "add") /\ tool[t].f \in Frames /\ pulled' = pulled
      BY <1>1, <1>9 DEF AddTruncates, Opens, At, Good, Filing
    <2>2. tool'[t].at = "write" /\ tool'[t].cmd = "pull" /\ tool'[t].prev = tool[t].prev /\ tool'[t].f = tool[t].f
      BY <1>1, <1>9 DEF AddTruncates, Opens, Fields
    <2>3. Kept("clone", tool[t].f)'
      BY <1>1, <2>2 DEF Kept, BeingWritten, At, Site
    <2>4. \A e \in index["clone"].of : Delivered(t, e)'
      BY <1>1, <1>3, <2>1, <2>2, <2>3 DEF Delivered, At
    <2> QED BY <1>2, <2>1, <2>2, <2>4 DEF PullCourse, Delivers, At
  <1>10. CASE AddFinds(t) \/ AddWrites(t)
    <2>1. pulled' = pulled /\ Goes(t, "entries")
      BY <1>1, <1>10 DEF AddFinds, AddWrites, AfterAdd, files
    <2>2. tool'[t].at = "entries" /\ tool'[t].cmd = "pull" /\ tool'[t].prev = tool[t].prev
      BY <1>1, <2>1 DEF Goes, Fields
    <2>3. At(t, "add") => Kept("clone", tool[t].f)
      BY <1>1, <1>10 DEF AddFinds, AddWrites, At
    <2>4. \A e \in index["clone"].of : Delivered(t, e)'
      BY <1>1, <1>3, <1>10, <2>2, <2>3 DEF Delivered, AddFinds, AddWrites, At
    <2> QED BY <1>2, <2>1, <2>2, <2>4 DEF PullCourse, Delivers, At
  <1>11. ~LibStep(t)
    BY <1>1 DEF LibStep, ScoreReads, CropPlans, TunePlans, ReadTemplate, WriteTemplate, WriteManifestFile,
                CheckLibrary, RestoreManifest, RestoreTemplate, RestoreFails, Refuses, At
  <1>12. ~All(t) /\ ~Draw(t) /\ ~Rename(t) /\ ~IndexTruncates(t) /\ ~IndexWrites(t) /\ ~PushNext(t) /\ ~Read(t) /\ ~PushPuts(t)
    BY <1>1 DEF All, Draw, Rename, IndexTruncates, IndexWrites, PushNext, Read, PushPuts, At
  <1>13. CASE AddFails(t)
    <2>1. Ends(t) /\ pulled' = pulled
      BY <1>1, <1>13 DEF AddFails
    <2> QED BY <1>1, <1>4, <2>1 DEF Ends
  <1> QED BY <1>5, <1>6, <1>7, <1>8, <1>9, <1>10, <1>11, <1>12, <1>13 DEF ToolStep

\* A command is given to one tool that was idle. It has everything to do, and
\* nothing has changed.
LEMMA Begun ==
  ASSUME TreeInv, NEW t \in Tools, NEW cmd, Start(t, cmd) \/ StartLib(t, cmd)
  PROVE  /\ At(t, "idle") /\ UNCHANGED files
         /\ \A u \in Tools \ {t} : tool'[u] = tool[u]
         /\ tool'[t].cmd = cmd /\ (tool[t].metas = {} => tool'[t].metas = {}) /\ (cmd = "record" => tool'[t].left = SessionMax)
         /\ \/ cmd \in {"record", "capture"} /\ tool'[t].at = "draw"
            \/ cmd \in {"index", "pull"} /\ tool'[t].at = "readIndex"
            \/ cmd \in {"push", "score"} /\ tool'[t].at = "list" /\ tool'[t].todo = Labels /\ tool'[t].then = cmd
            \/ cmd \in {"label", "crop"} /\ tool'[t].at = "find" /\ tool'[t].todo = Labels /\ tool'[t].then \in {"rename", "read"}
  <1>1. DOMAIN tool = Tools /\ DOMAIN tool[t] = Fields /\ DOMAIN Idle = Fields /\ Idle.metas = {}
    BY ToolFields DEF Idle, Fields
  <1>2. CASE Start(t, cmd)
    <2>1. At(t, "idle") /\ UNCHANGED files
      BY <1>2 DEF Start
    <2>2. CASE cmd = "record" /\ Sits(t, cmd, SessionMax)
      BY <1>1, <2>1, <2>2 DEF Sits, Fields
    <2>3. CASE cmd = "capture" /\ HandleCapture(t)
      BY <1>1, <2>1, <2>3 DEF HandleCapture, Sits, Fields
    <2>4. CASE cmd = "label" /\ HandleLabel(t)
      BY <1>1, <2>1, <2>4 DEF HandleLabel, Fields
    <2>5. CASE RunCorpus(t, cmd)
      BY <1>1, <2>1, <2>5 DEF RunCorpus, Fields
    <2> QED BY <1>2, <2>2, <2>3, <2>4, <2>5 DEF Start
  <1>3. CASE StartLib(t, cmd)
    <2>1. At(t, "idle") /\ UNCHANGED files
      BY <1>3 DEF StartLib, Keeps
    <2>2. ASSUME NEW f \in Frames, cmd = "crop",
                 tool' = [tool EXCEPT ![t] = [Idle EXCEPT !.cmd = cmd, !.at = "find", !.f = f, !.todo = Labels, !.then = "read"]]
          PROVE  /\ tool'[t].cmd = cmd /\ tool'[t].metas = {} /\ tool'[t].at = "find" /\ tool'[t].todo = Labels /\ tool'[t].then = "read"
                 /\ \A u \in Tools \ {t} : tool'[u] = tool[u]
      BY <1>1, <2>2 DEF Fields
    <2>3. ASSUME cmd = "score", tool' = [tool EXCEPT ![t].cmd = cmd, ![t].at = "list", ![t].todo = Labels, ![t].then = "score"]
          PROVE  /\ tool'[t].cmd = cmd /\ tool'[t].metas = tool[t].metas /\ tool'[t].at = "list" /\ tool'[t].todo = Labels /\ tool'[t].then = cmd
                 /\ \A u \in Tools \ {t} : tool'[u] = tool[u]
      BY <1>1, <2>3 DEF Fields
    <2> QED BY <1>3, <2>1, <2>2, <2>3 DEF StartLib
  <1> QED BY <1>2, <1>3

LEMMA PullInvNext ==
  ASSUME TreeInv, TreeInv', StaysFiled, PullInv, [Next]_vars
  PROVE  PullInv'
  <1>1. \A f \in Frames : Kept("clone", f) => Kept("clone", f)'
    BY DEF StaysFiled, Sites
  <1>2. CASE UNCHANGED <<tool, pulled, index>>
    <2>1. ASSUME NEW t \in Tools PROVE PullCourse(t)' /\ Delivers(t)'
      <3>1. PullCourse(t) /\ Delivers(t) /\ (tool[t].at \in {"fetch", "add"} => tool[t].f \in Frames)
        BY DEF PullInv, TreeInv, Good, Filing
      <3>2. PullCourse(t)'
        BY <1>2, <3>1 DEF PullCourse, At
      <3>3. Delivers(t)'
        BY <1>1, <1>2, <3>1, Committed DEF Delivers, Delivered, At
      <3> QED BY <3>2, <3>3
    <2>2. PullIsHonest'
      BY <1>1, <1>2, Committed DEF PullInv, PullIsHonest, Kept
    <2> QED BY <2>1, <2>2 DEF PullInv
  <1>3. ASSUME NEW t \in Tools, Begin(t) PROVE PullInv'
    <2>1. PICK cmd \in desk.commands : Start(t, cmd) \/ StartLib(t, cmd)
      BY <1>3 DEF Begin
    <2>2. UNCHANGED files /\ \A u \in Tools \ {t} : SameCourse(u)
      BY <2>1, Begun DEF SameCourse
    <2>3. PullCourse(t)' /\ Delivers(t)'
      BY <2>1, Begun DEF PullCourse, Delivers, At
    <2> QED BY <2>2, <2>3, OnePulls DEF files
  <1>4. ASSUME NEW t \in Tools, Work(t) PROVE PullInv'
    <2>1. /\ ToolStep(t) \/ LibStep(t)
          /\ LibStep(t) \/ ~PullNext(t) => UNCHANGED pulled
      <3>1. LibStep(t) => UNCHANGED pulled
        BY DEF LibStep, ScoreReads, CropPlans, TunePlans, ReadTemplate, WriteTemplate, WriteManifestFile,
               CheckLibrary, RestoreManifest, RestoreTemplate, RestoreFails, Refuses, Writes, Keeps, files
      <3>2. ToolStep(t) /\ ~PullNext(t) => UNCHANGED pulled
        BY DEF ToolStep, Find, All, AddFinds, AddTruncates, Opens, AddWrites, AddFails, Draw, Rename, ReadIndex, IndexTruncates,
               IndexWrites, PushNext, Read, PushPuts, Fetch, files
      <3> QED BY <1>4, <3>1, <3>2 DEF Work
    <2>2. /\ \A u \in Tools \ {t} : SameCourse(u)
          /\ UNCHANGED index["clone"]
      BY <2>1, OthersStay, CloneKeepsIndex
    <2>3. CASE tool[t].cmd # "pull"
      <3>1. ~PullNext(t)
        BY <2>3 DEF PullInv, PullCourse, PullNext
      <3> QED BY <2>1, <2>2, <2>3, <3>1, NoThens, OnePulls
    <2>4. CASE tool[t].cmd = "pull"
      BY <2>1, <2>2, <2>4, PullWorks, OnePulls
    <2> QED BY <2>3, <2>4
  <1>5. ASSUME NEW t \in Tools, Crash(t) PROVE PullInv'
    <2>1. UNCHANGED <<index, pulled>> /\ tool' = [tool EXCEPT ![t] = Idle]
      BY <1>5 DEF Crash, Dies, Ends
    <2>2. tool'[t] = Idle /\ \A u \in Tools \ {t} : SameCourse(u)
      BY <2>1, ToolFields DEF SameCourse
    <2>3. PullCourse(t)' /\ Delivers(t)'
      BY <2>2, NoPull DEF Idle
    <2> QED BY <2>1, <2>2, <2>3, OnePulls
  <1>6. CASE Photograph
    BY <1>2, <1>6 DEF Photograph
  <1>7. CASE Git
    <2>1. Commit /\ UNCHANGED tool /\ pulled' = "no" /\ \A t \in Tools : tool[t].cmd # "pull"
      BY <1>7 DEF Git, Commit, Site
    <2>2. \A t \in Tools : PullCourse(t)' /\ Delivers(t)'
      BY <2>1 DEF PullInv, PullCourse, Delivers, At
    <2> QED BY <2>1, <2>2 DEF PullInv, PullIsHonest
  <1>8. CASE UNCHANGED vars
    BY <1>2, <1>8 DEF vars
  <1> QED BY <1>3, <1>4, <1>5, <1>6, <1>7, <1>8 DEF Next

LEMMA PullInvInit == Init => PullInv
  <1> SUFFICES ASSUME Init PROVE PullInv
    OBVIOUS
  <1>1. tool = [t \in Tools |-> Idle] /\ pulled = "no"
    BY DEF Init, CorpusInit
  <1> QED BY <1>1 DEF PullInv, PullIsHonest, PullCourse, Delivers, At, Idle

LEMMA TreeInvAlways == Spec => []TreeInv
  <1>1. TreeInv /\ [Next]_vars => TreeInv'
    BY TreeInvNext
  <1> QED BY <1>1, TreeInvInit, PTL DEF Spec

\* A pull that reports success leaves the whole committed corpus in the clone,
\* but for the frames that a pull is still writing or was cut short in writing:
\* for every set of frames, labels and tools, whatever was pushed or not, and
\* whoever dies or fails meanwhile.
THEOREM PullsAreHonest == Spec => []PullIsHonest
  <1>1. TreeInv /\ TreeInv' /\ PullInv /\ [Next]_vars => PullInv'
    BY TreeInvNext, PullInvNext
  <1>2. PullInv => PullIsHonest
    BY DEF PullInv
  <1> QED BY <1>1, <1>2, PullInvInit, TreeInvAlways, PTL DEF Spec

LEMMA TreesStay ==
  ASSUME NEW t \in Tools, ToolStep(t) \/ LibStep(t)
  PROVE  UNCHANGED tree \/ AddTruncates(t) \/ AddWrites(t) \/ (At(t, "rename") /\ MustMove(t) /\ Moves(t))
  <1>1. CASE LibStep(t)
    BY <1>1 DEF LibStep, ScoreReads, CropPlans, TunePlans, ReadTemplate, WriteTemplate, WriteManifestFile,
                CheckLibrary, RestoreManifest, RestoreTemplate, RestoreFails, Refuses, Writes, Keeps, files
  <1>2. CASE Rename(t)
    BY <1>2 DEF Rename
  <1>3. CASE ToolStep(t) /\ ~Rename(t)
    BY <1>3 DEF ToolStep, Find, All, AddFinds, AddFails, Draw, ReadIndex, IndexTruncates, IndexWrites,
                PushNext, Read, PushPuts, PullNext, Fetch, files
  <1> QED BY <1>1, <1>2, <1>3

-----------------------------------------------------------------------------
(* AloneIsSafe. One tool works at a time, so what a search has ruled out     *)
(* stays ruled out until the frame is filed.                                *)
Ahead(q) == {q[i] : i \in DOMAIN q}

LEMMA AheadOfAll == Ahead(Labels) = LabelSet
  BY DEF Ahead, LabelSet

LEMMA AheadOfRest ==
  ASSUME NEW q \in Seq(LabelSet), q # << >>
  PROVE  /\ Ahead(q) = {Head(q)} \cup Ahead(Tail(q))
         /\ Len(q) = 1 => Ahead(q) = {Head(q)}
  <1>1. /\ Len(q) \in Nat /\ Len(q) > 0 /\ DOMAIN q = 1 .. Len(q) /\ Head(q) = q[1]
        /\ DOMAIN Tail(q) = 1 .. (Len(q) - 1) /\ \A i \in 1 .. (Len(q) - 1) : Tail(q)[i] = q[i + 1]
    OBVIOUS
  <1>2. \A i \in DOMAIN q : q[i] = Head(q) \/ \E j \in DOMAIN Tail(q) : q[i] = Tail(q)[j]
    <2> TAKE i \in DOMAIN q
    <2>1. CASE i = 1
      BY <1>1, <2>1
    <2>2. CASE i # 1
      <3>1. i - 1 \in 1 .. (Len(q) - 1) /\ (i - 1) + 1 = i
        BY <1>1, <2>2
      <3>2. Tail(q)[i - 1] = q[i]
        BY <1>1, <3>1
      <3> QED BY <1>1, <3>1, <3>2
    <2> QED BY <2>1, <2>2
  <1>3. \A j \in DOMAIN Tail(q) : \E i \in DOMAIN q : Tail(q)[j] = q[i]
    BY <1>1
  <1>4. 1 \in DOMAIN q
    BY <1>1
  <1>5. Ahead(q) = {Head(q)} \cup Ahead(Tail(q))
    BY <1>1, <1>2, <1>3, <1>4 DEF Ahead
  <1>6. Len(q) = 1 => DOMAIN q = {1}
    BY <1>1
  <1> QED BY <1>1, <1>5, <1>6 DEF Ahead

AtRest == \A t \in Tools : At(t, "idle") => tool[t] = Idle
OneAtWork == \A t, u \in Tools : ~At(t, "idle") /\ ~At(u, "idle") => t = u
OneLabel == \A s \in Sites, f \in Frames, l, m \in LabelSet : tree[s][l][f] # 0 /\ tree[s][m][f] # 0 => l = m
Searched(t) ==
    /\ At(t, "find") => \A l \in LabelSet \ Ahead(tool[t].todo) : tree[Site(t)][l][tool[t].f] = 0
    /\ At(t, "add") /\ tool[t].found = NoLabel => \A l \in LabelSet : tree[Site(t)][l][tool[t].f] = 0

AloneInv == AtRest /\ (Alone => OneAtWork /\ OneLabel /\ \A t \in Tools : Searched(t))

LEMMA AtWork ==
  ASSUME NEW t, ToolStep(t) \/ LibStep(t)
  PROVE  ~At(t, "idle")
  <1>1. LibStep(t) => ~At(t, "idle")
    BY DEF LibStep, ScoreReads, CropPlans, TunePlans, ReadTemplate, WriteTemplate, WriteManifestFile,
           CheckLibrary, RestoreManifest, RestoreTemplate, RestoreFails, Refuses, At
  <1>2. ToolStep(t) => ~At(t, "idle")
    BY DEF ToolStep, Find, All, AddFinds, AddTruncates, AddWrites, AddFails, Draw, Rename, ReadIndex, IndexTruncates,
           IndexWrites, PushNext, Read, PushPuts, PullNext, Fetch, At
  <1> QED BY <1>1, <1>2

\* Nobody searches but the one at work.
LEMMA IdleHasSearched ==
  ASSUME NEW u, tool'[u].at \notin {"find", "add"} PROVE Searched(u)'
  BY DEF Searched, At

LEMMA WorkLeavesOneAtRest ==
  ASSUME TreeInv, AloneInv, NEW t \in Tools, ToolStep(t) \/ LibStep(t), UNCHANGED benchVars
  PROVE  /\ AtRest'
         /\ Alone => OneAtWork' /\ \A u \in Tools \ {t} : At(u, "idle") /\ Searched(u)'
  <1>1. /\ \A u \in Tools \ {t} : SameCourse(u)
        /\ GetsOn(t) /\ ~At(t, "idle") /\ DOMAIN tool = Tools /\ DOMAIN tool[t] = Fields /\ Good(tool[t])
    BY OthersStay, ToolsGetOn, AtWork, ToolFields DEF TreeInv
  <1>2. tool'[t].at = "idle" => tool'[t] = Idle
    <2>1. CASE Find(t)
      <3>1. tool'[t].at \in {"find", tool[t].then} /\ tool[t].then \in Filing \cup {"read"}
        BY <1>1, <2>1 DEF Find, At, Fields, Good
      <3> QED BY <3>1 DEF Filing
    <2>2. CASE ~Find(t)
      BY <1>1, <2>2 DEF GetsOn
    <2> QED BY <2>1, <2>2
  <1>4. AtRest'
    BY <1>1, <1>2 DEF AtRest, AloneInv, SameCourse, At
  <1>5. Alone => \A u \in Tools \ {t} : At(u, "idle") /\ tool'[u].at = "idle"
    BY <1>1 DEF AloneInv, OneAtWork, SameCourse, At
  <1>6. Alone => OneAtWork'
    BY <1>5 DEF OneAtWork, At
  <1> QED BY <1>4, <1>5, <1>6, IdleHasSearched

LEMMA WorkKeepsOneLabel ==
  ASSUME TreeInv, AloneInv, Alone, NEW t \in Tools, ToolStep(t) \/ LibStep(t)
  PROVE  OneLabel'
  <1>1. OneLabel /\ Searched(t) /\ \A f \in Frames : f # 0
    BY FrameBytes DEF AloneInv
  <1>2. CASE UNCHANGED tree
    BY <1>1, <1>2 DEF OneLabel
  <1>3. CASE AddTruncates(t)
    <2>1. \A l \in LabelSet : tree[Site(t)][l][tool[t].f] = 0
      BY <1>1, <1>3 DEF AddTruncates, Searched
    <2> QED BY <1>1, <1>3, <2>1, WhereOpened DEF OneLabel
  <1>4. CASE AddWrites(t)
    <2>1. \A s \in Sites, l \in LabelSet, f \in Frames :
             s = Site(t) /\ l = tool[t].fd /\ f = tool[t].f => tree[s][l][f] # 0
      BY <1>4, LabelsAreLabels DEF AddWrites, TreeInv, WritersFiles, Writer
    <2>2. \A s \in Sites, l \in LabelSet, f \in Frames : tree'[s][l][f] # 0 => tree[s][l][f] # 0
      BY <1>4, <2>1, WhereWritten
    <2> QED BY <1>1, <2>2 DEF OneLabel
  <1>5. CASE At(t, "rename") /\ MustMove(t) /\ Moves(t)
    <2>1. /\ tool[t].found \in LabelSet /\ tool[t].found # tool[t].to /\ tree["desk"][tool[t].found][tool[t].f] # 0
          /\ "desk" \in Sites
      BY <1>5, WhereMoved DEF Sites
    <2> DEFINE f == tool[t].f
               old == tool[t].found
               new == tool[t].to
    <2>2. \A s \in Sites, l \in LabelSet, g \in Frames :
             tree'[s][l][g] = IF s = "desk" /\ g = f /\ l = new THEN tree["desk"][old][g]
                              ELSE IF s = "desk" /\ g = f /\ l = old THEN 0 ELSE tree[s][l][g]
      BY <1>5, WhereMoved
    <2>3. \A l \in LabelSet : l # old /\ f \in Frames => tree["desk"][l][f] = 0
      BY <1>1, <2>1 DEF OneLabel
    <2>4. \A l \in LabelSet, g \in Frames : g = f /\ tree'["desk"][l][g] # 0 => l = new
      BY <2>1, <2>2, <2>3
    <2>5. \A s \in Sites, l \in LabelSet, g \in Frames : ~(s = "desk" /\ g = f) => tree'[s][l][g] = tree[s][l][g]
      BY <2>2
    <2> HIDE DEF f, new, old
    <2> QED BY <1>1, <2>4, <2>5 DEF OneLabel
  <1> QED BY <1>2, <1>3, <1>4, <1>5, TreesStay

LEMMA WorkSearches ==
  ASSUME TreeInv, AloneInv, Alone, NEW t \in Tools, ToolStep(t) \/ LibStep(t)
  PROVE  Searched(t)'
  <1>1. CASE ~Find(t)
    <2>1. tool'[t].at = "find" => Ahead(tool'[t].todo) = LabelSet
      BY <1>1, ToolsGetOn, AheadOfAll DEF GetsOn, Idle
    <2>2. tool'[t].at # "add"
      BY <1>1, ToolsGetOn DEF GetsOn, Idle
    <2> QED BY <2>1, <2>2 DEF Searched, At
  <1>2. CASE Find(t)
    <2> DEFINE l == Head(tool[t].todo)
               hit == tree[Site(t)][l][tool[t].f] # 0
               over == hit \/ Len(tool[t].todo) = 1
    <2>1. /\ DOMAIN tool = Tools /\ DOMAIN tool[t] = Fields /\ At(t, "find") /\ tool[t].todo \in Seq(LabelSet)
          /\ tool[t].todo # << >> /\ UNCHANGED tree /\ NoLabel \notin LabelSet /\ l \in LabelSet
          /\ tool[t].then \in Filing \cup {"read"}
      BY <1>2, ToolFields, LabelsAreLabels, MoreToDo DEF TreeInv, Find, At, Good, ToolTypes, files
    <2>2. /\ tool'[t].at = (IF over THEN tool[t].then ELSE "find") /\ tool'[t].found = (IF hit THEN l ELSE NoLabel)
          /\ tool'[t].cmd = tool[t].cmd /\ tool'[t].f = tool[t].f
          /\ ~over => tool'[t].todo = Tail(tool[t].todo)
      BY <1>2, <2>1 DEF Find, Fields, At
    <2>3. /\ \A m \in LabelSet \ Ahead(tool[t].todo) : tree[Site(t)][m][tool[t].f] = 0
          /\ Ahead(tool[t].todo) = {l} \cup Ahead(Tail(tool[t].todo))
          /\ Len(tool[t].todo) = 1 => Ahead(tool[t].todo) = {l}
      BY <2>1, AheadOfRest DEF AloneInv, Searched
    <2>4. Site(t)' = Site(t)
      BY <2>2 DEF Site
    <2>5. CASE hit
      BY <2>1, <2>2, <2>5 DEF Searched, At, Filing
    <2>6. CASE ~hit /\ over
      BY <2>1, <2>2, <2>3, <2>4, <2>6 DEF Searched, At, Filing
    <2>7. CASE ~over
      <3>1. \A m \in LabelSet \ Ahead(Tail(tool[t].todo)) : tree[Site(t)][m][tool[t].f] = 0
        BY <2>3, <2>7
      <3> HIDE DEF l, hit, over
      <3> QED BY <2>1, <2>2, <2>4, <2>7, <3>1 DEF Searched, At
    <2> QED BY <2>5, <2>6, <2>7
  <1> QED BY <1>1, <1>2

LEMMA NobodyBusy ==
  ASSUME AloneInv, Alone, Cardinality(Busy) < desk.crowd
  PROVE  Busy = {} /\ \A t \in Tools : At(t, "idle") /\ tool[t] = Idle
  <1>1. \A u \in Busy : Busy = {u}
    BY DEF AloneInv, OneAtWork, Busy, At
  <1>2. \A u \in Busy : Cardinality({u}) = 1
    BY FS_Singleton
  <1>3. Busy = {}
    <2> SUFFICES ASSUME NEW u \in Busy PROVE FALSE
      OBVIOUS
    <2>1. Cardinality(Busy) = 1 /\ desk.crowd = 1
      BY <1>1, <1>2 DEF Alone
    <2> QED BY <2>1
  <1> QED BY <1>3 DEF Busy, At, AloneInv, AtRest

LEMMA AloneInvNext ==
  ASSUME TreeInv, TreeInv', AloneInv, [Next]_vars
  PROVE  AloneInv'
  <1>1. CASE UNCHANGED <<tree, tool, desk>>
    BY <1>1 DEF AloneInv, AtRest, OneAtWork, OneLabel, Searched, At, Site, Alone
  <1>2. ASSUME NEW t \in Tools, Begin(t) PROVE AloneInv'
    <2>1. PICK cmd \in desk.commands : Start(t, cmd) \/ StartLib(t, cmd)
      BY <1>2 DEF Begin
    <2>2. UNCHANGED <<tree, desk>> /\ Cardinality(Busy) < desk.crowd /\ \A u \in Tools \ {t} : tool'[u] = tool[u]
      BY <1>2, <2>1, Begun DEF Begin, benchVars, files
    <2>3. tool'[t].at \notin {"idle", "add"} /\ (tool'[t].at = "find" => tool'[t].todo = Labels)
      BY <2>1, Begun
    <2>4. AtRest'
      BY <2>2, <2>3 DEF AloneInv, AtRest, At
    <2>5. Alone' <=> Alone
      BY <2>2 DEF Alone
    <2>6. ASSUME Alone PROVE OneAtWork' /\ OneLabel' /\ \A u \in Tools : Searched(u)'
      <3>1. \A u \in Tools \ {t} : tool'[u].at = "idle"
        BY <2>2, <2>6, NobodyBusy DEF At
      <3>2. OneAtWork' /\ OneLabel'
        BY <2>2, <2>6, <3>1 DEF AloneInv, OneAtWork, OneLabel, At
      <3>3. \A u \in Tools : Searched(u)'
        BY <2>3, <3>1, AheadOfAll DEF Searched, At
      <3> QED BY <3>2, <3>3
    <2> QED BY <2>4, <2>5, <2>6 DEF AloneInv
  <1>3. ASSUME NEW t \in Tools, Work(t) PROVE AloneInv'
    <2>1. (ToolStep(t) \/ LibStep(t)) /\ UNCHANGED benchVars
      BY <1>3 DEF Work
    <2>2. Alone' <=> Alone
      BY <2>1 DEF Alone, benchVars
    <2> QED BY <2>1, <2>2, WorkLeavesOneAtRest, WorkKeepsOneLabel, WorkSearches DEF AloneInv
  <1>4. ASSUME NEW t \in Tools, Crash(t) PROVE AloneInv'
    <2>1. UNCHANGED <<tree, desk>> /\ tool' = [tool EXCEPT ![t] = Idle]
      BY <1>4 DEF Crash, Dies, Ends
    <2>2. tool'[t] = Idle /\ Idle.at = "idle" /\ \A u \in Tools \ {t} : tool'[u] = tool[u]
      BY <2>1, ToolFields, IdleIsGood
    <2>3. AtRest'
      BY <2>2 DEF AloneInv, AtRest, At
    <2>4. OneAtWork => OneAtWork'
      BY <2>2 DEF OneAtWork, At
    <2>5. OneLabel => OneLabel'
      BY <2>1 DEF OneLabel
    <2>6. \A u \in Tools : Searched(u) => Searched(u)'
      <3> TAKE u \in Tools
      <3>1. CASE u = t
        BY <2>2, <3>1 DEF Searched, At
      <3>2. CASE u # t
        BY <2>1, <2>2, <3>2 DEF Searched, At, Site
      <3> QED BY <3>1, <3>2
    <2>7. Alone' <=> Alone
      BY <2>1 DEF Alone
    <2> QED BY <2>3, <2>4, <2>5, <2>6, <2>7 DEF AloneInv
  <1>5. CASE Photograph
    BY <1>1, <1>5 DEF Photograph, benchVars
  <1>6. CASE Git
    BY <1>1, <1>6 DEF Git, Commit, benchVars
  <1>7. CASE UNCHANGED vars
    BY <1>1, <1>7 DEF vars, benchVars
  <1> QED BY <1>2, <1>3, <1>4, <1>5, <1>6, <1>7 DEF Next

LEMMA AloneInvInit == Init => AloneInv
  <1> SUFFICES ASSUME Init PROVE AloneInv
    OBVIOUS
  <1>1. tool = [t \in Tools |-> Idle] /\ tree \in {NoFrames, FiledBefore}
    BY DEF Init, CorpusInit
  <1>2. AtRest /\ OneAtWork /\ \A t \in Tools : Searched(t)
    BY <1>1, IdleIsGood DEF AtRest, OneAtWork, Searched, At
  <1>3. ASSUME tree = NoFrames PROVE OneLabel
    BY <1>3 DEF OneLabel, NoFrames
  <1>4. ASSUME tree = FiledBefore PROVE OneLabel
    <2> DEFINE first == CHOOSE f \in Frames : TRUE
    <2>1. \A s \in Sites, l \in LabelSet, f \in Frames :
             tree[s][l][f] # 0 => IF f = first THEN l = Labels[1] ELSE l = Unsorted
      BY <1>4, Zenon DEF FiledBefore
    <2> HIDE DEF first
    <2> QED BY <2>1 DEF OneLabel
  <1> QED BY <1>1, <1>2, <1>3, <1>4 DEF AloneInv

-----------------------------------------------------------------------------
(* The stamps, owed for every frame at the desk whose write was not cut     *)
(* short. Until the index is rewritten a frame filed in this session        *)
(* is in the session's metas, and what was stamped before is in the index   *)
(* or in the hands of the one that rewrites it; whoever rewrites it has     *)
(* listed every frame.                                                      *)
Stamped(entries, f) == \E e \in entries : e.hash = f /\ e.stamped
Owed(f) == Present("desk", f) /\ <<"desk", f>> \notin cutShort
AllStamped == ~index["desk"].cut /\ \A f \in Frames : Owed(f) => Stamped(index["desk"].of, f)

Reindexing(t) == At(t, "cutIndex") \/ (At(t, "list") /\ tool[t].then = "cutIndex")
Known(t) == IF At(t, "writeIndex") THEN tool[t].prev ELSE index["desk"].of

Sitting(t) ==
    /\ tool[t].cmd = "record" => tool[t].left <= SessionMax
    /\ tool[t].metas # {} =>
           /\ tool[t].cmd = "capture" \/ (tool[t].cmd = "record" /\ tool[t].left < SessionMax)
           /\ \/ tool[t].at \in {"readIndex", "list", "cutIndex", "writeIndex"}
              \/ tool[t].cmd = "record" /\ tool[t].at \in {"draw", "find", "add", "write"}
           /\ At(t, "list") => tool[t].then = "cutIndex"
           /\ At(t, "find") => tool[t].then = "add"
Surveying(t) ==
    /\ Reindexing(t) => tool[t].prev = index["desk"].of /\ tool[t].cmd # "pull"
    /\ Reindexing(t) \/ At(t, "writeIndex") =>
           \A f \in Frames, l \in LabelSet : tree["desk"][l][f] # 0 =>
               <<f, l>> \in tool[t].seen \/ (At(t, "list") /\ l \in Ahead(tool[t].todo))
Stamping(t) ==
    /\ index["desk"].cut <=> At(t, "writeIndex")
    /\ \A f \in Frames : Owed(f) =>
           \/ f \in tool[t].metas
           \/ Stamped(Known(t), f)
           \/ At(t, "write") /\ tool[t].f = f /\ tool[t].cmd # "pull"
Session(t) == Sitting(t) /\ Surveying(t) /\ Stamping(t)

StampInv ==
    Alone /\ death # "did" /\ Given("record") =>
        /\ \A t \in Tools : ~At(t, "idle") => Session(t)
        /\ (\A t \in Tools : At(t, "idle")) => AllStamped

LEMMA IdleSession ==
  ASSUME NEW t, tool[t] = Idle PROVE Session(t) <=> AllStamped
  BY DEF Idle, Session, Sitting, Surveying, Stamping, AllStamped, Reindexing, Known, At

\* Done, with nothing to stamp.
LEMMA SessionIsOver ==
  ASSUME NEW t, Session(t), tool'[t] = Idle, UNCHANGED index["desk"], ~index["desk"].cut, tool[t].metas = {}, ~At(t, "write"),
         \A f \in Frames : Owed(f)' => Owed(f)
  PROVE  Session(t)'
  <1>1. AllStamped
    BY DEF Session, Stamping, AllStamped, Known
  <1>2. AllStamped'
    BY <1>1 DEF AllStamped, Stamped
  <1> QED BY <1>2 DEF Idle, Session, Sitting, Surveying, Stamping, AllStamped, Reindexing, Known, At

\* Busy with something else.
LEMMA SessionStays ==
  ASSUME NEW t, Session(t), UNCHANGED <<tree, index, cutShort>>, tool'[t].cmd = tool[t].cmd, tool'[t].metas = tool[t].metas,
         tool'[t].left = tool[t].left, ~At(t, "write"), ~At(t, "writeIndex"),
         tool'[t].at \notin {"write", "writeIndex", "cutIndex"}, tool'[t].at = "list" => tool'[t].then # "cutIndex",
         tool[t].metas # {} => \/ tool'[t].at = "readIndex"
                               \/ /\ tool[t].cmd = "record" /\ tool'[t].at \in {"draw", "find", "add", "write"}
                                  /\ tool'[t].at = "find" => tool'[t].then = "add"
  PROVE  Session(t)'
  <1>1. Sitting(t)'
    BY DEF Session, Sitting, At
  <1>2. Surveying(t)'
    BY DEF Surveying, Reindexing, At
  <1>3. Stamping(t)'
    BY DEF Session, Stamping, Known, Stamped, Owed, Present, At
  <1> QED BY <1>1, <1>2, <1>3 DEF Session

\* The editors, push and pull have nothing to stamp: whatever they do, they
\* write neither a frame nor the index at the desk.
Errand == {"push", "read", "got", "entries", "fetch", "score", "tune", "readTemplate", "cutTemplate", "putTemplate",
           "cutManifest", "putManifest", "check", "undoManifest", "backManifest", "undoTemplate", "backTemplate"}

LEMMA ErrandsKeepSession ==
  ASSUME TreeInv, NEW t \in Tools, Session(t), tool[t].at \in Errand, ToolStep(t) \/ LibStep(t)
  PROVE  Session(t)'
  <1>1. /\ DOMAIN tool = Tools /\ DOMAIN tool[t] = Fields /\ tool[t].metas = {} /\ ~At(t, "write") /\ ~At(t, "writeIndex")
        /\ ~index["desk"].cut
    BY ToolFields DEF Session, Sitting, Stamping, Errand, At
  <1>2. ASSUME NEW p \in Errand, Goes(t, p), UNCHANGED <<tree, index, cutShort>> PROVE Session(t)'
    <2>1. tool'[t].at = p /\ tool'[t].cmd = tool[t].cmd /\ tool'[t].metas = tool[t].metas /\ tool'[t].left = tool[t].left
      BY <1>1, <1>2 DEF Goes, Fields
    <2> QED BY <1>1, <1>2, <2>1, SessionStays DEF Errand
  <1>3. ASSUME Ends(t), UNCHANGED <<tree, index, cutShort>> PROVE Session(t)'
    BY <1>1, <1>3, SessionIsOver DEF Ends, Owed, Present
  <1>4. ASSUME NEW f, NEW then, Seeks(t, f, then), UNCHANGED <<tree, index, cutShort>> PROVE Session(t)'
    <2>1. tool'[t].at = "find" /\ tool'[t].cmd = tool[t].cmd /\ tool'[t].metas = tool[t].metas /\ tool'[t].left = tool[t].left
      BY <1>1, <1>4 DEF Seeks, Fields
    <2> QED BY <1>1, <1>4, <2>1, SessionStays
  <1>5. ASSUME NEW seen, NEW f, NEW p \in {"push", "score", "find"}, UNCHANGED <<tree, index, cutShort>>,
               tool' = [tool EXCEPT ![t].seen = seen, ![t].f = f, ![t].todo = Labels, ![t].then = "read", ![t].at = p]
        PROVE  Session(t)'
    <2>1. tool'[t].at = p /\ tool'[t].cmd = tool[t].cmd /\ tool'[t].metas = tool[t].metas /\ tool'[t].left = tool[t].left
      BY <1>1, <1>5 DEF Fields
    <2> QED BY <1>1, <1>5, <2>1, SessionStays
  <1>6. CASE PushNext(t)
    <2>1. UNCHANGED <<tree, index, cutShort>>
      BY <1>6 DEF PushNext, files
    <2>2. ASSUME NEW x \in tool[t].seen,
                 tool' = [tool EXCEPT ![t].seen = @ \ {x}, ![t].f = x[1], ![t].todo = Labels, ![t].then = "read",
                                      ![t].at = IF Exists(Key(x[1])) THEN "push" ELSE "find"]
          PROVE  Session(t)'
      <3> DEFINE rest == tool[t].seen \ {x}
                 p == IF Exists(Key(x[1])) THEN "push" ELSE "find"
      <3>1. tool' = [tool EXCEPT ![t].seen = rest, ![t].f = x[1], ![t].todo = Labels, ![t].then = "read", ![t].at = p]
        BY <2>2, Zenon
      <3>2. p \in {"push", "score", "find"}
        OBVIOUS
      <3> HIDE DEF rest, p
      <3> QED BY <1>5, <2>1, <3>1, <3>2
    <2> QED BY <1>3, <1>6, <2>1, <2>2 DEF PushNext
  <1>7. CASE Read(t)
    <2>1. UNCHANGED <<tree, index, cutShort>>
      BY <1>7 DEF Read, files
    <2>2. ASSUME NEW bytes, tool' = [tool EXCEPT ![t].f = bytes, ![t].at = "got"] PROVE Session(t)'
      <3>1. tool'[t].at = "got" /\ tool'[t].cmd = tool[t].cmd /\ tool'[t].metas = tool[t].metas /\ tool'[t].left = tool[t].left
        BY <1>1, <2>2 DEF Fields
      <3> QED BY <1>1, <2>1, <3>1, SessionStays
    <2> QED BY <1>3, <1>7, <2>1, <2>2 DEF Read
  <1>8. CASE PushPuts(t)
    BY <1>2, <1>3, <1>8 DEF PushPuts, Errand
  <1>9. CASE PullNext(t)
    <2>1. ASSUME NEW e \in tool[t].prev,
                 tool' = [tool EXCEPT ![t].prev = @ \ {e}, ![t].f = e.hash, ![t].to = e.label,
                                      ![t].at = "find", ![t].todo = Labels, ![t].then = "fetch"]
          PROVE  Session(t)'
      <3>1. tool'[t].at = "find" /\ tool'[t].cmd = tool[t].cmd /\ tool'[t].metas = tool[t].metas /\ tool'[t].left = tool[t].left
        BY <1>1, <2>1 DEF Fields
      <3> QED BY <1>1, <1>9, <3>1, SessionStays DEF PullNext
    <2> QED BY <1>3, <1>9, <2>1 DEF PullNext
  <1>10. CASE Fetch(t)
    BY <1>2, <1>3, <1>4, <1>10 DEF Fetch, Errand, files
  <1>11. CASE ScoreReads(t)
    <2>1. UNCHANGED <<tree, index, cutShort>>
      BY <1>11 DEF ScoreReads, Keeps, files
    <2>2. ASSUME NEW x \in tool[t].seen,
                 tool' = [tool EXCEPT ![t].seen = @ \ {x}, ![t].f = x[1], ![t].todo = Labels, ![t].then = "read",
                                      ![t].at = IF x[2] = Unsorted THEN "score" ELSE "find"]
          PROVE  Session(t)'
      <3> DEFINE rest == tool[t].seen \ {x}
                 p == IF x[2] = Unsorted THEN "score" ELSE "find"
      <3>1. tool' = [tool EXCEPT ![t].seen = rest, ![t].f = x[1], ![t].todo = Labels, ![t].then = "read", ![t].at = p]
        BY <2>2, Zenon
      <3>2. p \in {"push", "score", "find"}
        OBVIOUS
      <3> HIDE DEF rest, p
      <3> QED BY <1>5, <2>1, <3>1, <3>2
    <2> QED BY <1>2, <1>3, <1>11, <2>1, <2>2 DEF ScoreReads, Leaves, Errand
  <1>12. CASE CropPlans(t) \/ TunePlans(t) \/ ReadTemplate(t) \/ Refuses(t)
    BY <1>2, <1>3, <1>12 DEF CropPlans, TunePlans, ReadTemplate, Refuses, Leaves, Keeps, files, Errand
  <1>13. CASE WriteTemplate(t) \/ WriteManifestFile(t)
    BY <1>2, <1>13 DEF WriteTemplate, WriteManifestFile, Writes, Keeps, files, Errand
  <1>14. CASE CheckLibrary(t) \/ RestoreManifest(t) \/ RestoreTemplate(t) \/ RestoreFails(t)
    BY <1>2, <1>3, <1>14 DEF CheckLibrary, RestoreManifest, RestoreTemplate, RestoreFails, AfterUndo, Leaves, Keeps, files, Errand
  <1>15. ~Find(t) /\ ~All(t) /\ ~AddFinds(t) /\ ~AddTruncates(t) /\ ~AddWrites(t) /\ ~AddFails(t) /\ ~Draw(t) /\ ~Rename(t)
         /\ ~ReadIndex(t) /\ ~IndexTruncates(t) /\ ~IndexWrites(t)
    BY DEF Find, All, AddFinds, AddTruncates, AddWrites, AddFails, Draw, Rename, ReadIndex, IndexTruncates, IndexWrites, At, Errand
  <1> QED BY <1>6, <1>7, <1>8, <1>9, <1>10, <1>11, <1>12, <1>13, <1>14, <1>15 DEF ToolStep, LibStep

\* Recording: what is filed is remembered until it is stamped, and a session
\* that is given up has filed nothing.
LEMMA RecordingKeepsSession ==
  ASSUME TreeInv, NEW t \in Tools, Session(t), Find(t) \/ Draw(t) \/ AddFinds(t) \/ AddTruncates(t) \/ AddWrites(t)
  PROVE  Session(t)'
  <1>1. /\ DOMAIN tool = Tools /\ DOMAIN tool[t] = Fields /\ ~At(t, "writeIndex") /\ Good(tool[t])
        /\ UNCHANGED <<index, cutShort>> /\ tool[t].left \in Int /\ SessionMax \in Nat
    BY ToolFields, CorpusAssumption
       DEF TreeInv, ToolTypes, Find, Draw, AddFinds, AddTruncates, Opens, AddWrites, files, At
  <1>2. CASE Find(t)
    <2>1. /\ At(t, "find") /\ tool[t].then \in Filing \cup {"read"} /\ UNCHANGED tree
          /\ tool'[t].at \in {"find", tool[t].then} /\ tool'[t].cmd = tool[t].cmd /\ tool'[t].metas = tool[t].metas
          /\ tool'[t].left = tool[t].left /\ tool'[t].then = tool[t].then
      BY <1>1, <1>2 DEF Find, Fields, At, Good, files
    <2>2. tool[t].metas # {} => tool[t].cmd = "record" /\ tool[t].then = "add"
      BY <2>1 DEF Session, Sitting, At
    <2> QED BY <1>1, <2>1, <2>2, SessionStays DEF At, Filing
  <1>3. CASE Draw(t)
    <2>1. At(t, "draw") /\ UNCHANGED tree /\ (tool[t].metas # {} => tool[t].cmd = "record")
      BY <1>3 DEF Draw, Session, Sitting, At, files
    <2>2. ASSUME NEW f, Seeks(t, f, "add") PROVE Session(t)'
      <3>1. /\ tool'[t].at = "find" /\ tool'[t].then = "add" /\ tool'[t].cmd = tool[t].cmd
            /\ tool'[t].metas = tool[t].metas /\ tool'[t].left = tool[t].left
        BY <1>1, <2>2 DEF Seeks, Fields
      <3> QED BY <1>1, <2>1, <3>1, SessionStays DEF At
    <2>3. CASE Goes(t, "readIndex")
      <3>1. /\ tool'[t].at = "readIndex" /\ tool'[t].cmd = tool[t].cmd
            /\ tool'[t].metas = tool[t].metas /\ tool'[t].left = tool[t].left
        BY <1>1, <2>3 DEF Goes, Fields
      <3> QED BY <1>1, <2>1, <3>1, SessionStays DEF At
    <2>4. CASE (tool[t].cmd = "capture" \/ tool[t].left = SessionMax) /\ Ends(t)
      <3>1. tool[t].metas = {}
        BY <1>1, <2>1, <2>4 DEF Session, Sitting
      <3>2. tool'[t] = Idle /\ ~index["desk"].cut
        BY <1>1, <2>4 DEF Ends, Session, Stamping
      <3> QED BY <1>1, <2>1, <3>1, <3>2, SessionIsOver DEF At, Owed, Present
    <2> QED BY <1>3, <2>2, <2>3, <2>4 DEF Draw
  <1>4. CASE AddTruncates(t)
    <2>1. /\ tool'[t].at = "write" /\ tool'[t].cmd = tool[t].cmd /\ tool'[t].metas = tool[t].metas
          /\ tool'[t].left = tool[t].left /\ tool'[t].f = tool[t].f /\ At(t, "add")
      BY <1>1, <1>4 DEF AddTruncates, Opens, Fields
    <2>2. \A f \in Frames : Owed(f)' => Owed(f) \/ (f = tool[t].f /\ tool[t].cmd # "pull")
      BY <1>1, <1>4, WhereOpened DEF Owed, Present, Sites, Site
    <2>3. Sitting(t)'
      BY <2>1 DEF Session, Sitting, At
    <2>4. Surveying(t)'
      BY <2>1 DEF Surveying, Reindexing, At
    <2>5. Stamping(t)'
      BY <1>1, <2>1, <2>2 DEF Session, Stamping, Known, Stamped, At
    <2> QED BY <2>3, <2>4, <2>5 DEF Session
  <1>5. ASSUME NEW added \in BOOLEAN, AfterAdd(t, added), tool[t].at \in {"add", "write"},
               \A f \in Frames : Owed(f)' => Owed(f),
               \A f \in Frames : Owed(f) => f \in tool[t].metas \/ Stamped(index["desk"].of, f)
                                                     \/ (added /\ f = tool[t].f /\ tool[t].cmd # "pull")
        PROVE  Session(t)'
    <2>1. /\ tool[t].metas # {} => tool[t].cmd = "record" /\ tool[t].left < SessionMax
          /\ tool[t].cmd = "record" => tool[t].left <= SessionMax
          /\ ~index["desk"].cut
      BY <1>1, <1>5 DEF Session, Sitting, Stamping, At
    <2>2. CASE /\ tool[t].cmd = "record"
               /\ tool' = [tool EXCEPT ![t].at = IF tool[t].left = 1 THEN "readIndex" ELSE "draw", ![t].left = @ - 1,
                                       ![t].metas = IF added THEN @ \cup {tool[t].f} ELSE @]
      <3>1. /\ tool'[t].at \in {"readIndex", "draw"} /\ tool'[t].cmd = "record" /\ tool'[t].left = tool[t].left - 1
            /\ tool[t].metas \subseteq tool'[t].metas /\ (added => tool[t].f \in tool'[t].metas)
        BY <1>1, <2>2 DEF Fields
      <3>2. tool'[t].left < SessionMax /\ tool'[t].left <= SessionMax
        BY <1>1, <2>1, <2>2, <3>1
      <3>3. Sitting(t)'
        BY <3>1, <3>2 DEF Sitting, At
      <3>4. Surveying(t)'
        BY <3>1 DEF Surveying, Reindexing, At
      <3>5. Stamping(t)'
        BY <1>1, <1>5, <2>1, <3>1 DEF Stamping, Known, Stamped, At
      <3> QED BY <3>3, <3>4, <3>5 DEF Session
    <2>3. CASE tool[t].cmd = "capture" /\ added /\ FoldMeta(t)
      <3>1. tool'[t].at = "readIndex" /\ tool'[t].cmd = "capture" /\ tool'[t].metas = {tool[t].f} /\ tool[t].metas = {}
        BY <1>1, <2>1, <2>3 DEF Fields, FoldMeta
      <3>2. Sitting(t)'
        BY <3>1 DEF Sitting, At
      <3>3. Surveying(t)'
        BY <3>1 DEF Surveying, Reindexing, At
      <3>4. Stamping(t)'
        BY <1>1, <1>5, <2>1, <3>1 DEF Stamping, Known, Stamped, At
      <3> QED BY <3>2, <3>3, <3>4 DEF Session
    <2>4. CASE tool[t].cmd = "capture" /\ ~added /\ Ends(t)
      <3>1. tool'[t] = Idle /\ tool[t].metas = {}
        BY <1>1, <2>1, <2>4 DEF Ends
      <3>2. AllStamped'
        BY <1>1, <1>5, <2>1, <2>4, <3>1 DEF AllStamped, Stamped
      <3> QED BY <3>1, <3>2 DEF Idle, Session, Sitting, Surveying, Stamping, AllStamped, Reindexing, Known, At
    <2>5. CASE tool[t].cmd = "pull" /\ Goes(t, "entries")
      <3>1. tool'[t].at = "entries" /\ tool'[t].cmd = "pull" /\ tool'[t].metas = {} /\ tool[t].metas = {}
        BY <1>1, <2>1, <2>5 DEF Goes, Fields
      <3>2. Sitting(t)'
        BY <3>1 DEF Sitting, At
      <3>3. Surveying(t)'
        BY <3>1 DEF Surveying, Reindexing, At
      <3>4. Stamping(t)'
        BY <1>1, <1>5, <2>1, <2>5, <3>1 DEF Stamping, Known, Stamped, At
      <3> QED BY <3>2, <3>3, <3>4 DEF Session
    <2> QED BY <1>5, <2>2, <2>3, <2>4, <2>5 DEF AfterAdd
  <1>6. \A f \in Frames : Owed(f) => f \in tool[t].metas \/ Stamped(index["desk"].of, f)
                                             \/ (At(t, "write") /\ tool[t].f = f /\ tool[t].cmd # "pull")
    BY <1>1 DEF Session, Stamping, Known
  <1>7. CASE AddFinds(t)
    <2>1. AfterAdd(t, FALSE) /\ At(t, "add") /\ UNCHANGED tree
      BY <1>7 DEF AddFinds, files
    <2> QED BY <1>1, <1>5, <1>6, <2>1 DEF Owed, Present, At
  <1>8. CASE AddWrites(t)
    <2>1. AfterAdd(t, TRUE) /\ At(t, "write")
      BY <1>8 DEF AddWrites
    <2>2. \A l \in LabelSet, f \in Frames :
             Site(t) = "desk" /\ l = tool[t].fd /\ f = tool[t].f => tree["desk"][l][f] # 0
      BY <2>1, LabelsAreLabels DEF TreeInv, WritersFiles, Writer, Sites
    <2>3. \A f \in Frames : Owed(f)' => Owed(f)
      BY <1>1, <1>8, <2>2, WhereWritten DEF Owed, Present, Sites
    <2> QED BY <1>5, <1>6, <2>1, <2>3 DEF At
  <1> QED BY <1>2, <1>3, <1>4, <1>7, <1>8

\* An Add that fails files nothing that is owed a stamp, and a session that
\* ends with it has nothing to stamp, or goes on to stamp what it has.
LEMMA FailingKeepsSession ==
  ASSUME TreeInv, NEW t \in Tools, Session(t), AddFails(t)
  PROVE  Session(t)'
  <1>1. /\ DOMAIN tool = Tools /\ DOMAIN tool[t] = Fields /\ tool[t].at \in {"add", "write"} /\ UNCHANGED <<tree, index>>
        /\ tool[t].left \in Int /\ SessionMax \in Nat
        /\ cutShort' = IF At(t, "write") THEN cutShort \cup {<<Site(t), tool[t].f>>} ELSE cutShort
    BY ToolFields, CorpusAssumption DEF TreeInv, ToolTypes, AddFails
  <1>2. /\ tool[t].metas # {} => tool[t].cmd = "record" /\ tool[t].left < SessionMax
        /\ tool[t].cmd = "record" => tool[t].left <= SessionMax
        /\ ~index["desk"].cut
    BY <1>1 DEF Session, Sitting, Stamping, At
  <1>3. \A f \in Frames : Owed(f)' => f \in tool[t].metas \/ Stamped(index["desk"].of, f)
    BY <1>1 DEF Session, Stamping, Known, Owed, Present, At, Site
  <1>4. CASE Goes(t, "readIndex") /\ tool[t].cmd = "record" /\ tool[t].left < SessionMax
    <2>1. tool'[t].at = "readIndex" /\ tool'[t].cmd = "record" /\ tool'[t].metas = tool[t].metas /\ tool'[t].left = tool[t].left
      BY <1>1, <1>4 DEF Goes, Fields
    <2>2. Sitting(t)'
      BY <1>1, <1>2, <1>4, <2>1 DEF Sitting, At
    <2>3. Surveying(t)'
      BY <2>1 DEF Surveying, Reindexing, At
    <2>4. Stamping(t)'
      BY <1>1, <1>2, <1>3, <2>1 DEF Stamping, Known, Stamped, At
    <2> QED BY <2>2, <2>3, <2>4 DEF Session
  <1>5. CASE Ends(t) /\ ~(tool[t].cmd = "record" /\ tool[t].left < SessionMax)
    <2>1. tool'[t] = Idle /\ tool[t].metas = {}
      BY <1>1, <1>2, <1>5 DEF Ends
    <2>2. AllStamped'
      BY <1>1, <1>2, <1>3, <2>1 DEF AllStamped, Stamped
    <2> QED BY <2>1, <2>2 DEF Idle, Session, Sitting, Surveying, Stamping, AllStamped, Reindexing, Known, At
  <1> QED BY <1>4, <1>5 DEF AddFails

\* A relabelling moves a frame, and moves nothing else.
LEMMA RenameKeepsSession ==
  ASSUME TreeInv, NEW t \in Tools, Session(t), Rename(t)
  PROVE  Session(t)'
  <1>1. At(t, "rename") /\ UNCHANGED <<index, cutShort>> /\ tool[t].metas = {} /\ ~index["desk"].cut
    BY DEF Rename, Session, Sitting, Stamping, At
  <1>2. tool'[t] = Idle
    BY ToolFields, Zenon DEF Rename, Moves, Ends
  <1>3. \A f \in Frames : Owed(f)' => Owed(f)
    <2>1. CASE UNCHANGED tree
      BY <1>1, <2>1 DEF Owed, Present
    <2>2. CASE MustMove(t) /\ Moves(t)
      BY <1>1, <2>2, WhereMoved DEF Owed, Present, Sites
    <2> QED BY <2>1, <2>2 DEF Rename
  <1> QED BY <1>1, <1>2, <1>3, SessionIsOver DEF At

\* The rewriting of the index: read it, list the tree, write what both say.
LEMMA ReadIndexKeepsSession ==
  ASSUME TreeInv, NEW t \in Tools, Session(t), ReadIndex(t)
  PROVE  Session(t)'
  <1>1. /\ DOMAIN tool = Tools /\ DOMAIN tool[t] = Fields /\ At(t, "readIndex") /\ UNCHANGED <<tree, index, cutShort>>
        /\ ~index["desk"].cut
    BY ToolFields DEF ReadIndex, Session, Stamping, files, At
  <1>2. CASE tool[t].cmd = "pull"
    <2>1. tool[t].metas = {}
      BY <1>1, <1>2 DEF Session, Sitting, At
    <2>2. CASE Ends(t)
      BY <1>1, <2>1, <2>2, SessionIsOver DEF Ends, Owed, Present, At
    <2>3. CASE tool' = [tool EXCEPT ![t].prev = index[Site(t)].of, ![t].todo = Labels, ![t].then = "cutIndex",
                                    ![t].at = IF tool[t].cmd = "pull" THEN "entries" ELSE "list"]
      <3>1. tool'[t].at = "entries" /\ tool'[t].cmd = tool[t].cmd /\ tool'[t].metas = tool[t].metas /\ tool'[t].left = tool[t].left
        BY <1>1, <1>2, <2>3 DEF Fields
      <3> QED BY <1>1, <2>1, <3>1, SessionStays DEF At
    <2> QED BY <2>2, <2>3 DEF ReadIndex
  <1>3. CASE tool[t].cmd # "pull"
    <2>1. tool' = [tool EXCEPT ![t].prev = index["desk"].of, ![t].todo = Labels, ![t].then = "cutIndex", ![t].at = "list"]
      BY <1>1, <1>3 DEF ReadIndex, Site
    <2>2. /\ tool'[t].at = "list" /\ tool'[t].then = "cutIndex" /\ tool'[t].prev = index["desk"].of /\ tool'[t].todo = Labels
          /\ tool'[t].cmd = tool[t].cmd /\ tool'[t].metas = tool[t].metas /\ tool'[t].left = tool[t].left
      BY <1>1, <2>1 DEF Fields
    <2>3. Sitting(t)'
      BY <1>1, <2>2 DEF Session, Sitting, At
    <2>4. Surveying(t)'
      BY <1>1, <1>3, <2>2, AheadOfAll DEF Surveying, Reindexing, At
    <2>5. Stamping(t)'
      BY <1>1, <2>2 DEF Session, Stamping, Known, Stamped, Owed, Present, At
    <2> QED BY <2>3, <2>4, <2>5 DEF Session
  <1> QED BY <1>2, <1>3

LEMMA AllKeepsSession ==
  ASSUME TreeInv, NEW t \in Tools, Session(t), All(t)
  PROVE  Session(t)'
  <1> DEFINE l == Head(tool[t].todo)
             over == Len(tool[t].todo) = 1
  <1>1. /\ DOMAIN tool = Tools /\ DOMAIN tool[t] = Fields /\ At(t, "list") /\ UNCHANGED <<tree, index, cutShort>>
        /\ tool[t].todo \in Seq(LabelSet) /\ tool[t].todo # << >> /\ tool[t].then \in {"cutIndex", "push", "score"}
    BY ToolFields DEF TreeInv, Good, ToolTypes, All, files, At
  <1>2. /\ tool'[t].at = (IF over THEN tool[t].then ELSE "list") /\ tool'[t].then = tool[t].then /\ tool'[t].prev = tool[t].prev
        /\ tool'[t].cmd = tool[t].cmd /\ tool'[t].metas = tool[t].metas /\ tool'[t].left = tool[t].left
        /\ tool'[t].todo = Tail(tool[t].todo)
        /\ tool'[t].seen = tool[t].seen \cup {<<f, l>> : f \in {g \in Frames : tree[Site(t)][l][g] # 0}}
    BY <1>1 DEF All, Fields, At
  <1>3. CASE tool[t].then # "cutIndex"
    BY <1>1, <1>2, <1>3, SessionStays DEF Session, Sitting, At
  <1>4. CASE tool[t].then = "cutIndex"
    <2>1. Reindexing(t) /\ Site(t) = "desk"
      BY <1>1, <1>4 DEF Reindexing, Session, Surveying, Site
    <2>2. /\ Ahead(tool[t].todo) = {l} \cup Ahead(Tail(tool[t].todo))
          /\ over => Ahead(tool[t].todo) = {l}
      BY <1>1, AheadOfRest
    <2>3. \A f \in Frames, m \in LabelSet : tree["desk"][m][f] # 0 => <<f, m>> \in tool'[t].seen \/ (~over /\ m \in Ahead(Tail(tool[t].todo)))
      BY <1>1, <1>2, <2>1, <2>2 DEF Session, Surveying
    <2> HIDE DEF l, over
    <2>4. Sitting(t)'
      BY <1>1, <1>2, <1>4 DEF Session, Sitting, At
    <2>5. Surveying(t)'
      <3>1. (Reindexing(t) => tool[t].prev = index["desk"].of /\ tool[t].cmd # "pull")'
        BY <1>1, <1>2, <2>1 DEF Session, Surveying
      <3>2. ~over => At(t, "list")' /\ tool'[t].todo = Tail(tool[t].todo)
        BY <1>2 DEF At
      <3> QED BY <1>1, <2>3, <3>1, <3>2 DEF Surveying
    <2>6. Stamping(t)'
      BY <1>1, <1>2, <1>4 DEF Session, Stamping, Known, Stamped, Owed, Present, At
    <2> QED BY <2>4, <2>5, <2>6 DEF Session
  <1> QED BY <1>3, <1>4

LEMMA IndexKeepsSession ==
  ASSUME TreeInv, NEW t \in Tools, Session(t), IndexTruncates(t) \/ IndexWrites(t)
  PROVE  Session(t)'
  <1>1. DOMAIN tool = Tools /\ DOMAIN tool[t] = Fields /\ UNCHANGED <<tree, cutShort>> /\ index \in Indexes
    BY ToolFields DEF TreeInv, IndexTruncates, IndexWrites
  <1>2. CASE IndexTruncates(t)
    <2>1. /\ At(t, "cutIndex") /\ ~index["desk"].cut /\ Reindexing(t) /\ tool[t].prev = index["desk"].of
      BY <1>2 DEF IndexTruncates, Session, Stamping, Surveying, Reindexing, At
    <2>2. CASE tool[t].cmd = "index" /\ Ends(t) /\ UNCHANGED index
      <3>1. tool[t].metas = {}
        BY <2>2 DEF Session, Sitting
      <3> QED BY <1>1, <2>1, <2>2, <3>1, SessionIsOver DEF Ends, Owed, Present, At
    <2>3. CASE Goes(t, "writeIndex") /\ index' = [index EXCEPT !["desk"] = [cut |-> TRUE, of |-> {}]]
      <3>1. /\ tool'[t].at = "writeIndex" /\ tool'[t].cmd = tool[t].cmd /\ tool'[t].metas = tool[t].metas
            /\ tool'[t].left = tool[t].left /\ tool'[t].prev = tool[t].prev /\ tool'[t].seen = tool[t].seen
        BY <1>1, <2>3 DEF Goes, Fields
      <3>2. index'["desk"].cut = TRUE
        BY <1>1, <2>3 DEF Indexes, Sites
      <3>3. Sitting(t)'
        BY <3>1, <2>1 DEF Session, Sitting, At
      <3>4. Surveying(t)'
        BY <1>1, <2>1, <3>1 DEF Session, Surveying, Reindexing, At
      <3>5. Stamping(t)'
        BY <1>1, <2>1, <3>1, <3>2 DEF Session, Stamping, Known, Stamped, Owed, Present, At
      <3> QED BY <3>3, <3>4, <3>5 DEF Session
    <2> QED BY <1>2, <2>2, <2>3 DEF IndexTruncates
  <1>3. CASE IndexWrites(t)
    <2>1. At(t, "writeIndex") /\ index["desk"].cut /\ Ends(t)
      BY <1>3 DEF IndexWrites, Session, Stamping
    <2>2. index' = [index EXCEPT !["desk"] = [cut |-> FALSE, of |-> Reindex(tool[t].prev, tool[t].seen, tool[t].metas)]]
      BY <1>3, <2>1 DEF IndexWrites
    <2>3. ~index'["desk"].cut /\ index'["desk"].of = Reindex(tool[t].prev, tool[t].seen, tool[t].metas)
      BY <1>1, <2>2 DEF Indexes, Sites
    <2>4. ASSUME NEW f \in Frames, Owed(f) PROVE Stamped(index'["desk"].of, f)
      <3>1. PICK l \in LabelSet : tree["desk"][l][f] # 0
        BY <2>4 DEF Owed, Present
      <3>2. <<f, l>> \in tool[t].seen
        BY <2>1, <3>1 DEF Session, Surveying, At
      <3>3. f \in tool[t].metas \/ Stamped(tool[t].prev, f)
        BY <2>1, <2>4 DEF Session, Stamping, Known, At
      <3> DEFINE x == <<f, l>>
                 e == [hash |-> x[1], label |-> x[2], stamped |-> x[1] \in tool[t].metas \/ \E d \in tool[t].prev : d.hash = x[1] /\ d.stamped]
      <3>4. e \in Reindex(tool[t].prev, tool[t].seen, tool[t].metas)
        BY <3>2, Zenon DEF Reindex
      <3>5. e.hash = f
        OBVIOUS
      <3>6. e.stamped
        BY <3>3 DEF Stamped
      <3> QED BY <2>3, <3>4, <3>5, <3>6 DEF Stamped
    <2>5. AllStamped'
      BY <1>1, <2>3, <2>4 DEF AllStamped, Owed, Present, Stamped
    <2>6. tool'[t] = Idle
      BY <1>1, <2>1 DEF Ends
    <2> QED BY <2>5, <2>6 DEF Idle, Session, Sitting, Surveying, Stamping, AllStamped, Reindexing, Known, At
  <1> QED BY <1>2, <1>3

LEMMA WorkKeepsSession ==
  ASSUME TreeInv, NEW t \in Tools, Session(t), ToolStep(t) \/ LibStep(t)
  PROVE  Session(t)'
  <1>1. CASE tool[t].at \in Errand
    BY <1>1, ErrandsKeepSession
  <1>2. CASE tool[t].at \notin Errand
    <2>1. ~LibStep(t)
      BY <1>2 DEF LibStep, ScoreReads, CropPlans, TunePlans, ReadTemplate, WriteTemplate, WriteManifestFile,
                  CheckLibrary, RestoreManifest, RestoreTemplate, RestoreFails, Refuses, At, Errand
    <2>2. ~PushNext(t) /\ ~Read(t) /\ ~PushPuts(t) /\ ~PullNext(t) /\ ~Fetch(t)
      BY <1>2 DEF PushNext, Read, PushPuts, PullNext, Fetch, At, Errand
    <2> QED BY <2>1, <2>2, RecordingKeepsSession, FailingKeepsSession, RenameKeepsSession, ReadIndexKeepsSession, AllKeepsSession,
            IndexKeepsSession DEF ToolStep
  <1> QED BY <1>1, <1>2

LEMMA StampInvNext ==
  ASSUME TreeInv, AloneInv, StampInv, [Next]_vars
  PROVE  StampInv'
  <1>1. CASE UNCHANGED <<tree, tool, index["desk"], cutShort, benchVars>>
    <2>1. AllStamped => AllStamped'
      BY <1>1 DEF AllStamped, Stamped, Owed, Present
    <2>2. \A t \in Tools : Session(t) => Session(t)'
      BY <1>1 DEF Session, Sitting, Surveying, Stamping, Reindexing, Known, Stamped, Owed, Present, At
    <2>3. (Alone' <=> Alone) /\ death' = death /\ (Given("record")' <=> Given("record"))
      BY <1>1 DEF Alone, Given, benchVars
    <2> QED BY <1>1, <2>1, <2>2, <2>3 DEF StampInv, At
  <1>2. ASSUME NEW t \in Tools, Begin(t) PROVE StampInv'
    <2>1. PICK cmd \in desk.commands : Start(t, cmd) \/ StartLib(t, cmd)
      BY <1>2 DEF Begin
    <2>2. UNCHANGED <<tree, index, cutShort, desk, death>> /\ Cardinality(Busy) < desk.crowd /\ \A u \in Tools \ {t} : tool'[u] = tool[u]
      BY <1>2, <2>1, Begun DEF Begin, benchVars, files
    <2>3. SUFFICES ASSUME Alone, death # "did", Given("record")
                   PROVE  Session(t)' /\ tool'[t].at # "idle" /\ \A u \in Tools \ {t} : tool'[u].at = "idle"
      BY <2>2 DEF StampInv, Alone, Given, At
    <2>4. AllStamped /\ tool[t] = Idle /\ Idle.metas = {} /\ \A u \in Tools : At(u, "idle")
      BY <2>2, <2>3, NobodyBusy DEF StampInv, Idle
    <2>5. /\ tool'[t].metas = {} /\ (tool'[t].cmd = "record" => tool'[t].left = SessionMax)
          /\ tool'[t].at \in {"draw", "readIndex", "list", "find"} /\ (tool'[t].at = "list" => tool'[t].then # "cutIndex")
      BY <2>1, <2>4, Begun
    <2>6. Sitting(t)'
      BY <2>5, CorpusAssumption DEF Sitting
    <2>7. Surveying(t)'
      BY <2>5 DEF Surveying, Reindexing, At
    <2>8. Stamping(t)'
      BY <2>2, <2>4, <2>5 DEF Stamping, AllStamped, Known, Stamped, Owed, Present, At
    <2> QED BY <2>2, <2>4, <2>5, <2>6, <2>7, <2>8 DEF Session, At
  <1>3. ASSUME NEW t \in Tools, Work(t) PROVE StampInv'
    <2>1. (ToolStep(t) \/ LibStep(t)) /\ UNCHANGED <<desk, death>>
      BY <1>3 DEF Work, benchVars
    <2>2. SUFFICES ASSUME Alone, death # "did", Given("record")
                   PROVE  Session(t)' /\ \A u \in Tools \ {t} : tool'[u].at = "idle"
      <3>1. Session(t)' /\ tool'[t] = Idle => AllStamped'
        BY DEF Idle, Session, Sitting, Surveying, Stamping, AllStamped, Reindexing, Known, At
      <3>2. tool'[t].at = "idle" => tool'[t] = Idle
        BY <2>1, WorkLeavesOneAtRest DEF benchVars, AtRest, At
      <3> QED BY <2>1, <3>1, <3>2 DEF StampInv, Alone, Given, At
    <2>3. ~At(t, "idle")
      BY <2>1, AtWork
    <2>4. Session(t)'
      BY <2>1, <2>2, <2>3, WorkKeepsSession DEF StampInv
    <2>5. \A u \in Tools \ {t} : tool'[u].at = "idle"
      BY <2>1, <2>2, WorkLeavesOneAtRest, OthersStay DEF benchVars, SameCourse, At
    <2> QED BY <2>4, <2>5
  <1>4. ASSUME NEW t \in Tools, Crash(t) PROVE StampInv'
    BY <1>4 DEF Crash, StampInv
  <1>5. CASE Photograph
    BY <1>1, <1>5 DEF Photograph
  <1>6. CASE Git
    <2>1. index'["desk"] = index["desk"]
      BY <1>6 DEF Git, Commit, TreeInv, Indexes, Sites
    <2> QED BY <1>1, <1>6, <2>1 DEF Git, Commit
  <1>7. CASE UNCHANGED vars
    BY <1>1, <1>7 DEF vars
  <1> QED BY <1>2, <1>3, <1>4, <1>5, <1>6, <1>7 DEF Next

LEMMA StampInvInit == Init => StampInv
  <1> SUFFICES ASSUME Init, Given("record") PROVE StampInv
    BY DEF StampInv
  <1>1. tool = [t \in Tools |-> Idle] /\ tree = NoFrames /\ index["desk"] = Blank
    BY DEF Init, CorpusInit, Sites
  <1>2. AllStamped
    BY <1>1 DEF AllStamped, Owed, Present, NoFrames, Blank, Sites
  <1> QED BY <1>1, <1>2 DEF StampInv, Idle, At

\* One tool at a time is safe: no frame ends up under two labels, and, unless
\* one is killed, no frame recorded without its write failing loses its stamps
\* - for every set of frames, labels and tools, and whatever commands are given.
THEOREM AloneAllIsSafe == Spec => []AloneIsSafe
  <1>1. TreeInv /\ TreeInv' /\ AloneInv /\ [Next]_vars => AloneInv'
    BY AloneInvNext
  <1>2. TreeInv /\ AloneInv /\ StampInv /\ [Next]_vars => StampInv'
    BY StampInvNext
  <1>3. ASSUME AloneInv, StampInv PROVE AloneIsSafe
    <2> SUFFICES ASSUME Alone
                 PROVE  /\ \A s \in Sites, f \in Frames : Cardinality(Filed(s, f)) <= 1
                        /\ death # "did" /\ Busy = {} /\ Given("record") =>
                               \A f \in Frames : Filed("desk", f) # {} /\ <<"desk", f>> \notin cutShort =>
                                   \E e \in index["desk"].of : e.hash = f /\ e.stamped
      BY DEF AloneIsSafe
    <2>1. ASSUME NEW s \in Sites, NEW f \in Frames PROVE Cardinality(Filed(s, f)) <= 1
      <3>1. CASE Filed(s, f) = {}
        BY <3>1, FS_EmptySet
      <3>2. ASSUME NEW l \in Filed(s, f) PROVE Cardinality(Filed(s, f)) <= 1
        <4>1. Filed(s, f) = {l}
          BY <1>3, <3>2 DEF AloneInv, OneLabel, Filed
        <4> QED BY <4>1, FS_Singleton
      <3> QED BY <3>1, <3>2
    <2>2. ASSUME death # "did", Busy = {}, Given("record"), NEW f \in Frames, Filed("desk", f) # {}, <<"desk", f>> \notin cutShort
          PROVE  \E e \in index["desk"].of : e.hash = f /\ e.stamped
      <3>1. AllStamped
        BY <1>3, <2>2 DEF StampInv, Busy, At
      <3>2. Owed(f)
        BY <2>2 DEF Filed, Owed, Present
      <3> QED BY <3>1, <3>2 DEF AllStamped, Stamped
    <2> QED BY <2>1, <2>2
  <1>4. Init => AloneInv /\ StampInv
    BY AloneInvInit, StampInvInit
  <1> QED BY <1>1, <1>2, <1>3, <1>4, TreeInvAlways, PTL DEF Spec

-----------------------------------------------------------------------------
(* AcceptedEditsStand. Every stage of an edit knows how far the two files    *)
(* have got from what was accepted, and what would bring them back; while a  *)
(* file is being put back, there may be anything in it.                      *)
Crops == {"readTemplate", "cutTemplate", "putTemplate", "undoTemplate", "backTemplate"}
Edits == {"cutManifest", "putManifest", "check", "undoManifest", "backManifest"}

Settled ==
    /\ DOMAIN accepted = {"manifest", "templates"}
    /\ accepted.manifest = NoFile \/ accepted.manifest = File(accepted.manifest.of)
    /\ accepted.templates \in [Anchors -> Int]
    /\ accepted.manifest.is = "absent" \/ Loads(accepted.manifest, accepted.templates)
AtAccepted == manifest = accepted.manifest /\ templates = accepted.templates

Replaced(t, bytes) == [accepted.templates EXCEPT ![edit[t].anchor] = bytes]
Planned(t) ==
    /\ edit[t].old = accepted.manifest /\ Edited(t).manifest = File(edit[t].new)
    /\ tool[t].cmd = "crop" => edit[t].anchor \in Anchors
    /\ tool[t].cmd = "crop" /\ ~At(t, "readTemplate") => edit[t].oldTemplate = accepted.templates[edit[t].anchor]

Stage(t) ==
    /\ tool[t].at \in Crops => tool[t].cmd = "crop"
    /\ tool[t].at \in Edits => tool[t].cmd \in {"crop", "score"}
    /\ tool[t].at \in {"score", "tune"} \/ (At(t, "list") /\ tool[t].then = "score") => tool[t].cmd = "score"
    /\ tool[t].cmd = "score" => accepted.manifest.is = "whole"
    /\ tool[t].at \in Crops \cup Edits => Planned(t)
Manifested(t) ==
    tool[t].at \notin {"undoManifest", "backManifest"} =>
        manifest = IF At(t, "putManifest") THEN CutFile ELSE IF At(t, "check") THEN File(edit[t].new) ELSE accepted.manifest
Templated(t) ==
    IF tool[t].at \in {"undoTemplate", "backTemplate"} THEN \E b : templates = Replaced(t, b)
    ELSE templates = IF At(t, "putTemplate") THEN Replaced(t, Torn(tool[t].f))
                     ELSE IF tool[t].at \in Edits /\ tool[t].cmd = "crop" THEN Replaced(t, tool[t].f)
                     ELSE accepted.templates
Edit(t) == Stage(t) /\ Manifested(t) /\ Templated(t)

EditFields == {"anchor", "region", "old", "oldTemplate", "new", "tune"}
EditShape == DOMAIN edit = Tools /\ \A t \in Tools : DOMAIN edit[t] = EditFields
LibInv ==
    /\ EditShape
    /\ Alone /\ death # "did" /\ ~spoilt =>
           /\ Settled
           /\ \A t \in Tools : ~At(t, "idle") => Edit(t)
           /\ (\A t \in Tools : At(t, "idle")) => AtAccepted

LEMMA RetunedLibrary ==
  ASSUME NEW A, DOMAIN A = {"manifest", "templates"}, NEW S, A.manifest = File(S), NEW X
  PROVE  /\ DOMAIN [A EXCEPT !.manifest.of = X] = {"manifest", "templates"}
         /\ [A EXCEPT !.manifest.of = X].templates = A.templates /\ [A EXCEPT !.manifest.of = X].manifest = File(X)
  <1> DEFINE M == [A.manifest EXCEPT !.of = X]
  <1>1. [A EXCEPT !.manifest.of = X] = [A EXCEPT !.manifest = M]
    BY DEF File
  <1>2. M = File(X)
    BY DEF File
  <1> HIDE DEF M
  <1> QED BY <1>1, <1>2

LEMMA FileIsWhole == \A S : File(S).is = "whole" /\ File(S).of = S /\ File(S) # CutFile /\ File(S) # NoFile
  BY DEF File, CutFile, NoFile

\* Off the library, and back from it.
LEMMA NotEditing ==
  ASSUME NEW t, Settled, Edit(t), UNCHANGED <<manifest, templates, accepted>>,
         tool[t].at \notin Crops \cup Edits, tool'[t].at \notin Crops \cup Edits,
         tool'[t].cmd \in {tool[t].cmd, "none"},
         tool'[t].at \in {"score", "tune"} \/ (tool'[t].at = "list" /\ tool'[t].then = "score") => tool'[t].cmd = "score"
  PROVE  Settled' /\ Edit(t)'
  <1>1. AtAccepted
    BY DEF Edit, Manifested, Templated, AtAccepted, Edits, Crops, At
  <1>2. Settled'
    BY DEF Settled, Loads
  <1>3. Stage(t)'
    BY DEF Edit, Stage, At
  <1>4. Manifested(t)'
    BY <1>1 DEF Manifested, AtAccepted, Edits, At
  <1>5. Templated(t)'
    BY <1>1 DEF Templated, AtAccepted, Edits, Crops, At
  <1> QED BY <1>2, <1>3, <1>4, <1>5 DEF Edit

\* The corpus tools never touch the library, nor do they come to edit it.
LEMMA ToolsDoNotEdit ==
  ASSUME TreeInv, NEW t \in Tools, ToolStep(t)
  PROVE  /\ tool[t].at \notin Crops \cup Edits /\ tool'[t].at \notin Crops \cup Edits
         /\ \/ tool'[t].at \notin {"score", "tune", "list"}
            \/ tool'[t].at = "list" /\ tool'[t].then # "score"
            \/ At(t, "list") /\ tool'[t].then = tool[t].then /\ tool'[t].at \in {"list", tool[t].then} /\ tool[t].then # "tune"
  <1> DEFINE away == \/ tool'[t].at \notin Crops \cup Edits \cup {"score", "tune", "list"}
                     \/ tool'[t].at = "list" /\ tool'[t].then # "score"
                     \/ /\ At(t, "list") /\ tool'[t].then = tool[t].then /\ tool'[t].at \in {"list", tool[t].then}
                        /\ tool[t].then \in {"cutIndex", "push", "score"}
  <1>0. tool[t].at \notin Crops \cup Edits
    BY DEF ToolStep, Find, All, AddFinds, AddTruncates, AddWrites, AddFails, Draw, Rename, ReadIndex, IndexTruncates, IndexWrites,
           PushNext, Read, PushPuts, PullNext, Fetch, At, Crops, Edits
  <1> SUFFICES away
    BY <1>0 DEF Crops, Edits
  <1>1. DOMAIN tool = Tools /\ DOMAIN tool[t] = Fields /\ Good(tool[t])
    BY ToolFields DEF TreeInv
  <1>2. ASSUME NEW p \in {"readIndex", "draw", "entries", "writeIndex", "push", "got", "write", "find"}, tool'[t].at = p PROVE away
    BY <1>2 DEF Crops, Edits
  <1>3. CASE Ends(t)
    BY <1>1, <1>3 DEF Ends, Idle, Crops, Edits
  <1>4. ASSUME NEW p \in {"readIndex", "entries", "writeIndex", "push"}, Goes(t, p) PROVE away
    BY <1>1, <1>2, <1>4 DEF Goes, Fields
  <1>5. CASE Find(t)
    <2>1. tool'[t].at \in {"find", tool[t].then} /\ tool[t].then \in Filing \cup {"read"}
      BY <1>1, <1>5 DEF Find, At, Fields, Good
    <2> QED BY <2>1 DEF Crops, Edits, Filing
  <1>6. CASE All(t)
    <2>1. tool'[t].at \in {"list", tool[t].then} /\ tool'[t].then = tool[t].then /\ At(t, "list")
      BY <1>1, <1>6 DEF All, At, Fields
    <2> QED BY <1>1, <2>1 DEF Good, At
  <1>7. ASSUME NEW added \in BOOLEAN, AfterAdd(t, added) PROVE away
    <2>1. CASE tool' = [tool EXCEPT ![t].at = IF tool[t].left = 1 THEN "readIndex" ELSE "draw", ![t].left = @ - 1,
                                    ![t].metas = IF added THEN @ \cup {tool[t].f} ELSE @]
      <3>1. tool'[t].at \in {"readIndex", "draw"}
        BY <1>1, <2>1 DEF Fields
      <3> QED BY <1>2, <3>1
    <2>2. CASE FoldMeta(t)
      <3>1. tool'[t].at = "readIndex"
        BY <1>1, <2>2 DEF FoldMeta, Fields
      <3> QED BY <1>2, <3>1
    <2> QED BY <1>3, <1>4, <1>7, <2>1, <2>2 DEF AfterAdd
  <1>8. CASE AddFinds(t) \/ AddWrites(t)
    BY <1>7, <1>8 DEF AddFinds, AddWrites
  <1>9. CASE AddTruncates(t)
    <2>1. tool'[t].at = "write"
      BY <1>1, <1>9 DEF AddTruncates, Opens, Fields
    <2> QED BY <1>2, <2>1
  <1>10. ASSUME NEW f, NEW then, Seeks(t, f, then) PROVE away
    <2>1. tool'[t].at = "find"
      BY <1>1, <1>10 DEF Seeks, Fields
    <2> QED BY <1>2, <2>1
  <1>11. CASE Draw(t) \/ Fetch(t) \/ PushPuts(t) \/ IndexTruncates(t) \/ IndexWrites(t)
    BY <1>3, <1>4, <1>10, <1>11 DEF Draw, Fetch, PushPuts, IndexTruncates, IndexWrites
  <1>12. CASE Rename(t)
    <2>1. tool'[t] = Idle
      BY <1>1, <1>12, Zenon DEF Rename, Moves, Ends
    <2> QED BY <2>1 DEF Idle, Crops, Edits
  <1>13. CASE ReadIndex(t)
    <2>1. CASE tool' = [tool EXCEPT ![t].prev = index[Site(t)].of, ![t].todo = Labels, ![t].then = "cutIndex",
                                    ![t].at = IF tool[t].cmd = "pull" THEN "entries" ELSE "list"]
      <3>1. tool'[t].at \in {"entries", "list"} /\ tool'[t].then = "cutIndex"
        BY <1>1, <2>1 DEF Fields
      <3> QED BY <1>2, <3>1
    <2> QED BY <1>3, <1>13, <2>1 DEF ReadIndex
  <1>14. CASE PushNext(t)
    <2>1. ASSUME NEW x \in tool[t].seen,
                 tool' = [tool EXCEPT ![t].seen = @ \ {x}, ![t].f = x[1], ![t].todo = Labels, ![t].then = "read",
                                      ![t].at = IF Exists(Key(x[1])) THEN "push" ELSE "find"]
          PROVE  away
      <3>1. tool'[t].at \in {"push", "find"}
        BY <1>1, <2>1 DEF Fields
      <3> QED BY <1>2, <3>1
    <2> QED BY <1>3, <1>14, <2>1 DEF PushNext
  <1>15. CASE Read(t)
    <2>1. ASSUME NEW bytes, tool' = [tool EXCEPT ![t].f = bytes, ![t].at = "got"] PROVE away
      <3>1. tool'[t].at = "got"
        BY <1>1, <2>1 DEF Fields
      <3> QED BY <1>2, <3>1
    <2> QED BY <1>3, <1>15, <2>1 DEF Read
  <1>16. CASE PullNext(t)
    <2>1. ASSUME NEW e \in tool[t].prev,
                 tool' = [tool EXCEPT ![t].prev = @ \ {e}, ![t].f = e.hash, ![t].to = e.label,
                                      ![t].at = "find", ![t].todo = Labels, ![t].then = "fetch"]
          PROVE  away
      <3>1. tool'[t].at = "find"
        BY <1>1, <2>1 DEF Fields
      <3> QED BY <1>2, <3>1
    <2> QED BY <1>3, <1>16, <2>1 DEF PullNext
  <1>17. CASE AddFails(t)
    BY <1>3, <1>4, <1>17 DEF AddFails
  <1> QED BY <1>5, <1>6, <1>8, <1>9, <1>11, <1>12, <1>13, <1>14, <1>15, <1>16, <1>17 DEF ToolStep

LEMMA ToolKeepsEdit ==
  ASSUME TreeInv, NEW t \in Tools, ToolStep(t), UNCHANGED libVars, Settled, Edit(t)
  PROVE  Settled' /\ Edit(t)'
  <1>1. (tool'[t] = Idle \/ tool'[t].cmd = tool[t].cmd) /\ Idle.cmd = "none"
    <2>1. Idle.cmd = "none"
      BY DEF Idle
    <2> QED BY <2>1, ToolsGetOn DEF GetsOn
  <1>2. tool'[t].at \in {"score", "tune"} \/ (tool'[t].at = "list" /\ tool'[t].then = "score") => tool'[t].cmd = "score"
    <2>1. CASE tool'[t] = Idle
      BY <2>1 DEF Idle
    <2>2. CASE tool'[t].cmd = tool[t].cmd
      BY <2>2, ToolsDoNotEdit DEF Edit, Stage, At
    <2> QED BY <1>1, <2>1, <2>2
  <1>3. tool'[t].cmd \in {tool[t].cmd, "none"}
    BY <1>1
  <1> QED BY <1>2, <1>3, ToolsDoNotEdit, NotEditing DEF libVars

\* The edit is over, and the library is what was accepted.
LEMMA EditIsOver ==
  ASSUME NEW t, tool'[t] = Idle, AtAccepted' PROVE Edit(t)'
  <1>1. tool'[t].at = "idle" /\ tool'[t].cmd = "none"
    BY DEF Idle
  <1> QED BY <1>1 DEF Edit, Stage, Manifested, Templated, AtAccepted, At, Crops, Edits

\* The editor looks for its frame, plans, and gives up before it has written.
LEMMA RefusingKeepsEdit ==
  ASSUME TreeInv, NEW t \in Tools, Settled, Edit(t), Refuses(t)
  PROVE  Settled' /\ Edit(t)'
  <1>1. /\ tool[t].at \in {"tune", "readTemplate", "cutTemplate"} /\ tool'[t] = Idle
        /\ UNCHANGED <<manifest, templates, accepted>>
    BY ToolFields DEF Refuses, Leaves, Ends
  <1>2. AtAccepted'
    BY <1>1 DEF Edit, Manifested, Templated, AtAccepted, Edits, At
  <1>3. Settled'
    BY <1>1 DEF Settled, Loads
  <1> QED BY <1>1, <1>2, <1>3, EditIsOver

LEMMA PlanningKeepsEdit ==
  ASSUME TreeInv, EditShape, NEW t \in Tools, Settled, Edit(t), ScoreReads(t) \/ CropPlans(t) \/ TunePlans(t) \/ ReadTemplate(t)
  PROVE  Settled' /\ Edit(t)'
  <1>1. /\ DOMAIN tool = Tools /\ DOMAIN tool[t] = Fields /\ DOMAIN edit = Tools /\ DOMAIN edit[t] = EditFields
        /\ UNCHANGED <<manifest, templates, accepted>>
    BY ToolFields DEF EditShape, ScoreReads, CropPlans, TunePlans, ReadTemplate
  <1>2. ASSUME Ends(t), tool[t].at \notin Crops \cup Edits PROVE Settled' /\ Edit(t)'
    <2>1. tool'[t] = Idle
      BY <1>1, <1>2 DEF Ends
    <2>2. tool'[t].at = "idle" /\ tool'[t].cmd = "none"
      BY <2>1 DEF Idle
    <2> QED BY <1>1, <1>2, <2>2, NotEditing DEF Crops, Edits
  <1>3. CASE ScoreReads(t)
    <2>1. tool[t].at \in {"got", "score"} /\ tool[t].cmd = "score"
      BY <1>3 DEF ScoreReads, Edit, Stage, At
    <2>2. CASE Goes(t, "score") \/ Goes(t, "tune")
      <3>1. tool'[t].at \in {"score", "tune"} /\ tool'[t].cmd = "score"
        BY <1>1, <2>1, <2>2 DEF Goes, Fields
      <3> QED BY <1>1, <2>1, <3>1, NotEditing DEF Crops, Edits
    <2>3. CASE Leaves(t)
      BY <1>2, <2>1, <2>3 DEF Leaves, Crops, Edits
    <2>4. ASSUME NEW x \in tool[t].seen,
                 tool' = [tool EXCEPT ![t].seen = @ \ {x}, ![t].f = x[1], ![t].todo = Labels, ![t].then = "read",
                                      ![t].at = IF x[2] = Unsorted THEN "score" ELSE "find"]
          PROVE  Settled' /\ Edit(t)'
      <3>1. tool'[t].at \in {"score", "find"} /\ tool'[t].cmd = "score"
        BY <1>1, <2>1, <2>4 DEF Fields
      <3> QED BY <1>1, <2>1, <3>1, NotEditing DEF Crops, Edits
    <2> QED BY <1>3, <2>2, <2>3, <2>4 DEF ScoreReads
  <1>4. ASSUME tool[t].at \in {"got", "tune"} PROVE AtAccepted
    BY <1>4 DEF Edit, Manifested, Templated, AtAccepted, Edits, Crops, At
  <1>5. CASE CropPlans(t)
    <2>1. At(t, "got") /\ tool[t].cmd = "crop"
      BY <1>5 DEF CropPlans
    <2>2. ASSUME NEW a \in Anchors, NEW r \in Regions, Goes(t, "readTemplate"),
                 edit' = [edit EXCEPT ![t] = [NoEdit EXCEPT !.anchor = a, !.region = r, !.old = manifest,
                                                            !.new = {e \in manifest.of : e.id # a} \cup {Anchor(a, a, r, 0)}]]
          PROVE  Settled' /\ Edit(t)'
      <3>1. tool'[t].at = "readTemplate" /\ tool'[t].cmd = "crop" /\ tool'[t].f = tool[t].f
        BY <1>1, <2>1, <2>2 DEF Goes, Fields
      <3>2. /\ edit'[t].anchor = a /\ edit'[t].region = r /\ edit'[t].old = manifest
            /\ edit'[t].new = {e \in manifest.of : e.id # a} \cup {Anchor(a, a, r, 0)}
        <4> DEFINE new == {e \in manifest.of : e.id # a} \cup {Anchor(a, a, r, 0)}
        <4> HIDE DEF new
        <4>1. edit' = [edit EXCEPT ![t] = [NoEdit EXCEPT !.anchor = a, !.region = r, !.old = manifest, !.new = new]]
          BY <2>2 DEF new
        <4>2. edit'[t].anchor = a /\ edit'[t].region = r /\ edit'[t].old = manifest /\ edit'[t].new = new
          BY <1>1, <4>1 DEF NoEdit
        <4> QED BY <4>2 DEF new
      <3>3. AtAccepted
        BY <1>4, <2>1 DEF At
      <3>4. Planned(t)'
        BY <1>1, <3>1, <3>2, <3>3 DEF Planned, Edited, AtAccepted, At
      <3>5. Settled'
        BY <1>1 DEF Settled, Loads
      <3>6. Stage(t)'
        BY <3>1, <3>4 DEF Stage, At, Crops, Edits
      <3>7. Manifested(t)' /\ Templated(t)'
        BY <1>1, <3>1, <3>3 DEF Manifested, Templated, AtAccepted, Edits, At
      <3> QED BY <3>5, <3>6, <3>7 DEF Edit
    <2> QED BY <1>2, <1>5, <2>1, <2>2 DEF CropPlans, At, Crops, Edits
  <1>6. CASE TunePlans(t)
    <2>1. At(t, "tune") /\ tool[t].cmd = "score" /\ accepted.manifest.is = "whole"
      BY <1>6 DEF TunePlans, Edit, Stage, At
    <2>2. CASE Leaves(t)
      BY <1>2, <2>1, <2>2 DEF Leaves, At, Crops, Edits
    <2>3. CASE /\ edit' = [edit EXCEPT ![t].old = manifest,
                           ![t].new = {[e EXCEPT !.threshold = IF e.id \in edit[t].tune THEN 1 ELSE @] : e \in manifest.of}]
               /\ Goes(t, "cutManifest")
      <3>1. tool'[t].at = "cutManifest" /\ tool'[t].cmd = "score"
        BY <1>1, <2>1, <2>3 DEF Goes, Fields
      <3>2. /\ edit'[t].old = manifest /\ edit'[t].tune = edit[t].tune
            /\ edit'[t].new = {[e EXCEPT !.threshold = IF e.id \in edit[t].tune THEN 1 ELSE @] : e \in manifest.of}
        <4> DEFINE new == {[e EXCEPT !.threshold = IF e.id \in edit[t].tune THEN 1 ELSE @] : e \in manifest.of}
        <4> HIDE DEF new
        <4>1. edit' = [edit EXCEPT ![t].old = manifest, ![t].new = new]
          BY <2>3 DEF new
        <4>2. edit'[t].old = manifest /\ edit'[t].tune = edit[t].tune /\ edit'[t].new = new
          BY <1>1, <4>1 DEF EditFields
        <4> QED BY <4>2 DEF new
      <3>3. AtAccepted
        BY <1>4, <2>1 DEF At
      <3>4. accepted.manifest = File(accepted.manifest.of) /\ DOMAIN accepted = {"manifest", "templates"}
        BY <2>1 DEF Settled, NoFile
      <3> DEFINE X == {[e EXCEPT !.threshold = IF e.id \in edit[t].tune THEN 1 ELSE @] : e \in accepted.manifest.of}
                 B == [accepted EXCEPT !.manifest.of = X]
      <3>5. Edited(t)' = B
        BY <1>1, <3>1, <3>2 DEF Edited
      <3>6. B.manifest = File(X)
        <4> HIDE DEF X
        <4> QED BY <3>4, RetunedLibrary
      <3> HIDE DEF B
      <3>7. Planned(t)'
        BY <1>1, <3>1, <3>2, <3>3, <3>5, <3>6 DEF Planned, AtAccepted
      <3>8. Settled'
        BY <1>1 DEF Settled, Loads
      <3>9. Stage(t)'
        BY <1>1, <2>1, <3>1, <3>7 DEF Stage, At, Crops, Edits
      <3>10. Manifested(t)' /\ Templated(t)'
        BY <1>1, <3>1, <3>3 DEF Manifested, Templated, AtAccepted, Edits, At
      <3> QED BY <3>8, <3>9, <3>10 DEF Edit
    <2> QED BY <1>6, <2>2, <2>3 DEF TunePlans
  <1>7. CASE ReadTemplate(t)
    <2>1. /\ At(t, "readTemplate") /\ tool[t].cmd = "crop" /\ Planned(t)
          /\ tool'[t].at = "cutTemplate" /\ tool'[t].cmd = "crop" /\ tool'[t].f = tool[t].f
      BY <1>1, <1>7 DEF ReadTemplate, Goes, Fields, Edit, Stage, At, Crops
    <2>2. AtAccepted
      BY <2>1 DEF Edit, Manifested, Templated, AtAccepted, Edits, At
    <2>3. /\ edit'[t].oldTemplate = templates[edit[t].anchor] /\ edit'[t].anchor = edit[t].anchor /\ edit'[t].old = edit[t].old
          /\ edit'[t].new = edit[t].new /\ edit'[t].region = edit[t].region /\ edit'[t].tune = edit[t].tune
      BY <1>1, <1>7 DEF ReadTemplate, EditFields
    <2>4. Planned(t)'
      BY <1>1, <2>1, <2>2, <2>3 DEF Planned, Edited, AtAccepted, At
    <2>5. Settled'
      BY <1>1 DEF Settled, Loads
    <2>6. Stage(t)'
      BY <2>1, <2>4 DEF Stage, At, Crops, Edits
    <2>7. Manifested(t)' /\ Templated(t)'
      BY <1>1, <2>1, <2>2 DEF Manifested, Templated, AtAccepted, Edits, At
    <2> QED BY <2>5, <2>6, <2>7 DEF Edit
  <1> QED BY <1>3, <1>5, <1>6, <1>7

\* One write further on, with the plan in hand.
LEMMA StillPlanned ==
  ASSUME TreeInv, NEW t \in Tools, Settled, Edit(t), UNCHANGED <<edit, accepted>>, NEW p, Goes(t, p), p \in (Crops \cup Edits) \ {"readTemplate"},
         tool[t].at \in (Crops \cup Edits) \ {"readTemplate"}, p \in Crops => tool[t].cmd = "crop"
  PROVE  /\ Settled' /\ Stage(t)' /\ Planned(t)' /\ tool'[t].at = p /\ tool'[t].cmd = tool[t].cmd /\ tool'[t].f = tool[t].f
         /\ accepted.templates \in [Anchors -> Int] /\ tool[t].f \in Int /\ Torn(tool[t].f) \in Int
         /\ tool[t].cmd = "crop" => edit[t].anchor \in Anchors
         /\ Replaced(t, tool[t].f)' = Replaced(t, tool[t].f) /\ Replaced(t, Torn(tool[t].f))' = Replaced(t, Torn(tool[t].f))
         /\ accepted' = accepted /\ edit'[t] = edit[t]
  <1>1. DOMAIN tool = Tools /\ DOMAIN tool[t] = Fields /\ tool[t].f \in Int /\ Torn(tool[t].f) \in Int
    BY ToolFields DEF TreeInv, ToolTypes, Torn
  <1>2. tool'[t].at = p /\ tool'[t].cmd = tool[t].cmd /\ tool'[t].f = tool[t].f
    BY <1>1 DEF Goes, Fields
  <1>3. Planned(t)
    BY DEF Edit, Stage
  <1>4. Edited(t)' = Edited(t)
    BY <1>2 DEF Edited
  <1>5. Planned(t)'
    BY <1>2, <1>3, <1>4 DEF Planned, At
  <1>6. Settled'
    BY DEF Settled, Loads
  <1>7. Stage(t)'
    BY <1>2, <1>5 DEF Edit, Stage, At, Crops, Edits
  <1>8. Replaced(t, tool[t].f)' = Replaced(t, tool[t].f) /\ Replaced(t, Torn(tool[t].f))' = Replaced(t, Torn(tool[t].f))
    BY <1>2 DEF Replaced, Torn
  <1> QED BY <1>1, <1>2, <1>3, <1>5, <1>6, <1>7, <1>8 DEF Settled, Planned

\* A second write to the same template replaces the first.
LEMMA Rewritten ==
  ASSUME NEW t, NEW b, NEW c, accepted.templates \in [Anchors -> Int], edit[t].anchor \in Anchors
  PROVE  /\ [accepted.templates EXCEPT ![edit[t].anchor] = b] = Replaced(t, b)
         /\ [Replaced(t, b) EXCEPT ![edit[t].anchor] = c] = Replaced(t, c)
         /\ Replaced(t, accepted.templates[edit[t].anchor]) = accepted.templates
  BY DEF Replaced

LEMMA WritingKeepsEdit ==
  ASSUME TreeInv, NEW t \in Tools, Settled, Edit(t), WriteTemplate(t) \/ WriteManifestFile(t)
  PROVE  Settled' /\ Edit(t)'
  <1>1. CASE WriteTemplate(t)
    <2>1. PICK p \in {"putTemplate", "cutManifest", "undoTemplate"} :
             /\ Goes(t, p) /\ UNCHANGED <<edit, accepted, manifest>>
             /\ \/ p = "putTemplate" /\ At(t, "cutTemplate") /\ templates' = [templates EXCEPT ![edit[t].anchor] = Torn(tool[t].f)]
                \/ p = "cutManifest" /\ At(t, "putTemplate") /\ templates' = [templates EXCEPT ![edit[t].anchor] = tool[t].f]
                \/ p = "undoTemplate" /\ tool[t].at \in {"cutTemplate", "putTemplate"} /\ UNCHANGED templates
      BY <1>1 DEF WriteTemplate, Writes
    <2>2. tool[t].cmd = "crop" /\ edit[t].anchor \in Anchors /\ tool[t].at \in (Crops \cup Edits) \ {"readTemplate"}
      BY <2>1 DEF Edit, Stage, Planned, At, Crops
    <2>3. p \in (Crops \cup Edits) \ {"readTemplate"}
      BY <2>1 DEF Crops, Edits
    <2>4. /\ Settled' /\ Stage(t)' /\ tool'[t].at = p /\ tool'[t].cmd = "crop" /\ accepted.templates \in [Anchors -> Int]
          /\ Replaced(t, tool[t].f)' = Replaced(t, tool[t].f) /\ Replaced(t, Torn(tool[t].f))' = Replaced(t, Torn(tool[t].f))
          /\ tool'[t].f = tool[t].f
      BY <2>1, <2>2, <2>3, StillPlanned
    <2>5. Manifested(t)'
      <3>1. tool[t].at \in {"cutTemplate", "putTemplate"}
        BY <2>1 DEF At
      <3>2. manifest = accepted.manifest
        BY <3>1 DEF Edit, Manifested, At
      <3> QED BY <2>1, <2>4, <3>2 DEF Manifested, At
    <2>6. CASE p = "putTemplate"
      <3>1. templates = accepted.templates /\ templates' = [templates EXCEPT ![edit[t].anchor] = Torn(tool[t].f)]
        BY <2>1, <2>6 DEF Edit, Templated, At, Edits
      <3>2. templates' = Replaced(t, Torn(tool[t].f))
        BY <2>2, <2>4, <3>1, Rewritten
      <3>3. Templated(t)'
        BY <2>4, <2>6, <3>2 DEF Templated, At
      <3> QED BY <2>4, <2>5, <3>3 DEF Edit
    <2>7. CASE p = "cutManifest"
      <3>1. templates = Replaced(t, Torn(tool[t].f)) /\ templates' = [templates EXCEPT ![edit[t].anchor] = tool[t].f]
        BY <2>1, <2>7 DEF Edit, Templated, At
      <3>2. templates' = Replaced(t, tool[t].f)
        BY <2>2, <2>4, <3>1, Rewritten
      <3>3. Templated(t)'
        BY <2>4, <2>7, <3>2 DEF Templated, At, Edits
      <3> QED BY <2>4, <2>5, <3>3 DEF Edit
    <2>8. CASE p = "undoTemplate"
      <3>1. templates = Replaced(t, Torn(tool[t].f)) \/ templates = accepted.templates
        BY <2>1, <2>8 DEF Edit, Templated, At, Edits
      <3>2. \E b : templates = Replaced(t, b)
        BY <2>2, <2>4, <3>1, Rewritten
      <3>3. Templated(t)'
        BY <2>1, <2>4, <2>8, <3>2 DEF Templated, Replaced
      <3> QED BY <2>4, <2>5, <3>3 DEF Edit
    <2> QED BY <2>1, <2>6, <2>7, <2>8
  <1>2. CASE WriteManifestFile(t)
    <2>1. PICK p \in {"putManifest", "check", "undoManifest"} :
             /\ Goes(t, p) /\ UNCHANGED <<edit, accepted, templates>>
             /\ \/ p = "putManifest" /\ At(t, "cutManifest") /\ manifest' = CutFile
                \/ p = "check" /\ At(t, "putManifest") /\ manifest' = File(edit[t].new)
                \/ p = "undoManifest" /\ tool[t].at \in {"cutManifest", "putManifest"}
      BY <1>2 DEF WriteManifestFile, Writes
    <2>2. tool[t].at \in (Crops \cup Edits) \ {"readTemplate"} /\ p \in (Crops \cup Edits) \ {"readTemplate"} /\ p \notin Crops
          /\ tool[t].at \in Edits /\ p \in Edits
      BY <2>1 DEF At, Crops, Edits
    <2>3. /\ Settled' /\ Stage(t)' /\ tool'[t].at = p /\ tool'[t].cmd = tool[t].cmd
          /\ Replaced(t, tool[t].f)' = Replaced(t, tool[t].f) /\ tool'[t].f = tool[t].f
      BY <2>1, <2>2, StillPlanned
    <2>4. Manifested(t)'
      BY <2>1, <2>3 DEF Manifested, At
    <2>5. Templated(t)'
      <3>1. templates = IF tool[t].cmd = "crop" THEN Replaced(t, tool[t].f) ELSE accepted.templates
        BY <2>2 DEF Edit, Templated, At, Edits
      <3> QED BY <2>1, <2>2, <2>3, <3>1 DEF Templated, At, Edits
    <2> QED BY <2>3, <2>4, <2>5 DEF Edit
  <1> QED BY <1>1, <1>2

LEMMA CheckKeepsEdit ==
  ASSUME TreeInv, NEW t \in Tools, Settled, Edit(t), CheckLibrary(t)
  PROVE  Settled' /\ Edit(t)'
  <1>1. /\ At(t, "check") /\ UNCHANGED <<manifest, templates>> /\ Planned(t) /\ manifest = File(edit[t].new)
        /\ tool[t].cmd \in {"crop", "score"} /\ tool[t].f \in Int
        /\ tool[t].cmd = "crop" => templates = Replaced(t, tool[t].f)
        /\ tool[t].cmd = "score" => templates = accepted.templates /\ accepted.manifest.is = "whole"
    BY DEF CheckLibrary, Edit, Stage, Manifested, Templated, At, Edits, TreeInv, ToolTypes
  <1>2. CASE Loads(manifest, templates) /\ Leaves(t) /\ accepted' = Edited(t)
    <2>1. Leaves(t) /\ accepted' = Edited(t)
      BY <1>2
    <2>2. tool'[t] = Idle
      BY <2>1, ToolFields DEF Leaves, Ends
    <2>3. DOMAIN accepted' = {"manifest", "templates"} /\ accepted'.manifest = manifest /\ accepted'.templates = templates
      <3>1. accepted'.manifest = manifest
        BY <1>1, <2>1 DEF Planned
      <3>2. CASE tool[t].cmd = "crop"
        BY <1>1, <2>1, <3>1, <3>2 DEF Edited, Replaced
      <3>3. CASE tool[t].cmd = "score"
        <4> DEFINE X == {[e EXCEPT !.threshold = IF e.id \in edit[t].tune THEN 1 ELSE @] : e \in accepted.manifest.of}
                   B == [accepted EXCEPT !.manifest.of = X]
        <4>1. accepted' = B
          BY <2>1, <3>3 DEF Edited
        <4>2. accepted.manifest = File(accepted.manifest.of) /\ DOMAIN accepted = {"manifest", "templates"}
          BY <1>1, <3>3 DEF Settled, NoFile
        <4>3. DOMAIN B = {"manifest", "templates"} /\ B.templates = accepted.templates
          <5> HIDE DEF X
          <5> QED BY <4>2, RetunedLibrary
        <4> HIDE DEF B
        <4> QED BY <1>1, <3>1, <3>3, <4>1, <4>3
      <3> QED BY <1>1, <3>2, <3>3
    <2>4. AtAccepted'
      BY <1>1, <2>3 DEF AtAccepted
    <2>5. templates \in [Anchors -> Int]
      BY <1>1 DEF Settled, Replaced
    <2>6. manifest = File(manifest.of)
      BY <1>1, FileIsWhole
    <2>7. Settled'
      BY <1>1, <1>2, <2>3, <2>5, <2>6 DEF Settled, Loads
    <2> QED BY <2>2, <2>4, <2>7, EditIsOver
  <1>3. CASE Goes(t, "undoManifest") /\ UNCHANGED <<accepted, edit>>
    <2>1. Goes(t, "undoManifest") /\ UNCHANGED <<accepted, edit>>
      BY <1>3
    <2>2. /\ Settled' /\ Stage(t)' /\ tool'[t].at = "undoManifest" /\ tool'[t].cmd = tool[t].cmd
          /\ Replaced(t, tool[t].f)' = Replaced(t, tool[t].f) /\ tool'[t].f = tool[t].f
      BY <1>1, <2>1, StillPlanned DEF At, Crops, Edits
    <2>3. Manifested(t)' /\ Templated(t)'
      BY <1>1, <2>1, <2>2 DEF Manifested, Templated, At, Edits
    <2> QED BY <2>2, <2>3 DEF Edit
  <1> QED BY <1>2, <1>3 DEF CheckLibrary

LEMMA RestoringKeepsEdit ==
  ASSUME TreeInv, NEW t \in Tools, Settled, Edit(t), RestoreManifest(t) \/ RestoreTemplate(t)
  PROVE  Settled' /\ Edit(t)'
  <1>1. /\ tool[t].at \in {"undoManifest", "backManifest", "undoTemplate", "backTemplate"} /\ UNCHANGED accepted
        /\ tool[t].at \in (Crops \cup Edits) \ {"readTemplate"} /\ Planned(t) /\ tool[t].cmd \in {"crop", "score"}
        /\ tool[t].at \in {"undoTemplate", "backTemplate"} => tool[t].cmd = "crop"
        /\ DOMAIN tool = Tools
    BY ToolFields DEF RestoreManifest, RestoreTemplate, Edit, Stage, At, Crops, Edits
  <1>2. Settled' /\ accepted.templates \in [Anchors -> Int]
    BY <1>1 DEF Settled, Loads
  <1>3. ASSUME Leaves(t), AtAccepted' PROVE Settled' /\ Edit(t)'
    BY <1>1, <1>2, <1>3, EditIsOver DEF Leaves, Ends
  <1>4. CASE RestoreManifest(t)
    <2>1. UNCHANGED templates /\ tool[t].at \in Edits /\ edit[t].old = accepted.manifest
      BY <1>1, <1>4 DEF RestoreManifest, Planned, At, Edits
    <2>2. ASSUME AfterUndo(t), manifest' = accepted.manifest PROVE Settled' /\ Edit(t)'
      <3>1. CASE tool[t].cmd = "crop"
        <4>1. Goes(t, "undoTemplate") /\ UNCHANGED edit /\ templates = Replaced(t, tool[t].f)
          BY <2>1, <2>2, <3>1 DEF AfterUndo, Edit, Templated, At, Edits
        <4>2. /\ Stage(t)' /\ tool'[t].at = "undoTemplate" /\ tool'[t].cmd = tool[t].cmd
              /\ Replaced(t, tool[t].f)' = Replaced(t, tool[t].f) /\ tool'[t].f = tool[t].f
          BY <1>1, <3>1, <4>1, StillPlanned DEF Crops, Edits
        <4>3. Manifested(t)' /\ Templated(t)'
          <5>1. templates' = Replaced(t, tool[t].f)'
            BY <2>1, <4>1, <4>2
          <5> QED BY <1>1, <2>2, <4>2, <5>1 DEF Manifested, Templated, At
        <4> QED BY <1>2, <4>2, <4>3 DEF Edit
      <3>2. CASE tool[t].cmd # "crop"
        <4>1. templates = accepted.templates
          BY <2>1, <3>2 DEF Edit, Stage, Templated, At, Crops, Edits
        <4> QED BY <1>1, <1>3, <2>1, <2>2, <3>2, <4>1 DEF AfterUndo, AtAccepted
      <3> QED BY <3>1, <3>2
    <2>3. CASE manifest' = NoFile /\ edit[t].old.is = "absent" /\ AfterUndo(t)
      <3>1. accepted.manifest = NoFile
        BY <2>1, <2>3, FileIsWhole DEF Settled
      <3> QED BY <2>2, <2>3, <3>1
    <2>4. CASE manifest' = CutFile /\ Goes(t, "backManifest") /\ UNCHANGED edit
      <3>1. /\ Stage(t)' /\ tool'[t].at = "backManifest" /\ tool'[t].cmd = tool[t].cmd
            /\ Replaced(t, tool[t].f)' = Replaced(t, tool[t].f) /\ tool'[t].f = tool[t].f
        BY <1>1, <2>4, StillPlanned DEF Crops, Edits
      <3>2. Manifested(t)'
        BY <2>4, <3>1 DEF Manifested
      <3>3. Templated(t)'
        BY <1>1, <2>1, <3>1 DEF Edit, Templated, At, Edits
      <3> QED BY <1>2, <3>1, <3>2, <3>3 DEF Edit
    <2> QED BY <1>4, <2>1, <2>2, <2>3, <2>4 DEF RestoreManifest
  <1>5. CASE RestoreTemplate(t)
    <2>1. /\ UNCHANGED manifest /\ tool[t].at \in {"undoTemplate", "backTemplate"} /\ edit[t].anchor \in Anchors
          /\ edit[t].oldTemplate = accepted.templates[edit[t].anchor] /\ manifest = accepted.manifest
      BY <1>1, <1>5 DEF RestoreTemplate, Planned, Edit, Manifested, At
    <2>2. PICK b : templates = Replaced(t, b)
      BY <1>1, <2>1 DEF Edit, Templated
    <2>3. CASE Leaves(t) /\ templates' = [templates EXCEPT ![edit[t].anchor] = edit[t].oldTemplate]
      <3>1. templates' = accepted.templates
        <4>1. templates' = Replaced(t, edit[t].oldTemplate)
          BY <1>2, <2>1, <2>2, <2>3 DEF Replaced
        <4> QED BY <1>2, <2>1, <4>1, Rewritten
      <3> QED BY <1>1, <1>3, <2>1, <2>3, <3>1 DEF AtAccepted
    <2>4. CASE Goes(t, "backTemplate") /\ UNCHANGED edit /\ templates' = [templates EXCEPT ![edit[t].anchor] = Torn(tool[t].f)]
      <3>1. /\ Stage(t)' /\ tool'[t].at = "backTemplate" /\ tool'[t].cmd = tool[t].cmd
            /\ Replaced(t, Torn(tool[t].f))' = Replaced(t, Torn(tool[t].f)) /\ tool'[t].f = tool[t].f
        BY <1>1, <2>1, <2>4, StillPlanned DEF Crops, Edits
      <3>2. templates' = Replaced(t, Torn(tool[t].f))
        BY <1>2, <2>1, <2>2, <2>4 DEF Replaced
      <3>3. Manifested(t)' /\ Templated(t)'
        BY <1>1, <2>1, <3>1, <3>2 DEF Manifested, Templated, At
      <3> QED BY <1>2, <3>1, <3>3 DEF Edit
    <2> QED BY <1>5, <2>1, <2>3, <2>4 DEF RestoreTemplate, At
  <1> QED BY <1>4, <1>5

LEMMA WorkKeepsEdit ==
  ASSUME TreeInv, EditShape, NEW t \in Tools, Settled, Edit(t), (ToolStep(t) /\ UNCHANGED libVars) \/ (LibStep(t) /\ ~RestoreFails(t))
  PROVE  Settled' /\ Edit(t)'
  BY ToolKeepsEdit, PlanningKeepsEdit, RefusingKeepsEdit, WritingKeepsEdit, CheckKeepsEdit, RestoringKeepsEdit DEF LibStep

LEMMA EditShapeStays ==
  ASSUME EditShape, [Next]_vars
  PROVE  EditShape'
  <1>1. DOMAIN NoEdit = EditFields
    BY DEF NoEdit, EditFields
  <1>2. CASE UNCHANGED edit
    BY <1>2 DEF EditShape
  <1>3. ASSUME NEW t \in Tools, NEW r, DOMAIN r = EditFields, edit' = [edit EXCEPT ![t] = r] PROVE EditShape'
    BY <1>3 DEF EditShape
  <1>4. ASSUME NEW t \in Tools, Leaves(t) PROVE EditShape'
    BY <1>1, <1>3, <1>4 DEF Leaves
  <1>5. ASSUME NEW t \in Tools, NEW cmd, StartLib(t, cmd) PROVE EditShape'
    <2>1. CASE edit' = [edit EXCEPT ![t] = NoEdit]
      BY <1>1, <1>3, <2>1
    <2>2. ASSUME NEW tune, edit' = [edit EXCEPT ![t] = [NoEdit EXCEPT !.tune = tune]] PROVE EditShape'
      <3> DEFINE r == [NoEdit EXCEPT !.tune = tune]
      <3>1. DOMAIN r = EditFields
        BY <1>1
      <3>2. edit' = [edit EXCEPT ![t] = r]
        BY <2>2
      <3> HIDE DEF r
      <3> QED BY <1>3, <3>1, <3>2
    <2> QED BY <1>5, <2>1, <2>2 DEF StartLib
  <1>6. ASSUME NEW t \in Tools, LibStep(t) PROVE EditShape'
    <2>1. CASE CropPlans(t)
      <3>1. ASSUME NEW a, NEW r, NEW old, NEW new,
                   edit' = [edit EXCEPT ![t] = [NoEdit EXCEPT !.anchor = a, !.region = r, !.old = old, !.new = new]]
            PROVE  EditShape'
        <4> DEFINE e == [NoEdit EXCEPT !.anchor = a, !.region = r, !.old = old, !.new = new]
        <4>1. DOMAIN e = EditFields
          BY <1>1
        <4>2. edit' = [edit EXCEPT ![t] = e]
          BY <3>1
        <4> HIDE DEF e
        <4> QED BY <1>3, <4>1, <4>2
      <3>2. ASSUME NEW a, NEW r,
                   edit' = [edit EXCEPT ![t] = [NoEdit EXCEPT !.anchor = a, !.region = r, !.old = manifest,
                                                !.new = {e \in manifest.of : e.id # a} \cup {Anchor(a, a, r, 0)}]]
            PROVE  EditShape'
        BY <3>1, <3>2, Zenon
      <3> QED BY <1>2, <2>1, <3>2 DEF CropPlans
    <2>2. CASE TunePlans(t)
      <3>1. ASSUME NEW old, NEW new, edit' = [edit EXCEPT ![t].old = old, ![t].new = new] PROVE EditShape'
        BY <3>1 DEF EditShape
      <3> QED BY <1>4, <2>2, <3>1 DEF TunePlans
    <2>3. CASE ReadTemplate(t)
      BY <2>3 DEF ReadTemplate, EditShape
    <2>4. CASE WriteTemplate(t) \/ WriteManifestFile(t) \/ ScoreReads(t) \/ Refuses(t)
      BY <1>2, <1>4, <2>4 DEF WriteTemplate, WriteManifestFile, ScoreReads, Refuses, Writes
    <2>5. CASE CheckLibrary(t) \/ RestoreManifest(t) \/ RestoreTemplate(t) \/ RestoreFails(t)
      BY <1>2, <1>4, <2>5 DEF CheckLibrary, RestoreManifest, RestoreTemplate, RestoreFails, AfterUndo
    <2> QED BY <1>6, <2>1, <2>2, <2>3, <2>4, <2>5 DEF LibStep
  <1> QED BY <1>2, <1>5, <1>6 DEF Next, Begin, Work, Crash, Photograph, Git, libVars, vars

\* What could not be put back is never forgotten.
LEMMA SpoiltForGood ==
  ASSUME [Next]_vars PROVE spoilt => spoilt'
  <1>1. ASSUME NEW t \in Tools, LibStep(t) PROVE spoilt => spoilt'
    BY <1>1 DEF LibStep, ScoreReads, CropPlans, TunePlans, ReadTemplate, Refuses, WriteTemplate, WriteManifestFile,
                CheckLibrary, RestoreManifest, RestoreTemplate, RestoreFails, Writes
  <1>2. ASSUME NEW t \in Tools, NEW cmd, StartLib(t, cmd) PROVE spoilt => spoilt'
    BY <1>2 DEF StartLib
  <1> QED BY <1>1, <1>2 DEF Next, Begin, Work, Crash, Photograph, Git, libVars, vars

LEMMA LibInvNext ==
  ASSUME TreeInv, AloneInv, LibInv, [Next]_vars
  PROVE  LibInv'
  <1>1. EditShape' /\ (spoilt => spoilt')
    BY EditShapeStays, SpoiltForGood DEF LibInv
  <1>2. CASE UNCHANGED <<tool, libVars, benchVars>>
    <2>1. \A t \in Tools : Edit(t) => Edit(t)'
      BY <1>2 DEF Edit, Stage, Manifested, Templated, Planned, Edited, Replaced, At, libVars
    <2>2. (Settled => Settled') /\ (AtAccepted => AtAccepted') /\ (Alone' <=> Alone) /\ death' = death /\ spoilt' = spoilt
      BY <1>2 DEF Settled, AtAccepted, Loads, Alone, libVars, benchVars
    <2> QED BY <1>1, <1>2, <2>1, <2>2 DEF LibInv, At
  <1>3. ASSUME NEW t \in Tools, Begin(t) PROVE LibInv'
    <2>1. PICK cmd \in desk.commands : (Start(t, cmd) /\ UNCHANGED libVars) \/ StartLib(t, cmd)
      BY <1>3 DEF Begin
    <2>2. /\ UNCHANGED <<manifest, templates, accepted, desk, death>> /\ Cardinality(Busy) < desk.crowd
          /\ \A u \in Tools \ {t} : tool'[u] = tool[u]
      BY <1>3, <2>1, Begun DEF Begin, benchVars, StartLib, libVars
    <2>3. SUFFICES ASSUME Alone, death # "did", ~spoilt, ~spoilt'
                   PROVE  Settled' /\ Edit(t)' /\ tool'[t].at # "idle" /\ \A u \in Tools \ {t} : tool'[u].at = "idle"
      BY <1>1, <2>2 DEF LibInv, Alone, At
    <2>4. Settled /\ AtAccepted /\ \A u \in Tools : At(u, "idle")
      BY <2>2, <2>3, NobodyBusy DEF LibInv
    <2>5. /\ tool'[t].at \in {"draw", "readIndex", "list", "find"} /\ tool'[t].cmd = cmd
          /\ tool'[t].at = "list" => tool'[t].then = cmd
      BY <2>1, Begun
    <2>6. cmd = "score" => accepted.manifest.is = "whole"
      BY <2>1, <2>4 DEF Start, RunCorpus, StartLib, Loads, AtAccepted
    <2>7. Settled' /\ AtAccepted'
      BY <2>2, <2>4 DEF Settled, AtAccepted, Loads
    <2>8. Stage(t)'
      BY <2>2, <2>5, <2>6 DEF Stage, At, Crops, Edits
    <2>9. Manifested(t)' /\ Templated(t)'
      BY <2>5, <2>7 DEF Manifested, Templated, AtAccepted, Edits, At
    <2> QED BY <2>2, <2>4, <2>5, <2>7, <2>8, <2>9 DEF Edit, At
  <1>4. ASSUME NEW t \in Tools, Work(t) PROVE LibInv'
    <2>1. ((ToolStep(t) /\ UNCHANGED libVars) \/ LibStep(t)) /\ UNCHANGED <<desk, death>>
      BY <1>4 DEF Work, benchVars
    <2>2. SUFFICES ASSUME Alone, death # "did", ~spoilt, ~spoilt'
                   PROVE  Settled' /\ Edit(t)' /\ \A u \in Tools \ {t} : tool'[u].at = "idle"
      <3>1. Edit(t)' /\ tool'[t].at = "idle" => AtAccepted'
        BY DEF Edit, Manifested, Templated, AtAccepted, Edits, At
      <3> QED BY <1>1, <2>1, <3>1 DEF LibInv, Alone, At
    <2>3. ~At(t, "idle")
      BY <2>1, AtWork
    <2>4. Settled' /\ Edit(t)'
      BY <2>1, <2>2, <2>3, WorkKeepsEdit DEF LibInv, RestoreFails
    <2>5. \A u \in Tools \ {t} : tool'[u].at = "idle"
      BY <2>1, <2>2, WorkLeavesOneAtRest, OthersStay DEF benchVars, SameCourse, At
    <2> QED BY <2>4, <2>5
  <1>5. ASSUME NEW t \in Tools, Crash(t) PROVE LibInv'
    BY <1>1, <1>5 DEF Crash, LibInv
  <1>6. CASE Photograph \/ Git \/ UNCHANGED vars
    BY <1>2, <1>6 DEF Photograph, Git, Commit, vars
  <1> QED BY <1>3, <1>4, <1>5, <1>6 DEF Next

LEMMA SharedLoads ==
  /\ DOMAIN Shared = {"manifest", "templates"} /\ Shared.manifest = File(Shared.manifest.of)
  /\ Shared.templates \in [Anchors -> Int] /\ Loads(Shared.manifest, Shared.templates)
  <1> DEFINE a == CHOOSE x \in Anchors : TRUE
             r == CHOOSE f \in [Anchors -> Regions] : \A x, y \in Anchors : x # y => f[x] # f[y]
             g == CHOOSE f \in Frames : TRUE
             S == {Anchor(x, a, r[x], 0) : x \in Anchors}
             T == [x \in Anchors |-> IF x = a THEN g ELSE 0]
  <1>1. Shared = [manifest |-> File(S), templates |-> T]
    BY DEF Shared
  <1>2. g \in Frames /\ g \in Int /\ g > 0
    <2>1. \E f \in Frames : TRUE
      BY ManifestAssumption
    <2>2. g \in Frames
      BY <2>1, Zenon
    <2> HIDE DEF g
    <2> QED BY <2>2, BytesAssumption
  <1>3. \A x, y \in Anchors : x # y => r[x] # r[y]
    BY ManifestAssumption
  <1>4. \A x \in Anchors : a \in Anchors
    OBVIOUS
  <1> HIDE DEF a, r, g
  <1>5. T \in [Anchors -> Int]
    BY <1>2
  <1>6. \A e \in S : Whole(T[e.template])
    BY <1>2, <1>4 DEF Anchor, Whole
  <1>7. \A d, e \in S : d.template = e.template /\ d.region = e.region => d = e
    <2> SUFFICES ASSUME NEW x \in Anchors, NEW y \in Anchors, Anchor(x, a, r[x], 0).region = Anchor(y, a, r[y], 0).region
                 PROVE  x = y
      OBVIOUS
    <2> QED BY <1>3 DEF Anchor
  <1> HIDE DEF S, T
  <1>8. Shared.manifest = File(S) /\ Shared.templates = T /\ DOMAIN Shared = {"manifest", "templates"}
    BY <1>1
  <1> QED BY <1>5, <1>6, <1>7, <1>8, FileIsWhole DEF Loads

LEMMA LibInvInit == Init => LibInv
  <1> SUFFICES ASSUME Init PROVE LibInv
    OBVIOUS
  <1>1. /\ tool = [t \in Tools |-> Idle] /\ edit = [t \in Tools |-> NoEdit]
        /\ accepted \in {[manifest |-> NoFile, templates |-> [x \in Anchors |-> 0]], Shared} /\ AtAccepted
    BY DEF Init, CorpusInit, LibInit, AtAccepted
  <1>2. EditShape
    BY <1>1 DEF EditShape, EditFields, NoEdit
  <1>3. Settled
    <2>1. CASE accepted = [manifest |-> NoFile, templates |-> [x \in Anchors |-> 0]]
      BY <2>1 DEF Settled, NoFile
    <2>2. CASE accepted = Shared
      BY <2>2, SharedLoads DEF Settled
    <2> QED BY <1>1, <2>1, <2>2
  <1>4. \A t \in Tools : At(t, "idle")
    BY <1>1, IdleIsGood DEF At
  <1> QED BY <1>1, <1>2, <1>3, <1>4 DEF LibInv

\* With one editor at a time and none killed, whichever writes fail as long as
\* what is put back can be, an edit that is rejected leaves no trace, one that
\* is accepted takes nobody's place, and the library loads: for every set of
\* anchors, regions and frames.
THEOREM AcceptedEditsAllStand == Spec => []AcceptedEditsStand
  <1>1. TreeInv /\ TreeInv' /\ AloneInv /\ [Next]_vars => AloneInv'
    BY AloneInvNext
  <1>2. TreeInv /\ AloneInv /\ LibInv /\ [Next]_vars => LibInv'
    BY LibInvNext
  <1>3. LibInv => AcceptedEditsStand
    <2> SUFFICES ASSUME LibInv, Alone, death # "did", ~spoilt, Busy = {}
                 PROVE  /\ manifest = accepted.manifest /\ templates = accepted.templates
                        /\ manifest.is = "absent" \/ Loads(manifest, templates)
      BY DEF AcceptedEditsStand
    <2>1. Settled /\ AtAccepted
      BY DEF LibInv, Busy, At
    <2> QED BY <2>1 DEF Settled, AtAccepted
  <1>4. Init => AloneInv /\ LibInv
    BY AloneInvInit, LibInvInit
  <1> QED BY <1>1, <1>2, <1>3, <1>4, TreeInvAlways, PTL DEF Spec

=============================================================================
