--------------------------- MODULE CaptureService ---------------------------
(***************************************************************************)
(* capture.Service and the rows it writes. A camera is one goroutine that  *)
(* photographs: Capture opens a transport of its own, a task's StoreFrame  *)
(* and Capture hand Record a frame they hold, and at the end of a run      *)
(* RecordCapture files what it kept. Cameras share the blob store and the  *)
(* database; every call may fail, and a camera may die between any two.    *)
(***************************************************************************)
EXTENDS BlobStore, Sequences

CONSTANTS Cameras, MaxShots

ASSUME CamerasAssumption == MaxShots \in Nat

VARIABLES
    shots,      \* screenshots rows: id -> object key
    captures,   \* captures rows, each the set of its frames' screenshot ids
    device,     \* devices row: the recorded resolution, and the real one
    enabled,    \* accounts.enabled
    cam         \* camera -> where it is and what it holds

camVars == <<shots, captures, device, enabled, cam>>

Off == [at |-> "off", frame |-> 0, recorded |-> 0, kept |-> {}, task |-> FALSE]

CamInit ==
    /\ shots = << >> /\ captures = {}
    /\ device = [recorded |-> 1, real |-> 1]
    /\ enabled = TRUE
    /\ cam = [c \in Cameras |-> Off]

Step(c, at) == cam' = [cam EXCEPT ![c].at = at]

(* Capture refuses a disabled account before it touches the device. *)
CaptureTargetByAccount(c) ==
    /\ cam[c].at = "off" /\ enabled /\ Len(shots) < MaxShots
    /\ cam' = [cam EXCEPT ![c] = [Off EXCEPT !.at = "open", !.recorded = device.recorded]]
    /\ UNCHANGED <<blobs, shots, captures, device, enabled>>

(* The transport tells the real size; a device resized since gets its row  *)
(* brought up to date before the screenshot.                               *)
UpsertDevice(c) ==
    /\ cam[c].at = "open" /\ cam' = [cam EXCEPT ![c].at = "shoot", ![c].recorded = 0]
    /\ device' = IF device.real = cam[c].recorded THEN device ELSE [device EXCEPT !.recorded = device.real]
    /\ UNCHANGED <<blobs, shots, captures, enabled>>

(* A task begins with a frame it verified; it may store several. *)
StartTask(c) ==
    /\ cam[c].at = "off" /\ enabled /\ Len(shots) < MaxShots
    /\ cam' = [cam EXCEPT ![c] = [Off EXCEPT !.at = "shoot", !.task = TRUE]]
    /\ UNCHANGED <<blobs, shots, captures, device, enabled>>

Screenshot(c) ==
    /\ cam[c].at = "shoot"
    /\ \E f \in Frames : cam' = [cam EXCEPT ![c].at = "exists", ![c].frame = f]
    /\ UNCHANGED <<blobs, shots, captures, device, enabled>>

(* A Record that writes the row first. *)
InsertFirst(c) ==
    /\ cam[c].at = "exists"
    /\ Step(c, "insert")
    /\ UNCHANGED <<blobs, shots, captures, device, enabled>>

(* Record, from PutContent on: its own look before is for the report only. *)
PutContent(c) ==
    /\ cam[c].at = "exists"
    /\ Step(c, IF Exists(Key(Sum(cam[c].frame))) THEN "insert" ELSE "put")
    /\ UNCHANGED <<blobs, shots, captures, device, enabled>>

PutFrame(c) ==
    /\ cam[c].at = "put"
    /\ \/ Put(cam[c].frame, TRUE) /\ Step(c, "insert")
       \/ Put(cam[c].frame, FALSE) /\ cam' = [cam EXCEPT ![c] = Off]
    /\ UNCHANGED <<shots, captures, device, enabled>>

(* InsertScreenshot always inserts: every capture is its own observation. *)
InsertScreenshot(c) ==
    /\ cam[c].at = "insert" /\ Len(shots) < MaxShots
    /\ shots' = Append(shots, Key(Sum(cam[c].frame)))
    /\ cam' = [cam EXCEPT ![c] = IF cam[c].task
                                 THEN [cam[c] EXCEPT !.at = "stored", !.frame = 0, !.kept = cam[c].kept \cup {Len(shots) + 1}]
                                 ELSE Off]
    /\ UNCHANGED <<blobs, captures, device, enabled>>

StoreAnother(c) ==
    /\ cam[c].at = "stored" /\ Step(c, "shoot")
    /\ UNCHANGED <<blobs, shots, captures, device, enabled>>

(* One transaction files the capture with all of its frames. *)
RecordCapture(c) ==
    /\ cam[c].at = "stored"
    /\ captures' = captures \cup {cam[c].kept}
    /\ cam' = [cam EXCEPT ![c] = Off]
    /\ UNCHANGED <<blobs, shots, device, enabled>>

(* Any call returns an error, or the process dies. *)
GiveUp(c) ==
    /\ cam[c].at # "off"
    /\ cam' = [cam EXCEPT ![c] = Off]
    /\ UNCHANGED <<blobs, shots, captures, device, enabled>>

(* The operator disables the account, or the emulator is resized. *)
Operator ==
    /\ enabled /\ device.real = 1
    /\ \/ enabled' = FALSE /\ UNCHANGED device
       \/ device' = [device EXCEPT !.real = 2] /\ UNCHANGED enabled
    /\ UNCHANGED <<blobs, shots, captures, cam>>

CamStep(c) ==
    \/ CaptureTargetByAccount(c) \/ UpsertDevice(c) \/ StartTask(c) \/ Screenshot(c) \/ PutContent(c)
    \/ PutFrame(c) \/ InsertScreenshot(c) \/ StoreAnother(c) \/ RecordCapture(c) \/ GiveUp(c)

-----------------------------------------------------------------------------
(* Readers go from the row to the key to the pixels; nobody hashes them     *)
(* again. A reviewer is shown the rows of a filed capture's frames.        *)
ScreenshotObjectKey(id) == shots[id]
LoadFrame(id) == Exists(ScreenshotObjectKey(id)) /\ Whole(blobs[ScreenshotObjectKey(id)])
ReviewCrop(capture) == \A id \in capture : id \in DOMAIN shots /\ LoadFrame(id)

(* ScreenshotsHaveTheirFrame: what lies at a key is the very content that  *)
(* key was computed from, whoever wrote it and whatever failed on the way  *)
(* (fs.go:49-51: a truncated object would fail its check for ever), and    *)
(* every screenshots row, so every frame of a filed capture that ingest or *)
(* a reviewer will open, leads to a whole PNG: no crash, failed put or     *)
(* second camera leaves a row without its pixels.                          *)
ScreenshotsHaveTheirFrame ==
    /\ \A k \in Bytes : Exists(k) => Sum(blobs[k]) = k
    /\ \A id \in DOMAIN shots : LoadFrame(id)
    /\ \A k \in captures : ReviewCrop(k)

=============================================================================
