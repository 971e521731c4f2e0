----------------------------- MODULE BlobStore ------------------------------
(***************************************************************************)
(* The content-addressed object store (internal/blob) behind screenshots   *)
(* and corpus. Contents are numbers: f in Frames is a whole PNG, -f the    *)
(* same file cut short by a write that did not finish, 0 is no file.       *)
(* SHA-256 tells all of them apart, so a content stands for its own digest *)
(* and the key built from it.                                              *)
(***************************************************************************)
EXTENDS Integers

CONSTANT Frames

ASSUME BytesAssumption == Frames \subseteq Nat \ {0}

VARIABLE blobs      \* key -> the bytes stored there

Torn(f) == -f
Bytes == Frames \cup {Torn(f) : f \in Frames}
Whole(b) == b > 0       \* png.Decode succeeds

Sum(data) == data
Key(sum) == sum

BlobsInit == blobs = [k \in Bytes |-> 0]

Exists(key) == blobs[key] # 0

(* GetContent: the object is there and hashes to the digest asked for. *)
Verified(key, want) == Exists(key) /\ Sum(blobs[key]) = want

(* A Put that writes the object in place. *)
PutInPlace(data, ok) ==
    \/ ok /\ blobs' = [blobs EXCEPT ![Key(Sum(data))] = data]
    \/ ~ok /\ blobs' = [blobs EXCEPT ![Key(Sum(data))] = IF data > 0 THEN Torn(data) ELSE data]

(* The directory writes a temporary file and renames it: all or nothing if *)
(* the process dies or a write fails. Nothing is synced to the disk, so a  *)
(* loss of power is not what this promises about.                          *)
Stored(data) == blobs' = [blobs EXCEPT ![Key(Sum(data))] = data]
PutFile(data, ok) == IF ok THEN Stored(data) ELSE UNCHANGED blobs

(* The bucket shows an object when its upload is complete; the answer may  *)
(* be lost after that.                                                     *)
PutObject(data, ok) == Stored(data) \/ (~ok /\ UNCHANGED blobs)

(* Which of the two the agent was started with is configuration. *)
Put(data, ok) == PutFile(data, ok) \/ PutObject(data, ok)

=============================================================================
