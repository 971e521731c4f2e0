------------------------------- MODULE Corpus -------------------------------
(***************************************************************************)
(* The corpus: a directory of labelled frames, the index of their stamps   *)
(* that is committed to git, and the tools that work on both - agent       *)
(* record, the studio's capture and label handlers, agent corpus index,    *)
(* push and pull. The studio serves requests concurrently and the commands *)
(* run beside it: nothing is locked. A step is one file system or store    *)
(* call; os.WriteFile is two, one that truncates and one that writes.      *)
(***************************************************************************)
EXTENDS BlobStore, Sequences

CONSTANTS
    Tools,          \* goroutines and processes that may be at work
    Labels,         \* the label directories, in the order Labels() sorts them
    Unsorted,       \* the label of what is not labelled yet
    SessionMax      \* reads of one recording session, at most

NoLabel == "none"
LabelSet == {Labels[i] : i \in DOMAIN Labels}

ASSUME CorpusAssumption ==
    /\ Labels \in Seq(LabelSet) /\ Labels # << >>
    /\ Unsorted \in LabelSet /\ NoLabel \notin LabelSet
    /\ SessionMax \in Nat \ {0}

VARIABLES
    tree,       \* site -> label -> frame -> the bytes of label/frame.png
    index,      \* site -> index.yaml: whether it is cut short, and its entries
    tool,       \* tool -> the command it runs and what it holds
    pulled,     \* what the clone's last pull reported
    cutShort    \* <<site, frame>> whose write a death or a failure cut short

files == <<tree, index, pulled, cutShort, blobs>>

Sites == {"desk", "clone"}
Blank == [cut |-> FALSE, of |-> {}]

Idle == [cmd |-> "none", at |-> "idle", then |-> "idle", f |-> 0, to |-> NoLabel, fd |-> NoLabel,
         found |-> NoLabel, todo |-> << >>, seen |-> {}, prev |-> {}, metas |-> {}, left |-> 0]

Site(t) == IF tool[t].cmd = "pull" THEN "clone" ELSE "desk"
Busy == {t \in Tools : tool[t].at # "idle"}

NoFrames == [s \in Sites |-> [l \in LabelSet |-> [f \in Frames |-> 0]]]

CorpusInit(found) ==
    /\ tree = found
    /\ index = [s \in Sites |-> Blank]
    /\ tool = [t \in Tools |-> Idle]
    /\ pulled = "no"
    /\ cutShort = {x \in Sites \X Frames : \E l \in LabelSet : found[x[1]][l][x[2]] \notin {0, x[2]}}

At(t, place) == tool[t].at = place
Goes(t, place) == tool' = [tool EXCEPT ![t].at = place]
Ends(t) == tool' = [tool EXCEPT ![t] = Idle]
Seeks(t, f, then) == tool' = [tool EXCEPT ![t].at = "find", ![t].f = f, ![t].todo = Labels, ![t].then = then]
Lists(t, then) == tool' = [tool EXCEPT ![t].at = "list", ![t].todo = Labels, ![t].then = then]

-----------------------------------------------------------------------------
(* Find: one stat per label directory, first hit wins. *)
Find(t) ==
    /\ At(t, "find")
    /\ LET l == Head(tool[t].todo)
           hit == tree[Site(t)][l][tool[t].f] # 0
           last == Len(tool[t].todo) = 1
       IN tool' = [tool EXCEPT ![t].todo = IF hit \/ last THEN << >> ELSE Tail(@),
                               ![t].at = IF hit \/ last THEN tool[t].then ELSE @,
                               ![t].found = IF hit THEN l ELSE NoLabel]
    /\ UNCHANGED files

(* All: one directory after another; what moves meanwhile is seen twice or *)
(* not at all.                                                             *)
All(t) ==
    /\ At(t, "list")
    /\ LET l == Head(tool[t].todo)
           last == Len(tool[t].todo) = 1
       IN tool' = [tool EXCEPT ![t].seen = @ \cup {<<f, l>> : f \in {g \in Frames : tree[Site(t)][l][g] # 0}},
                               ![t].todo = Tail(@), ![t].at = IF last THEN tool[t].then ELSE @]
    /\ UNCHANGED files

(* foldMeta: the studio stamps what it captured in the index, at once. *)
FoldMeta(t) == tool' = [tool EXCEPT ![t].at = "readIndex", ![t].metas = {tool[t].f}]

(* Where a command goes on when its Add has returned. A recapture is       *)
(* stamped by nobody; the studio does not even touch the index for it.     *)
AfterAdd(t, added) ==
    \/ /\ tool[t].cmd = "record"
       /\ tool' = [tool EXCEPT ![t].at = IF tool[t].left = 1 THEN "readIndex" ELSE "draw", ![t].left = @ - 1,
                               ![t].metas = IF added THEN @ \cup {tool[t].f} ELSE @]
    \/ tool[t].cmd = "capture" /\ (IF added THEN FoldMeta(t) ELSE Ends(t))
    \/ tool[t].cmd = "pull" /\ Goes(t, "entries")

(* Add, after its Find: the same bytes are kept once, whatever their label. *)
AddFinds(t) ==
    /\ At(t, "add") /\ tool[t].found # NoLabel
    /\ AfterAdd(t, FALSE)
    /\ UNCHANGED files

(* os.WriteFile opens the file, which cuts it, and writes. *)
Opens(t) ==
    /\ tree' = [tree EXCEPT ![Site(t)][tool[t].to][tool[t].f] = Torn(tool[t].f)]
    /\ tool' = [tool EXCEPT ![t].at = "write", ![t].fd = tool[t].to]
    /\ UNCHANGED <<index, pulled, cutShort, blobs>>

(* An Add that does not look for the bytes first. *)
AddAnyway(t) == At(t, "add") /\ Opens(t)

AddTruncates(t) == At(t, "add") /\ tool[t].found = NoLabel /\ Opens(t)

(* The writer holds the open file: a rename took it along (Rename), and a  *)
(* file replaced under it is written to nobody's use.                      *)
AddWrites(t) ==
    /\ At(t, "write")
    /\ tree' = IF tool[t].fd = NoLabel THEN tree
               ELSE [tree EXCEPT ![Site(t)][tool[t].fd][tool[t].f] = tool[t].f]
    /\ AfterAdd(t, TRUE)
    /\ UNCHANGED <<index, pulled, cutShort, blobs>>

(* An Add that fails - no room, no right to write, a directory that cannot *)
(* be looked into - leaves what it had written. A recording session ends,  *)
(* but what it took before is indexed; capture and pull only report it.    *)
AddFails(t) ==
    /\ tool[t].at \in {"add", "write"}
    /\ cutShort' = IF At(t, "write") THEN cutShort \cup {<<Site(t), tool[t].f>>} ELSE cutShort
    /\ IF tool[t].cmd = "record" /\ tool[t].left < SessionMax THEN Goes(t, "readIndex") ELSE Ends(t)
    /\ UNCHANGED <<tree, index, pulled, blobs>>

-----------------------------------------------------------------------------
(* A recording session reads up to SessionMax frames, one "capture now"    *)
(* reads one. A session may be stopped, or its source fail, at any read;   *)
(* what it has is indexed all the same, unless its very first read failed. *)
Sits(t, cmd, reads) ==
    tool' = [tool EXCEPT ![t].cmd = cmd, ![t].at = "draw", ![t].to = Unsorted, ![t].left = reads]

HandleCapture(t) == Sits(t, "capture", 1)

HandleLabel(t) ==
    \E f \in Frames, l \in LabelSet :
        tool' = [tool EXCEPT ![t] = [Idle EXCEPT !.cmd = "label", !.to = l, !.at = "find", !.f = f,
                                                 !.todo = Labels, !.then = "rename"]]

RunCorpus(t, cmd) ==
    \/ cmd \in {"index", "pull"} /\ tool' = [tool EXCEPT ![t].cmd = cmd, ![t].at = "readIndex"]
    \/ cmd = "push" /\ tool' = [tool EXCEPT ![t].cmd = cmd, ![t].at = "list", ![t].todo = Labels, ![t].then = "push"]

Start(t, cmd) ==
    /\ At(t, "idle")
    /\ \/ cmd = "record" /\ Sits(t, cmd, SessionMax)
       \/ cmd = "capture" /\ HandleCapture(t)
       \/ cmd = "label" /\ HandleLabel(t)
       \/ RunCorpus(t, cmd)
    /\ UNCHANGED files

Draw(t) ==
    /\ At(t, "draw")
    /\ \/ \E f \in Frames : Seeks(t, f, "add")
       \/ tool[t].cmd = "record" /\ Goes(t, "readIndex")
       \/ (tool[t].cmd = "capture" \/ tool[t].left = SessionMax) /\ Ends(t)
    /\ UNCHANGED files

(* Relabel, after its Find: a rename is one step, and fails when another   *)
(* tool moved the file meanwhile.                                          *)
Moves(t) ==
    LET f == tool[t].f  old == tool[t].found  new == tool[t].to
        followed(l) == IF l = old THEN new ELSE IF l = new THEN NoLabel ELSE l
    IN
    /\ tree' = [tree EXCEPT !["desk"][new][f] = tree["desk"][old][f], !["desk"][old][f] = 0]
    /\ tool' = [u \in Tools |->
           IF u = t THEN Idle
           ELSE IF At(u, "write") /\ Site(u) = "desk" /\ tool[u].f = f
           THEN [tool[u] EXCEPT !.fd = followed(tool[u].fd)]
           ELSE tool[u]]

(* A Relabel that copies and deletes, and does not notice that the frame   *)
(* is where it should be.                                                  *)
MovesOntoItself(t) == tool[t].found # NoLabel /\ tree["desk"][tool[t].found][tool[t].f] # 0

MustMove(t) == tool[t].found \notin {NoLabel, tool[t].to} /\ tree["desk"][tool[t].found][tool[t].f] # 0

Rename(t) ==
    /\ At(t, "rename")
    /\ IF MustMove(t) THEN Moves(t) ELSE Ends(t) /\ UNCHANGED tree
    /\ UNCHANGED <<index, pulled, cutShort, blobs>>

-----------------------------------------------------------------------------
(* The index: read, list the tree, write what Reindex makes of both. A     *)
(* file cut short parses as an empty index or not at all.                  *)
ReadIndex(t) ==
    /\ At(t, "readIndex")
    /\ \/ tool' = [tool EXCEPT ![t].prev = index[Site(t)].of, ![t].todo = Labels, ![t].then = "cutIndex",
                               ![t].at = IF tool[t].cmd = "pull" THEN "entries" ELSE "list"]
       \/ index[Site(t)].cut /\ Ends(t)
    /\ UNCHANGED files

Duplicates(seen) == {x \in seen : \E y \in seen : x[1] = y[1] /\ x[2] # y[2]}

(* A Reindex that forgets what was known before this session. *)
ReindexAfresh(prev, seen, metas) ==
    {[hash |-> x[1], label |-> x[2], stamped |-> x[1] \in metas] : x \in seen}

(* Labels come from the tree; stamps from this session, else from before. *)
Reindex(prev, seen, metas) ==
    {[hash |-> x[1], label |-> x[2],
      stamped |-> x[1] \in metas \/ \E e \in prev : e.hash = x[1] /\ e.stamped] : x \in seen}

(* agent corpus index refuses a tree with duplicates; record and the       *)
(* studio write their stamps first.                                        *)
IndexTruncates(t) ==
    /\ At(t, "cutIndex")
    /\ IF tool[t].cmd = "index" /\ Duplicates(tool[t].seen) # {}
       THEN Ends(t) /\ UNCHANGED index
       ELSE Goes(t, "writeIndex") /\ index' = [index EXCEPT !["desk"] = [cut |-> TRUE, of |-> {}]]
    /\ UNCHANGED <<tree, pulled, cutShort, blobs>>

(* Over what another writer put there since, the bytes may mix. *)
IndexWrites(t) ==
    /\ At(t, "writeIndex")
    /\ \E garbled \in IF index["desk"].cut THEN {FALSE} ELSE BOOLEAN :
          index' = [index EXCEPT !["desk"] = [cut |-> garbled, of |-> IF garbled THEN {} ELSE Reindex(tool[t].prev, tool[t].seen, tool[t].metas)]]
    /\ Ends(t)
    /\ UNCHANGED <<tree, pulled, cutShort, blobs>>

-----------------------------------------------------------------------------
(* Push: for every frame listed, Exists under its name, then Read - a Find *)
(* and a ReadFile - and PutContent, which goes by what it was given.       *)
PushNext(t) ==
    /\ At(t, "push")
    /\ \/ tool[t].seen = {} /\ Ends(t)
       \/ \E x \in tool[t].seen :
            tool' = [tool EXCEPT ![t].seen = @ \ {x}, ![t].f = x[1], ![t].todo = Labels, ![t].then = "read",
                                 ![t].at = IF Exists(Key(x[1])) THEN "push" ELSE "find"]
    /\ UNCHANGED files

Read(t) ==
    /\ At(t, "read")
    /\ LET bytes == IF tool[t].found = NoLabel THEN 0 ELSE tree["desk"][tool[t].found][tool[t].f] IN
       IF bytes = 0 THEN Ends(t) ELSE tool' = [tool EXCEPT ![t].f = bytes, ![t].at = "got"]
    /\ UNCHANGED files

PushPuts(t) ==
    /\ At(t, "got") /\ tool[t].cmd = "push"
    /\ \/ Exists(Key(Sum(tool[t].f))) /\ UNCHANGED blobs /\ Goes(t, "push")
       \/ ~Exists(Key(Sum(tool[t].f))) /\ Put(tool[t].f, TRUE) /\ Goes(t, "push")
       \/ ~Exists(Key(Sum(tool[t].f))) /\ Put(tool[t].f, FALSE) /\ Ends(t)
    /\ UNCHANGED <<tree, index, pulled, cutShort>>

(* git: the index is committed at the desk and checked out at the clone. *)
Commit ==
    /\ ~index["desk"].cut /\ \A t \in Tools : Site(t) # "clone"
    /\ index["clone"] = Blank
    /\ index' = [index EXCEPT !["clone"] = index["desk"]]
    /\ pulled' = "no"
    /\ UNCHANGED <<tree, tool, cutShort, blobs>>

(* Pull: for every entry, Find in the clone, else GetContent, which checks *)
(* the digest, and Add under the entry's label. A frame nobody pushed ends *)
(* the pull.                                                               *)
PullNext(t) ==
    /\ At(t, "entries")
    /\ \/ tool[t].prev = {} /\ pulled' = "ok" /\ Ends(t)
       \/ /\ UNCHANGED pulled
          /\ \E e \in tool[t].prev :
               tool' = [tool EXCEPT ![t].prev = @ \ {e}, ![t].f = e.hash, ![t].to = e.label,
                                    ![t].at = "find", ![t].todo = Labels, ![t].then = "fetch"]
    /\ UNCHANGED <<tree, index, cutShort, blobs>>

(* A Pull that goes on without the frames nobody pushed. *)
FetchLeniently(t) ==
    /\ At(t, "fetch")
    /\ IF tool[t].found = NoLabel /\ Verified(Key(tool[t].f), tool[t].f) THEN Seeks(t, tool[t].f, "add") ELSE Goes(t, "entries")
    /\ UNCHANGED files

Fetch(t) ==
    /\ At(t, "fetch")
    /\ \/ tool[t].found # NoLabel /\ Goes(t, "entries")
       \/ tool[t].found = NoLabel /\ Verified(Key(tool[t].f), tool[t].f) /\ Seeks(t, tool[t].f, "add")
       \/ tool[t].found = NoLabel /\ ~Verified(Key(tool[t].f), tool[t].f) /\ Ends(t)
    /\ UNCHANGED files

ToolStep(t) ==
    \/ Find(t) \/ All(t) \/ AddFinds(t) \/ AddTruncates(t) \/ AddWrites(t) \/ AddFails(t)
    \/ Draw(t) \/ Rename(t)
    \/ ReadIndex(t) \/ IndexTruncates(t) \/ IndexWrites(t)
    \/ PushNext(t) \/ Read(t) \/ PushPuts(t) \/ PullNext(t) \/ Fetch(t)

(* The process dies, or a call fails after which the command only returns: *)
(* the files stay as they are.                                             *)
Dies(t) ==
    /\ ~At(t, "idle") /\ Ends(t)
    /\ cutShort' = IF At(t, "write") THEN cutShort \cup {<<Site(t), tool[t].f>>} ELSE cutShort
    /\ UNCHANGED <<tree, index, pulled, blobs>>

=============================================================================
