----------------------------- MODULE Workbench ------------------------------
(***************************************************************************)
(* The machine an operator sits at: cameras that record screenshots, the   *)
(* corpus tools and the template editor, over one blob store. Init picks   *)
(* what goes on at the desk and whether one of the tools may die.          *)
(***************************************************************************)
EXTENDS CaptureService, Manifest, FiniteSets

CONSTANTS
    Desks       \* what may go on: the commands given, how many tools may
                \* be at work at once, and how many commands are given in all

VARIABLES
    desk,       \* which of them does
    death,      \* whether one of them dies: never, it may, it did
    errands     \* commands still to come

benchVars == <<desk, death>>
vars == <<blobs, camVars, tree, index, tool, pulled, cutShort, libVars, benchVars, errands>>

Given(cmd) == cmd \in desk.commands
Alone == desk.crowd = 1

(* Where nothing is recorded a recorder has been before: it filed one      *)
(* frame and was killed over the others.                                   *)
FiledBefore ==
    LET first == CHOOSE f \in Frames : TRUE IN
    [s \in Sites |-> [l \in LabelSet |-> [f \in Frames |->
        IF s = "clone" THEN 0
        ELSE IF f = first THEN (IF l = Labels[1] THEN f ELSE 0)
        ELSE IF l = Unsorted THEN Torn(f) ELSE 0]]]

Init ==
    /\ desk \in Desks /\ death \in {"never"} \cup (IF Given("camera") THEN {} ELSE {"may"}) /\ errands = desk.errands
    /\ BlobsInit
    /\ CamInit
    /\ CorpusInit(IF Given("record") THEN NoFrames ELSE FiledBefore)
    /\ LibInit /\ (~Given("crop") => manifest = NoFile)

Begin(t) ==
    /\ errands > 0 /\ Cardinality(Busy) < desk.crowd
    /\ errands' = errands - 1
    /\ \/ \E cmd \in desk.commands : Start(t, cmd) /\ UNCHANGED libVars
       \/ \E cmd \in desk.commands : StartLib(t, cmd)
    /\ UNCHANGED <<camVars, benchVars>>

Work(t) ==
    /\ \/ ToolStep(t) /\ UNCHANGED libVars
       \/ LibStep(t)
    /\ UNCHANGED <<camVars, benchVars, errands>>

Crash(t) ==
    /\ death = "may" /\ death' = "did" /\ Dies(t)
    /\ UNCHANGED <<camVars, libVars, desk, errands>>

Photograph ==
    /\ Given("camera")
    /\ (Given("operator") /\ Operator) \/ \E c \in Cameras : CamStep(c)
    /\ UNCHANGED <<tree, index, tool, pulled, cutShort, libVars, benchVars, errands>>

Git == Given("pull") /\ Commit /\ UNCHANGED <<camVars, libVars, benchVars, errands>>

Next == (\E t \in Tools : Begin(t) \/ Work(t) \/ Crash(t)) \/ Photograph \/ Git

Spec == Init /\ [][Next]_vars

-----------------------------------------------------------------------------
Filed(s, f) == {l \in LabelSet : tree[s][l][f] # 0}
WholeIn(s, f) == \E l \in LabelSet : tree[s][l][f] = f
BeingWritten(s, f) == \E t \in Tools : At(t, "write") /\ Site(t) = s /\ tool[t].f = f
Kept(s, f) == WholeIn(s, f) \/ BeingWritten(s, f) \/ <<s, f>> \in cutShort

(* FiledStaysFiled: a frame that is in the corpus stays in it, whole,      *)
(* whatever is recorded, relabelled, pulled or indexed at the same time:   *)
(* only a writer that died or failed in mid-write leaves a torn one.       *)
FiledStaysFiled ==
    [][\A s \in Sites, f \in Frames : Kept(s, f) => Kept(s, f)']_vars

(* AloneIsSafe: as long as one tool works at a time, no frame ends up      *)
(* under two labels (index.go:79, "Store.Add cannot produce this"), and if *)
(* none was killed every frame that was ever recorded without its write    *)
(* being cut short keeps its stamps in the index (cmd/agent/record.go:118, *)
(* studio/handlers.go:158), however many of the writes beside it failed.   *)
AloneIsSafe ==
    Alone =>
        /\ \A s \in Sites, f \in Frames : Cardinality(Filed(s, f)) <= 1
        /\ death # "did" /\ Busy = {} /\ Given("record") =>
               \A f \in Frames : Filed("desk", f) # {} /\ <<"desk", f>> \notin cutShort =>
                   \E e \in index["desk"].of : e.hash = f /\ e.stamped

(* PullIsHonest: a pull that reports success leaves every frame of the     *)
(* committed index in the clone (sync.go:42-44, a short corpus must not be *)
(* produced silently), and whole, with two exceptions that Find makes: it  *)
(* believes a file that another pull is still writing, and one that an     *)
(* earlier pull, dead or failed in mid-write, left torn under the right    *)
(* name (corpus.go:122, sync.go:48-50).                                    *)
PullIsHonest ==
    pulled = "ok" => \A e \in index["clone"].of :
        \/ WholeIn("clone", e.hash)
        \/ BeingWritten("clone", e.hash)
        \/ <<"clone", e.hash>> \in cutShort

(* AcceptedEditsStand: with one editor at work and none killed, whichever  *)
(* writes fail, the library at rest is exactly what the accepted edits     *)
(* made it - a rejected one left no trace, an accepted one took nobody's   *)
(* place - and it loads (manifest_write.go:32-37), as long as whatever had *)
(* to be put back could be: restore ignores its own errors                 *)
(* (manifest_write.go:303-313), and what it then leaves is anything.       *)
AcceptedEditsStand ==
    Alone /\ death # "did" /\ ~spoilt /\ Busy = {} /\ Given("crop") =>
        /\ manifest = accepted.manifest /\ templates = accepted.templates
        /\ manifest.is = "absent" \/ Loads(manifest, templates)

=============================================================================
