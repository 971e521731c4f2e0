------------------------------ MODULE Manifest ------------------------------
(***************************************************************************)
(* The template library: manifest.yaml and the template PNGs beside it,    *)
(* edited by the studio's crop handler (vision.WriteAnchor) and by agent   *)
(* score --apply-thresholds (SetThresholds), both of which write first,    *)
(* then load the whole library, and put everything back if a write failed  *)
(* or it does not load. Putting back may fail as well.                     *)
(***************************************************************************)
EXTENDS Corpus

CONSTANTS Anchors, Regions

(* A library whose anchors share a template needs a region for each.       *)
ASSUME ManifestAssumption ==
    /\ Frames # {}
    /\ \E r \in [Anchors -> Regions] : \A x, y \in Anchors : x # y => r[x] # r[y]

VARIABLES
    manifest,   \* the file: absent, cut short or whole, and its entries
    templates,  \* template file -> its bytes, 0 if there is none
    edit,       \* tool -> the edit in hand and what it would put back
    accepted,   \* the library as the edits that reported success made it
    spoilt      \* whether a file could not be put back, ever

libVars == <<manifest, templates, edit, accepted, spoilt>>

NoFile == [is |-> "absent", of |-> {}]
CutFile == [is |-> "cut", of |-> {}]
File(entries) == [is |-> "whole", of |-> entries]
Anchor(a, file, r, thr) == [id |-> a, template |-> file, region |-> r, threshold |-> thr]
NoEdit == [anchor |-> NoLabel, region |-> NoLabel, old |-> NoFile, oldTemplate |-> 0, new |-> {}, tune |-> {}]

(* Either no library yet, or one whose anchors share a template file, each *)
(* in a region of its own: what checkSharedTemplateRegions is there for.   *)
Shared == LET a == CHOOSE x \in Anchors : TRUE
              r == CHOOSE f \in [Anchors -> Regions] : \A x, y \in Anchors : x # y => f[x] # f[y]
          IN [manifest |-> File({Anchor(x, a, r[x], 0) : x \in Anchors}),
              templates |-> [x \in Anchors |-> IF x = a THEN CHOOSE f \in Frames : TRUE ELSE 0]]

LibInit ==
    /\ accepted \in {[manifest |-> NoFile, templates |-> [x \in Anchors |-> 0]], Shared}
    /\ manifest = accepted.manifest /\ templates = accepted.templates
    /\ edit = [t \in Tools |-> NoEdit]
    /\ spoilt = FALSE

(* LoadRegistry: the manifest parses, with a reference height; every       *)
(* template it names is there and decodes; no two anchors share a template *)
(* in overlapping regions.                                                 *)
Loads(m, tp) ==
    /\ m.is = "whole"
    /\ \A e \in m.of : Whole(tp[e.template])
    /\ \A d, e \in m.of : d.template = e.template /\ d.region = e.region => d = e

Keeps == UNCHANGED files
Leaves(t) == Ends(t) /\ edit' = [edit EXCEPT ![t] = NoEdit]
Writes(t, next) == Goes(t, next) /\ Keeps /\ UNCHANGED <<edit, accepted, spoilt>>

-----------------------------------------------------------------------------
(* handleCrop and agent score begin in the corpus. A frame that does not   *)
(* decode cannot be cropped and ends a scoring run.                        *)
StartLib(t, cmd) ==
    /\ At(t, "idle")
    /\ \/ /\ cmd = "crop"
          /\ \E f \in Frames : tool' = [tool EXCEPT ![t] = [Idle EXCEPT !.cmd = cmd, !.at = "find", !.f = f,
                                                                        !.todo = Labels, !.then = "read"]]
          /\ edit' = [edit EXCEPT ![t] = NoEdit]
       \/ /\ cmd = "score" /\ Loads(manifest, templates)
          /\ \E tune \in SUBSET {e.id : e \in manifest.of} : edit' = [edit EXCEPT ![t] = [NoEdit EXCEPT !.tune = tune]]
          /\ tool' = [tool EXCEPT ![t].cmd = cmd, ![t].at = "list", ![t].todo = Labels, ![t].then = "score"]
    /\ Keeps /\ UNCHANGED <<manifest, templates, accepted, spoilt>>

(* LoadCorpusFrames reads what it listed, labelled frames only. *)
ScoreReads(t) ==
    /\ \/ /\ At(t, "got") /\ tool[t].cmd = "score"
          /\ IF Whole(tool[t].f) THEN Goes(t, "score") /\ UNCHANGED edit ELSE Leaves(t)
       \/ /\ At(t, "score")
          /\ \/ \E x \in tool[t].seen :
                  /\ tool' = [tool EXCEPT ![t].seen = @ \ {x}, ![t].f = x[1], ![t].todo = Labels, ![t].then = "read",
                                          ![t].at = IF x[2] = Unsorted THEN "score" ELSE "find"]
             \/ tool[t].seen = {} /\ Goes(t, "tune")
          /\ UNCHANGED edit
    /\ Keeps /\ UNCHANGED <<manifest, templates, accepted, spoilt>>

-----------------------------------------------------------------------------
(* readManifest: a missing file and one cut short are empty manifests. *)
CropPlans(t) ==
    /\ At(t, "got") /\ tool[t].cmd = "crop"
    /\ IF ~Whole(tool[t].f) THEN Ends(t) /\ UNCHANGED edit
       ELSE \E a \in Anchors, r \in Regions :
              /\ edit' = [edit EXCEPT ![t] = [NoEdit EXCEPT !.anchor = a, !.region = r, !.old = manifest,
                                              !.new = {e \in manifest.of : e.id # a} \cup {Anchor(a, a, r, 0)}]]
              /\ Goes(t, "readTemplate")
    /\ Keeps /\ UNCHANGED <<manifest, templates, accepted, spoilt>>

(* SetThresholds refuses a key it does not find. *)
TunePlans(t) ==
    /\ At(t, "tune")
    /\ IF edit[t].tune \subseteq {e.id : e \in manifest.of}
       THEN /\ edit' = [edit EXCEPT ![t].old = manifest,
                        ![t].new = {[e EXCEPT !.threshold = IF e.id \in edit[t].tune THEN 1 ELSE @] : e \in manifest.of}]
            /\ Goes(t, "cutManifest")
       ELSE Leaves(t)
    /\ Keeps /\ UNCHANGED <<manifest, templates, accepted, spoilt>>

ReadTemplate(t) ==
    /\ At(t, "readTemplate") /\ Goes(t, "cutTemplate")
    /\ edit' = [edit EXCEPT ![t].oldTemplate = templates[edit[t].anchor]]
    /\ Keeps /\ UNCHANGED <<manifest, templates, accepted, spoilt>>

(* What fails, or is refused, before anything is written. *)
Refuses(t) ==
    /\ tool[t].at \in {"tune", "readTemplate", "cutTemplate"} /\ Leaves(t)
    /\ Keeps /\ UNCHANGED <<manifest, templates, accepted, spoilt>>

(* A WriteTemplate whose failure is only reported. *)
LeaveTemplate(t) ==
    /\ UNCHANGED manifest
    /\ \/ At(t, "cutTemplate") /\ Writes(t, "putTemplate") /\ templates' = [templates EXCEPT ![edit[t].anchor] = Torn(tool[t].f)]
       \/ At(t, "putTemplate") /\ Writes(t, "cutManifest") /\ templates' = [templates EXCEPT ![edit[t].anchor] = tool[t].f]
       \/ At(t, "putTemplate") /\ Leaves(t) /\ Keeps /\ UNCHANGED <<templates, accepted, spoilt>>

(* A write that fails, opening the file or writing it, starts the rollback. *)
WriteTemplate(t) ==
    /\ UNCHANGED manifest
    /\ \/ At(t, "cutTemplate") /\ Writes(t, "putTemplate") /\ templates' = [templates EXCEPT ![edit[t].anchor] = Torn(tool[t].f)]
       \/ At(t, "putTemplate") /\ Writes(t, "cutManifest") /\ templates' = [templates EXCEPT ![edit[t].anchor] = tool[t].f]
       \/ tool[t].at \in {"cutTemplate", "putTemplate"} /\ Writes(t, "undoTemplate") /\ UNCHANGED templates

WriteManifestFile(t) ==
    /\ UNCHANGED templates
    /\ \/ At(t, "cutManifest") /\ Writes(t, "putManifest") /\ manifest' = CutFile
       \/ At(t, "putManifest") /\ Writes(t, "check") /\ manifest' = File(edit[t].new)
       \/ tool[t].at \in {"cutManifest", "putManifest"} /\ Writes(t, "undoManifest") /\ UNCHANGED manifest

(* What an accepted edit promises: its own entries, beside everybody's. *)
Edited(t) ==
    IF tool[t].cmd = "crop"
    THEN [manifest |-> File({e \in accepted.manifest.of : e.id # edit[t].anchor}
                            \cup {Anchor(edit[t].anchor, edit[t].anchor, edit[t].region, 0)}),
          templates |-> [accepted.templates EXCEPT ![edit[t].anchor] = tool[t].f]]
    ELSE [accepted EXCEPT !.manifest.of = {[e EXCEPT !.threshold = IF e.id \in edit[t].tune THEN 1 ELSE @] : e \in @}]

(* A library that would load may be one that cannot be read just now. *)
CheckLibrary(t) ==
    /\ At(t, "check")
    /\ \/ Loads(manifest, templates) /\ Leaves(t) /\ accepted' = Edited(t)
       \/ Goes(t, "undoManifest") /\ UNCHANGED <<accepted, edit>>
    /\ Keeps /\ UNCHANGED <<manifest, templates, spoilt>>

(* restore: write back what was there, or remove what was not. *)
AfterUndo(t) == IF tool[t].cmd = "crop" THEN Goes(t, "undoTemplate") /\ UNCHANGED edit ELSE Leaves(t)

RestoreManifest(t) ==
    /\ \/ At(t, "undoManifest") /\ edit[t].old.is = "absent" /\ manifest' = NoFile /\ AfterUndo(t)
       \/ At(t, "undoManifest") /\ edit[t].old.is # "absent" /\ manifest' = CutFile /\ Goes(t, "backManifest") /\ UNCHANGED edit
       \/ At(t, "backManifest") /\ manifest' = edit[t].old /\ AfterUndo(t)
    /\ Keeps /\ UNCHANGED <<templates, accepted, spoilt>>

(* A rollback that takes the new template for nobody's. *)
RemoveTemplate(t) ==
    /\ At(t, "undoTemplate") /\ Leaves(t)
    /\ templates' = [templates EXCEPT ![edit[t].anchor] = 0]
    /\ Keeps /\ UNCHANGED <<manifest, accepted, spoilt>>

RestoreTemplate(t) ==
    /\ \/ At(t, "undoTemplate") /\ edit[t].oldTemplate = 0 /\ Leaves(t)
          /\ templates' = [templates EXCEPT ![edit[t].anchor] = 0]
       \/ At(t, "undoTemplate") /\ edit[t].oldTemplate # 0 /\ Goes(t, "backTemplate") /\ UNCHANGED edit
          /\ templates' = [templates EXCEPT ![edit[t].anchor] = Torn(tool[t].f)]
       \/ At(t, "backTemplate") /\ Leaves(t)
          /\ templates' = [templates EXCEPT ![edit[t].anchor] = edit[t].oldTemplate]
    /\ Keeps /\ UNCHANGED <<manifest, accepted, spoilt>>

(* restore does not look whether it succeeded: removing, opening or writing *)
(* the file failed, and the rollback goes on.                              *)
RestoreFails(t) ==
    /\ spoilt' = TRUE
    /\ \/ tool[t].at \in {"undoManifest", "backManifest"} /\ AfterUndo(t)
       \/ tool[t].at \in {"undoTemplate", "backTemplate"} /\ Leaves(t)
    /\ Keeps /\ UNCHANGED <<manifest, templates, accepted>>

LibStep(t) ==
    \/ ScoreReads(t) \/ CropPlans(t) \/ TunePlans(t) \/ ReadTemplate(t) \/ Refuses(t) \/ WriteTemplate(t)
    \/ WriteManifestFile(t) \/ CheckLibrary(t) \/ RestoreManifest(t) \/ RestoreTemplate(t) \/ RestoreFails(t)

=============================================================================
