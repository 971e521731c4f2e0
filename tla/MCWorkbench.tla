---------------------------- MODULE MCWorkbench -----------------------------
(* Instances of the workbench: two frames, two tools, two cameras. *)
EXTENDS Workbench, TLC

TwoFrames == {1, 2}
TwoLabels == <<"_none", "_unsorted">>
Desk(cmds, n, m) == [commands |-> cmds, crowd |-> n, errands |-> m]
Curating == {"record", "capture", "label", "index"}
Sharing == {"record", "push", "pull"}
Cloning == {"index", "push", "pull"}

AllDesks ==
    { Desk({"camera", "operator"}, 1, 0), Desk({"camera", "push"}, 1, 1), Desk(Curating, 1, 3), Desk(Curating, 2, 3),
      Desk(Sharing, 1, 4), Desk(Sharing, 2, 2), Desk(Cloning, 2, 4), Desk({"crop", "score"}, 1, 3) }

Alike == Permutations(Tools) \cup Permutations(Cameras)

=============================================================================
