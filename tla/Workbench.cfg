CONSTANTS
    Frames <- TwoFrames
    Cameras = {c1, c2}
    MaxShots = 2
    Tools = {t1, t2}
    Labels <- TwoLabels
    Unsorted = "_unsorted"
    SessionMax = 2
    Anchors = {"tab", "tech"}
    Regions = {"left", "right"}
    Desks <- AllDesks
SPECIFICATION Spec
INVARIANTS ScreenshotsHaveTheirFrame AloneIsSafe PullIsHonest AcceptedEditsStand
PROPERTY FiledStaysFiled
SYMMETRY Alike
CHECK_DEADLOCK FALSE
