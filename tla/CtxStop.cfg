CONSTANTS
    TTL = 2
    QueryMax = 1
    Horizon = 7
    Switches = {"pause", "store"}
    Screens = {"base", "alliance"}
    Entry = "base"
    Edges <- TwoScreens
    PanicBacks = 2
    WrongStreak = 2
    MaxReplans = 1
    FrameMax = 1
    NapMin = 1
    NapMax = 1
    WaitTimeout = 2
    RestartTimeout = 2
    Ops = {"Tap", "Swipe"}
    Flaky = FALSE
    Mishaps = 0
    Endless = TRUE
SPECIFICATION Spec
INVARIANT VerdictIsFresh
PROPERTIES StopsInTime TouchesAreProven RestartIsLastResort
