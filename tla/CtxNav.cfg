CONSTANTS
    TTL = 0
    QueryMax = 0
    Horizon = 1
    Switches = {}
    Screens = {"base", "alliance", "alliance_tech"}
    Entry = "base"
    Edges <- ThreeScreens
    PanicBacks = 2
    WrongStreak = 3
    MaxReplans = 3
    FrameMax = 0
    NapMin = 1
    NapMax = 1
    WaitTimeout = 4
    RestartTimeout = 2
    Ops = {"NavigateTo", "CurrentScreen", "WaitFor", "Tap", "Sees", "Swipe", "Capture", "Sleep"}
    Flaky = TRUE
    Mishaps = 3
    Endless = TRUE
SPECIFICATION FairSpec
PROPERTIES NavAbsorbsMishaps NavArrives CallsReturn
