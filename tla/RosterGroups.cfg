CONSTANTS
    Height = 20
    Pitch = 7
    Margin = 1
    Strip = 2
    Tol = 1
    Travels <- SomeTravels
    Coast = 1
    MaxSwallowed = 2
    MaxFrames = 6
    ZeroRetries = 3
    Remeasures = 1
    Lists <- EmptyList
    Attempts = 3
    Blurs = 1
    Groups <- FourGroups
    MaxGroups = 8
    TapAttempts = 3
    Swallows = {"open"}
    ExecuteTaps = 3
    MaxPolls = 2
    MaxDonations = 3
    Mailboxes = 3
    Deaf <- EveryControl
SPECIFICATION Spec
INVARIANT CompleteHasEveryGroup
CHECK_DEADLOCK FALSE
