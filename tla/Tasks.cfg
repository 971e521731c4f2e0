CONSTANTS
    Height = 24
    Pitch = 9
    Margin = 1
    Strip = 2
    Tol = 1
    Travels <- SomeTravels
    Coast = 1
    MaxSwallowed = 2
    MaxFrames = 6
    ZeroRetries = 3
    Remeasures = 1
    Lists <- SomeLists
    Attempts = 3
    Blurs = 1
    Groups <- FourGroups
    MaxGroups = 3
    TapAttempts = 3
    Swallows = {"open"}
    ExecuteTaps = 3
    MaxPolls = 2
    MaxDonations = 3
    Mailboxes = 3
    Deaf <- EveryControl
SPECIFICATION FairSpec
INVARIANTS OnlyAllianceIsPhotographed NoRowPassesUnseen CompleteHasEveryRow RowsAreReadOnce GroupsInIsolation ReportsAreTrue
PROPERTY TasksReturn
CHECK_DEADLOCK FALSE
