CONSTANTS
    NRows = 4
    Members = {1, 2, 3, 4}
    MaxPoints = 100
    AutoAccept = 92
    ResidualFloor = 60
    ResidualMargin = 20
    Gate = 80
    Residual = 85
    ZeroConf = 90
    Texts <- TextsRead
    Captures <- AllCaptures
    Reviewed <- Misreading
    Blanks = {9}
    MaxRuns = 3
SPECIFICATION FairSpec
INVARIANTS TypeOK RowsGoOneToOne ClearWinnersAreMatched WindowsAreSound DroppedSeedsAreQueued ZeroMeansAbsent
PROPERTIES ImplementsBoard ResolvedNamesStaySettled IngestReturns
CHECK_DEADLOCK FALSE
