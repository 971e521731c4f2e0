CONSTANTS
    Ranks = {3, 4}
    Unmatched = 0
    Players <- Alliance
    RankOf <- RankOfAlliance
    PlaceOf <- Places
    Texts <- SomeTexts
    Blanks = {9}
    Score <- SomeScores
    AutoAccept = 92
    ReviewFloor = 75
    Pitch = 8
    Captures <- SomeCaptures
    Rosters <- SomeRosters
SPECIFICATION Spec
INVARIANTS TypeOK WithinBudget NobodyMintedTwice CompleteSawEverybody NoGoodPhotographIsWasted
CHECK_DEADLOCK FALSE
