CONSTANTS
    Ranks = {3, 4}
    Unmatched = 0
    Players <- Alliance
    RankOf <- RankOfAlliance
    PlaceOf <- Places
    Texts <- SomeTexts
    Blanks = {9}
    Score <- SomeScores
    AutoAccept = 92
    ReviewFloor = 75
    Pitch = 8
    Captures <- OneUnmatched
    Rosters <- SomeRosters
SPECIFICATION Spec
INVARIANT SightingsAgree
CHECK_DEADLOCK FALSE
