CONSTANTS
    Screens <- AllScreens
    Entry = "base"
    Edges <- BothGraphs
SPECIFICATION Spec
INVARIANTS RoutedExactly AnswerIsRight
PROPERTY SearchReturns
CHECK_DEADLOCK FALSE
