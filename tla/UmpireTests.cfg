SPECIFICATION Spec
CONSTANTS
    Players = {1, 2}
    Programs <- MCPrograms
    Rounds = 10
INVARIANT InStep
PROPERTY MatchesEnd
CHECK_DEADLOCK FALSE
