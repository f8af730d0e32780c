SPECIFICATION Spec
CONSTANTS
    Players = {0, 1, 2, 3, 4}
    Games <- MCGames
INVARIANT InStep
PROPERTIES ImplementsKnockout TournamentEnds
CHECK_DEADLOCK FALSE
