SPECIFICATION FairSpec
CONSTANTS
    ScreenH = 5
    TitleH = 1
    WindowH = 2
    Moves <- RowMoves
    MaxEvents = 4
CHECK_DEADLOCK FALSE
INVARIANTS MovesConserved ShapeIsRight ReleaseDrops
PROPERTY UpdatesApplied
