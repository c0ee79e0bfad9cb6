CONSTANTS
    DOT_BYTES = 2
    DOTS_IN_LINE = 3
    Sizes <- MCSizes
    Totals <- MCTotals
    Times = {0, 1, 200, 400}
    Columns = {0, 44, 45, 80, 130}
    None = None
SPECIFICATION Spec
INVARIANTS
    TypeOK
    DotsAccount
    SpeedsCover
    ImageFits
    NeverBeyond
    LastImageTells
