CONSTANTS
    c1 = c1
    c2 = c2
    gp = gp
    tp = tp
    Course = {c1}
    Material <- OneCourse
    Code <- Codes
    DirNames <- MCDirNames
    Titles <- MCTitles
    Options <- AllOptions
    Drops <- DropA
    Foreign = Foreign
    Nothing = Nothing
SPECIFICATION Spec
INVARIANT ReportsEveryForeign
