CONSTANTS
    c1 = c1
    c2 = c2
    gp = gp
    tp = tp
    Course = {c1, c2}
    Material <- TwoCourses
    Code <- Codes
    DirNames <- MCDirNames
    Titles <- MCTitles
    Options <- ReportOptions
    Drops <- DropA
    Foreign = Foreign
    Nothing = Nothing
SYMMETRY FolderSymmetry
SPECIFICATION Spec
INVARIANTS
    TypeOK
    Placement
    OneDirectory
    Delivered
    
    ReportsEveryForeignInPlace
PROPERTY NoLoss
