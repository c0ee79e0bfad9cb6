CONSTANTS
    p1 = p1
    p2 = p2
    d1 = d1
    d2 = d2
    Procs = {p1, p2}
    Dirs = {d1, d2}
    f = f
    g = g
    Entries <- OneFile
    Inodes = {1, 2, 3}
    N = 1
    Dry = {}
    None = None
    Root <- SharedRoots
SPECIFICATION Spec
PROPERTY DownloadsOnlyMissing
