CONSTANTS
    Start <- MCStart
    Pages <- MCPages
    Layouts <- MCLayouts
    Links <- MCLinks
    Numbers <- MCNumbers
    Fids = {1, 2}
    Hosts = {"h1", "h2"}
    Versions <- MCVersions
SPECIFICATION Spec
INVARIANTS
    TypeOK
    Complete
    NoCacheFresh
PROPERTIES
    LooksOnly
    Terminates
