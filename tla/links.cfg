CONSTANTS
    Cap = 4
    None = None
    Urls <- MCUrls
    Chars = {"x", "space", "a", "/"}
    Tags <- MCTags
    TopTags <- MCTopTags
SPECIFICATION Spec
INVARIANTS
    TypeOK
    BuffersHold
    ReportsAsWritten
    OpenLinkNotLost
