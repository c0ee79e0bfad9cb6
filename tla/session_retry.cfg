CONSTANTS
    Sections <- MCSections
    Pages <- MCPages
    Tuples = {"good", "bad"}
    Asked = {{"FILE"}}
    MaxLogins = 1
    None = None
SPECIFICATION Spec
INVARIANT ResyncedIfOK
