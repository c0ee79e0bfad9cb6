CONSTANTS
    Sections <- MCSections
    Pages <- MCPages
    Options <- MCOptions
    Tuples = {"good", "bad", "empty"}
    Asked = {{"FILE"}, {"FILE", "FORUM"}}
    MaxLogins = 1
    None = None
SPECIFICATION SuckSpec
INVARIANTS
    SuckTypeOK
    ResyncedIfOK
    SuccessMeansSynced
    EndsLoggedOff
    TerminalRestored
PROPERTY Terminates
\* the program ends
CHECK_DEADLOCK FALSE
