SPECIFICATION Spec
CONSTANTS
    Runs = {1}
    OpensAt <- MCOpensAt
    ClosesAt <- MCClosesAt
    MaxClock = 2
    Messages = {1, 2, 3, 4}
    MaxRev = 1
    MaxFaults = 2
    Starts = {"scheduled", "legacy"}
    SettingsReturn = FALSE
INVARIANTS
    NoOrphan
    FreshWhenQuiet
    NoLostUpdate
PROPERTIES
    FinalPictureComplete
