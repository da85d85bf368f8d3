SPECIFICATION FairSpec
CONSTANTS
    Runs = {1}
    OpensAt <- MCOpensAt
    ClosesAt <- MCClosesAt
    MaxClock = 2
    Messages = {1, 2, 3}
    MaxRev = 1
    MaxFaults = 1
    Starts = {"temporary"}
    SettingsReturn = FALSE
PROPERTIES
    CloseCompletes
    UpdatesArrive
