SPECIFICATION Spec
CONSTANTS
    Runs = {1, 2}
    OpensAt <- MCOpensAt
    ClosesAt <- MCClosesAt
    MaxClock = 3
    Messages = {1, 2, 3}
    MaxRev = 1
    MaxFaults = 1
    Starts = {"scheduled"}
    SettingsReturn = FALSE
INVARIANTS
    MessageOfItsRun
    IInv
PROPERTIES
    CancelLosesNobody
    NeverRevived
    DeleteSparesRuns
