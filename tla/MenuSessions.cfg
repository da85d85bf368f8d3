SPECIFICATION FairSpec
CHECK_DEADLOCK FALSE
CONSTANTS
    e1 = e1
    Ephemerals = {e1}
    None = None
    MaxMenus = 3
    MaxFaults = 2
    MaxStops = 1
INVARIANTS
    Accounted
    LiveMenuIsSafe
    PressesHitTheirMenu
PROPERTIES
    MenusGo
