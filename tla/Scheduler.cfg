SPECIFICATION Spec
CHECK_DEADLOCK FALSE
CONSTANTS
    Runs = {0, 1, 2}
    NoRun = 9
    OpensAt <- MCOpensAt
    ClosesAt <- MCClosesAt
    Calendar <- MCCalendar
    Plans = {"weekly", "edited"}
    NoPlan = "none"
    FirstPlan = "weekly"
    Weeks = {"odd", "even"}
    FirstWeek = "odd"
    LegacyRun = 0
    Workers = {w1, w2}
    NoWorker = NoWorker
    Callers = {c1, c2}
    NoCaller = NoCaller
    Horizon = 3
    MaxTroubles = 2
INVARIANTS
    CallsAreAlone
    RunsHaveWorkers
    SettingsApplied
    NoticedOnce
