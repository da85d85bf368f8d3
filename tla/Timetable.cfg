SPECIFICATION Spec
CONSTANTS
    r1 = r1
    r2 = r2
    o1 = o1
    t1 = t1
    t2 = t2
    Schedules = {r1, r2, o1}
    OneShots = {o1}
    Topics = {t1, t2}
    Runs <- MCRuns
    Messages = {none, m}
    NotRunning = none
    NoRun = none
    NoTopic = none
    NoMessage = none
    DayLength = 3
    Early = 1
    Lead = 1
    Delay = 1
    Duration = 1
    Dates = {17, 22}
    Limits <- MCLimits
INVARIANTS
    ChecksHold
    RunsAreFound
    SettingsAgree
    WeekChoiceHolds
CHECK_DEADLOCK FALSE
