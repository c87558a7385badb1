SPECIFICATION MCSpec
CONSTANTS
    Dates <- MCDates
    Examiners <- MCExaminers
    Period <- MCPeriod
    Leads = {1}
    Chosen = 2
    Calendar <- MCCalendar
    Year = 2
    LastDay = 3
    MaxCrashes = 1
INVARIANTS
    RunComplete
PROPERTIES
    Idempotent
    OverdueAnnounced
CHECK_DEADLOCK FALSE
