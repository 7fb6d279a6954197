CONSTANTS
    Lead <- MC_Lead
    InitPeriod <- MC_InitPeriod
    Durations <- MC_Durations
SPECIFICATION Spec
PROPERTY NoteLastsDuration
