CONSTANTS
    DbTime <- MC_DbTime
    TicksPeriod <- MC_TicksPeriod
    Timeouts <- MC_Timeouts
    MaxPending <- MC_MaxPending
SPECIFICATION Spec
PROPERTY ConsumeExact
