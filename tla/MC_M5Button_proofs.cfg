CONSTANTS
    DbTime <- MC_DbTime
    TicksPeriod <- MC_TicksPeriod
    Timeouts <- MC_Timeouts
    MaxPending <- MC_MaxPending
SPECIFICATION Spec
INVARIANT TypeInv
INVARIANT EventInv
INVARIANT ClockInv
INVARIANT EventBitsValid
INVARIANT PressedForSound
PROPERTY HeldForSound
PROPERTY DebounceWindowRespected
