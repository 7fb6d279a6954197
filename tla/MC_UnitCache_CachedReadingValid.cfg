CONSTANTS
    CacheMs <- MC_CacheMs
    TicksPeriod <- MC_TicksPeriod
    BusCanFail = TRUE
SPECIFICATION Spec
INVARIANT CachedReadingValid
