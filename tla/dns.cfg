SPECIFICATION OneSpec
CONSTANTS
    d = d  x = x  y = y  z = z  p = p
    CacheSize = 2
    IndexRange = 4
    Hosts <- FourHosts
    Dispatch = d
    Addrs <- OneAddr
    NoHost = NoHost
    INADDR_NONE = INADDR_NONE
    Settings <- ThreeSettings
    Signals = TRUE
INVARIANTS
    RingHoldsLastNames
    TaskAddressesFresh
    EveryServerHadItsTries
    CalledOnce
    AnswersTheQuestion
PROPERTIES
    LookupReturns
