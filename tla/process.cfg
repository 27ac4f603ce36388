SPECIFICATION OneSpec
CONSTANTS
    NOptions = 6
    Hups = TRUE
    IntOpts <- Ints
    StrOpts <- Strs
    Default <- Defaults
    Argvs <- SomeArgvs
    Lines <- SomeLines
    MaxLines = 2
    MaxPid = 3
    Limit = 2
    LimitFrom = "argv"
    Daemon = TRUE
    HupTurnsOff = TRUE
    ForkFails = TRUE
    Crashes = TRUE
    Signals = TRUE
INVARIANTS
    FindsWhatIsThere
    FirstSettingHolds
    OneProbe
    PidFileIsTrue
PROPERTIES
    GoesOn
    StopStops
