SPECIFICATION FairProbeSpec
CONSTANTS
    a = a  b = b  u = u
    MaxTasks = 2
    PacketMax = 2
    TaskIds <- OneId
    WorkIds <- TwoWorks
    ProbeIds <- TwoProbes
    Urls <- OneUrl
    NoUrl = NoUrl
    NoWork = NoWork
    AssignedTypes <- HttpOnly
    MaxFaults = 1
INVARIANTS
    OneIdentity
    KeyMissingOnlyAfterMishap
    ReportCoversPacket
PROPERTIES
    ResultsKeptUntilAnswered
    PacketAnswered
