\* The work a probe without root's rights is given: HTTP and HTTPS tasks.
SPECIFICATION FairSpec
CONSTANTS
    a = a  b = b  c = c  u = u  v = v
    MaxTasks = 2
    PacketMax = 2
    TaskIds <- TwoIds
    WorkIds <- TwoWorks
    Urls <- TwoUrls
    NoUrl = NoUrl
    NoWork = NoWork
    AssignedTypes <- HttpOnly
INVARIANTS
    AllTasksProcessed
    NoTaskDropped
    LookupFindsTakenTask
    ReportIsOnePacket
PROPERTIES
    KeepsLedger
    EveryTaskReported
