\* The work_id of a report, when its packet gave no result.
SPECIFICATION Spec
CONSTANTS
    a = a  b = b  c = c  u = u  v = v
    MaxTasks = 2
    PacketMax = 2
    TaskIds <- TwoIds
    WorkIds <- TwoWorks
    Urls <- OneUrl
    NoUrl = NoUrl
    NoWork = NoWork
    AssignedTypes <- HttpOnly
INVARIANT ReportNamesItsPacket
