\* "Processes tasks.  All the tasks.", with pings among them.
SPECIFICATION Spec
CONSTANTS
    a = a  b = b  c = c  u = u  v = v
    MaxTasks = 2
    PacketMax = 2
    TaskIds <- TwoIds
    WorkIds <- TwoWorks
    Urls <- OneUrl
    NoUrl = NoUrl
    NoWork = NoWork
    AssignedTypes <- HttpAndIcmp
INVARIANT AllTasksProcessed
