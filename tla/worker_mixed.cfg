\* All three handlers, with tasks that stay in the table for ever.
SPECIFICATION Spec
CONSTANTS
    a = a  b = b  c = c  u = u  v = v
    MaxTasks = 2
    PacketMax = 2
    TaskIds <- TwoIds
    WorkIds <- TwoWorks
    Urls <- OneUrl
    NoUrl = NoUrl
    NoWork = NoWork
    AssignedTypes <- AllTypes
SYMMETRY Symmetric
INVARIANTS
    TypeOK
    StatusTellsVerdict
