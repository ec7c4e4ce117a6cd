SPECIFICATION Spec
CONSTANTS
    m1 = m1
    m2 = m2
    m3 = m3
    m4 = m4
    u1 = u1
    c1 = c1
    c2 = c2
    c3 = c3
    NoMsg = NoMsg
    Msg = {m1, m2, m3}
    User <- OneUser
    Chat <- ThreeChats
    ChatOf <- ChatEach
    OwnerOf <- OneOwner
    MaxPending = 3
    MaxPendingPerUser = 3
    MaxConcurrent = 2
    MaxConcurrentPerUser = 1
    CooldownOn = FALSE
    DisconnectMayFail = TRUE
    MaxCommands = 2
CHECK_DEADLOCK FALSE
SYMMETRY Renamings
INVARIANTS TypeOK PendingExact UserConcurrencyBounded LiveTasksTracked HaltedIsQuiet
