SPECIFICATION Spec
CONSTANTS
    m1 = m1
    m2 = m2
    m3 = m3
    m4 = m4
    u1 = u1
    c1 = c1
    c2 = c2
    c3 = c3
    NoMsg = NoMsg
    Msg = {m1, m2, m3}
    User <- OneUser
    Chat <- OneChat
    ChatOf <- AllInOneChat
    OwnerOf <- OneOwner
    MaxPending = 2
    MaxPendingPerUser = 2
    MaxConcurrent = 2
    MaxConcurrentPerUser = 1
    CooldownOn = TRUE
    DisconnectMayFail = FALSE
    MaxCommands = 2
CHECK_DEADLOCK FALSE
INVARIANTS PendingBounded ChatSerialized SendsRespectCooldown
PROPERTIES ImplementsService
