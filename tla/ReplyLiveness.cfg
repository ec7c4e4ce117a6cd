SPECIFICATION CalmSpec
CONSTANTS
    m1 = m1
    m2 = m2
    m3 = m3
    m4 = m4
    u1 = u1
    c1 = c1
    c2 = c2
    c3 = c3
    NoMsg = NoMsg
    Msg = {m1, m2, m3, m4}
    User <- OneUser
    Chat <- ThreeChats
    ChatOf <- TwoShareAChat
    OwnerOf <- OneOwner
    MaxPending = 4
    MaxPendingPerUser = 4
    MaxConcurrent = 2
    MaxConcurrentPerUser = 1
    CooldownOn = FALSE
    DisconnectMayFail = FALSE
    MaxCommands = 1
CHECK_DEADLOCK FALSE
PROPERTIES EveryTaskEnds EveryCommandReturns
