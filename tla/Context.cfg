SPECIFICATION Spec
CONSTANTS
    x1 = x1
    x2 = x2
    x3 = x3
    x4 = x4
    c1 = c1
    c2 = c2
    NoChat = NoChat
    Exchange <- FourExchanges
    Chat <- TwoChats
    ChatOf <- ThreeAndOne
    MaxRows = 2
    MaxCached = 2
    MaxContext = 2
    MaxChats = 1
SYMMETRY Renamings
CHECK_DEADLOCK FALSE
INVARIANTS TypeOK NoExchangeTwice ContextInOrder
