SPECIFICATION Spec
CONSTANTS
    main = main
    other = other
    m1 = m1
    m2 = m2
    m3 = m3
    NoMessage = NoMessage
    Clients <- MCClients
    Messages <- MCMessages
    SenderOf <- MCSenderOf
    Owner = main
    Waiters = {main}
    Cancellable = {m1, m3}
    NumHandlers = 2
    Accepts <- MCAcceptsSome
    WaitModes = {TRUE}
    MaxOpens = 2
INVARIANTS
    TypeOK
    WakeupNotLost
    StopNotLost
    StopsOnlyByCancel
PROPERTIES
    CloseHandlesAll
    FlushLeavesOne
    ImplementsMessagePort
CHECK_DEADLOCK FALSE
