SPECIFICATION FairSpec
CONSTANTS
    main = main
    other = other
    m1 = m1
    m2 = m2
    m3 = m3
    NoMessage = NoMessage
    Clients <- MCClients
    Messages <- MCMessages
    SenderOf <- MCSenderOf
    Owner = main
    Waiters = {main}
    Cancellable = {}
    NumHandlers = 1
    Accepts <- MCAcceptsAll
    WaitModes = {TRUE, FALSE}
    MaxOpens = 2
PROPERTIES
    MessagesTaken
    WaitsReturn
    CloseReturns
