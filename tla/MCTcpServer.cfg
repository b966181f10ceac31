SPECIFICATION FairSpec
CONSTANTS
    browser = browser
    stranger = stranger
    Wakeup = Wakeup
    Peers <- MCPeers
    HttpPeers <- MCHttpPeers
    MaxOpens = 2
INVARIANTS
    Consistent
    AnswersOpenConnections
PROPERTIES
    RequestsServed
    CloseReturnsOrRequestLost
    ImplementsConnectionService
CHECK_DEADLOCK FALSE
