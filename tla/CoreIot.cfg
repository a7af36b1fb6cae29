\* The client's session with its broker over a network that loses connections.
CONSTANTS
    KeepAlive = 4
    SocketTimeout = 2
    Grace = 6
    AnswerTime = 1
    InboxSize = 2
    ReconnectDelay = 1
    PublishInterval = 7
    TickModulus = 8
    WarmUp = 6
SPECIFICATION FairSpec
INVARIANTS
    PublishesInSession
    BrokerHearsInTime
    DeadFoundOut
PROPERTIES
    LiveBrokerKept
    PublishSpacing
    KeepsPublishing
