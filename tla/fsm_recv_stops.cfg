\* A malformed UPDATE in ESTABLISHED ends recvMessageloop silently.
CONSTANTS
    MaxConns <- MCMaxConns
    OutCap <- MCOutCap
    MyHoldTime <- MCMyHoldTime
    MyKeepalive <- MCMyKeepalive
    PeerHoldTimes <- MCPeerHoldTimesNonZero
    AdminDownAtStart = FALSE
    PassiveMode = FALSE
    Deletable = FALSE
SPECIFICATION Spec
INVARIANT ReceiverRunsWhileEstablished
CHECK_DEADLOCK FALSE
