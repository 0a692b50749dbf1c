\* A negotiated hold time of 0 makes every ESTABLISHED write time out.
CONSTANTS
    MaxConns <- MCMaxConns
    OutCap <- MCOutCap
    MyHoldTime <- MCMyHoldTime
    MyKeepalive <- MCMyKeepalive
    PeerHoldTimes <- MCPeerHoldTimesWithZero
    AdminDownAtStart = FALSE
    PassiveMode = FALSE
    Deletable = FALSE
SPECIFICATION Spec
INVARIANT NoWriteFailureOnOpenConn
CHECK_DEADLOCK FALSE
