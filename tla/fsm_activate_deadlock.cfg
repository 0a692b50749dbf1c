\* StateChange(ACTIVE) against a connect loop blocked on a full connCh.
CONSTANTS
    MaxConns <- MCMaxConns
    OutCap <- MCOutCap
    MyHoldTime <- MCMyHoldTime
    MyKeepalive <- MCMyKeepalive
    PeerHoldTimes <- MCPeerHoldTimesNonZero
    AdminDownAtStart = FALSE
    PassiveMode = FALSE
    Deletable = FALSE
SPECIFICATION Spec
PROPERTY ActivationCompletes
CHECK_DEADLOCK FALSE
