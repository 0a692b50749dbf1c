\* A handler leaves OPENSENT/OPENCONFIRM/ESTABLISHED while its receiver
\* goroutine is blocked; h.t.Wait never returns.
CONSTANTS
    MaxConns <- MCMaxConns
    OutCap <- MCOutCap
    MyHoldTime <- MCMyHoldTime
    MyKeepalive <- MCMyKeepalive
    PeerHoldTimes <- MCPeerHoldTimesNonZero
    AdminDownAtStart = FALSE
    PassiveMode = FALSE
    Deletable = FALSE
SPECIFICATION Spec
PROPERTY HandlerTerminates
CHECK_DEADLOCK FALSE
