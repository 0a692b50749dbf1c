\* Safety of one peer FSM with its goroutines, two connections, and the
\* progress of an administratively enabled peer out of IDLE.
CONSTANTS
    MaxConns <- MCMaxConns
    OutCap <- MCOutCap
    MyHoldTime <- MCMyHoldTime
    MyKeepalive <- MCMyKeepalive
    PeerHoldTimes <- MCPeerHoldTimesWithZero
    AdminDownAtStart = FALSE
    PassiveMode = FALSE
    Deletable = TRUE
SPECIFICATION IdleSpec
INVARIANT TypeOK
INVARIANT NoAdminLogicPanic
INVARIANT EstablishedAfterHandshake
INVARIANT NoStaleDelivery
PROPERTY StateTransitionsEnumerated
PROPERTY EnabledPeerLeavesIdle
\* The peer really can stop for good: see fsm_wait_hang and
\* fsm_activate_deadlock.
CHECK_DEADLOCK FALSE
