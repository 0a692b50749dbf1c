----------------------------- MODULE MCPeerFSM -----------------------------
(* Model-checking instance of PeerFSM: a configured hold time of 90 s with *)
(* a 30 s keepalive, remotes offering 0 or 30 s, two connections.          *)
EXTENDS PeerFSM

MCMaxConns == 2
MCOutCap == 1
MCMyHoldTime == FromSeconds(90)
MCMyKeepalive == FromSeconds(30)
\* Hold times a remote OPEN may carry, without 0.
MCPeerHoldTimesNonZero == {30}
\* ... and with the "no hold timer" value 0.
MCPeerHoldTimesWithZero == {0, 30}
=============================================================================
