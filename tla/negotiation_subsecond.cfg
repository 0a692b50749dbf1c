\* A configured keepalive interval of 0.5 s.
CONSTANTS
    MyHoldTenths = {0, 30, 35, 900}
    MyKeepaliveTenths = {5, 300}
    PeerHoldSeconds = {0, 3, 4, 5, 90, 65535}
    Families = {"ipv4-unicast", "ipv6-unicast"}
SPECIFICATION Spec
INVARIANT KeepaliveNeverSubSecond
CHECK_DEADLOCK FALSE
