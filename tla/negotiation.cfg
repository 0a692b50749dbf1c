\* Every configured hold time of 0, 3, 3.5, 5.9 and 90 s, keepalive
\* intervals of 1, 1.9 and 30 s, and OPEN hold times around the 3 s boundary
\* and the uint16 maximum; two speakers with every pair of configurations
\* RFC 4271 allows among them, each with one or both of IPv4 and IPv6
\* unicast, or b a speaker without capabilities.
CONSTANTS
    MyHoldTenths = {0, 30, 35, 59, 900}
    MyKeepaliveTenths = {10, 19, 300}
    PeerHoldSeconds = {0, 3, 4, 5, 90, 65535}
    Families = {"ipv4-unicast", "ipv6-unicast"}
SPECIFICATION Spec
INVARIANT HoldIsMinimum
INVARIANT KeepaliveNotSlowerThanSpecified
INVARIANT SessionTimersCompatible
INVARIANT FamiliesAgree
\* The computation ends once the ticker is armed.
CHECK_DEADLOCK FALSE
