---------------------------- MODULE Negotiation ----------------------------
(***************************************************************************)
(* The timer arithmetic the peer FSM performs when it accepts an OPEN      *)
(* (server/fsm.go, opensent) and when it arms a keepalive ticker           *)
(* (keepaliveTicker, used by openconfirm and sendMessageloop).             *)
(*                                                                         *)
(* The configured hold time and keepalive interval are float64 seconds,    *)
(* the hold time of an OPEN is a uint16 number of seconds.  Times here are *)
(* counted in TimeUnit-ths of a second, TimeUnit = 30: a configured value  *)
(* with one decimal, a peer's whole seconds and a third of the latter are  *)
(* then all whole numbers, so the float64 values the code stores are       *)
(* represented exactly.  time.Duration(x) of a float64 truncates toward    *)
(* zero, and a Duration counts nanoseconds.                                *)
(***************************************************************************)
EXTENDS Naturals

TimeUnit == 30

\* The hold time field of a received OPEN, in model time.
FromSeconds(sec) == sec * TimeUnit

\* time.Duration(x) for x >= 0 seconds: the whole seconds of x.
WholeSeconds(x) == x \div TimeUnit

\* Mutant: the branches swapped, giving the larger of the two.
NegotiatedHoldTimeSwapped(myHoldTime, holdTime) ==
    IF holdTime > myHoldTime THEN holdTime ELSE myHoldTime

\* opensent: the smaller of the configured hold time and the one received
\* in the OPEN (RFC 4271 4.2).
NegotiatedHoldTime(myHoldTime, holdTime) ==
    IF holdTime > myHoldTime THEN myHoldTime ELSE holdTime

\* buildopen: the hold time field of the OPEN sent, uint16(HoldTime) of the
\* configured float64 seconds: its whole seconds (above 65535 the
\* conversion is implementation-defined; no configuration here reaches it).
OpenHoldTime(myHoldTime) == WholeSeconds(myHoldTime)

\* The hold timer openconfirm and established arm,
\* time.Second * time.Duration(NegotiatedHoldTime): whole seconds.
HoldTimerSeconds(negotiated) == WholeSeconds(negotiated)

\* Mutant: the configured keepalive interval whatever was negotiated.
KeepaliveIntervalConfiguredOnly(negotiated, myHoldTime, myKeepalive) == myKeepalive

\* Mutant: a third of the hold time also when it equals the configured one.
KeepaliveIntervalAtOrBelow(negotiated, myHoldTime, myKeepalive) ==
    IF negotiated <= myHoldTime THEN negotiated \div 3 ELSE myKeepalive

\* opensent: the configured keepalive interval, unless the negotiated hold
\* time is below the configured one, then a third of it.  In that case the
\* negotiated value is the peer's whole seconds, so the quotient is exact.
KeepaliveInterval(negotiated, myHoldTime, myKeepalive) ==
    IF negotiated < myHoldTime THEN negotiated \div 3 ELSE myKeepalive

\* A time.Duration, kept as whole seconds and the nanoseconds beyond them
\* so that no product reaches TLC's 32-bit integers.
NoDuration == [sec |-> 0, nsec |-> 0]

\* keepaliveTicker: no ticker when the negotiated hold time is 0; otherwise
\* time.Second * time.Duration(interval), and a zero Duration is replaced
\* by the Duration 1, i.e. one nanosecond.
KeepalivePeriod(negotiated, interval) ==
    IF negotiated = 0 THEN NoDuration
    ELSE IF WholeSeconds(interval) = 0 THEN [sec |-> 0, nsec |-> 1]
    ELSE [sec |-> WholeSeconds(interval), nsec |-> 0]

-----------------------------------------------------------------------------
(* Capabilities.  A capability is a record with its code and, for          *)
(* MultiProtocol, the route family; the AS numbers (the OPEN's AS field,   *)
(* AS_TRANS above 65535 and the FourOctetASNumber value) and the router id *)
(* are left out: nothing checked here reads them.                          *)

RF_IPv4_UC == "ipv4-unicast"

\* capabilitiesFromConfig: RouteRefresh, one MultiProtocol per configured
\* AFI/SAFI, FourOctetASNumber.
CapabilitiesFromConfig(afiSafis) ==
    {[code |-> "ROUTE_REFRESH"], [code |-> "FOUR_OCTET_AS_NUMBER"]}
    \cup {[code |-> "MULTIPROTOCOL", family |-> f] : f \in afiSafis}

\* buildopen: one Capabilities optional parameter with the configured
\* capabilities, and the configured hold time as uint16.
BuildOpen(myHoldTime, afiSafis) ==
    [holdTime |-> OpenHoldTime(myHoldTime), caps |-> CapabilitiesFromConfig(afiSafis)]

\* The families of the MultiProtocol capabilities among caps.
MultiProtocolFamilies(caps) ==
    {c.family : c \in {c \in caps : c.code = "MULTIPROTOCOL"}}

\* Mutant: the configured families are kept whatever the peer announced.
Open2CapConfigured(caps, rfMap) ==
    IF MultiProtocolFamilies(caps) # {} THEN rfMap ELSE {RF_IPv4_UC}

\* open2Cap: the route-family map starts as the configured families
\* (config.CreateRfMap); when the OPEN carries MultiProtocol capabilities
\* the families it does not announce are deleted from it, otherwise it is
\* IPv4 unicast alone.  The capability map, kept by code, is not read in
\* the code modelled and is left out.
Open2Cap(caps, rfMap) ==
    IF MultiProtocolFamilies(caps) # {} THEN rfMap \cap MultiProtocolFamilies(caps)
    ELSE {RF_IPv4_UC}

=============================================================================
