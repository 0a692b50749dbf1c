---------------------------- MODULE MCNegotiation ----------------------------
(***************************************************************************)
(* The OPEN negotiation and the arming of the keepalive ticker for every   *)
(* combination of a configured hold time and keepalive interval (float64   *)
(* seconds with one decimal) and a hold time received in an OPEN (whole    *)
(* seconds), checked against the rules of the specification (P1, P2).      *)
(* A received hold time of 1 or 2 s is left out: RFC 4271 6.2 has the OPEN *)
(* validation of the wire codec reject it before opensent sees it.         *)
(*                                                                         *)
(* Beside it, and independent of it, a session of two speakers, a and b:  *)
(* each configured as RFC 4271 asks (hold time 0 or at least 3 s,         *)
(* keepalive at most a third of it) and with at least one AFI/SAFI, each  *)
(* sends the OPEN buildopen makes, negotiates timers and route families   *)
(* with the one it receives (open2Cap) and arms its ticker.  Speaker b    *)
(* may instead be a speaker that sends no Capabilities parameter at all   *)
(* (RFC 4271 without RFC 5492) and so knows IPv4 unicast only.  The two   *)
(* experiments start from separate initial states, so that their state    *)
(* spaces add up instead of multiplying.                                  *)
(***************************************************************************)
EXTENDS Naturals, Negotiation

CONSTANTS
    MyHoldTenths,      \* configured hold times, tenths of a second
    MyKeepaliveTenths, \* configured keepalive intervals, tenths of a second
    PeerHoldSeconds,   \* hold times a remote OPEN may carry
    Families           \* the route families a neighbor may configure

FromTenths(t) == t * (TimeUnit \div 10)

VARIABLES
    myHold,     \* pConf.Timers.Config.HoldTime
    myKa,       \* pConf.Timers.Config.KeepaliveInterval
    peerHold,   \* body.HoldTime of the accepted OPEN
    negHold,    \* pConf.Timers.State.NegotiatedHoldTime
    kaInterval, \* pConf.Timers.State.KeepaliveInterval
    period,     \* the period of the armed ticker (NoDuration: none)
    step        \* opensent, openconfirm (negotiated), armed

VARIABLES
    sHold,      \* sHold[s]: speaker s's configured hold time
    sKa,        \* sKa[s]: speaker s's configured keepalive interval
    sNeg,       \* sNeg[s]: speaker s's NegotiatedHoldTime
    sKaInt,     \* sKaInt[s]: speaker s's KeepaliveInterval
    sPeriod,    \* sPeriod[s]: the period of speaker s's ticker
    sStep,      \* sStep[s]: opensent, openconfirm, armed
    sConf,      \* sConf[s]: the AFI/SAFIs configured for the neighbor
    sLegacy,    \* sLegacy[s]: s sends no capabilities
    sRf         \* sRf[s]: speaker s's rfMap

Sides == {"a", "b"}
Other(s) == IF s = "a" THEN "b" ELSE "a"

\* The configurations RFC 4271 4.2 and 10 allow: no hold timer, or one of
\* at least 3 s with a keepalive interval of at most a third of it.
ValidConfigs ==
    {c \in {FromTenths(t) : t \in MyHoldTenths} \X {FromTenths(t) : t \in MyKeepaliveTenths} :
        c[1] = 0 \/ (c[1] >= FromSeconds(3) /\ 3 * c[2] <= c[1])}

\* A neighbor's AFI/SAFI list, never empty here: what an empty list becomes
\* is decided by the config package's defaults, which are not in src.
AfiSafiConfigs == SUBSET Families \ {{}}

svars == <<sHold, sKa, sNeg, sKaInt, sPeriod, sStep, sConf, sLegacy, sRf>>
vars == <<myHold, myKa, peerHold, negHold, kaInterval, period, step, svars>>

SingleInit ==
    /\ myHold \in {FromTenths(t) : t \in MyHoldTenths}
    /\ myKa \in {FromTenths(t) : t \in MyKeepaliveTenths}
    /\ peerHold \in PeerHoldSeconds
    /\ negHold = 0 /\ kaInterval = 0 /\ period = NoDuration
    /\ step = "opensent"

SingleIdle ==
    /\ myHold = 0 /\ myKa = 0 /\ peerHold = 0
    /\ negHold = 0 /\ kaInterval = 0 /\ period = NoDuration
    /\ step = "none"

SessionInit ==
    /\ \E cfg \in [Sides -> ValidConfigs], conf \in [Sides -> AfiSafiConfigs],
          legacy \in BOOLEAN :
          /\ sHold = [s \in Sides |-> cfg[s][1]]
          /\ sKa = [s \in Sides |-> cfg[s][2]]
          /\ sLegacy = [s \in Sides |-> s = "b" /\ legacy]
          /\ sConf = [s \in Sides |-> IF sLegacy[s] THEN {RF_IPv4_UC} ELSE conf[s]]
    /\ sNeg = [s \in Sides |-> 0] /\ sKaInt = [s \in Sides |-> 0]
    /\ sPeriod = [s \in Sides |-> NoDuration]
    /\ sStep = [s \in Sides |-> "opensent"]
    /\ sRf = [s \in Sides |-> {}]

SessionIdle ==
    /\ sHold = [s \in Sides |-> 0] /\ sKa = [s \in Sides |-> 0]
    /\ sNeg = [s \in Sides |-> 0] /\ sKaInt = [s \in Sides |-> 0]
    /\ sPeriod = [s \in Sides |-> NoDuration]
    /\ sStep = [s \in Sides |-> "none"]
    /\ sConf = [s \in Sides |-> {}] /\ sLegacy = [s \in Sides |-> FALSE]
    /\ sRf = [s \in Sides |-> {}]

Init == \/ SingleInit /\ SessionIdle
        \/ SingleIdle /\ SessionInit

\* opensent accepts the OPEN: negotiate the hold time and the interval.
AcceptOpen ==
    /\ step = "opensent"
    /\ negHold' = NegotiatedHoldTime(myHold, FromSeconds(peerHold))
    /\ kaInterval' = KeepaliveInterval(negHold', myHold, myKa)
    /\ step' = "openconfirm"
    /\ UNCHANGED <<myHold, myKa, peerHold, period, svars>>

\* openconfirm (and later sendMessageloop) calls keepaliveTicker.
ArmTicker ==
    /\ step = "openconfirm"
    /\ period' = KeepalivePeriod(negHold, kaInterval)
    /\ step' = "armed"
    /\ UNCHANGED <<myHold, myKa, peerHold, negHold, kaInterval, svars>>

\* The OPEN speaker s sends: buildopen's, or one without capabilities.
SentOpen(s) ==
    IF sLegacy[s] THEN [holdTime |-> OpenHoldTime(sHold[s]), caps |-> {}]
    ELSE BuildOpen(sHold[s], sConf[s])

\* Speaker s in opensent accepts the OPEN the other speaker sent:
\* open2Cap, then the hold time and keepalive interval.  A speaker without
\* capabilities uses IPv4 unicast.
SideAccept(s) ==
    /\ sStep[s] = "opensent"
    /\ LET open == SentOpen(Other(s))
           neg == NegotiatedHoldTime(sHold[s], FromSeconds(open.holdTime))
       IN  /\ sRf' = [sRf EXCEPT ![s] = IF sLegacy[s] THEN {RF_IPv4_UC}
                                        ELSE Open2Cap(open.caps, sConf[s])]
           /\ sNeg' = [sNeg EXCEPT ![s] = neg]
           /\ sKaInt' = [sKaInt EXCEPT ![s] = KeepaliveInterval(neg, sHold[s], sKa[s])]
    /\ sStep' = [sStep EXCEPT ![s] = "openconfirm"]
    /\ UNCHANGED <<sHold, sKa, sPeriod, sConf, sLegacy>>
    /\ UNCHANGED <<myHold, myKa, peerHold, negHold, kaInterval, period, step>>

\* Speaker s in openconfirm arms its keepalive ticker.
SideArm(s) ==
    /\ sStep[s] = "openconfirm"
    /\ sPeriod' = [sPeriod EXCEPT ![s] = KeepalivePeriod(sNeg[s], sKaInt[s])]
    /\ sStep' = [sStep EXCEPT ![s] = "armed"]
    /\ UNCHANGED <<sHold, sKa, sNeg, sKaInt, sConf, sLegacy, sRf>>
    /\ UNCHANGED <<myHold, myKa, peerHold, negHold, kaInterval, period, step>>

Next == AcceptOpen \/ ArmTicker \/ \E s \in Sides : SideAccept(s) \/ SideArm(s)

Spec == Init /\ [][Next]_vars

-----------------------------------------------------------------------------
(* The rules of the specification, as reference definitions.               *)

\* P1: min(configured, received); 0 if either is 0.
SpecNegotiated(my, peer) ==
    IF my = 0 \/ peer = 0 THEN 0 ELSE IF my < peer THEN my ELSE peer

\* P2: negotiated/3 when configured > negotiated, else the configured
\* keepalive interval.
SpecInterval(neg, my, ka) == IF my > neg THEN neg \div 3 ELSE ka

\* A Duration is at most u model time units (a nanosecond is less than one).
DurationAtMost(d, u) ==
    IF d.nsec = 0 THEN d.sec * TimeUnit <= u ELSE d.sec * TimeUnit < u

\* P1: the hold time opensent stores is the smaller of the two, and 0 as
\* soon as either side asks for no hold timer.
HoldIsMinimum ==
    step \in {"openconfirm", "armed"} =>
        negHold = SpecNegotiated(myHold, FromSeconds(peerHold))

\* P2: the ticker keepaliveTicker arms never ticks more slowly than the
\* interval the specification asks for (float truncation only shortens it),
\* so the remote's hold timer is refreshed at least as often as agreed.
KeepaliveNotSlowerThanSpecified ==
    (step = "armed" /\ negHold # 0) =>
        DurationAtMost(period, SpecInterval(negHold, myHold, myKa))

\* A session of two speakers of this code keeps itself up: once a speaker
\* has armed its ticker and the other one runs a hold timer, the ticker
\* fires at least three times per period of that hold timer, as RFC 4271
\* 4.4 and 10 ask.  Each side negotiates with the truncated hold time the
\* other side's buildopen sent and truncates its own hold timer, so the
\* two sides need not agree on the hold time.
SessionTimersCompatible ==
    \A s \in Sides :
        LET o == Other(s) IN
        (/\ sStep[s] = "armed" /\ sStep[o] \in {"openconfirm", "armed"}
         /\ ~sLegacy[s] /\ ~sLegacy[o] /\ sNeg[o] # 0) =>
            /\ sPeriod[s] # NoDuration
            /\ DurationAtMost(sPeriod[s], FromSeconds(HoldTimerSeconds(sNeg[o])) \div 3)

\* The two ends of a session agree on the route families: each has
\* negotiated the same rfMap, which is what ValidateUpdateMsg checks an
\* incoming UPDATE against, so neither sends an UPDATE of a family the
\* other rejects as malformed, also when one side announces no
\* capabilities at all (open2Cap's IPv4-unicast fallback).
FamiliesAgree ==
    \A s \in Sides :
        sStep[s] \in {"openconfirm", "armed"} /\ sStep[Other(s)] \in {"openconfirm", "armed"}
            => sRf[s] = sRf[Other(s)]

\* P2: the armed ticker is never sub-second ("clamp zero to one second").
KeepaliveNeverSubSecond ==
    (step = "armed" /\ negHold # 0) => period.sec >= 1
=============================================================================
