---------------------------- MODULE MCPathAttrs ----------------------------
(***************************************************************************)
(* Model of modules PathAttrs and Batcher for TLC: roots made from three   *)
(* paths (a local route, one learned over iBGP with an MP_REACH next hop,  *)
(* one learned over eBGP with a full leading AS sequence), announce and    *)
(* withdraw clones of them and the calls of path.go on the clones; the     *)
(* refinement of AbsPath (what each path handle shows is its own attribute *)
(* map, changed only by the edits of the calls made on it); and the        *)
(* UPDATE messages CreateUpdateMsgFromPaths makes of all the paths.        *)
(***************************************************************************)
EXTENDS Batcher

CONSTANT Repeats   \* the repeat counts a policy AS prepend may have

Local == [local |-> TRUE, id |-> "self"]
Learned == [local |-> FALSE, id |-> "r2"]

A(t, v) == [type |-> t, val |-> v]

\* An IPv4 prefix of the local route; an IPv6 prefix learned over iBGP;
\* an IPv4 prefix learned over eBGP.
LocalAttrs == <<A(NH, "0.0.0.0"), A(MED, 1), A(COMM, <<1>>)>>

MCRoots ==
  { [attrs |-> LocalAttrs, source |-> Local, nlri |-> [prefix |-> "p1", family |-> "ipv4"]],
    [attrs |-> <<A(MP, "2001::1"), A(ASP, <<[type |-> SEQ, as |-> <<1>>]>>),
                 A(LP, 200), A(MED, 3), A(COMM, <<1, 2>>)>>,
     source |-> Learned, nlri |-> [prefix |-> "p6", family |-> "ipv6"]],
    [attrs |-> <<A(NH, "10.0.0.1"), A(ASP, <<[type |-> SEQ, as |-> <<1, 2>>]>>),
                 A(ORIG, "o1"), A(CL, <<"c1">>)>>,
     source |-> Learned, nlri |-> [prefix |-> "p3", family |-> "ipv4"]] }

Peer(t, confed, rr, rs) ==
    [type |-> t, confed |-> confed, rrClient |-> rr, rsClient |-> rs]

MCPeers ==
    { Peer("external", FALSE, FALSE, FALSE), Peer("external", TRUE, FALSE, FALSE),
      Peer("internal", FALSE, FALSE, FALSE), Peer("internal", FALSE, TRUE, FALSE),
      Peer("internal", FALSE, FALSE, TRUE) }

MCOperations ==
    {[kind |-> "update", peer |-> p] : p \in MCPeers}
    \cup {[kind |-> "prepend", asn |-> 7, repeat |-> r] : r \in Repeats}
    \cup {[kind |-> "nexthop", nexthop |-> "n1"]}
    \cup {[kind |-> "setComm", comms |-> c, replace |-> b] :
              <<c, b>> \in {<<<<>>, TRUE>>, <<<<3>>, TRUE>>, <<<<3>>, FALSE>>}}
    \cup {[kind |-> "removeComm", comms |-> c] : c \in {<<1>>}}
    \cup {[kind |-> "setMed", med |-> m, replace |-> b] :
              <<m, b>> \in {<<-1, TRUE>>, <<-1, FALSE>>}}

\* The calls a policy statement makes (no UpdatePathAttrs).
MCPolicyOperations == {op \in MCOperations : op.kind # "update"}

-----------------------------------------------------------------------------
(* Refinement                                                              *)

\* The map a root's attribute list shows.
MapOf(list) ==
    [t \in Types |-> LET own == SelectSeq(list, LAMBDA a : a.type = t)
                     IN  IF own = <<>> THEN NoAttr ELSE own[1].val]

\* The edits of a call, given the origin [source, nlri] of the path.
OriginEdits(c, m, origin) == Edits(c, m, origin.source)

Abs == INSTANCE AbsPath WITH
    Handles <- Nodes, InitMaps <- {MapOf(r.attrs) : r \in Roots},
    Sources <- {[source |-> r.source, nlri |-> r.nlri] : r \in Roots},
    NoSource <- NoAttr, Calls <- Operations,
    EditsOf <- OriginEdits, calls <- applied,
    attrs <- [h \in Nodes |-> View(h)],
    src <- [h \in Nodes |-> info[Root(h)]]

\* The parent chain with its dels implements a map per path handle: a
\* clone shows what its parent showed, and setPathAttr and delPathAttr on
\* a clone change what that clone shows, and nothing else, exactly as the
\* edits of the call say.
AbsSpec == Abs!Spec

-----------------------------------------------------------------------------
(* Properties of the attribute walk and of the rewrites                    *)

\* GetPathAttrs, the list that is sent on the wire, has exactly one entry
\* for each type getPathAttr finds, holding the attribute getPathAttr finds.
AttrListAgrees ==
    \A n \in 1..count :
        LET list == GetPathAttrs(n)
        IN  /\ Len(list) = Cardinality({t \in Types : View(n)[t] # NoAttr})
            /\ \A i \in DOMAIN list : View(n)[list[i].type] = list[i].val

\* The call just made on node n, if one was made in this step.
Called(n) == Len(applied'[n]) > Len(applied[n])
CallOf(n) == Last(applied'[n])

\* How often the AS list of GetAsList holds as.
Occurrences(get, as) == Len(SelectSeq(GetAsList(get), LAMBDA x : x = as))

\* The AS path as loop detection and path length read it: each AS of a
\* sequence, each set as one element.
SegView(asp) ==
    IF asp = NoAttr THEN <<>>
    ELSE FlattenSeq([j \in DOMAIN asp |->
            IF asp[j].type = SEQ
            THEN [k \in DOMAIN asp[j].as |-> <<SEQ, asp[j].as[k]>>]
            ELSE <<<<asp[j].type, Range(asp[j].as)>>>>])

\* P6: UpdatePathAttrs towards an eBGP peer that is not a route-server
\* client leaves the next hop at the local address, the local AS as the
\* left-most AS of GetAsList, once more than before, a path length
\* (GetAsPathLen) one more than before, and no MED unless the path is local.
EbgpEgressRewrites ==
    [][\A n \in Nodes :
          Called(n) /\ CallOf(n).kind = "update"
          /\ CallOf(n).peer.type = "external" /\ ~CallOf(n).peer.rsClient =>
            /\ GetNexthop(View(n)') = LocalAddr
            /\ GetAsList(View(n)')[1] = LocalAs
            /\ Occurrences(View(n)', LocalAs) = Occurrences(View(n), LocalAs) + 1
            /\ GetAsPathLen(View(n)') = GetAsPathLen(View(n)) + 1
            /\ (View(n)'[MED] # NoAttr => IsLocal(n))]_vars

\* PrependAsn(asn, repeat) puts repeat copies of asn, as a sequence, in
\* front of the AS path and leaves the rest of it as it was (spec 4.3,
\* RFC 4271 5.1.2).
PrependRepeats ==
    [][\A n \in Nodes :
          Called(n) /\ CallOf(n).kind = "prepend" =>
            SegView(View(n)'[ASP])
              = [i \in 1..CallOf(n).repeat |-> <<SEQ, CallOf(n).asn>>]
                \o SegView(View(n)[ASP])]_vars

\* Spec 4.3: towards an iBGP peer, a path from a non-local source that
\* already carries LOCAL_PREF keeps it.
IbgpLocalPrefKept ==
    [][\A n \in Nodes :
          Called(n) /\ CallOf(n).kind = "update"
          /\ CallOf(n).peer.type = "internal" /\ ~CallOf(n).peer.rsClient
          /\ ~IsLocal(n) /\ View(n)[LP] # NoAttr =>
            View(n)'[LP] = View(n)[LP]]_vars

-----------------------------------------------------------------------------
(* The UPDATE batcher on the paths                                         *)

\* What a message says of each prefix it carries: announced or withdrawn,
\* with the message's attributes.
Entries(m) ==
    LET unreach == \E i \in DOMAIN m.attrs : m.attrs[i].type = MPU
        e(p, w) == [prefix |-> p, withdrawn |-> w, attrs |-> m.attrs]
    IN  [i \in DOMAIN m.withdrawn |-> e(m.withdrawn[i], TRUE)]
        \o [i \in DOMAIN m.nlri |-> e(m.nlri[i], FALSE)]
        \o [i \in DOMAIN m.mp |-> e(m.mp[i], unreach)]

EntriesOf(msgs) == FlattenSeq([i \in DOMAIN msgs |-> Entries(msgs[i])])

\* The paths the batcher is given: every path, in the order made.
Outgoing == [i \in 1..count |-> i]

\* CreateUpdateMsgFromPaths loses, duplicates and re-attributes no path:
\* its messages say the same of each prefix, as often, as sending every
\* path in a message of its own, although the fnv key of two different
\* attribute lists may be the same and a bucket may be split at the
\* maximum message length.
UpdatesCarryPaths ==
    ToBag(EntriesOf(CreateUpdateMsgFromPaths(Outgoing)))
      = ToBag(EntriesOf([i \in 1..count |-> createUpdateMsgFromPath(i)]))
=============================================================================
