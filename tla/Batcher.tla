------------------------------ MODULE Batcher ------------------------------
(***************************************************************************)
(* The UPDATE batcher of package table (src/unnamed/part_001):             *)
(* createUpdateMsgFromPath and CreateUpdateMsgFromPaths, applied to the    *)
(* paths of module PathAttrs.                                              *)
(*                                                                         *)
(* A message is a record [withdrawn, attrs, nlri, mp]: the IPv4 withdrawn  *)
(* routes, the path attributes, the IPv4 NLRI and the prefixes carried in  *)
(* the value of MP_REACH_NLRI or MP_UNREACH_NLRI.  The value of a path's   *)
(* MP_REACH_NLRI is taken to list the path's own prefix.  Serialized       *)
(* attribute bytes are the attribute list itself (equal bytes, equal       *)
(* lists); the fnv hash of them is Key, a coarse function, so that lists   *)
(* that differ share a key as they may under fnv.  The buckets of the map  *)
(* pathByAttrs are kept in the order their keys were first met: Go         *)
(* iterates a map in an unspecified order, and the properties checked on   *)
(* the result do not depend on the order of the buckets.                   *)
(***************************************************************************)
EXTENDS PathAttrs

CONSTANT MaxMsgLen   \* bgp.BGP_MAX_MESSAGE_LENGTH, 4096

MPU == "MP_UNREACH_NLRI"

\* GetRouteFamily and GetNlri read the origin information at the root.
RouteFamily(n) == info[Root(n)].nlri.family
Nlri(n) == info[Root(n)].nlri.prefix

Msg(w, attrs, nlri, mp) == [withdrawn |-> w, attrs |-> attrs, nlri |-> nlri, mp |-> mp]

\* createUpdateMsgFromPath(path, nil): the message of one path.  An MP
\* withdrawal carries the path's attributes with the first MP_REACH_NLRI
\* or MP_UNREACH_NLRI replaced by an MP_UNREACH_NLRI of the same prefixes.
createUpdateMsgFromPath(n) ==
    LET attrs == GetPathAttrs(n)
        i == SelectInSeq(attrs, LAMBDA a : a.type \in {MP, MPU})
        unreach == IF i = 0 THEN attrs
                   ELSE [attrs EXCEPT ![i] = [type |-> MPU, val |-> <<Nlri(n)>>]]
    IN  CASE RouteFamily(n) = "ipv4" /\ withdraw[n]  -> Msg(<<Nlri(n)>>, <<>>, <<>>, <<>>)
          [] RouteFamily(n) = "ipv4" /\ ~withdraw[n] -> Msg(<<>>, attrs, <<Nlri(n)>>, <<>>)
          [] RouteFamily(n) # "ipv4" /\ withdraw[n]  -> Msg(<<>>, unreach, <<>>, <<Nlri(n)>>)
          [] OTHER                                   -> Msg(<<>>, attrs, <<>>, <<Nlri(n)>>)

\* createUpdateMsgFromPath(path, msg) for an IPv4 announcement, the only
\* kind CreateUpdateMsgFromPaths merges: the prefix joins msg's NLRI.
MergePath(msg, n) == [msg EXCEPT !.nlri = Append(@, Nlri(n))]

\* PathAttributeInterface.Len of the packet library: a 3-octet header and
\* the value (4 octets per address, number or community; 2 octets per AS
\* path segment header; the MP_REACH_NLRI value of an IPv6 next hop).
AttrLen(a) ==
    3 + CASE a.type \in {NH, MED, LP, ORIG} -> 4
          [] a.type \in {COMM, CL}          -> 4 * Len(a.val)
          [] a.type = ASP -> FoldSeq(LAMBDA s, acc : 2 + 4 * Len(s.as) + acc, 0, a.val)
          [] OTHER        -> 21

AttrsLen(attrs) == FoldSeq(LAMBDA a, acc : AttrLen(a) + acc, 0, attrs)

\* The length the message would have with one more NLRI, each NLRI
\* counted at its maximum of 5 octets.
Estimate(msg) == 19 + 2 + 2 + AttrsLen(msg.attrs) + (Len(msg.nlri) + 1) * 5

\* The fnv32 key of the serialized attributes.
Key(attrs) == Len(attrs)

\* Mutant: a path joins the first bucket of its key, whatever its attributes.
AddPathNoCompare(buckets, n) ==
    LET attrs == GetPathAttrs(n)
        i == SelectInSeq(buckets, LAMBDA b : b.key = Key(attrs))
    IN  IF i = 0 THEN Append(buckets, [key |-> Key(attrs), attrs |-> attrs, paths |-> <<n>>])
        ELSE [buckets EXCEPT ![i].paths = Append(@, n)]

\* A batched path joins the bucket of its key whose attribute bytes are
\* equal to its own, else starts a new bucket under that key.
AddPath(buckets, n) ==
    LET attrs == GetPathAttrs(n)
        i == SelectInSeq(buckets, LAMBDA b : b.key = Key(attrs) /\ b.attrs = attrs)
    IN  IF i = 0 THEN Append(buckets, [key |-> Key(attrs), attrs |-> attrs, paths |-> <<n>>])
        ELSE [buckets EXCEPT ![i].paths = Append(@, n)]

\* The messages of one bucket: the first path starts a message; each next
\* one joins the last message unless the estimate with the 32-octet margin
\* passes the maximum length, and then starts a new one.
EmitBucket(msgs, b) ==
    LET step(acc, n) ==
            IF Estimate(Last(acc)) + 32 > MaxMsgLen
            THEN Append(acc, createUpdateMsgFromPath(n))
            ELSE [acc EXCEPT ![Len(acc)] = MergePath(@, n)]
    IN  FoldLeft(step, Append(msgs, createUpdateMsgFromPath(Head(b.paths))), Tail(b.paths))

\* CreateUpdateMsgFromPaths: withdrawals and paths of other families get a
\* message each, in list order; IPv4 announcements are bucketed by their
\* attributes and the buckets emitted after them.
CreateUpdateMsgFromPaths(list) ==
    LET batched(n) == RouteFamily(n) = "ipv4" /\ ~withdraw[n]
        alone == SelectSeq(list, LAMBDA n : ~batched(n))
        standalone == [i \in DOMAIN alone |-> createUpdateMsgFromPath(alone[i])]
        buckets == FoldLeft(AddPath, <<>>, SelectSeq(list, batched))
    IN  FoldLeft(EmitBucket, standalone, buckets)
=============================================================================
