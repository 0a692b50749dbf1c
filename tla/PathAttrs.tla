----------------------------- MODULE PathAttrs -----------------------------
(***************************************************************************)
(* table.Path of src/table/path.go: a path is a node with its own          *)
(* pathAttrs (a list of attributes), its own dels (a list of attribute     *)
(* types) and a parent; the origin information (info) is set on the root   *)
(* only.  Clone makes a child with empty lists; getPathAttr and            *)
(* GetPathAttrs walk from the node to the root, and a node's dels hide     *)
(* the types it lists, its own pathAttrs included.  setPathAttr and        *)
(* delPathAttr change the node's own lists only.                           *)
(*                                                                         *)
(* The operations of path.go that change attributes (UpdatePathAttrs,      *)
(* PrependAsn, SetNexthop, SetCommunities, RemoveCommunities, SetMed) read *)
(* attributes with getPathAttr and write them with setPathAttr and         *)
(* delPathAttr.  Each reads and writes different types, so a read never    *)
(* sees a write of the same call: an operation is its list of edits,       *)
(* computed from the node's attributes before the call, applied in the    *)
(* order the code makes them.  Nodes are the numbers 1..Len; an attribute  *)
(* is a record [type, val] whose val abstracts the wire value to what the  *)
(* rules read: a next hop is an address name, an AS_PATH the segment list  *)
(* of module AsPath, a list attribute a sequence.                          *)
(***************************************************************************)
EXTENDS Naturals, Integers, Sequences, SequencesExt, AsPath

CONSTANTS
    Nodes,       \* 1..MaxNodes: the Path objects that may exist
    NoAttr,      \* nil: no attribute of the type
    LocalAs,     \* global.Config.As
    LocalAddr,   \* peer.Transport.Config.LocalAddress
    ClusterId,   \* peer.RouteReflector.Config.RouteReflectorClusterId
    MedMod       \* 2^32, the range of the uint32 MED

NH == "NEXT_HOP"
MP == "MP_REACH_NLRI"
ASP == "AS_PATH"
MED == "MULTI_EXIT_DISC"
LP == "LOCAL_PREF"
COMM == "COMMUNITIES"
ORIG == "ORIGINATOR_ID"
CL == "CLUSTER_LIST"

Types == {NH, MP, ASP, MED, LP, COMM, ORIG, CL}

\* The unspecified addresses 0.0.0.0 and ::.
Unspecified == {"0.0.0.0", "::"}

VARIABLES
    pathAttrs,   \* pathAttrs[n]: the node's own attribute list
    dels,        \* dels[n]: the node's own deleted types
    parent,      \* parent[n]: the node it was cloned from, 0 for a root
    info,        \* info[n]: a root's origin [source, nlri]; NoAttr else
    count        \* nodes 1..count exist

-----------------------------------------------------------------------------
(* Reading                                                                 *)

\* root and OriginInfo: the origin lives at the root.
RECURSIVE Root(_)
Root(n) == IF parent[n] = 0 THEN n ELSE Root(parent[n])

\* IsLocal: the source has no address, i.e. the path was made locally.
IsLocal(n) == info[Root(n)].source.local

\* Mutant: only the dels of the node itself hide an attribute.
RECURSIVE FindAttr(_, _)
FindAttr(n, typ) ==
    LET own == SelectSeq(pathAttrs[n], LAMBDA a : a.type = typ)
    IN  IF own # <<>> THEN own[1].val
        ELSE IF parent[n] = 0 THEN NoAttr ELSE FindAttr(parent[n], typ)

getPathAttrOwnDels(n, typ) ==
    IF \E i \in DOMAIN dels[n] : dels[n][i] = typ THEN NoAttr ELSE FindAttr(n, typ)

\* getPathAttr: at each node from n to the root, a deleted type ends the
\* search with nil before the node's own attributes are looked at.
RECURSIVE getPathAttr(_, _)
getPathAttr(n, typ) ==
    LET own == SelectSeq(pathAttrs[n], LAMBDA a : a.type = typ)
    IN  IF \E i \in DOMAIN dels[n] : dels[n][i] = typ THEN NoAttr
        ELSE IF own # <<>> THEN own[1].val
        ELSE IF parent[n] = 0 THEN NoAttr
        ELSE getPathAttr(parent[n], typ)

\* Every attribute the path shows, as getPathAttr finds it.
View(n) == [t \in Types |-> getPathAttr(n, t)]

\* Mutant: a listed type is not flagged as seen.
RECURSIVE WalkNoFlag(_, _, _)
WalkNoFlag(n, seen, list) ==
    LET step(acc, a) == IF a.type \in acc.seen THEN acc
                        ELSE [acc EXCEPT !.list = Append(@, a)]
        r == FoldLeft(step, [seen |-> seen \cup Range(dels[n]), list |-> list],
                      pathAttrs[n])
    IN  IF parent[n] = 0 THEN r.list ELSE WalkNoFlag(parent[n], r.seen, r.list)

\* The walk of GetPathAttrs with its seen bitmap: flag the node's dels,
\* then list and flag each attribute whose type is not flagged yet.
RECURSIVE Walk(_, _, _)
Walk(n, seen, list) ==
    LET step(acc, a) == IF a.type \in acc.seen THEN acc
                        ELSE [seen |-> acc.seen \cup {a.type},
                              list |-> Append(acc.list, a)]
        r == FoldLeft(step, [seen |-> seen \cup Range(dels[n]), list |-> list],
                      pathAttrs[n])
    IN  IF parent[n] = 0 THEN r.list ELSE Walk(parent[n], r.seen, r.list)

\* GetPathAttrs: the attribute list sent on the wire.
GetPathAttrs(n) == Walk(n, {}, <<>>)

\* GetNexthop: NEXT_HOP, else the next hop of MP_REACH_NLRI, else none.
GetNexthop(get) ==
    IF get[NH] # NoAttr THEN get[NH]
    ELSE IF get[MP] # NoAttr THEN get[MP] ELSE "none"

\* GetAsPath: the AS_PATH the path shows.
GetAsPath(get) == get[ASP]

\* GetAsPathLen: the path length, the sum of the segments' ASLen.
GetAsPathLen(get) == IF GetAsPath(get) = NoAttr THEN 0 ELSE PathLen(GetAsPath(get))

\* getAsListofSpecificType: the ASes of the sequences (getAsSeq) and of
\* the sets (getAsSet) in path order, and a 0 for every other segment.
getAsListofSpecificType(get, getAsSeq, getAsSet) ==
    LET step(list, seg) ==
            IF (getAsSeq /\ seg.type = SEQ) \/ (getAsSet /\ seg.type = SET)
            THEN list \o seg.as ELSE Append(list, 0)
    IN  IF GetAsPath(get) = NoAttr THEN <<>> ELSE FoldLeft(step, <<>>, GetAsPath(get))

GetAsList(get) == getAsListofSpecificType(get, TRUE, TRUE)

-----------------------------------------------------------------------------
(* Writing                                                                 *)

Set(t, v) == [op |-> "set", t |-> t, v |-> v]
Del(t) == [op |-> "del", t |-> t, v |-> NoAttr]

\* Mutant: the new attribute is always appended.
setPathAttrAppend(list, a) == Append(list, a)

\* setPathAttr: replace the node's own attribute of the type, else append.
setPathAttr(list, a) ==
    LET i == SelectInSeq(list, LAMBDA b : b.type = a.type)
    IN  IF i = 0 THEN Append(list, a) ELSE [list EXCEPT ![i] = a]

\* delPathAttr: append the type to the node's dels.
delPathAttr(list, typ) == Append(list, typ)

\* The edits of one call applied to node n, in their order.
ApplyToNode(n, E) ==
    LET step(acc, e) ==
            IF e.op = "set"
            THEN [acc EXCEPT !.attrs = setPathAttr(@, [type |-> e.t, val |-> e.v])]
            ELSE [acc EXCEPT !.dels = delPathAttr(@, e.t)]
        r == FoldLeft(step, [attrs |-> pathAttrs[n], dels |-> dels[n]], E)
    IN  /\ pathAttrs' = [pathAttrs EXCEPT ![n] = r.attrs]
        /\ dels' = [dels EXCEPT ![n] = r.dels]

-----------------------------------------------------------------------------
(* The operations, as the edits they make given the attributes get the    *)
(* path shows before the call.                                             *)

\* Mutant: the next hop of MP_REACH_NLRI is left alone.
SetNexthopNoMp(get, nexthop) ==
    IF get[NH] # NoAttr THEN <<Set(NH, nexthop)>> ELSE <<>>

\* SetNexthop: rewrite NEXT_HOP and the next hop of MP_REACH_NLRI where
\* the path has them.
SetNexthop(get, nexthop) ==
    (IF get[NH] # NoAttr THEN <<Set(NH, nexthop)>> ELSE <<>>)
    \o (IF get[MP] # NoAttr THEN <<Set(MP, nexthop)>> ELSE <<>>)

Repeat(asn, k) == [i \in 1..k |-> asn]

\* Mutant: the ASes go behind those of the leading sequence.
PrependAsnAppend(get, asn, repeat) ==
    LET segs == IF get[ASP] = NoAttr THEN <<>> ELSE get[ASP]
        fstSeq == segs # <<>> /\ segs[1].type = SEQ
        inFst == IF ~fstSeq THEN 0
                 ELSE IF Len(segs[1].as) + repeat > SegMax
                      THEN SegMax - Len(segs[1].as) ELSE repeat
        grown == IF fstSeq THEN [segs EXCEPT ![1].as = @ \o Repeat(asn, inFst)]
                 ELSE segs
        rest == repeat - inFst
    IN  <<Set(ASP, IF rest > 0 THEN <<[type |-> SEQ, as |-> Repeat(asn, rest)]>> \o grown
                   ELSE grown)>>

\* PrependAsn: on a copy of AS_PATH (an empty one if there is none), put
\* as many of the repeat ASes as fit under SegMax in front of a leading
\* sequence, the rest (asns[repeat:]) in a new leading sequence.  asns is
\* made with capacity repeat, so when the first segment and the ASes put in
\* front of it fit in that capacity, append(asns[:repeat], fst.AS...)
\* writes fst.AS into asns itself and the rest reads those ASes.  repeat is
\* a uint8, whose largest value is the segment limit SegMax.
PrependAsn(get, asn, repeat) ==
    LET segs == IF get[ASP] = NoAttr THEN <<>> ELSE get[ASP]
        fstSeq == segs # <<>> /\ segs[1].type = SEQ
        fst == IF fstSeq THEN segs[1].as ELSE <<>>
        r == IF Len(fst) + repeat > SegMax THEN SegMax - Len(fst) ELSE repeat
        inPlace == fstSeq /\ r + Len(fst) <= repeat
        rest == IF ~fstSeq THEN Repeat(asn, repeat)
                ELSE [i \in 1..repeat - r |->
                        IF inPlace /\ i <= Len(fst) THEN fst[i] ELSE asn]
        grown == IF fstSeq THEN [segs EXCEPT ![1].as = Repeat(asn, r) \o @]
                 ELSE segs
    IN  <<Set(ASP, IF rest # <<>> THEN <<[type |-> SEQ, as |-> rest]>> \o grown
                   ELSE grown)>>

\* UpdatePathAttrs for a peer: nothing for a route-server client; for an
\* external peer next hop, AS prepend, MED and LOCAL_PREF removal; for an
\* internal peer next hop of local paths, an empty AS_PATH if none,
\* LOCAL_PREF 100 and, towards a route-reflector client, ORIGINATOR_ID and
\* CLUSTER_LIST.
UpdatePathAttrs(get, local, id, peer) ==
    IF peer.rsClient THEN <<>>
    ELSE IF peer.type = "external"
    THEN SetNexthop(get, LocalAddr) \o PrependAsn(get, LocalAs, 1)
         \o (IF get[MED] # NoAttr /\ ~local THEN <<Del(MED)>> ELSE <<>>)
         \o (IF get[LP] # NoAttr /\ ~peer.confed THEN <<Del(LP)>> ELSE <<>>)
    ELSE (IF local /\ GetNexthop(get) \in Unspecified
          THEN SetNexthop(get, LocalAddr) ELSE <<>>)
         \o (IF get[ASP] = NoAttr THEN PrependAsn(get, 0, 0) ELSE <<>>)
         \o (IF get[LP] = NoAttr \/ ~local THEN <<Set(LP, 100)>> ELSE <<>>)
         \o (IF ~peer.rrClient THEN <<>>
             ELSE (IF get[ORIG] = NoAttr THEN <<Set(ORIG, id)>> ELSE <<>>)
                  \o <<Set(CL, <<ClusterId>> \o (IF get[CL] = NoAttr THEN <<>>
                                                 ELSE get[CL]))>>)

\* SetCommunities: an empty list with doReplace deletes the attribute;
\* otherwise the new list replaces or extends the present one.
SetCommunities(get, communities, doReplace) ==
    IF communities = <<>> /\ doReplace THEN <<Del(COMM)>>
    ELSE <<Set(COMM, IF get[COMM] # NoAttr /\ ~doReplace
                     THEN get[COMM] \o communities ELSE communities)>>

\* RemoveCommunities: drop the given values; the attribute goes when
\* none is left.
RemoveCommunities(get, communities) ==
    LET newList == SelectSeq(get[COMM], LAMBDA c : c \notin Range(communities))
    IN  IF communities = <<>> \/ get[COMM] = NoAttr THEN <<>>
        ELSE IF newList # <<>> THEN <<Set(COMM, newList)>> ELSE <<Del(COMM)>>

\* SetMed: with doReplace the uint32 of med; otherwise the sum with the
\* present MED (0 if none), refused below 0 and above the uint32 range.
SetMed(get, med, doReplace) ==
    LET org == IF get[MED] = NoAttr THEN 0 ELSE get[MED]
    IN  IF doReplace THEN <<Set(MED, med % MedMod)>>
        ELSE IF org + med < 0 \/ org + med > MedMod - 1 THEN <<>>
        ELSE <<Set(MED, org + med)>>

\* The edits of operation op on a path showing get, with origin src.
Edits(op, get, src) ==
    CASE op.kind = "update"     -> UpdatePathAttrs(get, src.local, src.id, op.peer)
      [] op.kind = "prepend"    -> PrependAsn(get, op.asn, op.repeat)
      [] op.kind = "nexthop"    -> SetNexthop(get, op.nexthop)
      [] op.kind = "setComm"    -> SetCommunities(get, op.comms, op.replace)
      [] op.kind = "removeComm" -> RemoveCommunities(get, op.comms)
      [] op.kind = "setMed"     -> SetMed(get, op.med, op.replace)

-----------------------------------------------------------------------------
(* The life of a path.  A root is made by NewPath from a parsed UPDATE or  *)
(* a local route; the callers (policy and egress processing, outside this  *)
(* file) clone a path and change the clone only, and a path that has been  *)
(* cloned is no longer changed.  With CallerDiscipline, a clone receives   *)
(* either one UpdatePathAttrs or the actions of one policy statement, at   *)
(* most one per attribute family: the assumption made about the callers.   *)

CONSTANTS
    Roots,            \* the [attrs, source, nlri] a root may be made with
    Operations,       \* the calls that may be made on a clone
    OpsPerNode,       \* bound on the calls made on one clone
    CallerDiscipline  \* whether the callers' one-per-family rule holds

VARIABLES
    withdraw,         \* withdraw[n]: the IsWithdraw field of node n
    applied           \* applied[n]: the calls made on node n, in order

vars == <<pathAttrs, dels, parent, info, count, withdraw, applied>>

Family(op) == IF op.kind \in {"setComm", "removeComm"} THEN "comm" ELSE op.kind

MayApply(n, op) ==
    CallerDiscipline =>
        \/ applied[n] = <<>>
        \/ /\ op.kind # "update"
           /\ \A i \in DOMAIN applied[n] :
                 /\ applied[n][i].kind # "update"
                 /\ Family(applied[n][i]) # Family(op)

Init ==
    /\ count = 0
    /\ pathAttrs = [n \in Nodes |-> <<>>]
    /\ info = [n \in Nodes |-> NoAttr]
    /\ dels = [n \in Nodes |-> <<>>]
    /\ parent = [n \in Nodes |-> 0]
    /\ withdraw = [n \in Nodes |-> FALSE]
    /\ applied = [n \in Nodes |-> <<>>]

\* NewPath: a root announcing r.nlri with the attributes r.attrs and the
\* origin information (nlri, source) of r.
NewPath(r) ==
    /\ count + 1 \in Nodes
    /\ pathAttrs' = [pathAttrs EXCEPT ![count + 1] = r.attrs]
    /\ info' = [info EXCEPT ![count + 1] = [source |-> r.source, nlri |-> r.nlri]]
    /\ count' = count + 1
    /\ UNCHANGED <<dels, parent, withdraw, applied>>

HasChild(n) == \E m \in 1..count : parent[m] = n

\* Clone(isWithdraw): a new child of n with no attributes and no dels of
\* its own.
Clone(n, isWithdraw) ==
    /\ count + 1 \in Nodes
    /\ parent' = [parent EXCEPT ![count + 1] = n]
    /\ withdraw' = [withdraw EXCEPT ![count + 1] = isWithdraw]
    /\ count' = count + 1
    /\ UNCHANGED <<pathAttrs, dels, info, applied>>

\* A call of op on the clone n, which has not been cloned itself.
Operate(n, op) ==
    /\ parent[n] # 0
    /\ ~HasChild(n)
    /\ Len(applied[n]) < OpsPerNode
    /\ MayApply(n, op)
    /\ ApplyToNode(n, Edits(op, View(n), info[Root(n)].source))
    /\ applied' = [applied EXCEPT ![n] = Append(@, op)]
    /\ UNCHANGED <<parent, info, count, withdraw>>

Next ==
    \/ \E r \in Roots : NewPath(r)
    \/ \E n \in 1..count :
          \/ \E w \in BOOLEAN : Clone(n, w)
          \/ \E op \in Operations : Operate(n, op)

Spec == Init /\ [][Next]_vars
=============================================================================
