------------------------------ MODULE MCAsPath ------------------------------
(***************************************************************************)
(* An UPDATE crossing 2-octet-AS speakers (RFC 6793 4.2): a NEW speaker    *)
(* sends a route to an OLD peer, so UpdatePathAttrs2ByteAs turns its       *)
(* AS_PATH into 2-octet form and adds AS4_PATH; OLD speakers pass AS4_PATH *)
(* on untouched (an optional transitive attribute they do not know),       *)
(* prepend their own AS to AS_PATH and may emit the attributes in any      *)
(* order (RFC 4271 5: the receiver MUST accept any order); a NEW speaker   *)
(* receives the UPDATE and UpdatePathAttrs4ByteAs rebuilds the path.  The  *)
(* variable truth is the path the same prepends make of the 4-octet path,  *)
(* the one RFC 6793 4.2.3 means to reconstruct.                            *)
(***************************************************************************)
EXTENDS Naturals, Sequences, SequencesExt, AsPath

CONSTANTS
    Ases,          \* AS numbers of the original path, some above 65535
    OldAs,         \* the AS of the OLD speakers (a 2-octet number)
    FirstTypes,    \* types the first segment of the original path may have
    SegLens,       \* lengths a segment of the original path may have
    PrependKinds,  \* "ext": OLD speakers in other ASes; "confed": OLD
                   \* members of the receiver's confederation
    MaxPrepends,   \* how many OLD speakers prepend
    Reorder        \* whether an OLD speaker may reorder the attributes

VARIABLES
    truth,     \* the 4-octet path with the OLD speakers' prepends
    wire,      \* the attribute list of the UPDATE in transit
    prepends,  \* OLD speakers that prepended so far
    result,    \* the outcome of UpdatePathAttrs4ByteAs at the receiver
    phase      \* "origin", "old", "received", "done"

vars == <<truth, wire, prepends, result, phase>>

Segments(types) ==
    {[type |-> t, as |-> s] : t \in types,
                              s \in UNION {[1..n -> Ases] : n \in SegLens}}

\* RFC 4271 5.1.2 starts a new sequence only when the leading one is full.
CanFollow(s, t) == ~(s.type = SEQ /\ t.type = SEQ /\ Len(s.as) < SegMax)

\* The original paths: one or two segments, built as prepending builds them.
OriginalPaths ==
    {<<s>> : s \in Segments(FirstTypes)} \cup
    {p \in {<<s, t>> : s \in Segments(FirstTypes), t \in Segments({SEQ, SET})} :
        CanFollow(p[1], p[2])}

\* RFC 4271 5.1.2 (kind "ext") and RFC 5065 5.3 (kind "confed"): put the
\* AS in front of a leading segment of the right type that has room, else
\* in a new segment of that type.
Prepend(segs, as, kind) ==
    LET t == IF kind = "ext" THEN SEQ ELSE CONFED_SEQ
    IN  IF segs # <<>> /\ segs[1].type = t /\ Len(segs[1].as) < SegMax
        THEN [segs EXCEPT ![1].as = <<as>> \o @]
        ELSE <<[type |-> t, as |-> <<as>>]>> \o segs

Attrs(segs) == <<[code |-> "ORIGIN", segs |-> <<>>],
                 [code |-> "AS_PATH", segs |-> segs],
                 [code |-> "NEXT_HOP", segs |-> <<>>]>>

Init ==
    /\ truth \in OriginalPaths
    /\ wire = Attrs(truth)
    /\ prepends = 0
    /\ result = [panic |-> FALSE, attrs |-> <<>>]
    /\ phase = "origin"

\* The NEW speaker sends the route to an OLD peer.
SendToOld ==
    /\ phase = "origin"
    /\ wire' = UpdatePathAttrs2ByteAs(wire)
    /\ phase' = "old"
    /\ UNCHANGED <<truth, prepends, result>>

\* An OLD speaker prepends its AS to AS_PATH (and only there).
OldPrepend ==
    /\ phase = "old"
    /\ prepends < MaxPrepends
    /\ \E kind \in PrependKinds :
          LET i == LastIndexOf(wire, "AS_PATH")
          IN  /\ truth' = Prepend(truth, OldAs, kind)
              /\ wire' = [wire EXCEPT ![i].segs = Prepend(@, OldAs, kind)]
    /\ prepends' = prepends + 1
    /\ UNCHANGED <<result, phase>>

\* The last OLD speaker sends the UPDATE to the NEW receiver.
Forward ==
    /\ phase = "old"
    /\ \E perm \in IF Reorder THEN Permutations(DOMAIN wire)
                      ELSE {[i \in DOMAIN wire |-> i]} :
          wire' = [i \in DOMAIN wire |-> wire[perm[i]]]
    /\ phase' = "received"
    /\ UNCHANGED <<truth, prepends, result>>

\* The receiver converts the UPDATE.
Receive ==
    /\ phase = "received"
    /\ result' = UpdatePathAttrs4ByteAs(wire)
    /\ phase' = "done"
    /\ UNCHANGED <<truth, wire, prepends>>

Next == SendToOld \/ OldPrepend \/ Forward \/ Receive

Spec == Init /\ [][Next]_vars

-----------------------------------------------------------------------------
(* The AS path as a route selection and loop detection read it: the ASes  *)
(* of the sequences one by one, each set as one element; the boundaries   *)
(* between adjacent sequences do not matter.                              *)
Elements(p) ==
    IF p.type \in {SEQ, CONFED_SEQ}
    THEN [k \in DOMAIN p.as |-> [t |-> p.type, v |-> {p.as[k]}]]
    ELSE <<[t |-> p.type, v |-> Range(p.as)]>>

PathView(segs) == FlattenSeq([j \in DOMAIN segs |-> Elements(segs[j])])

ReceivedAsPath == result.attrs[LastIndexOf(result.attrs, "AS_PATH")].segs

\* RFC 6793 4.2.3: the AS_PATH UpdatePathAttrs4ByteAs rebuilds from the
\* received AS_PATH and AS4_PATH is the 4-octet path, with the ASes the
\* OLD speakers prepended, and no AS_TRANS where a real AS was known.
PathReconstructed ==
    phase = "done" =>
        /\ ~result.panic
        /\ PathView(ReceivedAsPath) = PathView(truth)

Codes(attrs) == [i \in DOMAIN attrs |-> attrs[i].code]

\* The attributes of the original UPDATE other than AS_PATH.
OtherAttrs == {a \in Range(Attrs(<<>>)) : a.code # "AS_PATH"}

\* UpdatePathAttrs2ByteAs and UpdatePathAttrs4ByteAs together change only
\* the AS path: the receiver keeps the attributes in the order they came,
\* with AS4_PATH gone, and every attribute of the original UPDATE other
\* than AS_PATH arrives intact.
AttributesPreserved ==
    phase = "done" =>
        /\ ~result.panic
        /\ Codes(result.attrs) = SelectSeq(Codes(wire), LAMBDA c : c # "AS4_PATH")
        /\ {a \in Range(result.attrs) : a.code # "AS_PATH"} = OtherAttrs
=============================================================================
