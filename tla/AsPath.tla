------------------------------- MODULE AsPath -------------------------------
(***************************************************************************)
(* The AS_PATH / AS4_PATH conversions of package table (src/unnamed/       *)
(* part_001): UpdatePathAttrs2ByteAs, applied to an UPDATE                 *)
(* sent to a peer without the 4-octet AS capability, and                   *)
(* UpdatePathAttrs4ByteAs, applied to an UPDATE received from one          *)
(* (RFC 6793 4.2.2 and 4.2.3).                                             *)
(*                                                                         *)
(* Both are pure functions of the attribute list, written as operators.   *)
(* An attribute is a record [code, segs]; segs is the list of path         *)
(* segments of an AS_PATH or AS4_PATH and <<>> for any other attribute.    *)
(* A segment is a record [type, as], as the sequence of its AS numbers.    *)
(* The 2- and 4-octet segment kinds of the packet library differ only in   *)
(* the width of their numbers; the widening of line 87 keeps every value,  *)
(* so both kinds are one record here.  SegMax stands for the limit 255 of  *)
(* AS numbers in one segment.  A Go panic (an index out of range) is the   *)
(* outcome [panic |-> TRUE].                                               *)
(***************************************************************************)
EXTENDS Naturals, Sequences, SequencesExt

CONSTANT SegMax     \* 255 in the code

SEQ == "AS_SEQUENCE"
SET == "AS_SET"
CONFED_SEQ == "AS_CONFED_SEQUENCE"
CONFED_SET == "AS_CONFED_SET"

AS_TRANS == 23456

IsConfed(p) == p.type \in {CONFED_SEQ, CONFED_SET}

\* As4PathParam.ASLen of the packet library: the number of ASes a segment
\* adds to the path length (RFC 4271 9.1.2.2, RFC 5065 5.3).
ASLen(p) ==
    CASE p.type = SEQ -> Len(p.as)
      [] p.type = SET -> 1
      [] OTHER        -> 0

\* asLen and as4Len: the path length of a list of segments.
PathLen(segs) == FoldSeq(LAMBDA p, acc : ASLen(p) + acc, 0, segs)

-----------------------------------------------------------------------------
(* UpdatePathAttrs2ByteAs                                                  *)

\* A 4-octet AS in a 2-octet field: AS_TRANS above 65535.
To2Byte(as) == IF as > 65535 THEN AS_TRANS ELSE as

\* Mutant: idx is never assigned in the loop and stays 0, the first slot.
FirstAsPathIndexNoAssign(attrs) ==
    IF \E i \in DOMAIN attrs : attrs[i].code = "AS_PATH" THEN 1 ELSE 0

\* The loop that finds the first AS_PATH and breaks; 0: none.
FirstAsPathIndex(attrs) ==
    SelectInSeq(attrs, LAMBDA a : a.code = "AS_PATH")

\* The copy of the attribute list with AS_PATH in 2-octet form, AS_TRANS in
\* place of every AS above 65535, and, if there was one, an AS4_PATH
\* appended that holds the original segments except the confederation ones.
UpdatePathAttrs2ByteAs(attrs) ==
    LET idx  == FirstAsPathIndex(attrs)
        segs == attrs[idx].segs
        as2Params == [j \in DOMAIN segs |->
                        [type |-> segs[j].type,
                         as   |-> [k \in DOMAIN segs[j].as |->
                                     To2Byte(segs[j].as[k])]]]
        mkAs4 == \E j \in DOMAIN segs : \E a \in Range(segs[j].as) : a > 65535
        as4Params == SelectSeq(segs, LAMBDA p : ~IsConfed(p))
        replaced == [attrs EXCEPT ![idx] = [code |-> "AS_PATH", segs |-> as2Params]]
    IN  IF idx = 0 THEN attrs
        ELSE IF mkAs4
             THEN Append(replaced, [code |-> "AS4_PATH", segs |-> as4Params])
             ELSE replaced

-----------------------------------------------------------------------------
(* UpdatePathAttrs4ByteAs                                                  *)

\* The attribute loop keeps overwriting asAttrPos and as4AttrPos: the last
\* AS_PATH and the last AS4_PATH of the list; 0: none.
LastIndexOf(attrs, code) == SelectLastInSeq(attrs, LAMBDA a : a.code = code)

\* asConfedLen: a confederation set counts 1, a confederation sequence
\* the number of its ASes.
ConfedLen(segs) ==
    LET count(p) == CASE p.type = CONFED_SET -> 1
                      [] p.type = CONFED_SEQ -> Len(p.as)
                      [] OTHER               -> 0
    IN  FoldSeq(LAMBDA p, acc : count(p) + acc, 0, segs)

\* Mutant: the cut of the last kept segment keeps one AS too many.
RECURSIVE KeepPrefixCutLong(_, _)
KeepPrefixCutLong(params, keepNum) ==
    IF params = <<>> THEN <<>>
    ELSE LET p == Head(params)
         IN  IF keepNum - ASLen(p) >= 0
             THEN <<p>> \o (IF keepNum - ASLen(p) <= 0 THEN <<>>
                            ELSE KeepPrefixCutLong(Tail(params), keepNum - ASLen(p)))
             ELSE <<[p EXCEPT !.as = SubSeq(@, 1, keepNum + 1)]>>

\* The loop over the AS_PATH segments: keep whole segments while keepNum
\* covers them, cut the next one to its first keepNum ASes (AS[:keepNum],
\* also when that leaves it empty), and stop when keepNum reaches 0.  The
\* first segment is processed even when keepNum starts at 0.
RECURSIVE KeepPrefix(_, _)
KeepPrefix(params, keepNum) ==
    IF params = <<>> THEN <<>>
    ELSE LET p == Head(params)
         IN  IF keepNum - ASLen(p) >= 0
             THEN <<p>> \o (IF keepNum - ASLen(p) <= 0 THEN <<>>
                            ELSE KeepPrefix(Tail(params), keepNum - ASLen(p)))
             ELSE <<[p EXCEPT !.as = SubSeq(@, 1, keepNum)]>>

\* One turn of the loop over the AS4_PATH segments.  A sequence following a
\* sequence is appended to it; past SegMax the last segment is filled up and
\* param.AS[SegMax-len(lastParam.AS):] is evaluated with the already filled
\* lastParam, so the whole of param follows as a new segment.
MergeAs4(newParams, param) ==
    LET n    == Len(newParams)
        last == newParams[n]
    IN  IF param.type = last.type /\ param.type = SEQ
        THEN IF Len(last.as) + Len(param.as) > SegMax
             THEN LET filled == last.as \o SubSeq(param.as, 1, SegMax - Len(last.as))
                  IN  Append([newParams EXCEPT ![n].as = filled],
                             [param EXCEPT !.as = SubSeq(@, SegMax - Len(filled) + 1, Len(@))])
             ELSE [newParams EXCEPT ![n].as = last.as \o param.as]
        ELSE Append(newParams, param)

\* The received attribute list with AS4_PATH removed and, when both are
\* there and AS4_PATH is not the longer, the AS_PATH rebuilt from the
\* leading part of AS_PATH and the AS4_PATH.  The new AS_PATH is written
\* at asAttrPos, the index found before AS4_PATH was removed.  The segment
\* records are shared between the old AS_PATH and the new segment list, so
\* an old AS_PATH left in the list shows the changes made to them.
UpdatePathAttrs4ByteAs(attrs) ==
    LET asAttrPos  == LastIndexOf(attrs, "AS_PATH")
        as4AttrPos == LastIndexOf(attrs, "AS4_PATH")
        removed == IF as4AttrPos # 0 THEN RemoveAt(attrs, as4AttrPos) ELSE attrs
        asParams  == attrs[asAttrPos].segs
        as4Params == SelectSeq(attrs[as4AttrPos].segs, LAMBDA p : ~IsConfed(p))
        asLen       == PathLen(asParams)
        asConfedLen == ConfedLen(asParams)
        as4Len      == PathLen(as4Params)
        kept == KeepPrefix(asParams, asLen + asConfedLen - as4Len)
        newParams == FoldLeft(MergeAs4, kept, as4Params)
        \* asAttr.Value after the loops: its first Len(kept) segments are
        \* the records the loops changed
        oldValue == [j \in DOMAIN asParams |->
                        IF j <= Len(kept) THEN newParams[j] ELSE asParams[j]]
        shared == [i \in DOMAIN removed |->
                     IF removed[i].code = "AS_PATH" /\ removed[i].segs = asParams
                     THEN [code |-> "AS_PATH", segs |-> oldValue]
                     ELSE removed[i]]
    IN  IF asAttrPos = 0 \/ as4AttrPos = 0 \/ asLen + asConfedLen < as4Len
        THEN [panic |-> FALSE, attrs |-> removed]
        ELSE IF (kept = <<>> /\ as4Params # <<>>) \/ asAttrPos > Len(removed)
        THEN [panic |-> TRUE, attrs |-> removed]
        ELSE [panic |-> FALSE,
              attrs |-> [shared EXCEPT ![asAttrPos] =
                           [code |-> "AS_PATH", segs |-> newParams]]]
=============================================================================
