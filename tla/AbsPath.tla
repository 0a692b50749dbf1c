------------------------------ MODULE AbsPath ------------------------------
(***************************************************************************)
(* What a Path promises (specification 3, 4.3 and 9): every path handle    *)
(* has its own map from attribute types to attributes, NoAttr for an       *)
(* absent one, and its own origin information.  A clone starts with a     *)
(* copy of the map and the origin of the path it was cloned from; an       *)
(* operation on a handle changes that handle's map only, as a sequence of  *)
(* "set" and "del" edits, each of which replaces or removes one type.      *)
(* How a call chooses its edits is the parameter EditsOf(c, m, s): the     *)
(* edit list call c makes of map m on a path of origin s.  calls[h] is the *)
(* list of calls made on handle h.                                         *)
(***************************************************************************)
EXTENDS Naturals, Sequences, SequencesExt

CONSTANTS
    Handles,     \* 1..N, the path handles
    Types,       \* the attribute types
    NoAttr,      \* the absent attribute
    InitMaps,    \* the maps a path may be created with
    Sources,     \* the origins a path may be created with
    NoSource,    \* the origin of an unused handle
    Calls,       \* the calls that may be made on a handle
    EditsOf(_, _, _)  \* EditsOf(c, m, s): the edits of call c on map m

VARIABLES
    attrs,       \* attrs[h]: the attribute map of handle h
    src,         \* src[h]: the origin of handle h
    count,       \* handles 1..count are in use
    calls        \* calls[h]: the calls made on handle h

EmptyMap == [t \in Types |-> NoAttr]

\* One edit applied to a map: the nearest write of a type is what it holds.
ApplyEdit(m, e) == [m EXCEPT ![e.t] = IF e.op = "set" THEN e.v ELSE NoAttr]

ApplyEdits(m, E) == FoldLeft(ApplyEdit, m, E)

Init ==
    /\ count = 0
    /\ attrs = [h \in Handles |-> EmptyMap]
    /\ src \in [Handles -> {NoSource}]
    /\ calls = [h \in Handles |-> <<>>]

\* A new path: a new handle with an initial map and origin.
NewHandle ==
    /\ count + 1 \in Handles
    /\ \E m \in InitMaps, s \in Sources :
          /\ attrs' = [attrs EXCEPT ![count + 1] = m]
          /\ src' = [src EXCEPT ![count + 1] = s]
    /\ count' = count + 1
    /\ UNCHANGED calls

\* Clone: a new handle with the map and the origin of handle h.
CloneHandle(h) ==
    /\ count + 1 \in Handles
    /\ attrs' = [attrs EXCEPT ![count + 1] = attrs[h]]
    /\ src' = [src EXCEPT ![count + 1] = src[h]]
    /\ count' = count + 1
    /\ UNCHANGED calls

\* A call on handle h: only h's map changes, by the edits of that call.
Operate(h) ==
    \E c \in Calls :
        /\ calls' = [calls EXCEPT ![h] = Append(@, c)]
        /\ attrs' = [attrs EXCEPT ![h] = ApplyEdits(@, EditsOf(c, @, src[h]))]
        /\ UNCHANGED <<src, count>>

Next == NewHandle \/ \E h \in 1..count : CloneHandle(h) \/ Operate(h)

Spec == Init /\ [][Next]_<<attrs, src, count, calls>>
=============================================================================
