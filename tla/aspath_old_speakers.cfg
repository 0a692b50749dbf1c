\* Paths of every first-segment kind and length, OLD speakers inside and
\* outside the receiver's confederation, and attribute reordering.  Each
\* finding of the AS_PATH reconciliation is reached here; the README gives
\* the constants that isolate each one.
CONSTANTS
    SegMax = 3
    Ases = {10, 70000, 70001}
    OldAs = 20
    FirstTypes = {"AS_SEQUENCE", "AS_SET"}
    SegLens = {1, 2, 3}
    PrependKinds = {"ext", "confed"}
    MaxPrepends = 2
    Reorder = TRUE
SPECIFICATION Spec
INVARIANT PathReconstructed
CHECK_DEADLOCK FALSE
