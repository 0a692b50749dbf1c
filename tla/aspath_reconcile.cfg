CONSTANTS
    SegMax = 3
    Ases = {10, 70000, 70001}
    OldAs = 20
    FirstTypes = {"AS_SEQUENCE"}
    SegLens = {1, 2}
    PrependKinds = {"ext"}
    MaxPrepends = 2
    Reorder = FALSE
SPECIFICATION Spec
INVARIANTS PathReconstructed AttributesPreserved
CHECK_DEADLOCK FALSE
