\* A policy AS prepend with repeat at the uint8 maximum, the segment limit.
CONSTANTS
    Nodes = {1, 2, 3}
    NoAttr = NoAttr
    LocalAs = 9
    LocalAddr = "192.0.2.1"
    ClusterId = "c0"
    MedMod = 4
    SegMax = 2
    Repeats = {2}
    Roots <- MCRoots
    Operations <- MCOperations
    MaxMsgLen = 90
    OpsPerNode = 2
    CallerDiscipline = TRUE
SPECIFICATION Spec

PROPERTY PrependRepeats
\* Every path stops changing once its clones and calls are made.
CHECK_DEADLOCK FALSE
