\* The copy-on-write attribute chain under the callers' discipline: the
\* refinement of AbsPath, the wire list, and the P6 and prepend rewrites.
CONSTANTS
    Nodes = {1, 2, 3}
    NoAttr = NoAttr
    LocalAs = 9
    LocalAddr = "192.0.2.1"
    ClusterId = "c0"
    MedMod = 4
    SegMax = 2
    Repeats = {0, 1}
    Roots <- MCRoots
    Operations <- MCOperations
    OpsPerNode = 2
    MaxMsgLen = 90
    CallerDiscipline = TRUE
SPECIFICATION Spec
INVARIANTS AttrListAgrees UpdatesCarryPaths
PROPERTIES AbsSpec EbgpEgressRewrites PrependRepeats
\* Every path stops changing once its clones and calls are made.
CHECK_DEADLOCK FALSE
