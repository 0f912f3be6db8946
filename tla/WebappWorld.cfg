CONSTANTS
    SortedKinds <- ChainKinds
    Layouts <- ChainLayouts
    Endpoints <- OneEach
    Manifests <- ChainManifests
    MaxVulns = 2
    MaxEvolved = 3
    MaxBetween = 1
SPECIFICATION Spec
INVARIANTS ChainSolvable
PROPERTIES HopsFollowWalk ReseedIsComplete
CHECK_DEADLOCK FALSE
