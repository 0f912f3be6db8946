CONSTANTS
    SortedKinds <- ChainKinds
    Layouts <- ShortLayouts
    Endpoints <- OneEach
    Manifests <- ShortManifests
    MaxVulns = 2
    MaxEvolved = 0
    MaxBetween = 1
SPECIFICATION Spec
INVARIANTS LoadedSolvable
CHECK_DEADLOCK FALSE
