SPECIFICATION Spec
CONSTANTS
    Ontology <- MCOntology
    Invariants <- MCInvariants
    Samples <- MCSamples
    Tasks <- MCTasks
    Feasible <- MCFeasible
    Mutations <- MCMutations
    Baseline = 9
    NoPrior = NoPrior
    Torn = Torn
    max_repairs = 1
    Reports = 3
    MaxEvolved = 4
    MaxSaves = 2
INVARIANTS
    SnapshotIsItsHash
PROPERTIES
    ImplementsContract
    DifficultyWalk
