SPECIFICATION Spec
CONSTANTS
    Envs = {e1, e2}
    MaxEpisodes = 2
    MaxFaults = 2
CHECK_DEADLOCK FALSE
INVARIANT LostOnlyByDocker
INVARIANT SandboxesAlone
INVARIANT TrajectoriesMatch
PROPERTY ExitLeavesNetworks
