CONSTANTS
    r1 = r1
    Replicas = {r1}
    Yaml <- File
    Docs <- Whole
    MaxWrites = 1
    MaxFaults = 0
SPECIFICATION Spec
SYMMETRY ReplicaSymmetry
INVARIANTS
    ChangesApplied
