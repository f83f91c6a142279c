CONSTANTS
    Contexts = {c1, c2}
    Epochs = {e1, e2}
    Namespaces = {n1}
    Secrets = {s1, s2}
    NoEpoch = NoEpoch
    EmptySecret = EmptySecret
SPECIFICATION Spec
SYMMETRY SFrameSymmetry
INVARIANTS
    TypeOK
    FailuresExplained
