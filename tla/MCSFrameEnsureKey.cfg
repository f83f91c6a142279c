CONSTANTS
    Contexts = {c1}
    Epochs = {e1, e2}
    Namespaces = {n1}
    Secrets = {s1}
    NoEpoch = NoEpoch
    EmptySecret = EmptySecret
SPECIFICATION Spec
INVARIANTS
    EnsuresKey
