SPECIFICATION Spec
CONSTANTS
    n1 = n1
    n2 = n2
    Namespaces = {n1, n2}
    Epochs = {e1, e2}
    FixedEpoch = e1
    Secret = Secret
    NoEpoch = NoEpoch
    EmptySecret = EmptySecret
    Subscriber = Subscriber
    NotSealed = NotSealed
SYMMETRY NamespaceSymmetry
INVARIANTS TypeOK DropsExplained OnlyOpenedForwarded
