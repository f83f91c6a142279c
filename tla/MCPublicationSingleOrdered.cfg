CONSTANTS
    t1 = t1
    t2 = t2
    n1 = n1
    n2 = n2
    NoThread = NoThread
    Null = Null
    Absent = Absent
    Threads <- MCThreads
    Namespaces <- MCNamespaces
    Manifests <- SmallManifests
    MaxUpdates = 2
    MaxSessions = 1
    MaxPublishes = 0
SPECIFICATION Spec
PROPERTIES
    BreaksOnSuccess
