CONSTANTS
    t1 = t1
    t2 = t2
    s1 = s1
    s2 = s2
    n1 = n1
    n2 = n2
    NoThread = NoThread
    Null = Null
    Absent = Absent
    Threads <- MCThreads
    SourceIds <- MCSourceIds
    Namespaces <- MCNamespaces
    Manifests <- MCManifests
    MaxUpdates = 2
    MaxSessions = 2
SPECIFICATION FairSpec
INVARIANTS
    TypeOK
    AllocatedOnce
    NoOrphans
    RequestedUnlessReconnected
    ForwardsToItsSource
PROPERTIES
    LiveDelegateKept
    OnlyStopsEnd
    ImplementsLifecycle
    CallsReturn
