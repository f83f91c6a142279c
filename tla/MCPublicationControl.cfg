CONSTANTS
    t1 = t1
    t2 = t2
    n1 = n1
    n2 = n2
    NoThread = NoThread
    Null = Null
    Absent = Absent
    Threads <- MCThreads
    Namespaces <- MCNamespaces
    Manifests <- MCManifests
    MaxUpdates = 2
    MaxSessions = 2
    MaxPublishes = 2
SPECIFICATION FairSpec
INVARIANTS
    TypeOK
    AllocatedOnce
    IntentOnce
    AnnouncedUnlessReconnected
PROPERTIES
    PausedIsSilent
    PauseSurvivesManifests
    CallsReturn
