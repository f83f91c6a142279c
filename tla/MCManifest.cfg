SPECIFICATION Spec
CONSTANTS
    n1 = n1
    n2 = n2
    Namespaces <- MCNamespaces
    Granted = {n1}
    JsonManifests <- MCManifests
    MaxUpdates = 2
    Missing = Missing
    Malformed = Malformed
    Absent = Absent
    EmptyTag = ""
INVARIANTS TypeOK EqualManifestsPublishAlike OnlyExpiryUndefined TagAndPublicationAgree
PROPERTY EqualAllocatesSkipped
CHECK_DEADLOCK FALSE
