SPECIFICATION FairHandshakeSpec
CONSTANTS
    old = old
    next = next
    newest = newest
    Nodes = {old, next, newest}
    Build <- MCBuild
    MaxStarts = 3
INVARIANTS
    KeysMatch
    VersionsMatch
PROPERTY
    Completes
CHECK_DEADLOCK FALSE
