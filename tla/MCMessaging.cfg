SPECIFICATION MessagingFairSpec
CONSTANTS
    p1 = p1
    p2 = p2
    k1 = k1
    k2 = k2
    k3 = k3
    KeyPeer <- MCKeyPeer
    Peers = {p1, p2}
    Subscribers = {p1, p2}
    Keys = {k1, k2, k3}
    None = None
    NoPost = NoPost
    ListEnd = ListEnd
    MaxSessions = 2
    PollAge = 1
    MaxAge = 1
INVARIANTS
    CountMatchesActive
    InactiveErased
    PostReachesEach
    
PROPERTIES
    ShadowedReclaimed
    PostReturns
