SPECIFICATION FairPresenceSpec
CONSTANTS
    PublicKeys = {p1, p2, p3}
    States = {online}
    Transports = {wifi, relay}
    Wifi = wifi
    Offline = offline
    Unset = Unset
    MaxPeers = 2
    TtlLocal = 1
    TtlRelay = 2
    TtlTyping = 1
PROPERTIES
    ExpireExact
    ExpiryUnobservable
    SilentGoesOffline
    TypingLapses
