SPECIFICATION QueueSpec
CONSTANTS
    Peers = {p1, p2}
    Limits = {1, 2}
    TTL = 2
    MaxClock = 3
    MaxQueued = 3
    MaxRestarts = 1
    None = None
INVARIANTS
    HandedOutOnce
    SequenceOrder
    BacklogBounded
PROPERTIES
    OnlyOldestOrExpiredLeave
    PushRespectsLimit
