SPECIFICATION Spec
CONSTANTS
    Accounts = {a1, a2}
    Peers = {p}
    None = None
    Damaged = Damaged
    AccountMax = 2
    MaxHandles = 3
INVARIANTS
    DbFollowsAccount
    ContactIsolation
    QueueIsolation
CHECK_DEADLOCK FALSE
SYMMETRY Symmetry
