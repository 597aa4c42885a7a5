SPECIFICATION Spec
CONSTANTS
    Messages = {m1, m2}
    TTLs = {0, 2}
    Statuses = {2}
    Horizon = 1
    MaxTime = 3
    MaxRows = 2
    MaxFailures = 1
INVARIANTS
    NumberMeansOneMessage
PROPERTIES
    SweepMatchesMessage
