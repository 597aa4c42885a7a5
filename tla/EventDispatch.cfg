SPECIFICATION DispatchSpec
CONSTANTS
    Capacity = 2
    MaxPosts = 3
    Listeners = {l1, l2, l3}
    MaxListeners = 3
    Plugins = {g}
INVARIANTS
    FifoOrder
    Conserved
    CalledOnce
    LoadedHasVm
PROPERTY
    PollReturns
