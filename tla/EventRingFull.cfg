SPECIFICATION Spec
CONSTANTS
    Producers = {net}
    RingSize = 2
    Wrap = 8
    MaxPosts = 5
    Zero = Zero
    Torn = Torn
INVARIANTS
    OnlyOldestLost
