SPECIFICATION FairSpec
CONSTANTS
    Producers = {net}
    RingSize = 2
    Wrap = 4
    MaxPosts = 5
    Zero = Zero
    Torn = Torn
PROPERTIES
    RingIsFifo
    PollDrains
