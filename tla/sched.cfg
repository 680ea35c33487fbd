CONSTANTS
    c1 = c1
    c2 = c2
    c3 = c3
    Consumers = {c1, c2, c3}
    MaxSize = 2
    MaxPushes = 5
    MaxFront = 1
SPECIFICATION FairSpec
INVARIANT TypeOK
INVARIANT TaskConservation
INVARIANT PushOrderKept
PROPERTY QueuedEventuallyTaken
