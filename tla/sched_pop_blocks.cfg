CONSTANTS
    c1 = c1
    c2 = c2
    c3 = c3
    Consumers = {c1, c2}
    MaxSize = 2
    MaxPushes = 2
    MaxFront = 1
SPECIFICATION FairSpec
PROPERTY PopReturnsWhenReady
