CONSTANTS
    SeqNumSize = 8
    History = 2
    Capacity = 12
    Offset = 2
    SubheaderSize = 4
    MaxMsgs = 2
    Lengths = {3, 7}
    AckReorder = FALSE
    MaxAcks = 1
SPECIFICATION FairSpec
PROPERTY DeliveryRefinedLive
