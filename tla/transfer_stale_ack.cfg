CONSTANTS
    SeqNumSize = 8
    History = 2
    Capacity = 12
    Offset = 2
    SubheaderSize = 4
    MaxMsgs = 4
    Lengths = {3, 7}
    AckReorder = TRUE
    MaxAcks = 2
SPECIFICATION Spec
INVARIANT DeliveredIsWrittenPrefix
