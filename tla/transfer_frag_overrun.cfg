CONSTANTS
    SeqNumSize = 8
    History = 2
    Capacity = 12
    Offset = 2
    SubheaderSize = 4
    MaxMsgs = 4
    Lengths = {3, 11}
    AckReorder = FALSE
    MaxAcks = 1
SPECIFICATION Spec
INVARIANT DeliveredIsWrittenPrefix
