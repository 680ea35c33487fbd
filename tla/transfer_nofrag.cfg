CONSTANTS
    SeqNumSize = 8
    History = 2
    Capacity = 12
    Offset = 2
    SubheaderSize = 4
    MaxMsgs = 3
    Lengths = {3, 7}
    AckReorder = FALSE
    MaxAcks = 1
SPECIFICATION Spec
INVARIANT TypeOK
INVARIANT InFlightSlotsUnchanged
INVARIANT WatermarkOrder
INVARIANT RetryTimerArmed
PROPERTY DeliveryRefined
