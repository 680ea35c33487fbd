CONSTANT SeqNumSize = 65536
SPECIFICATION Spec
INVARIANT CmpIsMidpointRule
INVARIANT SlotFollowsSeq
