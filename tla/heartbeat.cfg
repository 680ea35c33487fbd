CONSTANTS
    MinInterval = 1
    ShiftMod = 63
    TriesMod = 256
    MaxStep = 6
    MaxTries = 5
SPECIFICATION FairSpec
INVARIANT TypeOK
PROPERTY StreamHeartbeatRefined
PROPERTY HeartbeatEventuallySent
INVARIANT HeartbeatBurstBounded
