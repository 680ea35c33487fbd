CONSTANTS
    Attempts = 2
    Period = 3
    AgentListSize = 2
    LocatorMax = 2
    MaxDatagrams = 2
    TickMs = 2
SPECIFICATION Spec
INVARIANT NoCallbackAfterAccept
