SPECIFICATION FairSpec
CONSTANTS
    IdLen = 2
    Capacity = 2
    EventNumbers = 3
    MaxRequests = 2
    MaxStream = 4
    MaxUnread = 1
    Lows = {"event", "wild"}
INVARIANTS AnswerIsOwn EventsInOrder NeverAstray
PROPERTY CallReturns
