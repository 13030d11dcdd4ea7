CONSTANTS
    N = 2
    Fd = {f1}
    MaxEvents = 2
SPECIFICATION Spec
INVARIANT
    DisconnectedIsRemoved
