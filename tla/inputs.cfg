SPECIFICATION StartSpec
CONSTANTS
    Uid = {u1, u2}
    Path = {p1,p2,p3,p4}
    Fds = {1, 2, 3, 4}
    None = None
    MaxChanges = 2
    MaxEvents = 2
CHECK_DEADLOCK FALSE
INVARIANTS TablesAgree AttachedIsKnown
PROPERTIES MissesInPassing EventsAreRead
