SPECIFICATION Spec
CONSTANTS
    Requests <- MCRequests
    Lengths = {0, 1}
    Octets = 2
    MaxId = 2
    IdLen = 2
    MaxBehind = 2
    Late <- MCLate
    None = None
INVARIANTS StaysInStep EffectAsAsked KnownObjects
PROPERTIES IdsStayGone FallsBehind
CHECK_DEADLOCK FALSE
