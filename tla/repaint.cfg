SPECIFICATION CardSpec
CONSTANTS
    Display = display
    Client = {client}
    Window = {w1, w2}
    MaxChanges = 4
    Connector = {c1, c2}
    Crtc = {k1, k2}
    None = None
SYMMETRY Symmetry
CHECK_DEADLOCK FALSE
INVARIANTS CleanShowsStack ScreenIsHeld
