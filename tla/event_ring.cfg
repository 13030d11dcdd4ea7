CONSTANTS
    Event = {e1, e2, e3}
    EvbufLen = 3
SPECIFICATION RingSpec
PROPERTIES
    ImplementsFifo
    PeekedStays
