CONSTANTS
    N = 2
    Fd = {f1}
    MaxEvents = 1
SPECIFICATION FairPeersSpec
INVARIANT
    InUsesOwn
PROPERTIES
    ImplementsRegistry
    QueuedIsDestroyed
    ShutdownEnds
