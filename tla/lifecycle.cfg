SPECIFICATION FairSpec
CONSTANTS
    MaxInterrupts = 2
    MaxUpdates = 2
INVARIANTS UsesWhatIsThere
 
CHECK_DEADLOCK FALSE
