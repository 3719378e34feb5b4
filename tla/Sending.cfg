\* A page sends before, while and after its socket opens; the timer runs out early.
SPECIFICATION FairSpec
CONSTANTS
  MaxMessages = 4
  MaxTimeouts = 3
CHECK_DEADLOCK FALSE
INVARIANTS TypeOK InOrder
PROPERTIES IsAChannel QueueIsFlushed
