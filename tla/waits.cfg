CONSTANTS
  MaxWaits = 2
  MaxStarts = 2
  MaxStops = 1
SPECIFICATION FairSpec
INVARIANTS OneActiveWait ScheduledCanWake ResumableIsSaved
PROPERTIES ImplementsTimer WaitsEnd
CHECK_DEADLOCK FALSE
