CONSTANTS
  Requests = {r1, r2}
  MaxAsks = 2
  MaxStarts = 2
SPECIFICATION FairSpec
INVARIANTS ClosedIsAnswered
PROPERTIES ImplementsQuestion TurnsGoOn
CHECK_DEADLOCK FALSE
