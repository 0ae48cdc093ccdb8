CONSTANTS
  ActionIds = {a1}
  Calls = {c1, c2, c3}
  MaxRetries = 2
  MaxStarts = 3
  None = None
SPECIFICATION FairSpec
INVARIANTS SentOncePerPermission OneSenderUnlessOverruled
PROPERTIES DispatchSettles
CHECK_DEADLOCK FALSE
