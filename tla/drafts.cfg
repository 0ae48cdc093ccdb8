SPECIFICATION DraftFairSpec
CONSTANTS
  None = None
  ActionIds = {d1}
  Calls = {c1, c2, c3}
  Texts = {t1, t2}
  MaxRetries = 3
  MaxApprovals = 2
  MaxAsked = 1
  MaxStarts = 2
INVARIANTS DeliveredIsSucceeded HeldUntilApproved AuditedAsSent
PROPERTIES UsesTheLedger ApprovalSettles
CHECK_DEADLOCK FALSE
