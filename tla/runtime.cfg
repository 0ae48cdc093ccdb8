SPECIFICATION RuntimeFairSpec
CONSTANTS
  e1 = e1
  r1 = r1
  r2 = r2
  EventIds <- MCEventIds
  RoleOf <- MCRoleOf
  Runs <- MCRuns
  Forces = {f1}
  None = None
  MaxRequests = 1
  MaxStarts = 2
INVARIANTS OneUncancelledTask RepliedOnce ClaimsAreAttended PausedIsQuiet
PROPERTIES AdmittedTurnIsTaken
CHECK_DEADLOCK FALSE
