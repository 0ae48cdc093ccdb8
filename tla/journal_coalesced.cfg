CONSTANTS
  e1 = e1
  e2 = e2
  e3 = e3
  EventIds <- MCEventIds
  RoleOf <- MCRoleOf
  Forces = {}
  Runs = {r1, r2}
  None = None
SPECIFICATION Spec
INVARIANTS CoalescedIsAnswered
CHECK_DEADLOCK FALSE
SYMMETRY Symmetric
