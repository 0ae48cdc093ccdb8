CONSTANTS
  e1 = e1
  e2 = e2
  e3 = e3
  EventIds <- MCEventIds
  RoleOf <- MCRoleOf
  Forces = {f1}
  Runs = {r1, r2}
  None = None
SPECIFICATION Spec
INVARIANTS CursorSound OneFreshTurn
PROPERTIES ImplementsLedger
CHECK_DEADLOCK FALSE
SYMMETRY Symmetric
