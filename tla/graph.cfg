SPECIFICATION Spec
CONSTANTS
  Events = {e1, e2}
  Steer = TRUE
  Followups = TRUE
  ModelLimit = 3
  ToolLimit = 3
  RecursionLimit = 16
  WaitLimit = 1
  MaxCrashes = 1
INVARIANTS AnswersBounded SpokenIsRemembered OwnerIsAnnounced ContextWasSeen
CHECK_DEADLOCK FALSE
