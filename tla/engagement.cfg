SPECIFICATION Spec
CONSTANTS
  m1 = m1
  m2 = m2
  m3 = m3
  m4 = m4
  Messages <- MCMessages
  Invoking <- MCInvoking
  FromOwner <- MCOwner
  Participants <- MCPeer
  Transition = "snooze"
  Bypass = TRUE
  MaxTurns = 1
  MaxChanges = 1
  MaxRequests = 1
  NoTurn = NoTurn
  NoWindow = NoWindow
SYMMETRY PlainMessages
INVARIANTS FollowupsBounded FollowupsOfThePolicy
CHECK_DEADLOCK FALSE
