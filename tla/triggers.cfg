CONSTANTS
  a = a
  b = b
  k = k
  Letters = {a, b, k}
  Ideographs = {k}
  Separator = Separator
  Policies <- MCPolicies
  MaxText = 5
  DayMinutes = 4
SPECIFICATION TriggerSpec
INVARIANTS NamesAreRecognised ScheduleIsWeekly
CHECK_DEADLOCK FALSE
