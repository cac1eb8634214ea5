SPECIFICATION Spec
CONSTANTS
  MaxUid = 5
  FirstBox = {1, 2, 3}
  Height = 2
  Unsupported = {"Delete"}
  MaxCommands = 2
  MaxOpens = 1
  MaxForeign = 1
  MaxFaults = 1
  MaxEvents = 2
INVARIANTS HeadersRight MarksReverted ListRight
PROPERTIES SortSelects HeadersShown
CHECK_DEADLOCK FALSE
