SPECIFICATION Spec
CONSTANTS
  Dirs = {inbox}
  FirstDir = inbox
  InitialBoxes <- ThreeUids
  MaxUid = 5
  Servers <- FittingServers
  UserKinds = {"delete", "move"}
  Filters = {TRUE, FALSE}
  UpdatesCap = 2
  MaxOps = 1
  MaxNav = 1
  MaxMails = 1
  MaxForeign = 1
  MaxFaults = 1
INVARIANTS SeqMapAgrees ShowsRight
PROPERTIES DropsRight Completes
CHECK_DEADLOCK FALSE
