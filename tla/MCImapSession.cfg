SPECIFICATION Spec
CONSTANTS
  Dirs = {inbox, archive}
  Inbox = inbox
  NoDir = none
  UserKinds = {"Headers", "Store", "Delete", "CheckMail", "Disconnect"}
  QueueCap = 32
  MaxPosts = 1
  MaxNav = 3
  MaxFaults = 1
INVARIANTS
  OneAnswer
  UidsNameDirectory
  RightUnlessCancelled
  LastOpenWins
PROPERTY Answered
CHECK_DEADLOCK FALSE
