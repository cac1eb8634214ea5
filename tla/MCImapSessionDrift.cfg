SPECIFICATION Spec
CONSTANTS
  Dirs = {inbox, archive}
  Inbox = inbox
  NoDir = none
  UserKinds = {"Delete"}
  QueueCap = 32
  MaxPosts = 1
  MaxNav = 3
  MaxFaults = 0
INVARIANT
  RightMailbox
CHECK_DEADLOCK FALSE
