SPECIFICATION Spec
CONSTANTS
  Accounts = {imap, maildir}
  Imap = {imap}
  ActionsCap = 2
  MessagesCap = 1
  MaxUser = 2
  MaxTicks = 1
  MaxUpdates = 1
  MaxFaults = 1
  MaxDeferred = 1
  MaxEvents = 3
INVARIANTS CallbacksRight ChecksRight
PROPERTY Answered
CHECK_DEADLOCK FALSE
