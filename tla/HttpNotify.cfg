SPECIFICATION SessionSpec
CONSTANTS
  Message <- MCNotify
  MaxMessages = 1
INVARIANTS
  NotifyServed
