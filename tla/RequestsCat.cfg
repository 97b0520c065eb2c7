SPECIFICATION RequestsSpec
CONSTANTS
  Commands <- MCCommands
  Users = {"h", "h@d", "u", "u@d"}
  Uid <- MCUid
  Host = "h"
  Qualified = {"h@d", "u@d"}
  WithDomain <- MCWithDomain
  Active = {"u@d"}
  Cached = {"u@d", "h@d"}
  Timeout = 2
  MaxLogs = 1
  Cats = {c1, c2}
  Std = {"stdout", "stderr"}
  None = None
  MaxStreamLogs = 2
  MaxPrints = 2
PROPERTY RemoveReturns
CHECK_DEADLOCK FALSE
