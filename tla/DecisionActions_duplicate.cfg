\* One request at a time, one statement fails or one crash happens.
SPECIFICATION ActionsSpec
CONSTANTS
  rollback = rollback
  webhook = webhook
  rolledBack = rolledBack
  rolledOut = rolledOut
  Action <- MCAction
  FlagAction <- MCFlagAction
  Variants <- MCVariants
  Wanted <- MCWanted
  Current = rolledOut
  Client = {p1}
  NoAction = NoAction
  OutboxAttempts = 1
  MaxCalls = 3
  MaxStops = 1
INVARIANT
  FlagChangedOnce
