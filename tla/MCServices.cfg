SPECIFICATION MCSpec
CONSTANTS
  Sustained = {"cpu"}
  Edge = {"battery"}
  Low = {"battery"}
  Level = {0, 1, 2, 3}
  RuleSet <- MCRules
  NOTIFICATION_CHANNEL_CAPACITY = 1
  MaxTime = 3
  Caller = {"a", "b", "c"}
  COMMAND_QUEUE_CAPACITY = 1
  MAX_COMMANDS = 1
  Timeout = 1
  JOIN_BUDGET = 1
  SHELL_SHUTDOWN_BUDGET = 2
  Client = {"a", "b"}
  DBUS_QUEUE_CAPACITY = 1
  MAX_CALLS = 1
  BACKOFF_MIN = 1
  BACKOFF_MAX = 2
  MaxTrouble = 2
  WATCH_STABILIZATION_LIMIT = 1
  MAX_QUEUED_EVENTS = 2
  MaxVersion <- MCVersions
  MaxMoves = 3
INVARIANTS
  NoOrphans
  NothingMissed
PROPERTIES
  AlertsAreRight
  EveryCallReturns
  LiveConnectionKept
  BusComesBack
CHECK_DEADLOCK FALSE
