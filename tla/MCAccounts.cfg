SPECIFICATION Spec
CONSTANTS
  Users = {"ann"}
  Callbacks = {"c1", "c2", "c3"}
  User <- MCUser
  States = {"s1", "s2"}
  State <- MCState
  Puts = {"p1", "p2"}
  Putter <- MCPutter
  Url <- MCUrl
  Notices = {"n1"}
  Notified <- MCNotified
  StateTTL = 1
  SessionTTL = 2
  MaxRestarts = 2
INVARIANTS ReceivedTokenWorks SettingHolds MemoryIsDurable StateIsUsedOnce
PROPERTY NotifiedIsCurrent
CHECK_DEADLOCK FALSE
