\* A call in flight when the connection drops; expected to be violated.
CONSTANTS
  Task = {t1, t2}
  NoTask = NoTask
  QueueCap = 1
  OverflowAt = 2
  MaxCalls = 2
  MaxOutages = 1
SPECIFICATION Spec
PROPERTIES CallReturns
CHECK_DEADLOCK FALSE
