\* Two tasks, four calls, a channel of one frame, two outages.
CONSTANTS
  Task = {t1, t2}
  NoTask = NoTask
  QueueCap = 1
  OverflowAt = 2
  MaxCalls = 4
  MaxOutages = 2
SPECIFICATION Spec
INVARIANTS OwnReply
PROPERTIES AnsweredUnlessCut Reconnects
CHECK_DEADLOCK FALSE
