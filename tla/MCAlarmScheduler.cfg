\* The store and the scheduler with every property that holds.
CONSTANTS
  NoRow = NoRow
  Alarm <- MCAlarm
  DayLen = 2
  Horizon = 6
  StoredRows <- MCStoredRows
  WebRows <- MCWebRows
  Holidays = {1, 2}
  FetchDays = 1
  FoldDates = {3}
  ShiftCap = 2
  MaxSteps = 1
  MaxLost = 1
SPECIFICATION Spec
INVARIANTS CacheFollowsRule NeverTwice
PROPERTIES NonePassedOver MissedStaysSilent DueIsServed
