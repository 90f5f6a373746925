\* Edited alarms, as a comment of the store has them.
CONSTANTS
  NoRow = NoRow
  Alarm <- MCAlarm
  DayLen = 2
  Horizon = 6
  StoredRows <- MCStoredRows
  WebRows <- MCWebRows
  Holidays = {1, 2}
  FetchDays = 1
  FoldDates = {3}
  ShiftCap = 2
  MaxSteps = 0
  MaxLost = 0
SPECIFICATION Spec
PROPERTY EditRearms
