\* The episode with every property that holds.
CONSTANTS
  a1 = a1
  a2 = a2
  song = song
  radio = radio
  NoAlarm = NoAlarm
  NoUri = NoUri
  Alarm <- MCAlarm
  AlarmRow <- MCAlarmRow
  MediaUri <- MCMediaUri
  UserMedia <- MCUserMedia
  BundledBeep = TRUE
  GraceWindow = 1
  SnoozeTime = 1
  MaxAge = 2
  EventCap = 1
SPECIFICATION Spec
INVARIANTS RingsAsPlanned MediaHandedBack
PROPERTIES VolumeNeverDips SnoozeEnds EscalationCompletes ImplementsContract
