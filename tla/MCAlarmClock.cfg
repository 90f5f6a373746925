CONSTANTS
  a1 = a1
  a2 = a2
  NoAlarm = NoAlarm
  NoLevel = NoLevel
  Alarm <- MCAlarm
  Cap <- MCCap
  Visual <- MCVisual
  Level <- MCLevel
  Radiation <- MCRadiation
  Floors <- MCFloors
  DefaultBedtime <- MCDefaultBedtime
  Bedtimes <- MCBedtimes
  InitialLevel = 100
  MaxRaw = 100
  DayLen = 4
  Offered = TRUE
SPECIFICATION Spec
INVARIANTS LitForEpisode PausedOnlyUnderOverlay
PROPERTIES NeverDarkByDay GoesDark
