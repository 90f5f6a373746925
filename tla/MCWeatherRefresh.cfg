\* The weather refresh over the worker.
CONSTANTS
  Arg = {calgary, edmonton}
  City = {calgary, edmonton}
  HomeCity = calgary
  NoArg = NoArg
  CmdCap = 2
  ReplyCap = 1
SPECIFICATION WeatherSpec
INVARIANTS FetchedWhereStored
PROPERTIES WeatherRefreshed
CHECK_DEADLOCK FALSE
