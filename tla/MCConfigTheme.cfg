SPECIFICATION Spec
CONSTANTS
  Id = {"x"}
  NoRow = NoRow
  Client = {c1}
  Request <- MCThemeRequest
  NoRequest = NoRequest
  NoAnswer = NoAnswer
  ChannelCap = 1
  Rank <- MCRank
  PanelCap = 1
  DefaultFav = "x"
  OldVersions <- MCOldVersions
  MaxFailures = 1
  MaxHangUps = 0
  MaxCycles = 0
PROPERTY PageThemeShows
CHECK_DEADLOCK FALSE
