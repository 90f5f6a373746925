SPECIFICATION Spec
CONSTANTS
  Id = {"x", "y"}
  NoRow = NoRow
  Client = {c1, c2}
  Request <- MCRequest
  NoRequest = NoRequest
  NoAnswer = NoAnswer
  ChannelCap = 1
  Rank <- MCRank
  PanelCap = 1
  DefaultFav = "x"
  OldVersions <- MCOldVersions
  MaxFailures = 1
  MaxHangUps = 1
  MaxCycles = 1
INVARIANTS WaitingStandsInLine
PROPERTIES ImplementsContract ComesUp StartRestoresTheme DeletedLeavesPanel
CHECK_DEADLOCK FALSE
