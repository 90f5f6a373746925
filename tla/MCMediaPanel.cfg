CONSTANTS
  Fav <- MCFav
  Kind <- MCKind
  Control = {"play", "pause"}
  NoFav = NoFav
  CmdCap = 2
  MaxTaps = 3
  ReplyCap = 1
SPECIFICATION Spec
INVARIANTS TypeOK LastBrowseWins PauseSparesRadio
PROPERTIES SpinnerEnds
