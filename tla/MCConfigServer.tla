--------------------------- MODULE MCConfigServer ---------------------------
(* Two clients at an alarm, two favourites on a panel for one, and the       *)
(* theme, over a database of this or of two earlier versions.                *)
EXTENDS ConfigServer

MCRequest ==
  {List("alarms"), Upsert("alarms", "x", <<"weekly", "none">>), Delete("favorites", "x")}
MCThemeRequest == {SetTheme("Neuromorphic")}
MCRank == [i \in Id |-> IF i = "x" THEN 1 ELSE 2]
MCOldVersions == {6, 8}
=============================================================================
