---------------------------- MODULE MCAlarmClock ----------------------------
(* An instance of AlarmClock: a visual alarm whose row asks for more than    *)
(* full brightness and may be snoozed once, and one without a visual; four    *)
(* slots a day; the default nights cross midnight and end at different hours, *)
(* as the program's do.  Other windows are stored, and no boot reads them.    *)
EXTENDS AlarmClock, TLC

CONSTANTS a1, a2

MCAlarm == {a1, a2}
MCCap == (a1 :> 1) @@ (a2 :> 0)
MCVisual == (a1 :> 120) @@ (a2 :> NoLevel)
MCLevel == {0, 100}
MCFloors == {100}
MCRadiation == {100}
MCDefaultBedtime == [weekday |-> [start |-> 3, end |-> 1], weekend |-> [start |-> 3, end |-> 2]]
MCBedtimes == {[weekday |-> [start |-> 1, end |-> 2], weekend |-> [start |-> 0, end |-> 1]]}
=============================================================================
