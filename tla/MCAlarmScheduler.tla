-------------------------- MODULE MCAlarmScheduler --------------------------
(* Two alarms over four days of two slots: each daily, or of a single date in *)
(* a zone west of the device's; the web page writes a row and disables it.    *)
EXTENDS AlarmScheduler, TLC

MCRow(dates, at, zone, policy) ==
  [enabled |-> TRUE, dates |-> dates, at |-> at, zone |-> zone, policy |-> policy]
MCStoredRows == {MCRow({0, 1, 2, 3}, 1, 0, "Suppress"), MCRow({1}, 0, -1, "ShiftForward")}
\* For the run about zones: east of the device, where the date is one ahead.
MCEasternRows == {MCRow({2}, 0, 1, "Suppress")}
MCWebRows ==
  LET row == MCRow({2, 4}, 0, 0, "Ignore")
  IN {row, [row EXCEPT !.enabled = FALSE]}
MCAlarm == 1..2
=============================================================================
