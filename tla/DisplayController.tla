-------------------------- MODULE DisplayController --------------------------
(***************************************************************************)
(* DisplayController (display.rs): who may drive the backlight.  Its state *)
(* is a record, its methods are operators that return the next record; a   *)
(* module that owns one says when they are called.                         *)
(*                                                                         *)
(* A deadline (wake, override, the strobe's 10 s) is only ever compared    *)
(* with now, so the record holds whether it has passed; how long it takes  *)
(* to pass is left open.  Half a period of the strobe and the progress of  *)
(* the 120 s ramp are choices of each tick.                                *)
(*                                                                         *)
(* An operator named as faulty is not used: it stands beside the one it    *)
(* would replace.                                                          *)
(***************************************************************************)
EXTENDS Integers

CONSTANTS
  Level,      \* the percentages that occur
  MaxRaw,     \* max_brightness of the panel in sysfs
  NoLevel,
  DayLen      \* wall-clock slots of a day

Full == 100
Dark == 0

ASSUME LevelAssumption ==
  Level \subseteq 0 .. 100 /\ {Dark, Full} \subseteq Level /\ NoLevel \notin Level
ASSUME MaxRawAssumption == MaxRaw \in Nat \ {0}
ASSUME DayAssumption == DayLen \in Nat \ {0}

-----------------------------------------------------------------------------
(* The bedtime windows. *)

Slot == 0 .. DayLen - 1
BedtimeWindow == [start : Slot, end : Slot]
BedtimeConfig == [weekday : BedtimeWindow, weekend : BedtimeWindow]
Now == [slot : Slot, weekend : BOOLEAN]  \* Friday counts as weekend

\* A window that does not end after it starts crosses midnight.
Contains(w, t) ==
  IF w.end > w.start THEN t >= w.start /\ t < w.end ELSE t >= w.start \/ t < w.end

IsBedtime(c, n) == Contains(IF n.weekend THEN c.weekend ELSE c.weekday, n.slot)

-----------------------------------------------------------------------------
(* The controller. *)

Display ==
  [lit : BOOLEAN,                        \* bl_power, as last written
   brightness : Level,                   \* as last written
   wake : {"Off", "Wake", "Paused", "EpisodeSuspended"}, wake_due : BOOLEAN,
   strobe : {"Idle", "Pending", "Active"}, strobe_due : BOOLEAN,
   ceil : Level, at_ceil : BOOLEAN,      \* of a strobe that is not Idle
   episode_active : BOOLEAN,
   override : Level \union {NoLevel}, override_due : BOOLEAN,
   radiation : Level \union {NoLevel},   \* as calculate_radiation_brightness maps it
   target : Level, current : Level]      \* of the dynamic brightness

\* A new controller; the panel is as the last process left it.
NewDisplay(initial, lit, brightness) ==
  [lit |-> lit, brightness |-> brightness,
   wake |-> "Off", wake_due |-> FALSE,
   strobe |-> "Idle", strobe_due |-> FALSE, ceil |-> Dark, at_ceil |-> FALSE,
   episode_active |-> FALSE,
   override |-> NoLevel, override_due |-> FALSE,
   radiation |-> NoLevel, target |-> initial, current |-> initial]

\* The percentage goes to the panel as a raw value, rounded down, and comes
\* back as a percentage, rounded down again.
CurrentBrightness(d) == (((d.brightness * MaxRaw) \div 100) * 100) \div MaxRaw

WriteBrightness(d, b) == [d EXCEPT !.brightness = b]
WriteHardware(d, b) == [d EXCEPT !.brightness = b, !.lit = TRUE]

OnTouch(d) ==
  CASE d.wake = "Off"  -> [d EXCEPT !.lit = TRUE, !.wake = "Wake", !.wake_due = FALSE]
    [] d.wake = "Wake" -> [d EXCEPT !.wake_due = FALSE]
    [] OTHER           -> d

IsWake(d) == d.wake \in {"Wake", "Paused"}
SuspendWakeTimer(d) ==
  IF IsWake(d) THEN [d EXCEPT !.wake = "Paused", !.wake_due = FALSE] ELSE d
\* Faulty: a timer that was paused stays paused.
ResumeForgotten(d) == d
ResumeWakeTimer(d) ==
  IF IsWake(d) THEN [d EXCEPT !.wake = "Wake", !.wake_due = FALSE] ELSE d

ArmStrobe(d, ceil) ==
  [d EXCEPT !.strobe = "Pending", !.strobe_due = FALSE, !.at_ceil = FALSE,
            !.ceil = IF ceil < Full THEN ceil ELSE Full]
CancelStrobe(d) ==
  [d EXCEPT !.strobe = "Idle", !.strobe_due = FALSE, !.ceil = Dark, !.at_ceil = FALSE]
ForceFull(d) ==
  WriteHardware([d EXCEPT !.strobe = "Active", !.strobe_due = FALSE,
                          !.ceil = Full, !.at_ceil = TRUE], Full)

\* The end of an episode at bedtime arms the grace of 10 s.
SetEpisodeActive(d, active, n, c) ==
  LET e == [d EXCEPT !.episode_active = active, !.wake_due = FALSE]
  IN  CASE active /\ ~d.episode_active ->
             [e EXCEPT !.wake = "EpisodeSuspended", !.lit = TRUE]
        [] ~active /\ d.episode_active ->
             [CancelStrobe(e) EXCEPT !.wake = IF IsBedtime(c, n) THEN "Wake" ELSE "Off"]
        [] OTHER -> d

SetUserOverride(d, b) == [d EXCEPT !.override = b, !.override_due = FALSE]
ClearUserOverride(d) == [d EXCEPT !.override = NoLevel, !.override_due = FALSE]
SetShortwaveRadiation(d, b) == [d EXCEPT !.radiation = b]
SetBrightnessTarget(d, b) == [d EXCEPT !.target = b]

-----------------------------------------------------------------------------
(* tick, in its order. *)

\* Where the ramp may be.
Ramp(d) == {l \in Level : \/ d.current <= l /\ l <= d.target
                          \/ d.target <= l /\ l <= d.current}

StrobeStarts(d) ==
  IF d.strobe = "Pending" /\ d.strobe_due
  THEN WriteBrightness([d EXCEPT !.strobe = "Active", !.strobe_due = FALSE,
                                 !.at_ceil = TRUE], d.ceil)
  ELSE d

StrobeToggles(d, half_period) ==
  IF d.strobe = "Active" /\ half_period
  THEN WriteBrightness([d EXCEPT !.at_ceil = ~d.at_ceil],
                       IF d.at_ceil THEN Dark ELSE d.ceil)
  ELSE d

WakeExpires(d) ==
  IF d.wake = "Wake" /\ d.wake_due /\ ~d.episode_active
  THEN [d EXCEPT !.lit = FALSE, !.wake = "Off", !.wake_due = FALSE]
  ELSE d

OverrideExpires(d) == IF d.override_due THEN ClearUserOverride(d) ELSE d

\* Faulty: bedtime also wins over an episode.
ResolveAtBedtime(d, bedtime) ==
  IF d.strobe = "Active" THEN d
  ELSE IF bedtime
  THEN IF IsWake(d) THEN d ELSE [d EXCEPT !.lit = FALSE]
  ELSE WriteHardware(d, d.current)

\* Faulty: an override lights the panel at bedtime.
ResolveOverrideFirst(d, bedtime) ==
  IF d.strobe = "Active" THEN d
  ELSE IF d.override # NoLevel THEN WriteHardware(d, d.override)
  ELSE IF bedtime /\ ~d.episode_active
  THEN IF IsWake(d) THEN d ELSE [d EXCEPT !.lit = FALSE]
  ELSE WriteHardware(d, d.current)

\* Strobe > bedtime > override > radiation > dynamic: the winner writes.
Resolve(d, bedtime) ==
  IF d.strobe = "Active" THEN d
  ELSE IF bedtime /\ ~d.episode_active
  THEN IF IsWake(d) THEN d ELSE [d EXCEPT !.lit = FALSE]
  ELSE WriteHardware(d, IF d.override # NoLevel THEN d.override
                        ELSE IF d.radiation # NoLevel THEN d.radiation
                        ELSE d.current)

\* Faulty: the wake timer runs out after the winner has written.
TickedWakeLast(d, n, c, half_period, current) ==
  LET e == OverrideExpires(StrobeToggles(StrobeStarts(d), half_period /\ d.strobe = "Active"))
  IN  WakeExpires(Resolve([e EXCEPT !.current = current], IsBedtime(c, n)))

Ticked(d, n, c, half_period, current) ==
  LET e == OverrideExpires(WakeExpires(StrobeToggles(StrobeStarts(d), half_period /\ d.strobe = "Active")))
  IN  Resolve([e EXCEPT !.current = current], IsBedtime(c, n))
=============================================================================
