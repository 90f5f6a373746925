----------------------------- MODULE AlarmClock -----------------------------
(***************************************************************************)
(* The bedside clock on main (main.rs, display.rs): the scheduler's timer, *)
(* the alarm episode, the display controller, the quick-controls overlay   *)
(* and the settings the web page stores, over the one backlight they share.*)
(*                                                                         *)
(* Every handler runs to its end on the event loop, so it is one action.   *)
(* The episode is represented by what it promises (EpisodeContract), the   *)
(* scheduler by the alarms a tick may find due: these modules say when.    *)
(*                                                                         *)
(* DisplayController also offers a touch, a user override, a level from    *)
(* the weather and a forced strobe, which main does not call yet.  They    *)
(* are steps while Offered is TRUE: what holds with them holds without.    *)
(***************************************************************************)
EXTENDS DisplayController

CONSTANTS
  Alarm, NoAlarm,
  Cap,            \* [Alarm -> Nat]: max_snoozes
  Visual,         \* [Alarm -> brightness of the visual_config, or NoLevel]
  Radiation,      \* levels the weather may ask for
  DefaultBedtime, \* BedtimeConfig::default
  Bedtimes,       \* configurations the web page stores
  Floors,         \* brightness floors the web page stores
  InitialLevel,   \* of a controller nobody configured
  Offered         \* whether the calls nobody makes yet are made

ASSUME AlarmAssumption ==
  /\ NoAlarm \notin Alarm
  /\ Cap \in [Alarm -> Nat]
  /\ Visual \in [Alarm -> Nat \union {NoLevel}]
ASSUME VisualAssumption ==  \* Level holds the levels of the alarms, capped
  \A a \in Alarm : Visual[a] # NoLevel /\ Visual[a] < Full => Visual[a] \in Level
ASSUME SettingAssumption ==
  /\ DefaultBedtime \in BedtimeConfig /\ Bedtimes \subseteq BedtimeConfig
  /\ Floors \subseteq Level /\ Radiation \subseteq Level /\ InitialLevel \in Level
ASSUME RoundingAssumption ==  \* Level holds what a level is read back as
  \A l \in Level : (((l * MaxRaw) \div 100) * 100) \div MaxRaw \in Level
ASSUME OfferedAssumption == Offered \in BOOLEAN

VARIABLES
  phase, owner, used,  \* the episode: phase, alarm and snoozes
  captured,            \* the backlight level of its snapshot
  dc,                  \* the DisplayController
  bedtime,             \* ... and its BedtimeConfig
  overlay,             \* quick controls: closed, open, or due to close
  now,                 \* the wall clock
  stored               \* kv_config: bedtime_config and brightness_floor

episode == <<phase, owner, used, captured>>
settings == <<bedtime, stored>>
vars == <<episode, dc, settings, overlay, now>>

Contract == INSTANCE EpisodeContract

-----------------------------------------------------------------------------
(* Settings. *)

Absent == [shape |-> "absent", config |-> DefaultBedtime]
StoredBedtime ==
  [shape : {"absent", "objects", "strings"}, config : BedtimeConfig]

\* to_json nests the windows as objects; from_json looks for strings and
\* falls back to the default.
ToJson(c) == [shape |-> "objects", config |-> c]
FromJson(s) == IF s.shape = "strings" THEN s.config ELSE DefaultBedtime

-----------------------------------------------------------------------------
(* The scheduler's tick: the due alarms fire one after the other, on_tick    *)
(* resumes a snooze that is over, the display controller ticks.              *)

\* EpisodeFsmAdapter::fire: strobe and flag first; then the episode hands the
\* level of the one it interrupts back, and reads the level of the panel.
Fire(s, a) ==
  LET armed == IF Visual[a] = NoLevel THEN s.dc ELSE ArmStrobe(s.dc, Visual[a])
      awake == SetEpisodeActive(armed, TRUE, now, bedtime)
      handed == IF s.active THEN SetBrightnessTarget(awake, s.captured) ELSE awake
  IN  [dc |-> handed, captured |-> CurrentBrightness(handed), active |-> TRUE]

Episode == [dc |-> dc, captured |-> captured, active |-> phase # "None"]

TickDisplay(d) ==
  \E half_period \in BOOLEAN : \E level \in Ramp(d) :
    dc' = Ticked(d, now, bedtime, half_period, level)

\* No alarm is due; a snooze may be over.
QuietTick ==
  /\ TickDisplay(dc)
  /\ Contract!TakeBack \/ UNCHANGED <<phase, owner, used>>
  /\ UNCHANGED <<captured, settings, overlay, now>>

FireTick(s, last) ==
  /\ Contract!Ring(last)
  /\ captured' = s.captured
  /\ TickDisplay(s.dc)
  /\ UNCHANGED <<settings, overlay, now>>

\* Bound: at most two alarms are due in one tick.
AlarmTick == \E a \in Alarm : FireTick(Fire(Episode, a), a)
TwoAlarmsTick ==
  \E a \in Alarm : \E b \in Alarm \ {a} : FireTick(Fire(Fire(Episode, a), b), b)

SchedulerTick == QuietTick \/ AlarmTick \/ TwoAlarmsTick

-----------------------------------------------------------------------------
(* The user interface. *)

\* The overlay of the alarm; it is hidden a moment after the episode leaves
\* Ringing, so the tap may come late.
DismissRequested ==
  /\ Contract!End
  /\ captured' = NoLevel
  /\ dc' = SetEpisodeActive(SetBrightnessTarget(dc, captured), FALSE, now, bedtime)
  /\ UNCHANGED <<settings, overlay, now>>

\* The display is not told.
SnoozeRequested ==
  /\ Contract!Lend
  /\ UNCHANGED <<captured, dc, settings, overlay, now>>

\* The swipe is off while an alarm rings.
QuickControlsRequested ==
  /\ phase # "Ringing"
  /\ dc' = SuspendWakeTimer(dc)
  /\ overlay' = "open"
  /\ UNCHANGED <<episode, settings, now>>

\* A tap outside, or the clock's timer once the 5 s are over.
CloseOverlay ==
  /\ dc' = ResumeWakeTimer(dc)
  /\ overlay' = "closed"
  /\ UNCHANGED <<episode, settings, now>>
QuickDismissRequested == overlay # "closed" /\ CloseOverlay
OverlayIdle == overlay = "due" /\ CloseOverlay

QuickBrightnessChanged ==
  /\ overlay # "closed"
  /\ \E b \in Level : dc' = SetBrightnessTarget(dc, b)
  /\ UNCHANGED <<episode, settings, overlay, now>>

-----------------------------------------------------------------------------
(* The web page and the boot. *)

\* The web page writes the store; the controller hears of it at the next boot.
SetBedtime ==
  /\ \E c \in Bedtimes : stored' = [stored EXCEPT !.bedtime = ToJson(c)]
  /\ UNCHANGED <<episode, dc, bedtime, overlay, now>>
SetDisplay ==
  /\ \E l \in Floors : stored' = [stored EXCEPT !.floor = l]
  /\ UNCHANGED <<episode, dc, bedtime, overlay, now>>

\* A new process on the panel as it is: it loads the settings and writes them
\* back.
Booted(lit, brightness, kv) ==
  LET fresh == NewDisplay(InitialLevel, lit, brightness)
      loaded == IF kv.floor = NoLevel THEN fresh ELSE SetBrightnessTarget(fresh, kv.floor)
  IN  [dc |-> loaded,
       bedtime |-> IF kv.bedtime = Absent THEN DefaultBedtime ELSE FromJson(kv.bedtime),
       floor |-> loaded.target]

Boot(kv) ==
  LET b == Booted(dc.lit, dc.brightness, kv)
  IN  /\ dc' = b.dc
      /\ bedtime' = b.bedtime
      /\ stored' = [bedtime |-> ToJson(b.bedtime), floor |-> b.floor]

\* A crash, or a shutdown: that one restores the level of an episode as the
\* controller's target, and exits.
Restart ==
  /\ phase' = "None" /\ owner' = NoAlarm /\ used' = 0
  /\ captured' = NoLevel
  /\ overlay' = "closed"
  /\ Boot(stored)
  /\ UNCHANGED now

-----------------------------------------------------------------------------
(* Time. *)

ClockMoves ==
  /\ now' \in Now
  /\ UNCHANGED <<episode, dc, settings, overlay>>

DisplayOnly(d) == dc' = d /\ UNCHANGED <<episode, settings, overlay, now>>
WakeDeadline ==
  dc.wake = "Wake" /\ ~dc.wake_due /\ DisplayOnly([dc EXCEPT !.wake_due = TRUE])
StrobeDeadline ==
  dc.strobe = "Pending" /\ ~dc.strobe_due /\ DisplayOnly([dc EXCEPT !.strobe_due = TRUE])
OverrideDeadline ==
  dc.override # NoLevel /\ ~dc.override_due /\ DisplayOnly([dc EXCEPT !.override_due = TRUE])
OverlayDeadline ==
  /\ overlay = "open"
  /\ overlay' = "due"
  /\ UNCHANGED <<episode, dc, settings, now>>

-----------------------------------------------------------------------------
(* What the controller offers and main does not use. *)

Touch == Offered /\ DisplayOnly(OnTouch(dc))
Override == Offered /\ \E l \in Level : DisplayOnly(SetUserOverride(dc, l))
ClearOverride == Offered /\ DisplayOnly(ClearUserOverride(dc))
Weather == Offered /\ \E l \in Radiation \union {NoLevel} : DisplayOnly(SetShortwaveRadiation(dc, l))
ForceStrobe == Offered /\ phase = "Ringing" /\ DisplayOnly(ForceFull(dc))

-----------------------------------------------------------------------------
Init ==
  /\ phase = "None" /\ owner = NoAlarm /\ used = 0
  /\ captured = NoLevel
  /\ overlay = "closed"
  /\ now \in Now
  /\ \E kv \in [bedtime : {Absent} \union {ToJson(c) : c \in Bedtimes},
                floor : Floors \union {NoLevel}] :
       LET b == Booted(TRUE, Full, kv)  \* the panel as the firmware leaves it
       IN  /\ dc = b.dc /\ bedtime = b.bedtime
           /\ stored = [bedtime |-> ToJson(b.bedtime), floor |-> b.floor]

Next ==
  \/ SchedulerTick
  \/ DismissRequested \/ SnoozeRequested
  \/ QuickControlsRequested \/ QuickDismissRequested \/ OverlayIdle
  \/ QuickBrightnessChanged
  \/ SetBedtime \/ SetDisplay \/ Restart
  \/ ClockMoves
  \/ WakeDeadline \/ StrobeDeadline \/ OverrideDeadline \/ OverlayDeadline
  \/ Touch \/ Override \/ ClearOverride \/ Weather \/ ForceStrobe

\* The two timers run on the event loop, and deadlines pass.
Fairness ==
  /\ WF_vars(SchedulerTick)
  /\ WF_vars(OverlayIdle)
  /\ WF_vars(WakeDeadline)
  /\ WF_vars(OverlayDeadline)

Spec == Init /\ [][Next]_vars /\ Fairness

-----------------------------------------------------------------------------
(* Properties. *)

Bedtime == IsBedtime(bedtime, now)

\* Every variable keeps its type, and a deadline passes only where there is
\* one: an alarm's level is capped on its way to the strobe (arm_strobe).
TypeOK ==
  /\ phase \in {"None", "Ringing", "Lent"}
  /\ owner \in Alarm \union {NoAlarm}
  /\ used \in Nat
  /\ captured \in Level \union {NoLevel}
  /\ dc \in Display
  /\ bedtime \in BedtimeConfig
  /\ overlay \in {"closed", "open", "due"}
  /\ now \in Now
  /\ stored \in [bedtime : StoredBedtime, floor : Level]

\* The display's idea of an episode is the episode's: the flag and the
\* suspended wake timer last from the first alarm's fire to the dismissal of
\* the last one, and no strobe outlives them (EpisodeFsmAdapter::fire, the
\* dismiss callback, set_episode_active).
EpisodeAgrees ==
  /\ dc.episode_active <=> phase # "None"
  /\ dc.wake = "EpisodeSuspended" <=> phase # "None"
  /\ dc.strobe # "Idle" => phase # "None"
  /\ captured \in Level <=> phase # "None"

\* While there is an episode, snoozed or not, the panel has power, whatever
\* the hour and whoever won the display before (set_episode_active, tick).
LitForEpisode == phase # "None" => dc.lit

\* The wake timer is held only under the quick controls: however they close,
\* and whatever fires meanwhile, it runs again (suspend_wake_timer,
\* resume_wake_timer, push_media_to_ui).
PausedOnlyUnderOverlay == dc.wake = "Paused" => overlay # "closed"

\* No step takes the power from the panel outside bedtime or in an episode: a
\* wake timer that runs out after bedtime is over does not (tick's order).
NeverDarkByDay ==
  [][dc.lit /\ ~dc'.lit => Bedtime /\ phase = "None" /\ phase' = "None"]_vars

\* Once it stays bedtime, without an episode and without a touch, the panel
\* goes dark and stays dark: no wake timer, strobe or override keeps it lit.
GoesDark ==
  <>[](Bedtime /\ phase = "None" /\ overlay = "closed")
    => []<><<Touch>>_vars \/ <>[]~dc.lit
=============================================================================
