-------------------------- MODULE AlarmClock_proofs --------------------------
(***************************************************************************)
(* Proofs about AlarmClock, for any alarms, levels, bedtime windows, length*)
(* of the day and resolution of the panel.                                 *)
(***************************************************************************)
EXTENDS AlarmClock, TLAPS

-----------------------------------------------------------------------------
(* A controller between two handlers.  Within a handler a strobe may be     *)
(* armed a moment before the episode is announced, so the two are apart.    *)

Sound(d) ==
  /\ d \in Display
  /\ d.episode_active <=> d.wake = "EpisodeSuspended"
  /\ d.episode_active => d.lit

Quiet(d) == d.strobe # "Idle" => d.episode_active

LEMMA LevelFacts ==
  /\ Dark \in Level /\ Full \in Level /\ NoLevel \notin Level
  /\ \A l \in Level : l \in Int
BY LevelAssumption

-----------------------------------------------------------------------------
(* The methods of the controller. *)

LEMMA NewDisplaySound ==
  ASSUME NEW initial \in Level, NEW lit \in BOOLEAN, NEW brightness \in Level
  PROVE  LET e == NewDisplay(initial, lit, brightness)
         IN  Sound(e) /\ Quiet(e) /\ ~e.episode_active /\ e.lit = lit
                      /\ e.wake = "Off" /\ e.target = initial
BY LevelFacts DEF NewDisplay, Sound, Quiet, Display

LEMMA CurrentBrightnessType ==
  ASSUME NEW d \in Display
  PROVE  CurrentBrightness(d) \in Level
BY RoundingAssumption DEF CurrentBrightness, Display

LEMMA TargetSound ==
  ASSUME NEW d, Sound(d), NEW b \in Level
  PROVE  LET e == SetBrightnessTarget(d, b)
         IN  /\ Sound(e) /\ e.target = b
             /\ e.episode_active = d.episode_active
             /\ e.strobe = d.strobe /\ e.wake = d.wake /\ e.lit = d.lit
BY DEF SetBrightnessTarget, Sound, Display

LEMMA OnTouchSound ==
  ASSUME NEW d, Sound(d), Quiet(d)
  PROVE  LET e == OnTouch(d)
         IN  /\ Sound(e) /\ Quiet(e)
             /\ e.episode_active = d.episode_active
             /\ e.wake = "Paused" => d.wake = "Paused"
             /\ d.lit => e.lit
BY DEF OnTouch, Sound, Quiet, Display

LEMMA SuspendSound ==
  ASSUME NEW d, Sound(d), Quiet(d)
  PROVE  LET e == SuspendWakeTimer(d)
         IN  Sound(e) /\ Quiet(e) /\ e.episode_active = d.episode_active /\ e.lit = d.lit
BY DEF SuspendWakeTimer, IsWake, Sound, Quiet, Display

LEMMA ResumeSound ==
  ASSUME NEW d, Sound(d), Quiet(d)
  PROVE  LET e == ResumeWakeTimer(d)
         IN  /\ Sound(e) /\ Quiet(e) /\ e.wake # "Paused"
             /\ e.episode_active = d.episode_active /\ e.lit = d.lit
BY DEF ResumeWakeTimer, IsWake, Sound, Quiet, Display

LEMMA OverrideSound ==
  ASSUME NEW d, Sound(d), Quiet(d), NEW b \in Level \union {NoLevel}
  PROVE  \A e \in {SetUserOverride(d, b), ClearUserOverride(d), SetShortwaveRadiation(d, b)} :
           /\ Sound(e) /\ Quiet(e) /\ e.wake = d.wake
           /\ e.episode_active = d.episode_active /\ e.lit = d.lit
BY DEF SetUserOverride, ClearUserOverride, SetShortwaveRadiation, Sound, Quiet, Display

\* The level of an alarm is capped on its way to the strobe.
LEMMA ArmStrobeSound ==
  ASSUME NEW d, Sound(d), NEW a \in Alarm, Visual[a] # NoLevel
  PROVE  LET e == ArmStrobe(d, Visual[a])
         IN  /\ Sound(e) /\ e.episode_active = d.episode_active
             /\ e.wake = d.wake /\ e.lit = d.lit
<1>1. (IF Visual[a] < Full THEN Visual[a] ELSE Full) \in Level
  BY AlarmAssumption, VisualAssumption, LevelFacts
<1>2. QED
  BY <1>1 DEF ArmStrobe, Sound, Display

LEMMA ForceFullSound ==
  ASSUME NEW d, Sound(d), d.episode_active
  PROVE  LET e == ForceFull(d)
         IN  Sound(e) /\ Quiet(e) /\ e.episode_active /\ e.lit /\ e.wake = d.wake
BY LevelFacts DEF ForceFull, WriteHardware, Sound, Quiet, Display

\* The first alarm of an episode lights the panel; a later one finds it lit.
LEMMA EpisodeStarts ==
  ASSUME NEW d, Sound(d), NEW n \in Now, NEW c \in BedtimeConfig
  PROVE  LET e == SetEpisodeActive(d, TRUE, n, c)
         IN  Sound(e) /\ Quiet(e) /\ e.episode_active
BY DEF SetEpisodeActive, Sound, Quiet, Display

\* Its end leaves no strobe, and the panel as it is.
LEMMA EpisodeEnds ==
  ASSUME NEW d, Sound(d), d.episode_active, NEW n \in Now, NEW c \in BedtimeConfig
  PROVE  LET e == SetEpisodeActive(d, FALSE, n, c)
         IN  /\ Sound(e) /\ Quiet(e) /\ ~e.episode_active
             /\ e.lit = d.lit /\ e.wake # "Paused"
<1> DEFINE e == CancelStrobe([d EXCEPT !.episode_active = FALSE, !.wake_due = FALSE])
           w == IF IsBedtime(c, n) THEN "Wake" ELSE "Off"
<1>1. /\ e \in Display /\ ~e.episode_active /\ e.strobe = "Idle" /\ e.lit = d.lit
  BY LevelFacts DEF CancelStrobe, Sound, Display
<1>2. SetEpisodeActive(d, FALSE, n, c) = [e EXCEPT !.wake = w]
  BY DEF SetEpisodeActive
<1>3. w \in {"Wake", "Off"}
  OBVIOUS
<1> HIDE DEF e, w
<1>4. QED
  BY <1>1, <1>2, <1>3 DEF Sound, Quiet, Display

-----------------------------------------------------------------------------
(* The tick: each of its stages, then the whole. *)

Keeps(d, e) ==
  /\ Sound(e) /\ Quiet(e)
  /\ e.episode_active = d.episode_active
  /\ e.wake = "Paused" => d.wake = "Paused"

LEMMA StrobeStartsKeeps ==
  ASSUME NEW d, Sound(d), Quiet(d)
  PROVE  Keeps(d, StrobeStarts(d))
BY DEF StrobeStarts, WriteBrightness, Keeps, Sound, Quiet, Display

LEMMA StrobeTogglesKeeps ==
  ASSUME NEW d, Sound(d), Quiet(d), NEW half
  PROVE  Keeps(d, StrobeToggles(d, half))
BY LevelFacts DEF StrobeToggles, WriteBrightness, Keeps, Sound, Quiet, Display

LEMMA WakeExpiresKeeps ==
  ASSUME NEW d, Sound(d), Quiet(d)
  PROVE  Keeps(d, WakeExpires(d))
BY DEF WakeExpires, Keeps, Sound, Quiet, Display

LEMMA OverrideExpiresKeeps ==
  ASSUME NEW d, Sound(d), Quiet(d)
  PROVE  Keeps(d, OverrideExpires(d))
BY DEF OverrideExpires, ClearUserOverride, Keeps, Sound, Quiet, Display

\* Whoever wins, only bedtime leaves the panel dark, and never in an episode.
LEMMA ResolveKeeps ==
  ASSUME NEW d, Sound(d), Quiet(d), NEW night \in BOOLEAN
  PROVE  /\ Keeps(d, Resolve(d, night))
         /\ ~Resolve(d, night).lit => night /\ ~d.episode_active
BY DEF Resolve, IsWake, WriteHardware, Keeps, Sound, Quiet, Display

LEMMA TickedKeeps ==
  ASSUME NEW d, Sound(d), Quiet(d), NEW n \in Now, NEW c \in BedtimeConfig,
         NEW half \in BOOLEAN, NEW level \in Level
  PROVE  LET e == Ticked(d, n, c, half, level)
         IN  Keeps(d, e) /\ (~e.lit => IsBedtime(c, n) /\ ~d.episode_active)
<1> DEFINE d1 == StrobeStarts(d)
           d2 == StrobeToggles(d1, half /\ d.strobe = "Active")
           d3 == WakeExpires(d2)
           d4 == OverrideExpires(d3)
           d5 == [d4 EXCEPT !.current = level]
<1>1. Keeps(d, d1)
  BY StrobeStartsKeeps
<1>2. Keeps(d1, d2)
  BY <1>1, StrobeTogglesKeeps DEF Keeps
<1>3. Keeps(d2, d3)
  BY <1>2, WakeExpiresKeeps DEF Keeps
<1>4. Keeps(d3, d4)
  BY <1>3, OverrideExpiresKeeps DEF Keeps
<1>5. Ticked(d, n, c, half, level) = Resolve(d5, IsBedtime(c, n))
  BY DEF Ticked
<1>6. IsBedtime(c, n) \in BOOLEAN
  BY DEF IsBedtime, Contains
<1> HIDE DEF d1, d2, d3, d4
<1>7. Keeps(d4, d5)
  BY <1>4 DEF Keeps, Sound, Quiet, Display
<1> HIDE DEF d5
<1>8. /\ Keeps(d5, Resolve(d5, IsBedtime(c, n)))
      /\ ~Resolve(d5, IsBedtime(c, n)).lit => IsBedtime(c, n) /\ ~d5.episode_active
  BY <1>6, <1>7, ResolveKeeps DEF Keeps
<1>9. QED
  BY <1>1, <1>2, <1>3, <1>4, <1>5, <1>7, <1>8 DEF Keeps

-----------------------------------------------------------------------------
(* The alarms of a tick. *)

\* An episode as a fire finds it.
Ready(s) ==
  /\ Sound(s.dc)
  /\ s.active \in BOOLEAN
  /\ s.active => s.captured \in Level

LEMMA FireReady ==
  ASSUME NEW s, Ready(s), NEW a \in Alarm, now \in Now, bedtime \in BedtimeConfig
  PROVE  /\ Ready(Fire(s, a))
         /\ Quiet(Fire(s, a).dc) /\ Fire(s, a).dc.episode_active
         /\ Fire(s, a).captured \in Level
<1> DEFINE armed == IF Visual[a] = NoLevel THEN s.dc ELSE ArmStrobe(s.dc, Visual[a])
           awake == SetEpisodeActive(armed, TRUE, now, bedtime)
           handed == IF s.active THEN SetBrightnessTarget(awake, s.captured) ELSE awake
<1>1. Fire(s, a) = [dc |-> handed, captured |-> CurrentBrightness(handed), active |-> TRUE]
  BY DEF Fire
<1>2. Sound(armed)
  BY ArmStrobeSound DEF Ready
<1> HIDE DEF armed
<1>3. Sound(awake) /\ Quiet(awake) /\ awake.episode_active
  BY <1>2, EpisodeStarts
<1> HIDE DEF awake
<1>4. Sound(handed) /\ Quiet(handed) /\ handed.episode_active
  BY <1>3, TargetSound DEF Ready, Quiet
<1> HIDE DEF handed
<1>5. CurrentBrightness(handed) \in Level
  BY <1>4, CurrentBrightnessType DEF Sound
<1>6. QED
  BY <1>1, <1>4, <1>5 DEF Ready

-----------------------------------------------------------------------------
(* The invariant: with its four parts, the type of the two capped counters  *)
(* needs nothing else.                                                       *)

Inv == TypeOK /\ EpisodeAgrees /\ LitForEpisode /\ PausedOnlyUnderOverlay

LEMMA InvSound ==
  ASSUME Inv
  PROVE  /\ Sound(dc) /\ Quiet(dc) /\ Ready(Episode)
         /\ dc.episode_active <=> phase # "None"
<1>1. Sound(dc) /\ Quiet(dc) /\ (dc.episode_active <=> phase # "None")
  BY DEF Inv, TypeOK, EpisodeAgrees, LitForEpisode, Sound, Quiet
<1>2. Ready(Episode)
  BY <1>1 DEF Inv, EpisodeAgrees, Ready, Episode
<1>3. QED
  BY <1>1, <1>2

\* What a handler must show of the next state.
LEMMA InvNext ==
  ASSUME Inv, Sound(dc'), Quiet(dc'),
         dc'.episode_active <=> phase' # "None",
         dc'.wake = "Paused" => overlay' # "closed",
         phase' \in {"None", "Ringing", "Lent"}, owner' \in Alarm \union {NoAlarm},
         used' \in Nat,
         captured' \in Level \union {NoLevel}, captured' \in Level <=> phase' # "None",
         bedtime' \in BedtimeConfig, overlay' \in {"closed", "open", "due"},
         now' \in Now, stored' \in [bedtime : StoredBedtime, floor : Level]
  PROVE  Inv'
<1>1. TypeOK'
  BY DEF TypeOK, Sound
<1>2. EpisodeAgrees'
  BY DEF EpisodeAgrees, Sound, Quiet
<1>3. LitForEpisode'
  BY DEF LitForEpisode, Sound
<1>4. PausedOnlyUnderOverlay'
  BY DEF PausedOnlyUnderOverlay
<1>5. QED
  BY <1>1, <1>2, <1>3, <1>4 DEF Inv

Darkens == dc.lit /\ ~dc'.lit

LEMMA RampType ==
  ASSUME NEW d
  PROVE  Ramp(d) \subseteq Level
BY DEF Ramp

LEMMA TickDisplayKeeps ==
  ASSUME NEW d, Sound(d), Quiet(d), TickDisplay(d), now \in Now, bedtime \in BedtimeConfig
  PROVE  Keeps(d, dc') /\ (~dc'.lit => Bedtime /\ ~d.episode_active)
<1>1. PICK half \in BOOLEAN, level \in Ramp(d) : dc' = Ticked(d, now, bedtime, half, level)
  BY DEF TickDisplay
<1>2. level \in Level
  BY RampType
<1>3. QED
  BY <1>1, <1>2, TickedKeeps DEF Bedtime

LEMMA QuietTickInv ==
  ASSUME Inv, QuietTick
  PROVE  Inv' /\ (Darkens => Bedtime /\ phase = "None" /\ phase' = "None")
<1>1. Sound(dc) /\ Quiet(dc) /\ (dc.episode_active <=> phase # "None")
  BY InvSound
<1>2. Keeps(dc, dc') /\ (~dc'.lit => Bedtime /\ ~dc.episode_active)
  BY <1>1, TickDisplayKeeps DEF Inv, TypeOK, QuietTick
<1>3. /\ phase' \in {"None", "Ringing", "Lent"} /\ (phase' = "None" <=> phase = "None")
      /\ owner' = owner /\ used' = used
  BY DEF QuietTick, Contract!TakeBack, Inv, TypeOK
<1>4. UNCHANGED <<captured, bedtime, stored, overlay, now>>
  BY DEF QuietTick, settings
<1>5. Inv'
  <2>1. Sound(dc') /\ Quiet(dc') /\ (dc'.episode_active <=> phase' # "None")
    BY <1>1, <1>2, <1>3 DEF Keeps
  <2>2. dc'.wake = "Paused" => overlay' # "closed"
    BY <1>2, <1>4 DEF Keeps, Inv, PausedOnlyUnderOverlay
  <2>3. captured' \in Level <=> phase' # "None"
    BY <1>3, <1>4 DEF Inv, EpisodeAgrees
  <2>4. QED
    BY <1>3, <1>4, <2>1, <2>2, <2>3, InvNext DEF Inv, TypeOK
<1>6. QED
  BY <1>1, <1>2, <1>3, <1>5 DEF Darkens

LEMMA FireTickInv ==
  ASSUME Inv, NEW s, Ready(s), Quiet(s.dc), s.dc.episode_active, s.captured \in Level,
         NEW a \in Alarm, FireTick(s, a)
  PROVE  Inv' /\ dc'.lit
<1>1. Keeps(s.dc, dc') /\ dc'.lit
  BY TickDisplayKeeps DEF Inv, TypeOK, FireTick, Ready, Keeps
<1>2. phase' = "Ringing" /\ owner' = a /\ used' = 0 /\ captured' = s.captured
  BY DEF FireTick, Contract!Ring
<1>3. UNCHANGED <<bedtime, stored, overlay, now>>
  BY DEF FireTick, settings
<1>4. Sound(dc') /\ Quiet(dc') /\ dc'.episode_active /\ dc'.wake # "Paused"
  BY <1>1 DEF Keeps, Sound
<1>5. QED
  BY <1>1, <1>2, <1>3, <1>4, InvNext DEF Inv, TypeOK

LEMMA SchedulerTickInv ==
  ASSUME Inv, SchedulerTick
  PROVE  Inv' /\ (Darkens => Bedtime /\ phase = "None" /\ phase' = "None")
<1>1. now \in Now /\ bedtime \in BedtimeConfig
  BY DEF Inv, TypeOK
<1>2. CASE QuietTick
  BY <1>2, QuietTickInv
<1>3. CASE AlarmTick
  <2>1. PICK a \in Alarm : FireTick(Fire(Episode, a), a)
    BY <1>3 DEF AlarmTick
  <2>2. Inv' /\ dc'.lit
    BY <1>1, <2>1, InvSound, FireReady, FireTickInv
  <2>3. QED
    BY <2>2 DEF Darkens
<1>4. CASE TwoAlarmsTick
  <2>1. PICK a \in Alarm : \E b \in Alarm \ {a} : FireTick(Fire(Fire(Episode, a), b), b)
    BY <1>4 DEF TwoAlarmsTick
  <2> PICK b \in Alarm \ {a} : FireTick(Fire(Fire(Episode, a), b), b)
    BY <2>1
  <2>2. Ready(Fire(Episode, a))
    BY <1>1, InvSound, FireReady
  <2>3. Inv' /\ dc'.lit
    BY <1>1, <2>2, FireReady, FireTickInv
  <2>4. QED
    BY <2>3 DEF Darkens
<1>5. QED
  BY <1>2, <1>3, <1>4 DEF SchedulerTick

-----------------------------------------------------------------------------
(* The user interface, the web page and the boot. *)

LEMMA DismissInv ==
  ASSUME Inv, DismissRequested
  PROVE  Inv' /\ ~Darkens
<1>1. /\ phase # "None" /\ phase' = "None" /\ owner' = NoAlarm /\ used' = 0
      /\ captured' = NoLevel
  BY DEF DismissRequested, Contract!End
<1>2. UNCHANGED <<bedtime, stored, overlay, now>>
  BY DEF DismissRequested, settings
<1>3. captured \in Level /\ Sound(dc) /\ dc.episode_active
  BY <1>1, InvSound DEF Inv, EpisodeAgrees
<1> DEFINE d == SetBrightnessTarget(dc, captured)
<1>4. Sound(d) /\ d.episode_active /\ d.lit = dc.lit
  BY <1>3, TargetSound
<1>5. dc' = SetEpisodeActive(d, FALSE, now, bedtime)
  BY DEF DismissRequested
<1> HIDE DEF d
<1>6. /\ Sound(dc') /\ Quiet(dc') /\ ~dc'.episode_active
      /\ dc'.lit = d.lit /\ dc'.wake # "Paused"
  BY <1>4, <1>5, EpisodeEnds DEF Inv, TypeOK
<1>7. Inv'
  BY <1>1, <1>2, <1>6, LevelFacts, InvNext DEF Inv, TypeOK
<1>8. QED
  BY <1>4, <1>6, <1>7 DEF Darkens

LEMMA SnoozeInv ==
  ASSUME Inv, SnoozeRequested
  PROVE  Inv' /\ ~Darkens
<1>1. /\ phase = "Ringing" /\ phase' = "Lent" /\ used' = used + 1 /\ owner' = owner
      /\ UNCHANGED <<captured, dc, bedtime, stored, overlay, now>>
  BY DEF SnoozeRequested, Contract!Lend, settings
<1>2. Inv'
  <2>1. Sound(dc') /\ Quiet(dc') /\ dc'.episode_active
    BY <1>1, InvSound
  <2>2. captured' \in Level /\ used' \in Nat
    BY <1>1 DEF Inv, TypeOK, EpisodeAgrees
  <2>3. dc'.wake = "Paused" => overlay' # "closed"
    BY <1>1 DEF Inv, PausedOnlyUnderOverlay
  <2>4. QED
    BY <1>1, <2>1, <2>2, <2>3, InvNext DEF Inv, TypeOK
<1>3. QED
  BY <1>1, <1>2 DEF Darkens

\* A handler that changes only the controller and the overlay, and those well.
LEMMA DisplayInv ==
  ASSUME Inv, UNCHANGED <<episode, settings, now>>,
         overlay' \in {"closed", "open", "due"},
         Sound(dc'), Quiet(dc'), dc'.episode_active = dc.episode_active,
         dc'.wake = "Paused" => overlay' # "closed"
  PROVE  Inv'
<1>1. UNCHANGED <<phase, owner, used, captured, bedtime, stored, now>>
  BY DEF episode, settings
<1>2. dc'.episode_active <=> phase' # "None"
  BY <1>1, InvSound
<1>3. captured' \in Level <=> phase' # "None"
  BY <1>1 DEF Inv, EpisodeAgrees
<1>4. QED
  BY <1>1, <1>2, <1>3, InvNext DEF Inv, TypeOK

LEMMA OverlayInv ==
  ASSUME Inv,
         QuickControlsRequested \/ QuickDismissRequested \/ OverlayIdle
           \/ QuickBrightnessChanged \/ OverlayDeadline
  PROVE  Inv' /\ ~Darkens
<1>1. Sound(dc) /\ Quiet(dc)
  BY InvSound
<1>2. CASE QuickControlsRequested
  <2>1. /\ dc' = SuspendWakeTimer(dc) /\ overlay' = "open"
        /\ UNCHANGED <<episode, settings, now>>
    BY <1>2 DEF QuickControlsRequested
  <2>2. Sound(dc') /\ Quiet(dc') /\ dc'.episode_active = dc.episode_active /\ dc'.lit = dc.lit
    BY <1>1, <2>1, SuspendSound
  <2>3. QED
    BY <2>1, <2>2, DisplayInv DEF Darkens
<1>3. CASE QuickDismissRequested \/ OverlayIdle
  <2>1. /\ dc' = ResumeWakeTimer(dc) /\ overlay' = "closed"
        /\ UNCHANGED <<episode, settings, now>>
    BY <1>3 DEF QuickDismissRequested, OverlayIdle, CloseOverlay
  <2>2. /\ Sound(dc') /\ Quiet(dc') /\ dc'.episode_active = dc.episode_active
        /\ dc'.lit = dc.lit /\ dc'.wake # "Paused"
    BY <1>1, <2>1, ResumeSound
  <2>3. QED
    BY <2>1, <2>2, DisplayInv DEF Darkens
<1>4. CASE QuickBrightnessChanged
  <2>1. PICK b \in Level : dc' = SetBrightnessTarget(dc, b)
    BY <1>4 DEF QuickBrightnessChanged
  <2>2. UNCHANGED <<episode, settings, overlay, now>> /\ overlay # "closed"
    BY <1>4 DEF QuickBrightnessChanged
  <2>3. /\ Sound(dc') /\ dc'.episode_active = dc.episode_active
        /\ dc'.strobe = dc.strobe /\ dc'.lit = dc.lit
    BY <1>1, <2>1, TargetSound
  <2>4. Quiet(dc')
    BY <1>1, <2>3 DEF Quiet
  <2>5. QED
    BY <2>2, <2>3, <2>4, DisplayInv DEF Darkens, Inv, TypeOK
<1>5. CASE OverlayDeadline
  <2>1. overlay' = "due" /\ UNCHANGED <<episode, dc, settings, now>>
    BY <1>5 DEF OverlayDeadline
  <2>2. QED
    BY <1>1, <2>1, DisplayInv DEF Darkens
<1>6. QED
  BY <1>2, <1>3, <1>4, <1>5

LEMMA StoredType ==
  ASSUME NEW c \in BedtimeConfig
  PROVE  ToJson(c) \in StoredBedtime
BY DEF ToJson, StoredBedtime

LEMMA SettingInv ==
  ASSUME Inv, SetBedtime \/ SetDisplay
  PROVE  Inv' /\ ~Darkens
<1>1. UNCHANGED <<phase, owner, used, captured, dc, bedtime, overlay, now>>
  BY DEF SetBedtime, SetDisplay, episode
<1>2. stored' \in [bedtime : StoredBedtime, floor : Level]
  <2>1. stored \in [bedtime : StoredBedtime, floor : Level]
    BY DEF Inv, TypeOK
  <2>2. CASE SetBedtime
    <3>1. PICK c \in Bedtimes : stored' = [stored EXCEPT !.bedtime = ToJson(c)]
      BY <2>2 DEF SetBedtime
    <3>2. ToJson(c) \in StoredBedtime
      BY SettingAssumption, StoredType
    <3>3. QED
      BY <2>1, <3>1, <3>2
  <2>3. CASE SetDisplay
    BY <2>1, <2>3, SettingAssumption DEF SetDisplay
  <2>4. QED
    BY <2>2, <2>3
<1>3. /\ Sound(dc') /\ Quiet(dc') /\ (dc'.episode_active <=> phase' # "None")
      /\ dc'.wake = "Paused" => overlay' # "closed"
      /\ captured' \in Level <=> phase' # "None"
  BY <1>1, InvSound DEF Inv, EpisodeAgrees, PausedOnlyUnderOverlay
<1>4. QED
  BY <1>1, <1>2, <1>3, InvNext DEF Inv, TypeOK, Darkens

\* A boot on any panel and any settings.
LEMMA BootedType ==
  ASSUME NEW lit \in BOOLEAN, NEW brightness \in Level,
         NEW kv \in [bedtime : StoredBedtime, floor : Level \union {NoLevel}]
  PROVE  LET b == Booted(lit, brightness, kv)
         IN  /\ Sound(b.dc) /\ Quiet(b.dc) /\ ~b.dc.episode_active
             /\ b.dc.wake = "Off" /\ b.dc.lit = lit
             /\ b.bedtime \in BedtimeConfig /\ b.floor \in Level
<1> DEFINE fresh == NewDisplay(InitialLevel, lit, brightness)
           loaded == IF kv.floor = NoLevel THEN fresh ELSE SetBrightnessTarget(fresh, kv.floor)
           windows == IF kv.bedtime = Absent THEN DefaultBedtime ELSE FromJson(kv.bedtime)
<1>1. Booted(lit, brightness, kv) = [dc |-> loaded, bedtime |-> windows, floor |-> loaded.target]
  BY DEF Booted
<1>2. /\ Sound(fresh) /\ Quiet(fresh) /\ ~fresh.episode_active
      /\ fresh.lit = lit /\ fresh.wake = "Off" /\ fresh.target \in Level
  BY NewDisplaySound, SettingAssumption
<1> HIDE DEF fresh
<1>3. /\ Sound(loaded) /\ Quiet(loaded) /\ ~loaded.episode_active
      /\ loaded.lit = lit /\ loaded.wake = "Off" /\ loaded.target \in Level
  <2>1. CASE kv.floor = NoLevel
    BY <1>2, <2>1
  <2>2. CASE kv.floor # NoLevel
    <3>1. kv.floor \in Level
      BY <2>2
    <3>2. QED
      BY <1>2, <2>2, <3>1, TargetSound DEF Quiet
  <2>3. QED
    BY <2>1, <2>2
<1> HIDE DEF loaded
<1>4. windows \in BedtimeConfig
  BY SettingAssumption DEF FromJson, StoredBedtime
<1> HIDE DEF windows
<1>5. QED
  BY <1>1, <1>3, <1>4

LEMMA RestartInv ==
  ASSUME Inv, Restart
  PROVE  Inv' /\ ~Darkens
<1>1. /\ phase' = "None" /\ owner' = NoAlarm /\ used' = 0 /\ captured' = NoLevel
      /\ overlay' = "closed" /\ now' = now
  BY DEF Restart
<1> DEFINE b == Booted(dc.lit, dc.brightness, stored)
<1>2. /\ dc' = b.dc /\ bedtime' = b.bedtime
      /\ stored' = [bedtime |-> ToJson(b.bedtime), floor |-> b.floor]
  BY DEF Restart, Boot
<1>3. /\ dc.lit \in BOOLEAN /\ dc.brightness \in Level
      /\ stored \in [bedtime : StoredBedtime, floor : Level \union {NoLevel}]
  BY DEF Inv, TypeOK, Display
<1>4. /\ Sound(b.dc) /\ Quiet(b.dc) /\ ~b.dc.episode_active /\ b.dc.wake = "Off"
      /\ b.dc.lit = dc.lit /\ b.bedtime \in BedtimeConfig /\ b.floor \in Level
  BY <1>3, BootedType
<1> HIDE DEF b
<1>5. ToJson(b.bedtime) \in StoredBedtime
  BY <1>4, StoredType
<1>6. Inv'
  BY <1>1, <1>2, <1>4, <1>5, LevelFacts, InvNext DEF Inv, TypeOK
<1>7. QED
  BY <1>2, <1>4, <1>6 DEF Darkens

-----------------------------------------------------------------------------
(* Time, and the calls that are offered only. *)

LEMMA ClockInv ==
  ASSUME Inv, ClockMoves
  PROVE  Inv' /\ ~Darkens
<1>1. /\ UNCHANGED <<phase, owner, used, captured, dc, bedtime, stored, overlay>>
      /\ now' \in Now
  BY DEF ClockMoves, episode, settings
<1>2. /\ Sound(dc') /\ Quiet(dc') /\ (dc'.episode_active <=> phase' # "None")
      /\ dc'.wake = "Paused" => overlay' # "closed"
      /\ captured' \in Level <=> phase' # "None"
  BY <1>1, InvSound DEF Inv, EpisodeAgrees, PausedOnlyUnderOverlay
<1>3. QED
  BY <1>1, <1>2, InvNext DEF Inv, TypeOK, Darkens

LEMMA DisplayOnlyInv ==
  ASSUME Inv, NEW d, DisplayOnly(d), Sound(d), Quiet(d),
         d.episode_active = dc.episode_active,
         d.wake = "Paused" => dc.wake = "Paused",
         dc.lit => d.lit
  PROVE  Inv' /\ ~Darkens
<1>1. dc' = d /\ UNCHANGED <<episode, settings, overlay, now>>
  BY DEF DisplayOnly
<1>2. dc'.wake = "Paused" => overlay' # "closed"
  BY <1>1 DEF Inv, PausedOnlyUnderOverlay
<1>3. QED
  BY <1>1, <1>2, DisplayInv DEF Darkens, Inv, TypeOK

LEMMA DeadlineInv ==
  ASSUME Inv, WakeDeadline \/ StrobeDeadline \/ OverrideDeadline
  PROVE  Inv' /\ ~Darkens
<1>1. Sound(dc) /\ Quiet(dc)
  BY InvSound
<1>2. PICK d \in {[dc EXCEPT !.wake_due = TRUE], [dc EXCEPT !.strobe_due = TRUE],
                  [dc EXCEPT !.override_due = TRUE]} : DisplayOnly(d)
  BY DEF WakeDeadline, StrobeDeadline, OverrideDeadline
<1>3. /\ Sound(d) /\ Quiet(d) /\ d.episode_active = dc.episode_active
      /\ d.wake = dc.wake /\ d.lit = dc.lit
  BY <1>1 DEF Sound, Quiet, Display
<1>4. QED
  BY <1>2, <1>3, DisplayOnlyInv

LEMMA OfferedInv ==
  ASSUME Inv, Touch \/ Override \/ ClearOverride \/ Weather \/ ForceStrobe
  PROVE  Inv' /\ ~Darkens
<1>1. Sound(dc) /\ Quiet(dc) /\ (dc.episode_active <=> phase # "None")
  BY InvSound
<1>2. CASE Touch
  BY <1>1, <1>2, OnTouchSound, DisplayOnlyInv DEF Touch
<1>3. CASE Override
  BY <1>1, <1>3, OverrideSound, DisplayOnlyInv DEF Override
<1>4. CASE ClearOverride
  BY <1>1, <1>4, OverrideSound, DisplayOnlyInv DEF ClearOverride
<1>5. CASE Weather
  <2>1. PICK l \in Radiation \union {NoLevel} : DisplayOnly(SetShortwaveRadiation(dc, l))
    BY <1>5 DEF Weather
  <2>2. l \in Level \union {NoLevel}
    BY SettingAssumption
  <2>3. QED
    BY <1>1, <2>1, <2>2, OverrideSound, DisplayOnlyInv
<1>6. CASE ForceStrobe
  <2>1. dc.episode_active /\ DisplayOnly(ForceFull(dc))
    BY <1>1, <1>6 DEF ForceStrobe
  <2>2. QED
    BY <1>1, <2>1, ForceFullSound, DisplayOnlyInv
<1>7. QED
  BY <1>2, <1>3, <1>4, <1>5, <1>6

-----------------------------------------------------------------------------
(* Theorems. *)

LEMMA InvInit == Init => Inv
<1> SUFFICES ASSUME Init PROVE Inv
  OBVIOUS
<1>1. PICK kv \in [bedtime : {Absent} \union {ToJson(c) : c \in Bedtimes},
                   floor : Floors \union {NoLevel}] :
        LET b == Booted(TRUE, Full, kv)
        IN  /\ dc = b.dc /\ bedtime = b.bedtime
            /\ stored = [bedtime |-> ToJson(b.bedtime), floor |-> b.floor]
  BY DEF Init
<1>2. kv \in [bedtime : StoredBedtime, floor : Level \union {NoLevel}]
  <2>1. Absent \in StoredBedtime
    BY SettingAssumption DEF Absent, StoredBedtime
  <2>2. \A c \in Bedtimes : ToJson(c) \in StoredBedtime
    BY SettingAssumption, StoredType
  <2>3. QED
    BY <2>1, <2>2, SettingAssumption
<1> DEFINE b == Booted(TRUE, Full, kv)
<1>3. /\ Sound(b.dc) /\ Quiet(b.dc) /\ ~b.dc.episode_active /\ b.dc.wake = "Off"
      /\ b.bedtime \in BedtimeConfig /\ b.floor \in Level
  BY <1>2, BootedType, LevelFacts
<1>4. dc = b.dc /\ bedtime = b.bedtime
      /\ stored = [bedtime |-> ToJson(b.bedtime), floor |-> b.floor]
  BY <1>1
<1> HIDE DEF b
<1>5. ToJson(b.bedtime) \in StoredBedtime
  BY <1>3, StoredType
<1>6. /\ phase = "None" /\ owner = NoAlarm /\ used = 0 /\ captured = NoLevel
      /\ overlay = "closed" /\ now \in Now
  BY DEF Init
<1>7. TypeOK
  BY <1>3, <1>4, <1>5, <1>6 DEF TypeOK, Sound
<1>8. EpisodeAgrees
  BY <1>3, <1>4, <1>6, LevelFacts DEF EpisodeAgrees, Sound, Quiet
<1>9. QED
  BY <1>3, <1>4, <1>6, <1>7, <1>8 DEF Inv, LitForEpisode, PausedOnlyUnderOverlay

LEMMA InvStep ==
  ASSUME Inv, [Next]_vars
  PROVE  Inv' /\ (Darkens => Bedtime /\ phase = "None" /\ phase' = "None")
<1>1. CASE SchedulerTick
  BY <1>1, SchedulerTickInv
<1>2. CASE DismissRequested
  BY <1>2, DismissInv
<1>3. CASE SnoozeRequested
  BY <1>3, SnoozeInv
<1>4. CASE \/ QuickControlsRequested \/ QuickDismissRequested \/ OverlayIdle
           \/ QuickBrightnessChanged \/ OverlayDeadline
  BY <1>4, OverlayInv
<1>5. CASE SetBedtime \/ SetDisplay
  BY <1>5, SettingInv
<1>6. CASE Restart
  BY <1>6, RestartInv
<1>7. CASE ClockMoves
  BY <1>7, ClockInv
<1>8. CASE WakeDeadline \/ StrobeDeadline \/ OverrideDeadline
  BY <1>8, DeadlineInv
<1>9. CASE Touch \/ Override \/ ClearOverride \/ Weather \/ ForceStrobe
  BY <1>9, OfferedInv
<1>10. CASE UNCHANGED vars
  <2>1. UNCHANGED <<episode, settings, now, overlay, dc>>
    BY <1>10 DEF vars
  <2>2. Sound(dc') /\ Quiet(dc')
    BY <2>1, InvSound
  <2>3. QED
    BY <2>1, <2>2, DisplayInv DEF Darkens, Inv, TypeOK, PausedOnlyUnderOverlay
<1>11. QED
  BY <1>1, <1>2, <1>3, <1>4, <1>5, <1>6, <1>7, <1>8, <1>9, <1>10 DEF Next

\* The four invariants hold in every state: types, the display's agreement
\* with the episode, light for an episode, and a wake timer that is held only
\* under the quick controls.
THEOREM Invariance == Spec => []Inv
<1>1. Inv /\ [Next]_vars => Inv'
  BY InvStep
<1>2. QED
  BY <1>1, InvInit, PTL DEF Spec

\* Every variable of the clock keeps its type (main.rs and display.rs: an
\* alarm's level is capped, a stored level is read back as one).
THEOREM TypeCorrect == Spec => []TypeOK
BY Invariance, PTL DEF Inv

\* The controller's episode is the episode's own, from the first fire to the
\* last dismissal, through snoozes and second alarms (EpisodeFsmAdapter::fire).
THEOREM DisplayAgrees == Spec => []EpisodeAgrees
BY Invariance, PTL DEF Inv

\* The panel has power during an episode, snoozed or not (set_episode_active).
THEOREM EpisodeIsLit == Spec => []LitForEpisode
BY Invariance, PTL DEF Inv

\* However the quick controls close, the wake timer runs again
\* (resume_wake_timer).
THEOREM WakeTimerResumes == Spec => []PausedOnlyUnderOverlay
BY Invariance, PTL DEF Inv

\* Only bedtime takes the power, and never in an episode (tick's order).
THEOREM DayIsNeverDark == Spec => NeverDarkByDay
<1>1. Inv /\ [Next]_vars
        => [dc.lit /\ ~dc'.lit => Bedtime /\ phase = "None" /\ phase' = "None"]_vars
  BY InvStep DEF Darkens
<1>2. QED
  BY <1>1, Invariance, PTL DEF Spec, NeverDarkByDay
=============================================================================
