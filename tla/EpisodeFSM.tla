----------------------------- MODULE EpisodeFSM -----------------------------
(***************************************************************************)
(* The alarm episode (alarm-clock/src/episode.rs, EpisodeController): the  *)
(* state machine Idle -> Escalating <-> Snoozing -> Dismissed that takes   *)
(* the music player over when an alarm fires, climbs the volume, walks the *)
(* fallback chain, lends the player back during a snooze and hands it back *)
(* at the end.                                                             *)
(*                                                                         *)
(* Time.  The code keeps Instants and only ever compares differences with  *)
(* now, so each Instant is represented by its age, capped where a larger   *)
(* age decides nothing: fire_age = now - fire_time (cap MaxAge), source_age*)
(* = now - source_start (cap GraceWindow), snooze_left = snooze_until -    *)
(* now (floor 0).  The state therefore stays finite and runs for ever.     *)
(*                                                                         *)
(* The player (Mopidy) is outside the component and is modelled from how   *)
(* the component drives it: the effect of the commands it issues, a player *)
(* that may stop by itself, a user who may use it while no alarm sounds,   *)
(* and a feed of playback states read late.  Left out: the track position  *)
(* (seek), and the backlight level a snapshot also holds, which is kept    *)
(* and restored with it but belongs to the display.                        *)
(*                                                                         *)
(* An operator named as faulty is not used: it stands beside the one it    *)
(* would replace, and shows which property notices the fault.              *)
(***************************************************************************)
EXTENDS Integers, Sequences

CONSTANTS
  Alarm,        \* alarm ids
  NoAlarm,      \* no episode is active
  AlarmRow,     \* [Alarm -> row]: the stored fields an episode plan is built from
  BundledBeep,  \* whether the bundled beep resolved to a path at boot
  MediaUri,     \* uris of the user's own media
  UserMedia,    \* player states a user may set up
  NoUri,        \* MopidySnapshot.uri = None: an empty tracklist, or no capture
  GraceWindow,  \* DEFAULT_GRACE_WINDOW, in time units
  SnoozeTime,   \* DEFAULT_SNOOZE_DURATION, in time units
  MaxAge,       \* cap of fire_age: no escalation step starts later
  EventCap      \* capacity of the playback event channel

\* A u8.  Neither upsert nor the plan caps the volume of a step, and the wired
\* playback_set_volume (main.rs:1057) sends it as it is.
Volume == 0..255
Step == [after_secs : Nat, volume : Volume]

\* Of the volume, what was last asked for.
Player == [uri : MediaUri \union {NoUri} \union (Alarm \X Int),
           playing : BOOLEAN, volume : Volume, repeat : BOOLEAN, shuffle : BOOLEAN]

\* AlarmStore::upsert sorts the steps by after_secs.
Sorted(steps) ==
  \A i, j \in DOMAIN steps : i <= j => steps[i].after_secs <= steps[j].after_secs

Row == [max_volume : Volume, steps : Seq(Step), fallbacks : Nat, max_snoozes : Nat]

ASSUME RowAssumption ==
  /\ NoAlarm \notin Alarm
  /\ AlarmRow \in [Alarm -> Row]
  /\ \A a \in Alarm : Sorted(AlarmRow[a].steps)
ASSUME MediaAssumption ==
  /\ UserMedia \subseteq Player
  /\ \A m \in UserMedia : m.playing => m.uri # NoUri
  /\ \A m \in UserMedia : m.uri \in MediaUri \union {NoUri}
  /\ NoUri \notin MediaUri
ASSUME TimeAssumption ==
  /\ GraceWindow \in Nat \ {0}
  /\ SnoozeTime \in Nat \ {0}
  /\ MaxAge \in Nat
  /\ \A a \in Alarm : \A i \in DOMAIN AlarmRow[a].steps :
       AlarmRow[a].steps[i].after_secs <= MaxAge
ASSUME ChannelAssumption == EventCap \in Nat \ {0} /\ BundledBeep \in BOOLEAN

-----------------------------------------------------------------------------
(* The plan of an episode. *)

Clamp(v) == IF v > 100 THEN 100 ELSE v

\* EpisodePlan::new clamps max_volume, and no step's; the beep, when there is
\* one, ends the fallback chain.
EpisodePlan(a) ==
  [max_volume  |-> Clamp(AlarmRow[a].max_volume),
   steps       |-> AlarmRow[a].steps,
   chain_len   |-> AlarmRow[a].fallbacks + (IF BundledBeep THEN 1 ELSE 0),
   max_snoozes |-> AlarmRow[a].max_snoozes]

\* usize::MAX in the code; PRIMARY + 1 wraps to 0 there, and is 0 here.
PRIMARY == -1

\* EpisodePlan::volume_at: the step's volume, else the fixed volume at step 0,
\* else the last step's.  step_index counts from 0.  With steps max_volume has
\* no say; episode.rs:149 calls it their hard cap, and PRD.md:108 has each step
\* write the lesser of the two.
VolumeAt(plan, index) ==
  IF index + 1 \in DOMAIN plan.steps THEN plan.steps[index + 1].volume
  ELSE IF index = 0 \/ plan.steps = <<>> THEN plan.max_volume
  ELSE plan.steps[Len(plan.steps)].volume

\* EpisodePlan::current_uri: a source is named by its alarm and its place.
SourceUri(a, index) == <<a, index>>

\* advance_escalation: the steps reached without a gap from the first.  Faulty:
\* the last step is never looked at.
ReachedShort(plan, age) ==
  {i \in 0..(Len(plan.steps) - 2) : \A j \in 0..i : plan.steps[j + 1].after_secs <= age}
Reached(plan, age) ==
  {i \in 0..(Len(plan.steps) - 1) : \A j \in 0..i : plan.steps[j + 1].after_secs <= age}

\* ... and the step the loop ends at: the last one reached, else the current.
StepReached(plan, age, index, target) ==
  IF Reached(plan, age) = {}
    THEN target = index
    ELSE target \in Reached(plan, age) /\ target + 1 \notin Reached(plan, age)

-----------------------------------------------------------------------------
VARIABLES
  state,           \* the EpisodeState variant
  alarm_id,        \* the alarm of the active episode (NoAlarm otherwise)
  snapshot,        \* the captured MopidySnapshot
  fire_age,        \* age of fire_time
  source_age,      \* age of source_start
  step_index,
  snooze_count,
  fallback_index,  \* plan.fallback_index
  snooze_left,     \* time until snooze_until
  player,          \* what the player does, by the commands issued to it
  events,          \* playback states reported and not yet delivered
  user_media       \* history: the user's media to be handed back, or Silence

fsm == <<state, alarm_id, snapshot, fire_age, source_age, step_index,
         snooze_count, fallback_index, snooze_left>>
env == <<player, events>>
vars == <<fsm, env, user_media>>

\* What the fields hold when no episode is active, where the code holds none.
Silence == [uri |-> NoUri, playing |-> FALSE, volume |-> 0, repeat |-> FALSE, shuffle |-> FALSE]
entrusted == user_media.uri # NoUri
NoSnapshot == Silence

is_firing == state = "Escalating"
is_active == state \in {"Escalating", "Snoozing"}
Plan == EpisodePlan(alarm_id)

-----------------------------------------------------------------------------
(* The player, as the component drives it. *)

\* tracklist_add(uri), playback_play, tracklist_set_repeat(true),
\* playback_set_volume(volume).
PlaySource(p, uri, volume) ==
  [p EXCEPT !.uri = uri, !.playing = TRUE, !.repeat = TRUE, !.volume = volume]

\* The restore half of dismiss and of snooze: repeat, shuffle and volume, then
\* the user's track if it was playing, a stop if there was one that was not,
\* and neither when the snapshot holds no uri.  Faulty: always stops.
RestoreSettings(p, m) == [p EXCEPT !.repeat = m.repeat, !.shuffle = m.shuffle, !.volume = m.volume]
RestoreNeverResumes(p, m) ==
  LET q == RestoreSettings(p, m)
  IN IF m.uri = NoUri THEN q ELSE [q EXCEPT !.playing = FALSE]
RestoreMedia(p, m) ==
  LET q == RestoreSettings(p, m)
  IN IF m.uri = NoUri THEN q
     ELSE IF m.playing THEN [q EXCEPT !.uri = m.uri, !.playing = TRUE]
     ELSE [q EXCEPT !.playing = FALSE]

\* The player reports its state when it changes; a full channel drops the report.
Reported(q, before, after) ==
  IF (before.playing = after.playing /\ before.uri = after.uri) \/ Len(q) >= EventCap
    THEN q
    ELSE Append(q, IF after.playing THEN "Playing" ELSE "Stopped")

\* capture_snapshot: the player's state, or the default on timeout/NotConnected.
Captures(p) == {p, Silence}

-----------------------------------------------------------------------------
(* The transitions of the machine. *)

\* dismiss: restore the player, drop the episode.  `left' are the reports not
\* yet delivered.
EndEpisode(left) ==
  /\ state' = "Dismissed"
  /\ alarm_id' = NoAlarm
  /\ snapshot' = NoSnapshot
  /\ fire_age' = 0 /\ source_age' = 0 /\ snooze_left' = 0
  /\ step_index' = 0 /\ snooze_count' = 0 /\ fallback_index' = PRIMARY
  /\ player' = RestoreMedia(player, snapshot)
  /\ events' = Reported(left, player, player')
  /\ UNCHANGED user_media

\* fire: a second alarm first dismisses and restores the current episode.
Handed == IF is_active THEN RestoreMedia(player, snapshot) ELSE player
Fire(a) ==
  LET handed == Handed
  IN \E m \in Captures(handed) :
       /\ state' = "Escalating"
       /\ alarm_id' = a
       /\ snapshot' = m
       /\ fire_age' = 0 /\ source_age' = 0 /\ snooze_left' = 0
       /\ step_index' = 0 /\ snooze_count' = 0 /\ fallback_index' = PRIMARY
       /\ player' = PlaySource(handed, SourceUri(a, PRIMARY), VolumeAt(EpisodePlan(a), 0))
       /\ events' = Reported(Reported(events, player, handed), handed, player')
       /\ user_media' = IF m.uri = NoUri THEN Silence ELSE user_media

\* dismiss: the overlay's tap, a command failure other than NotConnected
\* (on_command_failure) and shutdown_restore all come here.
Dismiss == is_active /\ EndEpisode(events)

\* snooze: refused when one more would exceed the cap.
SnoozeGrantedAtCap == snooze_count <= Plan.max_snoozes            \* faulty
SnoozeGranted == snooze_count + 1 <= Plan.max_snoozes
Snooze ==
  /\ is_firing
  /\ SnoozeGranted
  /\ state' = "Snoozing"
  /\ snooze_left' = SnoozeTime
  /\ snooze_count' = snooze_count + 1
  /\ fire_age' = 0 /\ source_age' = 0
  /\ player' = RestoreMedia(player, snapshot)
  /\ events' = Reported(events, player, player')
  /\ UNCHANGED <<alarm_id, snapshot, step_index, fallback_index, user_media>>

\* advance_escalation: set the volume of the step reached, if it is another.
\* Faulty: the volume stays.
ClimbUnheard(p, age) ==
  \E target \in 0..Len(Plan.steps) :
    /\ StepReached(Plan, age, step_index, target)
    /\ step_index' = target
    /\ player' = p
    /\ events' = Reported(events, player, player')
Climb(p, age) ==
  \E target \in 0..Len(Plan.steps) :
    /\ StepReached(Plan, age, step_index, target)
    /\ step_index' = target
    /\ player' = IF target = step_index THEN p ELSE [p EXCEPT !.volume = VolumeAt(Plan, target)]
    /\ events' = Reported(events, player, player')

\* on_tick while Escalating: check_snooze_refire has nothing to do.
AdvanceEscalation ==
  /\ is_firing
  /\ Climb(player, fire_age)
  /\ UNCHANGED <<state, alarm_id, snapshot, fire_age, source_age, snooze_count,
                 fallback_index, snooze_left, user_media>>

\* on_tick while Snoozing and due: check_snooze_refire replays the primary at
\* the preserved step, with fire_time placed at that step's start, and
\* advance_escalation follows in the same tick.
AgeRestarted == 0                                                 \* faulty
ResumeAge ==
  IF step_index + 1 \in DOMAIN Plan.steps THEN Plan.steps[step_index + 1].after_secs ELSE 0
SnoozeDueStrict == snooze_left < 0                                \* faulty
SnoozeDue == snooze_left = 0
CheckSnoozeRefire ==
  /\ state = "Snoozing"
  /\ SnoozeDue
  /\ state' = "Escalating"
  /\ fire_age' = ResumeAge
  /\ source_age' = 0
  /\ fallback_index' = PRIMARY
  /\ Climb(PlaySource(player, SourceUri(alarm_id, PRIMARY), VolumeAt(Plan, step_index)), ResumeAge)
  /\ UNCHANGED <<alarm_id, snapshot, snooze_count, snooze_left, user_media>>

OnTick == AdvanceEscalation \/ CheckSnoozeRefire

\* on_playback_state_changed: a Stopped read within the grace window of the
\* current source advances the chain, or ends the episode when it is exhausted.
SourceFailed == is_firing /\ Head(events) = "Stopped" /\ source_age < GraceWindow
HasNextFallback == fallback_index + 1 < Plan.chain_len

EventIgnored ==
  /\ events # <<>>
  /\ ~SourceFailed
  /\ events' = Tail(events)
  /\ UNCHANGED <<fsm, player, user_media>>

AdvanceFallback ==
  /\ events # <<>>
  /\ SourceFailed
  /\ HasNextFallback
  /\ source_age' = 0
  /\ fallback_index' = fallback_index + 1
  /\ player' = PlaySource(player, SourceUri(alarm_id, fallback_index + 1), VolumeAt(Plan, step_index))
  /\ events' = Reported(Tail(events), player, player')
  /\ UNCHANGED <<state, alarm_id, snapshot, fire_age, step_index, snooze_count,
                 snooze_left, user_media>>

ChainExhausted ==
  /\ events # <<>>
  /\ SourceFailed
  /\ ~HasNextFallback
  /\ EndEpisode(Tail(events))

-----------------------------------------------------------------------------
(* What happens around it. *)

Min2(i, j) == IF i < j THEN i ELSE j

\* A time unit passes; it changes nothing when no episode is active.
Elapse ==
  /\ is_active
  /\ fire_age' = IF is_firing THEN Min2(fire_age + 1, MaxAge) ELSE fire_age
  /\ source_age' = IF is_firing THEN Min2(source_age + 1, GraceWindow) ELSE source_age
  /\ snooze_left' = IF snooze_left > 0 THEN snooze_left - 1 ELSE 0
  /\ UNCHANGED <<state, alarm_id, snapshot, step_index, snooze_count,
                 fallback_index, env, user_media>>

\* The process dies and starts again: the machine is Idle and its snapshot is
\* gone, the player goes on as it was.
Crash ==
  /\ state' = "Idle"
  /\ alarm_id' = NoAlarm
  /\ snapshot' = NoSnapshot
  /\ fire_age' = 0 /\ source_age' = 0 /\ snooze_left' = 0
  /\ step_index' = 0 /\ snooze_count' = 0 /\ fallback_index' = PRIMARY
  /\ events' = <<>>
  /\ user_media' = IF is_firing THEN Silence ELSE user_media
  /\ UNCHANGED player

\* The user sets the player up while no alarm sounds.
UserPlays(m) ==
  /\ ~is_firing
  /\ player' = m
  /\ user_media' = IF is_active THEN Silence ELSE m
  /\ events' = Reported(events, player, m)
  /\ UNCHANGED fsm

\* The alarm's source cannot be played, or ends.
SourceStops ==
  /\ is_firing
  /\ player.playing
  /\ player' = [player EXCEPT !.playing = FALSE]
  /\ events' = Reported(events, player, player')
  /\ UNCHANGED <<fsm, user_media>>

Init ==
  /\ state = "Idle"
  /\ alarm_id = NoAlarm
  /\ snapshot = NoSnapshot
  /\ fire_age = 0 /\ source_age = 0 /\ snooze_left = 0
  /\ step_index = 0 /\ snooze_count = 0 /\ fallback_index = PRIMARY
  /\ player \in UserMedia
  /\ events = <<>>
  /\ user_media = player

Next ==
  \/ \E a \in Alarm : Fire(a)
  \/ Dismiss
  \/ Snooze
  \/ OnTick
  \/ EventIgnored
  \/ AdvanceFallback
  \/ ChainExhausted
  \/ Elapse
  \/ Crash
  \/ \E m \in UserMedia : UserPlays(m)
  \/ SourceStops

\* Time passes, and the scheduler's timer runs on the event loop of main.
Spec == Init /\ [][Next]_vars /\ WF_vars(Elapse) /\ WF_vars(OnTick)

-----------------------------------------------------------------------------
(* Properties. *)

\* Every variable keeps its type; an episode has an alarm, and no counter
\* outlives it.
TypeOK ==
  /\ state \in {"Idle", "Escalating", "Snoozing", "Dismissed"}
  /\ alarm_id \in Alarm \union {NoAlarm}
  /\ is_active <=> alarm_id # NoAlarm
  /\ is_active \/ snooze_count = 0
  /\ snapshot \in Player
  /\ fire_age \in 0..MaxAge
  /\ source_age \in 0..GraceWindow
  /\ snooze_left \in 0..SnoozeTime
  /\ step_index \in Nat
  /\ snooze_count \in Nat
  /\ fallback_index \in Nat \union {PRIMARY}
  /\ player \in Player
  /\ events \in Seq({"Playing", "Stopped"})
  /\ user_media \in UserMedia \union {Silence}

\* Two player states a user cannot tell apart: what is heard, and the settings.
SameMedia(p, m) ==
  /\ p.playing = m.playing
  /\ m.playing => p.uri = m.uri
  /\ p.volume = m.volume /\ p.repeat = m.repeat /\ p.shuffle = m.shuffle

\* While an alarm sounds the player is set to its current source, looping, at
\* the volume its current step asks for, over the ceiling or not, or without
\* steps at the ceiling, whatever fallbacks, climbs and snoozes led there (fire,
\* advance_escalation, check_snooze_refire, on_playback_state_changed agree on
\* one picture of the player).
RingsAsPlanned ==
  is_firing =>
    /\ player.uri = SourceUri(alarm_id, fallback_index)
    /\ fallback_index < Plan.chain_len
    /\ player.repeat
    /\ player.volume = IF Plan.steps = <<>> THEN Plan.max_volume
                       ELSE Plan.steps[step_index + 1].volume

\* Unless the capture found nothing, the user took the player back during a
\* snooze, or the process died over a sounding alarm, the player is the user's
\* again whenever no alarm sounds: during a snooze and after the end, also when
\* one alarm fires into the episode of another (dismiss, snooze, fire).
MediaHandedBack == entrusted /\ ~is_firing => SameMedia(player, user_media)

\* ... because what an episode holds is the user's media, never the source of
\* the alarm it interrupted (fire dismisses before it captures).
SnapshotIsUserMedia == entrusted /\ is_active => SameMedia(snapshot, user_media)

\* Within an episode the escalation never falls back to an earlier step, also
\* across a snooze (check_snooze_refire resumes at the preserved step).
VolumeNeverDips ==
  [][is_active /\ is_active' /\ ~(\E a \in Alarm : Fire(a)) => step_index' >= step_index]_vars

\* A snooze ends: the alarm comes back, or the episode is over.
SnoozeEnds == state = "Snoozing" ~> state # "Snoozing"

\* Unless alarms fire over one another for ever, an alarm that is left alone
\* climbs to its last step.
EscalationCompletes ==
  \/ []<><<\E a \in Alarm : Fire(a)>>_vars
  \/ is_firing ~> (~is_firing \/ step_index + 1 >= Len(Plan.steps))

\* What an episode promises, see EpisodeContract.
Contract ==
  INSTANCE EpisodeContract WITH
    phase <- IF is_firing THEN "Ringing" ELSE IF state = "Snoozing" THEN "Lent" ELSE "None",
    owner <- alarm_id,
    used  <- snooze_count,
    Cap   <- [a \in Alarm |-> EpisodePlan(a).max_snoozes]
ImplementsContract == Contract!Spec
=============================================================================
