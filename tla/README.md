# A verification project for the alarm clock

TLA+ models of the alarm clock of this repository (`alarm-clock/`, a Slint
application for a Raspberry Pi, and `mopidy-client/`, its WebSocket client for
the Mopidy music player), the TLC runs that check them and the theorems that
TLAPS proves about them.  File names below are relative to
`alarm-clock/src/` unless they say otherwise.

## The system

The process has two threads.  On the **main thread** the Slint event loop runs
timers and callbacks: a drain timer (50 ms) that takes replies, events and web
commands from their channels, the scheduler's timer (5 s), a weather and
calendar timer (30 s), a clock timer (1 s), and the taps of the user.  On the
**worker thread** a single-threaded tokio runtime runs the command dispatcher,
the Mopidy client's reconnect loop and the web server.  Bounded channels lead
from one to the other: `Cmd` (32), `Reply` (32), events (64), web commands, and
inside the client its own command channel (64).

| component | state it keeps | operations | meets |
|---|---|---|---|
| alarm episode (`episode.rs`) | `EpisodeState`: Idle, Escalating, Snoozing, Dismissed, with snapshot, plan, step, counters, instants | fire, dismiss, snooze, advance_escalation, check_snooze_refire, on_playback_state_changed, on_command_failure, shutdown_restore | scheduler's tick, the overlay's taps, the player through `ChannelMopidyControl` |
| alarm store (`alarm_store.rs`, `schedule.rs`) | the `alarms` table: rule, policy, cached `next_fire` | upsert, delete, set_enabled, recompute_next_fires, set_next_fire | scheduler, web commands |
| scheduler (`scheduler.rs`, `StoreAlarmSource` in `main.rs`) | `booted` | tick, suppress_alarm | store, holidays, episode, display |
| Mopidy client (`mopidy-client/src/transport.rs`) | connection state, backoff attempt, pending replies, command channel | send_and_await, reconnect_loop, run_session | the dispatcher, Mopidy |
| dispatcher and channels (`channel.rs`, `main.rs`) | none between commands | one command after the other, each with a reply | main, Mopidy client, weather and calendar services |
| weather (`WeatherStore` in `main.rs`) | in-flight flags, failure count, next retry, snapshot | maybe_dispatch_weather, the replies | 30 s timer, dispatcher, key-value store |
| calendar (`CalendarState`, `calendar.rs`) | holidays, agenda, in-flight flags, failure count, re-pair flag, pending web slots | maybe_dispatch_calendar_fetch, pairing, the replies | 30 s timer, web commands, dispatcher, secrets |
| display (`display.rs`) | wake state, strobe, override, episode flag, target and current brightness, bedtime windows | on_touch, suspend/resume_wake_timer, arm_strobe, cancel_strobe, force_full, set_episode_active, overrides, tick | scheduler's timer, episode, quick controls, the store at boot |
| media panel (`media.rs`, `MediaState` in `main.rs`) | expanded podcast, its episodes, the card, glyph and spinner, the favourites shown | taps, transport row, poll each second, push_media_to_ui, the replies | dispatcher, Mopidy, favourites table |
| web server (`web_config.rs`, `web/`) | browser token, the `WebCmd` channel and a oneshot per request | list, upsert, delete, settings, pairing, discovery | main (`dispatch_web_cmd`) |
| database (`database.rs`, `config.rs`, `seed.rs`) | schema version, tables, key-value rows | open with migrations, stores of each table, seeds | everything on main |
| theme (`theme.rs`) | theme and mode | load, cycle, persist | taps, key-value store |
| Google calendar (`calendar.rs`) | access token of one command; holiday and agenda stores | device flow, token refresh, list, fetch | dispatcher, main |
| secrets (`secrets.rs`) | refresh token, web token; `secrets.json` | load, save | main |

What makes it hard, and hard to test:

* *Interleaving.* Ticks, taps, web edits and replies come in any order on the
  main thread; several tasks share the Mopidy client; a second alarm fires into
  the episode of the first.
* *Failure.* Mopidy goes away in the middle of a call; a write to the store
  fails and is only logged; the process dies with an alarm ringing or before
  the boot's first tick; a capture of the player times out.
* *Order and staleness.* A cache is recomputed for every alarm on behalf of
  one; a report of the player is read after the source it speaks of was
  replaced; a snapshot is older than the media it is to restore.
* *Time.* The clock is set; a snooze ends while the process is busy; a backoff
  overflows; half-open connections.
* *One backlight, many owners.* Alarm, strobe, bedtime, quick controls, wake
  timer and web settings decide about the same panel.
* *Cut-off work.* A start dies in a migration, the power fails in a save of
  `secrets.json`, a web client hangs up on a request that is queued.

What makes each part correct:

* the episode: the player follows the plan while an alarm sounds and is the
  user's otherwise; snoozes are bounded and end; the volume climbs and does not
  fall back; one episode at a time;
* store and scheduler: an alarm rings for each occurrence of its rule that no
  policy exempts, once, and not after the device was off over it; the cache is
  never older than the rule;
* the client: a reply reaches the call it answers; no request is lost, doubled
  or sent again but by its connection's fault; it connects again;
* worker and refreshes: every in-flight flag stands for something in flight,
  requests that may not overlap do not, a code, a list or an error reaches who
  asked for it, a refresh that is due is made, a shutdown is served;
* the display: lit for an alarm and by day, dark at bedtime, no wake timer held
  for ever;
* the media panel: what is shown is what was tapped last, a live stream is not
  paused, the spinner ends;
* web server and database: each request takes effect at one moment or never, a
  start comes up and brings back what was saved;
* Google calendar and secrets: a valid token is not lost, to no error, late
  answer or power cut; the stores are those of a whole fetch; a command ends.

## The modules

| module | models | theorems in |
|---|---|---|
| `EpisodeFSM` | `EpisodeController` with its player | `EpisodeFSM_proofs` |
| `EpisodeContract` | what an episode promises, abstractly | (with `EpisodeFSM`) |
| `AlarmScheduler` | `AlarmStore`, `Scheduler`, `StoreAlarmSource`, the web edits | `AlarmScheduler_proofs` |
| `MopidyTransport` | `MopidyWsClient`: callers, reconnect loop, session | `MopidyTransport_proofs` |
| `CommandWorker` | the `Cmd` and `Reply` channels and `command_dispatcher` | `Refresh_proofs` |
| `WeatherRefresh` | `WeatherStore` and main's weather code, over `CommandWorker` | `Refresh_proofs` |
| `CalendarRefresh` | `CalendarState` and main's calendar code, over `CommandWorker` | `Refresh_proofs` |
| `DisplayController` | `display.rs`: the controller as a record and its methods as operators | (with the next) |
| `AlarmClock` | main's handlers over the backlight: ticks, overlay, settings, boot, with `EpisodeContract` for the episode | `AlarmClock_proofs` |
| `MediaPanel` | `MediaState`, the taps, the dispatcher's Mopidy arms, the player | `MediaPanel_proofs` |
| `ConfigTables` | what the web page can ask of the database, and what rows become of it | |
| `ConfigServer` | web handlers, channel, `dispatch_web_cmd`, migrations, seed, theme, favourites shown | `ConfigServer_proofs` |
| `ConfigContract` | a store that serves each client's requests one by one, abstractly | (with `ConfigServer`) |
| `GoogleCalendar` | device flow, calendar client, `secrets.json`, holiday and agenda stores | `GoogleCalendar_proofs` |

`MCEpisodeFSM`, `MCAlarmScheduler`, `MCMopidyTransport`, `MCWeatherRefresh`,
`MCCalendarRefresh`, `MCAlarmClock`, `MCMediaPanel`, `MCConfigServer` and
`MCGoogleCalendar` extend them with the values of the constants; each `.cfg` is
one run.  In every module an operator
marked as faulty is not used: it stands beside the definition it would replace
and shows which property notices such a fault.

### `EpisodeFSM`

State: the variant of `EpisodeState` (`state`) and the fields of its variants
(`alarm_id`, `snapshot`, `step_index`, `snooze_count`, `fallback_index`), with a
fixed value where the code holds none.  `fire_time`, `source_start` and
`snooze_until` are Instants of which the code only ever uses the difference with
now, so the model keeps ages (`fire_age`, `source_age`, `snooze_left`), capped
where a larger one decides nothing; the model runs for ever with finitely many
states.  `player` is Mopidy as the component drives it and `events` the reports
it gives of itself, late and possibly dropped.  `user_media` is history: what
is to be handed back.  A volume is any `u8`, and the player's is what it was last
asked for.

Actions: `Fire(a)`, `Dismiss`, `Snooze`, `OnTick` (either `AdvanceEscalation` or
`CheckSnoozeRefire`, which climbs in the same tick as the code does),
`EventIgnored` / `AdvanceFallback` / `ChainExhausted` (the outcomes of
`on_playback_state_changed`); around them `Elapse`, `Crash`, `UserPlays` and
`SourceStops`.  `on_command_failure` with an error other than NotConnected and
`shutdown_restore` are `Dismiss`.

Abstractions: media are names, a source is its alarm and its place in the chain;
the seek position is left out, and the backlight level of a snapshot is
`AlarmClock`'s.  `tracklist.add` and
`playback.play` together are taken to play the uri added, which is what the code
means by them; Mopidy's tracklist itself is not modelled.  The model gives the
player's capture its full range, the player's state or nothing; the wired
`ChannelMopidyControl` always captures nothing, and does not yet forward events
of the player: the module verifies the component, for any seam.

`EpisodeContract` has one episode of one alarm at a time that rings, may be lent
back at most `Cap` times, and whose loans end.  `ImplementsContract` is the
refinement (`phase` from `state`, `owner` from `alarm_id`, `used` from
`snooze_count`).

### `AlarmScheduler`

State: `rows` (the table without its cache), `next_fire` (the cache),
`holidays` (the `HolidayStore`), `booted`, `up`, and `now`, the clock, in slots
of which `DayLen` make a day.  A rule is the set of dates it yields in its own
zone and a time of day; a zone is an offset from the device's.  History:
`computed_at`, `boot_at`, `shifted`, `rung`.

`Tick` is the whole of `Scheduler::tick`: due alarms are taken in the order of
their ids, each fires, is skipped as missed, suppressed or shifted, and all but
the shifted have every cache recomputed.  Since every recompute of one tick uses
the same `now` and the same rows, the outcome is that of the last one, with the
shifts that follow it; the model writes that outcome in one step, and a write
that fails may be any.  `UpsertAlarm` and `DeleteAlarm` are the web page's
edits; `Boot` recomputes or fails to; `RefreshHolidays`, `Elapse`, `StepClock`
and `Crash` are the world.

Left out: daylight saving but for the dates on which a wall-clock time is not
one instant (`FoldDates`), and rules with INTERVAL or COUNT, whose expansion in
`Schedule::next_fire` is anchored anew at each computation.

### `MopidyTransport`

State: the reconnect loop's place (`loop`), the shared connection state (`conn`),
the backoff exponent (`attempt`), the id counter, `pending` (whose oneshot waits
for which id), the command channel (`queue`), each caller's place in
`send_and_await` (`pc`, `call`, `reply`) and the connection (`link`, `asked`,
`inbound`, `event`).  `cut` is history: the ids that went down with a connection.

Actions: `Call`, `Enqueue`, `ChannelClosed`, `Return` for a caller; `Dial`,
`Connect`, `BackOff`, `Wake`, `Overflow` for the loop; `ReadReply`, `ReadEvent`,
each followed by the drain of the channel as in the code, `WriteOne`, which runs
only when there is nothing to read, and `SessionEnds` for the session.  A broken
socket swallows frames until it refuses one.  Mopidy answers in any order,
emits events, goes away and comes back.

Left out: frames that do not parse (skipped), the channels of replies and events
whose receivers the program drops, and half-open connections, which nothing in
the client detects.

### `CommandWorker`

State: the two channels (`cmds`, `replies`), the dispatcher's present command
(`job`, `stage`), whether its loop still runs (`listening`), a pending signal,
and the process (`up`).  It has no specification of its own: `WeatherRefresh`
and `CalendarRefresh` extend it and add main's side of their commands, while
`SendMopidy` stands for all others, which take their turn and may hang.  Main
never waits: `Sends` is `try_send` and drops a command that finds no room.  The
dispatcher does wait, for room among the replies, for a call, for a device flow.

Requests answered, at the dispatcher and queued form the `Pipeline`, in the
order in which main made them and will see them answered; the properties of the
two modules above speak of what is `UnderWay` in it.

The handlers of main are atomic, as the main thread runs one at a time; the
drain takes all replies that have arrived, one after the other, and the model
lets other handlers in between, which they are whenever a reply arrives later.

### `WeatherRefresh`

State: the stored city and coordinates, the two in-flight flags, and `cadence`,
which is what `retry_state` and the age of the snapshot decide: nothing is due,
a backoff lasts, something is due.  Actions: `DispatchFetch` and
`DispatchGeocode` (the two arms of `maybe_dispatch_weather`), `WeatherFetched`,
`WeatherFailed`, `Geocoded` with its store and its fetch, `SetWeatherCity`.
`unpersisted` is history: a store of geocoded coordinates failed.  The comment
on `handle_failure` says that at most one flag is ever set; that is so until
such a store fails, which `OneWeatherRequest` therefore excuses and
`WeatherFlagsHonest` does not.  The cities that can be stored (`City`) are a
constant of their own, as the proofs hold for any.

### `CalendarRefresh`

State: the flags and the prompt of `CalendarState`, `cadence` as above, whether
there is a token and a calendar, the two slots in which a web client's sender
waits, and the status that it polls.  Actions: the timer, the tap and the web
page's two requests, the edits of the table, and the replies: events, device
code, the end of a pairing (saved, unsaved, failed), and a list, which goes to a
waiting web client or else into the table.  Who asked for a pairing
(`"screen"`, `"web"`) is history.  A token that cannot be saved leaves
`pairing_in_flight` set for the rest of the process; `unsaved` marks it, and
`FlagsHonest` and `Refreshed` except it.

Left out of both: the HTTP calls behind an outcome, the failure count behind a
backoff, credentials that are not configured, a SIGINT (which is lost while the
dispatcher is at a command).

### `DisplayController` and `AlarmClock`

`DisplayController` has no state of its own: the controller is a record and each
method an operator on it, so that `AlarmClock` composes the calls of a handler in
the order in which `main.rs` makes them.  Deadlines are only compared with now;
the record holds whether one has passed.  `Ticked` is `tick` with its order:
strobe, wake timer, override, ramp, and then the one winner that writes.

State of `AlarmClock`: the episode as `EpisodeContract` sees it (`phase`,
`owner`, `used`) with the level it captured, the controller `dc`, its `bedtime`
windows, the `overlay` of the quick controls, the clock (`now`: a slot of a
weekday or weekend) and what the web page has `stored`.  Actions: the
scheduler's timer (`QuietTick`, `AlarmTick`, `TwoAlarmsTick`: firing arms the
strobe and sets the flag, then hands back and captures, then the controller
ticks), dismiss, snooze (which does not tell the display), the overlay's opening,
closing and brightness, the web page's two settings, `Restart` with the boot's
load and write-back, the passing deadlines, and the calls that the controller
offers and main does not make yet (`Offered`).

Facts the model shows and no document denies: the boot cannot read the shape in
which `BedtimeConfig::to_json` writes the windows, so a stored bedtime becomes
the default (`display.rs:135`); a second alarm may capture the level that the
first one's strobe has set, and hand it back at the end (`main.rs:1018`).

### `MediaPanel`

State: the panel (`expanded`, `episodes`, `now_playing`, `media_playing`,
`buffering`), the two channels, the dispatcher's command and how far it is
(`job`, `stage`), the external `player`.  Actions: the taps on a favourite, an
episode, a control; `ClockTick` (push, then poll); the 15 s deadline; the three
replies; the dispatcher's arms, of which PlayUri is clear, add, settle, play with
a failure possible at each; a call that hangs; the player that stops; a restart.
The spinner also ends early on a poll that still speaks of the earlier source;
`SpinnerEnds` only asks that it ends.

### `ConfigTables`, `ConfigServer`, `ConfigContract`

`ConfigTables` says what forms become (`Converted`), what rows are read back as,
what a mutation does, what is answered, what a migration changes.  It keeps the
facts a reader would not expect: an alarm edited on the page has no `once_at`
and, if its rule was that, none at all; unknown types of a favourite become
Radio; a list that cannot be read is answered as an empty one.

State of `ConfigServer`: `phase` of the process, `version` and `applied` (what
user_version says and what the schema shows), `tables`, for each client the
request its handler waits with and the answer, `line` (the channel and, behind
its capacity, the handlers that wait for room), the theme controller with
what it showed after the last tap (`chosen`) and which key was not written then
(`unsaved`), both history, and the favourites `shown`.  Actions: `Ask`, `Dispatch`, `Return`, `GiveUp` (a hang-up
drops the handler where it stands: what waits for room is withdrawn, what is in
the channel stays, unwanted), `Exit`, `Open`, `Migrate`, `Bootstrap`
(`Booting`: any of the two keys of the theme may be unreadable), `Start`
(with the seed), `Push`, `Cycle`.  Deleting the last favourite makes the seed
reappear at the next start; that is `Inside` in the contract.

`ConfigContract` is the promise: each request takes effect at one moment between
question and answer, at most once; one that was given up takes effect later or
never, and before anything its client asks afterwards.  The mapping reads the
tables as a list shows them (`View`), so a migration is a stutter, and `loose`
from the unwanted entries of `line` in their order (`GivenUp`).

### `GoogleCalendar`

State: the refresh token in memory, main's flags, the `save` main is in, the
`file` and what of it a power cut may leave (`survives`), the two stores, the
channels, the dispatcher's `job`, the servers' `issued` and `revoked` tokens.
Actions: `Receive`, the device flow (`RequestDeviceCode`, `Poll`, `Slept`), the
client (`RefreshAccessToken`, `GetOk`, `GetFails`, `Get401`), the save in steps
(`WriteTmp`, `Rename`, `SaveFails`), `Boot` by restart or by power cut, the
refresh timer, the pairing button and the six replies.  An access token lives
for one command, as in the code.  `CalendarRefresh` abstracts all this to
outcomes and has who asked; here the outcomes are derived.

Facts the model shows: a refresh token that Google reports as revoked with a 400
is taken for a passing error, so the prompt to pair is never set for it
(`calendar.rs:364`); a malformed `secrets.json` is taken for none; one calendar
that fails fails the whole fetch; there are no holidays between a boot and the
first fetch; an all-day event of today counts as past.

## The runs

| run | expects | shows |
|---|---|---|
| `episode` | pass | the player follows the plan while an alarm sounds and is the user's otherwise; volume climbs; snoozes end; the contract is kept |
| `scheduler` | pass | caches follow the rules, ring once, pass over nothing, are silent about what was missed, and what is due is served |
| `transport` | pass | replies reach their callers; what no outage cut is answered; the client reconnects |
| `weather` | pass | fetches are of the stored place; what is due is fetched |
| `calendar` | pass | codes reach who asked; the prompt stands; refreshes, web requests and the shutdown are served |
| `clock` | pass | lit for an alarm and by day; dark at bedtime; the wake timer is not held for ever |
| `media` | pass | the last browse wins; no live radio is paused; the spinner ends |
| `config` | pass | the server is a store of atomic requests; starts come up and restore the theme; a deleted favourite leaves the panel |
| `google` | pass | the token survives; stores come from whole fetches; the agenda is the best four; commands end |
| `scheduler_edit` | violation | an edited alarm is not scheduled |
| `transport_call` | violation | a call whose connection drops never returns |
| `config_theme` | violation | the theme set on the web page never shows |

A run that expects a violation checks one statement of a document or a comment
of the repository that the code does not keep; PROJECT.json quotes it.  The models show further places where code
and documents part, which no run is spent on:

* `dismiss` over a capture that found nothing issues no stop, so the alarm's
  source plays on (`episode.rs:455`; line 425 promises to resume "or stop");
* a recompute on behalf of one alarm wipes the date to which a ShiftForward has
  moved another (`main.rs:1150`, against `alarm_store.rs:322`);
* holidays are looked up at the device's date, not the alarm's
  (`scheduler.rs:294`, against line 70);
* the reconnect loop dies of its own backoff at the 66th failure in a row
  (`transport.rs:196`, against line 273, "retries indefinitely");
* the city set on the web page is stored beside the coordinates of the old one,
  which go on being fetched (`main.rs:3741`, against
  `openspec/specs/weather/spec.md:26`);
* nothing caps the volume of an escalation step: `volume_at`
  (`episode.rs:229-241`) takes it as the row has it, `upsert` stores it as it
  comes, `EpisodePlan::new` clamps `max_volume` only (line 186) and `main.rs:1057`
  sends the number on.  Against `episode.rs:149` (`max_volume` is "the hard cap
  otherwise"), `alarm_store.rs:28` ("clamped 0..=100"), `episode.rs:118` ("clamped
  0..100 by the impl") and `PRD.md:108` (`min(step_vol, max_volume)`).  An alarm
  may sound louder than its ceiling.  `RingsAsPlanned` states what the code does,
  on an alarm with a step over its own ceiling and one over 100; what Mopidy makes
  of a volume over 100 is not modelled;
* a re-fire takes no new snapshot: it goes on with the one from before the snooze
  (`episode.rs:651`), so what the user set up meanwhile is not what the dismissal
  brings back.  Against `openspec/specs/alarm-episode/spec.md:18-23` and `PRD.md:101`
  and `123`.  `MediaHandedBack` therefore speaks of the media first captured and
  drops its demand when the user takes over during a snooze;
* a chain of sources that is exhausted just ends the episode
  (`episode.rs:759-764`), and with it its visual; against `PRD.md:116` and `132` and
  `openspec/specs/alarm-episode/spec.md:33-36`, which have the visual at full
  brightness follow;
* a start that cannot read the theme or the mode comes up with the default and
  does not say so (`theme.rs:281-290`), and the next tap on either card writes that
  default over what was stored; against `openspec/specs/theming/spec.md:39`, by
  which both persist across reboots.  `StartRestoresTheme` excuses exactly the key
  that was not read.

**Bounds.**  *episode*: two alarms, one with a fallback and three escalation
steps, the second over its ceiling and the third over 100, and one with none of
both and a ceiling over 100, so that fixed volume, climbing, an exhausted chain
and a refused snooze all occur; one grace window and one snooze of a time unit
each; an event channel of one, so that reports are dropped; two user media.  Ages are
capped, nothing is counted: the run covers behaviours of every length.
*scheduler*: two alarms (the interplay of a recompute with *another* alarm is
what matters), two slots a day, three days and a bit, holidays on two dates in a
row of which a fetch may miss one, a shift cap that a run of holidays can exceed,
a date with no single instant, one step of the clock to anywhere and one failing
write; two failing writes are excused by the properties themselves.
*transport*: two tasks, four calls, a channel of one frame so that callers wait
for room, two outages, so that a call may wait through a session, and an overflow
at the third failure in a row.  `CHECK_DEADLOCK FALSE`, because a
connected client whose bound of calls is used up has nothing left to do.
*weather*: two cities, two commands, one reply: a command can be dropped, wait
behind another, or find the city changed when it is answered, and the dispatcher
waits for room.  *calendar*: two commands and two replies, so that a device code
waits with the end of its pairing.  Nothing is counted in either.
`CHECK_DEADLOCK FALSE` in both, because a process that was told to stop stops.
*clock*: two alarms, one with a visual that asks for more than full brightness
and one snooze, one without either; four slots a day, of which one lies in the night of a
weekday, one more in that of a weekend: the default windows cross midnight and end at
different hours, and no others are ever in force, since no boot can read a stored
one; two levels, so that lit and dark, captured and
set differ; nothing is counted, the clock may be set to anything.
*media*: one radio station and two podcasts, two commands, one reply, three taps
between two restarts: enough for a tap to overtake another whose reply is due
and for a control to overtake a PlayUri.  *config*: two clients, a channel of
one, so that one waits for room; two ids, a panel of one favourite; databases of
version 6, which migrates twice and once with columns, and of version 8; one
exit, one hang-up, one tap; each of the two keys of the theme is read or not.
*google*: a holiday and an agenda calendar; six events out of order against a cap of
four, three of them at one time, so that the cap cuts through them, and none, one, four
or all of them past; a code that lives for three polls, an old token
and a new one, one restart or power cut at any moment.  `CHECK_DEADLOCK FALSE` in
the last two, which have used up their bounds then.

**Fairness.**  *episode*: time passes and the tick runs (a repeating timer whose
body is isolated from panics).  No fairness for taps, alarms, reports of the
player.  `EscalationCompletes` therefore excepts an endless series of alarms.
*scheduler*: the tick runs while the process is up, and the process is started
again (systemd's `Restart`).  Time need not pass, edits need not happen.
*transport*: the runtime polls tasks that can go on; Mopidy answers what reached
it; each reply that arrived is read, since the socket is a stream in which
events do not overtake replies for ever.  Nothing makes Mopidy come back: the
properties that need it say so (`<>[]mopidy => ...`).
*weather, calendar*: the dispatcher goes on when it can, and a request over HTTP
or a device flow ends (both have a timeout); `select!` picks at random among the
branches that are ready, so a pending signal is not passed over for ever (strong
fairness); the drain timer takes what has arrived; the refresh timer fires again
and again, and finds the channel empty again and again if it is (strong
fairness).  That the channel empties again and again is not assumed: other
commands may fill it, and `Refreshed` and `WeatherRefreshed` say
`[]<>(cmds = <<>>) => ...`.  A Mopidy call need not end, and nothing is fair about
taps, edits, signals.
*clock*: the scheduler's timer, the overlay's close and the deadlines of the wake
timer and the overlay; not the taps, not the clock's hour.  `GoesDark` excepts an
endless series of touches.  *media*: the clock timer, the 15 s, the drain, and a
dispatcher whose call does not hang; a call may hang, and then only the spinner's
timeout is left, which is what `SpinnerEnds` is about.  *config*: main's timers,
a polled handler, and systemd's restart; clients need not ask or stay.
*google*: the dispatcher goes on, as every request has a timeout (main need not);
and the API does not answer 401 to one fresh access token after the other for
ever (strong fairness of `GetOk \/ GetFails`): the code would ask again for ever.

## What is proved

The theorems hold for every value of the constants that meets the modules'
named assumptions, which say no more than the code's types (a volume, of a step
or a ceiling, is any `u8`) and its sorted escalation steps do; TLC evaluates them
in every run.

* **Episode.**  `TypeCorrect`, `SoundsAsPlanned`, `UserGetsMediaBack`,
  `SnapshotsAreUserMedia`, `ClimbIsMonotone`, `EpisodeKeepsContract`.  *Why an
  inductive invariant:* that the player is handed back is not inductive, as it
  depends on what the snapshot holds while an alarm rings.  The invariant adds
  that an episode's snapshot is the user's media or nothing (`LoanIsSound`), and
  for monotonicity that the step held is one that the age of the episode has
  reached (`StepHeld`), which is where the sorting done by `upsert` is used and
  which a re-fire must re-establish.  `SoundsAsPlanned` needs both: the player has
  what `volume_at` answers (`AgreesWithFields`), and as the step held is one of the
  plan, that is the step's own volume (`HeldIsHeard`), not the last one's or the
  ceiling.
* **Scheduler.**  `TypeCorrect`, `CacheIsOfTheRule`, `NoOccurrenceIsLost`,
  `RingsOnce`, `MissedIsSilent`.  A recompute yields something strictly later
  than now; so what rang lies behind every later cache (`RungBehind`), and a
  past cache after a boot means a write was lost (`PastIsSkipped`, `BootIsPast`).
* **Transport.**  `TypeCorrect`, `RepliesReachTheirCaller`,
  `RequestsAreNotResent`, `CallsAreNotMislaid`.  The invariant says that ids in
  the channel are distinct and were issued (`Distinct`), that channel, Mopidy,
  the replies under way and the lost are apart (`Apart`), that every call in
  flight is in one of them (`Located`) with its oneshot in place (`Registered`),
  and that the loop's place and the shared state agree (`LoopKnown`).

* **Worker, weather, calendar** (`Refresh_proofs`, one module for the three, as
  the two refreshes rest on the same facts about the channels).  `WorkerStep`: the dispatcher's steps keep every request that
  refreshes or pairs at its place of the pipeline.  It rests on lemmas about the
  three sequences of which the pipeline is made (`Holds`, `OneMore`): a command
  that is queued comes last, the oldest reply comes first, taking a command up
  and answering it move nothing.  `OneMoreCounts` turns them into what a request
  more or less means for what is under way, and the two modules below use only
  that (`SendStep`, `TakeStep`, `TakeSendStep`).
* **Weather.**  `WeatherTypeCorrect`, `WeatherFlagsTellTheTruth`,
  `OneWeatherRequestAtATime`, `FetchesTheStoredPlace`.  The flags are honest by induction alone.  That they
  keep the requests apart needs the converse, that nothing is under way without
  its flag, and that no geocode is under way once coordinates are stored
  (`Guarded`), which holds until a store fails.
* **Calendar.**  `TypeCorrect`, `FlagsTellTheTruth`, `OneRequestAtATime`,
  `StatusTellsTheTruth`, `WaitsForAList`, `PromptIsKept`, `CodeFindsItsAsker`.
  Flags and requests imply one another, but for an unsaved token; a fetch is
  under way only while there is a token (`Tokened`), which is why no late success can take the prompt
  away.  That a code finds its asker needs the order of the pipeline (`InOrder`):
  a code is ahead of its pairing, or the pairing is still polled for, so that main
  sees the one before it can start the next; and a parked sender belongs to a
  pairing that waits, to a code on its way, or to a pairing that failed without.
* **Display.**  `TypeCorrect`, `DisplayAgrees`, `EpisodeIsLit`,
  `WakeTimerResumes`, `DayIsNeverDark`.  That the panel is lit for an alarm is not
  inductive: the tick switches it off at bedtime unless the controller's flag
  says that there is an episode, and the wake timer unless it is suspended.
  `EpisodeAgrees` ties both to the episode, and the lemmas on the controller's
  operators (`TickedKeeps`, `FireReady`, `BootedType`, ...) say what each of the
  methods leaves alone.
* **Configuration.**  `TypeCorrect`, `WaitingIsInLine`, `SchemaAgrees`,
  `StartRestores`.  The queue's invariant (`InLine`) rests on lemmas about what
  joining, serving and leaving do to one's own place and to the others'
  (`JoinOwn`, `ServedOther`, `LeaveFacts`, ...).  `Remembered` says, of
  the theme and of the mode apart, that what the panel showed after the last tap is what
  the next load reads if it can read that key, unless that key was not written;
  `StartRestores` is that for every set of keys a start fails to read.
  `ServerKeepsContract` is the whole refinement, as the contract states no fairness.
  Its mapping orders the requests that were given up by their places in the line
  (`InOrder`), and that the order is the only one is shown by the least place at
  which two would differ (`EnumeratesOnce`, `InOrderIs`); what each handler does to
  it is one lemma (`ListsJoin`, `ListsServedOwn`, `ListsServedOther`,
  `ListsWithdrawn`, `ListsLeftBehind`).  It needs that a client's present request is
  the last of its own in the line (`Kept`), else an old one could take effect after
  a new one; that an alarm of a schema before 7 has no policy yet (`OldRows`), which
  is why giving all of them Suppress does not change the list; and that nothing is
  served before the migrations are done (`Migrating`).
* **Media panel.**  `TypeCorrect`, `LastTapIsListed`, `RadioIsSpared`.  A browse
  waits behind others, and its answer behind their answers, so what is listed at
  last is a matter of the order of the pipeline: unless the last browse found no
  room, the last one of commands, job and replies is of the podcast expanded, and if
  there is none, what is listed is (`BrowseStands`), with every answer holding what was
  asked for (`ListingsMatch`).  For the radio `PauseStands` follows the PlayUris down
  the queue: as long as none of them is lost, once the commands before a pause are served,
  something that can be paused is loaded (`LoadedBy`).
* **Google calendar.**  `TypeCorrect`, `BootReadsTheToken`, `AgendaIsTheBestFour`,
  `ValidTokensAreKept`, `StoresComeFromWholeFetches`.  That main lets go of a token
  only when that very token was revoked needs to know, of each command, answer and
  job, whose token it was made with (`Line`: `CmdLine`, `ReplyLine`, `JobLine`), and
  that a save and a fetch exclude each other (`SaveLine`); that the channels hold no
  more than two is part of it.  `Disk` says what of a save survives a power cut.
  `AgendaIsBest` is about the pure function, for every list of starts, with any of them
  at one time, and every hour: sorting by rank takes every place of the list once
  (`RankOnto`, by counting; `SortedList`), the first that is not past divides it
  (`FirstDivides`), what is kept is a window of it (`FilledIsWindow`, `WindowIsBest`),
  and so no start is listed more often than it came (`TimesByPlace`).

`TypeOK`, but `MediaPanel`'s and `GoogleCalendar`'s, and `SnapshotIsUserMedia`,
`OnePlace`, `NeverResent`, `FlagsHonest`, `OneRequest`, `WeatherFlagsHonest`,
`OneWeatherRequest`, `StatusHonest`, `DiscoveryUnderWay`, `EpisodeAgrees` and
`SchemaIsVersion` are theorems and no part of a run.  Every invariant and every
action property of a run that passes is a theorem.

Only model-checked: the liveness properties (`SnoozeEnds`,
`EscalationCompletes`, the liveness half of the episode's `ImplementsContract`,
`DueIsServed`, `AnsweredUnlessCut`, `Reconnects`, `Refreshed`, `WeatherRefreshed`,
`WebAnswered`, `ShutdownServed`, `GoesDark`, `SpinnerEnds`, `ComesUp`,
`DeletedLeavesPanel`, `JobEnds`), which need ENABLED, beyond the prover; and the
statements the code violates.

## Not modelled

* Slint files, QR codes, weather icons, what a theme looks like: presentation.
* TLS, mDNS, static files, HTTP parsing, `config.toml`, logging: I/O without
  state that another part depends on.
* The pairing of a browser with the web page and its bearer token
  (`WebCmd::Pair`, `Revoke`, `GetToken`): a comparison of a code and a token in
  `secrets.json`.
* The development seed, which overwrites edits at each start of a development
  build.
* RRULE expansion (the rrule crate's) beyond the set of dates it yields, and
  rules with INTERVAL or COUNT.
* The wording and parsing of Mopidy's and Google's JSON; a malformed event, which
  fails its fetch, is an error like others.
* The number of failures behind a backoff, but for the reconnect loop's.
* Small conversions at boot: `brightness_floor as u8`, which wraps, and a malformed
  time of a bedtime window, which becomes midnight.

What could be added: `EpisodeFSM` over `CommandWorker`, for the commands of an
alarm that a full channel drops and a shutdown leaves behind; reference
definitions for the numeric helpers (`volume_at`, the delays of the backoffs);
the safety halves of the liveness arguments (the measures by which a snooze, a
spinner or a start comes to its end) as theorems.
