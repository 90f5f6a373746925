--------------------------- MODULE AlarmScheduler ---------------------------
(***************************************************************************)
(* The alarm store and the scheduler (alarm-clock/src/alarm_store.rs,      *)
(* schedule.rs, scheduler.rs and StoreAlarmSource in main.rs): rows with a *)
(* rule and a cached next_fire, a tick that fires, skips or shifts the due *)
(* alarms one after the other, a recompute of every cache after each, and  *)
(* the web page's edits, which go straight to the rows.                    *)
(*                                                                         *)
(* Time is counted in slots, DayLen to a day of the device's local zone.   *)
(* A rule is the set of dates it yields in the alarm's own zone, a single  *)
(* date for a Once alarm; the zone is its offset from the device's.  Left  *)
(* out: daylight saving, except for the dates where a wall-clock time does *)
(* not name one instant, and rules whose dates depend on where their       *)
(* expansion starts (INTERVAL, COUNT).                                     *)
(*                                                                         *)
(* An operator marked as faulty is not used: it stands beside the one it   *)
(* would replace.                                                          *)
(***************************************************************************)
EXTENDS Integers, FiniteSets, FiniteSetsExt

CONSTANTS
  Alarm,       \* alarm ids: numbers, in the order AlarmStore::list returns them
  DayLen,      \* slots of a day
  Horizon,     \* bound: the last slot
  StoredRows,  \* rows a database may hold at the start
  WebRows,     \* rows the web page may write
  NoRow,       \* the alarm has no row
  Holidays,    \* dates with an all-day event in a Holiday calendar
  FetchDays,   \* days after today a calendar fetch covers
  FoldDates,   \* dates whose local times do not name one instant (DST)
  ShiftCap,    \* the 30 days a ShiftForward looks ahead
  MaxSteps,    \* bound: steps of the clock (NTP, fake-hwclock)
  MaxLost      \* bound: writes to the store that fail

Policy == {"Ignore", "Suppress", "ShiftForward"}
Row == [enabled : BOOLEAN, dates : SUBSET Nat, at : Nat, zone : Int, policy : Policy]
NoTime == -1

ASSUME AlarmAssumption == Alarm \subseteq Nat /\ IsFiniteSet(Alarm)
ASSUME RowsAssumption ==
  /\ StoredRows \subseteq Row \union {NoRow}
  /\ WebRows \subseteq Row
  /\ NoRow \notin Row
  /\ \A r \in (StoredRows \ {NoRow}) \union WebRows :
       IsFiniteSet(r.dates) /\ r.at < DayLen /\ -DayLen < r.zone /\ r.zone < DayLen
ASSUME DateAssumption ==
  /\ DayLen \in Nat \ {0} /\ Horizon \in Nat
  /\ FetchDays \in Nat /\ ShiftCap \in Nat
  /\ Holidays \subseteq Nat /\ FoldDates \subseteq Nat
ASSUME BoundAssumption == MaxSteps \in Nat /\ MaxLost \in Nat

-----------------------------------------------------------------------------
(* Rules and the calendar. *)

DateOf(t) == t \div DayLen
WallOf(t) == t % DayLen

\* The instant of a wall-clock time on a date of the zone.
Instant(date, wall, zone) == date * DayLen + wall - zone

Occurrences(r) == {Instant(d, r.at, r.zone) : d \in r.dates}

\* compute_next_fire: the first occurrence strictly after now; none for a
\* disabled alarm, a Once alarm that is over, and a row without a rule.
ComputeNotBefore(r, now) ==                                       \* faulty
  LET later == {t \in Occurrences(r) : t >= now}
  IN IF ~r.enabled \/ later = {} THEN NoTime ELSE Min(later)
ComputeNextFire(r, now) ==
  LET later == {t \in Occurrences(r) : t > now}
  IN IF ~r.enabled \/ later = {} THEN NoTime ELSE Min(later)

-----------------------------------------------------------------------------
VARIABLES
  now,          \* the device's clock
  up,           \* whether the process runs
  booted,       \* Scheduler.booted: the first tick is over
  rows,         \* the alarms table, without its next_fire column
  next_fire,    \* ... and that column
  holidays,     \* HolidayStore: the holidays the scheduler knows of
  steps,        \* steps of the clock so far
  lost_writes,  \* writes to the store that failed so far
  computed_at,  \* history: the clock at the last recompute of the caches
  boot_at,      \* history: the clock at the start of the process, if it has
                \*   not been set since
  shifted,      \* history: alarms whose cache a ShiftForward wrote last
  rung          \* history: the occurrence an alarm last rang for

store == <<rows, next_fire>>
bounds == <<steps, lost_writes>>
history == <<computed_at, boot_at, shifted, rung>>
vars == <<now, up, booted, store, holidays, bounds, history>>

Stored == {a \in Alarm : rows[a] # NoRow}

\* recompute_next_fires: the cache of every row.
Recomputed == [a \in Alarm |-> IF a \in Stored THEN ComputeNextFire(rows[a], now) ELSE NoTime]

-----------------------------------------------------------------------------
(* Scheduler::tick. *)

\* due_alarms: enabled, with a cached next_fire not after now.
DueStrict ==                                                      \* faulty
  {a \in Stored : rows[a].enabled /\ next_fire[a] # NoTime /\ next_fire[a] < now}
Due == {a \in Stored : rows[a].enabled /\ next_fire[a] # NoTime /\ next_fire[a] <= now}

\* On the first tick what lies before now was missed while the device was off.
MissedNever(a) == FALSE                                           \* faulty
Missed(a) == ~booted /\ next_fire[a] < now

OnHoliday(a) == rows[a].policy # "Ignore" /\ DateOf(next_fire[a]) \in holidays

Fires(a) == ~Missed(a) /\ ~OnHoliday(a)

\* suppress_alarm, ShiftForward: the first date without a holiday, at the time
\* of day of next_fire as the device shows it, read in the alarm's zone.
FreeDates(a) ==
  {d \in (DateOf(next_fire[a]) + 1)..(DateOf(next_fire[a]) + ShiftCap) : d \notin holidays}
Target(a) == Instant(Min(FreeDates(a)), WallOf(next_fire[a]), rows[a].zone)

\* Past the cap, and where the target is no single instant, it is suppressed.
Shifts(a) ==
  /\ ~Missed(a) /\ OnHoliday(a)
  /\ rows[a].policy = "ShiftForward"
  /\ FreeDates(a) # {}
  /\ Min(FreeDates(a)) \notin FoldDates

\* A fired, a missed and a suppressed alarm each have the caches recomputed.
RecomputesFired(a) == Fires(a)                                    \* faulty
Recomputes(a) == ~Shifts(a)

\* The due alarms are handled in their order; `lost' are those whose write to
\* the store fails (it is rolled back and logged).  A recompute writes every
\* cache, also one shifted before it; a shift after the last recompute stays.
Tick ==
  /\ up
  /\ booted' = TRUE
  /\ \E lost \in SUBSET Due :
       LET recomputing == {a \in Due \ lost : Recomputes(a)}
           standing == {a \in Due \ lost : Shifts(a) /\ \A b \in recomputing : b < a}
       IN /\ lost_writes + Cardinality(lost) <= MaxLost
          /\ lost_writes' = lost_writes + Cardinality(lost)
          /\ next_fire' = [a \in Alarm |-> IF a \in standing THEN Target(a)
                                           ELSE IF recomputing # {} THEN Recomputed[a]
                                           ELSE next_fire[a]]
          /\ computed_at' = IF recomputing # {} THEN now ELSE computed_at
          /\ shifted' = IF recomputing # {} THEN standing ELSE shifted \union standing
          /\ rung' = [a \in Alarm |-> IF ~(a \in Due /\ Fires(a)) THEN rung[a]
                                      ELSE IF recomputing # {} THEN next_fire[a]
                                      ELSE NoTime]
  /\ UNCHANGED <<now, up, rows, holidays, steps, boot_at>>

-----------------------------------------------------------------------------
(* The web page (dispatch_web_cmd), on the same thread as the tick. *)

\* UpsertAlarm: the row of the form replaces the stored one; its next_fire is
\* none, and nothing recomputes it.
CacheKept(a) == next_fire[a]                                      \* faulty
CacheOfForm(a) == NoTime
UpsertAlarm(a, r) ==
  /\ up
  /\ rows' = [rows EXCEPT ![a] = r]
  /\ next_fire' = [next_fire EXCEPT ![a] = CacheOfForm(a)]
  /\ shifted' = shifted \ {a}
  /\ rung' = [rung EXCEPT ![a] = NoTime]
  /\ UNCHANGED <<now, up, booted, holidays, bounds, computed_at, boot_at>>

DeleteAlarm(a) ==
  /\ up
  /\ a \in Stored
  /\ rows' = [rows EXCEPT ![a] = NoRow]
  /\ next_fire' = [next_fire EXCEPT ![a] = NoTime]
  /\ shifted' = shifted \ {a}
  /\ rung' = [rung EXCEPT ![a] = NoTime]
  /\ UNCHANGED <<now, up, booted, holidays, bounds, computed_at, boot_at>>

-----------------------------------------------------------------------------
(* What happens around them. *)

\* A calendar fetch replaces the holidays; a failed one leaves them.
Fetched == Holidays \intersect (DateOf(now)..(DateOf(now) + FetchDays))
RefreshHolidays ==
  /\ up
  /\ holidays' = Fetched
  /\ UNCHANGED <<now, up, booted, store, bounds, history>>

Elapse ==
  /\ now < Horizon
  /\ now' = now + 1
  /\ UNCHANGED <<up, booted, store, holidays, bounds, history>>

\* The clock is set.  What history says of earlier instants is void.
StepClock(t) ==
  /\ steps < MaxSteps
  /\ t # now
  /\ now' = t
  /\ steps' = steps + 1
  /\ boot_at' = NoTime
  /\ rung' = IF t < now THEN [a \in Alarm |-> NoTime] ELSE rung
  /\ UNCHANGED <<up, booted, store, holidays, lost_writes, computed_at, shifted>>

Crash ==
  /\ up
  /\ up' = FALSE
  /\ booted' = FALSE
  /\ holidays' = {}
  /\ boot_at' = NoTime
  /\ UNCHANGED <<now, store, bounds, computed_at, shifted, rung>>

\* bootstrap recomputes the caches before the first tick, or fails to.
Boot ==
  /\ ~up
  /\ up' = TRUE
  /\ boot_at' = now
  /\ \/ /\ next_fire' = Recomputed
        /\ computed_at' = now
        /\ shifted' = {}
        /\ UNCHANGED lost_writes
     \/ /\ lost_writes < MaxLost
        /\ lost_writes' = lost_writes + 1
        /\ UNCHANGED <<next_fire, computed_at, shifted>>
  /\ UNCHANGED <<now, booted, rows, holidays, steps, rung>>

Init ==
  /\ now = 0
  /\ up = FALSE /\ booted = FALSE
  /\ rows \in [Alarm -> StoredRows]
  /\ next_fire = [a \in Alarm |-> NoTime]
  /\ holidays = {}
  /\ steps = 0 /\ lost_writes = 0
  /\ computed_at = NoTime /\ boot_at = NoTime
  /\ shifted = {}
  /\ rung = [a \in Alarm |-> NoTime]

Next ==
  \/ Tick
  \/ \E a \in Alarm, r \in WebRows : UpsertAlarm(a, r)
  \/ \E a \in Alarm : DeleteAlarm(a)
  \/ RefreshHolidays
  \/ Elapse
  \/ \E t \in 0..Horizon : StepClock(t)
  \/ Crash
  \/ Boot

\* The timer of the event loop keeps ticking, and systemd restarts the process.
Spec == Init /\ [][Next]_vars /\ WF_vars(Tick) /\ WF_vars(Boot)

-----------------------------------------------------------------------------
(* Properties. *)

\* Every variable keeps its type, no cache outlives its row, and the scheduler
\* knows of no date that a calendar does not hold.
TypeOK ==
  /\ now \in Nat
  /\ up \in BOOLEAN /\ booted \in BOOLEAN
  /\ booted => up
  /\ rows \in [Alarm -> StoredRows \union WebRows \union {NoRow}]
  /\ next_fire \in [Alarm -> Nat \union {NoTime}]
  /\ \A a \in Alarm : rows[a] = NoRow => next_fire[a] = NoTime
  /\ holidays \subseteq Holidays
  /\ steps \in 0..MaxSteps /\ lost_writes \in 0..MaxLost
  /\ computed_at \in Nat \union {NoTime} /\ boot_at \in Nat \union {NoTime}
  /\ shifted \subseteq Stored
  /\ rung \in [Alarm -> Nat \union {NoTime}]

\* The rule is the source of truth: a cached next_fire that no ShiftForward
\* wrote is what the alarm's present rule yields from the last recompute, also
\* after edits, deletions, failed writes, crashes and steps of the clock.  So
\* an edited alarm does not ring at its old time (recompute_next_fires,
\* UpsertAlarm).
CacheFollowsRule ==
  \A a \in Stored :
    next_fire[a] # NoTime /\ a \notin shifted
      => next_fire[a] = ComputeNextFire(rows[a], computed_at)

\* An alarm does not ring twice for one occurrence, unless the write that moves
\* it on failed, it was edited or the clock was set back (tick fires and then
\* recomputes from the same now, strictly after it).
NeverTwice == \A a \in Stored : rung[a] # NoTime => next_fire[a] # rung[a]

\* Recomputing every cache on behalf of one alarm passes over no occurrence of
\* another: those since the last recompute belong to alarms that are due in
\* this very tick, and are fired, suppressed or skipped by it.
NonePassedOver ==
  [][Tick /\ computed_at' # computed_at =>
       \A a \in Stored \ shifted :
         next_fire[a] # NoTime =>
           \A t \in Occurrences(rows[a]) : computed_at < t /\ t <= now => a \in Due]_vars

\* What was missed while the device was off does not ring after the boot: the
\* recompute at boot passes over it and, should that fail, the first tick does.
\* (Unless two writes fail, or the clock is set after the boot.)
MissedStaysSilent ==
  [][Tick /\ lost_writes < 2 =>
       \A a \in Due : Fires(a) => next_fire[a] >= boot_at]_vars

\* A due alarm is served: it does not stay due for ever, whatever its policy,
\* the holidays and the store's failures.
DueIsServed == \A a \in Alarm : a \in Due /\ up ~> ~(a \in Due /\ up)

\* alarm_store.rs has the caches recomputed on rule change: an enabled alarm
\* that has occurrences to come, past all that the run covers, is scheduled in
\* the end, unless it is edited again.
Schedulable(a) == a \in Stored /\ ComputeNextFire(rows[a], Horizon) # NoTime
EditRearms == \A a \in Alarm : Schedulable(a) ~> (~Schedulable(a) \/ next_fire[a] # NoTime)
=============================================================================
