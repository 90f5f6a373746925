------------------------ MODULE AlarmScheduler_proofs ------------------------
(***************************************************************************)
(* Proofs about AlarmScheduler, for any alarms, rows, zones, holidays and  *)
(* bounds.                                                                 *)
(***************************************************************************)
EXTENDS AlarmScheduler, FiniteSetTheorems, WellFoundedInduction, TLAPS

-----------------------------------------------------------------------------
(* The least of a set of instants. *)

LEMMA MinOfNats ==
  ASSUME NEW S \in SUBSET Nat, S # {}
  PROVE  Min(S) \in S /\ \A y \in S : Min(S) <= y
<1>1. PICK x \in S : \A y \in S : ~(<<y, x>> \in OpToRel(<, Nat))
  BY WFMin, NatLessThanWellFounded
<1>2. \A y \in S : ~(y < x)
  BY <1>1, Zenon DEF OpToRel
<1>3. \A y \in S : x <= y
  BY <1>2
<1>4. QED
  BY <1>3 DEF Min

\* What a row in the store looks like.
LEMMA RowType ==
  ASSUME TypeOK, NEW a \in Stored
  PROVE  /\ rows[a] \in Row
         /\ rows[a].zone \in Int /\ rows[a].zone < DayLen /\ -DayLen < rows[a].zone
  <1>1. rows[a] \in (StoredRows \ {NoRow}) \union WebRows
    BY DEF TypeOK, Stored
  <1>2. rows[a] \in Row
    BY <1>1, RowsAssumption
  <1>3. rows[a].zone < DayLen /\ -DayLen < rows[a].zone
    BY <1>1, RowsAssumption
  <1>4. QED
    BY <1>2, <1>3 DEF Row

\* A computed next_fire is the first occurrence after the instant, or none.
LEMMA ComputeIsNext ==
  ASSUME NEW r \in Row, NEW t \in Nat
  PROVE  \/ /\ ComputeNextFire(r, t) = NoTime
            /\ r.enabled => \A u \in Occurrences(r) : ~(u > t)
         \/ /\ ComputeNextFire(r, t) \in Occurrences(r)
            /\ ComputeNextFire(r, t) \in Nat
            /\ ComputeNextFire(r, t) > t
            /\ \A u \in Occurrences(r) : u > t => ComputeNextFire(r, t) <= u
<1> DEFINE later == {u \in Occurrences(r) : u > t}
<1>0. DayLen \in Nat \ {0}
  BY DateAssumption
<1>1. \A u \in Occurrences(r) : u \in Int
  BY <1>0 DEF Occurrences, Instant, Row
<1>2. later \in SUBSET Nat
  BY <1>1
<1>3. CASE ~r.enabled \/ later = {}
  BY <1>3 DEF ComputeNextFire
<1>4. CASE r.enabled /\ later # {}
  <2>1. ComputeNextFire(r, t) = Min(later)
    BY <1>4 DEF ComputeNextFire
  <2>2. Min(later) \in later /\ \A y \in later : Min(later) <= y
    BY <1>2, <1>4, MinOfNats
  <2>3. QED
    BY <2>1, <2>2, <1>2
<1>5. QED
  BY <1>3, <1>4

\* A shifted alarm has a target after the occurrence it was due for.
LEMMA TargetIsLater ==
  ASSUME TypeOK, NEW a \in Due, Shifts(a)
  PROVE  Target(a) \in Nat /\ Target(a) > next_fire[a]
<1> DEFINE t == next_fire[a]
           z == rows[a].zone
           d == Min(FreeDates(a))
<1>1. t \in Nat /\ DayLen \in Nat \ {0} /\ ShiftCap \in Nat
  BY DateAssumption DEF Due, Stored, TypeOK
<1>2. z \in Int /\ z < DayLen
  BY RowType DEF Due
<1>3. t = DayLen * (t \div DayLen) + (t % DayLen) /\ t \div DayLen \in Nat /\ t % DayLen \in Nat
  BY <1>1
<1>4. FreeDates(a) \in SUBSET Nat /\ FreeDates(a) # {}
  BY <1>1, <1>3 DEF FreeDates, DateOf, Shifts
<1>5. d \in FreeDates(a)
  BY <1>4, MinOfNats
<1>6. d \in Nat /\ d >= (t \div DayLen) + 1
  BY <1>1, <1>3, <1>4, <1>5 DEF FreeDates, DateOf
<1>7. Target(a) = d * DayLen + (t % DayLen) - z
  BY DEF Target, Instant, WallOf
<1> HIDE DEF t, z, d
<1>8. d * DayLen >= ((t \div DayLen) + 1) * DayLen
  BY <1>1, <1>3, <1>6
<1>9. ((t \div DayLen) + 1) * DayLen = DayLen * (t \div DayLen) + DayLen
  BY <1>1, <1>3
<1>10. d * DayLen \in Nat /\ DayLen * (t \div DayLen) \in Nat
  BY <1>1, <1>3, <1>6
<1>11. Target(a) \in Nat /\ Target(a) > t
  BY <1>1, <1>2, <1>3, <1>7, <1>8, <1>9, <1>10
<1>12. QED
  BY <1>11 DEF t

\* The recompute of all caches: nothing, or an instant after now.
LEMMA RecomputedIsLater ==
  ASSUME TypeOK, NEW a \in Alarm
  PROVE  /\ Recomputed[a] \in Nat \union {NoTime}
         /\ Recomputed[a] # NoTime => Recomputed[a] > now
         /\ rows[a] = NoRow => Recomputed[a] = NoTime
<1>1. CASE a \in Stored
  <2>1. rows[a] \in Row /\ now \in Nat
    BY <1>1, RowType DEF TypeOK
  <2>2. Recomputed[a] = ComputeNextFire(rows[a], now)
    BY <1>1 DEF Recomputed
  <2>3. QED
    BY <1>1, <2>1, <2>2, ComputeIsNext DEF Stored
<1>2. CASE a \notin Stored
  BY <1>2 DEF Recomputed
<1>3. QED
  BY <1>1, <1>2

-----------------------------------------------------------------------------
(* One tick, seen alarm by alarm: its cache is left, recomputed or shifted.  *)

TickWrites(lost, recomputing, standing) ==
  /\ recomputing = {a \in Due \ lost : Recomputes(a)}
  /\ standing = {a \in Due \ lost : Shifts(a) /\ \A b \in recomputing : b < a}
  /\ lost_writes' \in 0..MaxLost /\ lost_writes' >= lost_writes
  /\ lost # {} => lost_writes' > lost_writes
  /\ next_fire' = [a \in Alarm |-> IF a \in standing THEN Target(a)
                                   ELSE IF recomputing # {} THEN Recomputed[a]
                                   ELSE next_fire[a]]
  /\ computed_at' = IF recomputing # {} THEN now ELSE computed_at
  /\ shifted' = IF recomputing # {} THEN standing ELSE shifted \union standing
  /\ rung' = [a \in Alarm |-> IF ~(a \in Due /\ Fires(a)) THEN rung[a]
                              ELSE IF recomputing # {} THEN next_fire[a]
                              ELSE NoTime]

LEMMA TickEffect ==
  ASSUME TypeOK, Tick
  PROVE  \E lost \in SUBSET Due, recomputing \in SUBSET Due, standing \in SUBSET Due :
           TickWrites(lost, recomputing, standing)
<1>1. PICK lost \in SUBSET Due :
        LET recomputing == {a \in Due \ lost : Recomputes(a)}
            standing == {a \in Due \ lost : Shifts(a) /\ \A b \in recomputing : b < a}
        IN /\ lost_writes + Cardinality(lost) <= MaxLost
           /\ lost_writes' = lost_writes + Cardinality(lost)
           /\ next_fire' = [a \in Alarm |-> IF a \in standing THEN Target(a)
                                            ELSE IF recomputing # {} THEN Recomputed[a]
                                            ELSE next_fire[a]]
           /\ computed_at' = IF recomputing # {} THEN now ELSE computed_at
           /\ shifted' = IF recomputing # {} THEN standing ELSE shifted \union standing
           /\ rung' = [a \in Alarm |-> IF ~(a \in Due /\ Fires(a)) THEN rung[a]
                                       ELSE IF recomputing # {} THEN next_fire[a]
                                       ELSE NoTime]
  BY DEF Tick
<1>2. IsFiniteSet(lost) /\ Cardinality(lost) \in Nat /\ (lost # {} => Cardinality(lost) > 0)
  <2>1. lost \in SUBSET Alarm
    BY DEF Due, Stored
  <2>2. IsFiniteSet(lost)
    BY <2>1, FS_Subset, AlarmAssumption
  <2>3. Cardinality(lost) \in Nat
    BY <2>2, FS_CardinalityType
  <2>4. Cardinality(lost) = 0 <=> lost = {}
    BY <2>2, FS_EmptySet
  <2>5. QED
    BY <2>2, <2>3, <2>4
<1>3. lost_writes \in Nat /\ MaxLost \in Nat
  BY BoundAssumption DEF TypeOK
<1> DEFINE recomputing == {a \in Due \ lost : Recomputes(a)}
           standing == {a \in Due \ lost : Shifts(a) /\ \A b \in recomputing : b < a}
<1>4. recomputing \in SUBSET Due /\ standing \in SUBSET Due
  OBVIOUS
<1>5. /\ lost_writes' \in 0..MaxLost /\ lost_writes' >= lost_writes
      /\ lost # {} => lost_writes' > lost_writes
  BY <1>1, <1>2, <1>3
<1>6. /\ next_fire' = [a \in Alarm |-> IF a \in standing THEN Target(a)
                                       ELSE IF recomputing # {} THEN Recomputed[a]
                                       ELSE next_fire[a]]
      /\ computed_at' = IF recomputing # {} THEN now ELSE computed_at
      /\ shifted' = IF recomputing # {} THEN standing ELSE shifted \union standing
      /\ rung' = [a \in Alarm |-> IF ~(a \in Due /\ Fires(a)) THEN rung[a]
                                  ELSE IF recomputing # {} THEN next_fire[a]
                                  ELSE NoTime]
  BY <1>1
<1>7. TickWrites(lost, recomputing, standing)
  BY <1>5, <1>6 DEF TickWrites
<1>8. QED
  BY <1>4, <1>7

-----------------------------------------------------------------------------
(* Type correctness. *)

LEMMA InitType == Init => TypeOK
<1> SUFFICES ASSUME Init PROVE TypeOK
  OBVIOUS
<1>1. rows \in [Alarm -> StoredRows \union WebRows \union {NoRow}]
  BY DEF Init
<1>2. next_fire \in [Alarm -> Nat \union {NoTime}] /\ rung \in [Alarm -> Nat \union {NoTime}]
  BY DEF Init
<1>3. \A a \in Alarm : next_fire[a] = NoTime
  BY DEF Init
<1>4. up \in BOOLEAN /\ booted \in BOOLEAN /\ (booted => up)
  BY DEF Init
<1>5. QED
  BY <1>1, <1>2, <1>3, <1>4, BoundAssumption DEF Init, TypeOK, Stored

LEMMA StepType == TypeOK /\ [Next]_vars => TypeOK'
<1> SUFFICES ASSUME TypeOK, [Next]_vars PROVE TypeOK'
  OBVIOUS
<1>1. ASSUME Tick PROVE TypeOK'
  <2>1. PICK lost \in SUBSET Due, recomputing \in SUBSET Due, standing \in SUBSET Due :
         TickWrites(lost, recomputing, standing)
    BY <1>1, TickEffect
  <2> USE DEF TickWrites
  <2>2. \A a \in standing : Target(a) \in Nat
    BY <2>1, TargetIsLater
  <2>3. \A a \in Alarm : /\ Recomputed[a] \in Nat \union {NoTime}
                         /\ rows[a] = NoRow => Recomputed[a] = NoTime
    BY RecomputedIsLater
  <2>4. next_fire' \in [Alarm -> Nat \union {NoTime}]
    BY <2>1, <2>2, <2>3 DEF TypeOK
  <2>5. \A a \in Alarm : rows[a] = NoRow => next_fire'[a] = NoTime
    BY <2>1, <2>3 DEF TypeOK, Due, Stored
  <2>6. rung' \in [Alarm -> Nat \union {NoTime}]
    BY <2>1 DEF TypeOK
  <2>7. shifted' \subseteq Stored
    BY <2>1 DEF TypeOK, Due
  <2>8. computed_at' \in Nat \union {NoTime}
    BY <2>1 DEF TypeOK
  <2>9. up /\ booted' = TRUE /\ UNCHANGED <<now, up, rows, holidays, steps, boot_at>>
    BY <1>1 DEF Tick
  <2>10. QED
    BY <2>1, <2>4, <2>5, <2>6, <2>7, <2>8, <2>9 DEF TypeOK, Stored
<1>2. ASSUME NEW a \in Alarm, NEW r \in WebRows, UpsertAlarm(a, r) PROVE TypeOK'
  <2>1. r # NoRow
    BY RowsAssumption
  <2>2. QED
    BY <1>2, <2>1 DEF UpsertAlarm, CacheOfForm, TypeOK, Stored, bounds
<1>3. ASSUME NEW a \in Alarm, DeleteAlarm(a) PROVE TypeOK'
  BY <1>3 DEF DeleteAlarm, TypeOK, Stored, bounds
<1>4. ASSUME RefreshHolidays PROVE TypeOK'
  BY <1>4 DEF RefreshHolidays, Fetched, TypeOK, Stored, store, bounds, history
<1>5. ASSUME Elapse PROVE TypeOK'
  BY <1>5 DEF Elapse, TypeOK, Stored, store, bounds, history
<1>6. ASSUME NEW t \in 0..Horizon, StepClock(t) PROVE TypeOK'
  BY <1>6, BoundAssumption, DateAssumption DEF StepClock, TypeOK, Stored, store
<1>7. ASSUME Crash PROVE TypeOK'
  BY <1>7 DEF Crash, TypeOK, Stored, store, bounds
<1>8. ASSUME Boot PROVE TypeOK'
  <2>1. \A a \in Alarm : /\ Recomputed[a] \in Nat \union {NoTime}
                         /\ rows[a] = NoRow => Recomputed[a] = NoTime
    BY RecomputedIsLater
  <2>2. Recomputed \in [Alarm -> Nat \union {NoTime}]
    BY <2>1 DEF Recomputed
  <2>3. QED
    BY <1>8, <2>1, <2>2, BoundAssumption DEF Boot, TypeOK, Stored
<1>9. CASE UNCHANGED vars
  BY <1>9 DEF vars, TypeOK, Stored, store, bounds, history
<1>10. QED
  BY <1>1, <1>2, <1>3, <1>4, <1>5, <1>6, <1>7, <1>8, <1>9 DEF Next

\* Every reachable state is well typed.
THEOREM TypeCorrect == Spec => []TypeOK
<1>1. QED
  BY InitType, StepType, PTL DEF Spec

-----------------------------------------------------------------------------
(* The caches follow the rules. *)

LEMMA StepCache == TypeOK /\ CacheFollowsRule /\ [Next]_vars => CacheFollowsRule'
<1> SUFFICES ASSUME TypeOK, CacheFollowsRule, [Next]_vars PROVE CacheFollowsRule'
  OBVIOUS
<1> USE DEF CacheFollowsRule
<1>1. ASSUME Tick PROVE CacheFollowsRule'
  <2>1. PICK lost \in SUBSET Due, recomputing \in SUBSET Due, standing \in SUBSET Due :
         TickWrites(lost, recomputing, standing)
    BY <1>1, TickEffect
  <2> USE DEF TickWrites
  <2>2. rows' = rows /\ Stored' = Stored /\ Stored \subseteq Alarm
    BY <1>1 DEF Tick, Stored
  <2>3. \A a \in Stored : Recomputed[a] = ComputeNextFire(rows[a], now)
    BY <2>2 DEF Recomputed
  <2>4. QED
    BY <2>1, <2>2, <2>3
<1>2. ASSUME NEW a \in Alarm, NEW r \in WebRows, UpsertAlarm(a, r) PROVE CacheFollowsRule'
  BY <1>2 DEF UpsertAlarm, CacheOfForm, TypeOK, Stored
<1>3. ASSUME NEW a \in Alarm, DeleteAlarm(a) PROVE CacheFollowsRule'
  BY <1>3 DEF DeleteAlarm, TypeOK, Stored
<1>4. ASSUME RefreshHolidays PROVE CacheFollowsRule'
  BY <1>4 DEF RefreshHolidays, Stored, store, history
<1>5. ASSUME Elapse PROVE CacheFollowsRule'
  BY <1>5 DEF Elapse, Stored, store, history
<1>6. ASSUME NEW t \in 0..Horizon, StepClock(t) PROVE CacheFollowsRule'
  BY <1>6 DEF StepClock, Stored, store
<1>7. ASSUME Crash PROVE CacheFollowsRule'
  BY <1>7 DEF Crash, Stored, store
<1>8. ASSUME Boot PROVE CacheFollowsRule'
  <2>1. \A a \in Stored : Recomputed[a] = ComputeNextFire(rows[a], now)
    BY DEF Recomputed, Stored
  <2>2. QED
    BY <1>8, <2>1 DEF Boot, Stored
<1>9. CASE UNCHANGED vars
  BY <1>9 DEF vars, Stored, store, history
<1>10. QED
  BY <1>1, <1>2, <1>3, <1>4, <1>5, <1>6, <1>7, <1>8, <1>9 DEF Next

\* A cached next_fire no ShiftForward wrote is what the present rule yields.
THEOREM CacheIsOfTheRule == Spec => []CacheFollowsRule
<1>1. Init => CacheFollowsRule
  BY DEF Init, CacheFollowsRule, Stored
<1>2. QED
  BY <1>1, InitType, StepType, StepCache, PTL DEF Spec

\* A recompute passes over no occurrence of an alarm that is not due.
THEOREM NoOccurrenceIsLost == Spec => NonePassedOver
<1> DEFINE Kept == Tick /\ computed_at' # computed_at =>
                     \A a \in Stored \ shifted :
                       next_fire[a] # NoTime =>
                         \A t \in Occurrences(rows[a]) : computed_at < t /\ t <= now => a \in Due
           Dated == computed_at = NoTime => \A a \in Stored \ shifted : next_fire[a] = NoTime
<1>1. Init => CacheFollowsRule /\ Dated
  BY DEF Init, CacheFollowsRule, Stored
<1>2. TypeOK /\ Dated /\ [Next]_vars => Dated'
  <2> SUFFICES ASSUME TypeOK, Dated, [Next]_vars, computed_at' = NoTime
               PROVE  \A a \in (Stored \ shifted)' : next_fire'[a] = NoTime
    OBVIOUS
  <2>0. now \in Nat /\ now # NoTime
    BY DEF TypeOK, NoTime
  <2>1. CASE Tick
    <3>1. PICK lost \in SUBSET Due, recomputing \in SUBSET Due, standing \in SUBSET Due :
           TickWrites(lost, recomputing, standing)
      BY <2>1, TickEffect
    <3> USE DEF TickWrites
    <3>2. recomputing = {} /\ computed_at = NoTime
      BY <3>1, <2>0
    <3>3. Stored' = Stored /\ Stored \subseteq Alarm
      BY <2>1 DEF Tick, Stored
    <3>4. QED
      BY <3>1, <3>2, <3>3
  <2>2. CASE \E a \in Alarm, r \in WebRows : UpsertAlarm(a, r)
    BY <2>2 DEF UpsertAlarm, CacheOfForm, TypeOK, Stored
  <2>3. CASE \E a \in Alarm : DeleteAlarm(a)
    BY <2>3 DEF DeleteAlarm, TypeOK, Stored
  <2>4. CASE Boot
    BY <2>4, <2>0 DEF Boot, Stored
  <2>5. CASE RefreshHolidays \/ Elapse \/ (\E t \in 0..Horizon : StepClock(t)) \/ Crash
    BY <2>5 DEF RefreshHolidays, Elapse, StepClock, Crash, Stored, store, history
  <2>6. CASE UNCHANGED vars
    BY <2>6 DEF vars, Stored, store, history
  <2>7. QED
    BY <2>1, <2>2, <2>3, <2>4, <2>5, <2>6 DEF Next
<1>3. TypeOK /\ CacheFollowsRule /\ Dated => Kept
  <2> SUFFICES ASSUME TypeOK, CacheFollowsRule, Dated,
                      NEW a \in Stored \ shifted, next_fire[a] # NoTime,
                      NEW t \in Occurrences(rows[a]), computed_at < t, t <= now
               PROVE  a \in Due
    OBVIOUS
  <2>1. computed_at \in Nat
    BY DEF TypeOK
  <2>2. next_fire[a] = ComputeNextFire(rows[a], computed_at) /\ rows[a] \in Row
    BY RowType DEF CacheFollowsRule
  <2>3. rows[a].enabled
    BY <2>2 DEF ComputeNextFire
  <2>4. next_fire[a] <= t
    BY <2>1, <2>2, ComputeIsNext
  <2>5. next_fire[a] \in Nat /\ now \in Nat
    BY DEF TypeOK, Stored
  <2>6. t \in Int
    BY <2>2, DateAssumption DEF Occurrences, Instant, Row
  <2>7. QED
    BY <2>3, <2>4, <2>5, <2>6 DEF Due
<1>4. Spec => [][Kept]_vars
  <2> HIDE DEF Kept, Dated
  <2>1. QED
    BY <1>1, <1>2, <1>3, InitType, StepType, StepCache, PTL DEF Spec
<1>5. QED
  BY <1>4 DEF NonePassedOver

-----------------------------------------------------------------------------
(* Rings.  What was rung for lies behind both the clock and the cache, since *)
(* caches are computed strictly after the clock of the ring or later, and a  *)
(* ShiftForward only moves them on.                                          *)

RungBehind ==
  \A a \in Alarm :
    rung[a] # NoTime => rung[a] <= now /\ (next_fire[a] # NoTime => rung[a] < next_fire[a])

LEMMA StepRung == TypeOK /\ RungBehind /\ [Next]_vars => RungBehind'
<1> SUFFICES ASSUME TypeOK, RungBehind, [Next]_vars PROVE RungBehind'
  OBVIOUS
<1> USE DEF RungBehind
<1>0. /\ now \in Nat
      /\ \A a \in Alarm : /\ next_fire[a] \in Nat \union {NoTime}
                          /\ rung[a] \in Nat \union {NoTime}
  BY DEF TypeOK
<1>1. ASSUME Tick PROVE RungBehind'
  <2>1. PICK lost \in SUBSET Due, recomputing \in SUBSET Due, standing \in SUBSET Due :
         TickWrites(lost, recomputing, standing)
    BY <1>1, TickEffect
  <2> USE DEF TickWrites
  <2>2. now' = now
    BY <1>1 DEF Tick
  <2>3. ASSUME NEW a \in Alarm, rung'[a] # NoTime
        PROVE  rung'[a] <= now /\ (next_fire'[a] # NoTime => rung'[a] < next_fire'[a])
    <3>1. CASE a \in standing
      <4>1. a \in Due /\ Shifts(a) /\ ~Fires(a) /\ rung'[a] = rung[a] /\ next_fire'[a] = Target(a)
        BY <3>1, <2>1 DEF Shifts, Fires
      <4>2. Target(a) > next_fire[a] /\ next_fire[a] # NoTime /\ Target(a) \in Nat
        BY <4>1, TargetIsLater DEF Due
      <4>3. QED
        BY <4>1, <4>2, <2>3, <1>0
    <3>2. CASE a \notin standing /\ recomputing # {}
      <4>1. next_fire'[a] = Recomputed[a]
        BY <3>2, <2>1
      <4>2. rung'[a] <= now
        BY <3>2, <2>1, <2>3, <1>0 DEF Due
      <4>3. rung'[a] \in Nat
        BY <3>2, <2>1, <2>3, <1>0
      <4>4. QED
        BY <4>1, <4>2, <4>3, <1>0, RecomputedIsLater
    <3>3. CASE a \notin standing /\ recomputing = {}
      BY <3>3, <2>1, <2>3, <1>0
    <3>4. QED
      BY <3>1, <3>2, <3>3
  <2>4. QED
    BY <2>2, <2>3
<1>2. ASSUME NEW a \in Alarm, NEW r \in WebRows, UpsertAlarm(a, r) PROVE RungBehind'
  BY <1>2 DEF UpsertAlarm, TypeOK
<1>3. ASSUME NEW a \in Alarm, DeleteAlarm(a) PROVE RungBehind'
  BY <1>3 DEF DeleteAlarm, TypeOK
<1>4. ASSUME RefreshHolidays PROVE RungBehind'
  BY <1>4 DEF RefreshHolidays, store, history
<1>5. ASSUME Elapse PROVE RungBehind'
  BY <1>5, <1>0 DEF Elapse, store, history
<1>6. ASSUME NEW t \in 0..Horizon, StepClock(t) PROVE RungBehind'
  <2>1. t \in Nat
    BY DateAssumption
  <2>2. QED
    BY <1>6, <1>0, <2>1 DEF StepClock, store
<1>7. ASSUME Crash PROVE RungBehind'
  BY <1>7 DEF Crash, store
<1>8. ASSUME Boot PROVE RungBehind'
  <2>1. rung' = rung /\ now' = now /\ (next_fire' = Recomputed \/ next_fire' = next_fire)
    BY <1>8 DEF Boot
  <2>2. QED
    BY <2>1, <1>0, RecomputedIsLater
<1>9. CASE UNCHANGED vars
  BY <1>9 DEF vars, store, history
<1>10. QED
  BY <1>1, <1>2, <1>3, <1>4, <1>5, <1>6, <1>7, <1>8, <1>9 DEF Next

\* No alarm rings twice for one occurrence, unless the store failed.
THEOREM RingsOnce == Spec => []NeverTwice
<1>1. Init => RungBehind
  BY DEF Init, RungBehind
<1>2. TypeOK /\ RungBehind => NeverTwice
  <2> SUFFICES ASSUME TypeOK, RungBehind, NEW a \in Stored, rung[a] # NoTime
               PROVE  next_fire[a] # rung[a]
    BY DEF NeverTwice
  <2>1. a \in Alarm /\ rung[a] \in Nat /\ next_fire[a] \in Nat \union {NoTime}
    BY DEF TypeOK, Stored
  <2>2. QED
    BY <2>1 DEF RungBehind
<1>3. QED
  BY <1>1, <1>2, InitType, StepType, StepRung, PTL DEF Spec

-----------------------------------------------------------------------------
(* The boot.  Until the clock is set, caches lie after the boot, or the      *)
(* recompute at boot failed and the first tick is still to come, or a second *)
(* write failed.                                                             *)

PastIsSkipped ==
  up =>
    \/ lost_writes >= 2
    \/ lost_writes >= 1 /\ ~booted
    \/ \A a \in Stored :
         rows[a].enabled /\ next_fire[a] # NoTime => next_fire[a] >= boot_at

BootIsPast == boot_at <= now

LEMMA StepBoot ==
  TypeOK /\ BootIsPast /\ PastIsSkipped /\ [Next]_vars => BootIsPast' /\ PastIsSkipped'
<1> SUFFICES ASSUME TypeOK, BootIsPast, PastIsSkipped, [Next]_vars
             PROVE  BootIsPast' /\ PastIsSkipped'
  OBVIOUS
<1> USE DEF BootIsPast, PastIsSkipped
<1>0. /\ now \in Nat /\ boot_at \in Nat \union {NoTime} /\ lost_writes \in Nat
      /\ \A a \in Stored : a \in Alarm /\ next_fire[a] \in Nat \union {NoTime}
  BY DEF TypeOK, Stored
<1>1. ASSUME Tick PROVE BootIsPast' /\ PastIsSkipped'
  <2>1. PICK lost \in SUBSET Due, recomputing \in SUBSET Due, standing \in SUBSET Due :
         TickWrites(lost, recomputing, standing)
    BY <1>1, TickEffect
  <2> USE DEF TickWrites
  <2>2. now' = now /\ boot_at' = boot_at /\ Stored' = Stored /\ rows' = rows
    BY <1>1 DEF Tick, Stored
  <2>3. lost_writes' \in Nat /\ MaxLost \in Nat
    BY <2>1, BoundAssumption
  <2>4. \A a \in standing : Target(a) \in Nat /\ Target(a) > next_fire[a]
                            /\ next_fire[a] \in Nat /\ a \in Due /\ Shifts(a)
    BY <2>1, <1>0, TargetIsLater DEF Due
  <2>5. \A a \in Stored : Recomputed[a] # NoTime => Recomputed[a] \in Nat /\ Recomputed[a] > now
    BY <1>0, RecomputedIsLater
  <2>6. CASE lost_writes' >= 2
    BY <2>2, <2>6, <1>0
  <2>7. CASE \A a \in Stored : rows[a].enabled /\ next_fire[a] # NoTime => next_fire[a] >= boot_at
    <3>1. \A a \in Stored : rows[a].enabled /\ next_fire'[a] # NoTime => next_fire'[a] >= boot_at
      BY <2>1, <2>4, <2>5, <2>7, <1>0 DEF Due
    <3>2. QED
      BY <2>2, <3>1
  <2>8. CASE lost_writes' < 2 /\ lost_writes >= 1 /\ ~booted
    <3>1. lost = {}
      BY <2>1, <2>3, <2>8, <1>0
    <3>2. ASSUME NEW a \in Stored, rows[a].enabled, next_fire'[a] # NoTime
          PROVE  next_fire'[a] >= boot_at
      <4>1. CASE a \in standing
        <5>1. next_fire[a] >= now
          BY <4>1, <2>4, <2>8, <1>0 DEF Shifts, Missed
        <5>2. QED
          BY <4>1, <5>1, <2>1, <2>4, <1>0
      <4>2. CASE a \notin standing /\ recomputing # {}
        BY <4>2, <3>2, <2>1, <2>5, <1>0
      <4>3. CASE a \notin standing /\ recomputing = {}
        <5>1. a \notin Due /\ next_fire'[a] = next_fire[a]
          BY <4>3, <3>1, <2>1, <1>0 DEF Recomputes
        <5>2. QED
          BY <5>1, <3>2, <1>0 DEF Due
      <4>4. QED
        BY <4>1, <4>2, <4>3
    <3>3. QED
      BY <2>2, <3>2
  <2>9. up
    BY <1>1 DEF Tick
  <2>10. QED
    BY <2>1, <2>6, <2>7, <2>8, <2>9, <2>3, <1>0
<1>2. ASSUME NEW a \in Alarm, NEW r \in WebRows, UpsertAlarm(a, r)
      PROVE  BootIsPast' /\ PastIsSkipped'
  BY <1>2 DEF UpsertAlarm, CacheOfForm, TypeOK, Stored, bounds
<1>3. ASSUME NEW a \in Alarm, DeleteAlarm(a) PROVE BootIsPast' /\ PastIsSkipped'
  BY <1>3 DEF DeleteAlarm, TypeOK, Stored, bounds
<1>4. ASSUME RefreshHolidays PROVE BootIsPast' /\ PastIsSkipped'
  BY <1>4 DEF RefreshHolidays, Stored, store, bounds, history
<1>5. ASSUME Elapse PROVE BootIsPast' /\ PastIsSkipped'
  <2>1. BootIsPast'
    BY <1>5, <1>0 DEF Elapse, history, NoTime
  <2>2. PastIsSkipped'
    BY <1>5 DEF Elapse, Stored, store, bounds, history
  <2>3. QED
    BY <2>1, <2>2
<1>6. ASSUME NEW t \in 0..Horizon, StepClock(t) PROVE BootIsPast' /\ PastIsSkipped'
  <2>1. t \in Nat
    BY DateAssumption
  <2>2. boot_at' = NoTime /\ now' = t /\ Stored' = Stored /\ next_fire' = next_fire /\ rows' = rows
    BY <1>6 DEF StepClock, Stored, store
  <2>3. QED
    BY <2>1, <2>2, <1>0 DEF NoTime
<1>7. ASSUME Crash PROVE BootIsPast' /\ PastIsSkipped'
  BY <1>7, <1>0 DEF Crash, NoTime
<1>8. ASSUME Boot PROVE BootIsPast' /\ PastIsSkipped'
  <2>1. now' = now /\ boot_at' = now /\ Stored' = Stored /\ rows' = rows /\ ~booted /\ booted' = booted
    BY <1>8 DEF Boot, TypeOK, Stored
  <2>2. CASE next_fire' = Recomputed
    <3>1. \A a \in Stored : Recomputed[a] # NoTime => Recomputed[a] \in Nat /\ Recomputed[a] > now
      BY <1>0, RecomputedIsLater
    <3>2. QED
      BY <2>1, <2>2, <3>1, <1>0
  <2>3. CASE lost_writes' = lost_writes + 1
    BY <2>1, <2>3, <1>0
  <2>4. QED
    BY <1>8, <2>2, <2>3 DEF Boot
<1>9. CASE UNCHANGED vars
  BY <1>9 DEF vars, Stored, store, bounds, history
<1>10. QED
  BY <1>1, <1>2, <1>3, <1>4, <1>5, <1>6, <1>7, <1>8, <1>9 DEF Next

\* What was missed while the device was off stays silent after the boot.
THEOREM MissedIsSilent == Spec => MissedStaysSilent
<1> DEFINE Silent == Tick /\ lost_writes < 2 =>
                       \A a \in Due : Fires(a) => next_fire[a] >= boot_at
<1>1. Init => BootIsPast /\ PastIsSkipped
  BY DEF Init, BootIsPast, PastIsSkipped, NoTime
<1>2. TypeOK /\ BootIsPast /\ PastIsSkipped => Silent
  <2> SUFFICES ASSUME TypeOK, BootIsPast, PastIsSkipped, Tick, lost_writes < 2,
                      NEW a \in Due, Fires(a)
               PROVE  next_fire[a] >= boot_at
    OBVIOUS
  <2>1. /\ now \in Nat /\ boot_at \in Nat \union {NoTime} /\ lost_writes \in Nat
        /\ a \in Stored /\ next_fire[a] # NoTime /\ next_fire[a] \in Nat /\ rows[a].enabled
    BY DEF TypeOK, Due, Stored
  <2>2. up
    BY DEF Tick
  <2>3. CASE booted
    BY <2>1, <2>2, <2>3 DEF PastIsSkipped
  <2>4. CASE ~booted
    BY <2>1, <2>4 DEF Fires, Missed, BootIsPast
  <2>5. QED
    BY <2>3, <2>4
<1>3. Spec => [][Silent]_vars
  <2> HIDE DEF Silent
  <2>1. QED
    BY <1>1, <1>2, InitType, StepType, StepBoot, PTL DEF Spec
<1>4. QED
  BY <1>3 DEF MissedStaysSilent
=============================================================================
