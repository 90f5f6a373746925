-------------------------- MODULE EpisodeFSM_proofs --------------------------
(***************************************************************************)
(* Proofs about EpisodeFSM, for any alarms, plans, user media, grace       *)
(* window, snooze length and channel capacity.                             *)
(***************************************************************************)
EXTENDS EpisodeFSM, TLAPS

-----------------------------------------------------------------------------
(* The operators of the model. *)

LEMMA PlanType ==
  ASSUME NEW a \in Alarm
  PROVE  /\ EpisodePlan(a).max_volume \in Volume
         /\ EpisodePlan(a).steps \in Seq(Step)
         /\ EpisodePlan(a).chain_len \in Nat
         /\ EpisodePlan(a).max_snoozes \in Nat
         /\ \A i \in DOMAIN EpisodePlan(a).steps :
              EpisodePlan(a).steps[i].after_secs \in 0..MaxAge
<1>1. AlarmRow[a] \in Row
  BY RowAssumption
<1>2. BundledBeep \in BOOLEAN
  BY ChannelAssumption
<1>3. \A i \in DOMAIN AlarmRow[a].steps :
        AlarmRow[a].steps[i].after_secs \in Nat /\ AlarmRow[a].steps[i].after_secs <= MaxAge
  <2>1. AlarmRow[a].steps \in Seq(Step)
    BY <1>1 DEF Row
  <2>2. \A i \in DOMAIN AlarmRow[a].steps : AlarmRow[a].steps[i] \in Step
    BY <2>1
  <2>3. QED
    BY <2>2, TimeAssumption DEF Step
<1>4. EpisodePlan(a).max_volume \in Volume
  <2>1. AlarmRow[a].max_volume \in Volume
    BY <1>1 DEF Row
  <2>2. \A v \in Volume : Clamp(v) \in Volume
    BY DEF Clamp, Volume
  <2>3. QED
    BY <2>1, <2>2 DEF EpisodePlan
<1>5. EpisodePlan(a).chain_len \in Nat
  BY <1>1, <1>2 DEF EpisodePlan, Row
<1>6. /\ EpisodePlan(a).steps = AlarmRow[a].steps
      /\ EpisodePlan(a).max_snoozes = AlarmRow[a].max_snoozes
  BY DEF EpisodePlan
<1>7. QED
  BY <1>1, <1>3, <1>4, <1>5, <1>6, TimeAssumption DEF Row

LEMMA VolumeAtType ==
  ASSUME NEW a \in Alarm, NEW index \in Nat
  PROVE  VolumeAt(EpisodePlan(a), index) \in Volume
<1> DEFINE plan == EpisodePlan(a)
<1>1. plan.steps \in Seq(Step) /\ plan.max_volume \in Volume
  BY PlanType
<1> HIDE DEF plan
<1>2. \A i \in DOMAIN plan.steps : plan.steps[i].volume \in Volume
  <2>1. \A i \in DOMAIN plan.steps : plan.steps[i] \in Step
    BY <1>1
  <2>2. QED
    BY <2>1 DEF Step
<1>3. plan.steps # <<>> => Len(plan.steps) \in DOMAIN plan.steps
  BY <1>1
<1>4. VolumeAt(plan, index) \in Volume
  BY <1>1, <1>2, <1>3 DEF VolumeAt
<1>5. QED
  BY <1>4 DEF plan

LEMMA ReportedType ==
  ASSUME NEW q \in Seq({"Playing", "Stopped"}), NEW before, NEW after
  PROVE  Reported(q, before, after) \in Seq({"Playing", "Stopped"})
BY DEF Reported

LEMMA SilenceType == Silence \in Player /\ Silence.uri = NoUri
BY DEF Silence, Player, Volume

LEMMA PlaySourceType ==
  ASSUME NEW p \in Player, NEW a \in Alarm, NEW index \in Int, NEW v \in Volume
  PROVE  /\ PlaySource(p, SourceUri(a, index), v) \in Player
         /\ PlaySource(p, SourceUri(a, index), v).uri = SourceUri(a, index)
         /\ PlaySource(p, SourceUri(a, index), v).repeat
         /\ PlaySource(p, SourceUri(a, index), v).volume = v
<1>1. SourceUri(a, index) \in Alarm \X Int
  BY DEF SourceUri
<1>2. QED
  BY <1>1 DEF PlaySource, Player

LEMMA RestoreMediaType ==
  ASSUME NEW p \in Player, NEW m \in Player
  PROVE  /\ RestoreMedia(p, m) \in Player
         /\ m.uri # NoUri => SameMedia(RestoreMedia(p, m), m)
BY DEF RestoreMedia, RestoreSettings, Player, SameMedia

-----------------------------------------------------------------------------
(* Type correctness. *)

LEMMA NoPlanOutside == NoAlarm \notin Alarm
BY RowAssumption

LEMMA EndEpisodeType ==
  ASSUME TypeOK, is_active, NEW left \in Seq({"Playing", "Stopped"}), EndEpisode(left)
  PROVE  TypeOK'
<1>1. player' \in Player
  BY RestoreMediaType DEF EndEpisode, TypeOK
<1>2. events' \in Seq({"Playing", "Stopped"})
  BY ReportedType DEF EndEpisode
<1>3. snapshot' \in Player
  BY SilenceType DEF EndEpisode, NoSnapshot
<1>4. /\ MaxAge \in Nat /\ GraceWindow \in Nat /\ SnoozeTime \in Nat
  BY TimeAssumption
<1>5. state' = "Dismissed" /\ alarm_id' = NoAlarm
  BY DEF EndEpisode
<1>6. QED
  BY <1>1, <1>2, <1>3, <1>4, <1>5 DEF EndEpisode, TypeOK, is_active

\* A climb leaves a step index and a player.
LEMMA ClimbType ==
  ASSUME TypeOK, alarm_id \in Alarm, NEW p \in Player, NEW age \in Nat, Climb(p, age)
  PROVE  /\ step_index' \in Nat
         /\ player' \in Player
         /\ player'.uri = p.uri /\ player'.repeat = p.repeat
         /\ player'.volume = IF step_index' = step_index THEN p.volume
                                                         ELSE VolumeAt(Plan, step_index')
         /\ events' \in Seq({"Playing", "Stopped"})
         /\ StepReached(Plan, age, step_index, step_index')
<1>1. PICK target \in 0..Len(Plan.steps) :
        /\ StepReached(Plan, age, step_index, target)
        /\ step_index' = target
        /\ player' = IF target = step_index THEN p ELSE [p EXCEPT !.volume = VolumeAt(Plan, target)]
        /\ events' = Reported(events, player, player')
  BY DEF Climb
<1>2. target \in Nat
  BY PlanType DEF Plan
<1>3. VolumeAt(Plan, target) \in Volume
  BY <1>2, VolumeAtType DEF Plan
<1>4. events' \in Seq({"Playing", "Stopped"})
  BY <1>1, ReportedType DEF TypeOK
<1>5. QED
  BY <1>1, <1>2, <1>3, <1>4 DEF Player

LEMMA InitType == Init => TypeOK
<1> SUFFICES ASSUME Init PROVE TypeOK
  OBVIOUS
<1>1. player \in UserMedia /\ user_media \in UserMedia
  BY DEF Init
<1>2. player \in Player
  BY <1>1, MediaAssumption
<1>3. <<>> \in Seq({"Playing", "Stopped"})
  OBVIOUS
<1>4. QED
  BY <1>1, <1>2, <1>3, SilenceType, TimeAssumption DEF Init, TypeOK, is_active, NoSnapshot

LEMMA StepType == TypeOK /\ [Next]_vars => TypeOK'
<1> SUFFICES ASSUME TypeOK, [Next]_vars PROVE TypeOK'
  OBVIOUS
<1> USE DEF TypeOK
<1>t. MaxAge \in Nat /\ GraceWindow \in Nat \ {0} /\ SnoozeTime \in Nat \ {0}
  BY TimeAssumption
<1>n. NoAlarm \notin Alarm
  BY RowAssumption
<1>1. ASSUME NEW a \in Alarm, Fire(a) PROVE TypeOK'
  <2>1. Handed \in Player
    BY RestoreMediaType DEF Handed
  <2>2. PICK m \in Captures(Handed) :
          /\ snapshot' = m
          /\ player' = PlaySource(Handed, SourceUri(a, PRIMARY), VolumeAt(EpisodePlan(a), 0))
          /\ events' = Reported(Reported(events, player, Handed), Handed, player')
          /\ user_media' = IF m.uri = NoUri THEN Silence ELSE user_media
    BY <1>1 DEF Fire
  <2>3. snapshot' \in Player
    BY <2>1, <2>2, SilenceType DEF Captures
  <2>4. player' \in Player
    BY <2>1, <2>2, VolumeAtType, PlaySourceType DEF PRIMARY
  <2>5. events' \in Seq({"Playing", "Stopped"})
    BY <2>2, ReportedType
  <2>6. user_media' \in UserMedia \union {Silence}
    BY <2>2
  <2>7. /\ state' = "Escalating" /\ alarm_id' = a
        /\ fire_age' = 0 /\ source_age' = 0 /\ snooze_left' = 0
        /\ step_index' = 0 /\ snooze_count' = 0 /\ fallback_index' = PRIMARY
    BY <1>1 DEF Fire
  <2>8. QED
    BY <2>3, <2>4, <2>5, <2>6, <2>7, <1>t, <1>n DEF is_active
<1>2. ASSUME Dismiss PROVE TypeOK'
  BY <1>2, EndEpisodeType DEF Dismiss
<1>3. ASSUME Snooze PROVE TypeOK'
  <2>1. player' \in Player
    BY <1>3, RestoreMediaType DEF Snooze
  <2>2. events' \in Seq({"Playing", "Stopped"})
    BY <1>3, ReportedType DEF Snooze
  <2>3. QED
    BY <1>3, <2>1, <2>2, <1>t DEF Snooze, is_active, is_firing
<1>4. ASSUME AdvanceEscalation PROVE TypeOK'
  <2>1. alarm_id \in Alarm
    BY <1>4 DEF AdvanceEscalation, is_firing, is_active
  <2>2. /\ step_index' \in Nat /\ player' \in Player
        /\ events' \in Seq({"Playing", "Stopped"})
    BY <1>4, <2>1, <1>t, ClimbType DEF AdvanceEscalation
  <2>3. QED
    BY <1>4, <2>2 DEF AdvanceEscalation, is_active
<1>5. ASSUME CheckSnoozeRefire PROVE TypeOK'
  <2>1. alarm_id \in Alarm
    BY <1>5 DEF CheckSnoozeRefire, is_active
  <2>2. ResumeAge \in 0..MaxAge
    BY <2>1, <1>t, PlanType DEF ResumeAge, Plan
  <2>3. PlaySource(player, SourceUri(alarm_id, PRIMARY), VolumeAt(Plan, step_index)) \in Player
    BY <2>1, PlaySourceType, VolumeAtType DEF Plan, PRIMARY
  <2>4. /\ step_index' \in Nat /\ player' \in Player
        /\ events' \in Seq({"Playing", "Stopped"})
    BY <1>5, <2>1, <2>2, <2>3, ClimbType DEF CheckSnoozeRefire
  <2>5. QED
    BY <1>5, <2>2, <2>4, <1>t DEF CheckSnoozeRefire, is_active
<1>6. ASSUME EventIgnored PROVE TypeOK'
  <2>1. events' \in Seq({"Playing", "Stopped"})
    BY <1>6 DEF EventIgnored
  <2>2. QED
    BY <1>6, <2>1 DEF EventIgnored, fsm, is_active
<1>7. ASSUME AdvanceFallback PROVE TypeOK'
  <2>1. alarm_id \in Alarm
    BY <1>7 DEF AdvanceFallback, SourceFailed, is_firing, is_active
  <2>2. fallback_index + 1 \in Nat
    BY DEF PRIMARY
  <2>3. player' \in Player
    BY <1>7, <2>1, <2>2, PlaySourceType, VolumeAtType DEF AdvanceFallback, Plan
  <2>4. Tail(events) \in Seq({"Playing", "Stopped"})
    BY <1>7 DEF AdvanceFallback
  <2>5. events' \in Seq({"Playing", "Stopped"})
    BY <1>7, <2>4, ReportedType DEF AdvanceFallback
  <2>6. QED
    BY <1>7, <2>2, <2>3, <2>5, <1>t DEF AdvanceFallback, is_active
<1>8. ASSUME ChainExhausted PROVE TypeOK'
  <2>1. Tail(events) \in Seq({"Playing", "Stopped"})
    BY <1>8 DEF ChainExhausted
  <2>2. QED
    BY <1>8, <2>1, EndEpisodeType DEF ChainExhausted, SourceFailed, is_firing, is_active
<1>9. ASSUME Elapse PROVE TypeOK'
  BY <1>9, <1>t DEF Elapse, env, Min2, is_active
<1>10. ASSUME Crash PROVE TypeOK'
  <2>1. <<>> \in Seq({"Playing", "Stopped"})
    OBVIOUS
  <2>2. QED
    BY <1>10, <2>1, <1>t, SilenceType DEF Crash, NoSnapshot, is_active
<1>11. ASSUME NEW m \in UserMedia, UserPlays(m) PROVE TypeOK'
  <2>1. events' \in Seq({"Playing", "Stopped"})
    BY <1>11, ReportedType DEF UserPlays
  <2>2. player' \in Player
    BY <1>11, MediaAssumption DEF UserPlays
  <2>3. QED
    BY <1>11, <2>1, <2>2 DEF UserPlays, fsm, is_active
<1>12. ASSUME SourceStops PROVE TypeOK'
  <2>1. events' \in Seq({"Playing", "Stopped"})
    BY <1>12, ReportedType DEF SourceStops
  <2>2. player' \in Player
    BY <1>12 DEF SourceStops, Player
  <2>3. QED
    BY <1>12, <2>1, <2>2 DEF SourceStops, fsm, is_active
<1>13. CASE UNCHANGED vars
  BY <1>13 DEF vars, fsm, env, is_active
<1>14. QED
  BY <1>1, <1>2, <1>3, <1>4, <1>5, <1>6, <1>7, <1>8, <1>9, <1>10, <1>11, <1>12, <1>13
  DEF Next, OnTick

\* Every reachable state is well typed.
THEOREM TypeCorrect == Spec => []TypeOK
<1>1. QED
  BY InitType, StepType, PTL DEF Spec


-----------------------------------------------------------------------------
(* The player while an alarm sounds.  That it agrees with the fields is      *)
(* inductive together with TypeOK: every action that moves the source or the *)
(* step also issues the command that brings the player along.  That the step *)
(* is one of the plan's comes from the climb, below.                         *)

AgreesWithFields ==
  is_firing =>
    /\ player.uri = SourceUri(alarm_id, fallback_index)
    /\ fallback_index < Plan.chain_len
    /\ player.repeat
    /\ player.volume = VolumeAt(Plan, step_index)

LEMMA StepAgrees == TypeOK /\ AgreesWithFields /\ [Next]_vars => AgreesWithFields'
<1> SUFFICES ASSUME TypeOK, AgreesWithFields, [Next]_vars, is_firing'
             PROVE  /\ player'.uri = SourceUri(alarm_id, fallback_index)'
                    /\ (fallback_index < Plan.chain_len)'
                    /\ player'.repeat
                    /\ player'.volume = VolumeAt(Plan, step_index)'
  BY DEF AgreesWithFields
<1>a. is_firing => alarm_id \in Alarm
  BY DEF TypeOK, is_firing, is_active
<1>b. state = "Snoozing" => alarm_id \in Alarm
  BY DEF TypeOK, is_active
<1>1. ASSUME NEW a \in Alarm, Fire(a) PROVE AgreesWithFields'
  <2>1. Handed \in Player
    BY RestoreMediaType DEF Handed, TypeOK
  <2>2. /\ player' = PlaySource(Handed, SourceUri(a, PRIMARY), VolumeAt(EpisodePlan(a), 0))
        /\ alarm_id' = a /\ step_index' = 0 /\ fallback_index' = PRIMARY
    BY <1>1 DEF Fire
  <2>3. PRIMARY \in Int /\ PRIMARY < EpisodePlan(a).chain_len
    BY PlanType DEF PRIMARY
  <2>4. /\ player'.uri = SourceUri(a, PRIMARY) /\ player'.repeat
        /\ player'.volume = VolumeAt(EpisodePlan(a), 0)
    BY <2>1, <2>2, <2>3, PlaySourceType, VolumeAtType
  <2>5. QED
    BY <2>2, <2>3, <2>4 DEF AgreesWithFields, Plan, SourceUri
<1>2. CASE Dismiss
  BY <1>2 DEF Dismiss, EndEpisode, is_firing
<1>3. CASE Snooze
  BY <1>3 DEF Snooze, is_firing
<1>4. ASSUME AdvanceEscalation PROVE AgreesWithFields'
  <2>1. /\ player'.uri = player.uri /\ player'.repeat = player.repeat
        /\ player'.volume = IF step_index' = step_index THEN player.volume
                                                        ELSE VolumeAt(Plan, step_index')
    BY <1>4, <1>a, ClimbType, TimeAssumption DEF AdvanceEscalation, TypeOK
  <2>2. QED
    BY <1>4, <2>1 DEF AdvanceEscalation, AgreesWithFields, Plan, SourceUri
<1>5. ASSUME CheckSnoozeRefire PROVE AgreesWithFields'
  <2> DEFINE p == PlaySource(player, SourceUri(alarm_id, PRIMARY), VolumeAt(Plan, step_index))
  <2>1. alarm_id \in Alarm /\ alarm_id' = alarm_id
    BY <1>5, <1>b DEF CheckSnoozeRefire
  <2>2. ResumeAge \in Nat
    BY <2>1, PlanType, TimeAssumption DEF ResumeAge, Plan
  <2>3. PRIMARY \in Int /\ PRIMARY < Plan.chain_len
    BY <2>1, PlanType DEF PRIMARY, Plan
  <2>4. /\ p \in Player /\ p.uri = SourceUri(alarm_id, PRIMARY) /\ p.repeat
        /\ p.volume = VolumeAt(Plan, step_index)
    BY <2>1, <2>3, PlaySourceType, VolumeAtType DEF Plan, TypeOK
  <2> HIDE DEF p
  <2>5. Climb(p, ResumeAge)
    BY <1>5 DEF CheckSnoozeRefire, p
  <2>6. /\ player'.uri = p.uri /\ player'.repeat = p.repeat
        /\ player'.volume = IF step_index' = step_index THEN p.volume
                                                        ELSE VolumeAt(Plan, step_index')
    BY <2>1, <2>2, <2>4, <2>5, ClimbType
  <2>7. fallback_index' = PRIMARY
    BY <1>5 DEF CheckSnoozeRefire
  <2>8. QED
    BY <2>1, <2>3, <2>4, <2>6, <2>7 DEF AgreesWithFields, Plan, SourceUri
<1>6. CASE EventIgnored
  BY <1>6 DEF EventIgnored, fsm, AgreesWithFields, is_firing, Plan, SourceUri
<1>7. ASSUME AdvanceFallback PROVE AgreesWithFields'
  <2>1. alarm_id \in Alarm /\ alarm_id' = alarm_id
    BY <1>7, <1>a DEF AdvanceFallback, SourceFailed
  <2>2. fallback_index + 1 \in Int /\ step_index \in Nat /\ player \in Player
    BY DEF TypeOK, PRIMARY
  <2>3. /\ player'.uri = SourceUri(alarm_id, fallback_index + 1) /\ player'.repeat
        /\ player'.volume = VolumeAt(Plan, step_index)
    BY <1>7, <2>1, <2>2, PlaySourceType, VolumeAtType DEF AdvanceFallback, Plan
  <2>4. QED
    BY <1>7, <2>1, <2>3 DEF AdvanceFallback, HasNextFallback, AgreesWithFields, Plan, SourceUri
<1>8. CASE ChainExhausted
  BY <1>8 DEF ChainExhausted, EndEpisode, is_firing
<1>9. CASE Elapse
  BY <1>9 DEF Elapse, env, AgreesWithFields, is_firing, Plan, SourceUri
<1>10. CASE Crash
  BY <1>10 DEF Crash, is_firing
<1>11. ASSUME NEW m \in UserMedia, UserPlays(m) PROVE ~is_firing'
  BY <1>11 DEF UserPlays, fsm, is_firing
<1>12. ASSUME SourceStops PROVE AgreesWithFields'
  <2>1. /\ player'.uri = player.uri /\ player'.repeat = player.repeat
        /\ player'.volume = player.volume
    BY <1>12 DEF SourceStops, TypeOK, Player
  <2>2. QED
    BY <1>12, <2>1 DEF SourceStops, fsm, AgreesWithFields, is_firing, Plan, SourceUri
<1>13. CASE UNCHANGED vars
  BY <1>13 DEF vars, fsm, env, AgreesWithFields, is_firing, Plan, SourceUri
<1>14. QED
  BY <1>1, <1>2, <1>3, <1>4, <1>5, <1>6, <1>7, <1>8, <1>9, <1>10, <1>11, <1>12, <1>13
  DEF Next, OnTick, AgreesWithFields

-----------------------------------------------------------------------------
(* The user's media.  What makes MediaHandedBack inductive is the snapshot:  *)
(* while an episode holds the user's media its snapshot is that media and    *)
(* has a uri, so RestoreMedia acts on it.                                    *)

LoanIsSound ==
  /\ entrusted /\ is_active => SameMedia(snapshot, user_media) /\ snapshot.uri # NoUri
  /\ MediaHandedBack

LEMMA EndEpisodeLoan ==
  ASSUME TypeOK, LoanIsSound, is_active, NEW left, EndEpisode(left)
  PROVE  LoanIsSound'
<1>1. /\ player' = RestoreMedia(player, snapshot) /\ user_media' = user_media
      /\ state' = "Dismissed"
  BY DEF EndEpisode
<1>2. snapshot.uri # NoUri => SameMedia(player', snapshot)
  BY <1>1, RestoreMediaType DEF TypeOK
<1>3. QED
  BY <1>1, <1>2 DEF LoanIsSound, MediaHandedBack, SameMedia, entrusted, is_active, is_firing

LEMMA StepLoan == TypeOK /\ LoanIsSound /\ [Next]_vars => LoanIsSound'
<1> SUFFICES ASSUME TypeOK, LoanIsSound, [Next]_vars PROVE LoanIsSound'
  OBVIOUS
<1> USE DEF LoanIsSound, MediaHandedBack, entrusted
<1>1. ASSUME NEW a \in Alarm, Fire(a) PROVE LoanIsSound'
  <2>1. entrusted => SameMedia(Handed, user_media)
    <3>1. CASE is_active
      BY <3>1, RestoreMediaType DEF Handed, TypeOK, SameMedia
    <3>2. CASE ~is_active
      BY <3>2 DEF Handed, is_active, is_firing
    <3>3. QED
      BY <3>1, <3>2
  <2>2. PICK m \in Captures(Handed) :
          snapshot' = m /\ user_media' = IF m.uri = NoUri THEN Silence ELSE user_media
    BY <1>1 DEF Fire
  <2>3. m.uri # NoUri => m = Handed
    BY SilenceType DEF Captures
  <2>4. state' = "Escalating"
    BY <1>1 DEF Fire
  <2>5. QED
    BY <2>1, <2>2, <2>3, <2>4, SilenceType DEF is_firing
<1>2. ASSUME Dismiss PROVE LoanIsSound'
  BY <1>2, EndEpisodeLoan DEF Dismiss
<1>3. ASSUME Snooze PROVE LoanIsSound'
  <2>1. /\ is_active /\ snapshot' = snapshot /\ user_media' = user_media
        /\ player' = RestoreMedia(player, snapshot)
    BY <1>3 DEF Snooze, is_active, is_firing
  <2>2. snapshot.uri # NoUri => SameMedia(player', snapshot)
    BY <2>1, RestoreMediaType DEF TypeOK
  <2>3. QED
    BY <2>1, <2>2 DEF SameMedia
<1>4. ASSUME OnTick PROVE LoanIsSound'
  BY <1>4 DEF OnTick, AdvanceEscalation, CheckSnoozeRefire, is_active, is_firing
<1>6. ASSUME EventIgnored PROVE LoanIsSound'
  BY <1>6 DEF EventIgnored, fsm, is_active, is_firing
<1>7. ASSUME AdvanceFallback PROVE LoanIsSound'
  BY <1>7 DEF AdvanceFallback, SourceFailed, is_active, is_firing
<1>8. ASSUME ChainExhausted PROVE LoanIsSound'
  BY <1>8, EndEpisodeLoan DEF ChainExhausted, SourceFailed, is_active, is_firing
<1>9. ASSUME Elapse PROVE LoanIsSound'
  BY <1>9 DEF Elapse, env, is_active, is_firing
<1>10. ASSUME Crash PROVE LoanIsSound'
  BY <1>10, SilenceType DEF Crash, is_active, is_firing
<1>11. ASSUME NEW m \in UserMedia, UserPlays(m) PROVE LoanIsSound'
  BY <1>11, SilenceType DEF UserPlays, fsm, is_active, is_firing, SameMedia
<1>12. ASSUME SourceStops PROVE LoanIsSound'
  BY <1>12 DEF SourceStops, fsm, is_active, is_firing
<1>13. CASE UNCHANGED vars
  BY <1>13 DEF vars, fsm, env, is_active, is_firing
<1>14. QED
  BY <1>1, <1>2, <1>3, <1>4, <1>6, <1>7, <1>8, <1>9, <1>10, <1>11, <1>12, <1>13
  DEF Next

LEMMA LoanAlways == Spec => []LoanIsSound
<1>1. Init => LoanIsSound
  BY DEF Init, LoanIsSound, MediaHandedBack, SameMedia, is_active
<1>2. QED
  BY <1>1, InitType, StepType, StepLoan, PTL DEF Spec

\* Whatever fires, climbs, falls back and snoozes, the player is the user's
\* again when no alarm sounds.
THEOREM UserGetsMediaBack == Spec => []MediaHandedBack
<1>1. LoanIsSound => MediaHandedBack
  BY DEF LoanIsSound
<1>2. QED
  BY <1>1, LoanAlways, PTL

\* An episode holds the user's media, never another alarm's source.
THEOREM SnapshotsAreUserMedia == Spec => []SnapshotIsUserMedia
<1>1. LoanIsSound => SnapshotIsUserMedia
  BY DEF LoanIsSound, SnapshotIsUserMedia
<1>2. QED
  BY <1>1, LoanAlways, PTL

-----------------------------------------------------------------------------
(* The climb.  A step past the first has been reached by the age of the      *)
(* firing; the steps are sorted, so the walk of advance_escalation passes it *)
(* again and ends no earlier.                                                *)

StepHeld ==
  is_active =>
    \/ step_index = 0
    \/ /\ step_index + 1 \in DOMAIN Plan.steps
       /\ is_firing => Plan.steps[step_index + 1].after_secs <= fire_age

\* One walk over a sorted plan, from a step that is reached or is the first.
LEMMA WalkForward ==
  ASSUME NEW a \in Alarm, NEW age \in Nat, NEW index \in Nat, NEW target \in Nat,
         StepReached(EpisodePlan(a), age, index, target),
         \/ index = 0
         \/ /\ index + 1 \in DOMAIN EpisodePlan(a).steps
            /\ EpisodePlan(a).steps[index + 1].after_secs <= age
  PROVE  /\ target >= index
         /\ \/ target = 0
            \/ /\ target + 1 \in DOMAIN EpisodePlan(a).steps
               /\ EpisodePlan(a).steps[target + 1].after_secs <= age
<1> DEFINE steps == EpisodePlan(a).steps
<1>1. steps \in Seq(Step) /\ \A i \in DOMAIN steps : steps[i].after_secs \in Nat
  BY PlanType, TimeAssumption
<1>2. \A i, j \in DOMAIN steps : i <= j => steps[i].after_secs <= steps[j].after_secs
  BY RowAssumption DEF Sorted, EpisodePlan
<1>3. DOMAIN steps = 1..Len(steps) /\ Len(steps) \in Nat
  BY <1>1
<1>4. Reached(EpisodePlan(a), age) =
        {i \in 0..(Len(steps) - 1) : \A j \in 0..i : steps[j + 1].after_secs <= age}
  BY DEF Reached
<1> DEFINE walked == Reached(EpisodePlan(a), age)
<1>5. CASE walked = {}
  BY <1>5 DEF StepReached
<1>6. CASE walked # {}
  <2>1. target \in walked /\ target + 1 \notin walked
    BY <1>6 DEF StepReached
  <2>2. target \in 0..(Len(steps) - 1) /\ \A j \in 0..target : steps[j + 1].after_secs <= age
    BY <2>1, <1>4
  <2>3. target + 1 \in DOMAIN steps /\ steps[target + 1].after_secs <= age
    BY <2>2, <1>3
  <2>4. ASSUME index > target PROVE FALSE
    <3>1. index + 1 \in DOMAIN steps /\ steps[index + 1].after_secs <= age
      BY <2>4
    <3>2. target + 1 \in 0..(Len(steps) - 1)
      BY <3>1, <2>4, <1>3
    <3>3. ASSUME NEW j \in 0..(target + 1) PROVE steps[j + 1].after_secs <= age
      <4>1. j + 1 \in DOMAIN steps /\ j + 1 <= index + 1
        BY <3>1, <2>4, <1>3
      <4>2. steps[j + 1].after_secs <= steps[index + 1].after_secs
        BY <4>1, <3>1, <1>2
      <4>3. QED
        BY <4>1, <4>2, <3>1, <1>1
    <3>4. QED
      BY <3>2, <3>3, <1>4, <2>1
  <2>5. QED
    BY <2>3, <2>4
<1>7. QED
  BY <1>5, <1>6

\* A step of the episode keeps the step held and never goes back.
LEMMA StepClimb ==
  TypeOK /\ StepHeld /\ [Next]_vars
    => StepHeld' /\ (is_active /\ is_active' /\ ~(\E a \in Alarm : Fire(a))
                       => step_index' >= step_index)
<1> DEFINE Goal == StepHeld' /\ (is_active /\ is_active' /\ ~(\E a \in Alarm : Fire(a))
                                   => step_index' >= step_index)
<1> SUFFICES ASSUME TypeOK, StepHeld, [Next]_vars PROVE Goal
  OBVIOUS
<1>s. step_index \in Nat /\ fire_age \in 0..MaxAge /\ MaxAge \in Nat
  BY TimeAssumption DEF TypeOK
<1>a. is_active => alarm_id \in Alarm
  BY DEF TypeOK
<1>r. is_firing => is_active
  BY DEF is_firing, is_active
<1>1. ASSUME NEW a \in Alarm, Fire(a) PROVE Goal
  BY <1>1 DEF Fire, StepHeld
<1>2. ASSUME NEW left, EndEpisode(left) PROVE Goal
  BY <1>2 DEF EndEpisode, StepHeld, is_active
<1>3. ASSUME Snooze PROVE Goal
  BY <1>3, <1>s, <1>r DEF Snooze, StepHeld, is_firing, Plan
<1>4. ASSUME AdvanceEscalation PROVE Goal
  <2>1. is_firing /\ is_active /\ alarm_id \in Alarm /\ player \in Player
    BY <1>4, <1>a, <1>r DEF AdvanceEscalation, TypeOK
  <2>2. step_index' \in Nat /\ StepReached(EpisodePlan(alarm_id), fire_age, step_index, step_index')
    BY <1>4, <2>1, <1>s, ClimbType DEF AdvanceEscalation, Plan
  <2>3. \/ step_index = 0
        \/ /\ step_index + 1 \in DOMAIN EpisodePlan(alarm_id).steps
           /\ EpisodePlan(alarm_id).steps[step_index + 1].after_secs <= fire_age
    BY <2>1 DEF StepHeld, Plan
  <2>4. /\ step_index' >= step_index
        /\ \/ step_index' = 0
           \/ /\ step_index' + 1 \in DOMAIN EpisodePlan(alarm_id).steps
              /\ EpisodePlan(alarm_id).steps[step_index' + 1].after_secs <= fire_age
    BY <2>1, <2>2, <2>3, <1>s, WalkForward
  <2>5. alarm_id' = alarm_id /\ fire_age' = fire_age
    BY <1>4 DEF AdvanceEscalation
  <2>6. QED
    BY <2>4, <2>5 DEF StepHeld, Plan
<1>5. ASSUME CheckSnoozeRefire PROVE Goal
  <2>1. is_active /\ alarm_id \in Alarm /\ alarm_id' = alarm_id /\ fire_age' = ResumeAge
    BY <1>5, <1>a DEF CheckSnoozeRefire, is_active
  <2>2. ResumeAge \in Nat
    BY <2>1, PlanType, <1>s DEF ResumeAge, Plan
  <2> DEFINE p == PlaySource(player, SourceUri(alarm_id, PRIMARY), VolumeAt(Plan, step_index))
  <2>3. p \in Player
    BY <2>1, <1>s, PlaySourceType, VolumeAtType DEF Plan, PRIMARY, TypeOK
  <2>4. Climb(p, ResumeAge)
    BY <1>5 DEF CheckSnoozeRefire
  <2> HIDE DEF p
  <2>5. step_index' \in Nat /\ StepReached(EpisodePlan(alarm_id), ResumeAge, step_index, step_index')
    BY <2>1, <2>2, <2>3, <2>4, ClimbType DEF Plan
  <2>6. \/ step_index = 0
        \/ /\ step_index + 1 \in DOMAIN EpisodePlan(alarm_id).steps
           /\ EpisodePlan(alarm_id).steps[step_index + 1].after_secs <= ResumeAge
    BY <2>1, <2>2 DEF StepHeld, ResumeAge, Plan
  <2>7. /\ step_index' >= step_index
        /\ \/ step_index' = 0
           \/ /\ step_index' + 1 \in DOMAIN EpisodePlan(alarm_id).steps
              /\ EpisodePlan(alarm_id).steps[step_index' + 1].after_secs <= ResumeAge
    BY <2>1, <2>2, <2>5, <2>6, <1>s, WalkForward
  <2>8. QED
    BY <2>1, <2>7 DEF StepHeld, Plan
<1>6. ASSUME EventIgnored PROVE Goal
  BY <1>6, <1>s DEF EventIgnored, fsm, StepHeld, is_active, is_firing, Plan
<1>7. ASSUME AdvanceFallback PROVE Goal
  BY <1>7, <1>s DEF AdvanceFallback, StepHeld, is_active, is_firing, Plan
<1>9. ASSUME Elapse PROVE Goal
  <2>1. is_firing => fire_age' >= fire_age /\ fire_age' \in Nat
    BY <1>9, <1>s DEF Elapse, Min2
  <2>2. is_active /\ alarm_id' = alarm_id /\ step_index' = step_index /\ state' = state
    BY <1>9 DEF Elapse
  <2>3. \A i \in DOMAIN Plan.steps : Plan.steps[i].after_secs \in Nat
    BY <2>2, <1>a, PlanType, <1>s DEF Plan
  <2>4. StepHeld'
    BY <2>1, <2>2, <2>3, <1>s DEF StepHeld, is_active, is_firing, Plan
  <2>5. QED
    BY <2>2, <2>4, <1>s
<1>10. ASSUME Crash PROVE Goal
  BY <1>10 DEF Crash, StepHeld, is_active
<1>11. ASSUME NEW m \in UserMedia, UserPlays(m) PROVE Goal
  BY <1>11, <1>s DEF UserPlays, fsm, StepHeld, is_active, is_firing, Plan
<1>12. ASSUME SourceStops PROVE Goal
  BY <1>12, <1>s DEF SourceStops, fsm, StepHeld, is_active, is_firing, Plan
<1>13. CASE UNCHANGED vars
  BY <1>13, <1>s DEF vars, fsm, env, StepHeld, is_active, is_firing, Plan
<1>14. QED
  BY <1>1, <1>2, <1>3, <1>4, <1>5, <1>6, <1>7, <1>9, <1>10, <1>11, <1>12, <1>13
  DEF Next, OnTick, Dismiss, ChainExhausted

\* A step that is held is a step of the plan, and asks for its own volume.
LEMMA HeldIsHeard == TypeOK /\ StepHeld /\ AgreesWithFields => RingsAsPlanned
<1> SUFFICES ASSUME TypeOK, StepHeld, AgreesWithFields, is_firing
             PROVE  player.volume = IF Plan.steps = <<>> THEN Plan.max_volume
                                    ELSE Plan.steps[step_index + 1].volume
  BY DEF RingsAsPlanned, AgreesWithFields
<1>1. alarm_id \in Alarm /\ is_active
  BY DEF TypeOK, is_firing, is_active
<1>2. Plan.steps \in Seq(Step)
  BY <1>1, PlanType DEF Plan
<1>3. player.volume = VolumeAt(Plan, step_index)
  BY DEF AgreesWithFields
<1>4. CASE Plan.steps = <<>>
  BY <1>3, <1>4 DEF VolumeAt
<1>5. CASE Plan.steps # <<>>
  <2>1. step_index + 1 \in DOMAIN Plan.steps
    BY <1>1, <1>2, <1>5 DEF StepHeld
  <2>2. QED
    BY <1>3, <1>5, <2>1 DEF VolumeAt
<1>6. QED
  BY <1>4, <1>5

\* While an alarm sounds the player has its current source, looping, at the
\* volume its current step asks for, whatever the ceiling, or without steps at
\* the ceiling (fire, advance_escalation, check_snooze_refire,
\* on_playback_state_changed).
THEOREM SoundsAsPlanned == Spec => []RingsAsPlanned
<1>1. Init => AgreesWithFields /\ StepHeld
  BY DEF Init, AgreesWithFields, StepHeld, is_firing
<1>2. TypeOK /\ StepHeld /\ [Next]_vars => StepHeld'
  BY StepClimb
<1>3. QED
  BY <1>1, <1>2, InitType, StepType, StepAgrees, HeldIsHeard, PTL DEF Spec

\* The escalation of an episode never returns to an earlier step.
THEOREM ClimbIsMonotone == Spec => VolumeNeverDips
<1> DEFINE Forward == is_active /\ is_active' /\ ~(\E a \in Alarm : Fire(a))
                        => step_index' >= step_index
<1>1. Init => StepHeld
  BY DEF Init, StepHeld
<1>2. TypeOK /\ StepHeld /\ [Next]_vars => StepHeld' /\ [Forward]_vars
  BY StepClimb
<1>3. Spec => [][Forward]_vars
  <2> HIDE DEF Forward
  <2>1. QED
    BY <1>1, <1>2, InitType, StepType, PTL DEF Spec
<1>4. QED
  BY <1>3 DEF VolumeNeverDips

-----------------------------------------------------------------------------
(* The episode implements EpisodeContract, its fairness apart.               *)

LEMMA ContractStep == TypeOK /\ [Next]_vars => [Contract!Next]_(Contract!contractVars)
<1> DEFINE Cap == [a \in Alarm |-> EpisodePlan(a).max_snoozes]
<1> SUFFICES ASSUME TypeOK, [Next]_vars PROVE [Contract!Next]_(Contract!contractVars)
  OBVIOUS
<1> USE DEF Contract!Next, Contract!contractVars, Contract!Ring, Contract!Lend,
            Contract!TakeBack, Contract!End
<1>a. is_active => alarm_id \in Alarm
  BY DEF TypeOK
<1>r. is_active <=> is_firing \/ state = "Snoozing"
  BY DEF is_firing, is_active
<1>1. ASSUME NEW a \in Alarm, Fire(a) PROVE Contract!Ring(a)
  BY <1>1 DEF Fire, is_firing
<1>2. ASSUME NEW left, is_active, EndEpisode(left) PROVE Contract!End
  BY <1>2, <1>r DEF EndEpisode, is_firing
<1>3. ASSUME Snooze PROVE Contract!Lend
  <2>1. alarm_id \in Alarm /\ snooze_count \in Nat /\ Plan.max_snoozes \in Nat
    BY <1>3, <1>a, <1>r, PlanType DEF Snooze, TypeOK, Plan
  <2>2. snooze_count < Cap[alarm_id]
    BY <1>3, <2>1 DEF Snooze, SnoozeGranted, Plan
  <2>3. QED
    BY <1>3, <2>2 DEF Snooze, is_firing
<1>4. ASSUME AdvanceEscalation PROVE UNCHANGED Contract!contractVars
  BY <1>4 DEF AdvanceEscalation, is_firing
<1>5. ASSUME CheckSnoozeRefire PROVE Contract!TakeBack
  BY <1>5 DEF CheckSnoozeRefire, is_firing
<1>6. ASSUME \/ EventIgnored \/ AdvanceFallback \/ Elapse \/ SourceStops
             \/ \E m \in UserMedia : UserPlays(m)
             \/ UNCHANGED vars
      PROVE  UNCHANGED Contract!contractVars
  BY <1>6 DEF EventIgnored, AdvanceFallback, Elapse, SourceStops, UserPlays, vars, fsm, is_firing
<1>7. ASSUME Crash PROVE Contract!End \/ UNCHANGED Contract!contractVars
  <2>1. CASE is_active
    BY <1>7, <2>1, <1>r DEF Crash, is_firing
  <2>2. CASE ~is_active
    BY <1>7, <2>2, <1>r DEF Crash, is_firing, TypeOK
  <2>3. QED
    BY <2>1, <2>2
<1>8. QED
  BY <1>1, <1>2, <1>3, <1>4, <1>5, <1>6, <1>7
  DEF Next, OnTick, Dismiss, ChainExhausted, SourceFailed, is_firing, is_active

\* Every behaviour of the episode is one of the contract: one episode at a
\* time, snoozed no more often than its alarm allows, ended once.
THEOREM EpisodeKeepsContract ==
  Spec => Contract!Init /\ [][Contract!Next]_(Contract!contractVars)
<1>1. Init => Contract!Init
  BY DEF Init, Contract!Init, is_firing
<1>2. QED
  BY <1>1, InitType, StepType, ContractStep, PTL DEF Spec
=============================================================================
