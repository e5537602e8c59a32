----------------------- MODULE ZoneStateMachineProofs -----------------------
(***************************************************************************)
(* Proofs about one zone, for every MaxAge and every set of settings: the  *)
(* invariants of ZoneStateMachine, its two action properties, and that it  *)
(* implements StoveGuard; then about the zone together with its cameras    *)
(* (DetectedZone), for every set of them, that all of this still holds,    *)
(* and the two properties of the smoothing.                                *)
(***************************************************************************)
EXTENDS DetectedZone, FiniteSetTheorems, TLAPS

\* The values of Rank, spelled out once for the provers.
LEMMA RankValues ==
  /\ Rank["idle"] = 0 /\ Rank["active_with_person"] = 0
  /\ Rank["active_no_person"] = 1 /\ Rank["warning"] = 2
  /\ Rank["alarm"] = 3 /\ Rank["cutoff"] = 4 /\ Rank["temp_alarm"] = 0
  /\ \A s \in ZoneStates : Rank[s] \in 0 .. 4
BY DEF Rank, ZoneStates

\* What the counting branch of update() makes of a zone.
LEMMA UnattendedEffect ==
  ASSUME NEW z \in Zones, NEW cfg \in AlarmConfigs
  PROVE  /\ Unattended(z, cfg) \in Zones
         /\ Unattended(z, cfg).timer = IF z.timer = NotStarted THEN 0 ELSE z.timer
         /\ \/ Unattended(z, cfg).state = z.state
            \/ /\ Unattended(z, cfg).state = Stage(cfg, Unattended(z, cfg).timer)
               /\ Rank[Unattended(z, cfg).state] > Rank[z.state]
         /\ Rank[Unattended(z, cfg).state] >= Rank[z.state]
         /\ Rank[Unattended(z, cfg).state] > 0
<1> DEFINE age == IF z.timer = NotStarted THEN 0 ELSE z.timer
           st  == IF Rank[Stage(cfg, age)] > Rank[z.state]
                  THEN Stage(cfg, age) ELSE z.state
<1>1. age \in Timers
  BY MaxAgeAssumption DEF Zones, Timers, Ages, NotStarted
<1>2. Stage(cfg, age) \in ZoneStates /\ Rank[Stage(cfg, age)] \in 1 .. 4
  BY RankValues DEF Stage, ZoneStates
<1>3. z.state \in ZoneStates /\ Rank[z.state] \in 0 .. 4
  BY RankValues DEF Zones
<1>4. /\ st \in ZoneStates
      /\ st = z.state \/ (st = Stage(cfg, age) /\ Rank[st] > Rank[z.state])
      /\ Rank[st] >= Rank[z.state] /\ Rank[st] > 0
  BY <1>2, <1>3
<1>5. Unattended(z, cfg) = [z EXCEPT !.timer = age, !.state = st]
  BY DEF Unattended
<1> HIDE DEF age, st
<1>6. /\ Unattended(z, cfg) \in Zones
      /\ Unattended(z, cfg).timer = age
      /\ Unattended(z, cfg).state = st
  BY <1>1, <1>4, <1>5 DEF Zones
<1> QED
  BY <1>4, <1>6 DEF age

\* The five outcomes of update(): overheated, released, held, attended or
\* counting, with what each leaves in the state and in the timer.
Overheats(z, n) == n.state = "temp_alarm" /\ n.timer = z.timer
Releases(n) == n.state = "idle" /\ n.timer = NotStarted
Holds(z, n, obs) ==
  /\ n.state = z.state /\ n.timer = z.timer
  /\ \/ z.state = "temp_alarm" /\ ~obs.has_person
     \/ z.state = "cutoff" /\ ~obs.has_person /\ obs.is_fire_on
Attends(n, obs) ==
  obs.has_person /\ n.state = "active_with_person" /\ n.timer = NotStarted
Counted(z, n, obs, cfg) ==
  /\ z.state \notin {"temp_alarm", "cutoff"} /\ ~obs.has_person /\ obs.is_fire_on
  /\ n.timer = IF z.timer = NotStarted THEN 0 ELSE z.timer
  /\ \/ n.state = z.state
     \/ n.state = Stage(cfg, n.timer) /\ Rank[n.state] > Rank[z.state]
  /\ Rank[n.state] >= Rank[z.state] /\ Rank[n.state] > 0

\* update() has five kinds of outcome: overheated, released to rest, latched as it
\* was, attended, or counted as unattended.
LEMMA AfterUpdateOutcomes ==
  ASSUME NEW z \in Zones, NEW obs \in Observations,
         NEW cfg \in AlarmConfigs, NEW cr \in BOOLEAN,
         NEW n, n = AfterUpdate(z, obs, cfg, cr)
  PROVE  /\ n \in Zones
         /\ \/ Overheats(z, n) \/ Releases(n) \/ Holds(z, n, obs)
            \/ Attends(n, obs) \/ Counted(z, n, obs, cfg)
<1> DEFINE seen == [z EXCEPT !.has_person = obs.has_person,
                             !.is_fire_on = obs.is_fire_on]
<1>1. seen \in Zones /\ seen.state = z.state /\ seen.timer = z.timer
  BY DEF Zones, Observations
<1>2. n = IF Overheated(obs)                THEN [seen EXCEPT !.state = "temp_alarm"]
          ELSE IF Released(z, obs, cr)      THEN AtRest(seen)
          ELSE IF Latched(z)                THEN seen
          ELSE IF obs.has_person            THEN Attended(seen)
          ELSE Unattended(seen, cfg)
  BY DEF AfterUpdate
<1> HIDE DEF seen
<1>3. CASE Overheated(obs)
  BY <1>1, <1>2, <1>3 DEF Zones, ZoneStates, Overheats
<1>4. CASE ~Overheated(obs) /\ Released(z, obs, cr)
  BY <1>1, <1>2, <1>4 DEF AtRest, Zones, ZoneStates, Timers, Releases
<1>5. CASE ~Overheated(obs) /\ ~Released(z, obs, cr) /\ Latched(z)
  BY <1>1, <1>2, <1>5 DEF Latched, Released, Holds
<1>6. CASE ~Overheated(obs) /\ ~Released(z, obs, cr) /\ ~Latched(z) /\ obs.has_person
  BY <1>1, <1>2, <1>6 DEF AtRest, Attended, Zones, ZoneStates, Timers, Attends
<1>7. CASE ~Overheated(obs) /\ ~Released(z, obs, cr) /\ ~Latched(z) /\ ~obs.has_person
  <2>1. n = Unattended(seen, cfg)
    BY <1>2, <1>7
  <2> QED
    BY <1>1, <1>7, <2>1, UnattendedEffect DEF Latched, Released, Counted
<1> QED
  BY <1>3, <1>4, <1>5, <1>6, <1>7

\* What force_idle() and reset() make of a zone.
LEMMA RestEffect ==
  ASSUME NEW z \in Zones
  PROVE  /\ AtRest(z) \in Zones
         /\ AtRest(z).state = "idle" /\ AtRest(z).timer = NotStarted
BY DEF AtRest, Zones, ZoneStates, Timers

\* The countdown fields served to the clients are never negative nor beyond MaxAge.
LEMMA CountdownType ==
  ASSUME NEW cfg \in AlarmConfigs, NEW d \in Ages
  PROVE  Countdown(cfg, d) \in Shown
BY MaxAgeAssumption DEF Countdown, Remaining, Shown, AlarmConfigs, Ages

\* A timer stays a timer when time passes.
LEMMA OlderType ==
  /\ \A t \in Timers : Older(t) \in Timers
  /\ \A t \in Ages : Older(t) \in Ages /\ Older(t) >= t
BY MaxAgeAssumption DEF Older, Timers, Ages, NotStarted

-----------------------------------------------------------------------------
\* The history variables stay well typed through every recorded call.
LEMMA RecordType ==
  ASSUME NEW z, NEW restart, Record(z, restart),
         absence \in Ages, called \subseteq AlarmStates
  PROVE  absence' \in Ages /\ called' \subseteq AlarmStates
BY MaxAgeAssumption DEF Record, Raises, Ages

\* TypeOK is inductive.
LEMMA TypeStep == TypeOK /\ [Next]_vars => TypeOK'
<1> SUFFICES ASSUME TypeOK, [Next]_vars PROVE TypeOK'
  OBVIOUS
<1> USE ConfigsAssumption DEF TypeOK
<1>0. alarm_config \in AlarmConfigs /\ Cleared \in Shown /\ 0 \in Ages
  <2>1. 0 \in Ages
    BY MaxAgeAssumption DEF Ages
  <2> QED
    BY <2>1 DEF Cleared, Shown
<1>1. ASSUME NEW obs \in Observations, Update(obs) PROVE TypeOK'
  <2>1. /\ zone' \in Zones
        /\ Counts(obs) => zone'.timer \in Ages
    <3>1. zone' \in Zones
      BY <1>0, <1>1, AfterUpdateOutcomes DEF Update
    <3>2. ASSUME Counts(obs) PROVE zone'.timer \in Ages
      <4> DEFINE seen == [zone EXCEPT !.has_person = obs.has_person,
                                      !.is_fire_on = obs.is_fire_on]
      <4>1. zone' = Unattended(seen, alarm_config)
        BY <1>1, <3>2 DEF Update, AfterUpdate, Counts
      <4>2. seen \in Zones
        BY DEF Zones, Observations
      <4> HIDE DEF seen
      <4>3. zone'.timer = IF seen.timer = NotStarted THEN 0 ELSE seen.timer
        BY <1>0, <4>1, <4>2, UnattendedEffect
      <4> QED
        BY <1>0, <4>2, <4>3 DEF Zones, Timers
    <3> QED
      BY <3>1, <3>2
  <2>2. shown' \in Shown
    BY <1>0, <1>1, <2>1, CountdownType DEF Update
  <2>3. can_reset' \in BOOLEAN /\ alarm_config' \in Configs
    BY <1>1 DEF Update
  <2>4. absence' \in Ages /\ called' \subseteq AlarmStates
    BY <1>1, RecordType DEF Update
  <2> QED
    BY <2>1, <2>2, <2>3, <2>4
<1>2. CASE ForceIdle
  BY <1>0, <1>2, RestEffect, RecordType DEF ForceIdle, AfterForceIdle
<1>3. CASE Reset
  BY <1>0, <1>3, RestEffect, RecordType DEF Reset, AfterReset
<1>4. ASSUME NEW b \in BOOLEAN, SetFireState(b) PROVE TypeOK'
  BY <1>4 DEF SetFireState, Zones
<1>5. CASE GetStatus
  <2>1. zone.timer # NotStarted => zone.timer \in Ages
    BY DEF Zones, Timers
  <2> QED
    BY <1>0, <1>5, <2>1, CountdownType DEF GetStatus
<1>6. CASE Tick
  <2>1. Older(zone.timer) \in Timers /\ Older(absence) \in Ages
    BY OlderType DEF Zones
  <2> QED
    BY <1>6, <2>1 DEF Tick, Zones
<1>7. ASSUME NEW cfg \in Configs, UpdateSettings(cfg) PROVE TypeOK'
  BY <1>7 DEF UpdateSettings
<1>8. CASE CurrentReading
  BY <1>8 DEF CurrentReading
<1>9. CASE UNCHANGED vars
  BY <1>9 DEF vars
<1> QED
  BY <1>1, <1>2, <1>3, <1>4, <1>5, <1>6, <1>7, <1>8, <1>9 DEF Next

\* A new state machine is well typed.
LEMMA InitTypeOK == Init => TypeOK
<1>1. 0 \in Ages /\ NewZone \in Zones
  BY MaxAgeAssumption DEF Ages, NewZone, Zones, ZoneStates, Timers, NotStarted
<1> SUFFICES ASSUME Init PROVE TypeOK
  OBVIOUS
<1>2. zone \in Zones /\ absence \in Ages /\ alarm_config \in Configs
  BY <1>1 DEF Init
<1>3. shown \in Shown
  BY <1>1 DEF Init, Shown
<1>4. can_reset \in BOOLEAN /\ called \subseteq AlarmStates
  BY DEF Init
<1> QED
  BY <1>2, <1>3, <1>4 DEF TypeOK

\* Every reachable state is well typed.
THEOREM TypeCorrect == Spec => []TypeOK
BY InitTypeOK, TypeStep, PTL DEF Spec

-----------------------------------------------------------------------------
(***************************************************************************)
(* The safety invariants.  Each is inductive together with TypeOK; the     *)
(* conjunction is what the action properties and the refinement rest on.   *)
(***************************************************************************)
IInv == TypeOK /\ TimerMatchesState /\ TimerNeverOverstates
          /\ CallbacksBelowState

\* A call that left the zone as n, at rest, re-establishes the invariants.
LEMMA RestInv ==
  ASSUME NEW restart, Record(zone', restart), absence \in Ages,
         zone'.state \in {"idle", "active_with_person"},
         zone'.state = "idle" \/ restart,
         zone'.timer = NotStarted
  PROVE  TimerMatchesState' /\ TimerNeverOverstates' /\ CallbacksBelowState'
<1>1. absence' = 0 /\ called' = {}
  BY DEF Record
<1>2. Rank[zone'.state] = 0
  BY RankValues
<1> QED
  BY <1>1, <1>2 DEF TimerMatchesState, TimerNeverOverstates,
                    CallbacksBelowState, NotStarted

\* A call of update() keeps the inductive invariant, outcome by outcome.
LEMMA UpdateInv ==
  ASSUME IInv, NEW obs \in Observations, Update(obs)
  PROVE  TimerMatchesState' /\ TimerNeverOverstates' /\ CallbacksBelowState'
<1> DEFINE restart == obs.has_person \/ ~obs.is_fire_on
<1>1. /\ alarm_config \in AlarmConfigs /\ zone \in Zones /\ absence \in Ages
      /\ called \subseteq AlarmStates
  BY ConfigsAssumption DEF IInv, TypeOK
<1>2. Record(zone', restart)
  BY DEF Update
<1>3. /\ zone' \in Zones
      /\ \/ Overheats(zone, zone') \/ Releases(zone')
         \/ Holds(zone, zone', obs) \/ Attends(zone', obs)
         \/ Counted(zone, zone', obs, alarm_config)
  BY <1>1, AfterUpdateOutcomes DEF Update, IInv, TypeOK
<1>4. CASE Overheats(zone, zone')
  BY <1>4, RankValues DEF Overheats, TimerMatchesState, TimerNeverOverstates,
                          CallbacksBelowState
<1>5. CASE Releases(zone')
  BY <1>1, <1>2, <1>5, RestInv DEF Releases
<1>6. CASE Holds(zone, zone', obs)
  <2>1. CASE zone.state = "temp_alarm"
    BY <1>6, <2>1, RankValues DEF Holds, TimerMatchesState,
       TimerNeverOverstates, CallbacksBelowState
  <2>2. CASE zone.state = "cutoff" /\ ~restart
    <3>1. absence' = absence /\ called' = called
      BY <1>2, <1>6, <2>2 DEF Record, Raises, Holds
    <3> QED
      BY <1>6, <2>2, <3>1, RankValues DEF IInv, Holds, TimerMatchesState,
         TimerNeverOverstates, CallbacksBelowState
  <2> QED
    BY <1>6, <2>1, <2>2 DEF Holds
<1>7. CASE Attends(zone', obs)
  BY <1>1, <1>2, <1>7, RestInv DEF Attends
<1>8. CASE Counted(zone, zone', obs, alarm_config)
  <2>1. /\ absence' = absence
        /\ zone'.timer # NotStarted
        /\ zone'.timer <= absence
    BY <1>1, <1>2, <1>8, RankValues
       DEF Counted, Record, IInv, TimerNeverOverstates, Zones, Timers, Ages,
           NotStarted
  <2>2. \A s \in called' \cap Stages : Rank[s] <= Rank[zone'.state]
    <3>1. called' \subseteq called \cup {zone'.state}
      BY <1>2 DEF Record
    <3>2. \A s \in called \cap Stages : Rank[s] <= Rank[zone.state]
      BY <1>8 DEF Counted, IInv, CallbacksBelowState
    <3>3. \A s \in Stages : Rank[s] \in 0 .. 4
      BY RankValues DEF Stages
    <3>4. Rank[zone.state] \in 0 .. 4 /\ Rank[zone'.state] \in 0 .. 4
      BY <1>1, <1>3, RankValues DEF Zones
    <3>5. Rank[zone.state] <= Rank[zone'.state]
      BY <1>8, <3>4 DEF Counted
    <3> QED
      BY <3>1, <3>2, <3>3, <3>4, <3>5
  <2> QED
    BY <1>8, <2>1, <2>2, RankValues
       DEF Counted, TimerMatchesState, TimerNeverOverstates, CallbacksBelowState
<1> QED
  BY <1>3, <1>4, <1>5, <1>6, <1>7, <1>8

\* The invariants hold initially and every step keeps them.
LEMMA InitInv == Init => IInv
<1> SUFFICES ASSUME Init PROVE IInv
  OBVIOUS
<1>1. TypeOK
  BY InitTypeOK
<1>2. /\ zone.state = "idle" /\ zone.timer = NotStarted /\ absence = 0
      /\ called = {} /\ Rank["idle"] = 0
  BY RankValues DEF Init, NewZone
<1> QED
  BY <1>1, <1>2 DEF IInv, TimerMatchesState, TimerNeverOverstates,
                    CallbacksBelowState, NotStarted

\* Every operation keeps the inductive invariant.
LEMMA InvStep == IInv /\ [Next]_vars => IInv'
<1> SUFFICES ASSUME IInv, [Next]_vars
             PROVE  TimerMatchesState' /\ TimerNeverOverstates' /\ CallbacksBelowState'
  BY TypeStep DEF IInv
<1>0. zone \in Zones /\ absence \in Ages
  BY DEF IInv, TypeOK
<1>1. ASSUME NEW obs \in Observations, Update(obs)
      PROVE  TimerMatchesState' /\ TimerNeverOverstates' /\ CallbacksBelowState'
  BY <1>1, UpdateInv
<1>2. ASSUME zone'.state = zone.state, zone'.timer = zone.timer,
             UNCHANGED <<absence, called>>
      PROVE  TimerMatchesState' /\ TimerNeverOverstates' /\ CallbacksBelowState'
  BY <1>2 DEF IInv, TimerMatchesState, TimerNeverOverstates, CallbacksBelowState
<1>3. CASE ForceIdle
  <2>1. CASE zone.state = "idle"
    BY <1>2, <1>3, <2>1 DEF ForceIdle, AfterForceIdle
  <2>2. CASE zone.state # "idle"
    BY <1>0, <1>3, <2>2, RestEffect, RestInv DEF ForceIdle, AfterForceIdle
  <2> QED
    BY <2>1, <2>2
<1>4. CASE Reset
  <2>1. CASE Resettable(zone)
    BY <1>0, <1>4, <2>1, RestEffect, RestInv DEF Reset, AfterReset
  <2>2. CASE ~Resettable(zone)
    BY <1>2, <1>4, <2>2 DEF Reset, AfterReset
  <2> QED
    BY <2>1, <2>2
<1>5. ASSUME NEW b \in BOOLEAN, SetFireState(b)
      PROVE  TimerMatchesState' /\ TimerNeverOverstates' /\ CallbacksBelowState'
  BY <1>0, <1>2, <1>5 DEF SetFireState, Zones
<1>6. CASE Tick
  <2>1. zone'.state = zone.state /\ zone'.timer = Older(zone.timer)
    BY <1>0, <1>6 DEF Tick, Zones
  <2>2. zone.timer <= absence => Older(zone.timer) <= Older(absence)
    BY <1>0, MaxAgeAssumption DEF Older, Zones, Timers, Ages, NotStarted
  <2>3. Older(zone.timer) = NotStarted <=> zone.timer = NotStarted
    BY <1>0, MaxAgeAssumption DEF Older, Zones, Timers, Ages, NotStarted
  <2> QED
    BY <1>6, <2>1, <2>2, <2>3
       DEF Tick, IInv, TimerMatchesState, TimerNeverOverstates, CallbacksBelowState
<1>7. CASE GetStatus \/ CurrentReading \/ UNCHANGED vars
  BY <1>2, <1>7 DEF GetStatus, CurrentReading, vars
<1>8. ASSUME NEW cfg \in Configs, UpdateSettings(cfg)
      PROVE  TimerMatchesState' /\ TimerNeverOverstates' /\ CallbacksBelowState'
  BY <1>2, <1>8 DEF UpdateSettings
<1> QED
  BY <1>1, <1>3, <1>4, <1>5, <1>6, <1>7, <1>8 DEF Next

\* Every reachable state satisfies the inductive invariant.
THEOREM Invariance == Spec => []IInv
BY InitInv, InvStep, PTL DEF Spec

\* A zone counts an absence exactly while it is on the ladder, through every
\* sequence of update, force_idle, reset and setting changes.
THEOREM TimerMatches == Spec => []TimerMatchesState
<1>1. IInv => TimerMatchesState
  BY DEF IInv
<1> QED
  BY <1>1, Invariance, PTL

\* The timer of a zone never claims more absence than there was, except under
\* a temperature alarm.
THEOREM TimerIsHonest == Spec => []TimerNeverOverstates
<1>1. IInv => TimerNeverOverstates
  BY DEF IInv
<1> QED
  BY <1>1, Invariance, PTL

\* The callbacks of an absence never outrun the state they announced.
THEOREM CallbacksAreBelow == Spec => []CallbacksBelowState
<1>1. IInv => CallbacksBelowState
  BY DEF IInv
<1> QED
  BY <1>1, Invariance, PTL

-----------------------------------------------------------------------------
(***************************************************************************)
(* The action properties and the refinement.                               *)
(***************************************************************************)
\* Only update() takes a zone up to a stage, and what it then is.
LEMMA StageEntry ==
  ASSUME IInv, [Next]_vars, NEW s \in Stages, zone'.state = s, zone.state # s
  PROVE  /\ \E obs \in Observations :
               /\ Update(obs)
               /\ Counted(zone, zone', obs, alarm_config)
         /\ s = Stage(alarm_config, zone'.timer)
         /\ Rank[s] > Rank[zone.state]
         /\ zone'.timer \in Ages /\ zone'.timer <= absence
         /\ absence' = absence
<1>1. /\ alarm_config \in AlarmConfigs /\ zone \in Zones /\ absence \in Ages
      /\ called \subseteq AlarmStates
  BY ConfigsAssumption DEF IInv, TypeOK
<1>2. s \notin {"idle", "active_with_person", "temp_alarm"}
  BY DEF Stages
<1>3. PICK obs \in Observations : Update(obs)
  <2>1. ~ForceIdle /\ ~Reset
    BY <1>1, <1>2, RestEffect DEF ForceIdle, AfterForceIdle, Reset, AfterReset
  <2>2. ~(\E b \in BOOLEAN : SetFireState(b)) /\ ~Tick
    BY <1>1 DEF SetFireState, Tick, Zones
  <2>3. ~GetStatus /\ ~CurrentReading /\ ~(UNCHANGED vars)
        /\ ~(\E cfg \in Configs : UpdateSettings(cfg))
    BY DEF GetStatus, CurrentReading, UpdateSettings, vars
  <2> QED
    BY <2>1, <2>2, <2>3 DEF Next
<1>4. /\ zone' \in Zones
      /\ \/ Overheats(zone, zone') \/ Releases(zone')
         \/ Holds(zone, zone', obs) \/ Attends(zone', obs)
         \/ Counted(zone, zone', obs, alarm_config)
  BY <1>1, <1>3, AfterUpdateOutcomes DEF Update, IInv, TypeOK
<1>5. Counted(zone, zone', obs, alarm_config)
  BY <1>2, <1>4 DEF Overheats, Releases, Holds, Attends
<1>6. s = Stage(alarm_config, zone'.timer) /\ Rank[s] > Rank[zone.state]
  BY <1>5 DEF Counted
<1>7. zone'.timer \in Ages /\ zone'.timer <= absence
  BY <1>1, <1>5, MaxAgeAssumption
     DEF Counted, IInv, TimerNeverOverstates, Zones, Timers, Ages, NotStarted
<1>8. absence' = absence
  BY <1>2, <1>3, <1>5 DEF Update, Record, Counted
<1> QED
  BY <1>3, <1>5, <1>6, <1>7, <1>8

\* The thresholds are met by the timer of the stage that is entered.
LEMMA StageMet ==
  ASSUME NEW cfg \in AlarmConfigs, NEW d \in Ages
  PROVE  /\ Stage(cfg, d) = "warning" => d >= cfg.warning_time
         /\ Stage(cfg, d) = "alarm"   => d >= cfg.alarm_time
         /\ Stage(cfg, d) = "cutoff"  => d >= cfg.action_time
BY DEF Stage

\* The time a stage is set to.
Limit(s) == CASE s = "warning" -> alarm_config.warning_time
              [] s = "alarm"   -> alarm_config.alarm_time
              [] s = "cutoff"  -> alarm_config.action_time

LEMMA EarlyStep ==
  ASSUME IInv, [Next]_vars, NEW s \in Stages, zone'.state = s, zone.state # s
  PROVE  absence >= Limit(s)
<1>1. /\ alarm_config \in AlarmConfigs /\ absence \in Ages
      /\ zone'.timer \in Ages /\ zone'.timer <= absence
      /\ s = Stage(alarm_config, zone'.timer)
  BY StageEntry, ConfigsAssumption DEF IInv, TypeOK
<1>2. /\ s = "warning" => zone'.timer >= alarm_config.warning_time
      /\ s = "alarm"   => zone'.timer >= alarm_config.alarm_time
      /\ s = "cutoff"  => zone'.timer >= alarm_config.action_time
  BY <1>1, StageMet
<1>3. /\ alarm_config.warning_time \in Ages
      /\ alarm_config.alarm_time \in Ages
      /\ alarm_config.action_time \in Ages
  BY <1>1 DEF AlarmConfigs
<1>4. Limit(s) \in Ages /\ zone'.timer >= Limit(s)
  BY <1>2, <1>3 DEF Stages, Limit
<1> QED
  BY <1>1, <1>4, MaxAgeAssumption DEF Ages

LEMMA OnceStep ==
  ASSUME IInv, [Next]_vars, NEW s \in Stages, zone'.state = s, zone.state # s
  PROVE  s \notin called
<1>1. Rank[s] > Rank[zone.state] /\ zone.state # "temp_alarm"
  BY StageEntry DEF Counted
<1>2. Rank[s] \in 0 .. 4 /\ Rank[zone.state] \in 0 .. 4
  BY RankValues DEF Stages, IInv, TypeOK, Zones
<1> QED
  BY <1>1, <1>2 DEF IInv, CallbacksBelowState

\* No warning, alarm or cut-off before its time, for every setting and every
\* sequence of calls.
THEOREM NeverEarly == Spec => NoEarlyEscalation
<1>1. IInv /\ [Next]_vars
        => [\A s \in Stages : zone'.state = s /\ zone.state # s
                              => absence >= Limit(s)]_vars
  BY EarlyStep
<1> QED
  BY <1>1, Invariance, PTL DEF Spec, NoEarlyEscalation, Limit

\* Each callback runs at most once between two rests of the zone.
THEOREM CalledOnce == Spec => OneCallbackPerAbsence
<1>1. IInv /\ [Next]_vars
        => [\A s \in Stages : zone'.state = s /\ zone.state # s
                              => s \notin called]_vars
  BY OnceStep
<1> QED
  BY <1>1, Invariance, PTL DEF Spec, OneCallbackPerAbsence

\* Every update is a step of the ladder, or none.
LEMMA UpdateImplements ==
  ASSUME IInv, IInv', [Next]_vars, NEW obs \in Observations, Update(obs)
  PROVE  [Guard!Next]_Guard!vars
<1>1. /\ alarm_config \in AlarmConfigs /\ zone \in Zones /\ zone' \in Zones
      /\ alarm_config' = alarm_config /\ absence \in Ages
  BY ConfigsAssumption DEF IInv, TypeOK, Update
<1>2. \/ Overheats(zone, zone') \/ Releases(zone')
      \/ Holds(zone, zone', obs) \/ Attends(zone', obs)
      \/ Counted(zone, zone', obs, alarm_config)
  BY <1>1, AfterUpdateOutcomes DEF Update, IInv, TypeOK
<1>3. Record(zone', obs.has_person \/ ~obs.is_fire_on)
  BY DEF Update
<1>4. CASE zone'.state = "temp_alarm"
  <2>1. Level' = "overheated" /\ absence' \in {absence, 0}
    BY <1>3, <1>4 DEF Level, Record
  <2> QED
    BY <1>1, <2>1 DEF Guard!Next, Guard!Overheat
<1>5. CASE zone'.state = "idle" \/ Attends(zone', obs)
  <2>1. Level' = "rest" /\ absence' = 0
    BY <1>3, <1>5 DEF Level, Record, Attends
  <2> QED
    BY <1>1, <2>1 DEF Guard!Next, Guard!Rest
<1>6. CASE Holds(zone, zone', obs) /\ zone.state = "cutoff"
  BY <1>1, <1>3, <1>6 DEF Holds, Record, Level, Guard!vars
<1>7. CASE /\ Counted(zone, zone', obs, alarm_config)
           /\ zone'.state \notin {"idle", "temp_alarm"}
  <2>1. absence' = absence
    BY <1>3, <1>7 DEF Counted, Record
  <2>2. CASE zone'.state = zone.state
    BY <1>1, <2>1, <2>2 DEF Level, Guard!vars
  <2>3. CASE zone'.state # zone.state
    <3>1. /\ Rank[zone'.state] > Rank[zone.state]
          /\ zone'.state = Stage(alarm_config, zone'.timer)
          /\ zone.state # "temp_alarm"
      BY <1>7, <2>3 DEF Counted
    <3>2. zone'.state \in {"active_no_person", "warning", "alarm", "cutoff"}
      BY <3>1 DEF Stage
    <3>3. absence >= Guard!Needs(Level')
      <4>1. CASE zone'.state = "active_no_person"
        <5>1. Guard!Needs(Level') = 0
          BY <4>1 DEF Level, Guard!Needs
        <5> QED
          BY <1>1, <5>1, MaxAgeAssumption DEF Ages
      <4>2. CASE zone'.state \in Stages
        <5>1. zone'.timer \in Ages /\ zone'.timer <= absence
          BY <2>3, <4>2, StageEntry
        <5>2. /\ zone'.state = "warning" => zone'.timer >= alarm_config.warning_time
              /\ zone'.state = "alarm"   => zone'.timer >= alarm_config.alarm_time
              /\ zone'.state = "cutoff"  => zone'.timer >= alarm_config.action_time
          BY <1>1, <3>1, <5>1, StageMet
        <5>3. Guard!Needs(Level') \in Ages /\ zone'.timer >= Guard!Needs(Level')
          BY <1>1, <4>2, <5>2 DEF Stages, Level, Guard!Needs, AlarmConfigs
        <5> QED
          BY <1>1, <5>1, <5>3, MaxAgeAssumption DEF Ages
      <4> QED
        BY <3>2, <4>1, <4>2 DEF Stages
    <3>4. Level # "overheated" /\ Guard!Order[Level'] > Guard!Order[Level]
      <4>1. zone.state \in ZoneStates
        BY <1>1 DEF Zones
      <4>2. /\ Level \in Guard!Levels /\ Level # "overheated"
            /\ Guard!Order[Level] = Rank[zone.state]
        BY <3>1, <4>1, RankValues DEF Level, ZoneStates, Guard!Levels, Guard!Order
      <4>3. Guard!Order[Level'] = Rank[zone'.state]
        BY <3>2, RankValues DEF Level, Guard!Levels, Guard!Order
      <4> QED
        BY <3>1, <4>2, <4>3
    <3>5. Level' \in {"timing", "warning", "alarm", "cutoff"}
      BY <3>2 DEF Level
    <3> QED
      BY <1>1, <2>1, <3>3, <3>4, <3>5 DEF Guard!Next, Guard!Climb
  <2> QED
    BY <2>2, <2>3
<1> QED
  BY <1>2, <1>4, <1>5, <1>6, <1>7 DEF Overheats, Releases, Holds

\* A new zone is at rest.
LEMMA GuardInit == Init => Guard!Init
<1>1. Init => NewZone.state = "idle"
  BY DEF NewZone
<1> QED
  BY <1>1 DEF Init, Guard!Init, Level

\* Every step of the zone is a step of the ladder, or none.
LEMMA GuardStep ==
  ASSUME IInv, IInv', [Next]_vars
  PROVE  [Guard!Next]_Guard!vars
<1>0. zone \in Zones /\ alarm_config' \in Configs /\ MaxAge \in Nat
  BY MaxAgeAssumption DEF IInv, TypeOK
<1>1. ASSUME NEW obs \in Observations, Update(obs)
      PROVE  [Guard!Next]_Guard!vars
  BY <1>1, UpdateImplements
<1>2. ASSUME zone'.state = "idle", Record(zone', FALSE), UNCHANGED alarm_config
      PROVE  [Guard!Next]_Guard!vars
  BY <1>2 DEF Record, Level, Guard!Next, Guard!Rest
<1>3. ASSUME zone'.state = zone.state, UNCHANGED <<absence, alarm_config>>
      PROVE  [Guard!Next]_Guard!vars
  BY <1>3 DEF Level, Guard!vars
<1>4. CASE ForceIdle
  BY <1>0, <1>2, <1>3, <1>4, RestEffect DEF ForceIdle, AfterForceIdle
<1>5. CASE Reset
  BY <1>0, <1>2, <1>3, <1>5, RestEffect DEF Reset, AfterReset
<1>6. ASSUME NEW b \in BOOLEAN, SetFireState(b) PROVE [Guard!Next]_Guard!vars
  BY <1>0, <1>3, <1>6 DEF SetFireState, Zones
<1>7. CASE Tick
  <2>1. zone'.state = zone.state
    BY <1>0, <1>7 DEF Tick, Zones
  <2>2. absence # NotStarted
    BY <1>0 DEF IInv, TypeOK, Ages, NotStarted
  <2> QED
    BY <1>7, <2>1, <2>2 DEF Tick, Older, Level, Guard!Next, Guard!Wait
<1>8. CASE GetStatus \/ CurrentReading \/ UNCHANGED vars
  BY <1>3, <1>8 DEF GetStatus, CurrentReading, vars
<1>9. ASSUME NEW cfg \in Configs, UpdateSettings(cfg)
      PROVE  [Guard!Next]_Guard!vars
  BY <1>0, <1>9 DEF UpdateSettings, Level, Guard!Next, Guard!Configure
<1> QED
  BY <1>1, <1>4, <1>5, <1>6, <1>7, <1>8, <1>9 DEF Next

\* The zone state machine implements the escalation ladder: every operation,
\* in every state and for every setting, is a step of StoveGuard or none.
THEOREM Refinement == Spec => ImplementsGuard
<1>1. IInv /\ IInv' /\ [Next]_vars => [Guard!Next]_Guard!vars
  BY GuardStep
<1> QED
  BY <1>1, GuardInit, Invariance, PTL DEF Spec, ImplementsGuard, Guard!Spec

-----------------------------------------------------------------------------
(***************************************************************************)
(* What the detector keeps of the frames of one camera.                    *)
(***************************************************************************)
\* The k frames last kept all say b.
EndsIn(recent, k, b) ==
  k <= Len(recent) /\ \A j \in 0 .. k - 1 : recent[Len(recent) - j] = b

\* A window w, with n frames in a row without a person and s passes in a row with one:
\* somebody in every frame the window must hold cannot be overlooked, and nobody in
\* every one of them has been counted.
Sane(w, th, n, s) ==
  /\ w \in [recent: Seq(BOOLEAN), present: BOOLEAN]
  /\ Len(w.recent) <= MaxLen(th)
  /\ n \in 0 .. MaxLen(th) /\ s \in 0 .. MaxLen(th)
  /\ EndsIn(w.recent, s, TRUE)
  /\ \A k \in 0 .. Len(w.recent) : EndsIn(w.recent, k, FALSE) => n >= k
  /\ w.present => Count(w.recent, FALSE) < th.no_person
  /\ s >= th.person_present => w.present

LEMMA MaxLenIsLonger ==
  ASSUME NEW th \in DetectionConfigs
  PROVE  /\ MaxLen(th) \in Nat \ {0}
         /\ th.no_person \in Nat \ {0} /\ th.person_present \in Nat \ {0}
         /\ th.no_person <= MaxLen(th) /\ th.person_present <= MaxLen(th)
         /\ MaxLen(th) = th.no_person \/ MaxLen(th) = th.person_present
  BY DEF DetectionConfigs, MaxLen

\* The window q is r with b put behind, and of at most m frames.
Slides(r, b, q, m) ==
  /\ Len(q) = IF Len(r) < m THEN Len(r) + 1 ELSE Len(r)
  /\ Len(q) \in 1 .. m
  /\ q[Len(q)] = b
  /\ \A j \in 1 .. Len(q) - 1 :
       Len(r) - j + 1 \in 1 .. Len(r) /\ q[Len(q) - j] = r[Len(r) - j + 1]

LEMMA KeptWindow ==
  ASSUME NEW S, NEW th \in DetectionConfigs, NEW r \in Seq(S), Len(r) <= MaxLen(th),
         NEW b \in S, NEW q, q = Kept(Append(r, b), th)
  PROVE  q \in Seq(S) /\ Slides(r, b, q, MaxLen(th))
<1>1. PICK m \in Nat \ {0} : m = MaxLen(th)
  BY MaxLenIsLonger
<1>2. PICK a : a = Append(r, b)
  OBVIOUS
<1>3. /\ a \in Seq(S) /\ Len(a) = Len(r) + 1 /\ Len(r) \in Nat
      /\ a[Len(a)] = b /\ \A i \in 1 .. Len(r) : a[i] = r[i]
  BY <1>2
<1>4. CASE Len(r) < m
  <2>1. q = a
    BY <1>1, <1>2, <1>3, <1>4 DEF Kept
  <2> QED
    BY <1>1, <1>3, <1>4, <2>1 DEF Slides
<1>5. CASE Len(r) = m
  <2>1. q = Tail(a)
    BY <1>1, <1>2, <1>3, <1>5 DEF Kept
  <2>2. q \in Seq(S) /\ Len(q) = m /\ \A i \in 1 .. m : q[i] = a[i + 1]
    BY <1>3, <1>5, <2>1
  <2> QED
    BY <1>1, <1>3, <1>5, <2>2 DEF Slides
<1> QED
  BY <1>1, <1>3, <1>4, <1>5

\* The places of a sequence where something stands.
LEMMA SomePlaces ==
  ASSUME NEW k \in Nat, NEW T \in SUBSET (1 .. k)
  PROVE  IsFiniteSet(T) /\ Cardinality(T) \in 0 .. k /\ (Cardinality(T) = k => T = 1 .. k)
<1>1. IsFiniteSet(1 .. k) /\ Cardinality(1 .. k) = k
  BY FS_Interval
<1>2. IsFiniteSet(T) /\ Cardinality(T) <= k /\ (Cardinality(T) = k => T = 1 .. k)
  BY <1>1, FS_Subset
<1>3. Cardinality(T) \in Nat
  BY <1>2, FS_CardinalityType
<1> QED
  BY <1>2, <1>3

LEMMA CountIsNat ==
  ASSUME NEW S, NEW r \in Seq(S), NEW b
  PROVE  /\ Count(r, b) \in 0 .. Len(r)
         /\ Count(r, b) = Len(r) => EndsIn(r, Len(r), b)
<1>1. PICK k \in Nat : k = Len(r) /\ DOMAIN r = 1 .. k
  OBVIOUS
<1>2. PICK T : T = {i \in DOMAIN r : r[i] = b}
  OBVIOUS
<1>3. T \in SUBSET (1 .. k)
  BY <1>1, <1>2
<1>4. Cardinality(T) \in 0 .. k /\ (Cardinality(T) = k => T = 1 .. k)
  BY <1>3, SomePlaces
<1>5. T = 1 .. k => EndsIn(r, k, b)
  BY <1>1, <1>2 DEF EndsIn
<1> QED
  BY <1>1, <1>2, <1>4, <1>5 DEF Count

LEMMA CountsAddUp ==
  ASSUME NEW r \in Seq(BOOLEAN)
  PROVE  Count(r, TRUE) + Count(r, FALSE) = Len(r)
<1>1. PICK S, T : S = {i \in DOMAIN r : r[i] = TRUE} /\ T = {i \in DOMAIN r : r[i] = FALSE}
  OBVIOUS
<1>0. PICK k \in Nat : k = Len(r)
  OBVIOUS
<1>2. IsFiniteSet(S) /\ IsFiniteSet(T)
  <2>1. S \in SUBSET (1 .. k) /\ T \in SUBSET (1 .. k)
    BY <1>0, <1>1
  <2> QED
    BY <2>1, SomePlaces
<1>3. S \cap T = {} /\ S \cup T = 1 .. k
  BY <1>0, <1>1
<1>4. Cardinality(1 .. k) = k
  BY FS_Interval
<1>5. Cardinality(S \cup T) = Cardinality(S) + Cardinality(T) - Cardinality(S \cap T)
  BY <1>2, FS_Union
<1>6. Cardinality(S \cap T) = 0
  BY <1>3, FS_EmptySet
<1>7. Cardinality(S) \in Nat /\ Cardinality(T) \in Nat
  BY <1>2, FS_CardinalityType
<1>9. PICK m \in Nat, n \in Nat : m = Cardinality(S) /\ n = Cardinality(T)
  BY <1>7
<1>10. k = m + n - 0
  BY <1>3, <1>4, <1>5, <1>6, <1>9
<1>8. Cardinality(S) + Cardinality(T) = Len(r)
  BY <1>0, <1>9, <1>10
<1> QED
  BY <1>1, <1>8 DEF Count

LEMMA CountOfLast ==
  ASSUME NEW S, NEW r \in Seq(S), NEW k \in Nat, NEW b, EndsIn(r, k, b)
  PROVE  Count(r, b) >= k
<1>1. PICK T : T = {i \in DOMAIN r : r[i] = b}
  OBVIOUS
<1>2. IsFiniteSet(T)
  <2>1. PICK m \in Nat : m = Len(r)
    OBVIOUS
  <2>2. T \in SUBSET (1 .. m)
    BY <1>1, <2>1
  <2> QED
    BY <2>2, SomePlaces
<1>3. PICK a \in Int : a = Len(r) - k + 1
  OBVIOUS
<1>4. a .. Len(r) \in SUBSET T
  <2> SUFFICES ASSUME NEW i \in a .. Len(r) PROVE i \in T
    OBVIOUS
  <2>1. PICK j : j = Len(r) - i
    OBVIOUS
  <2>2. j \in 0 .. k - 1 /\ i = Len(r) - j /\ i \in 1 .. Len(r)
    BY <1>3, <2>1 DEF EndsIn
  <2>3. r[Len(r) - j] = b
    BY <2>2 DEF EndsIn
  <2> QED
    BY <1>1, <2>2, <2>3
<1>5. Cardinality(a .. Len(r)) = k
  <2>1. Cardinality(a .. Len(r)) = IF a > Len(r) THEN 0 ELSE Len(r) - a + 1
    BY FS_Interval
  <2> QED
    BY <1>3, <2>1
<1>6. Cardinality(a .. Len(r)) <= Cardinality(T)
  BY <1>2, <1>4, FS_Subset
<1>7. Cardinality(T) \in Nat
  BY <1>2, FS_CardinalityType
<1> QED
  BY <1>1, <1>5, <1>6, <1>7 DEF Count

\* A window as full of one kind of frame as it can be holds no other.
LEMMA AllOfOneKind ==
  ASSUME NEW S, NEW q \in Seq(S), NEW b, NEW n \in Nat, Len(q) <= n, ~(Count(q, b) < n)
  PROVE  Len(q) = n /\ EndsIn(q, n, b)
<1>1. PICK l \in Nat : l = Len(q)
  OBVIOUS
<1>2. Count(q, b) \in 0 .. l /\ (Count(q, b) = l => EndsIn(q, l, b))
  BY <1>1, CountIsNat
<1> QED
  BY <1>1, <1>2

\* A frame with a person does not make more frames without one.
LEMMA CountFalls ==
  ASSUME NEW S, NEW yes \in S, NEW no, yes # no,
         NEW th \in DetectionConfigs, NEW r \in Seq(S), Len(r) <= MaxLen(th),
         NEW q, q = Kept(Append(r, yes), th)
  PROVE  Count(q, no) <= Count(r, no)
<1>0. q \in Seq(S) /\ Slides(r, yes, q, MaxLen(th))
  BY KeptWindow
<1>1. /\ q \in Seq(S) /\ q[Len(q)] = yes
      /\ \A j \in 1 .. Len(q) - 1 :
           Len(r) - j + 1 \in 1 .. Len(r) /\ q[Len(q) - j] = r[Len(r) - j + 1]
  BY <1>0 DEF Slides
<1>2. PICK T, U : T = {i \in DOMAIN q : q[i] = no} /\ U = {i \in DOMAIN r : r[i] = no}
  OBVIOUS
<1>9. Len(r) \in Int /\ Len(q) \in Int
  BY <1>0
<1>3. PICK d \in Int : d = Len(r) - Len(q) + 1
  BY <1>9
<1>4. ASSUME NEW i \in T PROVE i \in Int /\ i + d \in U
  <2>1. i \in 1 .. Len(q) /\ i # Len(q)
    BY <1>1, <1>2
  <2>2. PICK j : j = Len(q) - i
    OBVIOUS
  <2>3. j \in 1 .. Len(q) - 1 /\ i = Len(q) - j /\ i + d = Len(r) - j + 1
    BY <1>3, <1>9, <2>1, <2>2
  <2>4. q[i] = r[i + d] /\ i + d \in 1 .. Len(r)
    BY <1>1, <2>3
  <2>5. q[i] = no
    BY <1>2
  <2>6. PICK e : e = i + d
    OBVIOUS
  <2>7. e \in DOMAIN r /\ r[e] = no
    <3>1. PICK k : k = Len(r)
      OBVIOUS
    <3>2. DOMAIN r = 1 .. k
      BY <3>1
    <3>3. e \in 1 .. k
      BY <2>4, <2>6, <3>1
    <3>4. r[e] = q[i]
      BY <2>4, <2>6
    <3> QED
      BY <2>5, <3>2, <3>3, <3>4
  <2>8. e \in U
    BY <1>2, <2>7
  <2> QED
    BY <2>1, <2>6, <2>8
<1>5. PICK f : f = [i \in T |-> i + d]
  OBVIOUS
<1>6. f \in Injection(T, U)
  BY <1>4, <1>5 DEF Injection, IsInjective
<1>7. IsFiniteSet(U)
  <2>1. PICK m \in Nat : m = Len(r)
    OBVIOUS
  <2>2. U \in SUBSET (1 .. m)
    BY <1>2, <2>1
  <2> QED
    BY <2>2, SomePlaces
<1>8. Cardinality(T) <= Cardinality(U)
  BY <1>6, <1>7, FS_Injection
<1> QED
  BY <1>2, <1>8 DEF Count

\* A frame more makes a run at the end longer by one, or begins another.
LEMMA EndsGrow ==
  ASSUME NEW S, NEW b \in S, NEW r \in Seq(S), NEW q \in Seq(S), NEW x \in Nat, Slides(r, b, q, x),
         NEW s \in Nat, EndsIn(r, s, b), NEW t \in Nat, t <= Len(q), t <= s + 1
  PROVE  EndsIn(q, t, b)
<1>1. ASSUME NEW j \in 0 .. t - 1 PROVE q[Len(q) - j] = b
  <2>1. CASE j = 0
    BY <2>1 DEF Slides
  <2>2. CASE j # 0
    <3>1. PICK i : i = j - 1
      OBVIOUS
    <3>2. i \in 0 .. s - 1 /\ j \in 1 .. Len(q) - 1
      BY <1>1, <2>2, <3>1
    <3>3. r[Len(r) - i] = b
      BY <3>2 DEF EndsIn
    <3>4. Len(r) - i = Len(r) - j + 1
      BY <3>1
    <3> QED
      BY <3>2, <3>3, <3>4 DEF Slides
  <2> QED
    BY <2>1, <2>2
<1> QED
  BY <1>1 DEF EndsIn

LEMMA EndsBack ==
  ASSUME NEW S, NEW b \in S, NEW r \in Seq(S), NEW q \in Seq(S), NEW x \in Nat, Slides(r, b, q, x),
         NEW k \in Nat \ {0}, NEW c, EndsIn(q, k, c)
  PROVE  b = c /\ k - 1 \in 0 .. Len(r) /\ EndsIn(r, k - 1, c)
<1>1. k <= Len(q) /\ Len(q) <= Len(r) + 1
  BY DEF EndsIn, Slides
<1>2. b = c
  <2>1. 0 \in 0 .. k - 1 /\ Len(q) - 0 = Len(q)
    OBVIOUS
  <2>2. q[Len(q) - 0] = c
    BY <2>1 DEF EndsIn
  <2> QED
    BY <2>1, <2>2 DEF Slides
<1>3. PICK i : i = k - 1
  OBVIOUS
<1>4. i \in 0 .. Len(r)
  BY <1>1, <1>3
<1>5. ASSUME NEW j \in 0 .. i - 1 PROVE r[Len(r) - j] = c
  <2>1. PICK l : l = j + 1
    OBVIOUS
  <2>2. l \in 1 .. Len(q) - 1 /\ l \in 0 .. k - 1 /\ Len(r) - l + 1 = Len(r) - j
    BY <1>1, <1>3, <2>1
  <2>3. q[Len(q) - l] = c
    BY <2>2 DEF EndsIn
  <2> QED
    BY <2>2, <2>3 DEF Slides
<1>6. EndsIn(r, i, c)
  BY <1>4, <1>5 DEF EndsIn
<1> QED
  BY <1>2, <1>3, <1>4, <1>6

\* One more frame.
LEMMA FrameIsSane ==
  ASSUME NEW th \in DetectionConfigs, NEW w, NEW n, NEW s, Sane(w, th, n, s), NEW b \in BOOLEAN,
         NEW m, NEW t, m = (IF b THEN 0 ELSE IF n = MaxLen(th) THEN n ELSE n + 1),
         t = 0 \/ (b /\ t = IF s = MaxLen(th) THEN s ELSE s + 1)
  PROVE  Sane(AfterFrame(w, b, th), th, m, t)
<1>1. PICK r : r = w.recent
  OBVIOUS
<1>2. /\ r \in Seq(BOOLEAN) /\ w.present \in BOOLEAN
      /\ Len(r) <= MaxLen(th)
      /\ n \in 0 .. MaxLen(th) /\ s \in 0 .. MaxLen(th)
      /\ EndsIn(r, s, TRUE)
      /\ \A k \in 0 .. Len(r) : EndsIn(r, k, FALSE) => n >= k
      /\ w.present => Count(r, FALSE) < th.no_person
  BY <1>1 DEF Sane
<1>3. PICK q : q = Kept(Append(r, b), th)
  OBVIOUS
<1>4. q \in Seq(BOOLEAN) /\ Slides(r, b, q, MaxLen(th))
  BY <1>2, <1>3, KeptWindow
<1>5. PICK v : v = AfterFrame(w, b, th)
  OBVIOUS
<1>6. /\ v.recent = q
      /\ v.present = IF w.present THEN Count(q, FALSE) < th.no_person
                                  ELSE Count(q, TRUE) >= th.person_present
      /\ v \in [recent: Seq(BOOLEAN), present: BOOLEAN]
  <2>1. /\ (Count(q, FALSE) < th.no_person) \in BOOLEAN
        /\ (Count(q, TRUE) >= th.person_present) \in BOOLEAN
    OBVIOUS
  <2>2. PICK p \in BOOLEAN : p = IF w.present THEN Count(q, FALSE) < th.no_person
                                              ELSE Count(q, TRUE) >= th.person_present
    BY <2>1
  <2>3. v = [recent |-> q, present |-> p]
    BY <1>1, <1>3, <1>5, <2>2 DEF AfterFrame
  <2> QED
    BY <1>4, <2>2, <2>3
<1>7. PICK x \in Nat : x = MaxLen(th)
  BY MaxLenIsLonger
<1>8. /\ Len(r) \in Nat /\ Len(q) \in Nat /\ Len(q) <= x
      /\ Len(q) = IF Len(r) < x THEN Len(r) + 1 ELSE Len(r)
      /\ Len(q) >= 1 /\ q[Len(q)] = b
      /\ \A j \in 1 .. Len(q) - 1 : q[Len(q) - j] = r[Len(r) - (j - 1)]
  BY <1>2, <1>4, <1>7 DEF Slides
<1>9. m \in 0 .. x /\ t \in 0 .. x
  BY <1>2, <1>7
<1>10. EndsIn(q, t, TRUE)
  <2>1. CASE t = 0
    BY <1>8, <2>1 DEF EndsIn
  <2>2. CASE t # 0
    <3>1. b = TRUE /\ t <= Len(q) /\ t <= s + 1 /\ s \in Nat /\ t \in Nat
      BY <1>2, <1>7, <1>8, <2>2 DEF EndsIn
    <3>2. EndsIn(r, s, b) /\ Slides(r, b, q, x)
      BY <1>2, <1>4, <1>7, <3>1
    <3>3. EndsIn(q, t, b)
      BY <1>2, <1>4, <1>7, <3>1, <3>2, EndsGrow
    <3> QED
      BY <3>1, <3>3
  <2> QED
    BY <2>1, <2>2
<1>12. PICK yes, no : yes = TRUE /\ no = FALSE
  OBVIOUS
<1>11. ASSUME NEW k \in 0 .. Len(q), EndsIn(q, k, FALSE) PROVE m >= k
  <2>1. CASE k = 0
    BY <1>9, <2>1
  <2>2. CASE k # 0
    <3>1. Slides(r, b, q, x) /\ k \in Nat \ {0}
      BY <1>4, <1>7, <2>2
    <3>2. PICK i : i = k - 1
      OBVIOUS
    <3>5. EndsIn(q, k, no)
      BY <1>11, <1>12
    <3>6. b = no /\ i \in 0 .. Len(r) /\ EndsIn(r, i, no)
      BY <1>2, <1>4, <3>1, <3>2, <3>5, EndsBack
    <3>3. b = FALSE /\ i \in 0 .. Len(r) /\ EndsIn(r, i, FALSE)
      BY <1>12, <3>6
    <3>4. n >= i
      BY <1>2, <3>3
    <3> QED
      BY <1>2, <1>7, <1>8, <3>1, <3>2, <3>3, <3>4
  <2> QED
    BY <2>1, <2>2
<1>15. PICK cy \in Nat, cn \in Nat, co \in Nat :
         cy = Count(q, yes) /\ cn = Count(q, no) /\ co = Count(r, no)
  <2>1. Count(q, yes) \in 0 .. Len(q) /\ Count(q, no) \in 0 .. Len(q) /\ Count(r, no) \in 0 .. Len(r)
    BY <1>2, <1>4, CountIsNat
  <2> QED
    BY <2>1
<1>16. cy + cn = Len(q)
  <2>1. Count(q, TRUE) + Count(q, FALSE) = Len(q)
    BY <1>4, CountsAddUp
  <2> QED
    BY <1>12, <1>15, <2>1
<1>17. /\ v.present = IF w.present THEN cn < th.no_person ELSE cy >= th.person_present
       /\ w.present => co < th.no_person
  BY <1>2, <1>6, <1>12, <1>15
<1>18. /\ x \in Nat \ {0}
       /\ th.no_person \in Nat \ {0} /\ th.person_present \in Nat \ {0}
       /\ th.no_person <= x /\ th.person_present <= x
       /\ x = th.no_person \/ x = th.person_present
  BY <1>7, MaxLenIsLonger
<1>13. v.present => cn < th.no_person
  <2>1. CASE w.present
    BY <1>17, <2>1
  <2>2. CASE ~w.present
    <3>1. PICK np \in Nat \ {0}, pp \in Nat \ {0} : np = th.no_person /\ pp = th.person_present
      BY <1>18
    <3>2. cy >= pp => cn < np
      BY <1>8, <1>16, <1>18, <3>1
    <3> QED
      BY <1>17, <2>2, <3>1, <3>2
  <2> QED
    BY <2>1, <2>2
<1>14. t >= th.person_present => v.present
  <2> SUFFICES ASSUME t >= th.person_present PROVE v.present
    OBVIOUS
  <2>1. b = yes /\ t \in Nat
    <3>1. t # 0 /\ t \in Nat
      BY <1>9, <1>18
    <3>2. b = TRUE
      BY <3>1
    <3> QED
      BY <1>12, <3>1, <3>2
  <2>2. CASE w.present
    <3>1. cn <= co
      <4>1. q = Kept(Append(r, yes), th)
        BY <1>3, <2>1
      <4>2. yes \in BOOLEAN /\ yes # no
        BY <1>12
      <4>3. Count(q, no) <= Count(r, no)
        BY <1>2, <4>1, <4>2, CountFalls
      <4> QED
        BY <1>15, <4>3
    <3> QED
      BY <1>17, <1>18, <2>2, <3>1
  <2>3. CASE ~w.present
    <3>1. cy >= t
      <4>1. EndsIn(q, t, yes)
        BY <1>10, <1>12
      <4>2. Count(q, yes) >= t
        BY <1>4, <2>1, <4>1, CountOfLast
      <4> QED
        BY <1>15, <4>2
    <3> QED
      BY <1>17, <1>18, <2>1, <2>3, <3>1
  <2> QED
    BY <2>2, <2>3
<1>19. v.present => Count(v.recent, FALSE) < th.no_person
  BY <1>6, <1>12, <1>13, <1>15
<1> QED
  BY <1>5, <1>6, <1>7, <1>8, <1>9, <1>10, <1>11, <1>14, <1>19 DEF Sane

-----------------------------------------------------------------------------
(***************************************************************************)
(* The zone and its cameras.                                               *)
(***************************************************************************)
\* A pass of the loop is an update() of the zone; a pass in patrol mode leaves
\* all but the observation alone.
LEMMA DetectedStep ==
  ASSUME TypeOK, [DetectedNext]_detectedVars
  PROVE  \/ [Next]_vars
         \/ /\ zone' \in Zones
            /\ zone'.state = zone.state /\ zone'.timer = zone.timer
            /\ UNCHANGED <<shown, alarm_config, can_reset, absence, called>>
<1>1. ASSUME NEW sights, NEW fire \in BOOLEAN, NEW t \in Measured, Pass(sights, fire, t)
      PROVE  Next
  <2>1. PICK b \in BOOLEAN : b = AnyCamera(sights)
    BY DEF AnyCamera
  <2>2. PICK obs : obs = [has_person |-> b, is_fire_on |-> fire, temperature |-> t]
    OBVIOUS
  <2>3. obs \in Observations
    BY <2>2, SettingsAssumption DEF Observations
  <2>4. Update(obs)
    BY <1>1, <2>1, <2>2 DEF Pass
  <2> QED
    BY <2>3, <2>4 DEF Next
<1>2. ASSUME NEW sights, NEW fire \in BOOLEAN, PatrolPass(sights, fire)
      PROVE  /\ zone' \in Zones
             /\ zone'.state = zone.state /\ zone'.timer = zone.timer
             /\ UNCHANGED <<shown, alarm_config, can_reset, absence, called>>
  <2>1. PICK b \in BOOLEAN : b = AnyCamera(sights)
    BY DEF AnyCamera
  <2>2. zone' = [zone EXCEPT !.has_person = b, !.is_fire_on = fire]
    BY <1>2, <2>1 DEF PatrolPass
  <2> QED
    BY <1>2, <2>2 DEF PatrolPass, TypeOK, Zones
<1>3. CASE Others
  BY <1>3 DEF Others, Next
<1>4. CASE UNCHANGED detectedVars
  BY <1>4 DEF detectedVars, zoneVars, vars
<1> QED
  BY <1>1, <1>2, <1>3, <1>4 DEF DetectedNext

\* The inductive invariant of the zone does not depend on who calls it.
LEMMA DetectedInvStep == IInv /\ [DetectedNext]_detectedVars => IInv'
<1> SUFFICES ASSUME IInv, [DetectedNext]_detectedVars PROVE IInv'
  OBVIOUS
<1>1. CASE [Next]_vars
  BY <1>1, InvStep
<1>2. CASE /\ zone' \in Zones
           /\ zone'.state = zone.state /\ zone'.timer = zone.timer
           /\ UNCHANGED <<shown, alarm_config, can_reset, absence, called>>
  BY <1>2 DEF IInv, TypeOK, TimerMatchesState, TimerNeverOverstates, CallbacksBelowState
<1> QED
  BY <1>1, <1>2, DetectedStep DEF IInv

LEMMA DetectedInvariance == DetectedSpec => []IInv
<1>1. DetectedInit => IInv
  BY InitInv DEF DetectedInit
<1> QED
  BY <1>1, DetectedInvStep, PTL DEF DetectedSpec

\* A zone driven by its cameras raises nothing early, runs each callback once and
\* implements the ladder, whatever the detector makes of the frames.
THEOREM DetectedZoneIsAZone ==
  DetectedSpec => NoEarlyEscalation /\ OneCallbackPerAbsence /\ ImplementsGuard
<1>1. IInv /\ [DetectedNext]_detectedVars
        => [\A s \in Stages : zone'.state = s /\ zone.state # s
                              => absence >= Limit(s)]_vars
  BY DetectedStep, EarlyStep DEF IInv
<1>2. IInv /\ [DetectedNext]_detectedVars
        => [\A s \in Stages : zone'.state = s /\ zone.state # s
                              => s \notin called]_vars
  BY DetectedStep, OnceStep DEF IInv
<1>3. IInv /\ IInv' /\ [DetectedNext]_detectedVars => [Guard!Next]_Guard!vars
  <2> SUFFICES ASSUME IInv, IInv', [DetectedNext]_detectedVars
               PROVE  [Guard!Next]_Guard!vars
    OBVIOUS
  <2>1. ASSUME zone'.state = zone.state, UNCHANGED <<absence, alarm_config>>
        PROVE  [Guard!Next]_Guard!vars
    BY <2>1 DEF Level, Guard!vars
  <2> QED
    BY <2>1, DetectedStep, GuardStep DEF IInv
<1>4. DetectedInit => Guard!Init
  BY GuardInit DEF DetectedInit
<1> QED
  BY <1>1, <1>2, <1>3, <1>4, DetectedInvariance, PTL
     DEF DetectedSpec, NoEarlyEscalation, OneCallbackPerAbsence, ImplementsGuard,
         Guard!Spec, Limit

\* Every camera's window is sane, under settings that never change.
DetectorInv ==
  /\ detection \in DetectionSettings
  /\ \A c \in Camera : Sane(windows[c], detection, nobody[c], somebody[c])

LEMMA NewWindowIsSane ==
  ASSUME NEW th \in DetectionConfigs
  PROVE  Sane(NewWindow, th, 0, 0)
<1>1. PICK w : w = NewWindow
  OBVIOUS
<1>2. /\ w \in [recent: Seq(BOOLEAN), present: BOOLEAN]
      /\ w.recent = <<>> /\ Len(w.recent) = 0 /\ w.present = FALSE
  BY <1>1 DEF NewWindow
<1>3. PICK m \in Nat, pp \in Nat \ {0} : m = MaxLen(th) /\ pp = th.person_present
  BY MaxLenIsLonger
<1>4. ~(0 >= th.person_present) /\ 0 \in 0 .. MaxLen(th) /\ Len(w.recent) <= MaxLen(th)
  BY <1>2, <1>3
<1>5. EndsIn(w.recent, 0, TRUE)
  BY <1>2 DEF EndsIn
<1>6. \A k \in 0 .. Len(w.recent) : 0 >= k
  BY <1>2
<1> QED
  BY <1>1, <1>2, <1>4, <1>5, <1>6 DEF Sane

\* A camera without a frame: the window stays, and the passes with a person end.
LEMMA NoFrameIsSane ==
  ASSUME NEW th \in DetectionConfigs, NEW w, NEW n, NEW s, Sane(w, th, n, s)
  PROVE  Sane(w, th, n, 0)
<1>1. Len(w.recent) \in Nat
  BY DEF Sane
<1>2. EndsIn(w.recent, 0, TRUE)
  BY <1>1 DEF EndsIn
<1>3. PICK m \in Nat, pp \in Nat \ {0} : m = MaxLen(th) /\ pp = th.person_present
  BY MaxLenIsLonger
<1>4. ~(0 >= th.person_present) /\ 0 \in 0 .. MaxLen(th)
  BY <1>3
<1> QED
  BY <1>2, <1>4 DEF Sane

\* A pass of the loop, in patrol mode or not, keeps every window sane.
LEMMA PassIsSane ==
  ASSUME DetectorInv, NEW sights, NEW in_patrol \in BOOLEAN,
         windows' = Smoothed(sights), Remember(sights, in_patrol), UNCHANGED detection
  PROVE  DetectorInv'
<1>1. detection \in DetectionConfigs
  BY SettingsAssumption DEF DetectorInv
<1>2. ASSUME NEW c \in Camera PROVE Sane(windows'[c], detection, nobody'[c], somebody'[c])
  <2>1. Sane(windows[c], detection, nobody[c], somebody[c])
    BY DEF DetectorInv
  <2>2. CASE sights[c] = "no_frame"
    <3>1. windows'[c] = windows[c] /\ nobody'[c] = nobody[c] /\ somebody'[c] = 0
      BY <2>2 DEF Smoothed, Remember, Answering, Saw, RawHasPerson
    <3> QED
      BY <1>1, <2>1, <3>1, NoFrameIsSane
  <2>3. CASE sights[c] # "no_frame"
    <3>1. PICK b \in BOOLEAN : b = Saw(sights, c)
      BY DEF Saw, RawHasPerson
    <3>2. windows'[c] = AfterFrame(windows[c], b, detection)
      BY <2>3, <3>1 DEF Smoothed, Saw
    <3>3. nobody'[c] = IF b THEN 0 ELSE IF nobody[c] = MaxLen(detection) THEN nobody[c]
                                        ELSE nobody[c] + 1
      BY <2>3, <3>1 DEF Remember, Answering, OneMore
    <3>4. \/ somebody'[c] = 0
          \/ b /\ somebody'[c] = IF somebody[c] = MaxLen(detection) THEN somebody[c]
                                 ELSE somebody[c] + 1
      BY <3>1 DEF Remember, OneMore
    <3> QED
      BY <1>1, <2>1, <3>1, <3>2, <3>3, <3>4, FrameIsSane
  <2> QED
    BY <2>2, <2>3
<1> QED
  BY <1>2 DEF DetectorInv

LEMMA DetectorStep == DetectorInv /\ [DetectedNext]_detectedVars => DetectorInv'
<1> SUFFICES ASSUME DetectorInv, [DetectedNext]_detectedVars PROVE DetectorInv'
  OBVIOUS
<1>1. ASSUME NEW sights, NEW fire, NEW t, Pass(sights, fire, t) PROVE DetectorInv'
  BY <1>1, PassIsSane DEF Pass
<1>2. ASSUME NEW sights, NEW fire, PatrolPass(sights, fire) PROVE DetectorInv'
  BY <1>2, PassIsSane DEF PatrolPass
<1>3. CASE UNCHANGED watched
  BY <1>3 DEF watched, DetectorInv
<1> QED
  BY <1>1, <1>2, <1>3 DEF DetectedNext, Others, detectedVars

LEMMA DetectorInit == DetectedInit => DetectorInv
<1> SUFFICES ASSUME DetectedInit PROVE DetectorInv
  OBVIOUS
<1>1. detection \in DetectionSettings /\ detection \in DetectionConfigs
  BY SettingsAssumption DEF DetectedInit
<1>2. ASSUME NEW c \in Camera PROVE Sane(windows[c], detection, nobody[c], somebody[c])
  <2>1. windows[c] = NewWindow /\ nobody[c] = 0 /\ somebody[c] = 0
    BY DEF DetectedInit
  <2> QED
    BY <1>1, <2>1, NewWindowIsSane
<1> QED
  BY <1>1, <1>2 DEF DetectorInv

LEMMA DetectorInvariance == DetectedSpec => []DetectorInv
BY DetectorInit, DetectorStep, PTL DEF DetectedSpec

\* The windows never exceed their length, nor the histories theirs.
THEOREM DetectedTypeCorrect == DetectedSpec => []DetectedTypeOK
<1>1. IInv /\ DetectorInv => DetectedTypeOK
  <2> SUFFICES ASSUME IInv, DetectorInv, NEW c \in Camera
               PROVE  /\ windows[c].recent \in Seq(BOOLEAN) /\ windows[c].present \in BOOLEAN
                      /\ Len(windows[c].recent) <= MaxLen(detection)
                      /\ {nobody[c], somebody[c]} \subseteq 0 .. MaxLen(detection)
    BY DEF IInv, DetectorInv, DetectedTypeOK
  <2> QED
    BY DEF DetectorInv, Sane
<1> QED
  BY <1>1, DetectedInvariance, DetectorInvariance, PTL

-----------------------------------------------------------------------------
\* A person whom the detector reports leaves the zone attended, or at rest when
\* what had latched is only now released.
LEMMA ArrivalAttends ==
  ASSUME IInv, NEW obs \in Observations, Update(obs), obs.has_person
  PROVE  zone'.state \in {"idle", "active_with_person"}
<1>1. /\ alarm_config \in AlarmConfigs /\ zone \in Zones /\ can_reset \in BOOLEAN
      /\ zone' = AfterUpdate(zone, obs, alarm_config, can_reset)
  BY ConfigsAssumption DEF IInv, TypeOK, Update
<1>2. ~Overheated(obs) /\ (Latched(zone) => Released(zone, obs, can_reset))
  BY DEF Overheated, Latched, Released
<1>3. zone'.state # "temp_alarm" /\ (zone'.state = zone.state => ~Latched(zone))
  <2> DEFINE seen == [zone EXCEPT !.has_person = obs.has_person,
                                  !.is_fire_on = obs.is_fire_on]
  <2>1. seen \in Zones
    BY <1>1 DEF Zones, Observations
  <2>2. zone' = IF Released(zone, obs, can_reset) THEN AtRest(seen) ELSE Attended(seen)
    BY <1>1, <1>2 DEF AfterUpdate
  <2> HIDE DEF seen
  <2> QED
    BY <2>1, <2>2 DEF AtRest, Attended, Zones, Latched
<1>4. \/ Overheats(zone, zone') \/ Releases(zone')
      \/ Holds(zone, zone', obs) \/ Attends(zone', obs)
      \/ Counted(zone, zone', obs, alarm_config)
  BY <1>1, AfterUpdateOutcomes
<1> QED
  BY <1>3, <1>4 DEF Overheats, Releases, Holds, Attends, Counted, Latched

\* Whoever stands in front of a camera long enough ends the countdown: whatever the
\* window held, the frames with a person have pushed it over the threshold.
THEOREM SpecReturnEndsCountdown == DetectedSpec => []ReturnEndsCountdown
<1>1. DetectedInit => ReturnEndsCountdown
  BY DEF DetectedInit, Init, NewZone, ReturnEndsCountdown
<1>2. IInv /\ IInv' /\ DetectorInv /\ DetectorInv' /\ ReturnEndsCountdown
        /\ [DetectedNext]_detectedVars => ReturnEndsCountdown'
  <2> SUFFICES ASSUME IInv, IInv', DetectorInv, DetectorInv', ReturnEndsCountdown,
                      [DetectedNext]_detectedVars,
                      NEW c \in Camera, somebody'[c] >= detection'.person_present
               PROVE  zone'.state \in {"idle", "active_with_person"}
    BY DEF ReturnEndsCountdown
  <2>1. /\ detection' \in DetectionConfigs
        /\ Sane(windows'[c], detection', nobody'[c], somebody'[c])
    BY SettingsAssumption DEF DetectorInv
  <2>2. windows'[c].present /\ somebody'[c] # 0
    BY <2>1, MaxLenIsLonger DEF Sane
  <2>3. ASSUME NEW sights, NEW fire \in BOOLEAN, NEW t \in Measured, Pass(sights, fire, t)
        PROVE  zone'.state \in {"idle", "active_with_person"}
    <3>1. Saw(sights, c) /\ c \in Answering(sights)
      BY <2>2, <2>3 DEF Pass, Remember, Answering, Saw, RawHasPerson
    <3>2. AnyCamera(sights) = TRUE
      BY <2>2, <2>3, <3>1 DEF Pass, AnyCamera
    <3>3. PICK obs : obs = [has_person |-> TRUE, is_fire_on |-> fire, temperature |-> t]
      OBVIOUS
    <3>4. obs \in Observations /\ obs.has_person
      BY <3>3, SettingsAssumption DEF Observations
    <3>5. Update(obs)
      BY <2>3, <3>2, <3>3 DEF Pass
    <3> QED
      BY <3>4, <3>5, ArrivalAttends
  <2>4. ASSUME NEW sights, NEW fire, PatrolPass(sights, fire) PROVE FALSE
    BY <2>2, <2>4 DEF PatrolPass, Remember
  <2>5. ASSUME UNCHANGED watched
        PROVE  zone.state \in {"idle", "active_with_person"}
    BY <2>5 DEF watched, ReturnEndsCountdown
  <2>6. CASE Others
    <3>1. zone.state \in {"idle", "active_with_person"} /\ zone \in Zones
      BY <2>5, <2>6 DEF Others, IInv, TypeOK
    <3>2. CASE ForceIdle \/ Reset
      BY <3>1, <3>2, RestEffect DEF ForceIdle, AfterForceIdle, Reset, AfterReset
    <3>3. CASE \/ \E b \in BOOLEAN : SetFireState(b)
               \/ Tick
      BY <3>1, <3>3 DEF SetFireState, Tick, Zones
    <3>4. CASE GetStatus \/ CurrentReading \/ \E cfg \in Configs : UpdateSettings(cfg)
      BY <3>1, <3>4 DEF GetStatus, CurrentReading, UpdateSettings
    <3> QED
      BY <2>6, <3>2, <3>3, <3>4 DEF Others
  <2>7. CASE UNCHANGED detectedVars
    BY <2>5, <2>7 DEF detectedVars, zoneVars
  <2> QED
    BY <2>3, <2>4, <2>6, <2>7 DEF DetectedNext
<1> QED
  BY <1>1, <1>2, DetectedInvariance, DetectorInvariance, PTL DEF DetectedSpec

\* The countdown of an attended zone begins only after nobody was seen in the last
\* no_person_threshold frames of each camera that turned: with a window no longer
\* than that, enough frames without a person are all of them.
THEOREM SpecAbsenceIsSmoothed ==
  ASSUME \A th \in DetectionSettings : th.no_person >= th.person_present
  PROVE  DetectedSpec => AbsenceIsSmoothed
<1> DEFINE Turned == zone.state = "active_with_person" /\ zone'.state = "active_no_person"
           Gone   == \A c \in Camera : windows[c].present /\ windows'[c] # windows[c]
                       => nobody'[c] >= detection.no_person
<1>1. ASSUME IInv, DetectorInv, DetectorInv', [DetectedNext]_detectedVars, Turned
      PROVE  Gone
  <2>1. zone \in Zones /\ alarm_config \in AlarmConfigs /\ can_reset \in BOOLEAN
    BY <1>1, ConfigsAssumption DEF IInv, TypeOK
  <2>2. ~Others /\ ~(UNCHANGED detectedVars)
    <3>1. ~ForceIdle /\ ~Reset
      BY <1>1, <2>1, RestEffect DEF ForceIdle, AfterForceIdle, Reset, AfterReset
    <3>2. ~(\E b \in BOOLEAN : SetFireState(b)) /\ ~Tick
      BY <1>1, <2>1 DEF SetFireState, Tick, Zones
    <3>3. ~GetStatus /\ ~CurrentReading /\ ~(UNCHANGED detectedVars)
          /\ ~(\E cfg \in Configs : UpdateSettings(cfg))
      BY <1>1 DEF GetStatus, CurrentReading, UpdateSettings, detectedVars, zoneVars
    <3> QED
      BY <3>1, <3>2, <3>3 DEF Others
  <2>3. ASSUME NEW sights, NEW fire, PatrolPass(sights, fire) PROVE FALSE
    BY <1>1, <2>1, <2>3 DEF PatrolPass, Zones
  <2>4. PICK sights \in [Camera -> Glimpses], fire \in BOOLEAN, t \in Measured : Pass(sights, fire, t)
    BY <1>1, <2>2, <2>3 DEF DetectedNext
  <2>5. ~AnyCamera(sights)
    <3>1. PICK b \in BOOLEAN : b = AnyCamera(sights)
      BY DEF AnyCamera
    <3>2. PICK obs : obs = [has_person |-> b, is_fire_on |-> fire, temperature |-> t]
      OBVIOUS
    <3>3. obs \in Observations
      BY <3>2, SettingsAssumption DEF Observations
    <3>4. Update(obs)
      BY <2>4, <3>1, <3>2 DEF Pass
    <3>5. ~obs.has_person
      BY <1>1, <3>3, <3>4, ArrivalAttends
    <3> QED
      BY <3>1, <3>2, <3>5
  <2>6. ASSUME NEW c \in Camera, windows[c].present, windows'[c] # windows[c]
        PROVE  nobody'[c] >= detection.no_person
    <3>1. /\ detection \in DetectionConfigs /\ detection.no_person >= detection.person_present
          /\ detection' = detection
          /\ Sane(windows'[c], detection, nobody'[c], somebody'[c])
      BY <1>1, <2>4, SettingsAssumption DEF DetectorInv, Pass
    <3>2. c \in Answering(sights)
      BY <2>4, <2>6 DEF Pass, Smoothed, Answering
    <3>3. /\ ~windows'[c].present
          /\ windows'[c] = AfterFrame(windows[c], Saw(sights, c), detection)
      BY <2>4, <2>5, <3>2 DEF Pass, AnyCamera, Smoothed, Answering, Saw
    <3>4. PICK q : q = windows'[c].recent
      OBVIOUS
    <3>5. ~(Count(q, FALSE) < detection.no_person)
      <4>1. PICK b : b = (Count(q, FALSE) < detection.no_person)
        OBVIOUS
      <4>2. PICK w : w = windows[c]
        OBVIOUS
      <4>3. PICK p : p = Kept(Append(w.recent, Saw(sights, c)), detection)
        OBVIOUS
      <4>4. AfterFrame(w, Saw(sights, c), detection)
              = [recent |-> p, present |-> Count(p, FALSE) < detection.no_person]
        BY <2>6, <4>2, <4>3 DEF AfterFrame
      <4>5. p = q /\ windows'[c].present = (Count(p, FALSE) < detection.no_person)
        BY <3>3, <3>4, <4>2, <4>4
      <4> QED
        BY <3>3, <4>5
    <3>6. /\ q \in Seq(BOOLEAN) /\ Len(q) <= MaxLen(detection)
          /\ nobody'[c] \in 0 .. MaxLen(detection)
          /\ \A k \in 0 .. Len(q) : EndsIn(q, k, FALSE) => nobody'[c] >= k
      BY <3>1, <3>4 DEF Sane
    <3>7. MaxLen(detection) = detection.no_person /\ detection.no_person \in Nat
      BY <3>1, MaxLenIsLonger
    <3>0. PICK no : no = FALSE
      OBVIOUS
    <3>8. PICK np \in Nat : np = detection.no_person
      BY <3>7
    <3>9. q \in Seq(BOOLEAN) /\ Len(q) <= np /\ ~(Count(q, no) < np)
      BY <3>0, <3>5, <3>6, <3>7, <3>8
    <3>10. Len(q) = np /\ EndsIn(q, np, no)
      BY <3>9, AllOfOneKind
    <3>11. EndsIn(q, np, FALSE) /\ np \in 0 .. Len(q)
      <4>1. EndsIn(q, np, FALSE)
        BY <3>0, <3>10, Zenon
      <4>2. Len(q) = np
        BY <3>10
      <4>3. np \in 0 .. Len(q)
        BY <4>2
      <4> QED
        BY <4>1, <4>3
    <3>12. nobody'[c] >= np
      BY <3>6, <3>11
    <3> QED
      BY <3>8, <3>12
  <2> QED
    BY <2>6
<1>2. IInv /\ DetectorInv /\ DetectorInv' /\ [DetectedNext]_detectedVars
        => [Turned => Gone]_detectedVars
  BY <1>1
<1> QED
  BY <1>2, DetectedInvariance, DetectorInvariance, PTL DEF DetectedSpec, AbsenceIsSmoothed
=============================================================================
