----------------------------- MODULE ZoneLogic ------------------------------
(***************************************************************************)
(* The decision logic of one stove zone: what ZoneStateMachine.update,     *)
(* reset and force_idle (src/zone/state_machine.py) make of a zone.        *)
(*                                                                         *)
(* A zone is a record; every operator maps the record before a call to the *)
(* record after it, so that the single-zone specification                  *)
(* (ZoneStateMachine) and the whole system (FireSafetySystem) run the very *)
(* same code.  The instant _no_person_start_time is kept as the time that  *)
(* has elapsed since it (time.monotonic() - _no_person_start_time), which  *)
(* saturates at MaxAge: thresholds never exceed MaxAge, so a saturated     *)
(* timer compares with them exactly as the larger value would.             *)
(***************************************************************************)
EXTENDS Integers

CONSTANT MaxAge        \* bound: ages beyond it are not told apart

ASSUME MaxAgeAssumption == MaxAge \in Nat

NotStarted == -1       \* _no_person_start_time is None
Ages   == 0 .. MaxAge
Timers == Ages \cup {NotStarted}

\* One time unit passes for a timer (a timer that is not running stays so).
Older(t) == IF t = NotStarted \/ t = MaxAge THEN t ELSE t + 1

ZoneStates == {"idle", "active_with_person", "active_no_person", "warning",
               "alarm", "cutoff", "temp_alarm"}

\* The rungs of the unattended ladder; the attended and the overheated
\* states are not on it.
Rank == [s \in ZoneStates |->
           CASE s = "active_no_person" -> 1
             [] s = "warning"          -> 2
             [] s = "alarm"            -> 3
             [] s = "cutoff"           -> 4
             [] OTHER                  -> 0]

\* alarm_config: the three thresholds of AlarmConfig.
AlarmConfigs == [warning_time: Ages, alarm_time: Ages, action_time: Ages]

Zones == [state: ZoneStates, timer: Timers,
          has_person: BOOLEAN, is_fire_on: BOOLEAN]

\* What one call of update() is told.  temperature: "none" is the absent
\* argument, "high" a reading above temp_alarm_threshold.
Temperatures == {"none", "normal", "high"}
Observations == [has_person: BOOLEAN, is_fire_on: BOOLEAN,
                 temperature: Temperatures]

NewZone == [state |-> "idle", timer |-> NotStarted,
            has_person |-> FALSE, is_fire_on |-> FALSE]

-----------------------------------------------------------------------------
(***************************************************************************)
(* update()                                                                *)
(***************************************************************************)
\* Faulty variant (mutation runs): _reset_timers() is forgotten.
AtRestKeepsTimer(z) == [z EXCEPT !.state = "idle"]

\* State idle and _reset_timers().
AtRest(z) == [z EXCEPT !.state = "idle", !.timer = NotStarted]

Overheated(obs) == obs.temperature = "high" /\ ~obs.has_person

\* The conditions under which update() returns the zone to idle: a
\* temperature alarm clears, the fire is out, or a cut-off zone is released.
Released(z, obs, can_reset) ==
  \/ /\ z.state = "temp_alarm"
     /\ obs.has_person \/ obs.temperature = "normal"
  \/ z.state # "temp_alarm" /\ ~obs.is_fire_on
  \/ z.state = "cutoff" /\ (obs.has_person \/ can_reset)

\* temp_alarm and cutoff hold until released.
Latched(z) == z.state \in {"temp_alarm", "cutoff"}

\* _trigger_cutoff_reset(): the release that also clears the serial
\* manager's cut-off bookkeeping (a fire that goes out does not).
ClearsCutoff(z, obs, can_reset) ==
  /\ ~Overheated(obs)
  /\ z.state = "cutoff" /\ obs.is_fire_on /\ (obs.has_person \/ can_reset)

\* Faulty variant (mutation runs): two thresholds are swapped.
StageSwapped(cfg, d) ==
  IF d >= cfg.alarm_time THEN "cutoff"
  ELSE IF d >= cfg.action_time THEN "alarm"
  ELSE IF d >= cfg.warning_time THEN "warning"
  ELSE "active_no_person"

\* The rung an absence of length d calls for.
Stage(cfg, d) ==
  IF d >= cfg.action_time THEN "cutoff"
  ELSE IF d >= cfg.alarm_time THEN "alarm"
  ELSE IF d >= cfg.warning_time THEN "warning"
  ELSE "active_no_person"

\* Faulty variants (mutation runs): the state follows the thresholds down as
\* well as up; the timer starts anew at every call.
UnattendedClimbsDown(z, cfg) ==
  LET age == IF z.timer = NotStarted THEN 0 ELSE z.timer
  IN  [z EXCEPT !.timer = age, !.state = Stage(cfg, age)]

UnattendedRestarts(z, cfg) ==
  LET age   == IF z.timer = NotStarted THEN 0 ELSE z.timer
      stage == Stage(cfg, age)
  IN  [z EXCEPT !.timer = 0,
                !.state = IF Rank[stage] > Rank[z.state] THEN stage ELSE z.state]

\* Fire without a person: the timer starts if it was not running, and the
\* zone climbs to the stage of its age but never climbs down.
Unattended(z, cfg) ==
  LET age   == IF z.timer = NotStarted THEN 0 ELSE z.timer
      stage == Stage(cfg, age)
  IN  [z EXCEPT !.timer = age,
                !.state = IF Rank[stage] > Rank[z.state] THEN stage ELSE z.state]

Attended(z) == [AtRest(z) EXCEPT !.state = "active_with_person"]

AfterUpdate(z, obs, cfg, can_reset) ==
  LET seen == [z EXCEPT !.has_person = obs.has_person,
                        !.is_fire_on = obs.is_fire_on]
  IN  IF Overheated(obs)                    THEN [seen EXCEPT !.state = "temp_alarm"]
      ELSE IF Released(z, obs, can_reset)   THEN AtRest(seen)
      ELSE IF Latched(z)                    THEN seen
      ELSE IF obs.has_person                THEN Attended(seen)
      ELSE Unattended(seen, cfg)

-----------------------------------------------------------------------------
(***************************************************************************)
(* The calls from outside the detection loop, and what the callbacks see.  *)
(***************************************************************************)
\* Faulty variant (mutation runs): force_idle() forgets _reset_timers().
ForceIdleKeepsTimer(z) == [z EXCEPT !.state = "idle"]

\* force_idle(): nothing to do for a zone that is idle already.
AfterForceIdle(z) == IF z.state = "idle" THEN z ELSE AtRest(z)

\* reset(): manual reset, effective from warning and cutoff only.
Resettable(z) == z.state \in {"warning", "cutoff"}
AfterReset(z) == IF Resettable(z) THEN AtRest(z) ELSE z

AlarmStates == {"warning", "alarm", "cutoff", "temp_alarm"}

\* on_warning, on_alarm, on_cutoff and on_temp_alarm run exactly when the
\* zone enters their state.
Raises(old, new) == new.state # old.state /\ new.state \in AlarmStates

\* Faulty variant (mutation runs): the return of a person silences nothing.
QuietensAtIdle(old, new) == new.state # old.state /\ new.state = "idle"

\* on_state_change asks for silence when the zone comes to rest.
Quietens(old, new) ==
  new.state # old.state /\ new.state \in {"idle", "active_with_person"}
=============================================================================
