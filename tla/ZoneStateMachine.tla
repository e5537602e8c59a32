-------------------------- MODULE ZoneStateMachine --------------------------
(***************************************************************************)
(* One ZoneStateMachine object (src/zone/state_machine.py) under all of    *)
(* its public operations, each of them a critical section of its _lock:    *)
(* update, force_idle, reset, set_fire_state and get_status, while the     *)
(* thresholds are edited through update_settings and the serial manager's  *)
(* answer to can_reset_by_current changes freely.                          *)
(***************************************************************************)
EXTENDS ZoneLogic

CONSTANT Configs       \* the alarm settings an operator may choose

ASSUME ConfigsAssumption == Configs \subseteq AlarmConfigs /\ Configs # {}

VARIABLES
  zone,                \* state, _no_person_start_time and the last observation
  shown,               \* the countdown fields of Zone served to the clients
  alarm_config,        \* get_config().alarm
  can_reset,           \* serial_manager.can_reset_by_current(zone)
  absence,             \* history: time since a person or a dead fire was seen,
                       \*   or the zone was brought to idle
  called               \* history: stage callbacks run since the zone was at rest

vars == <<zone, shown, alarm_config, can_reset, absence, called>>

Stages == {"warning", "alarm", "cutoff"}

Remaining(limit, d) == IF limit > d THEN limit - d ELSE 0

\* The countdown fields recomputed for a duration d.
Countdown(cfg, d) ==
  [no_person_duration |-> d,
   warning_remaining  |-> Remaining(cfg.warning_time, d),
   alarm_remaining    |-> Remaining(cfg.alarm_time, d),
   cutoff_remaining   |-> Remaining(cfg.action_time, d)]

Shown == [no_person_duration: Ages, warning_remaining: Ages,
          alarm_remaining: Ages, cutoff_remaining: Ages]

\* The fields _reset_timers() clears: alarm_remaining is not among them.
Cleared == [shown EXCEPT !.no_person_duration = 0, !.warning_remaining = 0,
                         !.cutoff_remaining = 0]

Init ==
  /\ zone = NewZone
  /\ shown = [no_person_duration |-> 0, warning_remaining |-> 0,
              alarm_remaining |-> 0, cutoff_remaining |-> 0]
  /\ alarm_config \in Configs
  /\ can_reset = FALSE
  /\ absence = 0
  /\ called = {}

-----------------------------------------------------------------------------
\* The history of a call that turned the zone into z and, when restart holds,
\* showed the stove to be looked after.
Record(z, restart) ==
  /\ absence' = IF restart \/ z.state = "idle" THEN 0 ELSE absence
  /\ called' = IF z.state \in {"idle", "active_with_person"} THEN {}
               ELSE IF Raises(zone, z) THEN called \cup {z.state}
               ELSE called

\* The branch of update() that counts the absence.
Counts(obs) ==
  ~Overheated(obs) /\ ~Released(zone, obs, can_reset) /\ ~Latched(zone)
    /\ ~obs.has_person

\* The branches of update() that run _reset_timers().
ResetsTimers(obs) ==
  /\ ~Overheated(obs)
  /\ Released(zone, obs, can_reset) \/ (obs.has_person /\ ~Latched(zone))

Update(obs) ==
  /\ zone' = AfterUpdate(zone, obs, alarm_config, can_reset)
  /\ shown' = IF Counts(obs) THEN Countdown(alarm_config, zone'.timer)
              ELSE IF ResetsTimers(obs) THEN Cleared
              ELSE shown
  \* clear_cutoff_state() withdraws the permission to reset by current
  /\ can_reset' = (can_reset /\ ~ClearsCutoff(zone, obs, can_reset))
  /\ Record(zone', obs.has_person \/ ~obs.is_fire_on)
  /\ UNCHANGED alarm_config

ForceIdle ==
  /\ zone' = AfterForceIdle(zone)
  /\ shown' = IF zone.state = "idle" THEN shown ELSE Cleared
  /\ IF zone.state = "idle" THEN UNCHANGED <<absence, called>>
                            ELSE Record(zone', FALSE)
  /\ UNCHANGED <<alarm_config, can_reset>>

Reset ==
  /\ zone' = AfterReset(zone)
  /\ shown' = IF Resettable(zone) THEN Cleared ELSE shown
  /\ IF Resettable(zone) THEN Record(zone', FALSE)
                         ELSE UNCHANGED <<absence, called>>
  /\ UNCHANGED <<alarm_config, can_reset>>

SetFireState(is_on) ==
  /\ zone' = [zone EXCEPT !.is_fire_on = is_on]
  /\ UNCHANGED <<shown, alarm_config, can_reset, absence, called>>

\* get_status() brings the countdown of a running absence up to date.
GetStatus ==
  /\ shown' = IF zone.timer # NotStarted
                   /\ zone.state \in {"active_no_person", "warning", "alarm"}
              THEN Countdown(alarm_config, zone.timer)
              ELSE shown
  /\ UNCHANGED <<zone, alarm_config, can_reset, absence, called>>

-----------------------------------------------------------------------------
\* The environment: time, the settings page, and the serial manager.
Tick ==
  /\ zone' = [zone EXCEPT !.timer = Older(zone.timer)]
  /\ absence' = Older(absence)
  /\ UNCHANGED <<shown, alarm_config, can_reset, called>>

UpdateSettings(cfg) ==
  /\ alarm_config' = cfg
  /\ UNCHANGED <<zone, shown, can_reset, absence, called>>

CurrentReading ==
  /\ can_reset' \in BOOLEAN
  /\ UNCHANGED <<zone, shown, alarm_config, absence, called>>

Next ==
  \/ \E obs \in Observations : Update(obs)
  \/ ForceIdle
  \/ Reset
  \/ \E b \in BOOLEAN : SetFireState(b)
  \/ GetStatus
  \/ Tick
  \/ \E cfg \in Configs : UpdateSettings(cfg)
  \/ CurrentReading

Spec == Init /\ [][Next]_vars

-----------------------------------------------------------------------------
(***************************************************************************)
(* Properties                                                              *)
(***************************************************************************)
TypeOK ==
  /\ zone \in Zones
  /\ shown \in Shown
  /\ alarm_config \in Configs
  /\ can_reset \in BOOLEAN
  /\ absence \in Ages
  /\ called \subseteq AlarmStates

\* A zone counts an absence exactly while it is on the ladder: no path into
\* idle or active_with_person (five of them in update(), force_idle, reset)
\* leaves a timer running that would shorten the next absence.
TimerMatchesState ==
  /\ zone.state \in {"idle", "active_with_person"} => zone.timer = NotStarted
  /\ Rank[zone.state] > 0 => zone.timer # NotStarted

\* The timer never claims more absence than there was: a call that saw a
\* person or a dead fire has reset it, except under a temperature alarm,
\* whose early return skips the reset until the alarm itself is cleared.
TimerNeverOverstates ==
  zone.state # "temp_alarm" => zone.timer <= absence

\* Every callback of this absence belongs to a rung at or below the zone's: the
\* ladder has not been climbed down and up again without a rest.
CallbacksBelowState ==
  zone.state # "temp_alarm"
    => \A s \in called \cap Stages : Rank[s] <= Rank[zone.state]

\* A stage is entered only when the stove has been burning unattended for the
\* time that stage is set to, whatever happened before: no sequence of
\* returns, resets, temperature alarms and setting changes raises it early.
NoEarlyEscalation ==
  [][\A s \in Stages :
       zone'.state = s /\ zone.state # s
         => absence >= (CASE s = "warning" -> alarm_config.warning_time
                          [] s = "alarm"   -> alarm_config.alarm_time
                          [] s = "cutoff"  -> alarm_config.action_time)]_vars

\* Between two rests of the zone each callback (on_warning, on_alarm,
\* on_cutoff) runs at most once, even when thresholds are edited under it, so
\* that one absence is announced, uploaded and cut off once.
OneCallbackPerAbsence ==
  [][\A s \in Stages : zone'.state = s /\ zone.state # s => s \notin called]_vars

\* docs/websocket_protocol.md says alarm_remaining is 0.0 when it does not
\* apply: a zone at rest shows no countdown.
NoCountdownAtRest ==
  zone.state \in {"idle", "active_with_person"} => shown.alarm_remaining = 0

-----------------------------------------------------------------------------
(***************************************************************************)
(* The zone implements the escalation ladder.                              *)
(***************************************************************************)
Level ==
  CASE zone.state \in {"idle", "active_with_person"} -> "rest"
    [] zone.state = "active_no_person"               -> "timing"
    [] zone.state = "temp_alarm"                     -> "overheated"
    [] OTHER                                         -> zone.state

Guard == INSTANCE StoveGuard WITH
           level <- Level, absence <- absence, limits <- alarm_config,
           Limits <- Configs, MaxAge <- MaxAge

\* Every operation of the state machine is a step of StoveGuard or none.
ImplementsGuard == Guard!Spec
=============================================================================
