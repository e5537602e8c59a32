-------------------------- MODULE FireSafetySystem --------------------------
(***************************************************************************)
(* The running monitor (src/main.py): the detection loop drives one state  *)
(* machine per stove from what the cameras and the serial bus report; the  *)
(* callbacks of a zone order the cut-off and set its announcement; clients *)
(* reset, enable, disable, delete and create zones; the emergency stop and *)
(* the patrol mode order cut-offs of their own; and the poll loop of the   *)
(* serial manager decides when a cut-off zone may be released by current.  *)
(*                                                                         *)
(* The zone logic is ZoneLogic.  Out of the serial manager come here only  *)
(* the reading is_fire_on (scene[z].burning) and the bookkeeping of a      *)
(* cut-off, whose instant cutoff_time is kept as its age; SerialManager    *)
(* models the bus.                                                         *)
(***************************************************************************)
EXTENDS ZoneLogic, Sequences, SequencesExt

CONSTANTS Zone,        \* the zone ids a client may use
          Settings,    \* get_config().alarm
          ResetDelay,  \* _cutoff_reset_delay
          Faults       \* what the environment may do besides cooking

ASSUME ZoneAssumption == IsFiniteSet(Zone)
ASSUME SettingsAssumption == Settings \in AlarmConfigs
ASSUME DelayAssumption == ResetDelay \in Ages
ASSUME FaultsAssumption ==
  Faults \subseteq {"freeze",     \* a zone's cameras deliver no frame
                    "stall",      \* the detection loop falls behind the clock
                    "error",      \* a pass of the detection loop raises
                    "patrol",     \* the patrol mode suspends the state machines
                    "serial",     \* the serial manager is stopped and restarted
                    "edit",       \* zones are deleted and created
                    "heat",       \* a stove gets hotter than temp_alarm_threshold
                    "poll_race"}  \* the poll loop is preempted between its test
                                  \*   of cutoff_time and its assignment

VARIABLES
  zones,               \* the ZoneStateMachine of each zone
  known,               \* zone_manager._zones, in insertion order
  enabled,             \* Zone.enabled
  scene,               \* what the sensors of each zone would report now
  serial,              \* ZoneCurrentInfo: cutoff_time (as its age), can_check_reset
  serial_up,           \* the serial manager has an event loop and a queue
  passed,              \* zones whose cutoff_time the poll loop found old enough
  patrol,              \* patrol_manager.is_active
  broadcast,           \* _broadcast_stop_flags: audio_type while active
  todo,                \* the zones left to the current pass of the loop
  looked,              \* the zone in hand and what the loop saw there
  swept,               \* a pass has begun since the clock last moved
  commanded,           \* history: zones whose cut-off was given to the serial bus
  unseen               \* history: time since the loop saw someone, or no fire, or
                       \*   the zone was brought to idle

vars == <<zones, known, enabled, scene, serial, serial_up, passed, patrol,
          broadcast, todo, looked, swept, commanded, unseen>>

loopVars   == <<todo, looked, swept>>
serialVars == <<serial, serial_up, passed>>

Nothing == [zone |-> "none"]

Scenes == [person: BOOLEAN, burning: BOOLEAN,
           camera: IF "freeze" \in Faults THEN BOOLEAN ELSE {TRUE},
           hot: IF "heat" \in Faults THEN BOOLEAN ELSE {FALSE}]

\* The audio_type each alarm callback puts in the broadcast queue.
Announcement(state) ==
  CASE state = "warning"    -> "warning"
    [] state = "alarm"      -> "alarm"
    [] state = "cutoff"     -> "action"
    [] state = "temp_alarm" -> "temp_alarm"
    [] OTHER                -> "silent"

NoCutoff == [cutoff_time |-> NotStarted, can_check |-> FALSE]

Init ==
  /\ zones = [z \in Zone |-> NewZone]
  /\ \E order \in SetToSeqs(Zone) : known = order
  /\ enabled = [z \in Zone |-> TRUE]
  /\ scene = [z \in Zone |-> [person |-> FALSE, burning |-> FALSE,
                              camera |-> TRUE, hot |-> FALSE]]
  /\ serial = [z \in Zone |-> NoCutoff]
  /\ serial_up = TRUE
  /\ passed = {}
  /\ patrol = FALSE
  /\ broadcast = [z \in Zone |-> "silent"]
  /\ todo = <<>>
  /\ looked = Nothing
  /\ swept = FALSE
  /\ commanded = {}
  /\ unseen = [z \in Zone |-> 0]

-----------------------------------------------------------------------------
(***************************************************************************)
(* What the callbacks of a zone do when it turns from old into new: the    *)
(* announcement is replaced on an alarm and withdrawn at rest, and on_cutoff *)
(* stamps cutoff_time and hands the command to the bus if there is one.    *)
(***************************************************************************)
Announce(z, old, new) ==
  broadcast' = IF Raises(old, new)   THEN [broadcast EXCEPT ![z] = Announcement(new.state)]
               ELSE IF Quietens(old, new) THEN [broadcast EXCEPT ![z] = "silent"]
               ELSE broadcast

\* serial_manager.cutoff(z)
StampCutoff(z) == [serial EXCEPT ![z] = [cutoff_time |-> 0, can_check |-> FALSE]]
\* Faulty variant (mutation runs): the command is not handed over.
AcceptedNever(z) == commanded
Accepted(z)    == IF serial_up THEN commanded \cup {z} ELSE commanded

EntersCutoff(old, new) == new.state = "cutoff" /\ old.state # "cutoff"

\* A zone that has left cutoff awaits no command.
Settled(z, new, cmds) == IF new.state = "cutoff" THEN cmds ELSE cmds \ {z}

-----------------------------------------------------------------------------
(***************************************************************************)
(* The detection loop, one zone after the other over a copy of the list.   *)
(***************************************************************************)
LoopStart ==
  /\ todo = <<>> /\ looked = Nothing
  /\ todo' = known
  /\ swept' = TRUE
  /\ UNCHANGED <<zones, known, enabled, scene, serialVars, patrol, broadcast,
                 looked, commanded, unseen>>

\* Faulty variant (mutation runs): a disabled zone is skipped as it is.
LoopDisabledSkips ==
  /\ looked = Nothing /\ todo # <<>>
  /\ ~enabled[Head(todo)]
  /\ todo' = Tail(todo)
  /\ UNCHANGED <<zones, known, enabled, scene, serialVars, patrol, broadcast,
                 looked, swept, commanded, unseen>>

\* A disabled zone is silenced and forced to idle.
LoopDisabled ==
  /\ looked = Nothing /\ todo # <<>>
  /\ LET z == Head(todo) IN
       /\ ~enabled[z]
       /\ zones' = [zones EXCEPT ![z] = AfterForceIdle(zones[z])]
       /\ broadcast' = [broadcast EXCEPT ![z] = "silent"]
       /\ commanded' = Settled(z, zones'[z], commanded)
       /\ unseen' = [unseen EXCEPT ![z] = 0]
  /\ todo' = Tail(todo)
  /\ UNCHANGED <<known, enabled, scene, serialVars, patrol, looked, swept>>

\* No camera of the zone has a frame: the zone is skipped, its state frozen.
LoopFrozen ==
  /\ looked = Nothing /\ todo # <<>>
  /\ enabled[Head(todo)] /\ ~scene[Head(todo)].camera
  /\ todo' = Tail(todo)
  /\ UNCHANGED <<zones, known, enabled, scene, serialVars, patrol, broadcast,
                 looked, swept, commanded, unseen>>

\* The detector and the fire reading are consulted; no temperature is.
LoopLook ==
  /\ looked = Nothing /\ todo # <<>>
  /\ LET z == Head(todo) IN
       /\ enabled[z] /\ scene[z].camera
       /\ looked' = [zone |-> z,
                     obs  |-> [has_person  |-> scene[z].person,
                               is_fire_on  |-> scene[z].burning,
                               temperature |-> "none"]]
  /\ todo' = Tail(todo)
  /\ UNCHANGED <<zones, known, enabled, scene, serialVars, patrol, broadcast,
                 swept, commanded, unseen>>

\* can_reset_by_current(z), as update() asks for it.
CanReset(z) == serial[z].can_check /\ scene[z].burning

\* The observation is written to the zone and, outside patrol mode, update()
\* runs with its callbacks.
LoopUpdate ==
  /\ looked # Nothing
  /\ LET z   == looked.zone
         obs == looked.obs
         old == zones[z]
         new == IF patrol THEN [old EXCEPT !.has_person = obs.has_person,
                                           !.is_fire_on = obs.is_fire_on]
                ELSE AfterUpdate(old, obs, Settings, CanReset(z))
     IN  /\ zones' = [zones EXCEPT ![z] = new]
         /\ Announce(z, old, new)
         /\ serial' = IF EntersCutoff(old, new) THEN StampCutoff(z)
                      ELSE IF ~patrol /\ ClearsCutoff(old, obs, CanReset(z))
                      THEN [serial EXCEPT ![z] = NoCutoff]
                      ELSE serial
         /\ commanded' = IF EntersCutoff(old, new) THEN Accepted(z)
                         ELSE Settled(z, new, commanded)
         /\ unseen' = IF obs.has_person \/ ~obs.is_fire_on \/ new.state = "idle"
                      THEN [unseen EXCEPT ![z] = 0] ELSE unseen
  /\ looked' = Nothing
  /\ UNCHANGED <<known, enabled, scene, serial_up, passed, patrol, todo, swept>>

\* An exception abandons the pass, the zones after this one included.
LoopError ==
  /\ "error" \in Faults
  /\ todo # <<>> \/ looked # Nothing
  /\ todo' = <<>> /\ looked' = Nothing
  /\ UNCHANGED <<zones, known, enabled, scene, serialVars, patrol, broadcast,
                 swept, commanded, unseen>>

-----------------------------------------------------------------------------
(***************************************************************************)
(* The clients.                                                            *)
(***************************************************************************)
\* The zone is brought to idle through its own lock, with its callbacks.
Rested(z, new) ==
  /\ zones' = [zones EXCEPT ![z] = new]
  /\ Announce(z, zones[z], new)
  /\ commanded' = Settled(z, new, commanded)
  /\ unseen' = IF new.state = "idle" THEN [unseen EXCEPT ![z] = 0] ELSE unseen

ResetZone(z) ==
  /\ z \in Range(known)
  /\ Rested(z, AfterReset(zones[z]))
  /\ UNCHANGED <<known, enabled, scene, serialVars, patrol, loopVars>>

SetEnabled(z, on) ==
  /\ z \in Range(known)
  /\ enabled' = [enabled EXCEPT ![z] = on]
  /\ Rested(z, IF on THEN zones[z] ELSE AfterForceIdle(zones[z]))
  /\ UNCHANGED <<known, scene, serialVars, patrol, loopVars>>

\* delete_zone: the state machine is dropped from the manager, nothing else.
DeleteZone(z) ==
  /\ "edit" \in Faults
  /\ \E i \in DOMAIN known : known[i] = z /\ known' = RemoveAt(known, i)
  /\ UNCHANGED <<zones, enabled, scene, serialVars, patrol, broadcast, loopVars,
                 commanded, unseen>>

\* add_zone: a state machine of its own, with the callbacks of the others.
AddZone(z) ==
  /\ known' = Append(known, z)
  /\ zones' = [zones EXCEPT ![z] = NewZone]

\* create_zone gives out the lowest id that is free, so that ids come back.
\* Bound: the pass that still held the old state machine is over.
CreateZone(z) ==
  /\ "edit" \in Faults
  /\ z \notin Range(known) /\ z \notin Range(todo) /\ looked.zone # z
  /\ AddZone(z)
  /\ enabled' = [enabled EXCEPT ![z] = TRUE]
  /\ serial' = [serial EXCEPT ![z] = NoCutoff]
  /\ scene' = [scene EXCEPT ![z].burning = FALSE]
  /\ commanded' = commanded \ {z}
  /\ unseen' = [unseen EXCEPT ![z] = 0]
  /\ UNCHANGED <<serial_up, passed, patrol, broadcast, loopVars>>

\* The emergency stop (zone by zone, the enabled ones) and the patrol demos and
\* forced cut-offs order a cut-off without touching the state machine.
ForceCutoff(z) ==
  /\ z \in Range(known)
  /\ serial' = StampCutoff(z)
  /\ commanded' = IF zones[z].state = "cutoff" THEN Accepted(z) ELSE commanded
  /\ UNCHANGED <<zones, known, enabled, scene, serial_up, passed, patrol,
                 broadcast, loopVars, unseen>>

Patrol ==
  /\ "patrol" \in Faults
  /\ patrol' = ~patrol
  /\ UNCHANGED <<zones, known, enabled, scene, serialVars, broadcast, loopVars,
                 commanded, unseen>>

-----------------------------------------------------------------------------
(***************************************************************************)
(* The serial manager's side of a cut-off, the kitchen, and the clock.     *)
(***************************************************************************)
\* Faulty variant (mutation runs): the delay is not waited for.
OldEnoughAtOnce(z) == serial[z].cutoff_time # NotStarted

OldEnough(z) ==
  serial[z].cutoff_time # NotStarted /\ serial[z].cutoff_time >= ResetDelay

\* One zone of a poll round: the test and the assignment hold no lock.
PollAllow(z) ==
  /\ serial_up /\ enabled[z] /\ OldEnough(z)
  /\ IF "poll_race" \in Faults
     THEN passed' = passed \cup {z} /\ UNCHANGED serial
     ELSE serial' = [serial EXCEPT ![z].can_check = TRUE] /\ UNCHANGED passed
  /\ UNCHANGED <<zones, known, enabled, scene, serial_up, patrol, broadcast,
                 loopVars, commanded, unseen>>

PollAssign(z) ==
  /\ z \in passed
  /\ passed' = passed \ {z}
  /\ serial' = [serial EXCEPT ![z].can_check = TRUE]
  /\ UNCHANGED <<zones, known, enabled, scene, serial_up, patrol, broadcast,
                 loopVars, commanded, unseen>>

\* update_serial_config stops the manager, which then accepts no command, and
\* initializes it again.
RestartSerial ==
  /\ "serial" \in Faults
  /\ serial_up' = ~serial_up
  /\ UNCHANGED <<zones, known, enabled, scene, serial, passed, patrol, broadcast,
                 loopVars, commanded, unseen>>

\* People, fires, cameras and heat; the fire reading changes with the bus up.
Kitchen(z) ==
  /\ \E s \in Scenes :
       /\ s # scene[z]
       /\ s.burning = scene[z].burning \/ serial_up
       /\ scene' = [scene EXCEPT ![z] = s]
  /\ UNCHANGED <<zones, known, enabled, serialVars, patrol, broadcast, loopVars,
                 commanded, unseen>>

\* Bound on speed: the loop makes ten passes a second and the unit of time is a
\* second or more, so a pass fits between two ticks unless the loop stalls.
Tick ==
  /\ "stall" \in Faults \/ (swept /\ todo = <<>> /\ looked = Nothing)
  /\ zones' = [z \in Zone |-> [zones[z] EXCEPT !.timer = Older(@)]]
  /\ serial' = [z \in Zone |-> [serial[z] EXCEPT !.cutoff_time = Older(@)]]
  /\ unseen' = [z \in Zone |-> Older(unseen[z])]
  /\ swept' = FALSE
  /\ UNCHANGED <<known, enabled, scene, serial_up, passed, patrol, broadcast,
                 todo, looked, commanded>>

-----------------------------------------------------------------------------
Loop   == LoopStart \/ LoopDisabled \/ LoopFrozen \/ LoopLook \/ LoopUpdate
            \/ LoopError
Client == \E z \in Zone :
            \/ ResetZone(z) \/ DeleteZone(z) \/ CreateZone(z) \/ ForceCutoff(z)
            \/ \E on \in BOOLEAN : SetEnabled(z, on)
Poll   == \E z \in Zone : PollAllow(z) \/ PollAssign(z)

Next == Loop \/ Client \/ Poll \/ Patrol \/ RestartSerial \/ Tick
          \/ \E z \in Zone : Kitchen(z)

Spec == Init /\ [][Next]_vars

\* The threads of the loops and the clock go on (the clock strongly: between two ticks
\* the loop makes many passes, each of which disables Tick for a while); nobody
\* owes the system anything else.
FairSpec ==
  /\ Spec
  /\ WF_vars(LoopStart)
  /\ WF_vars(LoopDisabled \/ LoopFrozen \/ LoopLook)
  /\ WF_vars(LoopUpdate)
  /\ WF_vars(\E z \in Zone : PollAssign(z))
  /\ SF_vars(Tick)

-----------------------------------------------------------------------------
(***************************************************************************)
(* Properties                                                              *)
(***************************************************************************)
TypeOK ==
  /\ zones \in [Zone -> Zones]
  /\ known \in Seq(Zone) /\ todo \in Seq(Zone)
  /\ enabled \in [Zone -> BOOLEAN]
  /\ scene \in [Zone -> Scenes]
  /\ serial \in [Zone -> [cutoff_time: Timers, can_check: BOOLEAN]]
  /\ serial_up \in BOOLEAN /\ patrol \in BOOLEAN /\ swept \in BOOLEAN
  /\ passed \subseteq Zone /\ commanded \subseteq Zone
  /\ broadcast \in [Zone -> {"silent", "warning", "alarm", "action", "temp_alarm"}]
  /\ looked = Nothing \/ looked \in [zone: Zone, obs: Observations]
  /\ unseen \in [Zone -> Ages]

Enters(z, state) == zones'[z].state = state /\ zones[z].state # state

\* What is announced for a zone is what its state calls for, whoever brought it
\* there: the loop, a reset, a disabling, and whatever patrol mode skips.
AnnouncementMatches ==
  \A z \in Zone : broadcast[z] = Announcement(zones[z].state)

\* main.py, _on_state_change: the announcements of a zone stop when it becomes
\* idle or attended.
SilentAtRest ==
  \A z \in Range(known) :
    zones[z].state \in {"idle", "active_with_person"} => broadcast[z] = "silent"

\* A zone is cut off only when nobody has been seen at its fire for action_time,
\* camera failures and stalls of the loop notwithstanding.
CutNeedsAbsence ==
  [][\A z \in Zone : Enters(z, "cutoff") => unseen[z] >= Settings.action_time]_vars

\* docs/websocket_protocol.md: the ladder is climbed step by step; a cut-off has
\* been announced by a warning and by an alarm.
StepByStep ==
  [][\A z \in Zone : /\ Enters(z, "alarm")  => zones[z].state = "warning"
                     /\ Enters(z, "cutoff") => zones[z].state = "alarm"]_vars

\* state_machine.py, _check_current_reset: a cut-off zone is released by its
\* current only ResetDelay after its (last) cut-off.
ReleaseWaits ==
  [][\A z \in Zone :
       /\ zones[z].state = "cutoff" /\ zones'[z].state = "idle"
       /\ looked # Nothing /\ looked' = Nothing /\ looked.zone = z
       /\ looked.obs.is_fire_on /\ ~looked.obs.has_person
       => serial[z].cutoff_time >= ResetDelay]_vars

\* A zone that shows cutoff has had its cut-off given to the serial bus, or will
\* have once the bus stays up, unless it leaves the state.
CutIsCarriedOut ==
  \A z \in Zone : <>[]serial_up => (zones[z].state = "cutoff"
                                       ~> z \in commanded \/ zones[z].state # "cutoff")

\* A fire that burns on with nobody there, at a zone that is monitored.
Neglected(z) ==
  /\ z \in Range(known) /\ enabled[z] /\ ~patrol
  /\ scene[z].burning /\ ~scene[z].person /\ scene[z].camera

\* Unless somebody keeps resetting it, a neglected stove is cut off, and cut off
\* again each time its current has released it, with the command given to a serial
\* bus that is up.
NeglectIsCut ==
  \A z \in Zone :
    []serial_up /\ <>[]Neglected(z) /\ <>[][~ResetZone(z)]_vars
      => []<>(zones[z].state = "cutoff" /\ z \in commanded)

\* A disabled zone comes to rest and stays silent, even when it is disabled
\* between the loop's look and its update.
DisabledGoesQuiet ==
  \A z \in Zone :
    <>[](z \in Range(known) /\ ~enabled[z])
      => <>[](zones[z].state = "idle" /\ broadcast[z] = "silent")

\* docs/websocket_protocol.md: too hot with nobody there is a temperature alarm.
HotStoveAlarms ==
  \A z \in Zone : <>[](Neglected(z) /\ scene[z].hot) /\ <>[][~ResetZone(z)]_vars
                    => <>(zones[z].state = "temp_alarm")
=============================================================================
