----------------------- MODULE FireSafetySystemProofs -----------------------
(***************************************************************************)
(* Proofs about the running monitor, for any finite set of zones, any      *)
(* settings and any delay: types, announcements, and when a stove is cut   *)
(* off and released.                                                       *)
(***************************************************************************)
EXTENDS FireSafetySystem, FiniteSetTheorems, SequenceTheorems, TLAPS

-----------------------------------------------------------------------------
(***************************************************************************)
(* The decisions of one zone, as the loop calls for them: without a        *)
(* temperature.                                                            *)
(***************************************************************************)
\* The values of Rank, spelled out once for the provers.
LEMMA RankValues ==
  /\ Rank["idle"] = 0 /\ Rank["active_with_person"] = 0
  /\ Rank["active_no_person"] = 1 /\ Rank["warning"] = 2
  /\ Rank["alarm"] = 3 /\ Rank["cutoff"] = 4 /\ Rank["temp_alarm"] = 0
BY DEF Rank, ZoneStates

\* A timer stays a timer when time passes, and the older of two ages stays so.
LEMMA OlderType ==
  /\ \A t \in Timers : Older(t) \in Timers
  /\ \A t \in Ages : Older(t) \in Ages /\ Older(t) >= t
  /\ \A t \in Timers, u \in Ages : t <= u => Older(t) <= Older(u)
BY MaxAgeAssumption DEF Older, Timers, Ages, NotStarted

\* A zone brought to rest.
LEMMA RestEffect ==
  ASSUME NEW z \in Zones
  PROVE  /\ AtRest(z) \in Zones
         /\ AtRest(z).state = "idle" /\ AtRest(z).timer = NotStarted
BY DEF AtRest, Zones, ZoneStates, Timers

\* What reset() and force_idle() make of a zone.
LEMMA ClientEffect ==
  ASSUME NEW z \in Zones
  PROVE  /\ AfterReset(z) \in Zones /\ AfterForceIdle(z) \in Zones
         /\ AfterForceIdle(z).state = "idle"
         /\ AfterReset(z) = z \/ AfterReset(z) = AtRest(z)
         /\ AfterForceIdle(z) = z \/ AfterForceIdle(z) = AtRest(z)
BY RestEffect DEF AfterReset, AfterForceIdle

\* A zone that is counted as unattended keeps its state or climbs to the stage of
\* its timer.
LEMMA UnattendedEffect ==
  ASSUME NEW z \in Zones, NEW cfg \in AlarmConfigs,
         NEW n, n = Unattended(z, cfg)
  PROVE  /\ n \in Zones
         /\ n.timer = IF z.timer = NotStarted THEN 0 ELSE z.timer
         /\ n.state # "idle"
         /\ \/ n.state = z.state
            \/ n.state = Stage(cfg, n.timer) /\ Rank[n.state] > Rank[z.state]
<1> DEFINE age == IF z.timer = NotStarted THEN 0 ELSE z.timer
           st  == IF Rank[Stage(cfg, age)] > Rank[z.state]
                  THEN Stage(cfg, age) ELSE z.state
<1>1. age \in Timers /\ Stage(cfg, age) \in ZoneStates
  BY MaxAgeAssumption DEF Zones, Timers, Ages, NotStarted, Stage, ZoneStates
<1>2. st \in ZoneStates /\ st # "idle"
  <2>1. Rank[Stage(cfg, age)] > 0 /\ Stage(cfg, age) # "idle"
    BY RankValues DEF Stage
  <2> QED
    BY <1>1, <2>1, RankValues DEF Zones
<1>3. n = [z EXCEPT !.timer = age, !.state = st]
  BY DEF Unattended
<1> HIDE DEF age, st
<1>4. n \in Zones /\ n.timer = age /\ n.state = st
  BY <1>1, <1>2, <1>3 DEF Zones
<1> QED
  BY <1>2, <1>4 DEF age, st

\* The outcomes of update() without a temperature, at a zone that is in no
\* temperature alarm.
Rests(n)       == n.state = "idle" /\ n.timer = NotStarted
Holds(z, n, obs) ==
  /\ z.state = "cutoff" /\ n.state = "cutoff" /\ n.timer = z.timer
  /\ ~obs.has_person /\ obs.is_fire_on
Attends(n, obs) ==
  obs.has_person /\ n.state = "active_with_person" /\ n.timer = NotStarted
Counts(z, n, obs) ==
  /\ z.state # "cutoff" /\ ~obs.has_person /\ obs.is_fire_on
  /\ n.state # "idle"
  /\ n.timer = IF z.timer = NotStarted THEN 0 ELSE z.timer
  /\ \/ n.state = z.state
     \/ n.state = Stage(Settings, n.timer) /\ Rank[n.state] > Rank[z.state]

LEMMA UpdateOutcomes ==
  ASSUME NEW z \in Zones, z.state # "temp_alarm",
         NEW obs \in Observations, obs.temperature = "none",
         NEW cr \in BOOLEAN, NEW n, n = AfterUpdate(z, obs, Settings, cr)
  PROVE  /\ n \in Zones
         /\ Rests(n) \/ Holds(z, n, obs) \/ Attends(n, obs) \/ Counts(z, n, obs)
         /\ z.state = "cutoff" /\ n.state # "cutoff" =>
              obs.has_person \/ ~obs.is_fire_on \/ cr
<1> DEFINE seen == [z EXCEPT !.has_person = obs.has_person,
                             !.is_fire_on = obs.is_fire_on]
<1>1. seen \in Zones /\ seen.state = z.state /\ seen.timer = z.timer
  BY DEF Zones, Observations
<1>2. n = IF Released(z, obs, cr)      THEN AtRest(seen)
          ELSE IF Latched(z)           THEN seen
          ELSE IF obs.has_person       THEN Attended(seen)
          ELSE Unattended(seen, Settings)
  BY DEF AfterUpdate, Overheated
<1> HIDE DEF seen
<1>3. CASE Released(z, obs, cr)
  BY <1>1, <1>2, <1>3, RestEffect DEF Rests, Released
<1>4. CASE ~Released(z, obs, cr) /\ Latched(z)
  BY <1>1, <1>2, <1>4 DEF Latched, Released, Holds
<1>5. CASE ~Released(z, obs, cr) /\ ~Latched(z) /\ obs.has_person
  BY <1>1, <1>2, <1>5 DEF AtRest, Attended, Zones, ZoneStates, Timers, Attends, Latched
<1>6. CASE ~Released(z, obs, cr) /\ ~Latched(z) /\ ~obs.has_person
  <2>1. n = Unattended(seen, Settings)
    BY <1>2, <1>6
  <2> QED
    BY <1>1, <1>6, <2>1, UnattendedEffect, SettingsAssumption
       DEF Latched, Released, Counts
<1> QED
  BY <1>3, <1>4, <1>5, <1>6

-----------------------------------------------------------------------------
(***************************************************************************)
(* Types.                                                                  *)
(***************************************************************************)
\* The loop passes update() no temperature, so that no zone gets too hot.
NeverHot ==
  /\ \A z \in Zone : zones[z].state # "temp_alarm"
  /\ looked # Nothing => looked.obs.temperature = "none"

Typed == TypeOK /\ NeverHot

\* Initially every variable has its type.
LEMMA InitTyped == Init => Typed
<1> SUFFICES ASSUME Init PROVE Typed
  OBVIOUS
<1>1. NewZone \in Zones /\ NewZone.state = "idle" /\ 0 \in Ages
  BY MaxAgeAssumption DEF NewZone, Zones, ZoneStates, Timers, Ages
<1>2. known \in Seq(Zone)
  <2>1. Cardinality(Zone) \in Nat
    BY ZoneAssumption, FS_CardinalityType
  <2>2. known \in [1 .. Cardinality(Zone) -> Zone]
    BY DEF Init, SetToSeqs
  <2> QED
    BY <2>1, <2>2
<1>3. NoCutoff \in [cutoff_time: Timers, can_check: BOOLEAN]
  BY DEF NoCutoff, Timers
<1>4. [person |-> FALSE, burning |-> FALSE, camera |-> TRUE, hot |-> FALSE] \in Scenes
  BY DEF Scenes
<1>5. TypeOK
  <2>1. todo \in Seq(Zone)
    BY DEF Init
  <2>2. passed \subseteq Zone /\ commanded \subseteq Zone
    BY DEF Init
  <2>3. /\ zones \in [Zone -> Zones] /\ enabled \in [Zone -> BOOLEAN]
        /\ unseen \in [Zone -> Ages]
    BY <1>1 DEF Init
  <2>4. scene \in [Zone -> Scenes]
    BY <1>4 DEF Init
  <2>5. serial \in [Zone -> [cutoff_time: Timers, can_check: BOOLEAN]]
    BY <1>3 DEF Init
  <2> QED
    BY <1>2, <2>1, <2>2, <2>3, <2>4, <2>5 DEF Init, TypeOK
<1>6. NeverHot
  BY <1>1 DEF Init, NeverHot
<1> QED
  BY <1>5, <1>6 DEF Typed

\* What the loop hands to update().
LEMMA LookedType ==
  ASSUME Typed, looked # Nothing
  PROVE  /\ looked.zone \in Zone /\ looked.obs \in Observations
         /\ looked.obs.temperature = "none"
         /\ zones[looked.zone] \in Zones /\ zones[looked.zone].state # "temp_alarm"
         /\ CanReset(looked.zone) \in BOOLEAN
BY DEF Typed, TypeOK, NeverHot, CanReset

\* The next state of the zone in hand, as LoopUpdate makes it.
Updated ==
  IF patrol THEN [zones[looked.zone] EXCEPT !.has_person = looked.obs.has_person,
                                            !.is_fire_on = looked.obs.is_fire_on]
  ELSE AfterUpdate(zones[looked.zone], looked.obs, Settings, CanReset(looked.zone))

\* The update of a zone leaves it in patrol mode, or has one of the four outcomes.
LEMMA UpdatedOutcomes ==
  ASSUME Typed, looked # Nothing
  PROVE  LET old == zones[looked.zone]
         IN  /\ Updated \in Zones /\ Updated.state # "temp_alarm"
             /\ \/ patrol /\ Updated.state = old.state /\ Updated.timer = old.timer
                \/ ~patrol /\ Rests(Updated)
                \/ ~patrol /\ Holds(old, Updated, looked.obs)
                \/ ~patrol /\ Attends(Updated, looked.obs)
                \/ ~patrol /\ Counts(old, Updated, looked.obs)
             /\ ~patrol /\ old.state = "cutoff" /\ Updated.state # "cutoff" =>
                  \/ looked.obs.has_person \/ ~looked.obs.is_fire_on
                  \/ CanReset(looked.zone)
<1> DEFINE old == zones[looked.zone]
<1>1. CASE patrol
  <2>1. Updated = [old EXCEPT !.has_person = looked.obs.has_person,
                              !.is_fire_on = looked.obs.is_fire_on]
    BY <1>1 DEF Updated
  <2> QED
    BY <1>1, <2>1, LookedType DEF Zones, Observations
<1>2. CASE ~patrol
  <2>1. Updated = AfterUpdate(old, looked.obs, Settings, CanReset(looked.zone))
    BY <1>2 DEF Updated
  <2>2. /\ Updated \in Zones
        /\ \/ Rests(Updated) \/ Holds(old, Updated, looked.obs)
           \/ Attends(Updated, looked.obs) \/ Counts(old, Updated, looked.obs)
        /\ old.state = "cutoff" /\ Updated.state # "cutoff" =>
             looked.obs.has_person \/ ~looked.obs.is_fire_on \/ CanReset(looked.zone)
    BY <2>1, LookedType, UpdateOutcomes
  <2>3. \A cfg, d : Stage(cfg, d) # "temp_alarm"
    BY DEF Stage
  <2>4. Updated.state # "temp_alarm"
    BY <2>2, <2>3, LookedType DEF Rests, Holds, Attends, Counts
  <2> QED
    BY <1>2, <2>2, <2>4
<1> QED
  BY <1>1, <1>2

\* The announcements of a zone are of a known kind.
Kinds == {"silent", "warning", "alarm", "action", "temp_alarm"}

LEMMA AnnounceType ==
  ASSUME broadcast \in [Zone -> Kinds], NEW z \in Zone, NEW old, NEW new,
         Announce(z, old, new)
  PROVE  broadcast' \in [Zone -> Kinds]
<1>1. Announcement(new.state) \in Kinds
  BY DEF Announcement, Kinds
<1> QED
  BY <1>1 DEF Announce, Kinds

\* A step that brings a zone to rest keeps the types.
LEMMA RestedTyped ==
  ASSUME Typed, NEW z \in Zone, NEW new \in Zones, Rested(z, new),
         new.state # "temp_alarm"
  PROVE  /\ zones' \in [Zone -> Zones] /\ broadcast' \in [Zone -> Kinds]
         /\ commanded' \subseteq Zone /\ unseen' \in [Zone -> Ages]
         /\ \A y \in Zone : zones'[y].state # "temp_alarm"
<1>1. broadcast \in [Zone -> Kinds]
  BY DEF Typed, TypeOK, Kinds
<1>2. broadcast' \in [Zone -> Kinds]
  BY <1>1, AnnounceType DEF Rested
<1>3. 0 \in Ages
  BY MaxAgeAssumption DEF Ages
<1>4. zones \in [Zone -> Zones] /\ commanded \subseteq Zone /\ unseen \in [Zone -> Ages]
  BY DEF Typed, TypeOK
<1> QED
  BY <1>2, <1>3, <1>4 DEF Rested, Settled, Typed, NeverHot

\* Every step keeps the types.
LEMMA TypedStep == Typed /\ [Next]_vars => Typed'
<1> SUFFICES ASSUME Typed, [Next]_vars PROVE Typed'
  OBVIOUS
<1>0. /\ 0 \in Ages /\ NewZone \in Zones /\ NewZone.state = "idle"
      /\ NoCutoff \in [cutoff_time: Timers, can_check: BOOLEAN]
      /\ [cutoff_time |-> 0, can_check |-> FALSE] \in [cutoff_time: Timers, can_check: BOOLEAN]
  BY MaxAgeAssumption DEF NewZone, NoCutoff, Zones, ZoneStates, Timers, Ages
<1>1. CASE LoopStart
  BY <1>1 DEF LoopStart, Typed, TypeOK, NeverHot, serialVars
<1>2. CASE LoopDisabled
  <2>1. Head(todo) \in Zone /\ Tail(todo) \in Seq(Zone)
    BY <1>2 DEF LoopDisabled, Typed, TypeOK
  <2>2. /\ AfterForceIdle(zones[Head(todo)]) \in Zones
        /\ AfterForceIdle(zones[Head(todo)]).state = "idle"
    BY <2>1, ClientEffect DEF Typed, TypeOK
  <2> QED
    BY <1>0, <1>2, <2>1, <2>2
       DEF LoopDisabled, Typed, TypeOK, NeverHot, serialVars, Settled
<1>3. CASE LoopFrozen
  BY <1>3 DEF LoopFrozen, Typed, TypeOK, NeverHot, serialVars
<1>4. CASE LoopLook
  <2>1. Head(todo) \in Zone /\ Tail(todo) \in Seq(Zone)
    BY <1>4 DEF LoopLook, Typed, TypeOK
  <2>2. scene[Head(todo)].person \in BOOLEAN /\ scene[Head(todo)].burning \in BOOLEAN
    BY <2>1 DEF Typed, TypeOK, Scenes
  <2>3. looked' \in [zone: Zone, obs: Observations] /\ looked'.obs.temperature = "none"
    BY <1>4, <2>1, <2>2 DEF LoopLook, Observations, Temperatures
  <2> QED
    BY <1>4, <2>1, <2>3 DEF LoopLook, Typed, TypeOK, NeverHot, serialVars
<1>5. CASE LoopUpdate
  <2>1. looked # Nothing
    BY <1>5 DEF LoopUpdate
  <2>2. looked.zone \in Zone /\ Updated \in Zones /\ Updated.state # "temp_alarm"
    BY <2>1, LookedType, UpdatedOutcomes
  <2>3. broadcast' \in [Zone -> Kinds]
    <3>1. Announce(looked.zone, zones[looked.zone], Updated)
      BY <1>5 DEF LoopUpdate, Updated
    <3> QED
      BY <2>2, <3>1, AnnounceType DEF Typed, TypeOK, Kinds
  <2>4. zones' = [zones EXCEPT ![looked.zone] = Updated]
    BY <1>5 DEF LoopUpdate, Updated
  <2>5. serial' \in [Zone -> [cutoff_time: Timers, can_check: BOOLEAN]]
    BY <1>0, <1>5, <2>2 DEF LoopUpdate, StampCutoff, Typed, TypeOK
  <2>6. commanded' \subseteq Zone
    BY <1>5, <2>2 DEF LoopUpdate, Accepted, Settled, Typed, TypeOK
  <2>7. unseen' \in [Zone -> Ages]
    BY <1>0, <1>5 DEF LoopUpdate, Typed, TypeOK
  <2>8. NeverHot' /\ zones' \in [Zone -> Zones]
    BY <1>5, <2>2, <2>4 DEF LoopUpdate, Typed, TypeOK, NeverHot
  <2> QED
    BY <1>5, <2>3, <2>5, <2>6, <2>7, <2>8
       DEF LoopUpdate, Typed, TypeOK, Kinds
<1>6. CASE LoopError
  BY <1>6 DEF LoopError, Typed, TypeOK, NeverHot, serialVars
<1>7. ASSUME NEW z \in Zone, ResetZone(z) PROVE Typed'
  <2>1. /\ AfterReset(zones[z]) \in Zones
        /\ AfterReset(zones[z]).state # "temp_alarm"
    BY ClientEffect, RestEffect DEF Typed, TypeOK, NeverHot
  <2> QED
    BY <1>7, <2>1, RestedTyped
       DEF ResetZone, Typed, TypeOK, NeverHot, serialVars, loopVars, Kinds
<1>8. ASSUME NEW z \in Zone, NEW on \in BOOLEAN, SetEnabled(z, on) PROVE Typed'
  <2> DEFINE new == IF on THEN zones[z] ELSE AfterForceIdle(zones[z])
  <2>1. new \in Zones /\ new.state # "temp_alarm"
    BY ClientEffect DEF Typed, TypeOK, NeverHot
  <2>2. Rested(z, new)
    BY <1>8 DEF SetEnabled
  <2> QED
    BY <1>8, <2>1, <2>2, RestedTyped
       DEF SetEnabled, Typed, TypeOK, NeverHot, serialVars, loopVars, Kinds
<1>9. ASSUME NEW z \in Zone, DeleteZone(z) PROVE Typed'
  <2>1. known' \in Seq(Zone)
    <3>1. PICK i \in DOMAIN known : known' = RemoveAt(known, i)
      BY <1>9 DEF DeleteZone
    <3>2. known \in Seq(Zone) /\ i \in 1 .. Len(known)
      BY DEF Typed, TypeOK
    <3>3. SubSeq(known, 1, i - 1) \in Seq(Zone) /\ SubSeq(known, i + 1, Len(known)) \in Seq(Zone)
      BY <3>2
    <3> QED
      BY <3>1, <3>3 DEF RemoveAt
  <2> QED
    BY <1>9, <2>1 DEF DeleteZone, Typed, TypeOK, NeverHot, serialVars, loopVars
<1>10. ASSUME NEW z \in Zone, CreateZone(z) PROVE Typed'
  <2>1. scene' \in [Zone -> Scenes]
    <3>1. scene[z] \in Scenes
      BY DEF Typed, TypeOK
    <3>2. [scene[z] EXCEPT !.burning = FALSE] \in Scenes
      BY <3>1 DEF Scenes
    <3> QED
      BY <1>10, <3>2 DEF CreateZone, Typed, TypeOK
  <2> QED
    BY <1>0, <1>10, <2>1
       DEF CreateZone, AddZone, Typed, TypeOK, NeverHot, serialVars, loopVars
<1>11. ASSUME NEW z \in Zone, ForceCutoff(z) PROVE Typed'
  BY <1>0, <1>11 DEF ForceCutoff, StampCutoff, Accepted, Typed, TypeOK, NeverHot, loopVars
<1>12. ASSUME NEW z \in Zone, PollAllow(z) \/ PollAssign(z) PROVE Typed'
  <2>1. [serial EXCEPT ![z].can_check = TRUE]
          \in [Zone -> [cutoff_time: Timers, can_check: BOOLEAN]]
    BY DEF Typed, TypeOK
  <2>2. /\ serial' \in [Zone -> [cutoff_time: Timers, can_check: BOOLEAN]]
        /\ passed' \subseteq Zone
    BY <1>12, <2>1 DEF PollAllow, PollAssign, Typed, TypeOK
  <2> QED
    BY <1>12, <2>2 DEF PollAllow, PollAssign, Typed, TypeOK, NeverHot, loopVars
<1>13. CASE Patrol
  BY <1>13 DEF Patrol, Typed, TypeOK, NeverHot, serialVars, loopVars
<1>14. CASE RestartSerial
  BY <1>14 DEF RestartSerial, Typed, TypeOK, NeverHot, serialVars, loopVars
<1>15. CASE Tick
  <2>1. \A z \in Zone : [zones[z] EXCEPT !.timer = Older(@)] \in Zones
                        /\ [zones[z] EXCEPT !.timer = Older(@)].state # "temp_alarm"
    BY OlderType DEF Typed, TypeOK, NeverHot, Zones
  <2>2. \A z \in Zone : [serial[z] EXCEPT !.cutoff_time = Older(@)]
                          \in [cutoff_time: Timers, can_check: BOOLEAN]
    BY OlderType DEF Typed, TypeOK
  <2>3. \A z \in Zone : Older(unseen[z]) \in Ages
    BY OlderType DEF Typed, TypeOK
  <2> QED
    BY <1>15, <2>1, <2>2, <2>3 DEF Tick, Typed, TypeOK, NeverHot
<1>16. ASSUME NEW z \in Zone, Kitchen(z) PROVE Typed'
  BY <1>16 DEF Kitchen, Typed, TypeOK, NeverHot, serialVars, loopVars
<1>17. CASE UNCHANGED vars
  BY <1>17 DEF vars, Typed, TypeOK, NeverHot
<1> QED
  BY <1>1, <1>2, <1>3, <1>4, <1>5, <1>6, <1>7, <1>8, <1>9, <1>10, <1>11, <1>12,
     <1>13, <1>14, <1>15, <1>16, <1>17 DEF Next, Loop, Client, Poll

\* The types hold of every behaviour.
LEMMA AlwaysTyped == Spec => []Typed
BY InitTyped, TypedStep, PTL DEF Spec

\* Every variable of the running monitor keeps its type, whatever the faults.
THEOREM TypeCorrect == Spec => []TypeOK
<1>1. Typed => TypeOK
  BY DEF Typed
<1> QED
  BY <1>1, AlwaysTyped, PTL

\* No zone is ever in a temperature alarm, at any heat: the loop passes update()
\* no temperature (src/main.py:587).
THEOREM NoTemperatureAlarm == Spec => [](\A z \in Zone : zones[z].state # "temp_alarm")
<1>1. Typed => \A z \in Zone : zones[z].state # "temp_alarm"
  BY DEF Typed, NeverHot
<1> QED
  BY <1>1, AlwaysTyped, PTL

-----------------------------------------------------------------------------
(***************************************************************************)
(* What is announced.  A zone created anew under an id that was deleted    *)
(* takes over the announcement of the one before, so that the theorem is   *)
(* about an installation whose zones stay.                                 *)
(***************************************************************************)
\* A change of state that the callbacks hear of, or that calls for silence as the
\* state before it did.
Heard(old, new) ==
  \/ new.state = old.state
  \/ new.state \in AlarmStates \cup {"idle", "active_with_person"}
  \/ Announcement(old.state) = "silent" /\ Announcement(new.state) = "silent"

\* Such a change keeps the announcement at what the state calls for.
LEMMA HeardMatches ==
  ASSUME Typed, AnnouncementMatches, NEW z \in Zone, NEW new,
         Heard(zones[z], new), zones' = [zones EXCEPT ![z] = new],
         Announce(z, zones[z], new)
  PROVE  AnnouncementMatches'
<1>1. new.state \in {"idle", "active_with_person"} => Announcement(new.state) = "silent"
  BY DEF Announcement
<1>2. /\ broadcast'[z] = Announcement(new.state)
      /\ \A y \in Zone \ {z} : broadcast'[y] = broadcast[y]
  BY <1>1 DEF Announce, Raises, Quietens, Heard, AlarmStates, AnnouncementMatches,
              Typed, TypeOK
<1> QED
  BY <1>2 DEF AnnouncementMatches, Typed, TypeOK

\* Every update is heard: the counting of an absence starts from silence.
LEMMA UpdateIsHeard ==
  ASSUME Typed, looked # Nothing
  PROVE  Heard(zones[looked.zone], Updated)
<1> DEFINE old == zones[looked.zone]
<1>1. CASE Counts(old, Updated, looked.obs)
  <2>1. old.state \in ZoneStates
    BY LookedType DEF Zones
  <2>2. Stage(Settings, Updated.timer) \in AlarmStates \cup {"active_no_person"}
    BY DEF Stage, AlarmStates
  <2>3. Stage(Settings, Updated.timer) = "active_no_person"
          /\ Rank["active_no_person"] > Rank[old.state]
          => Announcement(old.state) = "silent"
    BY <2>1, RankValues, LookedType DEF ZoneStates, Announcement
  <2> QED
    BY <1>1, <2>2, <2>3 DEF Counts, Heard, Announcement
<1>2. CASE ~Counts(old, Updated, looked.obs)
  BY <1>2, UpdatedOutcomes DEF Heard, Rests, Holds, Attends
<1> QED
  BY <1>1, <1>2

\* Every step keeps the announcements in agreement with the states.
LEMMA AnnouncementStep ==
  ASSUME "edit" \notin Faults, Typed, AnnouncementMatches, [Next]_vars
  PROVE  AnnouncementMatches'
<1>1. CASE LoopDisabled
  <2>1. Head(todo) \in Zone
    BY <1>1 DEF LoopDisabled, Typed, TypeOK
  <2>2. AfterForceIdle(zones[Head(todo)]).state = "idle"
    BY <2>1, ClientEffect DEF Typed, TypeOK
  <2>3. zones \in [Zone -> Zones] /\ broadcast \in [Zone -> Kinds]
    BY DEF Typed, TypeOK, Kinds
  <2> QED
    BY <1>1, <2>1, <2>2, <2>3 DEF LoopDisabled, AnnouncementMatches, Announcement
<1>2. CASE LoopUpdate
  <2>1. looked # Nothing
    BY <1>2 DEF LoopUpdate
  <2>2. /\ zones' = [zones EXCEPT ![looked.zone] = Updated]
        /\ Announce(looked.zone, zones[looked.zone], Updated)
    BY <1>2 DEF LoopUpdate, Updated
  <2> QED
    BY <2>1, <2>2, LookedType, UpdateIsHeard, HeardMatches
<1>3. ASSUME NEW z \in Zone, ResetZone(z) PROVE AnnouncementMatches'
  <2>1. Heard(zones[z], AfterReset(zones[z]))
    BY ClientEffect, RestEffect DEF Heard, Typed, TypeOK
  <2> QED
    BY <1>3, <2>1, HeardMatches DEF ResetZone, Rested
<1>4. ASSUME NEW z \in Zone, NEW on \in BOOLEAN, SetEnabled(z, on)
      PROVE  AnnouncementMatches'
  <2> DEFINE new == IF on THEN zones[z] ELSE AfterForceIdle(zones[z])
  <2>1. Heard(zones[z], new)
    BY ClientEffect DEF Heard, Typed, TypeOK
  <2>2. Rested(z, new)
    BY <1>4 DEF SetEnabled
  <2> HIDE DEF new
  <2> QED
    BY <2>1, <2>2, HeardMatches DEF Rested
<1>5. CASE Tick
  <2>1. \A z \in Zone : [zones[z] EXCEPT !.timer = Older(@)].state = zones[z].state
    BY DEF Typed, TypeOK, Zones
  <2> QED
    BY <1>5, <2>1 DEF Tick, AnnouncementMatches
<1>6. CASE UNCHANGED <<zones, broadcast>>
  BY <1>6 DEF AnnouncementMatches
<1>7. ASSUME NEW z \in Zone, DeleteZone(z) \/ CreateZone(z) PROVE FALSE
  BY <1>7 DEF DeleteZone, CreateZone
<1>8. LoopStart \/ LoopFrozen \/ LoopLook \/ LoopError \/ Patrol \/ RestartSerial
        => UNCHANGED <<zones, broadcast>>
  BY DEF LoopStart, LoopFrozen, LoopLook, LoopError, Patrol, RestartSerial
<1>9. \A z \in Zone : ForceCutoff(z) \/ PollAllow(z) \/ PollAssign(z) \/ Kitchen(z)
        => UNCHANGED <<zones, broadcast>>
  BY DEF ForceCutoff, PollAllow, PollAssign, Kitchen
<1>10. UNCHANGED vars => UNCHANGED <<zones, broadcast>>
  BY DEF vars
<1> QED
  BY <1>1, <1>2, <1>3, <1>4, <1>5, <1>6, <1>7, <1>8, <1>9, <1>10
     DEF Next, Loop, Client, Poll

\* However many zones there are, and whatever of the loop, the clients, the patrol
\* and the bus comes between, the announcement of a zone is the one of its state, as
\* long as no zone is deleted.
THEOREM AnnouncementsMatch ==
  ASSUME "edit" \notin Faults
  PROVE  Spec => []AnnouncementMatches
<1>1. Init => AnnouncementMatches
  BY DEF Init, AnnouncementMatches, Announcement, NewZone
<1>2. Typed /\ AnnouncementMatches /\ [Next]_vars => AnnouncementMatches'
  BY AnnouncementStep
<1> QED
  BY <1>1, <1>2, AlwaysTyped, PTL DEF Spec

-----------------------------------------------------------------------------
(***************************************************************************)
(* When a stove is cut off.  What the loop sees in patrol mode does not    *)
(* stop a zone's timer, so that the theorem is about the time without.     *)
(***************************************************************************)
\* A zone's timer is off at rest and never ahead of the absence.
AbsenceKept ==
  /\ ~patrol
  /\ \A z \in Zone : /\ zones[z].state = "idle" => zones[z].timer = NotStarted
                     /\ zones[z].timer <= unseen[z]

\* Bringing one zone to a state that keeps its part keeps the whole.
LEMMA AbsenceOfOne ==
  ASSUME Typed, AbsenceKept, NEW z \in Zone, NEW new \in Zones, ~patrol',
         zones' = [zones EXCEPT ![z] = new],
         \/ unseen' = unseen /\ new.timer <= unseen[z]
         \/ unseen' = [unseen EXCEPT ![z] = 0] /\ new.timer <= 0,
         new.state = "idle" => new.timer = NotStarted
  PROVE  AbsenceKept'
BY DEF AbsenceKept, Typed, TypeOK

\* So does a request that brings a zone to rest, or leaves it as it is.
LEMMA RestedAbsence ==
  ASSUME Typed, AbsenceKept, NEW z \in Zone, NEW new \in Zones, ~patrol',
         Rested(z, new), new = zones[z] \/ new = AtRest(zones[z])
  PROVE  AbsenceKept'
<1>1. new.state = "idle" => new.timer = NotStarted
  BY RestEffect DEF AbsenceKept, Typed, TypeOK
<1>2. new.timer <= unseen[z]
  BY RestEffect, MaxAgeAssumption DEF AbsenceKept, Typed, TypeOK, NotStarted, Ages
<1>3. \/ unseen' = unseen
      \/ unseen' = [unseen EXCEPT ![z] = 0] /\ new.timer <= 0
  BY <1>1 DEF Rested, NotStarted
<1> QED
  BY <1>1, <1>2, <1>3, AbsenceOfOne DEF Rested

\* What an update leaves in the timer of its zone.
LEMMA UpdateAbsence ==
  ASSUME Typed, AbsenceKept, LoopUpdate
  PROVE  AbsenceKept'
<1> DEFINE z == looked.zone
           old == zones[z]
<1>1. looked # Nothing /\ z \in Zone /\ old \in Zones /\ Updated \in Zones
  BY LookedType, UpdatedOutcomes DEF LoopUpdate
<1>2. /\ zones' = [zones EXCEPT ![z] = Updated]
      /\ unseen' = IF looked.obs.has_person \/ ~looked.obs.is_fire_on
                        \/ Updated.state = "idle"
                   THEN [unseen EXCEPT ![z] = 0] ELSE unseen
      /\ ~patrol /\ ~patrol'
  BY DEF LoopUpdate, Updated, AbsenceKept
<1>3. unseen[z] \in Ages /\ unseen[z] >= 0 /\ old.timer <= unseen[z]
  BY <1>1, MaxAgeAssumption DEF Typed, TypeOK, AbsenceKept, Ages
<1>4. CASE Rests(Updated) \/ Attends(Updated, looked.obs)
  <2>1. Updated.timer = NotStarted
    BY <1>4 DEF Rests, Attends
  <2>2. Updated.timer <= 0 /\ Updated.timer <= unseen[z]
    BY <1>3, <2>1 DEF NotStarted, Ages
  <2>3. \/ unseen' = unseen /\ Updated.timer <= unseen[z]
        \/ unseen' = [unseen EXCEPT ![z] = 0] /\ Updated.timer <= 0
    BY <1>2, <2>2
  <2> QED
    BY <1>1, <1>2, <2>1, <2>3, AbsenceOfOne
<1>5. CASE Holds(old, Updated, looked.obs)
  <2>1. Updated.state # "idle" /\ unseen' = unseen /\ Updated.timer <= unseen[z]
    BY <1>2, <1>3, <1>5 DEF Holds
  <2> QED
    BY <1>1, <1>2, <2>1, AbsenceOfOne
<1>6. CASE Counts(old, Updated, looked.obs)
  <2>1. Updated.timer = IF old.timer = NotStarted THEN 0 ELSE old.timer
    BY <1>6 DEF Counts
  <2>2. Updated.timer <= unseen[z] /\ Updated.state # "idle" /\ unseen' = unseen
    BY <1>2, <1>3, <1>6, <2>1 DEF Counts
  <2> QED
    BY <1>1, <1>2, <2>2, AbsenceOfOne
<1> QED
  BY <1>1, <1>2, <1>4, <1>5, <1>6, UpdatedOutcomes

\* Every step keeps the timers behind the absences.
LEMMA AbsenceStep ==
  ASSUME "patrol" \notin Faults, Typed, AbsenceKept, [Next]_vars
  PROVE  AbsenceKept'
<1>1. CASE LoopUpdate
  BY <1>1, UpdateAbsence
<1>2. CASE LoopDisabled
  <2>1. Head(todo) \in Zone
    BY <1>2 DEF LoopDisabled, Typed, TypeOK
  <2> DEFINE z   == Head(todo)
             new == AfterForceIdle(zones[z])
  <2>2. new \in Zones /\ new.state = "idle" /\ (new = zones[z] \/ new = AtRest(zones[z]))
    BY <2>1, ClientEffect DEF Typed, TypeOK
  <2>3. new.timer = NotStarted
    BY <2>1, <2>2, RestEffect DEF AbsenceKept, Typed, TypeOK
  <2>4. /\ ~patrol' /\ zones' = [zones EXCEPT ![z] = new]
        /\ unseen' = [unseen EXCEPT ![z] = 0]
    BY <1>2 DEF LoopDisabled, AbsenceKept
  <2>5. new.timer <= 0
    BY <2>3 DEF NotStarted
  <2> HIDE DEF z, new
  <2> QED
    BY <2>1, <2>2, <2>3, <2>4, <2>5, AbsenceOfOne DEF z
<1>3. ASSUME NEW z \in Zone, ResetZone(z) PROVE AbsenceKept'
  <2>1. ~patrol' /\ Rested(z, AfterReset(zones[z]))
    BY <1>3 DEF ResetZone, AbsenceKept
  <2>2. AfterReset(zones[z]) \in Zones
    BY ClientEffect DEF Typed, TypeOK
  <2>3. AfterReset(zones[z]) = zones[z] \/ AfterReset(zones[z]) = AtRest(zones[z])
    BY ClientEffect DEF Typed, TypeOK
  <2> QED
    BY <2>1, <2>2, <2>3, RestedAbsence
<1>4. ASSUME NEW z \in Zone, NEW on \in BOOLEAN, SetEnabled(z, on)
      PROVE  AbsenceKept'
  <2> DEFINE new == IF on THEN zones[z] ELSE AfterForceIdle(zones[z])
  <2>1. ~patrol' /\ Rested(z, new)
    BY <1>4 DEF SetEnabled, AbsenceKept
  <2>2. new \in Zones /\ (new = zones[z] \/ new = AtRest(zones[z]))
    BY ClientEffect DEF Typed, TypeOK
  <2> HIDE DEF new
  <2> QED
    BY <2>1, <2>2, RestedAbsence
<1>5. ASSUME NEW z \in Zone, CreateZone(z) PROVE AbsenceKept'
  <2>1. /\ ~patrol' /\ zones' = [zones EXCEPT ![z] = NewZone]
        /\ unseen' = [unseen EXCEPT ![z] = 0]
    BY <1>5 DEF CreateZone, AddZone, AbsenceKept
  <2>2. NewZone \in Zones /\ NewZone.timer = NotStarted /\ NewZone.timer <= 0
    BY DEF NewZone, Zones, ZoneStates, Timers, NotStarted
  <2> QED
    BY <2>1, <2>2, AbsenceOfOne
<1>6. CASE Tick
  <2>1. ASSUME NEW z \in Zone
        PROVE  /\ zones'[z].state = zones[z].state
               /\ zones'[z].timer = Older(zones[z].timer)
               /\ unseen'[z] = Older(unseen[z])
    BY <1>6 DEF Tick, Typed, TypeOK, Zones
  <2>2. Older(NotStarted) = NotStarted
    BY DEF Older
  <2>3. \A z \in Zone : zones[z].timer \in Timers /\ unseen[z] \in Ages
    BY DEF Typed, TypeOK, Zones
  <2> QED
    BY <1>6, <2>1, <2>2, <2>3, OlderType DEF Tick, AbsenceKept
<1>7. CASE UNCHANGED <<zones, unseen, patrol>>
  BY <1>7 DEF AbsenceKept
<1>8. LoopStart \/ LoopFrozen \/ LoopLook \/ LoopError \/ RestartSerial
        => UNCHANGED <<zones, unseen, patrol>>
  BY DEF LoopStart, LoopFrozen, LoopLook, LoopError, RestartSerial
<1>9. \A z \in Zone : DeleteZone(z) \/ ForceCutoff(z) \/ PollAllow(z) \/ PollAssign(z)
                          \/ Kitchen(z)
        => UNCHANGED <<zones, unseen, patrol>>
  BY DEF DeleteZone, ForceCutoff, PollAllow, PollAssign, Kitchen
<1>10. ~Patrol
  BY DEF Patrol
<1>11. UNCHANGED vars => UNCHANGED <<zones, unseen, patrol>>
  BY DEF vars
<1> QED
  BY <1>1, <1>2, <1>3, <1>4, <1>5, <1>6, <1>7, <1>8, <1>9, <1>10, <1>11
     DEF Next, Loop, Client, Poll

\* Initially no timer runs.
LEMMA InitAbsence == Init => AbsenceKept
BY DEF Init, AbsenceKept, NewZone, NotStarted

\* What a step other than an update leaves in a zone's state: what it was, or rest.
LEMMA OnlyUpdatesClimb ==
  ASSUME Typed, [Next]_vars, ~LoopUpdate, NEW z \in Zone
  PROVE  zones'[z].state \in {zones[z].state, "idle"}
<1>1. CASE LoopDisabled
  <2>1. Head(todo) \in Zone
    BY <1>1 DEF LoopDisabled, Typed, TypeOK
  <2> QED
    BY <1>1, <2>1, ClientEffect DEF LoopDisabled, Typed, TypeOK
<1>2. ASSUME NEW y \in Zone, ResetZone(y) PROVE zones'[z].state \in {zones[z].state, "idle"}
  BY <1>2, ClientEffect, RestEffect DEF ResetZone, Rested, Typed, TypeOK
<1>3. ASSUME NEW y \in Zone, NEW on \in BOOLEAN, SetEnabled(y, on)
      PROVE  zones'[z].state \in {zones[z].state, "idle"}
  BY <1>3, ClientEffect DEF SetEnabled, Rested, Typed, TypeOK
<1>4. ASSUME NEW y \in Zone, CreateZone(y) PROVE zones'[z].state \in {zones[z].state, "idle"}
  BY <1>4 DEF CreateZone, AddZone, NewZone, Typed, TypeOK
<1>5. CASE Tick
  BY <1>5 DEF Tick, Typed, TypeOK, Zones
<1>6. CASE UNCHANGED zones
  BY <1>6
<1>7. LoopStart \/ LoopFrozen \/ LoopLook \/ LoopError \/ Patrol \/ RestartSerial
        => UNCHANGED zones
  BY DEF LoopStart, LoopFrozen, LoopLook, LoopError, Patrol, RestartSerial
<1>8. \A y \in Zone : DeleteZone(y) \/ ForceCutoff(y) \/ PollAllow(y) \/ PollAssign(y)
                          \/ Kitchen(y)
        => UNCHANGED zones
  BY DEF DeleteZone, ForceCutoff, PollAllow, PollAssign, Kitchen
<1>9. UNCHANGED vars => UNCHANGED zones
  BY DEF vars
<1> QED
  BY <1>1, <1>2, <1>3, <1>4, <1>5, <1>6, <1>7, <1>8, <1>9 DEF Next, Loop, Client, Poll

\* A step into cutoff finds the absence long enough.
LEMMA CutStep ==
  ASSUME Typed, AbsenceKept, [Next]_vars, NEW z \in Zone, Enters(z, "cutoff")
  PROVE  unseen[z] >= Settings.action_time
<1>1. LoopUpdate
  BY OnlyUpdatesClimb DEF Enters
<1>2. looked # Nothing /\ ~patrol /\ zones' = [zones EXCEPT ![looked.zone] = Updated]
  BY <1>1 DEF LoopUpdate, Updated, AbsenceKept
<1>3. z = looked.zone /\ Updated.state = "cutoff" /\ zones[z].state # "cutoff"
  BY <1>2 DEF Enters, Typed, TypeOK
<1>4. Counts(zones[z], Updated, looked.obs)
  BY <1>2, <1>3, UpdatedOutcomes DEF Rests, Holds, Attends
<1>5. Stage(Settings, Updated.timer) = "cutoff"
  BY <1>3, <1>4 DEF Counts
<1>6. Updated.timer >= Settings.action_time
  BY <1>5 DEF Stage
<1>7. Updated.timer <= unseen[z]
  BY <1>4, MaxAgeAssumption DEF Counts, AbsenceKept, Typed, TypeOK, Ages
<1>8. Updated.timer \in Int /\ unseen[z] \in Int /\ Settings.action_time \in Int
  BY <1>2, UpdatedOutcomes, SettingsAssumption, MaxAgeAssumption
     DEF Zones, Timers, Ages, NotStarted, AlarmConfigs, Typed, TypeOK
<1> QED
  BY <1>6, <1>7, <1>8

\* No stove is cut off before action_time has passed since the loop last saw somebody,
\* or no fire, at any of any number of zones, outside patrol mode: whatever the
\* cameras, the stalls of the loop, the clients, the deletions and the bus do.
THEOREM CutsNeedAbsence ==
  ASSUME "patrol" \notin Faults
  PROVE  Spec => CutNeedsAbsence
<1>1. Typed /\ AbsenceKept /\ [Next]_vars => AbsenceKept'
  BY AbsenceStep
<1>2. Typed /\ AbsenceKept /\ [Next]_vars
        => [\A z \in Zone : Enters(z, "cutoff") => unseen[z] >= Settings.action_time]_vars
  BY CutStep
<1> QED
  BY <1>1, <1>2, InitAbsence, AlwaysTyped, PTL DEF Spec, CutNeedsAbsence

-----------------------------------------------------------------------------
(***************************************************************************)
(* When a stove is released by its current.  The poll loop tests and       *)
(* assigns without a lock, so that the theorem is about polls that are not *)
(* preempted in between.                                                   *)
(***************************************************************************)
\* A release is permitted only when the cut-off is old enough, and stays so.
PermitIsOld ==
  /\ passed = {}
  /\ \A z \in Zone : serial[z].can_check => serial[z].cutoff_time >= ResetDelay

\* Every step keeps the permits old.
LEMMA PermitStep ==
  ASSUME "poll_race" \notin Faults, Typed, PermitIsOld, [Next]_vars
  PROVE  PermitIsOld'
<1>1. CASE LoopUpdate
  BY <1>1 DEF LoopUpdate, StampCutoff, NoCutoff, PermitIsOld, Typed, TypeOK
<1>2. ASSUME NEW z \in Zone, CreateZone(z) PROVE PermitIsOld'
  BY <1>2 DEF CreateZone, NoCutoff, PermitIsOld, Typed, TypeOK
<1>3. ASSUME NEW z \in Zone, ForceCutoff(z) PROVE PermitIsOld'
  BY <1>3 DEF ForceCutoff, StampCutoff, PermitIsOld, Typed, TypeOK
<1>4. ASSUME NEW z \in Zone, PollAllow(z) PROVE PermitIsOld'
  BY <1>4 DEF PollAllow, OldEnough, PermitIsOld, Typed, TypeOK
<1>5. ASSUME NEW z \in Zone, PollAssign(z) PROVE PermitIsOld'
  BY <1>5 DEF PollAssign, PermitIsOld
<1>6. CASE Tick
  <2>1. ASSUME NEW z \in Zone
        PROVE  /\ serial'[z].can_check = serial[z].can_check
               /\ serial'[z].cutoff_time = Older(serial[z].cutoff_time)
               /\ serial[z].cutoff_time \in Timers
    BY <1>6 DEF Tick, Typed, TypeOK
  <2>2. \A t \in Timers : t >= ResetDelay => Older(t) >= ResetDelay
    BY DelayAssumption, MaxAgeAssumption DEF Older, Timers, Ages, NotStarted
  <2> QED
    BY <1>6, <2>1, <2>2 DEF Tick, PermitIsOld
<1>7. CASE UNCHANGED <<serial, passed>>
  BY <1>7 DEF PermitIsOld
<1>8. LoopStart \/ LoopDisabled \/ LoopFrozen \/ LoopLook \/ LoopError \/ Patrol
        \/ RestartSerial => UNCHANGED <<serial, passed>>
  BY DEF LoopStart, LoopDisabled, LoopFrozen, LoopLook, LoopError, Patrol,
         RestartSerial, serialVars
<1>9. \A z \in Zone : ResetZone(z) \/ DeleteZone(z) \/ Kitchen(z)
                          \/ (\E on \in BOOLEAN : SetEnabled(z, on))
        => UNCHANGED <<serial, passed>>
  BY DEF ResetZone, DeleteZone, Kitchen, SetEnabled, serialVars
<1>10. UNCHANGED vars => UNCHANGED <<serial, passed>>
  BY DEF vars
<1> QED
  BY <1>1, <1>2, <1>3, <1>4, <1>5, <1>6, <1>7, <1>8, <1>9, <1>10
     DEF Next, Loop, Client, Poll

\* An update that releases a burning, unattended zone has a permit.
LEMMA ReleaseStep ==
  ASSUME Typed, PermitIsOld, [Next]_vars, NEW z \in Zone,
         zones[z].state = "cutoff", zones'[z].state = "idle",
         looked # Nothing, looked' = Nothing, looked.zone = z,
         looked.obs.is_fire_on, ~looked.obs.has_person
  PROVE  serial[z].cutoff_time >= ResetDelay
<1>1. CASE LoopUpdate
  <2>1. zones' = [zones EXCEPT ![z] = Updated]
    BY <1>1 DEF LoopUpdate, Updated
  <2>2. Updated.state = "idle"
    BY <2>1 DEF Typed, TypeOK
  <2>3. ~patrol
    BY <2>2, UpdatedOutcomes DEF Rests, Holds, Attends, Counts
  <2>4. CanReset(z)
    BY <2>2, <2>3, UpdatedOutcomes
  <2> QED
    BY <2>4 DEF CanReset, PermitIsOld
<1>2. CASE LoopError
  BY <1>2 DEF LoopError
<1>3. LoopStart \/ LoopDisabled \/ LoopFrozen \/ LoopLook => FALSE
  BY DEF LoopStart, LoopDisabled, LoopFrozen, LoopLook
<1>4. Patrol \/ RestartSerial \/ Tick \/ UNCHANGED vars => looked' = looked
  BY DEF Patrol, RestartSerial, Tick, loopVars, vars
<1>5. \A y \in Zone : \/ ResetZone(y) \/ DeleteZone(y) \/ CreateZone(y) \/ ForceCutoff(y)
                       \/ PollAllow(y) \/ PollAssign(y) \/ Kitchen(y)
                       \/ \E on \in BOOLEAN : SetEnabled(y, on)
                    => looked' = looked
  BY DEF ResetZone, DeleteZone, CreateZone, ForceCutoff, PollAllow, PollAssign,
         Kitchen, SetEnabled, loopVars
<1> QED
  BY <1>1, <1>2, <1>3, <1>4, <1>5 DEF Next, Loop, Client, Poll

\* A cut-off stove is released by its current only ResetDelay after its last
\* cut-off, ordered by whomever, for any number of zones, as long as the poll loop
\* is not preempted between its test and its assignment.
THEOREM ReleasesWait ==
  ASSUME "poll_race" \notin Faults
  PROVE  Spec => ReleaseWaits
<1>1. Init => PermitIsOld
  BY DEF Init, PermitIsOld, NoCutoff
<1>2. Typed /\ PermitIsOld /\ [Next]_vars => PermitIsOld'
  BY PermitStep
<1>3. Typed /\ PermitIsOld /\ [Next]_vars
        => [\A z \in Zone :
              /\ zones[z].state = "cutoff" /\ zones'[z].state = "idle"
              /\ looked # Nothing /\ looked' = Nothing /\ looked.zone = z
              /\ looked.obs.is_fire_on /\ ~looked.obs.has_person
              => serial[z].cutoff_time >= ResetDelay]_vars
  BY ReleaseStep
<1> QED
  BY <1>1, <1>2, <1>3, AlwaysTyped, PTL DEF Spec, ReleaseWaits
=============================================================================
