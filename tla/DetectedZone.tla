---------------------------- MODULE DetectedZone ----------------------------
(***************************************************************************)
(* A zone and the cameras that watch it: _detection_loop (src/main.py)     *)
(* asks each camera for a frame, the detector smooths what it shows camera *)
(* by camera, and what one of them says is what the state machine is told. *)
(* The state machine is the one of ZoneStateMachine, with every other      *)
(* operation on it interleaved.                                            *)
(***************************************************************************)
EXTENDS ZoneStateMachine, Detector

CONSTANTS
  Camera,              \* zone.effective_camera_ids
  Roi,                 \* the zone has a region of interest of three points
  DetectionSettings,   \* the detection settings the program may start with
  Measured             \* what update() is told of the temperature; main.py
                       \*   passes nothing, {"none"}

ASSUME CameraAssumption == Camera # {} /\ IsFiniteSet(Camera) /\ Roi \in BOOLEAN
ASSUME SettingsAssumption ==
  /\ DetectionSettings \subseteq DetectionConfigs /\ DetectionSettings # {}
  /\ Measured \subseteq Temperatures

VARIABLES
  detection,           \* the detection settings in force
  windows,             \* camera -> ZoneDetectionState "zone@camera"
  nobody,              \* history: camera -> frames in a row without a person
  somebody             \* history: camera -> passes in a row, up to the last
                       \*   one, in which the camera showed a person

zoneVars == <<zone, shown, alarm_config, can_reset, absence, called>>
watched  == <<detection, windows, nobody, somebody>>
detectedVars == <<zoneVars, watched>>

DetectedInit ==
  /\ Init
  /\ detection \in DetectionSettings
  /\ windows = [c \in Camera |-> NewWindow]
  /\ nobody = [c \in Camera |-> 0]
  /\ somebody = [c \in Camera |-> 0]

-----------------------------------------------------------------------------
Filtered == Roi /\ Cardinality(Camera) = 1

\* The windows after the pass that got these sights; a camera without a
\* frame leaves its window as it is.
Smoothed(sights) ==
  [c \in Camera |-> IF sights[c] = "no_frame" THEN windows[c]
                    ELSE AfterFrame(windows[c], RawHasPerson(sights[c], Filtered),
                                    detection)]

Answering(sights) == {c \in Camera : sights[c] # "no_frame"}

\* Faulty variant (mutation runs): every camera has to see the person.
EveryCamera(sights) == \A c \in Answering(sights) : Smoothed(sights)[c].present

\* has_person: one of the cameras that gave a frame says so.
AnyCamera(sights) == \E c \in Answering(sights) : Smoothed(sights)[c].present

\* The histories of a pass, saturated at the length of the window.
OneMore(n) == IF n = MaxLen(detection) THEN n ELSE n + 1

Saw(sights, c) == RawHasPerson(sights[c], Filtered)

Remember(sights, in_patrol) ==
  /\ nobody' = [c \in Camera |-> IF c \notin Answering(sights) THEN nobody[c]
                                 ELSE IF Saw(sights, c) THEN 0
                                 ELSE OneMore(nobody[c])]
  /\ somebody' = [c \in Camera |-> IF Saw(sights, c) /\ ~in_patrol
                                   THEN OneMore(somebody[c]) ELSE 0]

\* One pass of the loop over an enabled zone; with no frame at all the zone
\* is skipped.
Pass(sights, fire, temperature) ==
  /\ Answering(sights) # {}
  /\ windows' = Smoothed(sights)
  /\ Remember(sights, FALSE)
  /\ Update([has_person |-> AnyCamera(sights), is_fire_on |-> fire,
             temperature |-> temperature])
  /\ UNCHANGED detection

\* In patrol mode the pass shows what it sees and goes no further.
PatrolPass(sights, fire) ==
  /\ Answering(sights) # {}
  /\ windows' = Smoothed(sights)
  /\ Remember(sights, TRUE)
  /\ zone' = [zone EXCEPT !.has_person = AnyCamera(sights), !.is_fire_on = fire]
  /\ UNCHANGED <<shown, alarm_config, can_reset, absence, called, detection>>

\* The other operations on the zone leave the detector alone: a disabled
\* zone, too, keeps its windows.
Others == /\ \/ ForceIdle
             \/ Reset
             \/ \E b \in BOOLEAN : SetFireState(b)
             \/ GetStatus
             \/ Tick
             \/ \E cfg \in Configs : UpdateSettings(cfg)
             \/ CurrentReading
          /\ UNCHANGED watched

\* The windows tell three sights apart: a person, none, no frame.  Somebody
\* elsewhere stands for a person where nothing is filtered, a failed inference
\* for nobody.
Glimpses == {"no_frame", "elsewhere", IF Filtered THEN "in_roi" ELSE "failed"}

DetectedNext ==
  \/ \E sights \in [Camera -> Glimpses], fire \in BOOLEAN :
       \/ \E t \in Measured : Pass(sights, fire, t)
       \/ PatrolPass(sights, fire)
  \/ Others

DetectedSpec == DetectedInit /\ [][DetectedNext]_detectedVars

-----------------------------------------------------------------------------
(***************************************************************************)
(* Properties                                                              *)
(***************************************************************************)
DetectedTypeOK ==
  /\ TypeOK
  /\ detection \in DetectionSettings
  /\ \A c \in Camera :
       /\ windows[c].recent \in Seq(BOOLEAN) /\ windows[c].present \in BOOLEAN
       /\ Len(windows[c].recent) <= MaxLen(detection)
       /\ {nobody[c], somebody[c]} \subseteq 0 .. MaxLen(detection)

\* A zone that was attended begins to count only when each camera that still
\* held a person, and gave a frame, has shown nobody for no_person_threshold
\* frames in a row: one frame in which the person is covered does not start
\* the countdown, nor do several with the person in between.
AbsenceIsSmoothed ==
  [][zone.state = "active_with_person" /\ zone'.state = "active_no_person"
       => \A c \in Camera : windows[c].present /\ windows'[c] # windows[c]
            => nobody'[c] >= detection.no_person]_detectedVars

\* Whoever has stood in front of one camera for person_present_threshold
\* passes in a row has ended the countdown, the alarm or the cut-off by then,
\* whatever the other cameras show and whatever the windows held before: stale
\* frames of before an outage, of patrol or of the time it was disabled.
ReturnEndsCountdown ==
  \A c \in Camera : somebody[c] >= detection.person_present
    => zone.state \in {"idle", "active_with_person"}

-----------------------------------------------------------------------------
\* What the code does not guarantee (zone_divergences.cfg).

\* main.py:566 freezes a zone none of whose cameras has a frame, so that a
\* camera that drops out is not taken for a person who left.
DropoutIsNoDeparture ==
  [][zone.state = "active_with_person" /\ zone'.state = "active_no_person"
       => \A c \in Camera : ~windows'[c].present]_detectedVars

\* detector.py:118 asks for that many frames with a person in a row.
ArrivalIsConsecutive ==
  [][zone.state = "active_no_person" /\ zone'.state = "active_with_person"
       => \E c \in Camera : \/ somebody'[c] >= detection.person_present
                            \/ windows[c].present]_detectedVars
\* An inference that fails (detector.py:177) is not a sign that somebody left.
FailureIsNoDeparture ==
  [][\A sights \in [Camera -> {"failed", "no_frame"}] :
       Pass(sights, TRUE, "none") /\ zone.state = "active_with_person"
         => zone'.state # "active_no_person"]_detectedVars
=============================================================================
