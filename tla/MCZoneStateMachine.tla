------------------------- MODULE MCZoneStateMachine -------------------------
(***************************************************************************)
(* A small instance of DetectedZone: the normal settings and settings out  *)
(* of order, which update_settings accepts; two cameras, between which     *)
(* nothing distinguishes, and a detector that waits for two frames without *)
(* a person.                                                               *)
(***************************************************************************)
EXTENDS DetectedZone, TLC

MCConfigs ==
  {[warning_time |-> 1, alarm_time |-> 2, action_time |-> 3],
   [warning_time |-> 3, alarm_time |-> 0, action_time |-> 2]}

MCDetectionSettings == {[no_person |-> 2, person_present |-> 1]}

\* The default settings, and settings in the other order (zone_divergences.cfg).
MCDefault   == {[no_person |-> 3, person_present |-> 2]}
MCReordered == {[no_person |-> 2, person_present |-> 3]}

MCSymmetry == Permutations(Camera)
=============================================================================
