------------------------ MODULE MCFireSafetySystem --------------------------
(***************************************************************************)
(* Small instances of FireSafetySystem.  Three units of time separate the  *)
(* first look at a neglected stove from its cut-off, one per stage.        *)
(***************************************************************************)
EXTENDS FireSafetySystem

MCSettings == [warning_time |-> 1, alarm_time |-> 2, action_time |-> 3]
QuickSettings == [warning_time |-> 0, alarm_time |-> 1, action_time |-> 1]

\* Nothing tells one zone from another: every insertion order is initial.
MCSymmetry == Permutations(Zone)
=============================================================================
