-------------------------- MODULE MCSerialManager ---------------------------
(***************************************************************************)
(* Small buses: one or two zones, with a detector each or one to share.    *)
(***************************************************************************)
EXTENDS SerialManager

CONSTANTS z1, z2

OneZone   == [z \in {z1} |-> 1]
TwoZones  == [z \in {z1, z2} |-> IF z = z1 THEN 1 ELSE 2]
SharedBus == [z \in {z1, z2} |-> 1]
=============================================================================
