------------------------------ MODULE BleProcess ------------------------------
(***************************************************************************)
(* The BLE service and the characteristic its commands arrive by.  The     *)
(* service takes any sequence of commands, and the characteristic never    *)
(* looks at the service: so each is exercised while the other rests.       *)
(***************************************************************************)
EXTENDS MCProvisioningService, RequestFrames

VARIABLE part  \* the one exercised

MCSizes == <<3, 2, 3>>
MCDeceptive == <<3, 2>> :> 5 @@ <<1, 2>> :> 3

ProcessInit == part \in {"service", "requests"} /\ Init /\ RequestInit
ProcessNext ==
  \/ part = "service" /\ Next /\ UNCHANGED <<part, requestVars>>
  \/ part = "requests" /\ RequestNext /\ UNCHANGED <<part, vars>>

\* As in FairSpec.
ProcessSpec ==
  /\ ProcessInit /\ [][ProcessNext]_<<part, vars, requestVars>>
  /\ WF_vars(part = "service" /\ Service)
  /\ WF_vars(part = "service" /\ Applier /\ UNCHANGED svcVars)
  /\ WF_vars(part = "service" /\ Deliver)
=============================================================================
