----------------------------- MODULE MainProcess -----------------------------
(***************************************************************************)
(* Four parts of the main process that share no state: the shells of the   *)
(* web terminal, the configuration file, the wiring of the zones, and the  *)
(* serial line under the serial manager.  A behaviour of all of them       *)
(* together is one of each, so each is exercised while the others rest.    *)
(***************************************************************************)
EXTENDS Terminal, ConfigStore, ZoneWiring, SerialLine

VARIABLE part  \* the one exercised

apiVars == <<part, terminalVars, configVars, wiringVars, lineVars>>

MCSizes == <<2, 3, 2>>

Init ==
  /\ part \in {"terminal", "config", "wiring", "line"}
  /\ TerminalInit /\ ConfigInit /\ WiringInit /\ LineInit
  /\ part # "wiring" => zones_saved = [z \in {} |-> {}]

Next ==
  \/ part = "terminal" /\ TerminalNext /\ UNCHANGED <<part, configVars, wiringVars, lineVars>>
  \/ part = "config" /\ ConfigNext /\ UNCHANGED <<part, terminalVars, wiringVars, lineVars>>
  \/ part = "wiring" /\ WiringNext /\ UNCHANGED <<part, terminalVars, configVars, lineVars>>
  \/ part = "line" /\ LineNext /\ UNCHANGED <<part, terminalVars, configVars, wiringVars>>

Spec == Init /\ [][Next]_apiVars /\ TerminalFairness

TypeOK == TerminalTypeOK /\ ConfigTypeOK /\ WiringTypeOK /\ LineTypeOK
=============================================================================
