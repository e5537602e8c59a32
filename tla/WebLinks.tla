------------------------------- MODULE WebLinks -------------------------------
(***************************************************************************)
(* The two sides of the message dispatcher: the uplink to the remote       *)
(* server and the local clients.  What they share, whether the uplink is   *)
(* up, is any sequence of ups and downs to the local side, and the uplink  *)
(* never looks at the clients: so each is exercised while the other rests. *)
(***************************************************************************)
EXTENDS RemoteConnection, LocalClients

VARIABLE side  \* the one exercised

linksVars == <<side, vars, clientsVars>>

LinksInit ==
  /\ side \in {"remote", "local"}
  /\ Init /\ ClientsInit
  /\ side = "local" => ~token /\ client[CHOOSE c \in Client : TRUE] = "starting"

LinksNext ==
  \/ side = "remote" /\ Next /\ UNCHANGED <<side, clientsVars>>
  \/ side = "local" /\ ClientsNext /\ UNCHANGED <<side, vars>>

\* As in FairSpec; at rest the client waits to be started for ever.
LinksSpec ==
  /\ LinksInit /\ [][LinksNext]_linksVars
  /\ \A c \in Client : WF_vars(side = "remote" /\ (Start(c) \/ StopBegin(c) \/ StopEnd(c)))
  /\ WF_vars(side = "remote" /\ Connect)
  /\ WF_vars(side = "remote" /\ (ReceiverEnds \/ ReceiverHungUp))
  /\ WF_vars(side = "remote" /\ (ReconnectEnds \/ ReconnectTries))
  /\ ClientsFairness
=============================================================================
