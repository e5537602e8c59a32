---------------------------- MODULE LocalClients ----------------------------
(***************************************************************************)
(* The local WebSocket clients (src/api/websocket.py, and their endpoint   *)
(* and the status loop in src/api/server.py): connect() admits up to a     *)
(* limit, disconnect() and failed broadcasts remove, and what the status   *)
(* loop and the events broadcast goes to the local clients first, then to  *)
(* the remote server.                                                      *)
(*                                                                         *)
(* One event loop: a step ends where the code awaits.  A client that does  *)
(* not read is one whose send takes long.                                  *)
(***************************************************************************)
EXTENDS Naturals, FiniteSets

CONSTANTS Browser,        \* bound: WebSocket objects at a time
          MaxConnections, \* max_connections
          Heartbeat,      \* unchanged rounds until the status is sent anyhow (10)
          AcceptYields    \* whether accept() suspends, which is up to the ASGI server

ASSUME HeartbeatAssumption == Heartbeat \in Nat \ {0}
ASSUME AcceptYieldsAssumption == AcceptYields \in BOOLEAN

Uplink == "uplink"
Caster == {"loop", "event"}
NoHolder == "free"
Unknown == "unknown"
Status == {"calm", "alarm"}

VARIABLES
  endpoint,            \* where the endpoint of each connection is
  present,             \* the connections whose client is there
  active_connections,
  holder,              \* who holds LocalConnectionManager._lock
  cast,                \* the broadcasts under way
  status,              \* what get_all_status() says
  last_status_hash,
  consecutive_unchanged,
  uplink,              \* is_connected of the remote client
  shown                \* the status each recipient was sent last

clientsVars == <<endpoint, present, active_connections, holder, cast, status, last_status_hash,
                 consecutive_unchanged, uplink, shown>>
statusVars == <<status, last_status_hash, consecutive_unchanged, uplink>>

\* all: the connections the broadcast copied; to: those whose send is pending.
NoCast == [pc |-> "look", all |-> {}, to |-> {}, failed |-> {}, what |-> Unknown]

ClientsInit ==
  /\ endpoint = [b \in Browser |-> "none"] /\ present = {}
  /\ active_connections = {} /\ holder = NoHolder
  /\ cast = [k \in Caster |-> NoCast]
  /\ status = "calm" /\ last_status_hash = Unknown /\ consecutive_unchanged = 0
  /\ uplink = FALSE
  /\ shown = [r \in Browser \cup {Uplink} |-> Unknown]

Moves(b, pc) == endpoint' = [endpoint EXCEPT ![b] = pc]

-----------------------------------------------------------------------------
(* Connections *)

\* A client comes, on an object of its own.
Arrive(b) ==
  /\ endpoint[b] = "none"
  /\ Moves(b, "waiting") /\ present' = present \cup {b}
  /\ UNCHANGED <<active_connections, holder, cast, statusVars, shown>>

\* accept() of a client that is gone goes unnoticed until receive_text(), or raises,
\* outside of the endpoint's try.
AfterAccept(b) == IF b \in present THEN {"serving"} ELSE {"serving", "done"}

\* connect(): the one that is not admitted is told so while the lock is held.
Admit(b) ==
  /\ endpoint[b] = "waiting" /\ holder = NoHolder
  /\ IF Cardinality(active_connections) >= MaxConnections
     THEN holder' = b /\ Moves(b, "refusing") /\ UNCHANGED active_connections
     ELSE /\ active_connections' = active_connections \cup {b}
          /\ \E pc \in IF AcceptYields THEN {"accepting"} ELSE AfterAccept(b) : Moves(b, pc)
          /\ UNCHANGED holder
  /\ UNCHANGED <<present, cast, statusVars, shown>>

Accept(b) ==
  /\ endpoint[b] = "accepting"
  /\ \E pc \in AfterAccept(b) : Moves(b, pc)
  /\ UNCHANGED <<present, active_connections, holder, cast, statusVars, shown>>

Refuse(b) ==
  /\ endpoint[b] = "refusing"
  /\ Moves(b, "done") /\ holder' = NoHolder /\ present' = present \ {b}
  /\ UNCHANGED <<active_connections, cast, statusVars, shown>>

\* The client leaves, or the server's keepalive closes it.
Gone(b) ==
  /\ b \in present /\ endpoint[b] # "refusing"
  /\ present' = present \ {b}
  /\ shown' = [shown EXCEPT ![b] = Unknown]
  /\ UNCHANGED <<endpoint, active_connections, holder, cast, statusVars>>

\* receive_text() raises, and disconnect() takes the lock.
Disconnect(b) ==
  /\ endpoint[b] = "serving" /\ b \notin present /\ holder = NoHolder
  /\ Moves(b, "done")
  /\ active_connections' = active_connections \ {b}
  /\ UNCHANGED <<present, holder, cast, statusVars, shown>>

\* Nothing refers to the object any more.
Collected(b) ==
  /\ endpoint[b] = "done" /\ b \notin active_connections
  /\ \A k \in Caster : b \notin cast[k].all
  /\ Moves(b, "none")
  /\ UNCHANGED <<present, active_connections, holder, cast, statusVars, shown>>

-----------------------------------------------------------------------------
(* Broadcasts *)

\* Faulty variant (mutation runs): an unchanged status is never sent again.
NeverDue(unchanged) == FALSE
BeatDue(unchanged) == unchanged >= Heartbeat

Casts(k, what) == [pc |-> "sending", all |-> active_connections, to |-> active_connections,
                   failed |-> {}, what |-> what]
HasSubscribers == active_connections # {} \/ uplink

\* A round of status_broadcast_loop(), up to its broadcast.
Look ==
  /\ cast["loop"].pc = "look" /\ HasSubscribers
  /\ IF status # last_status_hash
     THEN cast' = [cast EXCEPT !["loop"] = Casts("loop", status)] /\ UNCHANGED consecutive_unchanged
     ELSE IF BeatDue(consecutive_unchanged + 1)
     THEN cast' = [cast EXCEPT !["loop"] = Casts("loop", status)] /\ UNCHANGED consecutive_unchanged
     ELSE /\ consecutive_unchanged' = IF consecutive_unchanged < Heartbeat
                                      THEN consecutive_unchanged + 1 ELSE Heartbeat
          /\ UNCHANGED cast
  /\ UNCHANGED <<endpoint, present, active_connections, holder, status, last_status_hash, uplink, shown>>

\* Any other event is broadcast beside it.
EventComes ==
  /\ cast["event"].pc = "look" /\ active_connections # {}
  /\ cast' = [cast EXCEPT !["event"] = Casts("event", Unknown)]
  /\ UNCHANGED <<endpoint, present, active_connections, holder, statusVars, shown>>

\* Faulty variant (mutation runs): a send that fails is not reported.
FailureHidden(k, b) == cast[k].failed
FailureNoted(k, b) == cast[k].failed \cup {b}

\* safe_send(): fails before accept() and after the end of the connection.
Receives(r, what) == IF what = Unknown THEN shown ELSE [shown EXCEPT ![r] = what]
SafeSend(k, b) ==
  /\ cast[k].pc = "sending" /\ b \in cast[k].to
  /\ IF endpoint[b] = "serving" /\ b \in present
     THEN /\ cast' = [cast EXCEPT ![k].to = @ \ {b}]
          /\ shown' = Receives(b, cast[k].what)
     ELSE /\ cast' = [cast EXCEPT ![k].to = @ \ {b}, ![k].failed = FailureNoted(k, b)]
          /\ UNCHANGED shown
  /\ UNCHANGED <<endpoint, present, active_connections, holder, statusVars>>

\* Faulty variant (mutation runs): what is left of the copied list is put back.
PutBack(k) == cast[k].all \ cast[k].failed
TakenOut(k) == active_connections \ cast[k].failed

\* gather() is back; the connections that failed are taken out under the lock.
Remove(k) ==
  /\ cast[k].pc = "sending" /\ cast[k].to = {}
  /\ cast[k].failed # {} => holder = NoHolder
  /\ active_connections' = IF cast[k].failed = {} THEN active_connections ELSE TakenOut(k)
  /\ cast' = [cast EXCEPT ![k] = IF k = "event" THEN NoCast
                                 ELSE [NoCast EXCEPT !.pc = "remote", !.what = cast[k].what]]
  /\ UNCHANGED <<endpoint, present, holder, statusVars, shown>>

\* The remote server's turn; then the loop notes what it has sent.
SendToRemote ==
  LET what == cast["loop"].what IN
  /\ cast["loop"].pc = "remote"
  /\ shown' = IF uplink THEN Receives(Uplink, what) ELSE shown
  /\ cast' = [cast EXCEPT !["loop"] = NoCast]
  /\ last_status_hash' = what /\ consecutive_unchanged' = 0
  /\ UNCHANGED <<endpoint, present, active_connections, holder, status, uplink>>

-----------------------------------------------------------------------------
(* Around it *)

StatusChanges ==
  /\ status' \in Status \ {status}
  /\ UNCHANGED <<endpoint, present, active_connections, holder, cast, last_status_hash,
                 consecutive_unchanged, uplink, shown>>

UplinkToggles ==
  /\ uplink' = ~uplink
  /\ shown' = [shown EXCEPT ![Uplink] = Unknown]
  /\ UNCHANGED <<endpoint, present, active_connections, holder, cast, status, last_status_hash,
                 consecutive_unchanged>>

\* The steps of an endpoint, and those of a broadcast.
Endpoint(b) == Admit(b) \/ Accept(b) \/ Refuse(b) \/ Disconnect(b)
Broadcast(k) == (\E b \in Browser : SafeSend(k, b)) \/ Remove(k) \/ (k = "loop" /\ SendToRemote)

ClientsNext ==
  \/ \E b \in Browser : Arrive(b) \/ Endpoint(b) \/ Gone(b) \/ Collected(b)
  \/ \E k \in Caster : Broadcast(k)
  \/ Look \/ EventComes \/ StatusChanges \/ UplinkToggles

\* The event loop runs every task that can run; the lock is handed on in the order
\* asked for, and a send ends: the server's keepalive closes who does not read.
ClientsFairness ==
  /\ \A b \in Browser : SF_clientsVars(Endpoint(b))
  /\ \A k \in Caster : SF_clientsVars(Broadcast(k))
  /\ WF_clientsVars(Look)

ClientsSpec == ClientsInit /\ [][ClientsNext]_clientsVars /\ ClientsFairness

-----------------------------------------------------------------------------
ClientsTypeOK ==
  /\ endpoint \in [Browser -> {"none", "waiting", "refusing", "accepting", "serving", "done"}]
  /\ present \subseteq Browser /\ active_connections \subseteq Browser
  /\ holder \in Browser \cup {NoHolder}
  /\ cast \in [Caster -> [pc : {"look", "sending", "remote"}, all : SUBSET Browser,
                          to : SUBSET Browser, failed : SUBSET Browser, what : Status \cup {Unknown}]]
  /\ status \in Status /\ last_status_hash \in Status \cup {Unknown}
  /\ consecutive_unchanged \in 0..Heartbeat /\ uplink \in BOOLEAN
  /\ shown \in [Browser \cup {Uplink} -> Status \cup {Unknown}]

\* A client that is there and served stays on the list, whatever broadcasts with an
\* older copy of it take out: off the list it would look connected and never hear of
\* an alarm (websocket.py:100).
OpenIsListed ==
  \A b \in present : endpoint[b] = "serving" => b \in active_connections

\* The place of a client that is gone comes back, even where connect() raised after
\* it had taken the place: lost places would lock everybody out in the end.
PlacesComeBack ==
  \A b \in Browser : b \in active_connections /\ b \notin present ~> b \notin active_connections

\* The list is that of the clients: who is served is on it, who is gone leaves it.
PlacesAreTrue == []OpenIsListed /\ PlacesComeBack

Listening(r) == IF r = Uplink THEN uplink ELSE r \in present /\ endpoint[r] = "serving"

\* Who stays connected while the status stays as it is will be shown it, also if it
\* came after the last change was sent, or another connection broke in the middle.
Informed ==
  \A r \in Browser \cup {Uplink} :
    <>[](Listening(r)) /\ <>[][status' = status]_clientsVars => <>[](shown[r] = status)
=============================================================================
