-------------------------- MODULE RemoteConnection --------------------------
(***************************************************************************)
(* RemoteWebSocketClient (src/api/websocket_client.py): login, handshake,  *)
(* receive loop, reconnection, and the limit on failures of authentication *)
(* after which it gives up.  All run on one event loop, so a step is what  *)
(* happens between two awaits.  connect() is guarded by is_connecting, but *)
(* the requests that change the configuration stop and start the client    *)
(* from tasks of their own, which nothing serializes.                      *)
(*                                                                         *)
(* The heartbeat task carries no decision and is left out; the records are *)
(* in AlarmRecords.                                                        *)
(***************************************************************************)
EXTENDS Naturals

CONSTANTS Client,    \* tasks that may (re)start the client; one at program start
          MaxFails,  \* _MAX_AUTH_RETRIES
          Faults     \* what the server and the network may do

ASSUME ClientAssumption == {"reconnect", "none"} \cap Client = {}
ASSUME MaxFailsAssumption == MaxFails \in Nat \ {0}
ASSUME FaultsAssumption ==
  Faults \subseteq {"outage",  \* the server cannot be reached
                    "refuse",  \* the server refuses logins and tokens
                    "hangup",  \* the server refuses by accepting and closing at once
                    "drop",    \* a connection ends
                    "expire",  \* the token's time is over
                    "restart"} \* the configuration is changed

VARIABLES
  running, stopped,   \* _running, _auth_stopped
  fails,              \* _auth_fail_count
  token,              \* a token is held
  connected,          \* _state.is_connected
  ws,                 \* _ws
  attempt,            \* the connect() in progress (is_connecting) and its await
  receiver,           \* the receive loop runs
  reconnect,          \* _reconnect_task
  client,             \* the tasks that stop and start
  server,             \* how the server answers
  refused,            \* history: the token held has been refused
  strayed             \* history: an open connection was replaced by another

connVars == <<connected, ws, receiver>>
authVars == <<stopped, fails, token, refused>>
vars == <<running, connVars, authVars, attempt, reconnect, client, server, strayed>>

NoAttempt == [by |-> "none", phase |-> "none"]

\* Faulty variant (mutation runs): is_connecting is not looked at.
ConnectingNever == FALSE
Connecting == attempt # NoAttempt

IsConnected == connected /\ ws = "open"

Init ==
  /\ running = FALSE /\ stopped = FALSE
  /\ fails = 0
  /\ token \in BOOLEAN
  /\ connected = FALSE /\ ws = "none"
  /\ attempt = NoAttempt
  /\ receiver = FALSE
  /\ reconnect = "none"
  /\ \E boot \in Client :
       client = [c \in Client |-> IF c = boot THEN "starting" ELSE "idle"]
  /\ server = "up"
  /\ refused = FALSE /\ strayed = FALSE

-----------------------------------------------------------------------------
(***************************************************************************)
(* Helpers.                                                                *)
(***************************************************************************)
\* Faulty variant (mutation runs): a failure starts the count again.
CountFailureOnce == fails' = 1 /\ UNCHANGED stopped
\* One more failure of authentication.
CountFailure ==
  /\ fails' = fails + 1
  /\ stopped' = (stopped \/ fails + 1 >= MaxFails)

\* Faulty variant (mutation runs): nobody is there to reconnect.
ScheduledNever(gaveUp) == reconnect
\* _schedule_reconnect: one task at most, none once stopped.
Scheduled(gaveUp) ==
  IF running /\ ~gaveUp /\ reconnect = "none" THEN "sleeping" ELSE reconnect

\* connect() goes on to its first await: the login, or the handshake.
Begin(who) == attempt' = [by |-> who, phase |-> IF token THEN "handshake" ELSE "login"]

\* connect() returns False to whom it was called by: start() schedules a
\* reconnection, _reconnect goes round its loop.
ReturnFailure(gaveUp) ==
  /\ attempt' = NoAttempt
  /\ IF attempt.by = "reconnect"
     THEN /\ reconnect' = IF running /\ ~gaveUp THEN "sleeping" ELSE "none"
          /\ UNCHANGED client
     ELSE /\ reconnect' = Scheduled(gaveUp)
          /\ client' = [client EXCEPT ![attempt.by] = "idle"]

-----------------------------------------------------------------------------
(***************************************************************************)
(* start(), stop() and the tasks that call them.                           *)
(***************************************************************************)
Start(c) ==
  /\ client[c] = "starting"
  /\ running' = TRUE /\ fails' = 0 /\ stopped' = FALSE
  /\ IF Connecting
     THEN /\ reconnect' = IF reconnect = "none" THEN "sleeping" ELSE reconnect
          /\ client' = [client EXCEPT ![c] = "idle"]
          /\ UNCHANGED attempt
     ELSE /\ Begin(c)
          /\ client' = [client EXCEPT ![c] = "connecting"]
          /\ UNCHANGED reconnect
  /\ UNCHANGED <<connVars, token, refused, server, strayed>>

\* A request changes the configuration and leaves the restart to a task that
\* sleeps first; a new password comes without a token.
Reconfigure(c) ==
  /\ "restart" \in Faults /\ client[c] = "idle"
  /\ client' = [client EXCEPT ![c] = "waiting"]
  /\ \/ token' = FALSE /\ refused' = FALSE
     \/ UNCHANGED <<token, refused>>
  /\ UNCHANGED <<running, stopped, fails, connVars, attempt, reconnect, server, strayed>>

\* disconnect() cancels the tasks it knows of; a connect() made by start() is
\* not one of them.  What a cancelled receive loop leaves, it leaves as it is.
StopBegin(c) ==
  /\ client[c] = "waiting"
  /\ running' = FALSE
  /\ receiver' = FALSE
  /\ reconnect' = "none"
  /\ attempt' = IF attempt.by = "reconnect" THEN NoAttempt ELSE attempt
  /\ client' = [client EXCEPT ![c] = "stopping"]
  /\ UNCHANGED <<connected, ws, authVars, server, strayed>>

\* Faulty variant (mutation runs): the connection is left as it is.
CloseNever == UNCHANGED <<ws, connected>>
Close == ws' = "none" /\ connected' = FALSE

\* The connection and the session are closed, which dooms a handshake that uses
\* them.  The client is started again unless remote access was switched off.
StopEnd(c) ==
  /\ client[c] = "stopping"
  /\ Close
  /\ attempt' = IF attempt.phase = "handshake" THEN [attempt EXCEPT !.phase = "doomed"]
                ELSE attempt
  /\ \E next \in {"starting", "idle"} : client' = [client EXCEPT ![c] = next]
  /\ UNCHANGED <<running, authVars, receiver, reconnect, server, strayed>>

-----------------------------------------------------------------------------
(***************************************************************************)
(* connect().                                                              *)
(***************************************************************************)
LoginSucceeds ==
  /\ attempt.phase = "login" /\ server # "down"
  /\ token' = TRUE /\ refused' = FALSE
  /\ attempt' = [attempt EXCEPT !.phase = "handshake"]
  /\ UNCHANGED <<running, stopped, fails, connVars, reconnect, client, server, strayed>>

\* Every failed login counts, one that could not reach the server too.
LoginFails ==
  /\ attempt.phase = "login" /\ server \in {"down", "refusing"}
  /\ CountFailure
  /\ ReturnFailure(stopped')
  /\ UNCHANGED <<running, connVars, token, refused, server, strayed>>

\* The new connection takes over: the old receive loop is cancelled, the
\* failures are forgotten.
HandshakeSucceeds ==
  /\ attempt.phase = "handshake"
  /\ server \in {"up", "hanging_up"}
  /\ strayed' = (strayed \/ ws = "open")
  /\ ws' = "open" /\ connected' = TRUE /\ receiver' = TRUE
  /\ fails' = 0 /\ stopped' = FALSE
  /\ attempt' = NoAttempt
  /\ IF attempt.by = "reconnect"
     THEN reconnect' = "none" /\ UNCHANGED client
     ELSE client' = [client EXCEPT ![attempt.by] = "idle"] /\ UNCHANGED reconnect
  /\ UNCHANGED <<running, token, refused, server>>

\* The upgrade is refused with 401; at the limit the token is kept.
HandshakeRefused ==
  /\ attempt.phase = "handshake" /\ server = "refusing"
  /\ CountFailure
  /\ token' = (token /\ stopped') /\ refused' = token'
  /\ ReturnFailure(stopped')
  /\ UNCHANGED <<running, connVars, server, strayed>>

\* The upgrade succeeds with X-Auth-Error: the new connection, which _ws names
\* already, is closed.
HandshakeMarked ==
  /\ attempt.phase = "handshake" /\ server = "refusing"
  /\ strayed' = (strayed \/ ws = "open")
  /\ ws' = "closed"
  /\ CountFailure
  /\ token' = FALSE /\ refused' = FALSE
  /\ ReturnFailure(stopped')
  /\ UNCHANGED <<running, connected, receiver, server>>

\* Any other error of the upgrade is only reported.
HandshakeFails ==
  /\ attempt.phase = "doomed" \/ (attempt.phase = "handshake" /\ server = "down")
  /\ ReturnFailure(stopped)
  /\ UNCHANGED <<running, connVars, authVars, server, strayed>>

-----------------------------------------------------------------------------
(***************************************************************************)
(* The receive loop, the reconnection, the server.                         *)
(***************************************************************************)
\* An error message 401: the token is dropped and the connection closed.
Message401 ==
  /\ receiver /\ running /\ IsConnected /\ server = "refusing"
  /\ CountFailure
  /\ token' = FALSE /\ refused' = FALSE
  /\ ws' = "closed"
  /\ UNCHANGED <<running, connected, receiver, attempt, reconnect, client, server, strayed>>

\* The receive loop ends with its connection, or with the client.
ReceiverEnds ==
  /\ receiver /\ ~(running /\ IsConnected)
  /\ receiver' = FALSE /\ connected' = FALSE
  /\ reconnect' = Scheduled(stopped)
  /\ UNCHANGED <<running, ws, authVars, attempt, client, server, strayed>>

\* A connection closed within _AUTH_FAIL_WINDOW counts as a failure first.
ReceiverHungUp ==
  /\ "hangup" \in Faults
  /\ receiver /\ running /\ connected /\ ws = "closed"
  /\ receiver' = FALSE /\ connected' = FALSE
  /\ CountFailure
  /\ token' = FALSE /\ refused' = FALSE
  /\ reconnect' = Scheduled(stopped')
  /\ UNCHANGED <<running, ws, attempt, client, server, strayed>>

\* _reconnect awakes; while another connect() is in progress its own returns
\* False at once and it sleeps again.
ReconnectEnds ==
  /\ reconnect = "sleeping" /\ (~running \/ stopped)
  /\ reconnect' = "none"
  /\ UNCHANGED <<running, connVars, authVars, attempt, client, server, strayed>>

ReconnectTries ==
  /\ reconnect = "sleeping" /\ running /\ ~stopped /\ ~Connecting
  /\ reconnect' = "connecting"
  /\ Begin("reconnect")
  /\ UNCHANGED <<running, connVars, authVars, client, server, strayed>>

Drop ==
  /\ ws = "open"
  /\ "drop" \in Faults \/ server = "hanging_up"
  /\ ws' = "closed"
  /\ UNCHANGED <<running, connected, receiver, authVars, attempt, reconnect,
                 client, server, strayed>>

ServerModes == {"up"} \cup (IF "outage" \in Faults THEN {"down"} ELSE {})
                      \cup (IF "refuse" \in Faults THEN {"refusing"} ELSE {})
                      \cup (IF "hangup" \in Faults THEN {"hanging_up"} ELSE {})

ServerChanges ==
  /\ \E mode \in ServerModes \ {server} : server' = mode
  /\ UNCHANGED <<running, connVars, authVars, attempt, reconnect, client, strayed>>

\* connect() would find the token over its time, and clear it.
TokenExpires ==
  /\ "expire" \in Faults /\ token
  /\ token' = FALSE /\ refused' = FALSE
  /\ UNCHANGED <<running, stopped, fails, connVars, attempt, reconnect, client,
                 server, strayed>>

\* A client of the program tries credentials, which fetches a token too.
VerifyLogin ==
  /\ "restart" \in Faults /\ server # "down"
  /\ token' = TRUE /\ refused' = FALSE
  /\ UNCHANGED <<running, stopped, fails, connVars, attempt, reconnect, client,
                 server, strayed>>

-----------------------------------------------------------------------------
Connect  == LoginSucceeds \/ LoginFails \/ HandshakeSucceeds \/ HandshakeRefused
              \/ HandshakeMarked \/ HandshakeFails
Receiver == Message401 \/ ReceiverEnds \/ ReceiverHungUp
Outside  == Drop \/ ServerChanges \/ TokenExpires \/ VerifyLogin

Next ==
  \/ \E c \in Client : Start(c) \/ Reconfigure(c) \/ StopBegin(c) \/ StopEnd(c)
  \/ Connect \/ Receiver \/ ReconnectEnds \/ ReconnectTries
  \/ Outside

Spec == Init /\ [][Next]_vars

\* The event loop runs its tasks, every await of connect() has a timeout, and a
\* receive loop is told that its connection has ended.
FairSpec ==
  /\ Spec
  /\ \A c \in Client : WF_vars(Start(c) \/ StopBegin(c) \/ StopEnd(c))
  /\ WF_vars(Connect)
  /\ WF_vars(ReceiverEnds \/ ReceiverHungUp)
  /\ WF_vars(ReconnectEnds \/ ReconnectTries)

-----------------------------------------------------------------------------
(***************************************************************************)
(* Properties                                                              *)
(***************************************************************************)
TypeOK ==
  /\ running \in BOOLEAN /\ stopped \in BOOLEAN
  /\ fails \in 0 .. MaxFails + 2
  /\ token \in BOOLEAN /\ connected \in BOOLEAN
  /\ ws \in {"none", "open", "closed"}
  /\ attempt = NoAttempt
       \/ attempt \in [by: Client \cup {"reconnect"}, phase: {"login", "handshake", "doomed"}]
  /\ receiver \in BOOLEAN
  /\ reconnect \in {"none", "sleeping", "connecting"}
  /\ client \in [Client -> {"idle", "waiting", "stopping", "starting", "connecting"}]
  /\ server \in ServerModes
  /\ refused \in BOOLEAN /\ strayed \in BOOLEAN

\* An attempt of the reconnection belongs to its task, one of a start to that.
\* Otherwise its result would be handed to nobody.
AttemptIsAwaited ==
  /\ attempt.by = "reconnect" <=> reconnect = "connecting"
  /\ \A c \in Client : attempt.by = c <=> client[c] = "connecting"

\* A connection that counts as up is listened to, unless it is being closed: else
\* nobody would notice its end.
IsListenedTo ==
  IsConnected => receiver \/ \E c \in Client : client[c] = "stopping"

\* docs/websocket_protocol.md, reconnection: while the client runs, has not given
\* up, and the server answers, it is connected again and again.
Recovers ==
  <>[](running /\ ~stopped /\ server = "up") => []<>IsConnected

\* _MAX_AUTH_RETRIES: a server that keeps refusing is left in peace.
GivesUp ==
  <>[](running /\ server = "refusing") => <>[](~Connecting)

\* _AUTH_FAIL_WINDOW: a connection closed at once is a refusal as well.
GivesUpWhenHungUp ==
  <>[](running /\ server = "hanging_up") /\ []<>(ws # "open") => <>[](~Connecting)

\* docs/websocket_protocol.md, reconnection: the last delay is repeated for ever;
\* only failures of authentication are counted.
OutageIsSurvived ==
  <>[](running /\ server = "up") /\ [](server # "refusing") => []<>IsConnected

\* docs/websocket_protocol.md: after a 401 the client logs in for a new token.
RefusedTokenIsRenewed ==
  [][attempt'.phase = "handshake" /\ ~Connecting => ~refused]_vars

\* src/api/websocket_client.py, connect(): one connection at a time.
OneConnection == ~strayed
=============================================================================
