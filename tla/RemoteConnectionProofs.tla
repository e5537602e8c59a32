----------------------- MODULE RemoteConnectionProofs -----------------------
(***************************************************************************)
(* For any number of tasks that restart the client and any limit on the    *)
(* failures: every connect() is awaited by the task that made it, and no   *)
(* connection goes unheard.  For any number of local clients and any       *)
(* limit: who is served is on the list of the broadcasts, as long as       *)
(* accept() does not give way.                                             *)
(***************************************************************************)
EXTENDS WebLinks, TLAPS

\* The types the argument needs; how far fails may go does not matter to it.
Types ==
  /\ receiver \in BOOLEAN /\ connected \in BOOLEAN
  /\ ws \in {"none", "open", "closed"}
  /\ attempt \in [by: Client \cup {"reconnect", "none"},
                  phase: {"none", "login", "handshake", "doomed"}]
  /\ attempt.by = "none" <=> attempt.phase = "none"
  /\ reconnect \in {"none", "sleeping", "connecting"}
  /\ client \in [Client -> {"idle", "waiting", "stopping", "starting", "connecting"}]

IInv == Types /\ AttemptIsAwaited /\ IsListenedTo

\* At the start no connect() is in progress and no connection is up.
LEMMA InitEstablishes == Init => IInv
<1> SUFFICES ASSUME Init PROVE IInv
  OBVIOUS
<1>1. Types
  BY DEF Init, Types, NoAttempt
<1>2. AttemptIsAwaited
  BY ClientAssumption DEF Init, AttemptIsAwaited, NoAttempt
<1>3. IsListenedTo
  BY DEF Init, IsListenedTo, IsConnected
<1> QED
  BY <1>1, <1>2, <1>3 DEF IInv

\* A failed connect() ends in the hands of whoever awaits it.
LEMMA FailureIsReturned ==
  ASSUME IInv, NEW gaveUp, Connecting, attempt.phase # "none", ReturnFailure(gaveUp)
  PROVE  /\ attempt' = NoAttempt
         /\ reconnect' \in {"none", "sleeping"}
         /\ client' \in [Client -> {"idle", "waiting", "stopping", "starting", "connecting"}]
         /\ \A c \in Client : client'[c] # "connecting"
         /\ \A c \in Client : client[c] = "stopping" => client'[c] = "stopping"
<1>1. CASE attempt.by = "reconnect"
  BY <1>1, ClientAssumption DEF IInv, Types, AttemptIsAwaited, ReturnFailure
<1>2. CASE attempt.by # "reconnect"
  <2>1. attempt.by \in Client
    BY <1>2 DEF IInv, Types
  <2>2. reconnect # "connecting"
    BY <1>2 DEF IInv, AttemptIsAwaited
  <2> QED
    BY <1>2, <2>1, <2>2 DEF IInv, Types, AttemptIsAwaited, ReturnFailure, Scheduled
<1> QED
  BY <1>1, <1>2

\* What such a failure leaves of the invariant, when the connection is not
\* brought up by it.
LEMMA FailurePreserves ==
  ASSUME IInv, NEW gaveUp, attempt.phase # "none", ReturnFailure(gaveUp),
         UNCHANGED <<receiver, connected>>, ws' \in {"none", "open", "closed"},
         ws' = "open" => ws = "open"
  PROVE  IInv'
<1>1. Connecting
  BY DEF Connecting, NoAttempt
<1>2. /\ attempt' = NoAttempt
      /\ reconnect' \in {"none", "sleeping"}
      /\ client' \in [Client -> {"idle", "waiting", "stopping", "starting", "connecting"}]
      /\ \A c \in Client : client'[c] # "connecting"
      /\ \A c \in Client : client[c] = "stopping" => client'[c] = "stopping"
  BY <1>1, FailureIsReturned
<1>3. Types'
  BY <1>2 DEF IInv, Types, NoAttempt
<1>4. AttemptIsAwaited'
  BY <1>2, ClientAssumption DEF AttemptIsAwaited, NoAttempt
<1>5. IsListenedTo'
  BY <1>2 DEF IInv, IsListenedTo, IsConnected
<1> QED
  BY <1>3, <1>4, <1>5 DEF IInv

\* One step of a task that restarts the client.
LEMMA ClientStep ==
  ASSUME IInv, NEW c \in Client,
         Start(c) \/ Reconfigure(c) \/ StopBegin(c) \/ StopEnd(c)
  PROVE  IInv'
<1>1. CASE Start(c) /\ Connecting
  <2>1. Types'
    BY <1>1 DEF Start, IInv, Types, connVars
  <2>2. AttemptIsAwaited'
    BY <1>1 DEF Start, IInv, Types, AttemptIsAwaited
  <2>3. IsListenedTo'
    BY <1>1 DEF Start, IInv, Types, IsListenedTo, IsConnected, connVars
  <2> QED
    BY <2>1, <2>2, <2>3 DEF IInv
<1>2. CASE Start(c) /\ ~Connecting
  <2>1. /\ attempt = NoAttempt
        /\ attempt' \in [by: {c}, phase: {"login", "handshake"}]
    BY <1>2 DEF Start, Begin, Connecting
  <2>2. Types'
    BY <1>2, <2>1, ClientAssumption DEF Start, IInv, Types, connVars
  <2>3. AttemptIsAwaited'
    BY <1>2, <2>1, ClientAssumption DEF Start, IInv, Types, AttemptIsAwaited, NoAttempt
  <2>4. IsListenedTo'
    BY <1>2 DEF Start, IInv, Types, IsListenedTo, IsConnected, connVars
  <2> QED
    BY <2>2, <2>3, <2>4 DEF IInv
<1>3. CASE Reconfigure(c)
  <2>1. Types'
    BY <1>3 DEF Reconfigure, IInv, Types, connVars
  <2>2. AttemptIsAwaited'
    BY <1>3 DEF Reconfigure, IInv, Types, AttemptIsAwaited
  <2>3. IsListenedTo'
    BY <1>3 DEF Reconfigure, IInv, Types, IsListenedTo, IsConnected, connVars
  <2> QED
    BY <2>1, <2>2, <2>3 DEF IInv
<1>4. CASE StopBegin(c)
  <2>1. Types'
    BY <1>4 DEF StopBegin, IInv, Types, NoAttempt
  <2>2. AttemptIsAwaited'
    BY <1>4, ClientAssumption DEF StopBegin, IInv, Types, AttemptIsAwaited, NoAttempt
  <2>3. client'[c] = "stopping"
    BY <1>4 DEF StopBegin, IInv, Types
  <2>4. IsListenedTo'
    BY <2>3 DEF IsListenedTo
  <2> QED
    BY <2>1, <2>2, <2>4 DEF IInv
<1>5. CASE StopEnd(c)
  <2>1. PICK next \in {"starting", "idle"} : client' = [client EXCEPT ![c] = next]
    BY <1>5 DEF StopEnd
  <2>2. attempt'.by = attempt.by
    BY <1>5 DEF StopEnd, IInv, Types
  <2>3. Types'
    BY <1>5, <2>1 DEF StopEnd, Close, IInv, Types
  <2>4. AttemptIsAwaited'
    BY <1>5, <2>1, <2>2 DEF StopEnd, IInv, Types, AttemptIsAwaited
  <2>5. IsListenedTo'
    BY <1>5 DEF StopEnd, Close, IsListenedTo, IsConnected
  <2> QED
    BY <2>3, <2>4, <2>5 DEF IInv
<1> QED
  BY <1>1, <1>2, <1>3, <1>4, <1>5

\* One step of a connect().
LEMMA ConnectStep == ASSUME IInv, Connect PROVE IInv'
<1>1. CASE LoginSucceeds
  <2>1. attempt'.by = attempt.by
    BY <1>1 DEF LoginSucceeds, IInv, Types
  <2>2. Types'
    BY <1>1 DEF LoginSucceeds, IInv, Types, connVars
  <2>3. AttemptIsAwaited'
    BY <1>1, <2>1 DEF LoginSucceeds, IInv, AttemptIsAwaited
  <2>4. IsListenedTo'
    BY <1>1 DEF LoginSucceeds, IInv, IsListenedTo, IsConnected, connVars
  <2> QED
    BY <2>2, <2>3, <2>4 DEF IInv
<1>2. CASE LoginFails
  BY <1>2, FailurePreserves DEF LoginFails, IInv, Types, connVars
<1>3. CASE HandshakeSucceeds
  <2>1. attempt' = NoAttempt
    BY <1>3 DEF HandshakeSucceeds
  <2>2. /\ reconnect' \in {"none", "sleeping"}
        /\ client' \in [Client -> {"idle", "waiting", "stopping", "starting", "connecting"}]
        /\ \A c \in Client : client'[c] # "connecting"
    <3>1. CASE attempt.by = "reconnect"
      BY <1>3, <3>1, ClientAssumption DEF HandshakeSucceeds, IInv, Types, AttemptIsAwaited
    <3>2. CASE attempt.by # "reconnect"
      <4>1. attempt.by \in Client
        BY <1>3, <3>2 DEF HandshakeSucceeds, IInv, Types
      <4> QED
        BY <1>3, <3>2, <4>1 DEF HandshakeSucceeds, IInv, Types, AttemptIsAwaited
    <3> QED
      BY <3>1, <3>2
  <2>3. Types'
    BY <1>3, <2>1, <2>2 DEF HandshakeSucceeds, Types, NoAttempt
  <2>4. AttemptIsAwaited'
    BY <2>1, <2>2, ClientAssumption DEF AttemptIsAwaited, NoAttempt
  <2>5. IsListenedTo'
    BY <1>3 DEF HandshakeSucceeds, IsListenedTo
  <2> QED
    BY <2>3, <2>4, <2>5 DEF IInv
<1>4. CASE HandshakeRefused
  BY <1>4, FailurePreserves DEF HandshakeRefused, IInv, Types, connVars
<1>5. CASE HandshakeMarked
  BY <1>5, FailurePreserves DEF HandshakeMarked, IInv, Types
<1>6. CASE HandshakeFails
  BY <1>6, FailurePreserves DEF HandshakeFails, IInv, Types, connVars
<1> QED
  BY <1>1, <1>2, <1>3, <1>4, <1>5, <1>6 DEF Connect

\* One step of the receive loop.
LEMMA ReceiverStep == ASSUME IInv, Receiver PROVE IInv'
<1>1. CASE Message401
  BY <1>1 DEF Message401, IInv, Types, AttemptIsAwaited, IsListenedTo, IsConnected
<1>2. CASE ReceiverEnds \/ ReceiverHungUp
  <2>1. /\ receiver' = FALSE /\ connected' = FALSE
        /\ UNCHANGED <<ws, attempt, client>>
        /\ reconnect' = Scheduled(stopped) \/ reconnect' = Scheduled(stopped')
    BY <1>2 DEF ReceiverEnds, ReceiverHungUp
  <2>2. reconnect' = reconnect \/ (reconnect = "none" /\ reconnect' = "sleeping")
    BY <2>1 DEF Scheduled
  <2>3. Types'
    BY <2>1, <2>2 DEF IInv, Types
  <2>4. AttemptIsAwaited'
    BY <2>1, <2>2 DEF IInv, AttemptIsAwaited
  <2>5. IsListenedTo'
    BY <2>1 DEF IsListenedTo, IsConnected
  <2> QED
    BY <2>3, <2>4, <2>5 DEF IInv
<1> QED
  BY <1>1, <1>2 DEF Receiver

\* One step of the reconnection.
LEMMA ReconnectStep == ASSUME IInv, ReconnectEnds \/ ReconnectTries PROVE IInv'
<1>1. CASE ReconnectEnds
  BY <1>1 DEF ReconnectEnds, IInv, Types, AttemptIsAwaited, IsListenedTo, IsConnected, connVars
<1>2. CASE ReconnectTries
  <2>1. /\ attempt = NoAttempt
        /\ attempt' \in [by: {"reconnect"}, phase: {"login", "handshake"}]
    BY <1>2 DEF ReconnectTries, Begin, Connecting
  <2>2. Types'
    BY <1>2, <2>1 DEF ReconnectTries, IInv, Types, connVars
  <2>3. AttemptIsAwaited'
    BY <1>2, <2>1, ClientAssumption DEF ReconnectTries, IInv, AttemptIsAwaited, NoAttempt
  <2>4. IsListenedTo'
    BY <1>2 DEF ReconnectTries, IInv, IsListenedTo, IsConnected, connVars
  <2> QED
    BY <2>2, <2>3, <2>4 DEF IInv
<1> QED
  BY <1>1, <1>2

\* What happens outside the client.
LEMMA OutsideStep == ASSUME IInv, Outside PROVE IInv'
<1>1. CASE Drop
  BY <1>1 DEF Drop, IInv, Types, AttemptIsAwaited, IsListenedTo, IsConnected
<1>2. CASE ServerChanges \/ TokenExpires \/ VerifyLogin
  <2>1. UNCHANGED <<receiver, connected, ws, attempt, reconnect, client>>
    BY <1>2 DEF ServerChanges, TokenExpires, VerifyLogin, connVars
  <2> QED
    BY <2>1 DEF IInv, Types, AttemptIsAwaited, IsListenedTo, IsConnected
<1> QED
  BY <1>1, <1>2 DEF Outside

\* The invariant holds in every behaviour.
THEOREM Invariance == Spec => []IInv
<1>1. ASSUME IInv, [Next]_vars PROVE IInv'
  <2>1. CASE Next
    BY <1>1, <2>1, ClientStep, ConnectStep, ReceiverStep, ReconnectStep, OutsideStep DEF Next
  <2>2. CASE UNCHANGED vars
    BY <1>1, <2>2 DEF vars, connVars, IInv, Types, AttemptIsAwaited, IsListenedTo, IsConnected
  <2> QED
    BY <1>1, <2>1, <2>2
<1> QED
  BY InitEstablishes, <1>1, PTL DEF Spec

\* connect() and its callers agree, whatever restarts, failures and cancellations
\* interleave: no result goes astray, and at most one connect() is in progress.
THEOREM EveryAttemptIsAwaited == Spec => []AttemptIsAwaited
<1>1. IInv => AttemptIsAwaited
  BY DEF IInv
<1> QED
  BY Invariance, <1>1, PTL

\* A connection that counts as up has its receive loop or is being closed.
THEOREM EveryConnectionIsListenedTo == Spec => []IsListenedTo
<1>1. IInv => IsListenedTo
  BY DEF IInv
<1> QED
  BY Invariance, <1>1, PTL

-----------------------------------------------------------------------------
(***************************************************************************)
(* The local clients.                                                      *)
(***************************************************************************)
\* What a broadcast works on are connections that have been accepted; the ones that
\* failed are gone, and their objects are not used again before it is over.
ClientsInv ==
  /\ endpoint \in [Browser -> {"none", "waiting", "refusing", "serving", "done"}]
  /\ cast \in [Caster -> [pc : {"look", "sending", "remote"}, all : SUBSET Browser,
                          to : SUBSET Browser, failed : SUBSET Browser, what : Status \cup {Unknown}]]
  /\ active_connections \subseteq Browser /\ present \subseteq Browser /\ status \in Status
  /\ \A b \in Browser : endpoint[b] \in {"none", "done"} => b \notin present
  /\ \A b \in active_connections : endpoint[b] \in {"serving", "done"}
  /\ \A k \in Caster : \A b \in cast[k].all : endpoint[b] \in {"serving", "done"}
  /\ \A k \in Caster : cast[k].to \subseteq cast[k].all /\ cast[k].failed \subseteq cast[k].all
  /\ \A k \in Caster : \A b \in cast[k].failed : b \notin present
  /\ \A b \in present : endpoint[b] = "serving" => b \in active_connections

LEMMA ClientsStart == ClientsInit => ClientsInv
BY DEF ClientsInit, ClientsInv, NoCast, Caster, Status, Unknown

\* A connection comes, is admitted or not, is left by its client or given up.
LEMMA EndpointStep ==
  ASSUME ~AcceptYields, ClientsInv, NEW b \in Browser,
         Arrive(b) \/ Endpoint(b) \/ Gone(b) \/ Collected(b)
  PROVE  ClientsInv'
<1>1. CASE Arrive(b)
  BY <1>1 DEF Arrive, Moves, ClientsInv, statusVars
<1>2. CASE Admit(b)
  <2>1. CASE Cardinality(active_connections) >= MaxConnections
    BY <1>2, <2>1 DEF Admit, Moves, ClientsInv, statusVars
  <2>2. CASE ~(Cardinality(active_connections) >= MaxConnections)
    <3>1. PICK pc \in AfterAccept(b) : endpoint' = [endpoint EXCEPT ![b] = pc]
      BY <1>2, <2>2 DEF Admit, Moves
    <3>2. pc \in {"serving", "done"} /\ (pc = "done" => b \notin present)
      BY DEF AfterAccept
    <3>3. /\ active_connections' = active_connections \cup {b}
          /\ UNCHANGED <<present, cast, status>>
      BY <1>2, <2>2 DEF Admit, statusVars
    <3> QED
      BY <3>1, <3>2, <3>3 DEF ClientsInv
  <2> QED
    BY <2>1, <2>2
<1>3. CASE Accept(b)
  BY <1>3 DEF Accept, ClientsInv
<1>4. CASE Refuse(b)
  BY <1>4 DEF Refuse, Moves, ClientsInv, statusVars
<1>5. CASE Disconnect(b)
  BY <1>5 DEF Disconnect, Moves, ClientsInv, statusVars
<1>6. CASE Gone(b)
  BY <1>6 DEF Gone, ClientsInv, statusVars
<1>7. CASE Collected(b)
  BY <1>7 DEF Collected, Moves, ClientsInv, statusVars
<1> QED
  BY <1>1, <1>2, <1>3, <1>4, <1>5, <1>6, <1>7 DEF Endpoint

\* A send, and the removal of those whose send failed.
LEMMA BroadcastStep ==
  ASSUME ClientsInv, NEW k \in Caster, Broadcast(k)
  PROVE  ClientsInv'
<1>1. ASSUME NEW b \in Browser, SafeSend(k, b) PROVE ClientsInv'
  <2>1. /\ cast[k].pc = "sending" /\ b \in cast[k].to
        /\ UNCHANGED <<endpoint, present, active_connections, status>>
    BY <1>1 DEF SafeSend, statusVars
  <2>2. CASE endpoint[b] = "serving" /\ b \in present
    BY <1>1, <2>1, <2>2 DEF SafeSend, ClientsInv
  <2>3. CASE ~(endpoint[b] = "serving" /\ b \in present)
    <3>1. b \in cast[k].all /\ b \notin present
      BY <2>1, <2>3 DEF ClientsInv
    <3>2. cast' = [cast EXCEPT ![k].to = @ \ {b}, ![k].failed = cast[k].failed \cup {b}]
      BY <1>1, <2>3 DEF SafeSend, FailureNoted
    <3>3. /\ cast' \in [Caster -> [pc : {"look", "sending", "remote"}, all : SUBSET Browser,
                         to : SUBSET Browser, failed : SUBSET Browser, what : Status \cup {Unknown}]]
          /\ cast'[k].all = cast[k].all /\ cast'[k].to = cast[k].to \ {b}
          /\ cast'[k].failed = cast[k].failed \cup {b}
          /\ \A j \in Caster \ {k} : cast'[j] = cast[j]
      BY <3>2 DEF ClientsInv
    <3> QED
      BY <2>1, <3>1, <3>3 DEF ClientsInv
  <2> QED
    BY <2>2, <2>3
<1>2. CASE Remove(k)
  <2>1. /\ active_connections' \subseteq active_connections
        /\ \A b \in active_connections : b \in active_connections' \/ b \in cast[k].failed
        /\ UNCHANGED <<endpoint, present, status>>
    BY <1>2 DEF Remove, TakenOut, statusVars
  <2>2. /\ cast' \in [Caster -> [pc : {"look", "sending", "remote"}, all : SUBSET Browser,
                       to : SUBSET Browser, failed : SUBSET Browser, what : Status \cup {Unknown}]]
        /\ cast'[k].all = {} /\ cast'[k].to = {} /\ cast'[k].failed = {}
        /\ \A j \in Caster \ {k} : cast'[j] = cast[j]
    BY <1>2 DEF Remove, ClientsInv, NoCast
  <2> QED
    BY <2>1, <2>2 DEF ClientsInv
<1>3. CASE k = "loop" /\ SendToRemote
  BY <1>3 DEF SendToRemote, ClientsInv, NoCast, Caster, Unknown
<1> QED
  BY <1>1, <1>2, <1>3 DEF Broadcast

LEMMA ClientsStep ==
  ASSUME ~AcceptYields, ClientsInv, [ClientsNext]_clientsVars
  PROVE  ClientsInv'
<1>1. CASE Look \/ EventComes
  <2>1. UNCHANGED <<endpoint, present, active_connections, status>>
    BY <1>1 DEF Look, EventComes, statusVars
  <2>2. \/ cast' = cast
        \/ \E k \in Caster, what \in Status \cup {Unknown} :
             cast' = [cast EXCEPT ![k] = Casts(k, what)]
    BY <1>1 DEF Look, EventComes, Caster, ClientsInv
  <2> QED
    BY <2>1, <2>2 DEF ClientsInv, Casts
<1>2. CASE StatusChanges \/ UplinkToggles
  BY <1>2 DEF StatusChanges, UplinkToggles, ClientsInv
<1>3. CASE UNCHANGED clientsVars
  BY <1>3 DEF clientsVars, ClientsInv
<1> QED
  BY <1>1, <1>2, <1>3, EndpointStep, BroadcastStep DEF ClientsNext

\* The two sides together are each a behaviour of its own: what is proved of the uplink
\* and of the local clients holds of both.
THEOREM LinksAreTheirParts ==
  LinksSpec => Spec /\ ClientsInit /\ [][ClientsNext]_clientsVars
<1>1. LinksInit => Init /\ ClientsInit
  BY DEF LinksInit
<1>2. [LinksNext]_linksVars => [Next]_vars /\ [ClientsNext]_clientsVars
  BY DEF LinksNext, linksVars
<1> QED
  BY <1>1, <1>2, PTL DEF LinksSpec, Spec

\* For any number of browsers and any limit, where accept() does not give way: a client
\* that is there and served stays on the list, whatever broadcasts with an older copy of
\* the list take out, and however objects are used again.
THEOREM SpecOpenIsListed ==
  ASSUME ~AcceptYields
  PROVE  ClientsInit /\ [][ClientsNext]_clientsVars => []OpenIsListed
<1>1. ClientsInv => OpenIsListed
  BY DEF ClientsInv, OpenIsListed
<1>2. ClientsInv /\ [ClientsNext]_clientsVars => ClientsInv'
  BY ClientsStep
<1> QED
  BY <1>1, <1>2, ClientsStart, PTL
=============================================================================
