------------------------- MODULE MainProcessProofs -------------------------
(***************************************************************************)
(* Proofs about the parts of the main process: the shells of the terminal, *)
(* the configuration file, the wiring of the zones and the serial line;    *)
(* last, that the process of MainProcess, which composes them, is one of   *)
(* each.                                                                   *)
(***************************************************************************)
EXTENDS MainProcess, TLAPS, FiniteSetTheorems, SequenceTheorems

(***************************************************************************)
(* Terminal.  For any connections, any limit and any number of sessions: no *)
(* more shells run than the limit allows, as long as a shell that is killed *)
(* dies, and a client that was told of an exit is sent nothing after it.   *)
(***************************************************************************)

\* Where a session stands when its end is told: its shell is dead and its drain
\* task has stopped, and the client is told last of all.
Orderly(x) ==
  /\ x.stage \in {"telling", "over"} => x.shell # "running" /\ ~x.sending
  /\ x.told = "exit" => x.stage = "over"

EndsAreOrderly == \A s \in Session : Orderly(session[s])

\* Every shell that runs has its session in the dictionary whose length is
\* compared with the limit.
RunningIsListed == \A s \in Session : session[s].shell = "running" => s \in sessions

\* The task that makes a process holds the lock, and has a place for it.
MakerHasLock == \A c \in Client : task[c].pc = "spawning" => lock = c
PlaceIsKept == Cardinality(sessions) + (IF lock = Nobody THEN 0 ELSE 1) <= MaxSessions

TInv == TerminalTypeOK /\ EndsAreOrderly /\ RunningIsListed /\ MakerHasLock /\ PlaceIsKept

\* Sessions are finitely many, so that those in the dictionary can be counted.
LEMMA SessionsAreFinite ==
  ASSUME NEW S, S \subseteq Session
  PROVE  IsFiniteSet(S) /\ Cardinality(S) \in Nat
BY SessionAssumption, FS_Subset, FS_CardinalityType

\* The invariant implies the limit on the shells that run.
LEMMA InvariantBounds == TInv => ShellsAreBounded
<1> SUFFICES ASSUME TInv PROVE ShellsAreBounded
  OBVIOUS
<1> DEFINE R == {s \in Session : session[s].shell = "running"}
<1>1. R \subseteq sessions /\ sessions \subseteq Session
  BY DEF TInv, RunningIsListed, TerminalTypeOK
<1>2. IsFiniteSet(sessions) /\ Cardinality(sessions) \in Nat /\ Cardinality(R) \in Nat
  BY <1>1, SessionsAreFinite
<1>3. Cardinality(R) <= Cardinality(sessions)
  BY <1>1, <1>2, FS_Subset
<1> QED
  BY <1>2, <1>3, MaxSessionsAssumption DEF TInv, PlaceIsKept, ShellsAreBounded

LEMMA TerminalStarts == TerminalInit => TInv
<1> SUFFICES ASSUME TerminalInit PROVE TInv
  OBVIOUS
<1>1. TerminalTypeOK
  BY DEF TerminalInit, TerminalTypeOK, Idle, Forgotten, TaskStates, SessionObjects
<1>2. EndsAreOrderly /\ RunningIsListed
  BY DEF TerminalInit, EndsAreOrderly, RunningIsListed, Orderly, Forgotten
<1>3. MakerHasLock
  BY DEF TerminalInit, MakerHasLock, Idle, Actor
<1>4. PlaceIsKept
  BY FS_EmptySet, MaxSessionsAssumption DEF TerminalInit, PlaceIsKept
<1> QED
  BY <1>1, <1>2, <1>3, <1>4 DEF TInv

-----------------------------------------------------------------------------
\* A change of one session that starts no shell keeps what concerns sessions.
LEMMA OneSessionChanges ==
  ASSUME TInv, NEW s \in Session, NEW x \in SessionObjects, Becomes(s, x), Orderly(x),
         x.shell = "running" => session[s].shell = "running" /\ s \in sessions',
         \A r \in Session \ {s} : r \in sessions => r \in sessions'
  PROVE  session' \in [Session -> SessionObjects] /\ EndsAreOrderly' /\ RunningIsListed'
<1>1. session' \in [Session -> SessionObjects]
  BY DEF Becomes, TInv, TerminalTypeOK
<1>2. session'[s] = x /\ \A r \in Session \ {s} : session'[r] = session[r]
  BY DEF Becomes, TInv, TerminalTypeOK
<1> QED
  BY <1>1, <1>2 DEF TInv, EndsAreOrderly, RunningIsListed

\* A change of one task that does not make a process keeps what concerns tasks.
LEMMA OneTaskChanges ==
  ASSUME TInv, NEW a \in Actor, NEW t \in TaskStates, task' = [task EXCEPT ![a] = t],
         t.pc = "spawning" => task[a].pc = "spawning", UNCHANGED lock
  PROVE  task' \in [Actor -> TaskStates] /\ MakerHasLock'
BY DEF TInv, TerminalTypeOK, MakerHasLock, Actor

\* Neither sessions nor lock: no place is taken or given.
LEMMA PlacesStay ==
  ASSUME TInv, UNCHANGED <<sessions, lock>>
  PROVE  PlaceIsKept' /\ sessions' \subseteq Session /\ lock' \in Client \cup {Nobody}
BY DEF TInv, TerminalTypeOK, PlaceIsKept

\* The steps that neither touch a session nor give or take the lock: tasks that
\* wait, visit, give up waiting or end, and connections.
LEMMA TaskSteps ==
  ASSUME TInv,
         \/ \E c \in Client : Ask(c) \/ LinkDrops(c) \/ Close(c)
         \/ \E a \in Actor : Stopped(a) \/ Visited(a)
         \/ WatchdogWakes \/ UplinkReturns
  PROVE  TInv'
<1>1. UNCHANGED <<lock, sessions, session>>
  BY DEF Ask, LinkDrops, Close, Stopped, Visited, WatchdogWakes, UplinkReturns
<1>2. link' \in [Client -> BOOLEAN]
  BY DEF TInv, TerminalTypeOK, Ask, LinkDrops, Close, Stopped, Visited, WatchdogWakes,
         UplinkReturns
<1>3. task' \in [Actor -> TaskStates] /\ MakerHasLock'
  <2> USE <1>1 DEF TInv, TerminalTypeOK, TaskStates, MakerHasLock, Actor
  <2>1. ASSUME NEW c \in Client, Ask(c) PROVE task' \in [Actor -> TaskStates] /\ MakerHasLock'
    BY <2>1 DEF Ask, Goes
  <2>2. ASSUME NEW c \in Client, Close(c) PROVE task' \in [Actor -> TaskStates] /\ MakerHasLock'
    BY <2>2 DEF Close
  <2>3. ASSUME NEW a \in Actor, Stopped(a) PROVE task' \in [Actor -> TaskStates] /\ MakerHasLock'
    BY <2>3 DEF Stopped
  <2>4. ASSUME NEW a \in Actor, Visited(a) PROVE task' \in [Actor -> TaskStates] /\ MakerHasLock'
    BY <2>4 DEF Visited
  <2>5. CASE WatchdogWakes
    BY <2>5 DEF WatchdogWakes
  <2>6. CASE UplinkReturns \/ \E c \in Client : LinkDrops(c)
    BY <2>6 DEF UplinkReturns, LinkDrops
  <2> QED
    BY <2>1, <2>2, <2>3, <2>4, <2>5, <2>6
<1>4. PlaceIsKept' /\ sessions' \subseteq Session /\ lock' \in Client \cup {Nobody}
  BY <1>1, PlacesStay
<1> QED
  BY <1>1, <1>2, <1>3, <1>4
     DEF TInv, TerminalTypeOK, EndsAreOrderly, RunningIsListed

\* The steps in which one session changes alone.
LEMMA SessionSteps ==
  ASSUME TInv, NEW s \in Session,
         \/ \E c \in Client : Input(c, s)
         \/ Output(s) \/ ShellExits(s) \/ GrowsIdle(s) \/ Sent(s) \/ Forget(s)
         \/ "immortal" \notin TerminalFaults /\ Drained(s)
  PROVE  TInv'
<1> USE DEF TInv, TerminalTypeOK
<1> DEFINE Keeps(x) == /\ x \in SessionObjects /\ Orderly(x)
                       /\ x.shell = "running" => session[s].shell = "running" /\ s \in sessions
<1>1. UNCHANGED <<link, task, lock, sessions>>
  BY DEF Input, Output, ShellExits, GrowsIdle, Sent, Forget, Drained
<1>2. session[s] \in SessionObjects /\ Orderly(session[s])
      /\ (session[s].shell = "running" => s \in sessions)
  BY DEF EndsAreOrderly, RunningIsListed
<1>3. \E x : Becomes(s, x) /\ Keeps(x)
  <2> USE <1>2 DEF SessionObjects, Orderly
  <2>1. CASE \E c \in Client : Input(c, s)
    <3> DEFINE x == [session[s] EXCEPT !.idle = FALSE]
    <3>1. Keeps(x)
      BY <2>1 DEF Input
    <3>2. Becomes(s, x)
      BY <2>1 DEF Input
    <3> QED
      BY <3>1, <3>2
  <2>2. CASE Output(s)
    <3> DEFINE x == [session[s] EXCEPT !.out = TRUE]
    <3>1. Keeps(x)
      BY <2>2 DEF Output, Alive
    <3>2. Becomes(s, x)
      BY <2>2 DEF Output
    <3> QED
      BY <3>1, <3>2
  <2>3. CASE ShellExits(s)
    <3> DEFINE x == [session[s] EXCEPT !.shell = "dead"]
    <3>1. Keeps(x)
      BY <2>3 DEF ShellExits
    <3>2. Becomes(s, x)
      BY <2>3 DEF ShellExits
    <3> QED
      BY <3>1, <3>2
  <2>4. CASE GrowsIdle(s)
    <3> DEFINE x == [session[s] EXCEPT !.idle = TRUE]
    <3>1. Keeps(x)
      BY <2>4 DEF GrowsIdle, Alive
    <3>2. Becomes(s, x)
      BY <2>4 DEF GrowsIdle
    <3> QED
      BY <3>1, <3>2
  <2>5. CASE Sent(s)
    <3> DEFINE x == [Told(session[s], "output") EXCEPT !.sending = FALSE]
    <3>1. Keeps(x)
      BY <2>5 DEF Sent, Told
    <3>2. Becomes(s, x)
      BY <2>5 DEF Sent
    <3> QED
      BY <3>1, <3>2
  <2>6. CASE Forget(s)
    <3> DEFINE x == Forgotten
    <3>1. Keeps(x)
      BY <2>6 DEF Forget, Forgotten
    <3>2. Becomes(s, x)
      BY <2>6 DEF Forget
    <3> QED
      BY <3>1, <3>2
  <2>7. CASE "immortal" \notin TerminalFaults /\ Drained(s)
    <3> DEFINE x == Killed(DrainEnds(session[s]), TRUE)
    <3>1. Keeps(x)
      BY <2>7 DEF Drained, KillWorks, Killed, DrainEnds
    <3>2. Becomes(s, x)
      BY <2>7 DEF Drained, KillWorks
    <3> QED
      BY <3>1, <3>2
  <2> QED
    BY <2>1, <2>2, <2>3, <2>4, <2>5, <2>6, <2>7
<1>4. session' \in [Session -> SessionObjects] /\ EndsAreOrderly' /\ RunningIsListed'
  BY <1>1, <1>3, OneSessionChanges
<1> QED
  BY <1>1, <1>4, PlacesStay DEF MakerHasLock, PlaceIsKept

\* A session that stop() is called for dies, or is ended by the caller; in neither
\* case does a shell start.
LEMMA StopKeeps ==
  ASSUME TInv, NEW a \in Actor, NEW s \in Session, NEW x \in SessionObjects, Orderly(x),
         x.stage = "alive", x.shell = "running" => session[s].shell = "running",
         NEW tasks \in [Actor -> TaskStates],
         \A c \in Client : tasks[c].pc = "spawning" => task[c].pc = "spawning",
         Stops(a, s, x, tasks), UNCHANGED <<link, lock, sessions>>
  PROVE  TInv'
<1> USE DEF TInv, TerminalTypeOK
<1>1. PICK works \in BOOLEAN :
        /\ Becomes(s, IF works THEN Killed(x, TRUE) ELSE Ending(x, a))
        /\ task' = [tasks EXCEPT ![a].at = s]
  BY DEF Stops
<1> DEFINE y == IF works THEN Killed(x, TRUE) ELSE Ending(x, a)
<1>2. y \in SessionObjects /\ Orderly(y) /\ (y.shell = "running" => x.shell = "running")
  BY DEF SessionObjects, Killed, Ending, Orderly
<1>3. session[s].shell = "running" => s \in sessions
  BY DEF RunningIsListed
<1>4. session' \in [Session -> SessionObjects] /\ EndsAreOrderly' /\ RunningIsListed'
  BY <1>1, <1>2, <1>3, OneSessionChanges
<1>5. task' \in [Actor -> TaskStates] /\ MakerHasLock'
  BY <1>1 DEF TaskStates, MakerHasLock, Actor
<1> QED
  BY <1>4, <1>5, PlacesStay DEF PlaceIsKept

\* The lock is taken only while there is a place, and given back with the place
\* used or free again.
LEMMA EnterKeeps ==
  ASSUME TInv, NEW c \in Client, Enter(c)
  PROVE  TInv'
<1> USE DEF TInv, TerminalTypeOK
<1>1. lock = Nobody /\ UNCHANGED <<link, sessions, session>>
  BY DEF Enter
<1>2. Cardinality(sessions) \in Nat
  BY SessionsAreFinite
<1>3. EndsAreOrderly' /\ RunningIsListed'
  BY <1>1 DEF EndsAreOrderly, RunningIsListed
<1>4. \A d \in Client : task[d].pc # "spawning"
  BY <1>1, ClientAssumption DEF MakerHasLock
<1>5. CASE BelowLimit
  <2>1. lock' = c /\ task' = [task EXCEPT ![c].pc = "spawning"]
    BY <1>5 DEF Enter, Goes
  <2>2. task' \in [Actor -> TaskStates] /\ MakerHasLock'
    BY <1>4, <2>1 DEF TaskStates, MakerHasLock, Actor
  <2>3. PlaceIsKept'
    BY <1>1, <1>2, <1>5, <2>1, ClientAssumption, MaxSessionsAssumption DEF PlaceIsKept, BelowLimit
  <2> QED
    BY <1>1, <1>3, <2>1, <2>2, <2>3
<1>6. CASE ~BelowLimit
  <2>1. lock' = lock /\ task' = [task EXCEPT ![c].pc = "idle"]
    BY <1>6 DEF Enter, Goes
  <2>2. task' \in [Actor -> TaskStates] /\ MakerHasLock'
    BY <1>4, <2>1 DEF TaskStates, MakerHasLock, Actor
  <2> QED
    BY <1>1, <1>3, <2>1, <2>2, PlacesStay
<1> QED
  BY <1>5, <1>6

LEMMA RegisterKeeps ==
  ASSUME TInv, NEW c \in Client, NEW s \in Session, Register(c, s)
  PROVE  TInv'
<1> USE DEF TInv, TerminalTypeOK
<1>1. /\ task[c].pc = "spawning" /\ Becomes(s, NewSession(c))
      /\ sessions' = sessions \cup {s} /\ lock' = Nobody /\ link' = link
      /\ task' = [task EXCEPT ![c] = Idle, ![Watchdog] = EnsureWatchdog]
  BY DEF Register
<1>2. lock = c /\ lock # Nobody
  BY <1>1, ClientAssumption DEF MakerHasLock
<1>3. NewSession(c) \in SessionObjects /\ Orderly(NewSession(c))
  BY DEF NewSession, SessionObjects, Orderly
<1>4. session' \in [Session -> SessionObjects] /\ EndsAreOrderly' /\ RunningIsListed'
  <2>1. session'[s] = NewSession(c) /\ \A r \in Session \ {s} : session'[r] = session[r]
    BY <1>1 DEF Becomes
  <2> QED
    BY <1>1, <1>3, <2>1 DEF Becomes, EndsAreOrderly, RunningIsListed
<1>5. \A d \in Client : d # c => task[d].pc # "spawning"
  BY <1>2 DEF MakerHasLock
<1>6. task' \in [Actor -> TaskStates] /\ MakerHasLock'
  BY <1>1, <1>5 DEF TaskStates, MakerHasLock, EnsureWatchdog, Idle, Actor
<1>7. PlaceIsKept'
  <2>1. IsFiniteSet(sessions) /\ Cardinality(sessions) \in Nat
    BY SessionsAreFinite
  <2>2. /\ Cardinality(sessions') \in Nat
        /\ Cardinality(sessions') <= Cardinality(sessions) + 1
    <3>1. Cardinality(sessions \cup {s}) =
            IF s \in sessions THEN Cardinality(sessions) ELSE Cardinality(sessions) + 1
      BY <2>1, FS_AddElement
    <3> QED
      BY <1>1, <2>1, <3>1
  <2> QED
    BY <1>1, <1>2, <2>1, <2>2, MaxSessionsAssumption DEF PlaceIsKept
<1> QED
  BY <1>1, <1>4, <1>6, <1>7

LEMMA SpawnFailsKeeps ==
  ASSUME TInv, NEW c \in Client, SpawnFails(c)
  PROVE  TInv'
<1> USE DEF TInv, TerminalTypeOK
<1>1. /\ task[c].pc = "spawning" /\ task' = [task EXCEPT ![c].pc = "idle"]
      /\ lock' = Nobody /\ UNCHANGED <<link, sessions, session>>
  BY DEF SpawnFails, Goes
<1>2. lock = c /\ lock # Nobody
  BY <1>1, ClientAssumption DEF MakerHasLock
<1>3. task' \in [Actor -> TaskStates] /\ MakerHasLock'
  BY <1>1, <1>2 DEF TaskStates, MakerHasLock, Actor
<1>4. PlaceIsKept'
  <2>1. Cardinality(sessions) \in Nat
    BY SessionsAreFinite
  <2> QED
    BY <1>1, <1>2, <2>1, MaxSessionsAssumption DEF PlaceIsKept
<1> QED
  BY <1>1, <1>3, <1>4 DEF EndsAreOrderly, RunningIsListed

\* stop() called by a client, by an endpoint or the watchdog, by the stop task.
LEMMA StoppingKeeps ==
  ASSUME TInv,
         \/ \E c \in Client, s \in Session : StopRequest(c, s)
         \/ \E a \in Actor : Visit(a)
         \/ \E s \in Session : Take(s)
  PROVE  TInv'
<1> USE DEF TInv, TerminalTypeOK
<1>1. ASSUME NEW c \in Client, NEW s \in Session, StopRequest(c, s) PROVE TInv'
  <2>1. Alive(s) /\ Stops(c, s, session[s], task) /\ UNCHANGED <<link, lock, sessions>>
    BY <1>1 DEF StopRequest
  <2>2. session[s] \in SessionObjects /\ Orderly(session[s]) /\ c \in Actor
    BY DEF EndsAreOrderly, Actor
  <2> QED
    BY <2>1, <2>2, StopKeeps DEF Alive
<1>2. ASSUME NEW a \in Actor, Visit(a) PROVE TInv'
  <2>1. PICK s \in task[a].todo :
          /\ Alive(s) /\ Stops(a, s, session[s], [task EXCEPT ![a].todo = @ \ {s}])
          /\ UNCHANGED <<link, lock, sessions>>
    BY <1>2 DEF Visit, Wants
  <2>2. s \in Session
    BY DEF TaskStates
  <2>3. session[s] \in SessionObjects /\ Orderly(session[s])
    BY <2>2 DEF EndsAreOrderly
  <2> DEFINE tasks == [task EXCEPT ![a].todo = @ \ {s}]
  <2>4. /\ tasks \in [Actor -> TaskStates]
        /\ \A c \in Client : tasks[c].pc = "spawning" => task[c].pc = "spawning"
    BY DEF TaskStates, Actor
  <2> HIDE DEF tasks
  <2>5. Stops(a, s, session[s], tasks)
    BY <2>1 DEF tasks
  <2> QED
    BY <2>1, <2>2, <2>3, <2>4, <2>5, StopKeeps DEF Alive
<1>3. ASSUME NEW s \in Session, Take(s) PROVE TInv'
  <2> DEFINE x == [session[s] EXCEPT !.out = FALSE, !.idle = FALSE]
  <2>1. Alive(s) /\ UNCHANGED <<link, lock, sessions>>
    BY <1>3 DEF Take
  <2>2. /\ x \in SessionObjects /\ Orderly(x) /\ x.stage = "alive"
        /\ x.shell = "running" => session[s].shell = "running" /\ s \in sessions
    BY <2>1 DEF SessionObjects, EndsAreOrderly, RunningIsListed, Orderly, Alive
  <2>3. CASE UNCHANGED task
    <3>1. Becomes(s, x) \/ Becomes(s, [x EXCEPT !.sending = TRUE])
             \/ Stops(s, s, x, task)
      BY <1>3 DEF Take
    <3>2. Becomes(s, x) => session' \in [Session -> SessionObjects] /\ EndsAreOrderly' /\ RunningIsListed'
      BY <2>1, <2>2, OneSessionChanges
    <3> DEFINE y == [x EXCEPT !.sending = TRUE]
    <3>3. y \in SessionObjects /\ Orderly(y) /\ y.shell = x.shell
      BY <2>2 DEF SessionObjects, Orderly
    <3>4. Becomes(s, y) => session' \in [Session -> SessionObjects] /\ EndsAreOrderly' /\ RunningIsListed'
      BY <2>1, <2>2, <3>3, OneSessionChanges
    <3>5. Stops(s, s, x, task) => TInv'
      BY <2>1, <2>2, StopKeeps DEF Actor
    <3> QED
      BY <2>1, <2>3, <3>1, <3>2, <3>4, <3>5, PlacesStay DEF MakerHasLock, PlaceIsKept
  <2>4. CASE Stops(s, s, x, task)
    BY <2>1, <2>2, <2>4, StopKeeps DEF Actor
  <2> QED
    BY <1>3, <2>3, <2>4 DEF Take
<1> QED
  BY <1>1, <1>2, <1>3

\* Whoever runs _finish() first marks the session; no other can.
LEMMA FinishingKeeps ==
  ASSUME TInv,
         \/ \E s \in Session : ExitNoticed(s)
         \/ \E a \in Actor : GiveUp(a)
  PROVE  TInv'
<1> USE DEF TInv, TerminalTypeOK
<1>1. PICK s \in Session, f \in Actor \cup {ExitTask} : BeginsFinish(s, f)
  BY DEF ExitNoticed, GiveUp
<1>2. /\ Alive(s) /\ Becomes(s, Ending(session[s], f)) /\ UNCHANGED <<link, lock, sessions>>
      /\ task' = IF f = s THEN task ELSE [task EXCEPT ![s] = Idle]
  BY <1>1 DEF BeginsFinish
<1> DEFINE x == Ending(session[s], f)
<1>3. /\ x \in SessionObjects /\ Orderly(x)
      /\ x.shell = "running" => session[s].shell = "running" /\ s \in sessions
  BY <1>2 DEF SessionObjects, EndsAreOrderly, RunningIsListed, Orderly, Alive, Ending
<1>4. session' \in [Session -> SessionObjects] /\ EndsAreOrderly' /\ RunningIsListed'
  BY <1>2, <1>3, OneSessionChanges
<1>5. task' \in [Actor -> TaskStates] /\ MakerHasLock'
  BY <1>2 DEF TaskStates, MakerHasLock, Idle, Actor
<1> QED
  BY <1>2, <1>4, <1>5, PlacesStay DEF PlaceIsKept

\* The session leaves the dictionary only here, with its shell dead.
LEMMA OverKeeps ==
  ASSUME TInv, NEW s \in Session, Over(s)
  PROVE  TInv'
<1> USE DEF TInv, TerminalTypeOK
<1> DEFINE x == [Told(session[s], "exit") EXCEPT !.stage = "over", !.finisher = Nobody, !.out = FALSE]
<1>1. /\ session[s].stage = "telling" /\ Becomes(s, x) /\ sessions' = sessions \ {s}
      /\ UNCHANGED <<link, lock>>
  BY DEF Over
<1>2. x \in SessionObjects /\ Orderly(x) /\ x.shell # "running"
  BY <1>1 DEF SessionObjects, EndsAreOrderly, Orderly, Told
<1>3. session' \in [Session -> SessionObjects] /\ EndsAreOrderly' /\ RunningIsListed'
  BY <1>1, <1>2, OneSessionChanges
<1>4. task' \in [Actor -> TaskStates] /\ MakerHasLock'
  <2>1. session[s].finisher \in Actor \cup {Nobody, ExitTask} /\ session[s].finisher # Nobody
    BY DEF Over, SessionObjects
  <2> QED
    BY <2>1, <1>1 DEF Over, TaskStates, MakerHasLock, Actor
<1>5. PlaceIsKept'
  <2>1. IsFiniteSet(sessions) /\ Cardinality(sessions) \in Nat
    BY SessionsAreFinite
  <2>2. Cardinality(sessions \ {s}) \in Nat /\ Cardinality(sessions \ {s}) <= Cardinality(sessions)
    BY <2>1, FS_Subset, FS_CardinalityType
  <2> QED
    BY <1>1, <2>1, <2>2, MaxSessionsAssumption DEF PlaceIsKept
<1> QED
  BY <1>1, <1>3, <1>4, <1>5

\* A request of the uplink that is cancelled gives its lock back.
LEMMA CancelKeeps == TInv /\ Cancel => TInv'
<1> SUFFICES ASSUME TInv, Cancel PROVE TInv'
  OBVIOUS
<1> USE DEF TInv, TerminalTypeOK
<1>1. /\ UNCHANGED <<link, sessions>> /\ task' = [task EXCEPT ![Remote] = Idle]
      /\ lock' = IF lock = Remote THEN Nobody ELSE lock
      /\ \A s \in Session : \/ session'[s] = session[s]
                            \/ session'[s] = [session[s] EXCEPT !.finisher = Nobody]
      /\ session' = [s \in Session |-> session'[s]]
  BY DEF Cancel
<1>2. session' \in [Session -> SessionObjects] /\ EndsAreOrderly' /\ RunningIsListed'
  BY <1>1 DEF SessionObjects, EndsAreOrderly, RunningIsListed, Orderly
<1>3. task' \in [Actor -> TaskStates] /\ MakerHasLock'
  BY <1>1 DEF TaskStates, MakerHasLock, Idle, Client, Actor
<1>4. PlaceIsKept'
  <2>1. Cardinality(sessions) \in Nat
    BY SessionsAreFinite
  <2> QED
    BY <1>1, <2>1, MaxSessionsAssumption DEF PlaceIsKept
<1> QED
  BY <1>1, <1>2, <1>3, <1>4

-----------------------------------------------------------------------------
\* Every step keeps the invariant, as long as a killed shell dies.
LEMMA TerminalKeeps ==
  ASSUME "immortal" \notin TerminalFaults, TInv, [TerminalNext]_terminalVars
  PROVE  TInv'
<1> USE DEF Actor
<1>1. ASSUME NEW c \in Client, ClientTask(c) PROVE TInv'
  BY <1>1, EnterKeeps, RegisterKeeps, SpawnFailsKeeps, TaskSteps, StoppingKeeps, FinishingKeeps
     DEF ClientTask, StopSteps
<1>2. ASSUME NEW c \in Client,
             \/ Ask(c) \/ LinkDrops(c)
             \/ \E s \in Session : Input(c, s) \/ StopRequest(c, s)
      PROVE  TInv'
  BY <1>2, TaskSteps, SessionSteps, StoppingKeeps
<1>3. ASSUME NEW s \in Session,
             Output(s) \/ ShellExits(s) \/ GrowsIdle(s) \/ DrainTask(s) \/ Forget(s)
      PROVE  TInv'
  BY <1>3, SessionSteps, StoppingKeeps DEF DrainTask
<1>4. ASSUME NEW s \in Session, EndTasks(s) \/ Finish(s) PROVE TInv'
  BY <1>4, SessionSteps, FinishingKeeps, TaskSteps, OverKeeps DEF EndTasks, Finish, StopSteps
<1>5. CASE WatchdogTask \/ UplinkReturns \/ Cancel
  BY <1>5, TaskSteps, StoppingKeeps, FinishingKeeps, CancelKeeps DEF WatchdogTask, StopSteps
<1>6. CASE UNCHANGED terminalVars
  BY <1>6 DEF terminalVars, TInv, TerminalTypeOK, EndsAreOrderly, RunningIsListed, MakerHasLock,
              PlaceIsKept
<1> QED
  BY <1>1, <1>2, <1>3, <1>4, <1>5, <1>6 DEF TerminalNext

\* The invariant holds always: types, an orderly end of every session, shells that
\* are listed, and the lock that keeps a place for the shell being made.
THEOREM TerminalInvariance ==
  ASSUME "immortal" \notin TerminalFaults
  PROVE  TerminalSpec => []TInv
<1>1. TInv /\ [TerminalNext]_terminalVars => TInv'
  BY TerminalKeeps
<1> QED
  BY TerminalStarts, <1>1, PTL DEF TerminalSpec

\* No interleaving of starts, stops, exits and broken connections makes more shells
\* run than MAX_SESSIONS.
THEOREM SpecShellsAreBounded ==
  ASSUME "immortal" \notin TerminalFaults
  PROVE  TerminalSpec => []ShellsAreBounded
<1>1. TerminalSpec => []TInv
  BY TerminalInvariance
<1> QED
  BY <1>1, InvariantBounds, PTL

-----------------------------------------------------------------------------
\* A step changes what a client was last told only where it sends something.
SaysNothingNew(s) == session'[s].told = session[s].told \/ session'[s] = Forgotten

\* A session whose exit was told is sent nothing: its stage is over, and what could
\* still send needs it alive, sending or telling.
LEMMA ExitIsLast ==
  ASSUME TInv, [TerminalNext]_terminalVars, NEW s \in Session, session[s].told = "exit"
  PROVE  SaysNothingNew(s)
<1> USE DEF TInv, TerminalTypeOK, SaysNothingNew
<1>1. session[s].stage = "over" /\ ~session[s].sending
  BY DEF EndsAreOrderly, Orderly
<1>2. ASSUME UNCHANGED session PROVE SaysNothingNew(s)
  BY <1>2
<1>3. ASSUME NEW r \in Session, NEW x, Becomes(r, x), r # s PROVE SaysNothingNew(s)
  BY <1>3 DEF Becomes
<1>4. ASSUME NEW c \in Client, ClientTask(c) PROVE SaysNothingNew(s)
  <2>1. ASSUME NEW r \in Session, Register(c, r) PROVE r # s
    BY <2>1, <1>1 DEF Register, Forgotten
  <2>2. CASE \E r \in Session : Register(c, r)
    BY <2>1, <2>2, <1>3 DEF Register
  <2>3. CASE Enter(c) \/ SpawnFails(c) \/ Close(c) \/ Visited(c) \/ Stopped(c)
    BY <2>3, <1>2 DEF Enter, SpawnFails, Close, Visited, Stopped
  <2>4. CASE GiveUp(c)
    BY <2>4, <1>1, <1>3 DEF GiveUp, BeginsFinish, Alive
  <2>5. CASE Visit(c)
    BY <2>5, <1>1, <1>3 DEF Visit, Wants, Alive, Stops, TaskStates, Actor
  <2> QED
    BY <1>4, <2>2, <2>3, <2>4, <2>5 DEF ClientTask, StopSteps
<1>5. ASSUME NEW c \in Client, NEW r \in Session, Input(c, r) \/ StopRequest(c, r)
      PROVE  SaysNothingNew(s)
  BY <1>5, <1>1, <1>3 DEF Input, StopRequest, Stops, Alive
<1>6. ASSUME NEW r \in Session, DrainTask(r) PROVE SaysNothingNew(s)
  <2>1. r # s
    BY <1>1, <1>6 DEF DrainTask, Take, Sent, Alive
  <2>2. \E x : Becomes(r, x)
    BY <1>6 DEF DrainTask, Take, Sent, Stops
  <2> QED
    BY <2>1, <2>2, <1>3
<1>7. ASSUME NEW r \in Session, EndTasks(r) \/ Finish(r) PROVE SaysNothingNew(s)
  <2>1. CASE ExitNoticed(r)
    BY <2>1, <1>1, <1>3 DEF ExitNoticed, BeginsFinish, Alive
  <2>2. CASE GiveUp(r)
    BY <2>2, <1>1, <1>3 DEF GiveUp, BeginsFinish, Alive
  <2>3. CASE Stopped(r)
    BY <2>3, <1>2 DEF Stopped
  <2>4. CASE Drained(r)
    BY <2>4, <1>1, <1>3 DEF Drained
  <2>5. CASE Over(r)
    BY <2>5, <1>1, <1>3 DEF Over
  <2> QED
    BY <1>7, <2>1, <2>2, <2>3, <2>4, <2>5 DEF EndTasks, Finish, StopSteps
<1>8. ASSUME NEW r \in Session, Output(r) \/ ShellExits(r) \/ GrowsIdle(r) \/ Forget(r)
      PROVE  SaysNothingNew(s)
  <2>1. CASE r # s
    BY <2>1, <1>3, <1>8 DEF Output, ShellExits, GrowsIdle, Forget
  <2>2. CASE r = s
    <3>1. session[s] \in SessionObjects
      OBVIOUS
    <3> QED
      BY <2>2, <1>1, <1>8, <3>1
         DEF Output, ShellExits, GrowsIdle, Forget, Alive, Becomes, SessionObjects
  <2> QED
    BY <2>1, <2>2
<1>9. CASE WatchdogTask
  <2>1. CASE WatchdogWakes \/ Visited(Watchdog) \/ Stopped(Watchdog)
    BY <2>1, <1>2 DEF WatchdogWakes, Visited, Stopped
  <2>2. CASE Visit(Watchdog)
    BY <2>2, <1>1, <1>3 DEF Visit, Wants, Alive, Stops, TaskStates, Actor
  <2>3. CASE GiveUp(Watchdog)
    BY <2>3, <1>1, <1>3 DEF GiveUp, BeginsFinish, Alive
  <2> QED
    BY <1>9, <2>1, <2>2, <2>3 DEF WatchdogTask, StopSteps
<1>10. CASE Cancel
  BY <1>10 DEF Cancel, SessionObjects
<1>11. ASSUME NEW c \in Client, Ask(c) \/ LinkDrops(c) PROVE SaysNothingNew(s)
  BY <1>11, <1>2 DEF Ask, LinkDrops
<1>12. CASE UplinkReturns \/ UNCHANGED terminalVars
  BY <1>12, <1>2 DEF UplinkReturns, terminalVars
<1> QED
  BY <1>4, <1>5, <1>6, <1>7, <1>8, <1>9, <1>10, <1>11, <1>12 DEF TerminalNext

\* A client that was told that its session has ended is sent no output of it
\* afterwards, until the object is another session's.
THEOREM SpecNothingAfterExit ==
  ASSUME "immortal" \notin TerminalFaults
  PROVE  TerminalSpec => NothingAfterExit
<1>1. TInv /\ [TerminalNext]_terminalVars
        => (\A s \in Session : session[s].told = "exit"
              => session'[s].told = "exit" \/ session'[s] = Forgotten)
  BY ExitIsLast DEF SaysNothingNew
<1>2. TerminalSpec => []TInv
  BY TerminalInvariance
<1> QED
  BY <1>1, <1>2, PTL DEF TerminalSpec, NothingAfterExit

-----------------------------------------------------------------------------
(***************************************************************************)
(* ConfigStore.  For any configurations, as long as no two saves overlap:  *)
(* through crashes at any step, full disks and files left behind, saving,  *)
(* loading and refusing requests implement AtomicStore.                    *)
(***************************************************************************)

Records == [pc : {"none", "open", "write", "replace", "unlink"}, raw : Setting,
            fd : Inode \cup {NoFile}, ok : BOOLEAN]

Types ==
  /\ memory \in Setting /\ promised \in Setting
  /\ content \in [Inode -> Setting \cup {Empty, Torn}]
  /\ config_yaml \in Inode /\ tmp_path \in Inode \cup {NoFile}
  /\ saver \in [Saver -> Records]

\* One save at a time, so that the file under the temporary name is its own.
OneSaves ==
  \A w \in Saver : /\ saver[w].pc = "none" => saver[w] = NotSaving
                   /\ saver[w].pc # "none" => \A v \in Saver \ {w} : saver[v] = NotSaving

\* config.yaml is whole, and no other name of that file is written to.
FileIsApart == content[config_yaml] \in Setting /\ tmp_path # config_yaml

\* How far a save has come: what it has written is what it copied, which is still
\* what is in use.
SaveIsOnCourse ==
  \A w \in Saver :
    /\ saver[w].pc # "none" => saver[w].raw = memory
    /\ saver[w].pc = "open" => saver[w].fd = NoFile
    /\ saver[w].pc = "write" => /\ saver[w].fd = tmp_path /\ tmp_path # NoFile
                                /\ content[tmp_path] = Empty
    /\ saver[w].pc = "replace" => tmp_path # NoFile /\ content[tmp_path] = memory
    /\ saver[w].pc = "unlink" /\ saver[w].ok => content[config_yaml] = memory

StoreInv == Types /\ OneSaves /\ FileIsApart /\ SaveIsOnCourse

\* What a file may hold beside a configuration is none.
LEMMA GarbageIsNoSetting == Empty \notin Setting /\ Torn \notin Setting
BY VersionAssumption DEF Setting, Empty, Torn

LEMMA StoreStarts == ConfigInit => StoreInv /\ Store!Init
<1> SUFFICES ASSUME ConfigInit PROVE StoreInv /\ Store!Init
  OBVIOUS
<1>1. Template \in Setting
  BY DefaultAssumption DEF Template, Setting
<1>2. Types
  BY <1>1 DEF ConfigInit, Types, Inode, NoFile, Records, NotSaving
<1>3. OneSaves /\ FileIsApart /\ SaveIsOnCourse
  BY <1>1 DEF ConfigInit, OneSaves, FileIsApart, SaveIsOnCourse, Inode, NoFile, NotSaving
<1>4. Store!Init
  BY <1>1 DEF ConfigInit, Store!Init, Inode
<1> QED
  BY <1>2, <1>3, <1>4 DEF StoreInv

\* Whoever saves stays the only one.
LEMMA OneMoves ==
  ASSUME saver \in [Saver -> Records], NEW w \in Saver, NEW x, x.pc # "none",
         \A v \in Saver \ {w} : saver[v] = NotSaving, saver' = [saver EXCEPT ![w] = x]
  PROVE  /\ OneSaves' /\ saver'[w] = x
         /\ \A v \in Saver \ {w} : saver'[v] = NotSaving /\ saver'[v].pc = "none"
<1>1. saver'[w] = x /\ \A v \in Saver \ {w} : saver'[v] = NotSaving
  OBVIOUS
<1>2. NotSaving.pc = "none"
  BY DEF NotSaving
<1>3. \A v \in Saver : saver'[v].pc = "none" => v \in Saver \ {w}
  BY <1>1
<1>4. \A v \in Saver : saver'[v].pc # "none" => v = w
  BY <1>1, <1>2
<1>5. OneSaves'
  BY <1>1, <1>3, <1>4 DEF OneSaves
<1> QED
  BY <1>1, <1>2, <1>5

-----------------------------------------------------------------------------
\* A request begins a save, with nobody else in one.
LEMMA RequestStep ==
  ASSUME StoreInv, ~Overlapping, NEW w \in Saver, NEW v \in Setting, Request(w, v)
  PROVE  StoreInv' /\ Store!Change
<1> USE DEF StoreInv, Types
<1>1. /\ \A u \in Saver : saver[u] = NotSaving
      /\ memory' = v /\ saver' = [saver EXCEPT ![w] = Saving(v)]
      /\ UNCHANGED <<content, config_yaml, tmp_path, promised>>
  BY DEF Request, Quiet, Step
<1>2. Saving(v) \in Records
  BY DEF Saving, Records
<1>3. Types'
  BY <1>1, <1>2
<1>4. Saving(v).pc = "open" /\ Saving(v).raw = v /\ Saving(v).fd = NoFile
  BY DEF Saving
<1>5. /\ OneSaves' /\ saver'[w] = Saving(v)
      /\ \A u \in Saver \ {w} : saver'[u] = NotSaving /\ saver'[u].pc = "none"
  BY <1>1, <1>4, OneMoves
<1>5a. FileIsApart' /\ SaveIsOnCourse'
  BY <1>1, <1>4, <1>5 DEF FileIsApart, SaveIsOnCourse
<1>6. Store!Change
  BY <1>1 DEF Store!Change
<1> QED
  BY <1>3, <1>5, <1>5a, <1>6

LEMMA RaiseStep ==
  ASSUME StoreInv, ~Overlapping, NEW v \in Setting, RaiseHalfway(v)
  PROVE  StoreInv' /\ Store!Change
<1> USE DEF StoreInv, Types
<1>1. /\ \A u \in Saver : saver[u] = NotSaving
      /\ memory' = v /\ UNCHANGED <<saver, content, config_yaml, tmp_path, promised>>
  BY DEF RaiseHalfway, Quiet
<1>2. Types' /\ OneSaves' /\ FileIsApart' /\ SaveIsOnCourse'
  BY <1>1 DEF OneSaves, FileIsApart, SaveIsOnCourse, NotSaving
<1> QED
  BY <1>1, <1>2 DEF Store!Change

\* Until it renames, a save touches nothing that has the name config.yaml.
LEMMA OpenStep ==
  ASSUME StoreInv, NEW w \in Saver, Open(w)
  PROVE  StoreInv' /\ UNCHANGED <<memory, content[config_yaml], promised>>
<1> USE DEF StoreInv, Types
<1>1. PICK i \in Inode :
        /\ OpensTmp(i) /\ tmp_path' = i /\ content' = [content EXCEPT ![i] = Empty]
        /\ saver' = [saver EXCEPT ![w] = [saver[w] EXCEPT !.pc = "write", !.fd = i]]
  BY DEF Open, Step
<1>2. saver[w].pc = "open" /\ UNCHANGED <<memory, config_yaml, promised>>
  BY DEF Open
<1>3. i # config_yaml
  BY <1>1 DEF OpensTmp, FileIsApart
<1>4. Types'
  BY <1>1, <1>2 DEF Records
<1> DEFINE x == [saver[w] EXCEPT !.pc = "write", !.fd = i]
<1>5. x.pc = "write" /\ x.fd = i /\ x.raw = memory
  BY <1>2 DEF Records, SaveIsOnCourse
<1> HIDE DEF x
<1>6. /\ OneSaves' /\ saver'[w] = x
      /\ \A v \in Saver \ {w} : saver'[v] = NotSaving /\ saver'[v].pc = "none"
  <2>1. \A v \in Saver \ {w} : saver[v] = NotSaving
    BY <1>2 DEF OneSaves
  <2>2. saver' = [saver EXCEPT ![w] = x]
    BY <1>1 DEF x
  <2> QED
    BY <1>5, <2>1, <2>2, OneMoves
<1>7. content'[config_yaml] = content[config_yaml] /\ content'[i] = Empty
  BY <1>1, <1>3
<1>8. FileIsApart'
  BY <1>1, <1>2, <1>3, <1>7 DEF FileIsApart
<1>9. SaveIsOnCourse'
  <2>1. i # NoFile /\ tmp_path' = i /\ memory' = memory
    BY <1>1, <1>2 DEF Inode, NoFile
  <2> QED
    BY <1>5, <1>6, <1>7, <2>1 DEF SaveIsOnCourse
<1> QED
  BY <1>2, <1>4, <1>6, <1>7, <1>8, <1>9

LEMMA WriteStep ==
  ASSUME StoreInv, NEW w \in Saver, Write(w) \/ DiskFull(w)
  PROVE  StoreInv' /\ UNCHANGED <<memory, content[config_yaml], promised>>
<1> USE DEF StoreInv, Types
<1>1. /\ saver[w].pc = "write" /\ UNCHANGED <<memory, config_yaml, tmp_path, promised>>
      /\ saver[w].fd = tmp_path /\ tmp_path \in Inode /\ tmp_path # config_yaml
      /\ content[tmp_path] = Empty /\ saver[w].raw = memory
  BY DEF Write, DiskFull, SaveIsOnCourse, FileIsApart
<1> DEFINE x == IF Write(w) THEN [saver[w] EXCEPT !.pc = "replace", !.fd = NoFile]
                ELSE [saver[w] EXCEPT !.pc = "unlink", !.fd = NoFile, !.ok = FALSE]
           y == IF Write(w) THEN memory ELSE Torn
<1>2. saver' = [saver EXCEPT ![w] = x] /\ content' = [content EXCEPT ![tmp_path] = y]
  BY <1>1 DEF Write, DiskFull, Step
<1>3. x \in Records /\ x.raw = memory /\ (x.pc = "replace" => y = memory)
      /\ x.pc \in {"replace", "unlink"} /\ (x.pc = "unlink" => ~x.ok)
      /\ y \in Setting \cup {Empty, Torn}
  BY <1>1 DEF Records
<1> HIDE DEF x, y
<1>4. Types'
  BY <1>1, <1>2, <1>3
<1>5. \A v \in Saver \ {w} : saver[v] = NotSaving
  BY <1>1 DEF OneSaves
<1>6. /\ OneSaves' /\ saver'[w] = x
      /\ \A v \in Saver \ {w} : saver'[v] = NotSaving /\ saver'[v].pc = "none"
  BY <1>2, <1>3, <1>5, OneMoves
<1>7. content'[config_yaml] = content[config_yaml] /\ content'[tmp_path] = y
  BY <1>1, <1>2
<1>8. FileIsApart'
  BY <1>1, <1>7 DEF FileIsApart
<1>9. SaveIsOnCourse'
  <2>1. tmp_path' # NoFile /\ content'[tmp_path'] = y /\ memory' = memory
    BY <1>1, <1>7 DEF Inode, NoFile
  <2> QED
    BY <1>3, <1>6, <2>1 DEF SaveIsOnCourse
<1> QED
  BY <1>1, <1>4, <1>6, <1>7, <1>8, <1>9

\* The rename is the one step that changes what the next start reads.
LEMMA ReplaceStep ==
  ASSUME StoreInv, NEW w \in Saver, Replace(w)
  PROVE  StoreInv' /\ Store!Save
<1> USE DEF StoreInv, Types
<1>1. /\ saver[w].pc = "replace" /\ saver[w].raw = memory
      /\ tmp_path \in Inode /\ content[tmp_path] = memory
  BY DEF Replace, SaveIsOnCourse
<1>2. /\ config_yaml' = tmp_path /\ tmp_path' = NoFile /\ UNCHANGED <<memory, content, promised>>
      /\ saver' = [saver EXCEPT ![w] = [saver[w] EXCEPT !.pc = "unlink", !.ok = TRUE]]
  <2>1. tmp_path # NoFile
    BY <1>1 DEF NoFile, Inode
  <2>2. (tmp_path # NoFile) = TRUE
    BY <2>1
  <2> QED
    BY <2>1, <2>2 DEF Replace, Step
<1> DEFINE x == [saver[w] EXCEPT !.pc = "unlink", !.ok = TRUE]
<1>3. x \in Records /\ x.pc = "unlink" /\ x.raw = memory
  BY <1>1 DEF Records
<1>3a. saver' = [saver EXCEPT ![w] = x]
  BY <1>2
<1> HIDE DEF x
<1>4. Types'
  BY <1>1, <1>2, <1>3, <1>3a
<1>5. /\ OneSaves' /\ saver'[w] = x
      /\ \A v \in Saver \ {w} : saver'[v] = NotSaving /\ saver'[v].pc = "none"
  <2>1. \A v \in Saver \ {w} : saver[v] = NotSaving
    BY <1>1 DEF OneSaves
  <2> QED
    BY <1>3, <1>3a, <2>1, OneMoves
<1>6. FileIsApart'
  <2>1. memory \in Setting /\ config_yaml' # NoFile
    BY <1>1, <1>2 DEF Inode, NoFile
  <2> QED
    BY <1>1, <1>2, <2>1 DEF FileIsApart
<1>7. SaveIsOnCourse'
  BY <1>1, <1>2, <1>3, <1>5 DEF SaveIsOnCourse
<1>8. Store!Save
  BY <1>1, <1>2 DEF Store!Save
<1> QED
  BY <1>4, <1>5, <1>6, <1>7, <1>8

\* Only a save that got that far is answered well.
LEMMA UnlinkStep ==
  ASSUME StoreInv, NEW w \in Saver, Unlink(w)
  PROVE  StoreInv' /\ (Store!Promise \/ UNCHANGED <<memory, content[config_yaml], promised>>)
<1> USE DEF StoreInv, Types
<1>1. /\ saver[w].pc = "unlink" /\ saver[w].raw = memory
      /\ saver[w].ok => content[config_yaml] = memory
  BY DEF Unlink, SaveIsOnCourse
<1>2. /\ tmp_path' = NoFile /\ saver' = [saver EXCEPT ![w] = NotSaving]
      /\ promised' = IF saver[w].ok THEN memory ELSE promised
      /\ UNCHANGED <<memory, content, config_yaml>>
  BY <1>1 DEF Unlink, Step
<1>3. NotSaving \in Records
  BY DefaultAssumption DEF NotSaving, Records, Template, Setting
<1>4. \A v \in Saver : saver'[v] = NotSaving
  BY <1>1, <1>2 DEF OneSaves
<1>5. Types'
  BY <1>1, <1>2, <1>3 DEF Records
<1>6. OneSaves' /\ SaveIsOnCourse'
  BY <1>2, <1>4 DEF OneSaves, SaveIsOnCourse, NotSaving
<1>7. FileIsApart'
  BY <1>2 DEF FileIsApart, NoFile, Inode
<1> QED
  BY <1>1, <1>2, <1>5, <1>6, <1>7 DEF Store!Promise

LEMMA CrashStep ==
  ASSUME StoreInv, Crash
  PROVE  StoreInv' /\ UNCHANGED <<memory, content[config_yaml], promised>>
<1> USE DEF StoreInv, Types
<1>1. /\ saver' = [w \in Saver |-> NotSaving]
      /\ UNCHANGED <<memory, content, config_yaml, tmp_path, promised>>
  BY DEF Crash
<1>2. NotSaving \in Records
  BY DefaultAssumption DEF NotSaving, Records, Template, Setting
<1>3. Types'
  BY <1>1, <1>2
<1> QED
  BY <1>1, <1>3 DEF OneSaves, FileIsApart, SaveIsOnCourse, NotSaving

\* The start finds a whole configuration, and nobody saves yet.
LEMMA LoadStep ==
  ASSUME StoreInv, Load, \A w \in Saver : saver[w] = NotSaving
  PROVE  StoreInv' /\ Store!Restart
<1> USE DEF StoreInv, Types
<1>1. content[config_yaml] # Empty
  BY GarbageIsNoSetting DEF FileIsApart
<1>2. /\ content' = content /\ memory' = Parsed(content[config_yaml])
      /\ UNCHANGED <<config_yaml, tmp_path, saver, promised>>
  BY <1>1 DEF Load
<1>3. memory' \in Setting
  BY <1>2 DEF FileIsApart, Parsed, Setting
<1>4. Types' /\ OneSaves' /\ FileIsApart' /\ SaveIsOnCourse'
  BY <1>2, <1>3 DEF OneSaves, FileIsApart, SaveIsOnCourse, NotSaving
<1> QED
  BY <1>2, <1>4 DEF Store!Restart

-----------------------------------------------------------------------------
\* Nobody saves while the process is down.
DownIsQuiet == running \/ Quiet

LEMMA StoreKeeps ==
  ASSUME StoreInv, DownIsQuiet, ~Overlapping, [ConfigNext]_configVars
  PROVE  StoreInv' /\ [Store!Next]_Store!storeVars
<1> USE DEF Store!Next, Store!storeVars
<1>1. ASSUME NEW w \in Saver, Open(w) \/ Write(w) \/ DiskFull(w) \/ Replace(w) \/ Unlink(w)
      PROVE  StoreInv' /\ [Store!Next]_Store!storeVars
  BY <1>1, OpenStep, WriteStep, ReplaceStep, UnlinkStep
<1>2. ASSUME NEW w \in Saver, NEW v \in Setting, Request(w, v)
      PROVE  StoreInv' /\ [Store!Next]_Store!storeVars
  BY <1>2, RequestStep
<1>3. ASSUME NEW v \in Setting, RaiseHalfway(v)
      PROVE  StoreInv' /\ [Store!Next]_Store!storeVars
  BY <1>3, RaiseStep
<1>4. CASE Crash
  BY <1>4, CrashStep
<1>5. CASE Load
  BY <1>5, LoadStep DEF DownIsQuiet, Quiet, Load
<1>6. CASE UNCHANGED configVars
  BY <1>6 DEF configVars, StoreInv, Types, OneSaves, FileIsApart, SaveIsOnCourse
<1> QED
  BY <1>1, <1>2, <1>3, <1>4, <1>5, <1>6 DEF ConfigNext

LEMMA NextStaysQuiet ==
  ASSUME DownIsQuiet, Types, [ConfigNext]_configVars
  PROVE  DownIsQuiet'
<1> USE DEF DownIsQuiet, Quiet
<1>1. ASSUME NEW w \in Saver, saver[w].pc # "none", UNCHANGED running
      PROVE  running'
  BY <1>1 DEF NotSaving
<1>2. CASE \E w \in Saver : Open(w) \/ Write(w) \/ DiskFull(w) \/ Replace(w) \/ Unlink(w)
  BY <1>1, <1>2 DEF Open, Write, DiskFull, Replace, Unlink
<1>3. CASE \E w \in Saver, v \in Setting : Request(w, v) \/ RaiseHalfway(v)
  BY <1>3 DEF Request, RaiseHalfway
<1>4. CASE Crash \/ Load
  BY <1>4 DEF Crash, Load
<1>5. CASE UNCHANGED configVars
  BY <1>5 DEF configVars
<1> QED
  BY <1>2, <1>3, <1>4, <1>5 DEF ConfigNext, Saver

\* Whatever the configurations, a file or a crash in any step: config.yaml goes
\* from one whole configuration to the next, and what a request was told is in
\* force is what the next start reads, if saves do not overlap.
THEOREM SavingImplementsStore == ASSUME ~Overlapping PROVE ConfigSpec => ImplementsStore
<1>1. ConfigInit => StoreInv /\ DownIsQuiet /\ Store!Init
  BY StoreStarts DEF ConfigInit, DownIsQuiet
<1>2. ASSUME StoreInv, DownIsQuiet, [ConfigNext]_configVars
      PROVE  StoreInv' /\ DownIsQuiet' /\ [Store!Next]_Store!storeVars
  BY <1>2, StoreKeeps, NextStaysQuiet DEF StoreInv
<1> QED
  BY <1>1, <1>2, PTL DEF ConfigSpec, ImplementsStore, Store!Spec

\* config.yaml is a whole configuration whenever a save is not overlapped.
THEOREM ConfigFileIsWhole == ASSUME ~Overlapping PROVE ConfigSpec => []FileIsWhole
<1>1. ConfigInit => StoreInv /\ DownIsQuiet
  BY StoreStarts DEF ConfigInit, DownIsQuiet
<1>2. ASSUME StoreInv, DownIsQuiet, [ConfigNext]_configVars
      PROVE  StoreInv' /\ DownIsQuiet'
  BY <1>2, StoreKeeps, NextStaysQuiet DEF StoreInv
<1>3. StoreInv => FileIsWhole
  BY DEF StoreInv, FileIsApart, FileIsWhole
<1> QED
  BY <1>1, <1>2, <1>3, PTL DEF ConfigSpec

-----------------------------------------------------------------------------
(***************************************************************************)
(* ZoneWiring.  The wiring is kept, for any zones, indexes and sensors, as *)
(* long as users count from 1 and the file can be written.                 *)
(***************************************************************************)

Entries == [index: Nat, sensor: SensorAddress \cup {NoSensor}]

Typed ==
  /\ zones \in [DOMAIN zones -> Entries]
  /\ zones_saved \in [DOMAIN zones -> Entries]
  /\ installed \in [DOMAIN zones -> Nat]
  /\ DOMAIN zones \subseteq DOMAIN currents
  /\ currents = [z \in DOMAIN currents |-> currents[z]]
  /\ temperatures = [z \in DOMAIN temperatures |-> temperatures[z]]
  /\ NoSensor \notin SensorAddress

\* No zone in force has the index 0: the migration is over.
CountsFromOne == \A z \in DOMAIN zones : zones[z].index # 0

\* The next start will find each zone where its detector is.
SavedIsInstalled ==
  \A z \in DOMAIN zones : z \notin refused => Migrated(zones_saved)[z].index = installed[z]

\* The sensors of the file are those in force, and the bus polls each of them: so
\* that a free address is one that no zone has.
SensorsAreKnown ==
  \A z \in DOMAIN zones :
    /\ zones_saved[z].sensor = zones[z].sensor
    /\ zones[z].sensor # NoSensor =>
         z \in DOMAIN temperatures /\ temperatures[z] = zones[z].sensor

IInv == Typed /\ CountsFromOne /\ SavedIsInstalled /\ SensorsAreKnown /\ WiringIsKept

-----------------------------------------------------------------------------
\* The migration leaves no index 0 and the sensors as they are, and does nothing to
\* zones that count from 1.
LEMMA MigratedEffect ==
  ASSUME NEW D, NEW zs \in [D -> Entries]
  PROVE  /\ Migrated(zs) \in [D -> Entries]
         /\ \A z \in D : Migrated(zs)[z].index # 0
         /\ \A z \in D : Migrated(zs)[z].sensor = zs[z].sensor
         /\ (\A z \in D : zs[z].index # 0) => Migrated(zs) = zs
<1>1. CASE \E z \in DOMAIN zs : zs[z].index = 0
  <2>1. Migrated(zs) = [z \in D |-> [zs[z] EXCEPT !.index = @ + 1]]
    BY <1>1 DEF Migrated
  <2>2. \A z \in D : /\ [zs[z] EXCEPT !.index = @ + 1] \in Entries
                     /\ [zs[z] EXCEPT !.index = @ + 1].index # 0
                     /\ [zs[z] EXCEPT !.index = @ + 1].sensor = zs[z].sensor
    BY DEF Entries
  <2> QED
    BY <1>1, <2>1, <2>2
<1>2. CASE ~\E z \in DOMAIN zs : zs[z].index = 0
  BY <1>2 DEF Migrated
<1> QED
  BY <1>1, <1>2

\* A free address is one that no zone of the configuration has.
LEMMA FreeIsUnused ==
  ASSUME IInv, NEW a \in FreeAddresses
  PROVE  /\ a \in SensorAddress /\ a # NoSensor
         /\ \A z \in DOMAIN zones : zones[z].sensor # a
BY DEF FreeAddresses, IInv, Typed, SensorsAreKnown

\* A save of zones that count from 1 makes the file what is in force.
LEMMA SavedEffect ==
  ASSUME NEW D, zones' \in [D -> Entries], \A z \in D : zones'[z].index # 0,
         zones_saved' = zones'
  PROVE  zones_saved' \in [D -> Entries] /\ Migrated(zones_saved)' = zones'
BY MigratedEffect DEF Migrated

\* The device starts with its wiring in order, by today's numbering or the old one.
LEMMA InitWired ==
  ASSUME 0 \notin Index, WiringInit
  PROVE  IInv
<1>1. PICK there \in SUBSET Zone, old \in BOOLEAN :
        zones_saved \in [there -> [index : IF old THEN {0} \cup Index ELSE Index,
                                  sensor : {NoSensor}]]
  BY DEF WiringInit
<1>2. zones_saved \in [there -> Entries]
  <2>1. (IF old THEN {0} \cup Index ELSE Index) \subseteq Nat
    BY IndexAssumption
  <2>2. [index : IF old THEN {0} \cup Index ELSE Index, sensor : {NoSensor}] \subseteq Entries
    BY <2>1 DEF Entries
  <2> QED
    BY <1>1, <2>2
<1>3. zones = Migrated(zones_saved)
  BY DEF WiringInit
<1>4. /\ zones \in [there -> Entries] /\ \A z \in there : zones[z].index # 0
      /\ \A z \in there : zones[z].sensor = NoSensor /\ zones_saved[z].sensor = NoSensor
  BY <1>1, <1>2, <1>3, MigratedEffect
<1>5. \A z \in there :
        Migrated(zones_saved)[z].index
          = zones_saved[z].index + (IF Legacy(zones_saved) THEN 1 ELSE 0)
  BY <1>2 DEF Migrated, Legacy, Entries
<1>6. installed = [z \in there |->
                     zones_saved[z].index + (IF Legacy(zones_saved) THEN 1 ELSE 0)]
  BY <1>2 DEF WiringInit
<1>7. installed \in [there -> Nat]
  BY <1>2, <1>6 DEF Entries
<1>8. currents = [z \in there |-> zones[z].index]
  BY <1>4 DEF WiringInit, Indexes
<1>9. temperatures = [z \in DOMAIN temperatures |-> temperatures[z]]
  BY DEF WiringInit, Sensors
<1>10. Typed
  BY <1>2, <1>4, <1>7, <1>8, <1>9, SensorAddressAssumption DEF Typed, NoSensor
<1>11. CountsFromOne /\ SavedIsInstalled /\ SensorsAreKnown
  BY <1>3, <1>4, <1>5, <1>6 DEF CountsFromOne, SavedIsInstalled, SensorsAreKnown
<1>12. WiringIsKept
  BY <1>3, <1>4, <1>5, <1>6, <1>8 DEF WiringIsKept, PollsItsOwn, SensorsAreDistinct
<1> QED
  BY <1>10, <1>11, <1>12 DEF IInv

\* A zone made, numbered or bound by a request that saves: what each of them does to
\* the zone z, whose detector is at i and whose sensor is at a, and to no other.
LEMMA SavedZone ==
  ASSUME IInv, NEW z \in Zone, NEW i \in Index, i # 0,
         NEW a \in SensorAddress \cup {NoSensor},
         a # NoSensor => \A y \in DOMAIN zones \ {z} : zones[y].sensor # a,
         zones' = Plus(zones, z, [index |-> i, sensor |-> a]),
         installed' = Plus(installed, z, i), currents' = Plus(currents, z, i),
         temperatures' = [y \in DOMAIN temperatures' |-> temperatures'[y]],
         \A y \in DOMAIN temperatures \ {z} :
           y \in DOMAIN temperatures' /\ temperatures'[y] = temperatures[y],
         a # NoSensor => z \in DOMAIN temperatures' /\ temperatures'[z] = a,
         Saves(z)
  PROVE  IInv'
<1> DEFINE D == DOMAIN zones \cup {z}
<1>1. /\ zones' = [y \in D |-> IF y = z THEN [index |-> i, sensor |-> a] ELSE zones[y]]
      /\ installed' = [y \in D |-> IF y = z THEN i ELSE installed[y]]
      /\ currents' = [y \in DOMAIN currents \cup {z} |-> IF y = z THEN i ELSE currents[y]]
  BY DEF Plus, IInv, Typed
<1>2. zones' \in [D -> Entries] /\ installed' \in [D -> Nat]
  BY <1>1, IndexAssumption DEF IInv, Typed, Entries
<1>3. \A y \in D : zones'[y].index # 0
  BY <1>1 DEF IInv, CountsFromOne
<1>4. zones_saved' \in [D -> Entries] /\ Migrated(zones_saved)' = zones'
  BY <1>2, <1>3, SavedEffect DEF Saves
<1>6. Typed'
  BY <1>1, <1>2, <1>4 DEF IInv, Typed
<1>7. CountsFromOne' /\ SavedIsInstalled' /\ SensorsAreKnown'
  <2>1. CountsFromOne'
    BY <1>2, <1>3 DEF CountsFromOne
  <2>2. \A y \in D : y \notin refused' => zones'[y].index = installed'[y]
    BY <1>1 DEF IInv, WiringIsKept, PollsItsOwn, Saves
  <2>3. SavedIsInstalled'
    BY <1>2, <1>4, <2>2 DEF SavedIsInstalled
  <2>4. SensorsAreKnown'
    BY <1>1 DEF SensorsAreKnown, IInv, Saves
  <2> QED
    BY <2>1, <2>3, <2>4
<1>8. WiringIsKept'
  <2>1. \A y \in D : y \notin refused' => PollsItsOwn(y)'
    BY <1>1 DEF IInv, WiringIsKept, PollsItsOwn, Saves
  <2>2. SensorsAreDistinct'
    BY <1>1 DEF IInv, WiringIsKept, SensorsAreDistinct
  <2> QED
    BY <1>2, <2>1, <2>2 DEF WiringIsKept
<1> QED
  BY <1>6, <1>7, <1>8 DEF IInv

\* The address of a detector that is changed is changed where it is polled.
LEMMA RenumberedEffect ==
  ASSUME IInv, NEW z \in DOMAIN zones, NEW i, Renumbered(z, i)
  PROVE  installed' = Plus(installed, z, i) /\ currents' = Plus(currents, z, i)
<1>1. z \in DOMAIN installed /\ z \in DOMAIN currents
  BY DEF IInv, Typed
<1>2. DOMAIN installed \cup {z} = DOMAIN installed /\ DOMAIN currents \cup {z} = DOMAIN currents
  BY <1>1
<1>3. /\ installed = [y \in DOMAIN installed |-> installed[y]]
      /\ currents = [y \in DOMAIN currents |-> currents[y]]
  BY DEF IInv, Typed
<1>4. /\ installed' = [installed EXCEPT ![z] = i]
      /\ currents' = [currents EXCEPT ![z] = i]
  BY <1>1 DEF Renumbered
<1>5. /\ installed' = [y \in DOMAIN installed |-> IF y = z THEN i ELSE installed[y]]
      /\ currents' = [y \in DOMAIN currents |-> IF y = z THEN i ELSE currents[y]]
  BY <1>3, <1>4
<1> QED
  BY <1>2, <1>5 DEF Plus

\* And so are the index and the sensor of a zone there is.
LEMMA EntryEffect ==
  ASSUME IInv, NEW z \in DOMAIN zones, NEW i, NEW a
  PROVE  /\ [Indexed(z, i) EXCEPT ![z].sensor = a]
               = Plus(zones, z, [index |-> i, sensor |-> a])
         /\ Indexed(z, i) = Plus(zones, z, [index |-> i, sensor |-> zones[z].sensor])
<1>1. zones \in [DOMAIN zones -> Entries] /\ zones[z] \in Entries
  BY DEF IInv, Typed
<1>2. /\ [zones[z] EXCEPT !.index = i] = [index |-> i, sensor |-> zones[z].sensor]
      /\ [[index |-> i, sensor |-> zones[z].sensor] EXCEPT !.sensor = a]
            = [index |-> i, sensor |-> a]
  BY <1>1 DEF Entries
<1>3. Indexed(z, i) = [y \in DOMAIN zones |->
                        IF y = z THEN [index |-> i, sensor |-> zones[z].sensor] ELSE zones[y]]
  BY <1>1, <1>2 DEF Indexed
<1>4. [Indexed(z, i) EXCEPT ![z].sensor = a]
        = [y \in DOMAIN zones |-> IF y = z THEN [index |-> i, sensor |-> a] ELSE zones[y]]
  BY <1>2, <1>3
<1>5. DOMAIN zones \cup {z} = DOMAIN zones
  OBVIOUS
<1> QED
  BY <1>3, <1>4, <1>5 DEF Plus

\* Every request and every start of the device keeps the wiring.
LEMMA WiringStep ==
  ASSUME 0 \notin Index, "full" \notin WiringFaults, IInv, [WiringNext]_wiringVars
  PROVE  IInv'
<1>1. ASSUME NEW z \in Zone, NEW i \in Index, NEW a \in SensorAddress \cup {NoSensor},
             CreateZone(z, i, a)
      PROVE  IInv'
  <2>1. Saves(z) /\ currents' = Plus(currents, z, i)
    BY <1>1 DEF CreateZone, CannotSave
  <2>2. temperatures' = IF a = NoSensor THEN temperatures ELSE Plus(temperatures, z, a)
    BY <1>1 DEF CreateZone, CannotSave
  <2>3. /\ temperatures' = [y \in DOMAIN temperatures' |-> temperatures'[y]]
        /\ \A y \in DOMAIN temperatures \ {z} :
             y \in DOMAIN temperatures' /\ temperatures'[y] = temperatures[y]
        /\ a # NoSensor => z \in DOMAIN temperatures' /\ temperatures'[z] = a
    BY <2>2 DEF Plus, IInv, Typed
  <2>4. a # NoSensor => \A y \in DOMAIN zones \ {z} : zones[y].sensor # a
    BY <1>1, FreeIsUnused DEF CreateZone
  <2>5. /\ zones' = Plus(zones, z, [index |-> i, sensor |-> a])
        /\ installed' = Plus(installed, z, i)
    BY <1>1 DEF CreateZone
  <2> QED
    BY <2>1, <2>3, <2>4, <2>5, SavedZone
<1>2. ASSUME NEW z \in Zone, NEW i \in Index, UpdateZone(z, i) PROVE IInv'
  <2> DEFINE a == zones[z].sensor
  <2>1. z \in DOMAIN zones /\ a \in SensorAddress \cup {NoSensor} /\ Saves(z)
    BY <1>2 DEF UpdateZone, CannotSave, IInv, Typed, Entries
  <2>2. /\ zones' = Plus(zones, z, [index |-> i, sensor |-> a])
        /\ installed' = Plus(installed, z, i) /\ currents' = Plus(currents, z, i)
    BY <1>2, <2>1, EntryEffect, RenumberedEffect DEF UpdateZone
  <2>3. /\ temperatures' = [y \in DOMAIN temperatures' |-> temperatures'[y]]
        /\ \A y \in DOMAIN temperatures \ {z} :
             y \in DOMAIN temperatures' /\ temperatures'[y] = temperatures[y]
        /\ a # NoSensor => z \in DOMAIN temperatures' /\ temperatures'[z] = a
    BY <1>2, <2>1 DEF UpdateZone, IInv, Typed, SensorsAreKnown
  <2>4. a # NoSensor => \A y \in DOMAIN zones \ {z} : zones[y].sensor # a
    BY <2>1 DEF IInv, WiringIsKept, SensorsAreDistinct
  <2> HIDE DEF a
  <2> QED
    BY <2>1, <2>2, <2>3, <2>4, SavedZone
<1>3. ASSUME NEW z \in Zone, NEW i \in Index, BindSensor(z, i) PROVE IInv'
  <2>1. PICK a \in FreeAddresses :
          /\ zones' = [Indexed(z, i) EXCEPT ![z].sensor = a]
          /\ temperatures' = Plus(temperatures, z, a)
    BY <1>3 DEF BindSensor
  <2>2. z \in DOMAIN zones /\ Saves(z)
    BY <1>3 DEF BindSensor, CannotSave
  <2>3. /\ zones' = Plus(zones, z, [index |-> i, sensor |-> a])
        /\ installed' = Plus(installed, z, i) /\ currents' = Plus(currents, z, i)
    <3>1. zones' = [Indexed(z, i) EXCEPT ![z].sensor = a] /\ Renumbered(z, i)
      BY <1>3, <2>1, <2>2 DEF BindSensor
    <3>2. [Indexed(z, i) EXCEPT ![z].sensor = a]
            = Plus(zones, z, [index |-> i, sensor |-> a])
      BY <2>1, <2>2, EntryEffect DEF Indexed
    <3> QED
      BY <2>1, <2>2, <3>1, <3>2, RenumberedEffect
  <2>4. /\ temperatures' = [y \in DOMAIN temperatures' |-> temperatures'[y]]
        /\ \A y \in DOMAIN temperatures \ {z} :
             y \in DOMAIN temperatures' /\ temperatures'[y] = temperatures[y]
        /\ z \in DOMAIN temperatures' /\ temperatures'[z] = a
    BY <2>1 DEF Plus
  <2>5. a \in SensorAddress /\ \A y \in DOMAIN zones \ {z} : zones[y].sensor # a
    BY FreeIsUnused
  <2> QED
    BY <2>2, <2>3, <2>4, <2>5, SavedZone
<1>4. ASSUME NEW z \in Zone, NEW i \in Index, UnbindSensor(z, i) PROVE IInv'
  <2>1. z \in DOMAIN zones /\ Saves(z)
    BY <1>4 DEF UnbindSensor, CannotSave
  <2>2. /\ zones' = Plus(zones, z, [index |-> i, sensor |-> NoSensor])
        /\ installed' = Plus(installed, z, i) /\ currents' = Plus(currents, z, i)
    <3>1. zones' = [Indexed(z, i) EXCEPT ![z].sensor = NoSensor] /\ Renumbered(z, i)
      BY <1>4, <2>1 DEF UnbindSensor
    <3>2. [Indexed(z, i) EXCEPT ![z].sensor = NoSensor]
            = Plus(zones, z, [index |-> i, sensor |-> NoSensor])
      BY <2>1, EntryEffect DEF Indexed
    <3> QED
      BY <2>1, <3>1, <3>2, RenumberedEffect
  <2>3. /\ temperatures' = [y \in DOMAIN temperatures' |-> temperatures'[y]]
        /\ \A y \in DOMAIN temperatures \ {z} :
             y \in DOMAIN temperatures' /\ temperatures'[y] = temperatures[y]
    BY <1>4 DEF UnbindSensor, Without, Restrict
  <2>4. NoSensor \in SensorAddress \cup {NoSensor}
    OBVIOUS
  <2> QED
    BY <2>1, <2>2, <2>3, <2>4, SavedZone
<1>5. ASSUME NEW z \in Zone, NEW i \in Index, UpdateRefused(z, i) PROVE IInv'
  <2>1. z \in DOMAIN zones /\ zones' = Plus(zones, z, [index |-> i, sensor |-> zones[z].sensor])
    BY <1>5, EntryEffect DEF UpdateRefused
  <2>2. /\ DOMAIN zones' = DOMAIN zones /\ zones' \in [DOMAIN zones -> Entries]
        /\ zones'[z].index = i
        /\ \A y \in DOMAIN zones : zones'[y].sensor = zones[y].sensor
        /\ \A y \in DOMAIN zones \ {z} : zones'[y] = zones[y]
    BY <2>1, IndexAssumption DEF Plus, IInv, Typed, Entries
  <2>3. /\ refused' = refused \cup {z}
        /\ UNCHANGED <<zones_saved, installed, currents, temperatures>>
        /\ Migrated(zones_saved)' = Migrated(zones_saved)
    BY <1>5 DEF UpdateRefused, Migrated
  <2>4. Typed' /\ CountsFromOne' /\ SavedIsInstalled' /\ SensorsAreKnown'
    BY <2>2, <2>3 DEF IInv, Typed, CountsFromOne, SavedIsInstalled, SensorsAreKnown
  <2>5. WiringIsKept'
    BY <2>2, <2>3 DEF IInv, WiringIsKept, PollsItsOwn, SensorsAreDistinct
  <2> QED
    BY <2>4, <2>5 DEF IInv
<1>6. ASSUME NEW z \in Zone, DeleteZone(z) PROVE IInv'
  <2> DEFINE D == DOMAIN zones \ {z}
  <2>1. /\ zones' = [y \in D |-> zones[y]] /\ installed' = [y \in D |-> installed[y]]
        /\ zones_saved' = zones' /\ refused' = refused \ {z}
        /\ UNCHANGED <<currents, temperatures>>
    BY <1>6 DEF DeleteZone, Without, Restrict, Saves, CannotSave, IInv, Typed
  <2>2. zones' \in [D -> Entries] /\ installed' \in [D -> Nat]
    BY <2>1 DEF IInv, Typed
  <2>3. \A y \in D : zones'[y].index # 0
    BY <2>1 DEF IInv, CountsFromOne
  <2>4. zones_saved' \in [D -> Entries] /\ Migrated(zones_saved)' = zones'
    BY <2>1, <2>2, <2>3, SavedEffect
  <2>5. Typed' /\ CountsFromOne' /\ SensorsAreKnown'
    BY <2>1, <2>2, <2>3, <2>4 DEF IInv, Typed, CountsFromOne, SensorsAreKnown
  <2>6. WiringIsKept'
    BY <2>1 DEF IInv, WiringIsKept, PollsItsOwn, SensorsAreDistinct
  <2>7. SavedIsInstalled'
    BY <2>1, <2>2, <2>4 DEF SavedIsInstalled, IInv, WiringIsKept, PollsItsOwn
  <2> QED
    BY <2>5, <2>6, <2>7 DEF IInv
<1>7. CASE StartAgain
  <2> DEFINE D == DOMAIN zones
  <2>1. /\ zones' = Migrated(zones_saved) /\ zones_saved' = zones'
        /\ refused' = refused
    BY <1>7 DEF StartAgain
  <2>2. zones' \in [D -> Entries] /\ \A y \in D : zones'[y].index # 0
                                /\ zones'[y].sensor = zones_saved[y].sensor
    BY <2>1, MigratedEffect DEF IInv, Typed
  <2>3. zones_saved' \in [D -> Entries] /\ Migrated(zones_saved)' = zones'
    BY <2>1, <2>2, SavedEffect
  <2>4. installed' = installed
    <3>1. DOMAIN installed = D /\ DOMAIN zones' = D /\ installed = [y \in D |-> installed[y]]
      BY <2>2 DEF IInv, Typed
    <3> QED
      BY <1>7, <3>1 DEF StartAgain
  <2>5. /\ currents' = [y \in D |-> zones'[y].index]
        /\ temperatures' = [y \in {x \in D : zones'[x].sensor # NoSensor} |-> zones'[y].sensor]
    BY <1>7, <2>2 DEF StartAgain, Indexes, Sensors
  <2>6. \A y \in D : y \notin refused => zones'[y].index = installed[y]
    BY <2>1 DEF IInv, SavedIsInstalled
  <2>7. Typed' /\ CountsFromOne' /\ SensorsAreKnown'
    BY <2>1, <2>2, <2>4, <2>5 DEF IInv, Typed, CountsFromOne, SensorsAreKnown
  <2>8. WiringIsKept'
    <3>1. \A y \in D : zones'[y].sensor = zones[y].sensor
      BY <2>2 DEF IInv, SensorsAreKnown
    <3> QED
      BY <2>1, <2>2, <2>4, <2>5, <2>6, <3>1
         DEF IInv, WiringIsKept, PollsItsOwn, SensorsAreDistinct
  <2>9. SavedIsInstalled'
    BY <2>1, <2>2, <2>3, <2>4, <2>6 DEF SavedIsInstalled
  <2> QED
    BY <2>7, <2>8, <2>9 DEF IInv
<1>8. CASE UNCHANGED wiringVars
  BY <1>8 DEF wiringVars, IInv, Typed, CountsFromOne, SavedIsInstalled, SensorsAreKnown,
              WiringIsKept, PollsItsOwn, SensorsAreDistinct, Migrated
<1> QED
  BY <1>1, <1>2, <1>3, <1>4, <1>5, <1>6, <1>7, <1>8 DEF WiringNext

\* However zones are made, edited, deleted and made again and the device restarted,
\* for any number of them: the detector polled for a zone is the one installed there,
\* unless its last request was refused halfway, and no sensor serves two.
THEOREM SpecWiringIsKept ==
  ASSUME 0 \notin Index, "full" \notin WiringFaults
  PROVE  WiringSpec => []WiringIsKept
<1>1. WiringInit => IInv
  BY InitWired
<1>2. IInv /\ [WiringNext]_wiringVars => IInv'
  BY WiringStep
<1>3. IInv => WiringIsKept
  BY DEF IInv
<1> QED
  BY <1>1, <1>2, <1>3, PTL DEF WiringSpec
-----------------------------------------------------------------------------
(***************************************************************************)
(* SerialLine.  For any replies, any noise and any reads: a reply that was *)
(* not disturbed is received with its last byte, once, in its turn and     *)
(* with no other.                                                          *)
(***************************************************************************)

Byte == (0..Len(Size)) \X Nat

\* What has not been parsed yet, in the buffer or still on the line.
Stream == buffer \o line

\* A byte belongs to a reply that was sent, and is one of its bytes.
BytesOfReplies(s) == \A i \in DOMAIN s : s[i][1] # 0 => s[i][1] <= sent /\ s[i][2] \in 1..Size[s[i][1]]

\* Bytes come in the order they were sent in.
Before(x, y) == x[1] < y[1] \/ (x[1] = y[1] /\ x[2] < y[2])
InTurn(s) == \A i, j \in DOMAIN s : i < j /\ s[i][1] # 0 /\ s[j][1] # 0 => Before(s[i], s[j])

\* The reply n stands in s from i on, with all its bytes and nothing between them.
Stands(s, n, i) ==
  /\ i \in DOMAIN s /\ i + Size[n] - 1 <= Len(s)
  /\ \A k \in 1..Size[n] : s[i + k - 1] = <<n, k>>

\* Nothing is left of a reply that was received, nor of one before it.
ReceivedIsGone ==
  \A i \in DOMAIN Stream, j \in DOMAIN received : Stream[i][1] # 0 => received[j] < Stream[i][1]

\* A reply that was not disturbed and has bytes on the line stands in the stream.
WholeStands ==
  \A n \in whole : (\E k \in DOMAIN line : line[k][1] = n) => \E i \in DOMAIN Stream : Stands(Stream, n, i)

\* One that was disturbed misses a byte.
OthersMissAByte ==
  \A n \in (1..sent) \ whole : \E k \in 1..Size[n] : \A i \in DOMAIN Stream : Stream[i] # <<n, k>>

LineInv ==
  /\ LineTypeOK
  /\ BytesOfReplies(Stream)
  /\ InTurn(Stream)
  /\ ReceivedIsGone
  /\ WholeStands
  /\ OthersMissAByte
  /\ RepliesGetThrough

LEMMA SizeIsNat ==
  ASSUME NEW n \in 1..Len(Size)
  PROVE  Size[n] \in 1..KeptBytes /\ Size[n] \in Nat /\ KeptBytes \in Nat /\ Len(Size) \in Nat
<1>1. Len(Size) \in Nat /\ KeptBytes \in Nat
  BY SizeAssumption, BufferAssumption
<1>2. Size[n] \in 1..KeptBytes
  BY SizeAssumption, ElementOfSeq
<1> QED
  BY <1>1, <1>2

\* A frame is a reply that stands there.
LEMMA FrameStands ==
  ASSUME NEW s \in Seq(Byte), NEW i \in DOMAIN s
  PROVE  FrameAt(s, i) <=> s[i][1] # 0 /\ Stands(s, s[i][1], i)
<1> DEFINE n == s[i][1]
<1>1. /\ Len(s) \in Nat /\ i \in 1..Len(s) /\ DOMAIN s = 1..Len(s)
      /\ s[i] \in Byte
      /\ n \in 0..Len(Size)
  BY DEF Byte
<1>2. CASE n = 0
  BY <1>2 DEF FrameAt
<1>3. CASE n # 0
  <2>1. Size[n] \in Nat \ {0}
    BY <1>1, <1>3, SizeIsNat, n \in 1..Len(Size)
  <2>2. CASE i + Size[n] - 1 <= Len(s)
    <3>1. \A p \in i..(i + Size[n] - 1) : s[p] \in Byte
      BY <1>1, <2>1, <2>2
    <3> DEFINE e == i + Size[n] - 1
    <3>7. PICK w : w = SubSeq(s, i, e)
      OBVIOUS
    <3>8. i \in Int /\ e \in Int /\ i <= e /\ e - i + 1 = Size[n]
      BY <2>1, <1>1
    <3>2. /\ w \in Seq(Byte) /\ Len(w) = Size[n]
          /\ \A k \in 1..Size[n] : w[k] = s[i + k - 1]
      <4> HIDE DEF e
      <4>1. \A p \in i..e : s[p] \in Byte
        BY <3>1 DEF e
      <4> QED
        BY <4>1, <3>7, <3>8, SubSeqProperties
    <3>3. DOMAIN w = 1..Size[n] /\ w = [k \in 1..Size[n] |-> w[k]]
      BY <3>2, LenProperties
    <3>4. w = Bytes(n) <=> \A k \in 1..Size[n] : s[i + k - 1] = <<n, k>>
      BY <3>2, <3>3, Zenon DEF Bytes
    <3>5. FrameAt(s, i) <=> w = Bytes(n)
      BY <3>7, <2>2, <1>3 DEF FrameAt
    <3>6. Stands(s, n, i) <=> \A k \in 1..Size[n] : s[i + k - 1] = <<n, k>>
      BY <2>2 DEF Stands
    <3> QED
      BY <3>4, <3>5, <3>6, <1>3
  <2>3. CASE ~(i + Size[n] - 1 <= Len(s))
    BY <2>3 DEF FrameAt, Stands
  <2> QED
    BY <2>2, <2>3
<1> QED
  BY <1>2, <1>3

\* The elements of a finite set of numbers can be put in order: each goes to the
\* place that is the number of those up to it.
LEMMA CanBePutInOrder ==
  ASSUME NEW S \in SUBSET Nat, IsFiniteSet(S)
  PROVE  \E s \in [1..Cardinality(S) -> S] :
            /\ \A i, j \in DOMAIN s : i < j => s[i] < s[j]
            /\ \A x \in S : \E i \in DOMAIN s : s[i] = x
<1> DEFINE UpTo(x) == {y \in S : y <= x}
           place == [x \in S |-> Cardinality(UpTo(x))]
<1>1. PICK c : c = Cardinality(S)
  OBVIOUS
<1>2. c \in Nat
  BY <1>1, FS_CardinalityType
<1>3. \A x \in S : IsFiniteSet(UpTo(x)) /\ Cardinality(UpTo(x)) \in 1..c
  <2> SUFFICES ASSUME NEW x \in S
               PROVE  IsFiniteSet(UpTo(x)) /\ Cardinality(UpTo(x)) \in 1..c
    OBVIOUS
  <2>1. UpTo(x) \in SUBSET S /\ x \in UpTo(x)
    OBVIOUS
  <2>2. IsFiniteSet(UpTo(x)) /\ Cardinality(UpTo(x)) <= c
    BY <2>1, <1>1, FS_Subset
  <2>3. Cardinality(UpTo(x)) \in Nat /\ Cardinality(UpTo(x)) # 0
    BY <2>1, <2>2, FS_CardinalityType, FS_EmptySet
  <2> QED
    BY <2>2, <2>3, <1>2
<1>4. \A x, y \in S : x < y => Cardinality(UpTo(x)) < Cardinality(UpTo(y))
  <2> SUFFICES ASSUME NEW x \in S, NEW y \in S, x < y
               PROVE  Cardinality(UpTo(x)) < Cardinality(UpTo(y))
    OBVIOUS
  <2>1. UpTo(x) \in SUBSET UpTo(y) /\ y \in UpTo(y) /\ y \notin UpTo(x)
    <3>1. x \in Nat /\ y \in Nat /\ \A z \in S : z \in Nat
      OBVIOUS
    <3>2. y <= y /\ ~(y <= x) /\ \A z \in S : z <= x => z <= y
      BY <3>1
    <3> QED
      BY <3>2
  <2>2. Cardinality(UpTo(x)) <= Cardinality(UpTo(y)) /\ Cardinality(UpTo(x)) # Cardinality(UpTo(y))
    BY <2>1, <1>3, FS_Subset
  <2> QED
    BY <2>2, <1>3
<1>5. place \in [S -> 1..c]
  BY <1>3
<1>6. \A x, y \in S : x # y => place[x] # place[y]
  <2> SUFFICES ASSUME NEW x \in S, NEW y \in S, x # y
               PROVE  place[x] # place[y]
    OBVIOUS
  <2>1. x \in Nat /\ y \in Nat
    OBVIOUS
  <2>2. x < y \/ y < x
    BY <2>1
  <2>3. place[x] < place[y] \/ place[y] < place[x]
    BY <2>2, <1>4
  <2>4. place[x] \in Nat /\ place[y] \in Nat
    BY <1>5
  <2> QED
    BY <2>3, <2>4
<1>7. place \in Injection(S, 1..c)
  BY <1>5, <1>6 DEF Injection, IsInjective
<1>8. IsFiniteSet(1..c) /\ Cardinality(1..c) = c
  BY <1>2, FS_Interval
<1>9. place \in Surjection(S, 1..c)
  BY <1>7, <1>8, <1>1, FS_Injection
<1>10. \A i \in 1..c : \E x \in S : place[x] = i
  BY <1>9 DEF Surjection
<1> DEFINE s == [i \in 1..c |-> CHOOSE x \in S : place[x] = i]
<1>11. \A i \in 1..c : s[i] \in S /\ place[s[i]] = i
  BY <1>10
<1>12. s \in [1..c -> S]
  BY <1>11
<1>13. \A i, j \in 1..c : i < j => s[i] < s[j]
  <2> SUFFICES ASSUME NEW i \in 1..c, NEW j \in 1..c, i < j, ~(s[i] < s[j])
               PROVE  FALSE
    OBVIOUS
  <2> HIDE DEF s
  <2>1. s[i] \in Nat /\ s[j] \in Nat /\ s[i] \in S /\ s[j] \in S
    BY <1>11
  <2>2. s[j] < s[i] \/ s[j] = s[i]
    BY <2>1
  <2>3. CASE s[j] < s[i]
    <3>1. place[s[j]] < place[s[i]]
      BY <2>3, <2>1, <1>4
    <3> QED
      BY <3>1, <1>11, <1>2
  <2>4. CASE s[j] = s[i]
    <3>1. i = j
      BY <2>4, <1>11
    <3> QED
      BY <3>1
  <2> QED
    BY <2>2, <2>3, <2>4
<1>14. \A x \in S : place[x] \in 1..c /\ s[place[x]] = x
  <2> SUFFICES ASSUME NEW x \in S
               PROVE  place[x] \in 1..c /\ s[place[x]] = x
    OBVIOUS
  <2> HIDE DEF s, place
  <2>1. place[x] \in 1..c
    BY <1>5
  <2>2. s[place[x]] \in S /\ place[s[place[x]]] = place[x]
    BY <2>1, <1>11
  <2> QED
    BY <2>1, <2>2, <1>6
<1>15. DOMAIN s = 1..c
  OBVIOUS
<1> HIDE DEF s, place
<1> QED
  BY <1>1, <1>12, <1>13, <1>14, <1>15

LEMMA AscendingIs ==
  ASSUME NEW S \in SUBSET Nat, IsFiniteSet(S)
  PROVE  /\ Cardinality(S) \in Nat
         /\ Ascending(S) \in [1..Cardinality(S) -> S]
         /\ \A i, j \in 1..Cardinality(S) : i < j => Ascending(S)[i] < Ascending(S)[j]
         /\ \A x \in S : \E i \in 1..Cardinality(S) : Ascending(S)[i] = x
<1>1. PICK c : c = Cardinality(S)
  OBVIOUS
<1>2. c \in Nat
  BY <1>1, FS_CardinalityType
<1>3. PICK s : s = Ascending(S)
  OBVIOUS
<1>4. \E u \in [1..c -> S] : \A i, j \in DOMAIN u : i < j => u[i] < u[j]
  BY <1>1, CanBePutInOrder
<1>5. s \in [1..c -> S] /\ \A i, j \in DOMAIN s : i < j => s[i] < s[j]
  BY <1>1, <1>3, <1>4 DEF Ascending
<1>6. DOMAIN s = 1..c
  BY <1>5
<1>7. \A i, j \in 1..c : i # j => s[i] # s[j]
  <2> SUFFICES ASSUME NEW i \in 1..c, NEW j \in 1..c, i # j
               PROVE  s[i] # s[j]
    OBVIOUS
  <2>1. i < j \/ j < i
    BY <1>2
  <2>2. s[i] \in Nat /\ s[j] \in Nat
    BY <1>5
  <2> QED
    BY <2>1, <2>2, <1>5, <1>6
<1>8. s \in Injection(1..c, S)
  BY <1>5, <1>7 DEF Injection, IsInjective
<1>9. IsFiniteSet(1..c) /\ Cardinality(1..c) = c
  BY <1>2, FS_Interval
<1>10. s \in Surjection(1..c, S)
  BY <1>8, <1>9, <1>1, FS_Injection
<1>11. \A x \in S : \E i \in 1..c : s[i] = x
  BY <1>10 DEF Surjection
<1> QED
  BY <1>1, <1>2, <1>3, <1>5, <1>6, <1>11

LEMMA StreamIs ==
  ASSUME LineTypeOK
  PROVE  /\ buffer \in Seq(Byte) /\ line \in Seq(Byte) /\ Stream \in Seq(Byte)
         /\ Len(Stream) = Len(buffer) + Len(line)
         /\ \A i \in 1..Len(Stream) :
               Stream[i] = IF i <= Len(buffer) THEN buffer[i] ELSE line[i - Len(buffer)]
         /\ Len(buffer) \in Nat /\ Len(line) \in Nat /\ Len(Stream) \in Nat
         /\ DOMAIN Stream = 1..Len(Stream) /\ DOMAIN line = 1..Len(line)
         /\ \A i \in 1..Len(line) :
               Len(buffer) + i \in 1..Len(Stream) /\ Stream[Len(buffer) + i] = line[i]
<1>1. buffer \in Seq(Byte) /\ line \in Seq(Byte)
  BY DEF LineTypeOK, Byte
<1>2. PICK s : s = buffer \o line
  OBVIOUS
<1>3. /\ s \in Seq(Byte) /\ Len(s) = Len(buffer) + Len(line)
      /\ \A i \in 1..(Len(buffer) + Len(line)) :
            s[i] = IF i <= Len(buffer) THEN buffer[i] ELSE line[i - Len(buffer)]
  BY <1>1, <1>2, ConcatProperties
<1>4. Len(buffer) \in Nat /\ Len(line) \in Nat /\ Len(s) \in Nat
  BY <1>1, <1>3, LenProperties
<1>5. DOMAIN s = 1..Len(s) /\ DOMAIN line = 1..Len(line)
  BY <1>1, <1>3, LenProperties
<1>6. \A i \in 1..Len(line) : Len(buffer) + i \in 1..Len(s) /\ s[Len(buffer) + i] = line[i]
  <2> SUFFICES ASSUME NEW i \in 1..Len(line)
               PROVE  Len(buffer) + i \in 1..Len(s) /\ s[Len(buffer) + i] = line[i]
    OBVIOUS
  <2>1. Len(buffer) + i \in 1..(Len(buffer) + Len(line)) /\ (Len(buffer) + i) - Len(buffer) = i
        /\ ~(Len(buffer) + i <= Len(buffer))
    BY <1>4
  <2> QED
    BY <2>1, <1>3
<1> QED
  BY <1>1, <1>2, <1>3, <1>4, <1>5, <1>6 DEF Stream

LEMMA Appended ==
  ASSUME NEW s \in Seq(Byte), NEW u \in Seq(Byte), NEW t, t = s \o u,
         NEW l, l = Len(s), NEW m, m = Len(u)
  PROVE  /\ t \in Seq(Byte) /\ Len(t) = l + m /\ DOMAIN t = 1..(l + m)
         /\ l \in Nat /\ m \in Nat /\ DOMAIN s = 1..l /\ DOMAIN u = 1..m
         /\ \A i \in 1..(l + m) : (i \in 1..l /\ t[i] = s[i]) \/ (i - l \in 1..m /\ t[i] = u[i - l])
         /\ \A i \in 1..l : i \in 1..(l + m) /\ t[i] = s[i]
         /\ \A i \in 1..m : l + i \in 1..(l + m) /\ t[l + i] = u[i]
<1>3. l \in Nat /\ m \in Nat
  BY LenProperties
<1>4. /\ t \in Seq(Byte) /\ Len(t) = l + m
      /\ \A i \in 1..(l + m) : t[i] = IF i <= l THEN s[i] ELSE u[i - l]
  BY <1>3, ConcatProperties
<1>5. DOMAIN t = 1..(l + m)
  BY <1>4, LenProperties
<1>6. \A i \in 1..(l + m) : (i \in 1..l /\ t[i] = s[i]) \/ (i - l \in 1..m /\ t[i] = u[i - l])
  <2> SUFFICES ASSUME NEW i \in 1..(l + m)
               PROVE  (i \in 1..l /\ t[i] = s[i]) \/ (i - l \in 1..m /\ t[i] = u[i - l])
    OBVIOUS
  <2>1. CASE i <= l
    BY <2>1, <1>3, <1>4
  <2>2. CASE ~(i <= l)
    <3>1. i - l \in 1..m
      BY <2>2, <1>3
    <3> QED
      BY <2>2, <3>1, <1>4
  <2> QED
    BY <2>1, <2>2
<1>7. \A i \in 1..l : i \in 1..(l + m) /\ t[i] = s[i]
  BY <1>3, <1>4
<1>8. \A i \in 1..m : l + i \in 1..(l + m) /\ t[l + i] = u[i]
  <2> SUFFICES ASSUME NEW i \in 1..m
               PROVE  l + i \in 1..(l + m) /\ t[l + i] = u[i]
    OBVIOUS
  <2>1. l + i \in 1..(l + m) /\ ~(l + i <= l) /\ (l + i) - l = i
    BY <1>3
  <2> QED
    BY <2>1, <1>4
<1> QED
  BY <1>3, <1>4, <1>5, <1>6, <1>7, <1>8, LenProperties

\* Bytes that arrive: noise, or bytes of the next reply, all of them or not.
BytesArrive(bytes) ==
  /\ bytes \in Seq(Byte) /\ InTurn(bytes)
  /\ \A i \in DOMAIN bytes : bytes[i][1] # 0 =>
        bytes[i][1] = sent + 1 /\ sent' = sent + 1 /\ bytes[i][2] \in 1..Size[sent + 1]
  /\ Arrives(bytes) /\ buffer' = buffer /\ received' = received
  /\ noises' \in 0..MaxNoise /\ sent' \in {sent, sent + 1} /\ sent' <= Len(Size)
  /\ \/ /\ whole' = whole
        /\ sent' = sent \/ \E k \in 1..Size[sent'] : \A i \in DOMAIN bytes : bytes[i] # <<sent', k>>
     \/ whole' = whole \cup {sent'} /\ sent' = sent + 1 /\ bytes = Bytes(sent')

LEMMA ArrivalPreserves ==
  ASSUME LineInv, NEW bytes, BytesArrive(bytes)
  PROVE  LineInv'
<1>bytes. /\ bytes \in Seq(Byte) /\ InTurn(bytes)
          /\ \A i \in DOMAIN bytes : bytes[i][1] # 0 =>
                bytes[i][1] = sent + 1 /\ sent' = sent + 1 /\ bytes[i][2] \in 1..Size[sent + 1]
  BY DEF BytesArrive
<1>arrives. Arrives(bytes) /\ buffer' = buffer /\ received' = received
  BY DEF BytesArrive
<1>counts. noises' \in 0..MaxNoise /\ sent' \in {sent, sent + 1} /\ sent' <= Len(Size)
  BY DEF BytesArrive
<1>whole. \/ /\ whole' = whole
             /\ \/ sent' = sent
                \/ \E k \in 1..Size[sent'] : \A i \in DOMAIN bytes : bytes[i] # <<sent', k>>
          \/ whole' = whole \cup {sent'} /\ sent' = sent + 1 /\ bytes = Bytes(sent')
  BY DEF BytesArrive
<1>inv. /\ LineTypeOK /\ BytesOfReplies(Stream) /\ InTurn(Stream) /\ ReceivedIsGone
        /\ WholeStands /\ OthersMissAByte /\ RepliesGetThrough
  BY DEF LineInv
<1>1. PICK s : s = Stream
  OBVIOUS
<1>2. PICK t : t = Stream'
  OBVIOUS
<1>3. PICK l : l = Len(s)
  OBVIOUS
<1>4. PICK m : m = Len(bytes)
  OBVIOUS
<1>5. /\ s \in Seq(Byte) /\ l \in Nat /\ DOMAIN s = 1..l
      /\ line \in Seq(Byte) /\ buffer \in Seq(Byte) /\ Len(line) \in Nat /\ Len(buffer) \in Nat
      /\ l = Len(buffer) + Len(line)
  BY StreamIs, <1>inv, <1>1, <1>3
<1>6. m \in Nat /\ DOMAIN bytes = 1..m
  BY <1>bytes, <1>4, LenProperties
<1>7. t = s \o bytes
  <2>1. s = buffer \o line /\ t = buffer \o (line \o bytes)
    BY <1>arrives, <1>1, <1>2 DEF Stream, Arrives
  <2>2. (buffer \o line) \o bytes = buffer \o (line \o bytes)
    BY <1>bytes, <1>5, ConcatAssociative
  <2> QED
    BY <2>1, <2>2
<1>8. t \in Seq(Byte) /\ Len(t) = l + m
  <2>1. t \in Seq(Byte)
    BY <1>bytes, <1>7, <1>5
  <2>2. s \in Seq(Byte) /\ bytes \in Seq(Byte) /\ t = s \o bytes /\ l = Len(s) /\ m = Len(bytes)
    BY <1>bytes, <1>7, <1>5, <1>3, <1>4
  <2>3. Len(t) = l + m
    BY <2>2, ConcatProperties
  <2> QED
    BY <2>1, <2>3
<1>9. DOMAIN t = 1..(l + m)
  BY <1>8, LenProperties
<1>10. \A i \in 1..(l + m) : (i \in 1..l /\ t[i] = s[i]) \/ (i - l \in 1..m /\ t[i] = bytes[i - l])
  BY <1>bytes, <1>7, <1>5, <1>3, <1>4, Appended
<1>11. \A i \in 1..l : i \in 1..(l + m) /\ t[i] = s[i]
  BY <1>bytes, <1>7, <1>5, <1>3, <1>4, Appended
<1>12. \A i \in 1..m : l + i \in 1..(l + m) /\ t[l + i] = bytes[i]
  BY <1>bytes, <1>7, <1>5, <1>3, <1>4, Appended
<1>13. line' \in Seq(Byte)
  BY <1>bytes, <1>arrives, <1>5, Appended DEF Arrives
<1>14. DOMAIN line = 1..Len(line) /\ DOMAIN line' = 1..(Len(line) + m)
  BY <1>bytes, <1>arrives, <1>5, <1>4, Appended, LenProperties DEF Arrives
<1>15. \A i \in 1..(Len(line) + m) :
          (i \in 1..Len(line) /\ line'[i] = line[i]) \/ (i - Len(line) \in 1..m /\ line'[i] = bytes[i - Len(line)])
  BY <1>bytes, <1>arrives, <1>5, <1>4, Appended DEF Arrives
<1>16. \A i \in 1..Len(line) : i \in 1..(Len(line) + m) /\ line'[i] = line[i]
  BY <1>bytes, <1>arrives, <1>5, <1>4, Appended DEF Arrives
<1>17. sent \in Nat /\ sent' \in Nat /\ whole \subseteq 1..sent /\ received \in Seq(1..sent)
       /\ sent <= sent' /\ Len(Size) \in Nat /\ sent' \in 0..Len(Size)
  BY <1>counts, <1>inv, SizeAssumption DEF LineTypeOK
<1>18. LineTypeOK'
  <2>1. whole' \subseteq 1..sent'
    <3>1. whole' = whole \/ (whole' = whole \cup {sent'} /\ sent' = sent + 1)
      BY <1>whole
    <3>2. 1..sent \subseteq 1..sent' /\ (sent' = sent + 1 => sent' \in 1..sent')
      BY <1>17
    <3> QED
      BY <3>1, <3>2, <1>17
  <2>2. received' \in Seq(1..sent')
    BY <1>arrives, <1>17, SeqMonotonic, 1..sent \subseteq 1..sent'
  <2> QED
    BY <2>1, <2>2, <1>13, <1>5, <1>17, <1>arrives, <1>counts, <1>inv DEF LineTypeOK, Byte
<1>19. \A i \in 1..m : bytes[i] \in Byte /\ (bytes[i][1] # 0 => bytes[i][1] = sent + 1)
  BY <1>bytes, <1>4, <1>6, ElementOfSeq
<1>20. \A i \in 1..l : s[i] \in Byte /\ s[i][1] \in Nat /\ (s[i][1] # 0 => s[i][1] <= sent /\ s[i][2] \in 1..Size[s[i][1]])
  <2>1. \A i \in 1..l : s[i] \in Byte
    BY <1>3, <1>5, ElementOfSeq
  <2>2. \A x \in Byte : x[1] \in Nat
    BY <1>17 DEF Byte
  <2> QED
    BY <2>1, <2>2, <1>1, <1>5, <1>inv DEF BytesOfReplies
<1>21. BytesOfReplies(Stream)'
  <2> SUFFICES ASSUME NEW i \in 1..(l + m), t[i][1] # 0
               PROVE  t[i][1] <= sent' /\ t[i][2] \in 1..Size[t[i][1]]
    BY <1>2, <1>9 DEF BytesOfReplies
  <2>1. CASE i \in 1..l /\ t[i] = s[i]
    BY <2>1, <1>20, <1>17
  <2>2. CASE i - l \in 1..m /\ t[i] = bytes[i - l]
    BY <2>2, <1>6, <1>17, <1>bytes
  <2> QED
    BY <2>1, <2>2, <1>10
<1>22. InTurn(t)
  <2> SUFFICES ASSUME NEW i \in 1..(l + m), NEW j \in 1..(l + m), i < j, t[i][1] # 0, t[j][1] # 0
               PROVE  Before(t[i], t[j])
    BY <1>9 DEF InTurn
  <2>1. CASE i \in 1..l /\ j \in 1..l
    <3>1. t[i] = s[i] /\ t[j] = s[j]
      BY <2>1, <1>11
    <3> QED
      BY <2>1, <3>1, <1>1, <1>5, <1>inv DEF InTurn
  <2>2. CASE i \in 1..l /\ j \notin 1..l
    <3>1. t[i] = s[i] /\ j - l \in 1..m /\ t[j] = bytes[j - l]
      BY <2>2, <1>10, <1>11
    <3>2. s[i][1] \in Nat /\ s[i][1] <= sent /\ bytes[j - l][1] = sent + 1
      BY <3>1, <2>2, <1>20, <1>19
    <3> QED
      BY <3>1, <3>2, <1>17 DEF Before
  <2>3. CASE i \notin 1..l
    <3>1. i - l \in 1..m /\ t[i] = bytes[i - l]
      BY <2>3, <1>10
    <3>2. j \notin 1..l
      BY <2>3, <1>5, <1>6
    <3>3. j - l \in 1..m /\ t[j] = bytes[j - l]
      BY <3>2, <1>10
    <3>4. i - l < j - l
      BY <1>5, <1>6
    <3> QED
      BY <3>1, <3>3, <3>4, <1>6, <1>bytes DEF InTurn
  <2> QED
    BY <2>1, <2>2, <2>3
<1>23. DOMAIN received = 1..Len(received) /\ \A j \in DOMAIN received : received[j] \in 1..sent
  BY <1>17, LenProperties, ElementOfSeq
<1>24. ReceivedIsGone'
  <2> SUFFICES ASSUME NEW i \in 1..(l + m), NEW j \in DOMAIN received, t[i][1] # 0
               PROVE  received[j] < t[i][1]
    BY <1>2, <1>9, <1>arrives DEF ReceivedIsGone
  <2>1. CASE i \in 1..l /\ t[i] = s[i]
    BY <2>1, <1>1, <1>5, <1>inv DEF ReceivedIsGone
  <2>2. CASE i - l \in 1..m /\ t[i] = bytes[i - l]
    <3>1. t[i][1] = sent + 1
      BY <2>2, <1>19
    <3> QED
      BY <3>1, <1>23, <1>17
  <2> QED
    BY <2>1, <2>2, <1>10
<1>25. WholeStands'
  <2> SUFFICES ASSUME NEW n \in whole', NEW k \in DOMAIN line', line'[k][1] = n
               PROVE  \E i \in 1..(l + m) : Stands(t, n, i)
    BY <1>2, <1>9 DEF WholeStands
  <2>1. CASE n \in whole
    <3>1. n \in 1..sent
      BY <2>1, <1>17
    <3>2. k \in 1..Len(line) /\ line[k][1] = n
      <4>1. CASE k - Len(line) \in 1..m /\ line'[k] = bytes[k - Len(line)]
        <5>1. PICK x : x = line'[k]
          OBVIOUS
        <5>2. x[1] = n /\ n # 0 /\ n # sent + 1
          BY <5>1, <3>1, <1>17
        <5>3. x[1] # 0 => x[1] = sent + 1
          BY <5>1, <4>1, <1>19
        <5> QED
          BY <5>2, <5>3
      <4> QED
        BY <4>1, <1>14, <1>15
    <3>3. PICK i \in 1..l : Stands(s, n, i)
      BY <2>1, <3>2, <1>14, <1>1, <1>5, <1>inv DEF WholeStands
    <3>4. Size[n] \in Nat \ {0}
      BY <3>1, <1>17, SizeIsNat, n \in 1..Len(Size)
    <3>5. i + Size[n] - 1 <= l /\ \A h \in 1..Size[n] : s[i + h - 1] = <<n, h>>
      BY <3>3, <1>3 DEF Stands
    <3>6. \A h \in 1..Size[n] : i + h - 1 \in 1..l
      BY <3>4, <3>5, <1>5
    <3>7. \A h \in 1..Size[n] : t[i + h - 1] = <<n, h>>
      BY <3>5, <3>6, <1>11
    <3>8. i + Size[n] - 1 <= l + m
      BY <3>5, <3>4, <1>5, <1>6
    <3> QED
      BY <3>7, <3>8, <1>8, <1>9, <1>11 DEF Stands
  <2>2. CASE n \notin whole
    <3>1. n = sent' /\ sent' = sent + 1 /\ bytes = Bytes(sent')
      BY <2>2, <1>whole
    <3>2. n \in 1..Len(Size)
      BY <3>1, <1>17
    <3>3. Size[n] \in Nat \ {0}
      BY <3>2, SizeIsNat
    <3>4. bytes = [h \in 1..Size[n] |-> <<n, h>>]
      BY <3>1 DEF Bytes
    <3>5. m = Size[n] /\ \A h \in 1..m : bytes[h] = <<n, h>>
      BY <3>3, <3>4, <1>6, <1>4
    <3>6. \A h \in 1..Size[n] : t[(l + 1) + h - 1] = <<n, h>>
      <4> SUFFICES ASSUME NEW h \in 1..Size[n]
                   PROVE  t[(l + 1) + h - 1] = <<n, h>>
        OBVIOUS
      <4>1. (l + 1) + h - 1 = l + h
        BY <3>3, <1>5
      <4> QED
        BY <4>1, <3>5, <1>12
    <3>7. l + 1 \in 1..(l + m) /\ (l + 1) + Size[n] - 1 <= l + m
      BY <3>3, <3>5, <1>5
    <3>8. Stands(t, n, l + 1)
      BY <3>6, <3>7, <1>8, <1>9 DEF Stands
    <3> QED
      BY <3>7, <3>8
  <2> QED
    BY <2>1, <2>2
<1>26. OthersMissAByte'
  <2> SUFFICES ASSUME NEW n \in (1..sent') \ whole'
               PROVE  \E k \in 1..Size[n] : \A i \in 1..(l + m) : t[i] # <<n, k>>
    BY <1>2, <1>9 DEF OthersMissAByte
  <2>1. CASE n \in 1..sent
    <3>1. n \notin whole
      BY <1>whole
    <3>2. PICK k \in 1..Size[n] : \A i \in 1..l : s[i] # <<n, k>>
      BY <2>1, <3>1, <1>1, <1>5, <1>inv DEF OthersMissAByte
    <3>3. \A i \in 1..m : bytes[i] # <<n, k>>
      BY <2>1, <1>19, <1>17
    <3>4. \A i \in 1..(l + m) : t[i] # <<n, k>>
      BY <3>2, <3>3, <1>10
    <3> QED
      BY <3>4
  <2>2. CASE n \notin 1..sent
    <3>1. n = sent' /\ sent' = sent + 1 /\ sent' # sent
      BY <2>2, <1>17, <1>counts
    <3>2. PICK k \in 1..Size[n] : \A i \in 1..m : bytes[i] # <<n, k>>
      BY <3>1, <1>6, <1>whole
    <3>3. \A i \in 1..l : s[i] # <<n, k>>
      BY <3>1, <1>20, <1>17
    <3>4. \A i \in 1..(l + m) : t[i] # <<n, k>>
      BY <3>2, <3>3, <1>10
    <3> QED
      BY <3>4
  <2> QED
    BY <2>1, <2>2
<1>27. RepliesGetThrough'
  <2>1. \A n \in whole : (\A k \in DOMAIN line' : line'[k][1] # n) <=> (\A k \in DOMAIN line : line[k][1] # n)
    <3> SUFFICES ASSUME NEW n \in whole
                 PROVE  (\E k \in DOMAIN line' : line'[k][1] = n) <=> (\E k \in DOMAIN line : line[k][1] = n)
      OBVIOUS
    <3>1. n \in 1..sent
      BY <1>17
    <3>2. \A i \in 1..m : bytes[i][1] # n
      BY <3>1, <1>19, <1>17
    <3> QED
      BY <3>2, <1>14, <1>15, <1>16
  <2>2. whole' # whole => \E k \in DOMAIN line' : line'[k][1] = sent'
    <3> SUFFICES ASSUME whole' # whole
                 PROVE  \E k \in DOMAIN line' : line'[k][1] = sent'
      OBVIOUS
    <3>1. bytes = Bytes(sent') /\ sent' = sent + 1
      BY <1>whole
    <3>2. Size[sent'] \in Nat \ {0}
      BY <3>1, <1>17, SizeIsNat, sent' \in 1..Len(Size)
    <3>3. 1 \in 1..m /\ bytes[1] = <<sent', 1>>
      <4>1. bytes = [h \in 1..Size[sent'] |-> <<sent', h>>]
        BY <3>1 DEF Bytes
      <4> QED
        BY <4>1, <3>2, <1>6
    <3>4. Len(line) + 1 \in 1..(Len(line) + m) /\ line'[Len(line) + 1] = bytes[1]
      BY <1>bytes, <1>arrives, <3>3, <1>5, <1>4, Appended DEF Arrives
    <3>5. line'[Len(line) + 1] = <<sent', 1>>
      BY <3>3, <3>4
    <3> QED
      BY <3>4, <3>5, <1>14
  <2>3. whole' = whole \/ whole' = whole \cup {sent'}
    BY <1>whole
  <2>4. {n \in whole' : \A k \in DOMAIN line' : line'[k][1] # n}
          = {n \in whole : \A k \in DOMAIN line : line[k][1] # n}
    BY <2>1, <2>2, <2>3
  <2> QED
    BY <2>4, <1>arrives, <1>inv DEF RepliesGetThrough
<1> QED
  BY <1>18, <1>21, <1>22, <1>24, <1>25, <1>26, <1>27, <1>2 DEF LineInv

LEMMA BytesAre ==
  ASSUME NEW n \in 1..Len(Size)
  PROVE  /\ Size[n] \in Nat \ {0} /\ n \in Nat \ {0}
         /\ Bytes(n) \in Seq(Byte) /\ Len(Bytes(n)) = Size[n] /\ DOMAIN Bytes(n) = 1..Size[n]
         /\ \A k \in 1..Size[n] : Bytes(n)[k] = <<n, k>> /\ <<n, k>> \in Byte
<1>1. Size[n] \in Nat \ {0} /\ Len(Size) \in Nat
  BY SizeIsNat
<1>2. PICK u : u = Bytes(n)
  OBVIOUS
<1>3. \A k \in 1..Size[n] : <<n, k>> \in Byte
  BY <1>1 DEF Byte
<1>4. u = [k \in 1..Size[n] |-> <<n, k>>]
  BY <1>2 DEF Bytes
<1>5. u \in Seq(Byte)
  BY <1>1, <1>3, <1>4
<1>6. Len(u) = Size[n] /\ DOMAIN u = 1..Size[n]
  BY <1>1, <1>4
<1>7. \A k \in 1..Size[n] : u[k] = <<n, k>>
  BY <1>4
<1> QED
  BY <1>1, <1>2, <1>3, <1>5, <1>6, <1>7

LEMMA OneByteIsLost ==
  ASSUME NEW n \in 1..Len(Size), NEW k \in 1..Size[n], NEW u, u = RemoveAt(Bytes(n), k)
  PROVE  /\ u \in Seq(Byte) /\ DOMAIN u = 1..(Size[n] - 1)
         /\ \A j \in 1..(Size[n] - 1) : u[j] = <<n, IF j < k THEN j ELSE j + 1>>
<1>1. PICK b : b = Bytes(n)
  OBVIOUS
<1>2. PICK m : m = Size[n]
  OBVIOUS
<1>3. /\ m \in Nat \ {0} /\ b \in Seq(Byte) /\ Len(b) = m
      /\ \A j \in 1..m : b[j] = <<n, j>> /\ <<n, j>> \in Byte
  BY <1>1, <1>2, BytesAre
<1>4. k \in 1..m
  BY <1>2
<1>5. PICK f : f = SubSeq(b, 1, k - 1)
  OBVIOUS
<1>6. PICK r : r = SubSeq(b, k + 1, m)
  OBVIOUS
<1>7. f \in Seq(Byte) /\ Len(f) = k - 1 /\ \A j \in 1..(k - 1) : f[j] = b[j]
  <2>1. \A j \in 1..(k - 1) : b[j] \in Byte
    BY <1>3, <1>4
  <2>2. /\ f \in Seq(Byte) /\ Len(f) = IF 1 <= k - 1 THEN (k - 1) - 1 + 1 ELSE 0
        /\ \A j \in 1..((k - 1) - 1 + 1) : f[j] = b[1 + j - 1]
    BY <2>1, <1>5, <1>4, <1>3, SubSeqProperties, k - 1 \in Int
  <2>3. Len(f) = k - 1
    BY <2>2, <1>4, <1>3
  <2>4. \A j \in 1..(k - 1) : f[j] = b[j]
    BY <2>2, <1>4, <1>3
  <2> QED
    BY <2>2, <2>3, <2>4
<1>8. r \in Seq(Byte) /\ Len(r) = m - k /\ \A j \in 1..(m - k) : r[j] = b[k + j]
  <2>1. \A j \in (k + 1)..m : b[j] \in Byte
    BY <1>3, <1>4
  <2>2. /\ r \in Seq(Byte) /\ Len(r) = IF k + 1 <= m THEN m - (k + 1) + 1 ELSE 0
        /\ \A j \in 1..(m - (k + 1) + 1) : r[j] = b[(k + 1) + j - 1]
    BY <2>1, <1>6, <1>4, <1>3, SubSeqProperties, k + 1 \in Int
  <2>3. Len(r) = m - k
    BY <2>2, <1>4, <1>3
  <2>4. \A j \in 1..(m - k) : r[j] = b[k + j]
    <3> SUFFICES ASSUME NEW j \in 1..(m - k)
                 PROVE  r[j] = b[k + j]
      OBVIOUS
    <3>1. m - (k + 1) + 1 = m - k /\ (k + 1) + j - 1 = k + j
      BY <1>3, <1>4
    <3> QED
      BY <3>1, <2>2
  <2> QED
    BY <2>2, <2>3, <2>4
<1>9. u = f \o r
  BY <1>1, <1>3, <1>5, <1>6 DEF RemoveAt
<1>10. Len(f) + Len(r) = m - 1 /\ Len(f) = k - 1
  BY <1>3, <1>4, <1>7, <1>8
<1>11. /\ u \in Seq(Byte) /\ Len(u) = m - 1
       /\ \A j \in 1..(m - 1) : u[j] = IF j <= k - 1 THEN f[j] ELSE r[j - (k - 1)]
  <2>1. f \in Seq(Byte) /\ r \in Seq(Byte)
    BY <1>7, <1>8
  <2>2. /\ u \in Seq(Byte) /\ Len(u) = Len(f) + Len(r)
        /\ \A j \in 1..(Len(f) + Len(r)) : u[j] = IF j <= Len(f) THEN f[j] ELSE r[j - Len(f)]
    BY <2>1, <1>9, ConcatProperties
  <2> QED
    BY <2>2, <1>10
<1>12. DOMAIN u = 1..(m - 1)
  BY <1>11, LenProperties
<1>13. ASSUME NEW j \in 1..(m - 1)
       PROVE  u[j] = <<n, IF j < k THEN j ELSE j + 1>>
  <2>1. CASE j < k
    <3>1. j \in 1..(k - 1) /\ j \in 1..m /\ j <= k - 1
      BY <2>1, <1>3, <1>4
    <3>2. u[j] = <<n, j>>
      BY <3>1, <1>11, <1>7, <1>3
    <3> QED
      BY <2>1, <3>2
  <2>2. CASE ~(j < k)
    <3>1. j - (k - 1) \in 1..(m - k) /\ ~(j <= k - 1) /\ k + (j - (k - 1)) = j + 1 /\ j + 1 \in 1..m
      BY <2>2, <1>3, <1>4
    <3>2. u[j] = <<n, j + 1>>
      BY <3>1, <1>11, <1>8, <1>3
    <3> QED
      BY <2>2, <3>2
  <2> QED
    BY <2>1, <2>2
<1> QED
  BY <1>2, <1>11, <1>12, <1>13

LEMMA ArrivalsPreserve ==
  ASSUME LineInv, Replies \/ RepliesBadly \/ Rustles
  PROVE  LineInv'
<1>1. LineTypeOK
  BY DEF LineInv
<1>2. sent \in Nat /\ Len(Size) \in Nat /\ noises \in 0..MaxNoise /\ MaxNoise \in Nat
  BY <1>1, SizeAssumption, BufferAssumption DEF LineTypeOK
<1>3. CASE Replies
  <2>1. PICK n : n = sent'
    OBVIOUS
  <2>2. PICK bytes : bytes = Bytes(n)
    OBVIOUS
  <2>3. n = sent + 1 /\ n \in 1..Len(Size)
    BY <1>3, <1>2, <2>1 DEF Replies
  <2>4. /\ Size[n] \in Nat \ {0} /\ bytes \in Seq(Byte) /\ DOMAIN bytes = 1..Size[n]
        /\ \A k \in 1..Size[n] : bytes[k] = <<n, k>>
    BY <2>2, <2>3, BytesAre
  <2>5. InTurn(bytes)
    BY <2>4 DEF InTurn, Before
  <2>6. BytesArrive(bytes)
    BY <2>1, <2>2, <2>3, <2>4, <2>5, <1>3, <1>2 DEF BytesArrive, Replies
  <2> QED
    BY <2>6, ArrivalPreserves
<1>4. CASE RepliesBadly
  <2>1. PICK n : n = sent'
    OBVIOUS
  <2>2. n = sent + 1 /\ n \in 1..Len(Size)
    BY <1>4, <1>2, <2>1 DEF RepliesBadly
  <2>3. PICK b : b = Bytes(n)
    OBVIOUS
  <2>4. /\ Size[n] \in Nat \ {0} /\ b \in Seq(Byte) /\ DOMAIN b = 1..Size[n] /\ Len(b) = Size[n]
        /\ \A k \in 1..Size[n] : b[k] = <<n, k>>
    BY <2>2, <2>3, BytesAre
  <2>5. PICK k \in 1..Size[n] : Arrives(RemoveAt(b, k)) \/ Arrives([b EXCEPT ![k] = Noise])
    BY <1>4, <2>1, <2>3 DEF RepliesBadly
  <2>6. CASE Arrives(RemoveAt(b, k))
    <3>1. PICK u : u = RemoveAt(b, k)
      OBVIOUS
    <3>2. /\ u \in Seq(Byte) /\ DOMAIN u = 1..(Size[n] - 1)
          /\ \A j \in 1..(Size[n] - 1) : u[j] = <<n, IF j < k THEN j ELSE j + 1>>
      BY <3>1, <2>3, <2>2, OneByteIsLost
    <3>3. \A j \in 1..(Size[n] - 1) :
             /\ u[j][1] = n /\ u[j][2] = (IF j < k THEN j ELSE j + 1)
             /\ u[j][2] \in 1..Size[n] /\ u[j][2] # k
      BY <3>2, <2>4
    <3>4. InTurn(u)
      <4> SUFFICES ASSUME NEW i \in 1..(Size[n] - 1), NEW j \in 1..(Size[n] - 1), i < j
                   PROVE  Before(u[i], u[j])
        BY <3>2 DEF InTurn
      <4>1. u[i][2] < u[j][2]
        BY <3>3, <2>4
      <4> QED
        BY <4>1, <3>3 DEF Before
    <3>5. \A j \in 1..(Size[n] - 1) : u[j] # <<n, k>>
      BY <3>3
    <3>6. BytesArrive(u)
      BY <2>1, <2>2, <2>6, <3>1, <3>2, <3>3, <3>4, <3>5, <1>4, <1>2 DEF BytesArrive, RepliesBadly
    <3> QED
      BY <3>6, ArrivalPreserves
  <2>7. CASE Arrives([b EXCEPT ![k] = Noise])
    <3>1. PICK u : u = [b EXCEPT ![k] = Noise]
      OBVIOUS
    <3>2. Noise \in Byte
      BY <1>2 DEF Byte, Noise
    <3>3. u \in Seq(Byte) /\ DOMAIN u = 1..Size[n]
      BY <3>1, <3>2, <2>4, ExceptSeq, LenProperties
    <3>4. \A j \in 1..Size[n] : u[j] = IF j = k THEN Noise ELSE <<n, j>>
      BY <3>1, <2>4
    <3>5. \A j \in 1..Size[n] : u[j][1] # 0 => u[j][1] = n /\ u[j][2] = j
      <4> SUFFICES ASSUME NEW j \in 1..Size[n], u[j][1] # 0
                   PROVE  u[j][1] = n /\ u[j][2] = j
        OBVIOUS
      <4> Noise[1] = 0
        BY DEF Noise
      <4>1. j # k
        BY <3>4
      <4>2. u[j] = <<n, j>>
        BY <4>1, <3>4
      <4> QED
        BY <4>2
    <3>6. InTurn(u)
      BY <3>3, <3>5, <2>4 DEF InTurn, Before
    <3>7. \A j \in 1..Size[n] : u[j] # <<n, k>>
      <4> SUFFICES ASSUME NEW j \in 1..Size[n], u[j] = <<n, k>>
                   PROVE  FALSE
        OBVIOUS
      <4>1. CASE j = k
        <5>1. u[j] = <<0, 0>>
          BY <4>1, <3>4 DEF Noise
        <5>2. n = 0
          BY <5>1
        <5> QED
          BY <5>2, <2>2, <1>2
      <4>2. CASE j # k
        <5>1. u[j] = <<n, j>>
          BY <4>2, <3>4
        <5> QED
          BY <5>1, <4>2
      <4> QED
        BY <4>1, <4>2
    <3>8. \A j \in DOMAIN u : u[j][1] # 0 =>
             u[j][1] = sent + 1 /\ sent' = sent + 1 /\ u[j][2] \in 1..Size[sent + 1]
      BY <2>1, <2>2, <3>3, <3>5
    <3>9. Arrives(u) /\ \E h \in 1..Size[sent'] : \A j \in DOMAIN u : u[j] # <<sent', h>>
      BY <2>1, <2>7, <3>1, <3>3, <3>7
    <3>10. BytesArrive(u)
      <4>1. /\ sent' = sent + 1 /\ whole' = whole
            /\ buffer' = buffer /\ noises' = noises /\ received' = received
        BY <1>4 DEF RepliesBadly
      <4>2. sent' <= Len(Size) /\ noises' \in 0..MaxNoise
        BY <4>1, <2>1, <2>2, <1>2
      <4> QED
        BY <3>3, <3>6, <3>8, <3>9, <4>1, <4>2 DEF BytesArrive
    <3> QED
      BY <3>10, ArrivalPreserves
  <2> QED
    BY <2>5, <2>6, <2>7
<1>5. CASE Rustles
  <2>1. PICK u : u = <<Noise>>
    OBVIOUS
  <2>2. Noise \in Byte
    BY <1>2 DEF Byte, Noise
  <2>3. u \in Seq(Byte) /\ DOMAIN u = 1..1 /\ u[1] = <<0, 0>>
    BY <2>1, <2>2 DEF Noise
  <2>4. \A j \in DOMAIN u : u[j][1] = 0
    BY <2>3
  <2>5. InTurn(u)
    BY <2>4 DEF InTurn
  <2>6. sent <= Len(Size)
    BY <1>1, <1>2 DEF LineTypeOK
  <2>7. BytesArrive(u)
    BY <2>1, <2>3, <2>4, <2>5, <2>6, <1>5, <1>2 DEF BytesArrive, Rustles
  <2> QED
    BY <2>7, ArrivalPreserves
<1> QED
  BY <1>3, <1>4, <1>5

\* A frame in b: the reply that stands there.
LEMMA FramesAre ==
  ASSUME NEW b \in Seq(Byte)
  PROVE  /\ IsFiniteSet(FramesIn(b)) /\ FramesIn(b) \in SUBSET Nat
         /\ \A i \in FramesIn(b) : i \in 1..Len(b) /\ b[i][1] \in 1..Len(Size) /\ Stands(b, b[i][1], i)
         /\ \A i \in 1..Len(b) : b[i][1] # 0 /\ Stands(b, b[i][1], i) => i \in FramesIn(b)
<1>1. PICK l : l = Len(b)
  OBVIOUS
<1>2. l \in Nat /\ DOMAIN b = 1..l
  BY <1>1, LenProperties
<1>3. PICK F : F = FramesIn(b)
  OBVIOUS
<1>4. F \in SUBSET (1..l)
  BY <1>2, <1>3 DEF FramesIn
<1>5. IsFiniteSet(1..l)
  BY <1>2, FS_Interval
<1>6. IsFiniteSet(F)
  BY <1>4, <1>5, FS_Subset
<1>7. \A i \in 1..l : i \in F <=> b[i][1] # 0 /\ Stands(b, b[i][1], i)
  BY <1>2, <1>3, FrameStands DEF FramesIn
<1>8. \A i \in 1..l : b[i][1] \in 0..Len(Size)
  <2>1. \A x \in Byte : x[1] \in 0..Len(Size)
    BY DEF Byte
  <2>2. \A i \in 1..l : b[i] \in Byte
    BY <1>1, ElementOfSeq
  <2> QED
    BY <2>1, <2>2
<1>9. \A i \in 1..l : b[i][1] # 0 => b[i][1] \in 1..Len(Size)
  BY <1>8, SizeAssumption
<1> QED
  BY <1>1, <1>3, <1>4, <1>6, <1>7, <1>9

\* What is left of b begins behind the last frame of it.
LEMMA RemainingIs ==
  ASSUME NEW b \in Seq(Byte)
  PROVE  \E c \in 0..Len(b) :
            /\ Remaining(b) = SubSeq(b, c + 1, Len(b))
            /\ \/ FramesIn(b) = {} /\ c = 0
               \/ \E last \in FramesIn(b) : /\ c = last + Size[b[last][1]] - 1
                                            /\ \A i \in FramesIn(b) : i <= last
<1>1. PICK l : l = Len(b)
  OBVIOUS
<1>2. l \in Nat
  BY <1>1, LenProperties
<1>3. PICK F : F = FramesIn(b)
  OBVIOUS
<1>4. CASE F = {}
  <2>1. Remaining(b) = SubSeq(b, 0 + 1, l)
    BY <1>1, <1>3, <1>4, SubSeqFull DEF Remaining
  <2>2. 0 \in 0..l
    BY <1>2
  <2> QED
    BY <2>1, <2>2, <1>1, <1>3, <1>4
<1>5. CASE F # {}
  <2>1. IsFiniteSet(F) /\ F \in SUBSET Nat
    BY <1>3, FramesAre
  <2>2. PICK m, s : m = Cardinality(F) /\ s = Ascending(F)
    OBVIOUS
  <2>3. /\ m \in Nat /\ s \in [1..m -> F]
        /\ \A i, j \in 1..m : i < j => s[i] < s[j]
        /\ \A x \in F : \E i \in 1..m : s[i] = x
    BY <2>1, <2>2, AscendingIs
  <2>4. m \in 1..m
    BY <2>3, <1>5
  <2>5. s[m] \in F /\ \A x \in F : s[m] >= x
    <3> SUFFICES ASSUME NEW x \in F
                 PROVE  s[m] \in F /\ s[m] >= x
      BY <1>5
    <3>1. PICK i \in 1..m : s[i] = x
      BY <2>3
    <3>2. i < m \/ i = m
      BY <2>3
    <3>3. s[m] \in F /\ s[m] \in Nat /\ x \in Nat
      BY <2>1, <2>3, <2>4
    <3> QED
      BY <3>1, <3>2, <3>3, <2>3, <2>4
  <2>6. PICK last : last = Max(F)
    OBVIOUS
  <2>7. last \in F /\ \A x \in F : last >= x
    BY <2>5, <2>6 DEF Max
  <2>8. PICK n : n = b[last][1]
    OBVIOUS
  <2>9. n \in 1..Len(Size) /\ Stands(b, n, last) /\ last \in 1..l
    BY <2>7, <2>8, <1>1, <1>3, FramesAre
  <2>10. Size[n] \in Nat \ {0}
    BY <2>9, SizeIsNat
  <2>11. PICK c : c = last + Size[n] - 1
    OBVIOUS
  <2>12. c \in 0..l
    BY <2>9, <2>10, <2>11, <1>1, <1>2 DEF Stands
  <2>13. c + 1 = last + Size[n]
    BY <2>9, <2>10, <2>11, <1>2
  <2>14. Remaining(b) = SubSeq(b, c + 1, l)
    BY <2>13, <2>8, <2>6, <1>1, <1>3, <1>5 DEF Remaining
  <2>15. \A x \in F : x <= last
    BY <2>1, <2>7
  <2> QED
    BY <2>7, <2>8, <2>11, <2>12, <2>14, <2>15, <1>1, <1>3
<1> QED
  BY <1>4, <1>5

LEMMA EndOfSeq ==
  ASSUME NEW s \in Seq(Byte), NEW c \in 0..Len(s), NEW u, u = SubSeq(s, c + 1, Len(s))
  PROVE  /\ u \in Seq(Byte) /\ Len(u) = Len(s) - c /\ DOMAIN u = 1..(Len(s) - c)
         /\ \A i \in 1..(Len(s) - c) : u[i] = s[c + i] /\ c + i \in 1..Len(s)
<1>1. PICK l : l = Len(s)
  OBVIOUS
<1>2. l \in Nat /\ c \in 0..l
  BY <1>1, LenProperties
<1>3. \A i \in 1..l : s[i] \in Byte
  BY <1>1, ElementOfSeq
<1>4. \A i \in (c + 1)..l : s[i] \in Byte
  BY <1>2, <1>3
<1>5. /\ u \in Seq(Byte) /\ Len(u) = IF c + 1 <= l THEN l - (c + 1) + 1 ELSE 0
      /\ \A i \in 1..(l - (c + 1) + 1) : u[i] = s[(c + 1) + i - 1]
  BY <1>4, <1>2, <1>1, SubSeqProperties, c + 1 \in Int, l \in Int
<1>6. Len(u) = l - c
  BY <1>5, <1>2
<1>7. \A i \in 1..(l - c) : u[i] = s[c + i] /\ c + i \in 1..l
  <2> SUFFICES ASSUME NEW i \in 1..(l - c)
               PROVE  u[i] = s[c + i] /\ c + i \in 1..l
    OBVIOUS
  <2>1. l - (c + 1) + 1 = l - c /\ (c + 1) + i - 1 = c + i /\ c + i \in 1..l
    BY <1>2
  <2> QED
    BY <2>1, <1>5
<1>8. DOMAIN u = 1..(l - c)
  BY <1>5, <1>6, LenProperties
<1> QED
  BY <1>1, <1>5, <1>6, <1>7, <1>8

\* What the buffer keeps of b: what is left, or the last bytes of it only.
LEMMA KeptIs ==
  ASSUME NEW b \in Seq(Byte), NEW c \in 0..Len(b), NEW r, r = SubSeq(b, c + 1, Len(b))
  PROVE  \E d \in c..Len(b) :
            /\ d = c \/ d = Len(b) - KeptBytes
            /\ Trimmed(r) = SubSeq(b, d + 1, Len(b))
            /\ Len(b) - d <= MaxBuffer
<1>1. PICK l : l = Len(b)
  OBVIOUS
<1>2. l \in Nat /\ c \in 0..l /\ KeptBytes \in Nat /\ MaxBuffer \in Nat /\ KeptBytes <= MaxBuffer /\ 1 <= KeptBytes
  BY <1>1, LenProperties, BufferAssumption
<1>3. r \in Seq(Byte) /\ Len(r) = l - c /\ \A i \in 1..(l - c) : r[i] = b[c + i] /\ c + i \in 1..l
  BY <1>1, EndOfSeq
<1>4. CASE ~(l - c > MaxBuffer)
  <2>1. Trimmed(r) = r
    BY <1>3, <1>4 DEF Trimmed
  <2>2. c \in c..l /\ l - c <= MaxBuffer
    BY <1>2, <1>4
  <2> QED
    BY <2>1, <2>2, <1>1
<1>5. CASE l - c > MaxBuffer
  <2>1. PICK e : e = (l - c) - KeptBytes
    OBVIOUS
  <2>2. PICK d : d = l - KeptBytes
    OBVIOUS
  <2>3. e \in 0..(l - c) /\ d \in c..l /\ l - d = KeptBytes /\ (l - c) - e = l - d /\ c + e = d
    BY <2>1, <2>2, <1>2, <1>5
  <2>4. PICK u : u = Trimmed(r)
    OBVIOUS
  <2>5. u = SubSeq(r, e + 1, Len(r))
    BY <2>1, <2>4, <1>3, <1>5 DEF Trimmed
  <2>6. /\ u \in Seq(Byte) /\ Len(u) = l - d
        /\ \A i \in 1..(l - d) : u[i] = r[e + i] /\ e + i \in 1..(l - c)
    BY <2>3, <2>5, <1>3, EndOfSeq
  <2>7. PICK v : v = SubSeq(b, d + 1, l)
    OBVIOUS
  <2>8. d \in 0..l
    BY <2>3, <1>2
  <2>9. /\ v \in Seq(Byte) /\ Len(v) = l - d
        /\ \A i \in 1..(l - d) : v[i] = b[d + i]
    BY <2>7, <2>8, <1>1, EndOfSeq
  <2>10. \A i \in 1..(l - d) : u[i] = v[i]
    <3> SUFFICES ASSUME NEW i \in 1..(l - d)
                 PROVE  u[i] = v[i]
      OBVIOUS
    <3>1. u[i] = r[e + i] /\ r[e + i] = b[c + (e + i)]
      BY <2>6, <1>3
    <3>2. c + (e + i) = d + i
      BY <2>3, <1>2
    <3> QED
      BY <3>1, <3>2, <2>9
  <2>11. u = v
    BY <2>6, <2>9, <2>10, SeqEqual
  <2>12. l - d <= MaxBuffer
    BY <2>3, <1>2
  <2> QED
    BY <2>2, <2>3, <2>4, <2>7, <2>11, <2>12, <1>1
<1> QED
  BY <1>4, <1>5

\* The replies that are received: those of the frames, one for each, in their order.
ParsedAt(b, u, m, at) ==
  /\ m \in Nat /\ at \in [1..m -> FramesIn(b)]
  /\ u = [j \in 1..m |-> u[j]] /\ \A j \in 1..m : u[j] = b[at[j]][1]
  /\ \A i, j \in 1..m : i < j => at[i] < at[j]
  /\ \A x \in FramesIn(b) : \E j \in 1..m : at[j] = x

LEMMA ParsedIs ==
  ASSUME NEW b \in Seq(Byte), NEW u, u = ParseResponse(b)
  PROVE  \E m, at : ParsedAt(b, u, m, at)
<1>1. PICK F : F = FramesIn(b)
  OBVIOUS
<1>2. IsFiniteSet(F) /\ F \in SUBSET Nat
  BY <1>1, FramesAre
<1>3. PICK m, at : m = Cardinality(F) /\ at = Ascending(F)
  OBVIOUS
<1>4. /\ m \in Nat /\ at \in [1..m -> F]
      /\ \A i, j \in 1..m : i < j => at[i] < at[j]
      /\ \A x \in F : \E i \in 1..m : at[i] = x
  BY <1>2, <1>3, AscendingIs
<1>5. DOMAIN at = 1..m
  BY <1>4
<1>6. u = [j \in 1..m |-> b[at[j]][1]]
  BY <1>1, <1>3, <1>5 DEF ParseResponse
<1>7. u = [j \in 1..m |-> u[j]] /\ \A j \in 1..m : u[j] = b[at[j]][1]
  BY <1>6
<1>8. ParsedAt(b, u, m, at)
  BY <1>1, <1>4, <1>7 DEF ParsedAt
<1> QED
  BY <1>8

LEMMA StartOfSeq ==
  ASSUME NEW s \in Seq(Byte), NEW k \in 0..Len(s), NEW u, u = SubSeq(s, 1, k)
  PROVE  u \in Seq(Byte) /\ Len(u) = k /\ \A i \in 1..k : u[i] = s[i] /\ i \in 1..Len(s)
<1>1. PICK l : l = Len(s)
  OBVIOUS
<1>2. l \in Nat /\ k \in 0..l
  BY <1>1, LenProperties
<1>3. \A i \in 1..l : s[i] \in Byte
  BY <1>1, ElementOfSeq
<1>4. \A i \in 1..k : s[i] \in Byte /\ i \in 1..l
  BY <1>2, <1>3
<1>5. /\ u \in Seq(Byte) /\ Len(u) = IF 1 <= k THEN k - 1 + 1 ELSE 0
      /\ \A i \in 1..(k - 1 + 1) : u[i] = s[1 + i - 1]
  BY <1>4, <1>2, SubSeqProperties, 1 \in Int, k \in Int
<1>6. Len(u) = k
  BY <1>5, <1>2
<1>7. \A i \in 1..k : u[i] = s[i]
  BY <1>5, <1>2
<1> QED
  BY <1>1, <1>4, <1>5, <1>6, <1>7

\* Where the stream stands after a read of b: the first d bytes of it are gone, among
\* them all those of the frames that were found.
CutAt(b, d) ==
  /\ b \in Seq(Byte) /\ Len(b) \in 0..Len(Stream) /\ d \in 0..Len(b)
  /\ \A i \in 1..Len(b) : b[i] = Stream[i] /\ i \in 1..Len(Stream)
  /\ line' \in Seq(Byte) /\ DOMAIN line' = 1..(Len(Stream) - Len(b))
  /\ \A i \in 1..(Len(Stream) - Len(b)) : Len(b) + i \in 1..Len(Stream) /\ line'[i] = Stream[Len(b) + i]
  /\ \A i \in DOMAIN line' : \E j \in DOMAIN line : line[j] = line'[i]
  /\ buffer' \in Seq(Byte) /\ Len(buffer') <= MaxBuffer
  /\ Stream' \in Seq(Byte) /\ Len(Stream') = Len(Stream) - d
  /\ \A i \in 1..(Len(Stream) - d) : Stream'[i] = Stream[d + i] /\ d + i \in 1..Len(Stream)
  /\ \/ d = Len(b) - KeptBytes
     \/ d = 0
     \/ \E last \in FramesIn(b) : d = last + Size[b[last][1]] - 1
  /\ FramesIn(b) # {} => \E last \in FramesIn(b) : /\ last + Size[b[last][1]] - 1 <= d
                                                   /\ \A i \in FramesIn(b) : i <= last
  /\ received' = received \o ParseResponse(b)

LEMMA ReadCuts ==
  ASSUME LineInv, NEW k \in DOMAIN line, Read(k)
  PROVE  \E b, d : CutAt(b, d)
<1>1. LineTypeOK
  BY DEF LineInv
<1>2. PICK s, l : s = Stream /\ l = Len(s)
  OBVIOUS
<1>3. PICK m, o : m = Len(line) /\ o = Len(buffer)
  OBVIOUS
<1>4. /\ buffer \in Seq(Byte) /\ line \in Seq(Byte) /\ s \in Seq(Byte)
      /\ l \in Nat /\ m \in Nat /\ o \in Nat /\ l = o + m
      /\ k \in 1..m /\ DOMAIN line = 1..m
      /\ \A i \in 1..l : s[i] = IF i <= o THEN buffer[i] ELSE line[i - o]
      /\ \A i \in 1..m : o + i \in 1..l /\ s[o + i] = line[i]
  BY <1>1, <1>2, <1>3, StreamIs
<1>5. PICK f : f = SubSeq(line, 1, k)
  OBVIOUS
<1>6. f \in Seq(Byte) /\ Len(f) = k /\ \A i \in 1..k : f[i] = line[i]
  BY <1>5, <1>4, <1>3, StartOfSeq, k \in 0..m
<1>7. PICK b, z : b = buffer \o f /\ z = Len(b)
  OBVIOUS
<1>8. b \in Seq(Byte) /\ z = o + k
      /\ \A i \in 1..(o + k) : b[i] = IF i <= o THEN buffer[i] ELSE f[i - o]
  <2>1. buffer \in Seq(Byte) /\ f \in Seq(Byte)
    BY <1>4, <1>6
  <2>2. /\ b \in Seq(Byte) /\ Len(b) = Len(buffer) + Len(f)
        /\ \A i \in 1..(Len(buffer) + Len(f)) : b[i] = IF i <= Len(buffer) THEN buffer[i] ELSE f[i - Len(buffer)]
    BY <2>1, <1>7, ConcatProperties
  <2>3. Len(buffer) = o /\ Len(f) = k
    BY <1>3, <1>6
  <2> QED
    BY <2>2, <2>3, <1>7
<1>30. b \in Seq(Byte) /\ z = Len(b)
  BY <1>7, <1>8
<1>9. z \in 0..l /\ l - z = m - k
  BY <1>8, <1>4
<1>10. \A i \in 1..z : b[i] = s[i] /\ i \in 1..l
  <2> SUFFICES ASSUME NEW i \in 1..z
               PROVE  b[i] = s[i] /\ i \in 1..l
    OBVIOUS
  <2>1. i \in 1..(o + k) /\ i \in 1..l
    BY <1>8, <1>9, <1>4
  <2>2. CASE i <= o
    BY <2>1, <2>2, <1>8, <1>4
  <2>3. CASE ~(i <= o)
    <3>1. i - o \in 1..k
      BY <2>1, <2>3, <1>4
    <3> QED
      BY <2>1, <2>3, <3>1, <1>8, <1>6, <1>4
  <2> QED
    BY <2>2, <2>3
<1>11. PICK r : r = line'
  OBVIOUS
<1>12. r \in Seq(Byte) /\ Len(r) = m - k /\ DOMAIN r = 1..(m - k)
       /\ \A i \in 1..(m - k) : r[i] = line[k + i] /\ k + i \in 1..m
  <2>1. r = SubSeq(line, k + 1, m)
    BY <1>11, <1>3 DEF Read
  <2> QED
    <3>1. line \in Seq(Byte) /\ m = Len(line) /\ k \in 0..m
      BY <1>3, <1>4
    <3> QED
      BY <2>1, <3>1, EndOfSeq
<1>13. \A i \in 1..(l - z) : z + i \in 1..l /\ r[i] = s[z + i]
  <2> SUFFICES ASSUME NEW i \in 1..(l - z)
               PROVE  z + i \in 1..l /\ r[i] = s[z + i]
    OBVIOUS
  <2>1. i \in 1..(m - k) /\ z + i = o + (k + i)
    BY <1>8, <1>9, <1>4
  <2>2. k + i \in 1..m /\ r[i] = line[k + i]
    BY <2>1, <1>12
  <2> QED
    BY <2>1, <2>2, <1>4
<1>14. \A i \in 1..(m - k) : \E j \in 1..m : line[j] = r[i]
  BY <1>12
<1>15. PICK c \in 0..z :
          /\ Remaining(b) = SubSeq(b, c + 1, z)
          /\ \/ FramesIn(b) = {} /\ c = 0
             \/ \E last \in FramesIn(b) : /\ c = last + Size[b[last][1]] - 1
                                          /\ \A i \in FramesIn(b) : i <= last
  BY <1>30, RemainingIs
<1>16. PICK d \in c..z :
          /\ d = c \/ d = z - KeptBytes
          /\ Trimmed(Remaining(b)) = SubSeq(b, d + 1, z)
          /\ z - d <= MaxBuffer
  <2>1. PICK u : u = Remaining(b)
    OBVIOUS
  <2>2. c \in 0..Len(b) /\ u = SubSeq(b, c + 1, Len(b))
    BY <2>1, <1>15, <1>30
  <2> QED
    BY <2>1, <2>2, <1>30, KeptIs
<1>17. PICK w : w = buffer'
  OBVIOUS
<1>18. w = SubSeq(b, d + 1, z)
  BY <1>5, <1>7, <1>16, <1>17 DEF Read
<1>19. c \in Nat /\ d \in 0..z /\ d \in 0..l /\ z \in Nat /\ c <= d
  BY <1>9, <1>4
<1>20. w \in Seq(Byte) /\ Len(w) = z - d /\ \A i \in 1..(z - d) : w[i] = b[d + i] /\ d + i \in 1..z
  <2>1. d \in 0..Len(b) /\ w = SubSeq(b, d + 1, Len(b))
    BY <1>18, <1>19, <1>30
  <2> QED
    BY <2>1, <1>30, EndOfSeq
<1>21. PICK t : t = Stream'
  OBVIOUS
<1>22. t = w \o r
  BY <1>11, <1>17, <1>21 DEF Stream
<1>23. (z - d) + (m - k) = l - d
  BY <1>19, <1>9, <1>4
<1>24. t \in Seq(Byte) /\ Len(t) = l - d
       /\ \A i \in 1..(l - d) : t[i] = IF i <= z - d THEN w[i] ELSE r[i - (z - d)]
  <2>1. w \in Seq(Byte) /\ r \in Seq(Byte)
    BY <1>20, <1>12
  <2>2. /\ t \in Seq(Byte) /\ Len(t) = Len(w) + Len(r)
        /\ \A i \in 1..(Len(w) + Len(r)) : t[i] = IF i <= Len(w) THEN w[i] ELSE r[i - Len(w)]
    BY <2>1, <1>22, ConcatProperties
  <2>3. Len(w) + Len(r) = l - d /\ Len(w) = z - d
    BY <1>20, <1>12, <1>23
  <2> QED
    BY <2>2, <2>3
<1>25. \A i \in 1..(l - d) : t[i] = s[d + i] /\ d + i \in 1..l
  <2> SUFFICES ASSUME NEW i \in 1..(l - d)
               PROVE  t[i] = s[d + i] /\ d + i \in 1..l
    OBVIOUS
  <2>1. d + i \in 1..l
    BY <1>19, <1>4
  <2>2. CASE i <= z - d
    <3>1. i \in 1..(z - d) /\ d + i \in 1..z
      BY <2>2, <1>19
    <3> QED
      BY <2>1, <2>2, <3>1, <1>24, <1>20, <1>10
  <2>3. CASE ~(i <= z - d)
    <3>1. i - (z - d) \in 1..(l - z) /\ z + (i - (z - d)) = d + i
      BY <2>3, <1>19, <1>9, <1>4
    <3> QED
      BY <2>1, <2>3, <3>1, <1>24, <1>13
  <2> QED
    BY <2>2, <2>3
<1>26. \/ d = z - KeptBytes
       \/ d = 0
       \/ \E last \in FramesIn(b) : d = last + Size[b[last][1]] - 1
  BY <1>15, <1>16
<1>27. FramesIn(b) # {} => \E last \in FramesIn(b) : /\ last + Size[b[last][1]] - 1 <= d
                                                     /\ \A i \in FramesIn(b) : i <= last
  BY <1>15, <1>19
<1>28. Len(w) <= MaxBuffer
  BY <1>16, <1>20
<1>29. /\ b \in Seq(Byte) /\ Len(b) \in 0..Len(Stream) /\ d \in 0..Len(b)
       /\ received' = received \o ParseResponse(b)
  <2>1. received' = received \o ParseResponse(b)
    BY <1>5, <1>7 DEF Read
  <2> QED
    BY <2>1, <1>2, <1>30, <1>9, <1>19
<1>34. \A i \in 1..Len(b) : b[i] = Stream[i] /\ i \in 1..Len(Stream)
  BY <1>2, <1>7, <1>10
<1>31. /\ line' \in Seq(Byte) /\ DOMAIN line' = 1..(Len(Stream) - Len(b))
       /\ \A i \in 1..(Len(Stream) - Len(b)) : Len(b) + i \in 1..Len(Stream) /\ line'[i] = Stream[Len(b) + i]
       /\ \A i \in DOMAIN line' : \E j \in DOMAIN line : line[j] = line'[i]
  BY <1>2, <1>4, <1>7, <1>9, <1>11, <1>12, <1>13, <1>14
<1>32. /\ Stream' \in Seq(Byte) /\ Len(Stream') = Len(Stream) - d
       /\ \A i \in 1..(Len(Stream) - d) : Stream'[i] = Stream[d + i] /\ d + i \in 1..Len(Stream)
  BY <1>2, <1>21, <1>24, <1>25
<1>33. buffer' \in Seq(Byte) /\ Len(buffer') <= MaxBuffer
  BY <1>17, <1>20, <1>28
<1>35. CutAt(b, d)
  BY <1>26, <1>27, <1>29, <1>34, <1>31, <1>32, <1>33, <1>30 DEF CutAt
<1> QED
  BY <1>35

LEMMA FunctionIsSeq ==
  ASSUME NEW S, NEW m \in Nat, NEW u \in [1..m -> S]
  PROVE  u \in Seq(S) /\ Len(u) = m
<1>1. u \in Seq(S)
  OBVIOUS
<1> QED
  BY <1>1

LEMMA ReadPreserves ==
  ASSUME LineInv, NEW k \in DOMAIN line, Read(k)
  PROVE  LineInv'
<1>1. /\ LineTypeOK /\ BytesOfReplies(Stream) /\ InTurn(Stream) /\ ReceivedIsGone
      /\ WholeStands /\ OthersMissAByte /\ RepliesGetThrough
  BY DEF LineInv
<1>2. PICK b, d : CutAt(b, d)
  BY ReadCuts
<1>3. PICK s, l, t, r, z, F :
         s = Stream /\ l = Len(Stream) /\ t = Stream' /\ r = line' /\ z = Len(b) /\ F = FramesIn(b)
  OBVIOUS
<1>4. /\ \A i \in 1..z : b[i] = s[i] /\ i \in 1..l
      /\ r \in Seq(Byte) /\ DOMAIN r = 1..(l - z)
      /\ \A i \in 1..(l - z) : z + i \in 1..l /\ r[i] = s[z + i]
      /\ \A i \in DOMAIN r : \E j \in DOMAIN line : line[j] = r[i]
  BY <1>2, <1>3 DEF CutAt
<1>5. /\ t \in Seq(Byte) /\ Len(t) = l - d /\ b \in Seq(Byte)
      /\ buffer' \in Seq(Byte) /\ Len(buffer') <= MaxBuffer
  BY <1>2, <1>3 DEF CutAt
<1>6. /\ s \in Seq(Byte) /\ l \in Nat /\ DOMAIN s = 1..l /\ DOMAIN line = 1..Len(line)
      /\ z \in 0..l /\ d \in 0..z /\ z \in Nat /\ d \in Nat
  <2>1. /\ s \in Seq(Byte) /\ l \in Nat /\ DOMAIN s = 1..l /\ DOMAIN line = 1..Len(line)
    BY <1>1, <1>3, StreamIs
  <2>2. z \in 0..l /\ d \in 0..z
    BY <1>2, <1>3 DEF CutAt
  <2> QED
    BY <2>1, <2>2
<1>7. DOMAIN t = 1..(l - d)
  BY <1>5, LenProperties
<1>8. \A i \in 1..(l - d) : t[i] = s[d + i] /\ d + i \in 1..l
  BY <1>2, <1>3 DEF CutAt
<1>9. UNCHANGED <<noises, sent, whole>> /\ received' = received \o ParseResponse(b)
  BY <1>2 DEF Read, CutAt
<1>10. /\ sent \in Nat /\ Len(Size) \in Nat /\ sent <= Len(Size) /\ KeptBytes \in Nat
       /\ noises \in 0..MaxNoise /\ whole \subseteq 1..sent /\ received \in Seq(1..sent)
  BY <1>1, SizeAssumption, BufferAssumption DEF LineTypeOK
<1>11. \A n \in 1..sent : Size[n] \in Nat \ {0} /\ Size[n] <= KeptBytes
  BY <1>10, SizeIsNat, 1..sent \subseteq 1..Len(Size)
<1>12. \A i \in 1..l : s[i][1] # 0 => s[i][1] \in 1..sent /\ s[i][2] \in 1..Size[s[i][1]]
  <2>1. \A x \in Byte : x[1] \in Nat
    BY <1>10 DEF Byte
  <2>2. \A i \in 1..l : s[i][1] \in Nat
    BY <2>1, <1>3, <1>6, ElementOfSeq
  <2> QED
    <3>1. \A i \in 1..l : s[i][1] # 0 => s[i][1] <= sent /\ s[i][2] \in 1..Size[s[i][1]]
      BY <1>1, <1>3, <1>6 DEF BytesOfReplies
    <3> QED
      BY <2>2, <3>1, <1>10
<1>13. \A i, j \in 1..l : i < j /\ s[i][1] # 0 /\ s[j][1] # 0 => Before(s[i], s[j])
  BY <1>1, <1>3, <1>6 DEF InTurn
\* The frames that are found, in the stream.
<1>14. ASSUME NEW i \in F
       PROVE  /\ i \in 1..z /\ i \in 1..l /\ b[i][1] \in 1..sent
              /\ i + Size[b[i][1]] - 1 <= z
              /\ \A h \in 1..Size[b[i][1]] : s[i + h - 1] = <<b[i][1], h>> /\ i + h - 1 \in 1..l
  <2>1. i \in 1..z /\ b[i][1] \in 1..Len(Size) /\ Stands(b, b[i][1], i)
    BY <1>3, <1>5, FramesAre
  <2>2. i \in 1..l /\ b[i] = s[i]
    BY <2>1, <1>4
  <2>3. PICK n : n = b[i][1]
    OBVIOUS
  <2>4. n \in 1..sent
    BY <2>1, <2>2, <2>3, <1>12, <1>10
  <2>5. Size[n] \in Nat \ {0}
    BY <2>4, <1>11
  <2>6. i + Size[n] - 1 <= z /\ \A h \in 1..Size[n] : b[i + h - 1] = <<n, h>>
    BY <2>1, <2>3, <1>3 DEF Stands
  <2>7. \A h \in 1..Size[n] : i + h - 1 \in 1..z
    BY <2>1, <2>5, <2>6, <1>6
  <2>8. \A h \in 1..Size[n] : s[i + h - 1] = <<n, h>> /\ i + h - 1 \in 1..l
    BY <2>6, <2>7, <1>4
  <2> QED
    BY <2>1, <2>2, <2>3, <2>4, <2>6, <2>8
<1>15. ASSUME NEW i \in F, NEW j \in F, i < j
       PROVE  b[i][1] < b[j][1]
  <2>1. \A f \in F : f \in 1..l /\ b[f][1] \in 1..sent /\ s[f] = <<b[f][1], 1>>
    <3> SUFFICES ASSUME NEW f \in F
                 PROVE  f \in 1..l /\ b[f][1] \in 1..sent /\ s[f] = <<b[f][1], 1>>
      OBVIOUS
    <3>1. PICK n : n = b[f][1]
      OBVIOUS
    <3>2. f \in 1..l /\ n \in 1..sent /\ \A h \in 1..Size[n] : s[f + h - 1] = <<n, h>>
      BY <3>1, <1>14
    <3>3. 1 \in 1..Size[n] /\ f + 1 - 1 = f
      BY <3>2, <1>11
    <3>4. s[f + 1 - 1] = <<n, 1>>
      BY <3>2, <3>3
    <3> QED
      BY <3>1, <3>2, <3>3, <3>4
  <2>2. s[i][1] = b[i][1] /\ s[j][1] = b[j][1] /\ s[i][2] = 1 /\ s[j][2] = 1
    BY <2>1
  <2>3. i \in 1..l /\ j \in 1..l /\ s[i][1] # 0 /\ s[j][1] # 0
    BY <2>1, <2>2
  <2>4. Before(s[i], s[j])
    BY <2>3, <1>13, <1>15
  <2> QED
    BY <2>2, <2>4 DEF Before
\* What is behind the cut is of later replies.
<1>16. ASSUME NEW i \in F, NEW p \in 1..l, p > d, s[p][1] # 0
       PROVE  b[i][1] < s[p][1]
  <2>1. PICK last \in F : last + Size[b[last][1]] - 1 <= d /\ \A j \in F : j <= last
    BY <1>2, <1>3 DEF CutAt
  <2>2. PICK n : n = b[last][1]
    OBVIOUS
  <2>3. n \in 1..sent /\ last \in 1..l /\ Size[n] \in Nat \ {0}
    BY <2>2, <1>14, <1>11
  <2>4. PICK q : q = last + Size[n] - 1
    OBVIOUS
  <2>5. q \in 1..l /\ s[q] = <<n, Size[n]>> /\ q < p
    <3>1. q <= d
      BY <2>1, <2>2, <2>4
    <3>2. Size[n] \in 1..Size[n]
      BY <2>3
    <3>3. q \in 1..l /\ s[q] = <<n, Size[n]>>
      BY <3>2, <2>2, <2>4, <1>14
    <3> QED
      BY <3>1, <3>3, <1>6, <1>16
  <2>6. Before(s[q], s[p])
    BY <2>5, <2>3, <1>13, <1>16
  <2>7. s[p][1] \in 1..sent /\ s[p][2] \in 1..Size[s[p][1]]
    BY <1>12, <1>16
  <2>8. n < s[p][1]
    <3>1. n < s[p][1] \/ (n = s[p][1] /\ Size[n] < s[p][2])
      BY <2>5, <2>6 DEF Before
    <3> QED
      BY <3>1, <2>3, <2>7
  <2>9. i = last \/ i < last
    BY <2>1, <1>14
  <2>10. b[i][1] \in 1..sent /\ b[i][1] <= n
    BY <2>9, <2>2, <2>3, <1>14, <1>15
  <2> QED
    BY <2>8, <2>10, <2>3, <2>7
\* A reply that stands, with a byte that is not read yet, is behind the cut.
<1>17. ASSUME NEW n \in 1..sent, NEW i \in 1..l, Stands(s, n, i), NEW q \in 1..l, q > z, s[q][1] = n
       PROVE  i > d
  <2>1. Size[n] \in Nat \ {0} /\ Size[n] <= KeptBytes
    BY <1>11
  <2>2. i + Size[n] - 1 <= l /\ \A h \in 1..Size[n] : s[i + h - 1] = <<n, h>>
    BY <1>17, <1>3 DEF Stands
  <2>3. PICK h : h = s[q][2]
    OBVIOUS
  <2>4. h \in 1..Size[n]
    BY <2>3, <1>12, <1>17
  <2>5. PICK p : p = i + h - 1
    OBVIOUS
  <2>6. p \in 1..l /\ s[p] = <<n, h>>
    BY <2>1, <2>2, <2>4, <2>5, <1>6
  <2>7. p = q
    <3>1. p < q \/ q < p \/ p = q
      BY <2>6, <1>6
    <3>2. s[p][1] = n /\ s[p][2] = h /\ s[q][1] = n /\ s[q][2] = h /\ n # 0 /\ h \in Nat /\ n \in Nat
      BY <2>6, <2>3, <2>4, <1>17
    <3>3. ~Before(s[p], s[q]) /\ ~Before(s[q], s[p])
      BY <3>2 DEF Before
    <3> QED
      BY <3>1, <3>2, <3>3, <2>6, <1>13
  <2>8. q <= i + Size[n] - 1
    BY <2>4, <2>5, <2>7, <2>1
  <2>9. CASE d = z - KeptBytes
    <3>1. PICK c : c = Size[n]
      OBVIOUS
    <3>2. c \in Nat /\ c <= KeptBytes /\ q <= i + c - 1 /\ i \in Nat /\ q \in Nat /\ q > z
      BY <3>1, <2>1, <2>8, <1>17
    <3> QED
      BY <3>2, <2>9, <1>6, <1>10
  <2>10. CASE d = 0
    BY <2>10
  <2>11. CASE \E last \in F : d = last + Size[b[last][1]] - 1
    <3>1. PICK last \in F : d = last + Size[b[last][1]] - 1
      BY <2>11
    <3>2. PICK m : m = b[last][1]
      OBVIOUS
    <3>3. m \in 1..sent /\ Size[m] \in Nat \ {0} /\ last \in 1..l
      BY <3>2, <1>14, <1>11
    <3>4. s[d] = <<m, Size[m]>>
      BY <3>1, <3>2, <3>3, <1>14, Size[m] \in 1..Size[m]
    <3>5. m < n
      <4>1. q > d /\ s[q][1] # 0
        BY <1>6, <1>17
      <4> QED
        BY <4>1, <3>2, <1>16, <1>17
    <3>6. ASSUME i <= d
          PROVE  FALSE
      <4>1. PICK g : g = d - i + 1
        OBVIOUS
      <4>2. g \in 1..Size[n] /\ i + g - 1 = d
        <5>1. PICK c : c = Size[n]
          OBVIOUS
        <5>2. c \in Nat /\ q <= i + c - 1 /\ i \in Nat /\ q \in Nat /\ d < q /\ i <= d /\ d \in Nat
          BY <5>1, <3>6, <2>1, <2>8, <1>6, <1>17
        <5>3. g \in 1..c /\ i + g - 1 = d
          BY <5>2, <4>1
        <5> QED
          BY <5>1, <5>3
      <4>3. s[d] = <<n, g>>
        BY <4>2, <2>2
      <4> QED
        BY <4>3, <3>4, <3>5, <3>3
    <3> QED
      BY <3>6, <1>6
  <2> QED
    <3>1. d = z - KeptBytes \/ d = 0 \/ \E last \in F : d = last + Size[b[last][1]] - 1
      BY <1>2, <1>3 DEF CutAt
    <3> QED
      BY <3>1, <2>9, <2>10, <2>11
\* What has been received.
<1>18. PICK u : u = ParseResponse(b)
  OBVIOUS
<1>19. PICK m, at : ParsedAt(b, u, m, at)
  BY <1>5, <1>18, ParsedIs
<1>20. /\ m \in Nat /\ at \in [1..m -> F]
       /\ u = [j \in 1..m |-> u[j]] /\ \A j \in 1..m : u[j] = b[at[j]][1]
       /\ \A i, j \in 1..m : i < j => at[i] < at[j]
       /\ \A x \in F : \E j \in 1..m : at[j] = x
  BY <1>3, <1>19 DEF ParsedAt
<1>21. \A j \in 1..m : at[j] \in F /\ u[j] = b[at[j]][1] /\ u[j] \in 1..sent
  BY <1>20, <1>14
<1>22. u \in Seq(1..sent) /\ Len(u) = m /\ DOMAIN u = 1..m
  <2>1. m \in Nat /\ u \in [1..m -> 1..sent]
    BY <1>20, <1>21
  <2> QED
    BY <2>1, FunctionIsSeq
<1>23. \A i, j \in 1..m : i < j => u[i] < u[j]
  BY <1>20, <1>21, <1>15
<1>24. PICK v, g : v = received' /\ g = Len(received)
  OBVIOUS
<1>25. /\ g \in Nat /\ m \in Nat /\ DOMAIN received = 1..g
       /\ \A j \in 1..g : received[j] \in 1..sent
  BY <1>10, <1>20, <1>24, LenProperties, ElementOfSeq
<1>26. /\ v \in Seq(1..sent) /\ Len(v) = g + m
       /\ \A j \in 1..(g + m) : v[j] = IF j <= g THEN received[j] ELSE u[j - g]
  <2>1. v = received \o u
    BY <1>9, <1>18, <1>24
  <2> QED
    <3>1. received \in Seq(1..sent) /\ u \in Seq(1..sent)
      BY <1>10, <1>22
    <3>2. /\ v \in Seq(1..sent) /\ Len(v) = Len(received) + Len(u)
          /\ \A j \in 1..(Len(received) + Len(u)) : v[j] = IF j <= Len(received) THEN received[j] ELSE u[j - Len(received)]
      BY <2>1, <3>1, ConcatProperties
    <3>3. Len(received) = g /\ Len(u) = m
      BY <1>22, <1>24
    <3> QED
      BY <3>2, <3>3
<1>27. DOMAIN v = 1..(g + m)
  BY <1>26, LenProperties
<1>28. \A j \in 1..(g + m) : (j \in 1..g /\ v[j] = received[j]) \/ (j - g \in 1..m /\ v[j] = u[j - g])
  <2> SUFFICES ASSUME NEW j \in 1..(g + m)
               PROVE  (j \in 1..g /\ v[j] = received[j]) \/ (j - g \in 1..m /\ v[j] = u[j - g])
    OBVIOUS
  <2>1. CASE j <= g
    BY <2>1, <1>25, <1>26
  <2>2. CASE ~(j <= g)
    <3>1. j - g \in 1..m
      BY <2>2, <1>25
    <3> QED
      BY <2>2, <3>1, <1>26
  <2> QED
    BY <2>1, <2>2
<1>29. \A j \in 1..g : j \in 1..(g + m) /\ v[j] = received[j]
  BY <1>25, <1>26
<1>30. \A j \in 1..m : g + j \in 1..(g + m) /\ v[g + j] = u[j]
  <2> SUFFICES ASSUME NEW j \in 1..m
               PROVE  g + j \in 1..(g + m) /\ v[g + j] = u[j]
    OBVIOUS
  <2>1. g + j \in 1..(g + m) /\ ~(g + j <= g) /\ (g + j) - g = j
    BY <1>25
  <2> QED
    BY <2>1, <1>26
<1>31. \A p \in 1..l, j \in 1..g : s[p][1] # 0 => received[j] < s[p][1]
  BY <1>1, <1>3, <1>6, <1>25 DEF ReceivedIsGone
\* The parts of the invariant.
<1>32. LineTypeOK'
  <2>1. line' \in Seq(Byte) /\ buffer' \in Seq(Byte) /\ Len(buffer') <= MaxBuffer
    BY <1>3, <1>4, <1>5
  <2>2. noises' \in 0..MaxNoise /\ sent' \in 0..Len(Size) /\ whole' \subseteq 1..sent' /\ received' \in Seq(1..sent')
    BY <1>9, <1>10, <1>24, <1>26
  <2> QED
    BY <2>1, <2>2 DEF LineTypeOK, Byte
<1>33. BytesOfReplies(Stream)'
  <2> SUFFICES ASSUME NEW i \in 1..(l - d), t[i][1] # 0
               PROVE  t[i][1] <= sent /\ t[i][2] \in 1..Size[t[i][1]]
    BY <1>3, <1>7, <1>9 DEF BytesOfReplies
  <2>1. d + i \in 1..l /\ t[i] = s[d + i]
    BY <1>8
  <2>2. s[d + i][1] \in 1..sent /\ s[d + i][2] \in 1..Size[s[d + i][1]]
    BY <2>1, <1>12
  <2> QED
    BY <2>1, <2>2
<1>34. InTurn(t)
  <2> SUFFICES ASSUME NEW i \in 1..(l - d), NEW j \in 1..(l - d), i < j, t[i][1] # 0, t[j][1] # 0
               PROVE  Before(t[i], t[j])
    BY <1>7 DEF InTurn
  <2>1. d + i < d + j
    BY <1>6
  <2> QED
    BY <2>1, <1>8, <1>13
<1>35. ReceivedIsGone'
  <2> SUFFICES ASSUME NEW i \in 1..(l - d), NEW j \in 1..(g + m), t[i][1] # 0
               PROVE  v[j] < t[i][1]
    BY <1>3, <1>7, <1>24, <1>27 DEF ReceivedIsGone
  <2>1. PICK p : p = d + i
    OBVIOUS
  <2>2. p \in 1..l /\ p > d /\ t[i] = s[p]
    BY <2>1, <1>8, <1>6
  <2>3. CASE j \in 1..g /\ v[j] = received[j]
    BY <2>2, <2>3, <1>31
  <2>4. CASE j - g \in 1..m /\ v[j] = u[j - g]
    BY <2>2, <2>4, <1>21, <1>16
  <2> QED
    BY <2>3, <2>4, <1>28
<1>36. WholeStands'
  <2> SUFFICES ASSUME NEW n \in whole, NEW p \in DOMAIN r, r[p][1] = n
               PROVE  \E i \in 1..(l - d) : Stands(t, n, i)
    BY <1>3, <1>7, <1>9 DEF WholeStands
  <2>1. n \in 1..sent /\ Size[n] \in Nat \ {0}
    BY <1>10, <1>11
  <2>2. PICK i \in 1..l : Stands(s, n, i)
    BY <1>1, <1>3, <1>4, <1>6 DEF WholeStands
  <2>3. z + p \in 1..l /\ z + p > z /\ s[z + p][1] = n
    <3>1. p \in 1..(l - z)
      BY <1>4
    <3>2. z + p \in 1..l /\ r[p] = s[z + p]
      BY <3>1, <1>4
    <3> QED
      BY <3>1, <3>2, <1>6
  <2>4. i > d
    BY <2>1, <2>2, <2>3, <1>17
  <2>5. i + Size[n] - 1 <= l /\ \A h \in 1..Size[n] : s[i + h - 1] = <<n, h>>
    BY <2>2, <1>3 DEF Stands
  <2>6. PICK j : j = i - d
    OBVIOUS
  <2>7. j \in 1..(l - d) /\ j + Size[n] - 1 <= l - d
    BY <2>4, <2>5, <2>6, <2>1, <1>6
  <2>8. ASSUME NEW h \in 1..Size[n]
        PROVE  t[j + h - 1] = <<n, h>>
    <3>1. j + h - 1 \in 1..(l - d) /\ d + (j + h - 1) = i + h - 1
      BY <2>6, <2>7, <2>1, <1>6
    <3> QED
      BY <3>1, <2>5, <1>8
  <2>9. Stands(t, n, j)
    BY <2>7, <2>8, <1>5, <1>7 DEF Stands
  <2> QED
    BY <2>7, <2>9
<1>37. OthersMissAByte'
  <2> SUFFICES ASSUME NEW n \in (1..sent) \ whole
               PROVE  \E h \in 1..Size[n] : \A i \in 1..(l - d) : t[i] # <<n, h>>
    BY <1>3, <1>7, <1>9 DEF OthersMissAByte
  <2>1. PICK h \in 1..Size[n] : \A i \in 1..l : s[i] # <<n, h>>
    BY <1>1, <1>3, <1>6 DEF OthersMissAByte
  <2> QED
    BY <2>1, <1>8
<1>38. Range(v) = {n \in whole : \A p \in DOMAIN r : r[p][1] # n}
  <2>1. Range(received) = {n \in whole : \A p \in DOMAIN line : line[p][1] # n}
    BY <1>1 DEF RepliesGetThrough
  <2>2. ASSUME NEW j \in 1..(g + m)
        PROVE  v[j] \in whole /\ \A p \in DOMAIN r : r[p][1] # v[j]
    <3>1. CASE j \in 1..g /\ v[j] = received[j]
      <4>1. received[j] \in Range(received)
        BY <3>1, <1>25 DEF Range
      <4> QED
        <5>1. v[j] \in whole /\ \A p \in DOMAIN line : line[p][1] # v[j]
          BY <4>1, <3>1, <2>1
        <5>2. ASSUME NEW p \in DOMAIN r
              PROVE  r[p][1] # v[j]
          <6>1. PICK q \in DOMAIN line : line[q] = r[p]
            BY <1>4
          <6> QED
            BY <6>1, <5>1
        <5> QED
          BY <5>1, <5>2
    <3>2. CASE j - g \in 1..m /\ v[j] = u[j - g]
      <4>1. PICK i \in F : v[j] = b[i][1]
        BY <3>2, <1>21
      <4>2. PICK n : n = b[i][1]
        OBVIOUS
      <4>3. n \in 1..sent /\ \A h \in 1..Size[n] : s[i + h - 1] = <<n, h>> /\ i + h - 1 \in 1..l
        BY <4>2, <1>14
      <4>4. n \in whole
        <5>1. ASSUME n \notin whole
              PROVE  FALSE
          <6>1. PICK h \in 1..Size[n] : \A p \in 1..l : s[p] # <<n, h>>
            BY <5>1, <4>3, <1>1, <1>3, <1>6 DEF OthersMissAByte
          <6> QED
            BY <6>1, <4>3
        <5> QED
          BY <5>1
      <4>5. ASSUME NEW p \in DOMAIN r, r[p][1] = n
            PROVE  FALSE
        <5>1. z + p \in 1..l /\ z + p > d /\ s[z + p][1] = n
          <6>1. p \in 1..(l - z)
            BY <1>4
          <6>2. z + p \in 1..l /\ r[p] = s[z + p]
            BY <6>1, <1>4
          <6> QED
            BY <6>1, <6>2, <4>5, <1>6
        <5>2. n < s[z + p][1]
          BY <5>1, <4>2, <4>3, <1>16
        <5> QED
          BY <5>1, <5>2, <4>3
      <4> QED
        BY <4>1, <4>2, <4>4, <4>5
    <3> QED
      BY <3>1, <3>2, <1>28
  <2>3. ASSUME NEW n \in whole, \A p \in DOMAIN r : r[p][1] # n
        PROVE  \E j \in 1..(g + m) : v[j] = n
    <3>1. CASE \A p \in DOMAIN line : line[p][1] # n
      <4>1. n \in Range(received)
        BY <3>1, <2>1
      <4>2. PICK j \in 1..g : received[j] = n
        BY <4>1, <1>25 DEF Range
      <4> QED
        BY <4>2, <1>29
    <3>2. CASE \E p \in DOMAIN line : line[p][1] = n
      <4>1. PICK i \in 1..l : Stands(s, n, i)
        BY <3>2, <1>1, <1>3, <1>6 DEF WholeStands
      <4>2. n \in 1..sent /\ Size[n] \in Nat \ {0}
        BY <1>10, <1>11
      <4>3. i + Size[n] - 1 <= l /\ \A h \in 1..Size[n] : s[i + h - 1] = <<n, h>>
        BY <4>1, <1>3 DEF Stands
      <4>4. i + Size[n] - 1 <= z
        <5>1. ASSUME ~(i + Size[n] - 1 <= z)
              PROVE  FALSE
          <6>1. PICK c, p : c = Size[n] /\ p = (i + c - 1) - z
            OBVIOUS
          <6>2. c \in Nat \ {0} /\ i + c - 1 <= l /\ ~(i + c - 1 <= z) /\ i \in Nat
            BY <6>1, <5>1, <4>2, <4>3
          <6>3. p \in 1..(l - z) /\ z + p = i + c - 1 /\ c \in 1..c
            <7>1. l \in Nat /\ z \in Nat /\ z <= l
              BY <1>6
            <7>2. i + c - 1 \in Int /\ c \in 1..c
              BY <6>2
            <7>3. PICK e : e = i + c - 1
              OBVIOUS
            <7>4. p = e - z /\ e \in Int /\ e <= l /\ ~(e <= z)
              BY <6>1, <6>2, <7>2, <7>3
            <7>5. p \in 1..(l - z) /\ z + p = e
              BY <7>1, <7>4
            <7> QED
              BY <7>2, <7>3, <7>5
          <6>4. s[i + c - 1] = <<n, c>>
            BY <6>1, <6>3, <4>3
          <6>5. r[p] = <<n, c>> /\ p \in DOMAIN r
            BY <6>3, <6>4, <1>4
          <6> QED
            BY <6>5, <2>3
        <5> QED
          BY <5>1
      <4>5. \A h \in 1..Size[n] : i + h - 1 \in 1..z
        BY <4>2, <4>4, <1>6
      <4>6. \A h \in 1..Size[n] : b[i + h - 1] = <<n, h>>
        BY <4>3, <4>5, <1>4
      <4>7. i \in 1..z /\ b[i] = <<n, 1>>
        <5>1. 1 \in 1..Size[n] /\ i + 1 - 1 = i
          BY <4>2
        <5>2. b[i + 1 - 1] = <<n, 1>> /\ i + 1 - 1 \in 1..z
          BY <5>1, <4>5, <4>6
        <5> QED
          BY <5>1, <5>2
      <4>8. b[i][1] = n /\ n # 0
        BY <4>7, <4>2
      <4>9. DOMAIN b = 1..z
        BY <1>3, <1>5, LenProperties
      <4>10. Stands(b, n, i)
        BY <4>4, <4>6, <4>7, <4>9, <1>3 DEF Stands
      <4>11. i \in F
        BY <4>7, <4>8, <4>10, <1>3, <1>5, FramesAre
      <4>12. PICK j \in 1..m : at[j] = i
        BY <4>11, <1>20
      <4>13. u[j] = n
        BY <4>12, <4>8, <1>21
      <4> QED
        BY <4>13, <1>30
    <3> QED
      BY <3>1, <3>2
  <2>4. Range(v) = {v[j] : j \in 1..(g + m)}
    BY <1>27 DEF Range
  <2>5. Range(v) \subseteq {n \in whole : \A p \in DOMAIN r : r[p][1] # n}
    BY <2>2, <2>4
  <2>6. {n \in whole : \A p \in DOMAIN r : r[p][1] # n} \subseteq Range(v)
    BY <2>3, <2>4
  <2> QED
    BY <2>5, <2>6
<1>39. ASSUME NEW i \in 1..(g + m), NEW j \in 1..(g + m), i < j
       PROVE  v[i] < v[j]
  <2>1. CASE i \in 1..g /\ j \in 1..g
    <3>1. received[i] < received[j]
      BY <2>1, <1>1, <1>25, <1>39 DEF RepliesGetThrough
    <3> QED
      BY <3>1, <2>1, <1>29
  <2>2. CASE i \in 1..g /\ j \notin 1..g
    <3>1. j - g \in 1..m /\ v[j] = u[j - g]
      BY <2>2, <1>28
    <3>2. PICK f \in F : v[j] = b[f][1]
      BY <3>1, <1>21
    <3>3. f \in 1..l /\ s[f] = b[f] /\ b[f][1] # 0
      <4>1. f \in 1..z /\ f \in 1..l /\ b[f][1] \in 1..sent
        BY <1>14
      <4> QED
        BY <4>1, <1>4
    <3>4. received[i] < s[f][1]
      BY <3>3, <2>2, <1>31
    <3> QED
      BY <3>2, <3>3, <3>4, <2>2, <1>29
  <2>3. CASE i \notin 1..g
    <3>1. j \notin 1..g
      BY <2>3, <1>25, <1>39
    <3>2. i - g \in 1..m /\ v[i] = u[i - g] /\ j - g \in 1..m /\ v[j] = u[j - g]
      BY <2>3, <3>1, <1>28
    <3>3. i - g < j - g
      BY <1>25, <1>39
    <3> QED
      BY <3>2, <3>3, <1>23
  <2> QED
    BY <2>1, <2>2, <2>3
<1>40. RepliesGetThrough'
  BY <1>3, <1>9, <1>24, <1>27, <1>38, <1>39 DEF RepliesGetThrough
<1> QED
  BY <1>3, <1>32, <1>33, <1>34, <1>35, <1>36, <1>37, <1>40 DEF LineInv

LEMMA ReopenPreserves ==
  ASSUME LineInv, Reopen
  PROVE  LineInv'
<1>1. /\ LineTypeOK /\ BytesOfReplies(Stream) /\ InTurn(Stream) /\ ReceivedIsGone
      /\ WholeStands /\ OthersMissAByte /\ RepliesGetThrough
  BY DEF LineInv
<1>2. /\ line' = <<>> /\ buffer' = <<>> /\ whole' = {n \in whole : ~Under(n)}
      /\ noises' = noises /\ sent' = sent /\ received' = received
  BY DEF Reopen
<1>3. /\ sent \in Nat /\ Len(Size) \in Nat /\ sent <= Len(Size) /\ MaxBuffer \in Nat
      /\ noises \in 0..MaxNoise /\ whole \subseteq 1..sent /\ received \in Seq(1..sent)
  BY <1>1, SizeAssumption, BufferAssumption DEF LineTypeOK
<1>4. Stream' = <<>> /\ DOMAIN Stream' = {}
  BY <1>2 DEF Stream
<1>5. /\ Len(buffer) \in Nat /\ DOMAIN Stream = 1..Len(Stream) /\ DOMAIN line = 1..Len(line)
      /\ \A i \in 1..Len(line) : Len(buffer) + i \in 1..Len(Stream) /\ Stream[Len(buffer) + i] = line[i]
      /\ \A i \in 1..Len(buffer) : i \in 1..Len(Stream) /\ Stream[i] = buffer[i]
      /\ DOMAIN buffer = 1..Len(buffer)
  BY <1>1, StreamIs, LenProperties
<1>6. ASSUME NEW n \in whole
      PROVE  ~Under(n) <=> \A i \in DOMAIN line : line[i][1] # n
  <2>1. n \in 1..sent
    BY <1>3
  <2>2. ASSUME NEW i \in DOMAIN line, line[i][1] = n
        PROVE  Under(n)
    <3>1. PICK p : p = Len(buffer) + i
      OBVIOUS
    <3>2. p \in DOMAIN Stream /\ Stream[p] = line[i]
      BY <3>1, <1>5
    <3>3. Stream[p] \in Byte
      BY <3>2, <1>1, <1>5, StreamIs, ElementOfSeq
    <3>4. line[i][2] \in 1..Size[n]
      BY <3>2, <2>1, <2>2, <1>1 DEF BytesOfReplies
    <3>5. line[i] = <<n, line[i][2]>>
      BY <3>2, <3>3, <2>2 DEF Byte
    <3>6. line[i] \in Range(line)
      BY DEF Range
    <3> QED
      BY <3>4, <3>5, <3>6 DEF Under
  <2>3. ASSUME Under(n), \A i \in DOMAIN line : line[i][1] # n
        PROVE  FALSE
    <3>1. n \in Range(received)
      BY <2>3, <1>1 DEF RepliesGetThrough
    <3>2. PICK j \in DOMAIN received : received[j] = n
      BY <3>1 DEF Range
    <3>3. PICK k \in 1..Size[n] : <<n, k>> \in Range(line) \cup Range(buffer)
      BY <2>3 DEF Under
    <3>4. \E p \in DOMAIN Stream : Stream[p] = <<n, k>>
      BY <3>3, <1>5 DEF Range
    <3>5. PICK p \in DOMAIN Stream : Stream[p] = <<n, k>>
      BY <3>4
    <3>6. Stream[p][1] = n /\ n # 0
      BY <3>5, <2>1
    <3>7. received[j] < n
      BY <3>6, <1>1 DEF ReceivedIsGone
    <3> QED
      BY <3>7, <3>2, <2>1
  <2> QED
    BY <2>2, <2>3
<1>7. LineTypeOK'
  <2>1. Len(buffer') = 0
    BY <1>2
  <2> QED
    <3>1. <<>> \in Seq(Byte)
      OBVIOUS
    <3>2. {line', buffer'} \subseteq Seq((0..Len(Size)) \X Nat) /\ Len(buffer') <= MaxBuffer
      BY <3>1, <2>1, <1>2, <1>3 DEF Byte
    <3>3. whole' \subseteq 1..sent
      BY <1>2, <1>3
    <3>4. noises' \in 0..MaxNoise /\ sent' \in 0..Len(Size) /\ whole' \subseteq 1..sent' /\ received' \in Seq(1..sent')
      BY <3>3, <1>2, <1>3
    <3> QED
      BY <3>2, <3>4 DEF LineTypeOK
<1>8. BytesOfReplies(Stream)' /\ InTurn(Stream') /\ ReceivedIsGone'
  BY <1>4 DEF BytesOfReplies, InTurn, ReceivedIsGone
<1>9. WholeStands'
  BY <1>2 DEF WholeStands
<1>10. OthersMissAByte'
  <2> SUFFICES ASSUME NEW n \in 1..sent
               PROVE  \E k \in 1..Size[n] : TRUE
    BY <1>2, <1>4 DEF OthersMissAByte
  <2>1. 1 \in 1..Size[n]
    BY <1>3, SizeIsNat, n \in 1..Len(Size)
  <2> QED
    BY <2>1
<1>11. RepliesGetThrough'
  <2>1. DOMAIN line' = {}
    BY <1>2
  <2>2. {n \in whole' : \A i \in DOMAIN line' : line'[i][1] # n} = {n \in whole : \A i \in DOMAIN line : line[i][1] # n}
    BY <2>1, <1>2, <1>6
  <2> QED
    BY <2>2, <1>1, <1>2 DEF RepliesGetThrough
<1> QED
  BY <1>7, <1>8, <1>9, <1>10, <1>11 DEF LineInv

\* A reply that was not disturbed is received with its last byte, once, in its turn
\* and with no other, however the line is cut into reads and whatever noise is on it:
\* _receive_loop() and _parse_response().
THEOREM SpecRepliesGetThrough == LineSpec => []RepliesGetThrough
<1>1. LineInit => LineInv
  <2> SUFFICES ASSUME LineInit
               PROVE  LineInv
    OBVIOUS
  <2>1. /\ line = <<>> /\ buffer = <<>> /\ noises = 0 /\ sent = 0 /\ whole = {} /\ received = <<>>
    BY DEF LineInit
  <2>2. Stream = <<>> /\ DOMAIN Stream = {} /\ Len(buffer) = 0 /\ DOMAIN line = {} /\ DOMAIN received = {}
    BY <2>1 DEF Stream
  <2>3. Len(Size) \in Nat /\ MaxNoise \in Nat /\ MaxBuffer \in Nat
    BY SizeAssumption, BufferAssumption
  <2>4. LineTypeOK
    BY <2>1, <2>2, <2>3 DEF LineTypeOK
  <2>5. BytesOfReplies(Stream) /\ InTurn(Stream) /\ ReceivedIsGone
    BY <2>2 DEF BytesOfReplies, InTurn, ReceivedIsGone
  <2>6. WholeStands /\ OthersMissAByte
    BY <2>1 DEF WholeStands, OthersMissAByte
  <2>7. RepliesGetThrough
    BY <2>1, <2>2 DEF RepliesGetThrough, Range
  <2> QED
    BY <2>4, <2>5, <2>6, <2>7 DEF LineInv
<1>2. LineInv /\ [LineNext]_lineVars => LineInv'
  <2> SUFFICES ASSUME LineInv, [LineNext]_lineVars
               PROVE  LineInv'
    OBVIOUS
  <2>1. CASE Replies \/ RepliesBadly \/ Rustles
    BY <2>1, ArrivalsPreserve
  <2>2. CASE \E k \in DOMAIN line : Read(k)
    BY <2>2, ReadPreserves
  <2>3. CASE Reopen
    BY <2>3, ReopenPreserves
  <2>4. CASE UNCHANGED lineVars
    <3>1. /\ line' = line /\ buffer' = buffer /\ noises' = noises
          /\ sent' = sent /\ whole' = whole /\ received' = received
      BY <2>4 DEF lineVars
    <3>2. Stream' = Stream
      BY <3>1 DEF Stream
    <3> QED
      BY <3>1, <3>2 DEF LineInv, LineTypeOK, BytesOfReplies, ReceivedIsGone, WholeStands, OthersMissAByte,
                        RepliesGetThrough
  <2> QED
    BY <2>1, <2>2, <2>3, <2>4 DEF LineNext
<1>3. LineInv => RepliesGetThrough
  BY DEF LineInv
<1> QED
  BY <1>1, <1>2, <1>3, PTL DEF LineSpec
-----------------------------------------------------------------------------
(***************************************************************************)
(* MainProcess.  Its steps are steps of one part, and stutters of the      *)
(* others: what is proved of each part holds in the process.               *)
(***************************************************************************)
LEMMA ProcessStep ==
  ASSUME [Next]_apiVars
  PROVE  /\ [TerminalNext]_terminalVars /\ [ConfigNext]_configVars
         /\ [WiringNext]_wiringVars /\ [LineNext]_lineVars
<1>1. CASE UNCHANGED apiVars
  BY <1>1 DEF apiVars
<1>2. CASE Next
  BY <1>2 DEF Next
<1> QED
  BY <1>1, <1>2

\* src/main.py starts its parts side by side: a behaviour of the process is, for
\* each of them, one that its own module specifies, and the shells are served as
\* fairly.
THEOREM ProcessIsItsParts ==
  Spec => TerminalSpec /\ ConfigSpec /\ WiringSpec /\ LineSpec
<1>1. Init => TerminalInit /\ ConfigInit /\ WiringInit /\ LineInit
  BY DEF Init
<1>2. [Next]_apiVars => /\ [TerminalNext]_terminalVars /\ [ConfigNext]_configVars
                        /\ [WiringNext]_wiringVars /\ [LineNext]_lineVars
  BY ProcessStep
<1> QED
  BY <1>1, <1>2, PTL DEF Spec, TerminalSpec, ConfigSpec, WiringSpec, LineSpec
=============================================================================
