------------------------------ MODULE Terminal ------------------------------
(***************************************************************************)
(* The shells of the web terminal (src/api/terminal.py): each runs on a    *)
(* pseudo terminal for one connection, a local one or the uplink, and ends *)
(* when it exits, when it is stopped, when its connection is gone or when  *)
(* nothing happened on it for long.                                        *)
(*                                                                         *)
(* Everything runs on one event loop; a step ends where the code awaits.   *)
(* The tasks are those of the connections (one request of each at a time), *)
(* the watchdog, and per session its drain task, its exit task and the     *)
(* stop task of a failed push.  Why a session ends, and shutdown(), are    *)
(* left out.                                                               *)
(***************************************************************************)
EXTENDS Naturals, FiniteSets

CONSTANTS Local,          \* local connections, each made once (bound)
          Remote,         \* REMOTE_SENDER, whoever is behind the uplink
          MaxSessions,    \* MAX_SESSIONS
          Session,        \* bound: session objects at a time, reused when forgotten
          TerminalFaults  \* what else goes wrong, see KillWorks and Cancel

Client == Local \cup {Remote}
Watchdog == "watchdog"
Actor == Client \cup {Watchdog} \cup Session
Nobody == "nobody"
ExitTask == "exit"
NoSession == "none"

ASSUME MaxSessionsAssumption == MaxSessions \in Nat
ASSUME ClientAssumption == Nobody \notin Client
ASSUME SessionAssumption == IsFiniteSet(Session) /\ NoSession \notin Session

VARIABLES
  link,      \* which connections are up
  task,      \* the tasks: pc, the session whose stop() one is in, those to visit
  lock,      \* who holds TerminalManager._lock
  sessions,  \* _sessions
  session    \* the TerminalSession objects and their processes

terminalVars == <<link, task, lock, sessions, session>>

(***************************************************************************)
(* stage is how far _finish() is (alive: _finished is False), by whom;     *)
(* out: output not yet sent; sending: the drain task is in a push; idle:   *)
(* IDLE_TIMEOUT_SECONDS are over; told: the last the client was sent.      *)
(***************************************************************************)
NewSession(c) ==
  [owner |-> c, shell |-> "running", stage |-> "alive", finisher |-> Nobody,
   out |-> FALSE, sending |-> FALSE, idle |-> FALSE, told |-> "output"]
Forgotten ==
  [owner |-> Nobody, shell |-> "none", stage |-> "over", finisher |-> Nobody,
   out |-> FALSE, sending |-> FALSE, idle |-> FALSE, told |-> "output"]
Idle == [pc |-> "idle", at |-> NoSession, todo |-> {}]

TerminalInit ==
  /\ link = [c \in Client |-> TRUE]
  /\ task = [a \in Actor |-> Idle]
  /\ lock = Nobody
  /\ sessions = {}
  /\ session = [s \in Session |-> Forgotten]

Fresh == CHOOSE s \in Session : session[s] = Forgotten  \* any unused object
Alive(s) == session[s].stage = "alive"
Free(a) == task[a] = Idle
Becomes(s, x) == session' = [session EXCEPT ![s] = x]
Goes(a, pc) == task' = [task EXCEPT ![a].pc = pc]

-----------------------------------------------------------------------------
(* start_session() *)

\* Faulty variant (mutation runs): the limit is only looked at before the lock.
NoSecondLook == TRUE
BelowLimit == Cardinality(sessions) < MaxSessions

\* A request, refused at the limit, that has to wait for the lock.
Ask(c) ==
  /\ Free(c) /\ link[c] /\ lock # Nobody
  /\ Cardinality(sessions) < MaxSessions
  /\ Goes(c, "starting")
  /\ UNCHANGED <<link, lock, sessions, session>>

\* The lock is taken, at once or after waiting; the limit is looked at again, then
\* the process is made.
Enter(c) ==
  /\ lock = Nobody
  /\ \/ task[c].pc = "starting"
     \/ Free(c) /\ link[c] /\ Cardinality(sessions) < MaxSessions
  /\ IF BelowLimit THEN lock' = c /\ Goes(c, "spawning")
     ELSE lock' = lock /\ Goes(c, "idle")
  /\ UNCHANGED <<link, sessions, session>>

\* Faulty variant (mutation runs): the watchdog is made once, never again.
NoNewWatchdog == [task[Watchdog] EXCEPT !.pc = IF @ = "idle" THEN "asleep" ELSE @]
\* _ensure_watchdog(): the first one, or another after the last has ended.
EnsureWatchdog == [task[Watchdog] EXCEPT !.pc = IF @ \in {"idle", "closed"} THEN "asleep" ELSE @]

\* The process runs: the session is registered under the lock and its tasks start.
Register(c, s) ==
  /\ task[c].pc = "spawning"
  /\ session[s] = Forgotten /\ s = Fresh
  /\ Becomes(s, NewSession(c))
  /\ sessions' = sessions \cup {s}
  /\ task' = [task EXCEPT ![c] = Idle, ![Watchdog] = EnsureWatchdog]
  /\ lock' = Nobody
  /\ UNCHANGED link

SpawnFails(c) ==
  /\ task[c].pc = "spawning"
  /\ Goes(c, "idle") /\ lock' = Nobody
  /\ UNCHANGED <<link, sessions, session>>

-----------------------------------------------------------------------------
(* What the shell and the user do *)

\* Input of the session's owner, as _require() sees to; it counts as activity.
Input(c, s) ==
  /\ Free(c) /\ link[c]
  /\ s \in sessions /\ session[s].owner = c /\ Alive(s)
  /\ Becomes(s, [session[s] EXCEPT !.idle = FALSE])
  /\ UNCHANGED <<link, task, lock, sessions>>

\* The shell writes; after too much of it the oldest is dropped.
Output(s) ==
  /\ session[s].shell = "running" /\ Alive(s)
  /\ Becomes(s, [session[s] EXCEPT !.out = TRUE])
  /\ UNCHANGED <<link, task, lock, sessions>>

ShellExits(s) ==
  /\ session[s].shell = "running"
  /\ Becomes(s, [session[s] EXCEPT !.shell = "dead"])
  /\ UNCHANGED <<link, task, lock, sessions>>

GrowsIdle(s) ==
  /\ Alive(s)
  /\ Becomes(s, [session[s] EXCEPT !.idle = TRUE])
  /\ UNCHANGED <<link, task, lock, sessions>>

\* A local connection ends for good; the uplink comes and goes.
LinkDrops(c) == /\ link[c]
                /\ link' = [link EXCEPT ![c] = FALSE]
                /\ UNCHANGED <<task, lock, sessions, session>>
UplinkReturns == /\ ~link[Remote]
                 /\ link' = [link EXCEPT ![Remote] = TRUE]
                 /\ UNCHANGED <<task, lock, sessions, session>>

-----------------------------------------------------------------------------
(* stop() and _finish() *)

\* _kill_process_group(); with the fault "immortal" it may be refused.
KillWorks(works) == works \/ "immortal" \in TerminalFaults
Killed(x, works) == IF works THEN [x EXCEPT !.shell = "dead"] ELSE x
\* Faulty variant (mutation runs): the drain task is left to run.
DrainRuns(x) == [x EXCEPT !.stage = "telling"]
DrainEnds(x) == [x EXCEPT !.stage = "telling", !.sending = FALSE]
Ending(x, f) == [x EXCEPT !.stage = "draining", !.finisher = f, !.idle = FALSE]

\* Task a calls stop(): it kills the shell and waits for the exit task, or sees to
\* the end itself where the kill is refused.
Stops(a, s, x, tasks) ==
  \E works \in BOOLEAN :
    /\ KillWorks(works)
    /\ Becomes(s, IF works THEN Killed(x, TRUE) ELSE Ending(x, a))
    /\ task' = [tasks EXCEPT ![a].at = s]

StopRequest(c, s) ==
  /\ Free(c) /\ link[c]
  /\ s \in sessions /\ session[s].owner = c /\ Alive(s)
  /\ Stops(c, s, session[s], task)
  /\ UNCHANGED <<link, lock, sessions>>

\* The exit task hears of the shell's end.  Whoever runs _finish() first marks the
\* session finished and cancels its drain and its stop task.
BeginsFinish(s, f) ==
  /\ Alive(s)
  /\ Becomes(s, Ending(session[s], f))
  /\ task' = IF f = s THEN task ELSE [task EXCEPT ![s] = Idle]
  /\ UNCHANGED <<link, lock, sessions>>
ExitNoticed(s) == session[s].shell = "dead" /\ BeginsFinish(s, ExitTask)

\* stop() waited for five seconds.
GiveUp(a) == /\ task[a].at \in Session
             /\ BeginsFinish(task[a].at, a)

\* stop() sees that the session is finished, its end may still be under way.
Stopped(a) ==
  /\ task[a].at \in Session
  /\ ~Alive(task[a].at) /\ session[task[a].at].finisher # a
  /\ task' = [task EXCEPT ![a].at = NoSession]
  /\ UNCHANGED <<link, lock, sessions, session>>

\* The drain task has ended; the process group is killed again.
Drained(s) ==
  /\ session[s].stage = "draining" /\ session[s].finisher # Nobody
  /\ \E works \in BOOLEAN : /\ KillWorks(works)
                            /\ Becomes(s, Killed(DrainEnds(session[s]), works))
  /\ UNCHANGED <<link, task, lock, sessions>>

\* terminal_exit is pushed, the terminal closed, the session unregistered.
Told(x, what) == IF link[x.owner] THEN [x EXCEPT !.told = what] ELSE x
Over(s) ==
  /\ session[s].stage = "telling" /\ session[s].finisher # Nobody
  /\ Becomes(s, [Told(session[s], "exit") EXCEPT !.stage = "over", !.finisher = Nobody,
                                                      !.out = FALSE])
  /\ sessions' = sessions \ {s}
  /\ task' = LET f == session[s].finisher
             IN  IF f = ExitTask THEN task ELSE [task EXCEPT ![f].at = NoSession]
  /\ UNCHANGED <<link, lock>>

-----------------------------------------------------------------------------
(* The drain task, the connections' ends and the watchdog *)

\* A chunk is taken; a push to a connection that is gone schedules the stop task.
Take(s) ==
  LET x == [session[s] EXCEPT !.out = FALSE, !.idle = FALSE] IN
  /\ Alive(s) /\ session[s].out /\ ~session[s].sending
  /\ IF link[session[s].owner]
     THEN Becomes(s, [x EXCEPT !.sending = TRUE]) /\ UNCHANGED task
     ELSE IF Free(s) THEN Stops(s, s, x, task) ELSE Becomes(s, x) /\ UNCHANGED task
  /\ UNCHANGED <<link, lock, sessions>>

Sent(s) ==
  /\ session[s].sending
  /\ Becomes(s, [Told(session[s], "output") EXCEPT !.sending = FALSE])
  /\ UNCHANGED <<link, task, lock, sessions>>

\* The endpoint of a local connection ends: on_connection_closed(), one by one.
Close(c) ==
  /\ c \in Local /\ ~link[c] /\ Free(c)
  /\ task' = [task EXCEPT ![c].pc = "closing", ![c].todo = {s \in sessions : session[s].owner = c}]
  /\ UNCHANGED <<link, lock, sessions, session>>

WatchdogWakes ==
  /\ task[Watchdog].pc = "asleep"
  /\ task' = [task EXCEPT ![Watchdog].pc = "closing", ![Watchdog].todo = sessions]
  /\ UNCHANGED <<link, lock, sessions, session>>

Wants(a, s) == Alive(s) /\ IF a = Watchdog THEN session[s].idle ELSE session[s].owner = a
Visit(a) ==
  /\ task[a].pc = "closing" /\ task[a].at = NoSession
  /\ \E s \in task[a].todo :
       Wants(a, s) /\ Stops(a, s, session[s], [task EXCEPT ![a].todo = @ \ {s}])
  /\ UNCHANGED <<link, lock, sessions>>
Visited(a) ==
  /\ task[a].pc = "closing" /\ task[a].at = NoSession
  /\ \A s \in task[a].todo : ~Wants(a, s)
  /\ task' = [task EXCEPT ![a].todo = {},
                          ![a].pc = IF a = Watchdog /\ sessions # {} THEN "asleep" ELSE "closed"]
  /\ UNCHANGED <<link, lock, sessions, session>>

\* The uplink is restarted while it handles a request: the request is cancelled,
\* with the fault "cancel" also where it is about to end a session.
Cancel ==
  LET mine == {s \in Session : session[s].finisher = Remote} IN
  /\ ~Free(Remote)
  /\ mine # {} => "cancel" \in TerminalFaults
  /\ task' = [task EXCEPT ![Remote] = Idle]
  /\ lock' = IF lock = Remote THEN Nobody ELSE lock
  /\ session' = [s \in Session |-> IF s \in mine THEN [session[s] EXCEPT !.finisher = Nobody]
                                   ELSE session[s]]
  /\ UNCHANGED <<link, sessions>>

\* Nothing refers to the object of a session that is over.
Forget(s) ==
  /\ session[s].stage = "over" /\ session[s] # Forgotten /\ ~session[s].sending
  /\ session[s].shell # "running"
  /\ \A a \in Actor : task[a].at # s /\ s \notin task[a].todo
  /\ Becomes(s, Forgotten)
  /\ UNCHANGED <<link, task, lock, sessions>>

-----------------------------------------------------------------------------
\* The steps of a connection's task, of the watchdog, and those of a session.
StopSteps(a) == GiveUp(a) \/ Stopped(a)
ClientTask(c) ==
  \/ Enter(c) \/ (\E s \in Session : Register(c, s)) \/ SpawnFails(c)
  \/ Close(c) \/ (c \in Local /\ (Visit(c) \/ Visited(c))) \/ StopSteps(c)
WatchdogTask == WatchdogWakes \/ Visit(Watchdog) \/ Visited(Watchdog) \/ StopSteps(Watchdog)
DrainTask(s) == Take(s) \/ Sent(s)
EndTasks(s) == ExitNoticed(s) \/ StopSteps(s)
Finish(s) == Drained(s) \/ Over(s)

TerminalNext ==
  \/ \E c \in Client :
       \/ Ask(c) \/ LinkDrops(c) \/ ClientTask(c)
       \/ \E s \in Session : Input(c, s) \/ StopRequest(c, s)
  \/ \E s \in Session :
       \/ Output(s) \/ ShellExits(s) \/ GrowsIdle(s)
       \/ DrainTask(s) \/ EndTasks(s) \/ Finish(s) \/ Forget(s)
  \/ WatchdogTask \/ UplinkReturns \/ Cancel

(***************************************************************************)
(* The event loop runs every task that can run, a process that was killed  *)
(* is reaped, and time passes where nobody is there to type.               *)
(***************************************************************************)
TerminalFairness ==
  /\ \A c \in Client : SF_terminalVars(~Free(c) /\ ClientTask(c)) /\ WF_terminalVars(Close(c))
  /\ \A s \in Session :
       /\ WF_terminalVars(DrainTask(s)) /\ WF_terminalVars(EndTasks(s) \/ Finish(s))
       /\ WF_terminalVars(GrowsIdle(s) /\ ~link[session[s].owner])
  /\ WF_terminalVars(WatchdogTask)

TerminalSpec == TerminalInit /\ [][TerminalNext]_terminalVars /\ TerminalFairness

-----------------------------------------------------------------------------
TaskStates ==
  [pc : {"idle", "starting", "spawning", "asleep", "closing", "closed"},
   at : Session \cup {NoSession}, todo : SUBSET Session]
SessionObjects ==
  [owner : Client \cup {Nobody}, shell : {"none", "running", "dead"},
   stage : {"alive", "draining", "telling", "over"},
   finisher : Actor \cup {Nobody, ExitTask}, out : BOOLEAN, sending : BOOLEAN,
   idle : BOOLEAN, told : {"output", "exit"}]

TerminalTypeOK ==
  /\ link \in [Client -> BOOLEAN]
  /\ task \in [Actor -> TaskStates]
  /\ lock \in Client \cup {Nobody}
  /\ sessions \subseteq Session
  /\ session \in [Session -> SessionObjects]

\* However starts, stops, exits and broken connections interleave, no more shells
\* run than MAX_SESSIONS, the one being made included: the device has the memory
\* for no more (terminal.py:38).
ShellsAreBounded ==
  Cardinality({s \in Session : session[s].shell = "running"}) + (IF lock = Nobody THEN 0 ELSE 1)
    <= MaxSessions

\* A client that was told that its session has ended is sent no output of it
\* afterwards, which would come to a terminal it has closed (terminal.py:272).
NothingAfterExit ==
  [][\A s \in Session : session[s].told = "exit" => session'[s].told = "exit" \/ session'[s] = Forgotten]_terminalVars

\* The sessions of a connection that stays gone all end: those of a local one when
\* its endpoint ends, those of the uplink, whose end nobody reports, by a push that
\* fails or by the watchdog.
ClosedMeansEnded ==
  \A c \in Client : <>[]~link[c] => <>[](\A s \in sessions : session[s].owner # c)

(***************************************************************************)
(* What does not hold (api_divergences.cfg)                                *)
(***************************************************************************)
\* A stop request that is answered has freed the session's place.
StoppedIsGone ==
  [][\A c \in Client, s \in Session :
       task[c].at = s /\ task'[c] = Idle => s \notin sessions']_terminalVars

\* What the shell wrote is sent before its exit is told.
LastOutputArrives ==
  [][\A s \in Session : session'[s].told = "exit" /\ session[s].told # "exit" => ~session[s].out]_terminalVars

\* The place of a shell that is dead comes back.
SlotComesBack ==
  \A s \in Session : s \in sessions /\ session[s].shell = "dead" ~> s \notin sessions
=============================================================================
