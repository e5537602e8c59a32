-------------------------- MODULE BroadcastManager --------------------------
(***************************************************************************)
(* The voice announcements: the broadcast manager thread of src/main.py,   *)
(* which goes round the zones that have something to announce, and the     *)
(* voice player of src/output/voice.py, whose own thread plays the files   *)
(* of a queue that the patrol mode fills and clears as well.               *)
(*                                                                         *)
(* The callbacks of the zones set and withdraw the announcements           *)
(* (FireSafetySystem says when); here they come at any time.               *)
(***************************************************************************)
EXTENDS Integers, Sequences, SequencesExt, FiniteSets

CONSTANTS Zone,        \* a set of numbers: a round goes through them in order
          Kind,        \* audio_type: warning, alarm, action, temp_alarm
          QueueBound   \* bound: beyond this length of the player's queue no zone is
                       \*   added and no demo plays

ASSUME ZoneAssumption == Zone \subseteq Nat /\ IsFiniteSet(Zone)
ASSUME BoundAssumption == QueueBound \in Nat

VARIABLES
  flag,        \* _broadcast_stop_flags: audio_type while active, or "off"
  patrol,      \* patrol_manager.is_active
  demo,        \* a background thread of the patrol mode is at work
  at,          \* the manager: "head", "zone", "speak", "wait", "gap"
  round,       \* the zones left to the current round, as the snapshot had them
  saying,      \* the zone and the audio_type it has read under the lock
  queue,       \* the voice player's _queue
  active,      \* its _active_task
  overtaken,   \* history: overtaken[y][z], announcements of z that y, with one
               \*   of its own to make, has waited through
  afterwards   \* history: announcements of a zone put since it was withdrawn

managerVars == <<at, round, saying, overtaken, afterwards>>
playerVars  == <<queue, active>>
broadcastVars == <<flag, patrol, demo, managerVars, playerVars>>

Off   == "off"
Demo  == 0                       \* in the place of a zone: a file of the patrol mode
Silence == [zone |-> Demo, kind |-> "none", stale |-> TRUE, cancelled |-> TRUE]

\* A PlaybackTask.  stale is history: stop_playback has been called since.
Task(z, kind) == [zone |-> z, kind |-> kind, stale |-> FALSE, cancelled |-> FALSE]

BroadcastInit ==
  /\ flag = [z \in Zone |-> Off]
  /\ patrol = FALSE /\ demo = FALSE
  /\ at = "head" /\ round = <<>>
  /\ saying = [zone |-> Demo, kind |-> "none"]
  /\ queue = <<>> /\ active = Silence
  /\ overtaken = [y \in Zone |-> [z \in Zone |-> 0]]
  /\ afterwards = [z \in Zone |-> 0]

-----------------------------------------------------------------------------
(***************************************************************************)
(* The voice player, each operation in its _state_lock.                    *)
(***************************************************************************)
\* play_file(): with priority, the files that wait are dropped.
Put(task, priority) ==
  queue' = (IF priority THEN <<>> ELSE queue) \o <<task>>

\* play_zone_audio(): the file of the zone and the kind of announcement.
PlayZoneAudio(z, kind) == Put(Task(z, kind), FALSE)

\* stop_playback()
StopPlayback ==
  /\ queue' = <<>>
  /\ active' = [active EXCEPT !.cancelled = TRUE, !.stale = TRUE]

\* _play_loop: taking a task and marking it active is one step.
PlayNext ==
  /\ active = Silence /\ queue # <<>>
  /\ active' = Head(queue) /\ queue' = Tail(queue)
  /\ UNCHANGED <<flag, patrol, demo, managerVars>>

\* The file ends, fails, is cancelled, or exceeds its deadline.
PlayEnds ==
  /\ active # Silence
  /\ active' = Silence
  /\ UNCHANGED <<flag, patrol, demo, managerVars, queue>>

IsBusy == active # Silence \/ queue # <<>>

-----------------------------------------------------------------------------
(***************************************************************************)
(* The broadcast manager thread.                                           *)
(***************************************************************************)
Wants(z) == flag[z] # Off

\* The zones of S by increasing id (SetToSortSeq, in a form that can be proved about).
Sorted(S) ==
  CHOOSE s \in [1..Cardinality(S) -> S] :
    \A m, n \in 1..Cardinality(S) : m < n => s[m] < s[n]

\* Faulty variant (mutation runs): the first zone of the snapshot is left out.
StartRoundSkipsFirst ==
  /\ at = "head" /\ ~patrol
  /\ \E z \in Zone : Wants(z)
  /\ round' = Tail(Sorted({z \in Zone : Wants(z)}))
  /\ at' = "zone"
  /\ UNCHANGED <<flag, patrol, demo, saying, overtaken, afterwards, playerVars>>

\* The snapshot of a round, sorted by zone id.  Patrol mode stops the manager
\* here, and only here.
StartRound ==
  /\ at = "head" /\ ~patrol
  /\ \E z \in Zone : Wants(z)
  /\ round' = Sorted({z \in Zone : Wants(z)})
  /\ at' = "zone"
  /\ UNCHANGED <<flag, patrol, demo, saying, overtaken, afterwards, playerVars>>

\* Under the lock: a zone withdrawn since is passed over, and the type read is
\* the one that stands now.
Recheck ==
  /\ at = "zone" /\ round # <<>>
  /\ LET z == Head(round) IN
       IF Wants(z) THEN /\ saying' = [zone |-> z, kind |-> flag[z]]
                        /\ at' = "speak"
                   ELSE UNCHANGED <<saying, at>>
  /\ round' = Tail(round)
  /\ UNCHANGED <<flag, patrol, demo, overtaken, afterwards, playerVars>>

EndRound ==
  /\ at = "zone" /\ round = <<>>
  /\ at' = "head"
  /\ UNCHANGED <<flag, patrol, demo, round, saying, overtaken, afterwards,
                 playerVars>>

\* speak_warning and the like, without the lock.  Every zone has its audio files (an
\* announcement without one is skipped by play_zone_audio).
Speak ==
  /\ at = "speak"
  /\ LET z == saying.zone IN
       /\ PlayZoneAudio(z, saying.kind)
       /\ overtaken' = [y \in Zone |->
            IF y = z \/ ~Wants(y) THEN [x \in Zone |-> 0]
            ELSE [overtaken[y] EXCEPT ![z] = @ + 1]]
       /\ afterwards' = IF Wants(z) THEN afterwards
                        ELSE [afterwards EXCEPT ![z] = @ + 1]
  /\ at' = "wait"
  /\ UNCHANGED <<flag, patrol, demo, round, saying, active>>

\* Until the player is idle or the zone is withdrawn.
WaitOver ==
  /\ at = "wait"
  /\ ~IsBusy \/ ~Wants(saying.zone)
  /\ at' = "gap"
  /\ UNCHANGED <<flag, patrol, demo, round, saying, overtaken, afterwards,
                 playerVars>>

\* Faulty variant (mutation runs): the announcement is repeated unchecked.
GapOverRepeats ==
  /\ at = "gap"
  /\ at' = "speak"
  /\ UNCHANGED <<flag, patrol, demo, round, saying, overtaken, afterwards,
                 playerVars>>

\* broadcast_interval, less the time the announcement took.
GapOver ==
  /\ at = "gap"
  /\ at' = "zone"
  /\ UNCHANGED <<flag, patrol, demo, round, saying, overtaken, afterwards,
                 playerVars>>

-----------------------------------------------------------------------------
(***************************************************************************)
(* The threads that use them.                                              *)
(***************************************************************************)
\* _add_to_broadcast_queue, _remove_from_broadcast_queue
AddToQueue(z, kind) ==
  /\ flag[z] # kind /\ Len(queue) <= QueueBound
  /\ flag' = [flag EXCEPT ![z] = kind]
  /\ overtaken' = IF Wants(z) THEN overtaken
                  ELSE [overtaken EXCEPT ![z] = [x \in Zone |-> 0]]
  /\ afterwards' = [afterwards EXCEPT ![z] = 0]
  /\ UNCHANGED <<patrol, demo, at, round, saying, playerVars>>

RemoveFromQueue(z) ==
  /\ Wants(z)
  /\ flag' = [flag EXCEPT ![z] = Off]
  /\ afterwards' = [afterwards EXCEPT ![z] = 0]
  /\ UNCHANGED <<patrol, demo, at, round, saying, overtaken, playerVars>>

StartPatrol ==
  /\ ~patrol
  /\ patrol' = TRUE
  /\ StopPlayback
  /\ UNCHANGED <<flag, demo, managerVars>>

StopPatrol ==
  /\ patrol
  /\ patrol' = FALSE
  /\ UNCHANGED <<flag, demo, managerVars, playerVars>>

\* The demos, tests and forced cut-offs play files from threads that patrol mode
\* starts and does not stop.
StartDemo ==
  /\ patrol /\ ~demo
  /\ demo' = TRUE
  /\ UNCHANGED <<flag, patrol, managerVars, playerVars>>

DemoPlays(priority) ==
  /\ demo /\ (priority \/ Len(queue) <= QueueBound)
  /\ Put(Task(Demo, "demo"), priority)
  /\ UNCHANGED <<flag, patrol, demo, managerVars, active>>

EndDemo ==
  /\ demo
  /\ demo' = FALSE
  /\ UNCHANGED <<flag, patrol, managerVars, playerVars>>

-----------------------------------------------------------------------------
Manager == StartRound \/ Recheck \/ EndRound \/ Speak \/ WaitOver \/ GapOver
Player  == PlayNext \/ PlayEnds
Patrol  == StartPatrol \/ StopPatrol \/ StartDemo \/ EndDemo
             \/ \E priority \in BOOLEAN : DemoPlays(priority)
Zones   == \E z \in Zone : RemoveFromQueue(z) \/ \E kind \in Kind : AddToQueue(z, kind)

BroadcastNext == Manager \/ Player \/ Patrol \/ Zones

BroadcastSpec == BroadcastInit /\ [][BroadcastNext]_broadcastVars

\* The two threads run, a demo has a fixed length, and a file has a deadline
\* (_play_audio_file: at most 120 s).
BroadcastFairSpec ==
  /\ BroadcastSpec
  /\ WF_broadcastVars(Manager) /\ WF_broadcastVars(PlayNext) /\ WF_broadcastVars(PlayEnds)
  /\ WF_broadcastVars(EndDemo)

-----------------------------------------------------------------------------
(***************************************************************************)
(* Properties                                                              *)
(***************************************************************************)
Tasks == [zone: Zone \cup {Demo}, kind: Kind \cup {"demo"},
          stale: BOOLEAN, cancelled: BOOLEAN]

BroadcastTypeOK ==
  /\ flag \in [Zone -> Kind \cup {Off}]
  /\ patrol \in BOOLEAN /\ demo \in BOOLEAN
  /\ at \in {"head", "zone", "speak", "wait", "gap"}
  /\ Range(round) \subseteq Zone /\ IsInjective(round)
  /\ saying \in [zone: Zone \cup {Demo}, kind: Kind \cup {"none"}]
  /\ queue \in Seq(Tasks) /\ active \in Tasks \cup {Silence}

\* Taking turns: a zone that has something to announce lets every other zone
\* go before it at most twice (in the round it came too late for, and in the
\* next), whoever is added, withdrawn and escalated meanwhile.
TurnsAreTaken == \A y, z \in Zone : overtaken[y][z] <= 2

\* A zone that has come to rest is announced at most once more, by a manager
\* that had read its flag before.
OneAfterwards == \A z \in Zone : afterwards[z] <= 1

\* voice.py, _play_loop: stop_playback misses no task, not even the one that has
\* just been taken from the queue.
StopIsComplete ==
  /\ active.stale => active.cancelled
  /\ \A n \in DOMAIN queue : ~queue[n].stale

\* main.py, _broadcast_manager_loop: regular announcements pause in patrol mode.
PatrolIsQuiet ==
  [][patrol => \A n \in DOMAIN queue' :
        queue'[n].zone # Demo => \E m \in DOMAIN queue : queue[m] = queue'[n]]_broadcastVars

\* main.py, _on_state_change: the announcements of a zone stop when it comes to
\* rest.
QuietAtRest == [][active' # active => active' = Silence \/ active'.zone = Demo
                                        \/ flag[active'.zone] # Off]_broadcastVars

\* What a zone has to say is heard again and again for as long as it stands, in
\* its latest form, once no patrol interferes.
HeardAgain ==
  \A z \in Zone, k \in Kind :
    <>[](flag[z] = k /\ ~patrol) => []<>(active.zone = z /\ active.kind = k)
=============================================================================
