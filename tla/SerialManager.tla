---------------------------- MODULE SerialManager ---------------------------
(***************************************************************************)
(* The serial bus (src/serial_port/serial_manager.py): one event loop runs *)
(* the command processor, the polling loop and the coroutines that feed a  *)
(* cut-off or a LoRa operation into the shared command queue, while the    *)
(* frames that arrive are attributed to the command in hand; other threads *)
(* order cut-offs, register and rewire zones, and restart the manager.     *)
(*                                                                         *)
(* A current reading is 0 or 1, and 1 is above every fire threshold.       *)
(* Detectors and thermometers share one space of bus addresses.            *)
(***************************************************************************)
EXTENDS Integers, Sequences, SequencesExt, FiniteSets

CONSTANTS Zone,         \* zone ids
          Detector,     \* the bus addresses of current detectors and their relays
          Wiring,       \* Zone -> Detector: serial_index as configured
          Thermometer,  \* the bus addresses of the temperature sensors polled
          Lora,         \* the bus address (number) of the LoRa module
          Slot,         \* bound: coroutines that may be feeding the queue at once
          QueueBound,   \* bound: no coroutine starts beyond this length of the queue
          MissLimit,    \* _current_miss_limit
          ResetDelay,   \* _cutoff_reset_delay, in ticks
          Faults        \* what may go wrong

ASSUME WiringAssumption == Wiring \in [Zone -> Detector]
ASSUME FiniteAssumption == IsFiniteSet(Zone) /\ IsFiniteSet(Thermometer)
ASSUME AddressAssumption ==
  Detector \cup Thermometer \cup {Lora} \subseteq Nat \ {0}
ASSUME LimitsAssumption ==
  MissLimit \in Nat \ {0} /\ ResetDelay \in Nat \ {0} /\ QueueBound \in Nat
ASSUME FaultsAssumption ==
  Faults \subseteq {"dead",     \* detectors lose power and come back
                    "lost",     \* a write fails, or a reply never arrives
                    "late",     \* a reply takes longer than the timeout
                    "abort",    \* a round of the polling loop raises
                    "edit",     \* zones are unregistered, registered and rewired
                    "restart",  \* the manager is stopped and initialized again
                    "port"}     \* opening the port may fail

VARIABLES
  manager,      \* "running", "deaf" (initialized, the port did not open), "stopped"
  queue,        \* _command_queue
  current,      \* _current_command
  stage,        \* the processor: "ready", "waiting" (for a reply), "settling"
  replied,      \* _response_event is set
  answered,     \* current.response_received
  poll,         \* the polling loop: "begin", "channel", "round", "join"
  feeding,      \* the batches each coroutine has yet to put in the queue
  registered,   \* _zone_currents, in insertion order
  info,         \* ZoneCurrentInfo: serial_index, current_value, is_fire_on,
                \*   cutoff_time (as its age), can_check_reset
  misses,       \* _current_miss_counts
  lora_device,  \* _helper.lora_device_id: where LoRa settings will be sent
  enabled,      \* Zone.enabled
  wire,         \* frames on the way to the manager
  load,         \* environment: the current each detector measures
  dead,         \* environment: detectors without power
  relay,        \* history: the command last written to each relay
  moved         \* history: zones rewired since they last took a reading

loopVars == <<queue, current, stage, replied, answered, poll, feeding>>
zoneVars == <<registered, info, misses, lora_device, enabled>>
busVars  == <<wire, load, dead, relay>>
vars     == <<manager, loopVars, zoneVars, busVars, moved>>

\* The gas valve, of all zones.  A device of its own here, though its frames are those of
\* the relay of detector 1.
Gas      == 0
Relays   == Detector \cup {Gas}
Unknown  == 0                              \* lora_device_id is None
Readings == 0 .. 1
Never    == -1                             \* cutoff_time is None
Ages     == 0 .. ResetDelay                \* bound: older is not told apart

Command(type, index) == [type |-> type, index |-> index]
None == Command("none", 0)

Infos == [serial_index: Detector, current_value: Readings, is_fire_on: BOOLEAN,
          cutoff_time: Ages \cup {Never}, can_check_reset: BOOLEAN]

NewInfo(index) == [serial_index |-> index, current_value |-> 0, is_fire_on |-> FALSE,
                   cutoff_time |-> Never, can_check_reset |-> FALSE]

\* Faulty variants (mutation runs): the cut-off, or the valve's reset, is left out.
ScriptWithoutCut(i) == <<<<Command("SET_GAS_VALVE", Gas)>>,
                         <<Command("RESET_RELAY", i)>>,
                         <<Command("RESET_GAS_VALVE", Gas)>>>>
ScriptWithoutReset(i) == <<<<Command("SET_RELAY", i), Command("SET_GAS_VALVE", Gas)>>,
                           <<Command("RESET_RELAY", i)>>>>

\* The batches put between two sleeps by _enqueue_cutoff_commands and by
\* _query_lora_and_wait.
CutoffScript(i) == <<<<Command("SET_RELAY", i), Command("SET_GAS_VALVE", Gas)>>,
                     <<Command("RESET_RELAY", i)>>,
                     <<Command("RESET_GAS_VALVE", Gas)>>>>
LoraScript == <<<<Command("GET_LORA_ID", Lora)>>, <<Command("GET_LORA_CHANNEL", Lora)>>>>

LoraQueries == {"GET_LORA_ID", "GET_LORA_CHANNEL"}

Init ==
  /\ manager = "running"
  /\ queue = <<>> /\ current = None /\ stage = "ready"
  /\ replied = FALSE /\ answered = FALSE
  /\ poll = "begin"
  /\ feeding = [c \in Slot |-> <<>>]
  /\ \E order \in SetToSeqs(Zone) : registered = order
  /\ info = [z \in Zone |-> NewInfo(Wiring[z])]
  /\ misses = [i \in Detector |-> 0]
  /\ lora_device = Unknown
  /\ enabled = [z \in Zone |-> TRUE]
  /\ wire = {}
  /\ load = [i \in Detector |-> 0] /\ dead = {}
  /\ relay = [i \in Relays |-> "reset"]
  /\ moved = {}

-----------------------------------------------------------------------------
(***************************************************************************)
(* The command processor and the frames it waits for.                      *)
(***************************************************************************)
\* The frame with which the device addressed answers a command: a detector sends
\* what it measures; the first word of a thermometer's float and a LoRa number are
\* nonzero; a write is echoed.  What kind of reading a frame holds, it does not say.
Frame(kind, a, value) == [kind |-> kind, address |-> a, value |-> value]
IsReading(f) == f.kind # "echo"

Reply(cmd) ==
  CASE cmd.type = "GET_CURRENT"     -> Frame("current", cmd.index, load[cmd.index])
    [] cmd.type = "GET_TEMPERATURE" -> Frame("float", cmd.index, 1)
    [] cmd.type \in LoraQueries     -> Frame("number", Lora, 1)
    [] OTHER                        -> Frame("echo", cmd.index, 0)

SendCommand(cmd) ==
  relay' = CASE cmd.type \in {"SET_RELAY", "SET_GAS_VALVE"} -> [relay EXCEPT ![cmd.index] = "set"]
             [] cmd.type \in {"RESET_RELAY", "RESET_GAS_VALVE"} -> [relay EXCEPT ![cmd.index] = "reset"]
             [] OTHER -> relay

SendFails == "lost" \in Faults /\ UNCHANGED relay

\* The command is taken and written; the reply, if any, is on its way.  What
\* arrives during the write has the effect of arriving right after it.
Take ==
  /\ manager = "running" /\ stage = "ready" /\ queue # <<>>
  /\ LET cmd == Head(queue)
     IN /\ current' = cmd
        /\ \/ /\ cmd.index \notin dead
              /\ SendCommand(cmd)
              /\ wire' = wire \cup {Reply(cmd)}
           \/ /\ cmd.index \in dead \/ "lost" \in Faults
              /\ SendCommand(cmd) \/ SendFails
              /\ UNCHANGED wire
  /\ queue' = Tail(queue)
  /\ stage' = "waiting" /\ replied' = FALSE /\ answered' = FALSE
  /\ UNCHANGED <<manager, poll, feeding, zoneVars, load, dead, moved>>

Wired(i) == {z \in Range(registered) : info[z].serial_index = i}

\* _update_current: a detector that answers is not missing, and the zones wired
\* to it take its reading.
UpdateCurrent(a, value) ==
  /\ misses' = [i \in Detector |-> IF i = a THEN 0 ELSE misses[i]]
  /\ info' = [z \in Zone |->
                IF z \in Wired(a)
                THEN [info[z] EXCEPT !.current_value = value, !.is_fire_on = value > 0]
                ELSE info[z]]
  /\ moved' = moved \ Wired(a)

\* Faulty variant (mutation runs): the type of the command is not looked at.
AnyReading(f) == IsReading(f)

\* A frame is understood as the reply to the command in hand, and as a current
\* reading when there is none.
IsCurrent(f)    == IsReading(f) /\ current.type \in {"GET_CURRENT", "none"}
IsLoraNumber(f) == IsReading(f) /\ current.type \in LoraQueries

SetLoraDeviceId(f) == lora_device' = IF IsLoraNumber(f) THEN f.address ELSE lora_device

\* _on_data_received
Deliver(f) ==
  /\ manager = "running" /\ f \in wire
  /\ wire' = wire \ {f}
  /\ IF IsCurrent(f) THEN UpdateCurrent(f.address, f.value)
                     ELSE UNCHANGED <<misses, info, moved>>
  /\ SetLoraDeviceId(f)
  /\ replied'  = (current # None)
  /\ answered' = (answered \/ (IsReading(f) /\ current.type = "GET_CURRENT"))
  /\ UNCHANGED <<manager, queue, current, stage, poll, feeding, registered,
                 enabled, load, dead, relay>>

\* Faulty variant (mutation runs): the misses are not counted up.
MissCountOnce(i) == 1

MissCount(i) == IF misses[i] = MissLimit THEN MissLimit ELSE misses[i] + 1
IsOffline(i) == MissCount(i) = MissLimit

\* _handle_current_miss: at the limit the zones of the detector read zero.
HandleMiss(i) ==
  /\ misses' = [misses EXCEPT ![i] = MissCount(i)]
  /\ info' = [z \in Zone |->
                IF IsOffline(i) /\ z \in Wired(i) /\ info[z].current_value # 0
                THEN [info[z] EXCEPT !.current_value = 0, !.is_fire_on = FALSE]
                ELSE info[z]]
  /\ moved' = IF IsOffline(i) THEN moved \ Wired(i) ELSE moved

\* Unless replies may be late, one that is on the wire beats the timeout.
TimedOut == wire = {} \/ "late" \in Faults

EndWait ==
  /\ manager = "running" /\ stage = "waiting"
  /\ replied \/ TimedOut
  /\ stage' = "settling"
  /\ IF current.type = "GET_CURRENT" /\ ~answered
     THEN HandleMiss(current.index)
     ELSE UNCHANGED <<misses, info, moved>>
  /\ UNCHANGED <<manager, queue, current, replied, answered, poll, feeding,
                 registered, lora_device, enabled, busVars>>

\* The pause of 50 ms, during which the command is still the current one.
Settle ==
  /\ manager = "running" /\ stage = "settling"
  /\ stage' = "ready" /\ current' = None /\ replied' = FALSE /\ answered' = FALSE
  /\ UNCHANGED <<manager, queue, poll, feeding, zoneVars, busVars, moved>>

-----------------------------------------------------------------------------
(***************************************************************************)
(* The polling loop.  It begins with the two LoRa queries, a pause between *)
(* them; a round puts its commands without yielding.                       *)
(***************************************************************************)
Queries(type, indexes) == [n \in DOMAIN indexes |-> Command(type, indexes[n])]

\* The places in registered where a round stops: at a zone that is enabled, and the
\* first such of its detector.
Stops ==
  {n \in DOMAIN registered :
     /\ enabled[registered[n]]
     /\ \A m \in DOMAIN registered :
          m < n /\ enabled[registered[m]] =>
            info[registered[m]].serial_index # info[registered[n]].serial_index}

\* The zones there, one after the other.  (The set has one element, the round.)
Polled ==
  {[n \in DOMAIN stops |-> registered[stops[n]]] : stops \in
     {s \in [1..Cardinality(Stops) -> Stops] : \A m, n \in DOMAIN s : m < n => s[m] < s[n]}}

Cooled(z) == info[z].cutoff_time = ResetDelay

CanCheck(zs) ==
  [z \in Zone |->
     [info[z] EXCEPT !.can_check_reset = @ \/ (z \in zs /\ Cooled(z))]]

PollBegin ==
  /\ manager = "running" /\ poll \in {"begin", "channel"}
  /\ queue' = queue \o LoraScript[IF poll = "begin" THEN 1 ELSE 2]
  /\ poll' = IF poll = "begin" THEN "channel" ELSE "round"
  /\ UNCHANGED <<manager, current, stage, replied, answered, feeding, zoneVars,
                 busVars, moved>>

PollRound ==
  /\ manager = "running" /\ poll = "round"
  /\ \E zones \in Polled :
       /\ queue' = queue \o Queries("GET_CURRENT",
                                    [n \in DOMAIN zones |-> info[zones[n]].serial_index])
                         \o Queries("GET_TEMPERATURE", SetToSeq(Thermometer))
       /\ info' = CanCheck(Range(zones))
  /\ poll' = "join"
  /\ UNCHANGED <<manager, current, stage, replied, answered, feeding, registered,
                 misses, lora_device, enabled, busVars, moved>>

\* clear_cutoff_state, between the test of cutoff_time and its subtraction in
\* another thread, makes a round raise: what it has put stays in the queue and
\* the next round does not wait for it.
PollAbort ==
  /\ "abort" \in Faults
  /\ manager = "running" /\ poll = "round" /\ Len(queue) <= QueueBound
  /\ \E zones \in Polled : \E n \in DOMAIN zones :
       /\ info[zones[n]].cutoff_time # Never
       /\ queue' = queue \o Queries("GET_CURRENT",
                              [m \in 1 .. n |-> info[zones[m]].serial_index])
       /\ info' = [CanCheck({zones[m] : m \in 1 .. n - 1}) EXCEPT
                     ![zones[n]].cutoff_time = Never,
                     ![zones[n]].can_check_reset = FALSE]
  /\ UNCHANGED <<manager, current, stage, replied, answered, poll, feeding,
                 registered, misses, lora_device, enabled, busVars, moved>>

\* join(): every command put has been taken and finished.
Joined == queue = <<>> /\ stage = "ready"

PollJoin ==
  /\ manager = "running" /\ poll = "join" /\ Joined
  /\ poll' = "round"
  /\ UNCHANGED <<manager, queue, current, stage, replied, answered, feeding,
                 zoneVars, busVars, moved>>

\* A coroutine wakes up and puts its next batch.
\* (What a queue that nobody reads holds is not told apart.)
Feed(c) ==
  /\ feeding[c] # <<>>
  /\ queue' = IF manager = "running" THEN queue \o Head(feeding[c]) ELSE queue
  /\ feeding' = [feeding EXCEPT ![c] = Tail(@)]
  /\ UNCHANGED <<manager, current, stage, replied, answered, poll, zoneVars,
                 busVars, moved>>

-----------------------------------------------------------------------------
(***************************************************************************)
(* The other threads.                                                      *)
(***************************************************************************)
\* run_coroutine_threadsafe, if there is a loop and a queue.
Start(script) ==
  IF manager = "stopped" THEN UNCHANGED feeding
  ELSE \E c \in Slot : /\ feeding[c] = <<>> /\ Len(queue) <= QueueBound
                       /\ feeding' = [feeding EXCEPT ![c] = script]

Cutoff(z) ==
  /\ z \in Range(registered)
  /\ info' = [info EXCEPT ![z].cutoff_time = 0, ![z].can_check_reset = FALSE]
  /\ Start(CutoffScript(info[z].serial_index))
  /\ UNCHANGED <<manager, queue, current, stage, replied, answered, poll,
                 registered, misses, lora_device, enabled, busVars, moved>>

ClearCutoffState(z) ==
  /\ z \in Range(registered)
  /\ info' = [info EXCEPT ![z].cutoff_time = Never, ![z].can_check_reset = FALSE]
  /\ UNCHANGED <<manager, loopVars, registered, misses, lora_device, enabled, busVars,
                 moved>>

QueryLora ==
  /\ manager # "stopped" /\ Start(LoraScript)
  /\ UNCHANGED <<manager, queue, current, stage, replied, answered, poll,
                 zoneVars, busVars, moved>>

SetEnabled(z) ==
  /\ enabled' = [enabled EXCEPT ![z] = ~@]
  /\ UNCHANGED <<manager, loopVars, registered, info, misses, lora_device, busVars, moved>>

\* register_zone of a known zone replaces its entry where it stands.
Register(z) ==
  /\ "edit" \in Faults
  /\ registered' = IF z \in Range(registered) THEN registered
                   ELSE Append(registered, z)
  /\ \E i \in Detector : info' = [info EXCEPT ![z] = NewInfo(i)]
  /\ moved' = moved \ {z}
  /\ UNCHANGED <<manager, loopVars, misses, lora_device, enabled, busVars>>

Unregister(z) ==
  /\ "edit" \in Faults
  /\ \E n \in DOMAIN registered : registered[n] = z /\ registered' = RemoveAt(registered, n)
  /\ info' = [info EXCEPT ![z] = NewInfo(Wiring[z])]
  /\ moved' = moved \ {z}
  /\ UNCHANGED <<manager, loopVars, misses, lora_device, enabled, busVars>>

\* update_zone_config: the reading taken from the old detector stays.
Rewire(z) ==
  /\ "edit" \in Faults
  /\ z \in Range(registered)
  /\ \E i \in Detector : info' = [info EXCEPT ![z].serial_index = i]
  /\ moved' = moved \cup {z}
  /\ UNCHANGED <<manager, loopVars, registered, misses, lora_device, enabled, busVars>>

\* What has not been read when the port closes is gone.
ClosePort == wire' = {}
OpenPort == manager' \in IF "port" \in Faults THEN {"running", "deaf"} ELSE {"running"}

\* stop(): the event loop halts with what it holds.
Stop ==
  /\ "restart" \in Faults /\ manager # "stopped"
  /\ manager' = "stopped"
  /\ queue' = <<>> /\ current' = None /\ stage' = "ready"
  /\ replied' = FALSE /\ answered' = FALSE
  /\ feeding' = [c \in Slot |-> <<>>]
  /\ ClosePort
  /\ UNCHANGED <<poll, zoneVars, load, dead, relay, moved>>

\* initialize() and _init_helper(): the tasks run if the port opens.
Initialize ==
  /\ manager = "stopped"
  /\ OpenPort
  /\ poll' = "begin"
  /\ lora_device' = Unknown
  /\ UNCHANGED <<queue, current, stage, replied, answered, feeding, registered,
                 info, misses, enabled, busVars, moved>>

-----------------------------------------------------------------------------
(***************************************************************************)
(* The kitchen's circuits and the clock.                                   *)
(***************************************************************************)
Load(i) ==
  /\ load' = [load EXCEPT ![i] = 1 - @]
  /\ UNCHANGED <<manager, loopVars, zoneVars, wire, dead, relay, moved>>

Power(i) ==
  /\ "dead" \in Faults
  /\ dead' = IF i \in dead THEN dead \ {i} ELSE dead \cup {i}
  /\ UNCHANGED <<manager, loopVars, zoneVars, wire, load, relay, moved>>

Older(age) == IF age \in {Never, ResetDelay} THEN age ELSE age + 1

Tick ==
  /\ info' = [z \in Zone |-> [info[z] EXCEPT !.cutoff_time = Older(@)]]
  /\ UNCHANGED <<manager, loopVars, registered, misses, lora_device, enabled, busVars,
                 moved>>

-----------------------------------------------------------------------------
Processor == Take \/ EndWait \/ Settle \/ \E f \in wire : Deliver(f)
Polling   == PollBegin \/ PollRound \/ PollAbort \/ PollJoin
Threads   == \/ QueryLora \/ Stop \/ Initialize
             \/ \E z \in Zone : \/ Cutoff(z) \/ ClearCutoffState(z) \/ SetEnabled(z)
                                \/ Register(z) \/ Unregister(z) \/ Rewire(z)

Next == \/ Processor \/ Polling \/ Threads \/ Tick
        \/ \E c \in Slot : Feed(c)
        \/ \E i \in Detector : Load(i) \/ Power(i)

Spec == Init /\ [][Next]_vars

\* The event loop runs every task that is ready, what a device has sent arrives,
\* and the clock goes on; no thread owes the manager a call, no device a reply.
\* (PollJoin strongly: join() is latched once the queue has run empty.)
FairSpec ==
  /\ Spec
  /\ WF_vars(Take \/ EndWait \/ Settle)
  /\ WF_vars(\E f \in wire : Deliver(f))
  /\ WF_vars(PollBegin \/ PollRound) /\ SF_vars(PollJoin)
  /\ \A c \in Slot : WF_vars(Feed(c))
  /\ WF_vars(Tick)

-----------------------------------------------------------------------------
(***************************************************************************)
(* Properties                                                              *)
(***************************************************************************)
CommandTypes == {"GET_CURRENT", "GET_TEMPERATURE", "SET_RELAY", "RESET_RELAY",
                 "SET_GAS_VALVE", "RESET_GAS_VALVE"} \cup LoraQueries
Addresses == Relays \cup Thermometer \cup {Lora}
Commands  == [type: CommandTypes, index: Addresses]

TypeOK ==
  /\ manager \in {"running", "deaf", "stopped"}
  /\ queue \in Seq(Commands) /\ current \in Commands \cup {None}
  /\ stage \in {"ready", "waiting", "settling"}
  /\ (current = None) <=> (stage = "ready")
  /\ replied \in BOOLEAN /\ answered \in BOOLEAN
  /\ poll \in {"begin", "channel", "round", "join"}
  /\ \A c \in Slot : Len(feeding[c]) <= 3
  /\ Range(registered) \subseteq Zone /\ IsInjective(registered)
  /\ info \in [Zone -> Infos] /\ misses \in [Detector -> 0 .. MissLimit]
  /\ lora_device \in Addresses /\ enabled \in [Zone -> BOOLEAN]
  /\ wire \subseteq [kind: {"current", "float", "number", "echo"},
                     address: Addresses, value: Readings]
  /\ load \in [Detector -> Readings]
  /\ dead \subseteq Detector /\ relay \in [Relays -> {"set", "reset"}]
  /\ moved \subseteq Zone

\* A detector that is missing leaves no zone reading a current or a fire, except one
\* that was wired to it meanwhile and has yet to be polled.
OfflineReadsZero ==
  \A z \in Range(registered) \ moved :
    misses[info[z].serial_index] = MissLimit
      => info[z].current_value = 0 /\ ~info[z].is_fire_on

\* Polling never gets ahead of the bus, with zones registered, removed and rewired
\* between the rounds and during them: at most one current query per detector is
\* outstanding.
PollNeverPilesUp ==
  \A i \in Detector :
    LET query == Command("GET_CURRENT", i)
    IN  Cardinality({n \in DOMAIN queue : queue[n] = query})
          + (IF current = query THEN 1 ELSE 0) <= 1

\* A stove is lit and put out by its own detector only: by no frame of another
\* device, and by no answer to another command.  Besides, a missing detector puts it
\* out, and so does an edit of the zone.
FireWasReported ==
  [][\A z \in Range(registered) :
       info'[z].is_fire_on # info[z].is_fire_on =>
         \/ \E f \in wire \ wire' :
              f = Frame("current", info[z].serial_index, IF info'[z].is_fire_on THEN 1 ELSE 0)
         \/ ~info'[z].is_fire_on /\ misses'[info[z].serial_index] = MissLimit
         \/ UNCHANGED <<loopVars, wire>>]_vars

\* LoRa settings are addressed to the LoRa module.
LoraIsAddressed == lora_device \in {Unknown, Lora}

\* Class SerialManager: send, reply, send, reply, in strict order.
StrictOrder ==
  [][manager' = "running" =>
       \A f \in wire \ wire' : f.kind = Reply(current).kind /\ f.address = current.index]_vars

\* The order of a zone's cut-off that the manager took reaches the relay, behind
\* whatever polling and other cut-offs are in the queue.
CutoffReachesRelay ==
  \A z \in Zone :
    (\E c \in Slot : feeding[c] = CutoffScript(Wiring[z])) ~> relay[Wiring[z]] = "set"

\* _enqueue_cutoff_commands: a relay (and the gas valve) that was set is reset.
RelayComesBack ==
  \A i \in Relays : (relay[i] = "set") ~> (relay[i] = "reset")

Monitored(z) == manager = "running" /\ z \in Range(registered) /\ enabled[z]

\* The other threads leave the bus time to drain: join() waits for their
\* commands too, and a flood of them would keep a round from ending.
Drains == []<>Joined

\* _handle_current_miss: a detector that has lost its power leaves no fire on.
DeadGoesCold ==
  \A z \in Zone : Drains /\ <>[](Monitored(z) /\ info[z].serial_index \in dead)
                    => <>[]~info[z].is_fire_on

\* A cut-off whose delay is over is allowed to be released by current.
PermitComes ==
  \A z \in Zone : Drains /\ <>[](Monitored(z) /\ info[z].cutoff_time = ResetDelay)
                    => <>info[z].can_check_reset

\* The whole of a cut-off, over polling, other cut-offs and aborted rounds: the
\* relay is set, it is reset, and the zone may be released after its delay.
CutoffRunsItsCourse == CutoffReachesRelay /\ RelayComesBack /\ PermitComes
=============================================================================
