# A model of the stove fire-safety monitor

This directory holds TLA+ models of the program under `src/`: a monitor that watches
cooking stoves with cameras, reads each stove's current over a serial bus, and warns,
alarms and finally cuts the power and the gas of a stove that burns with nobody there.
The models are checked with TLC on small instances. All that their safety properties say is
proved with TLAPS for every instance, but for two about the cutting of byte streams into
frames; what must happen in the end is checked with TLC only.

## 1. Inventory

Paths are relative to the repository. "Thread" names who runs the code.

| Component | State it keeps | Operations | Talks to |
|---|---|---|---|
| Zone state machine `src/zone/state_machine.py` | state, start of the absence, countdown fields, last observation | `update`, `force_idle`, `reset`, `set_fire_state`, `get_status`, each under its `_lock` | callbacks into the main program; asks the serial manager `can_reset_by_current` |
| Zone manager (same file) | the zones by id, fire states | `add_zone`, `reset_zone`, ... | loop and handler, without a lock |
| Detection loop `src/main.py` (thread) | the pass in progress | one pass over all zones, ten times a second | cameras, detector, serial manager, patrol flag, zones, lamps |
| Alarm callbacks `src/main.py` | `_broadcast_stop_flags` | `_on_warning`, `_on_alarm`, `_on_cutoff`, `_on_temp_alarm`, `_on_state_change`, `_on_estop` | serial manager, broadcast queue, clients, uplink |
| Broadcast manager `src/main.py` (thread) | the round in progress | the rounds of announcements | the flags, the voice player |
| Voice player `src/output/voice.py` (thread) | queue, active task | `play_file`, `stop_playback`, `_play_loop` | audio device |
| Serial manager `src/serial_port/serial_manager.py` (event loop and callers' threads) | command queue, current command, readings, miss counts, cut-off bookkeeping, LoRa address | polling loop, command processor, `cutoff`, registration, LoRa, restart | serial helper; zones through `is_fire_on` |
| Serial helper `src/serial_port/serial_helper.py` | receive buffer, port, address of the LoRa module | open, send, receive, frame search, command builders | the port |
| Patrol manager `src/patrol/patrol_manager.py` (threads) | mode, demo mode, progress, results | start, stop, checks, demos, forced warnings and cut-offs | voice player, serial manager, clients |
| Request handler `src/api/ws_handler.py` (server's event loop) | none of its own | some seventy requests of the clients | everything |
| Local clients `src/api/websocket.py`, endpoint and status loop in `src/api/server.py` | connections, at most ten; the last status sent | connect, disconnect, broadcast | clients, uplink |
| Uplink `src/api/websocket_client.py`, `offline_cache.py` | connection state, records not sent | login, send, resend, reconnect | the remote server, a file |
| Cameras `src/camera/` (one thread each) | status, last frame | start, stop, reconnect, read | devices |
| Person detection `src/detection/` | a window of detections per zone and camera | `check_zone_multi` | inference engine |
| Indicators and emergency stop `src/output/gpio.py` (thread) | samples, cooldown | sampling, confirmation | the main program |
| Configuration `src/utils/config.py` | the settings, a file | load, migrate, save | everything; requests save on the event loop, the audio gain on a thread |
| BLE provisioning `src/ble/` (own process, event loop and worker thread) | a decoder of frames, provisioning state, pending configuration, result of the last apply; NetworkManager's profiles | scan, set_config, apply, cancel, questions for the result; change of network with its way back; bridge | the program over a local socket, NetworkManager |
| Terminal `src/api/terminal.py` (event loop; a drain, an exit and at times a stop task for each session, a watchdog) | at most two sessions, the start lock | start, input, resize, stop, ends of connections | a shell, clients, uplink |
| Server, hotspot, disk guard, network monitor, discovery, logger, performance, web interface, deployment | little or none | input and output | |

What is hard about them:

- **Zones.** The escalation is a function of time, and seven paths lead back to rest. Each
  must stop the timer; thresholds change under a running absence.
- **Loop against clients.** The loop copies the list of zones, looks, and updates later;
  clients reset, disable, delete and re-create zones in between; patrol mode suspends the
  state machines but not their timers; cameras fail; passes stall or raise.
- **Cut-off.** Two places hold its state, zone and serial manager, and three threads write
  it: callbacks stamp `cutoff_time`, the poll loop permits a release without a lock, a
  release withdraws the permission.
- **Bus.** One bus, many devices, replies matched with commands by order only; timeouts,
  dead devices, restarts that drop what is half done; several coroutines feed one queue.
- **Announcements.** One player for all zones and for the patrol; flags, queue and
  playback are three copies of what is to be said.
- **Uplink.** Records must survive disconnections, and resending overlaps with sending.
- **Provisioning.** A change of network is a dozen commands, any of which may fail, beside
  NetworkManager's own decisions; the phone loses notifications and asks for the result.
- **Cameras.** Two kinds of thread and the requests share an object without a lock; an
  update makes a second object for the same device while the first may still read it.
- **Detection.** A window for each camera decides when a person has come or gone; frames may
  stop, inference may fail, patrols leave the windows as they are, settings change.
- **Wiring.** Which address is polled and cut off for a zone is in four places (configuration,
  file, serial manager, device); requests may be refused halfway; old files count from 0.
- **Saves.** A crash, a full disk or a second save at any point of writing and renaming.
- **Terminal and local clients.** Starts, stops, exits and vanished connections overlap at
  every await; limits must not be overrun, nor places lost.
- **By hand.** The patrol starts a thread for each operation and never looks after it; the
  emergency button bounces, may be unreadable, and is reloaded with the configuration.

What makes each correct:

- zone: never a stage before its time, one callback for each stage of an absence, the
  timer runs exactly on the ladder, implements an escalation ladder;
- loop: no cut-off without the absence, neglected stoves are cut off in the end, a disabled
  zone goes quiet, what is announced is what the state calls for;
- detection: an absence begins only when the cameras that saw somebody have shown nobody for
  as long as it takes, and whoever stays in sight ends it;
- serial manager: no reading is attributed to a stove that is not its own, a dead detector
  reads zero, a cut-off reaches the relay and is taken back, releases wait, polling does
  not pile up; on the line, a reply that was not disturbed gets through;
- wiring: the detector polled for a zone is the one installed there, no sensor serves two;
- configuration: the file goes from one whole configuration to the next, and what a request
  was told is in force survives;
- announcements: turns, none after rest but the one under way, stopping is complete;
- uplink: reconnected whenever possible, given up when refused, no record lost but for
  stated reasons, the order kept, the cache bounded and in the end empty;
- provisioning: a failed change is taken back, success is said only of the configuration
  asked for, the result of an apply does not change, no command hangs, a command that met
  nothing left over in the decoder is dispatched;
- terminal: no more shells than the limit, nothing after the exit, none left behind;
- local clients: who is served is on the list and is shown the status, places come back;
- cameras: one reader for each object, seen again when the device works again;
- patrol and emergency stop: what is shown is being done, every zone set out for is cut
  off, emergency stops match the presses of the button;
- the others: see section 5.

## 2. Modules

    StoveGuard            what one zone promises (abstract)
      ^ implemented by
    ZoneStateMachine ---- EXTENDS ---- ZoneLogic        the decisions of update, reset, force_idle
      ^ EXTENDS, with Detector            ^ EXTENDS
    DetectedZone                       FireSafetySystem the running monitor, any number of zones

    BroadcastManager      the announcements
    SerialManager         the bus and its command queue
    RemoteConnection      login, handshake, reconnection    } WebLinks
    LocalClients          the browsers and their broadcasts }
    AlarmRecords          sending, caching and resending of alarm records
    SerialLine            bytes to frames, for SerialManager  }
    Terminal              the shells                        } MainProcess
    ConfigStore           saving, over crashes              }
      | implements AtomicStore
    ZoneWiring            addresses of zones and sensors    }
    NetworkApplier        a change of network
      ^ EXTENDS
    ProvisioningService   the BLE service's commands        } BleProcess
    RequestFrames         the phones' frames, the watchdog  }
    Camera                one camera, its threads and the requests about it
    ManualControl         the patrol's threads and the emergency stop

`MC*` modules give the constants of TLC's instances. Eight modules hold the proofs of
section 4: ZoneStateMachineProofs (with Detector and DetectedZone), FireSafetySystemProofs,
ManualControlProofs, AlarmOutputProofs (BroadcastManager and AlarmRecords), DeviceProofs
(Camera and SerialManager), RemoteConnectionProofs (with LocalClients and WebLinks),
ProvisioningServiceProofs, and MainProcessProofs (Terminal, ConfigStore, ZoneWiring
and SerialLine). **WebLinks**, **MainProcess** and **BleProcess** are each parts of one
process that share no state: whatever the one does is any sequence of its own steps to the
other. A behaviour of all is therefore one of each, and a run exercises one part while the
others rest, which part being chosen at the start.

**ZoneLogic** maps a zone record before a call to the record after it, so that the
single-zone module and the system run the same definitions. The instant
`_no_person_start_time` is kept as its age, since the code only ever subtracts it from the
clock. `AfterUpdate` is `update()` in the order of its branches: overheated, released,
latched, attended, unattended. **ZoneStateMachine** is one object: one action per public
operation, each atomic because it holds `_lock`; the countdown fields are state of their
own, because `get_status` and `_reset_timers` write different subsets of them.
**StoveGuard** is the ladder it implements: `level`, a clock, the limits; climbing one way,
never early, down only to rest.

**Detector** is what `PersonDetector` makes of one camera: the window of the last frames, the
two thresholds, the region of interest; what a frame shows is somebody in the region,
somebody elsewhere, nobody, or an inference that failed. **DetectedZone** puts a Detector for
each camera before the state machine, as a pass of the detection loop does, with every other
operation of ZoneStateMachine interleaved; `nobody` and `somebody` count frames in a row.

**FireSafetySystem** interleaves the detection loop with everything that runs beside it.
`LoopLook` and `LoopUpdate` are separate steps, since detection takes time and clients act
in between; `passed` is the gap between the test and the assignment in the poll loop. Zones
are a sequence (`known`) because the loop takes them in order over a copy (`todo`). Faults
are a constant: a run names what may go wrong in it. The loop passes `update()` no
temperature, as the code does.

**SerialManager** has one action for each run of the event loop between two awaits: `Take`
a command and write it, `Deliver` a frame, `EndWait`, `Settle`, the rounds of the polling
loop, `Feed` for the coroutines of a cut-off or a LoRa query, which sleep between their
batches. A reading is 0 or 1 (above every threshold); what kind of device sent a frame is
in the model but hidden from the manager, as on the wire. **SerialLine** is what lies under
`Deliver`: the receive buffer as a sequence of bytes, byte k of reply n being `<<n, k>>`;
a read takes whatever has arrived, the search takes whole frames out of the buffer and drops
what cannot begin one, an overlong buffer is cut to its tail. A spoilt byte is of no reply,
so that a CRC matches exactly where all bytes of a reply stand together.

**ZoneWiring** has the requests that create, change and delete a zone, the binding of its
temperature sensor with the allocation of an address, the registrations in the serial
manager, and a restart with the migration of old files. `installed` is the address the
device on the wall has; `refused` the zones whose last request failed halfway.

**BroadcastManager** has the manager thread in five places of its loop, the player's queue
and active task, and patrol mode with its background threads.

**RemoteConnection** has the uplink's tasks: a `connect()` with its two awaits (login,
handshake), the receive loop, the reconnection, and the tasks of requests that stop and
start the client, which nothing serializes. `is_connecting` is "an attempt is in progress";
`ws` is the object `_ws` names. `disconnect()` is two steps, before and after its awaits.
**AlarmRecords** takes connections as given and models what becomes of a record: cached,
sent, resent by tasks that work on a copy of the cache and may overlap. **LocalClients** has a
browser's endpoint (waiting, accepting, serving), the broadcasts of the status loop and of
the events, which send to a copy of the list client by client, then to the uplink, and take
the failed ones out; `shown` is what each receiver saw last.

**Terminal** has the tasks of the connections, one request of each at a time, the watchdog,
and for each session its drain, exit and stop tasks; a step ends where the code awaits.
`lock` is who holds `_start_lock`, `told` how far `_finish()` got. **ConfigStore** has the
configuration in memory, the files as inodes with names, a saver at each system call, and
crashes at any of them; it implements **AtomicStore**, in which a save is one step, with
the content of the inode named config.yaml as what is saved.

**NetworkApplier** is one `connect()` or `connect_ethernet()`, an nmcli command at a step
(`call.pc` says where), beside NetworkManager, which ends activations and connects idle
devices by itself. Return codes the code ignores are outcomes the model keeps.
**ProvisioningService** composes it with the BLE service: `queue` is the commands waiting
for `_lock`, the holder first; `outbox` the notifications waiting for `_notify_lock`, each
awaited by its sender; `Query` goes past the lock. The service starts a call with
`Connect` and takes its result with `ConnectEnds`. **RequestFrames** is how commands get to it:
phones write frames in pieces, all connections share one decoder, and a watchdog asks BlueZ
who is connected and resets the decoder when nobody is.

**Camera** has the Camera objects made for one id, each with its threads: one that connects
(`_connect_async`), which becomes the one that reads (`_read_frames`). A thread's step ends
where it blocks, in opening the device or in reading a frame; `Top` is what lies between.
An edit is two steps, because `stop()` waits up to five seconds for the reader. A frame is
new or from before the connection was lost; the time since the last one is never, recent,
or past `FRAME_TIMEOUT_SEC`.

**ManualControl** has the patrol's threads in `jobs`, as many as there is room for, each
with the zones it has yet to cut off, and the emergency stop's monitor, whose callback runs
in the monitor's own thread, so that nothing is sampled while it does. `cut` is what
the serial manager was last told of each zone: cut off, or released (the kitchen's part).
A reload replaces what the monitor knows (`NewMonitor`). The history (`released`, `rebuilt`,
`calm`) is of the button and of the stops ordered, whichever monitor ordered them: a reload
is entered in it, and takes nothing back.

Names of definitions are those of the source where it has one. "history" in a comment
marks a variable the code does not have, that only the properties read.

## 3. Runs

Each run of `PROJECT.json`, with the bounds that matter:

| Run | Instance | Shows |
|---|---|---|
| `zone` | DetectedZone: two cameras, one detection setting (two frames without a person, one with), `MaxAge` 3, two alarm settings, the normal one and one out of order, switched at any time | `AbsenceIsSmoothed`, `ReturnEndsCountdown`; `NoEarlyEscalation`, `OneCallbackPerAbsence`, and StoveGuard is implemented |
| `system_edits` | FireSafetySystem: one zone, thresholds 1, 2, 3, delay 2; frames lost, loop stalled or raising, serial restarts, zones deleted and created | `CutNeedsAbsence`, `ReleaseWaits` |
| `system_live` | the same; patrols, the poll loop preempted between its test and its assignment; fair | `NeglectIsCut`: a neglected stove is cut off, again after each release, with the command given to the bus; `DisabledGoesQuiet`; `AnnouncementMatches` |
| `bus` | SerialManager: one zone, two detectors, a thermometer that shares an address, `MissLimit` 2; frames and commands lost, zones edited, restarts, ports that do not open | `FireWasReported`: a fire is never read out of another device's frame |
| `bus_live` | SerialManager: one zone and detector, one coroutine; detectors lose power, rounds abort; fair | `CutoffRunsItsCourse`: on, off, permitted; `DeadGoesCold` |
| `broadcast` | two zones, two kinds of announcement, demos; fair | `OneAfterwards`: at most one announcement after rest; `HeardAgain` |
| `links` | WebLinks: two tasks that restart the client, limit 5; outages, refusals, drops, expired tokens. Two browsers, one place, a heartbeat of two; fair | recovers unless it gave up, gives up when refused, every attempt awaited, every connection listened to; `PlacesAreTrue`, `Informed` |
| `records` | three records, a cache of two, two resends at once; drops, broken sockets, crashes; fair | what is lost is accounted for, order kept, the cache drains |
| `api` | MainProcess: one local client and the uplink, two sessions for one place; two configurations; two zones, two indexes, three sensor addresses; a serial line with three replies, noise, lost and spoilt bytes, a buffer of four; fair for the shells | `ShellsAreBounded`, `NothingAfterExit`, `ClosedMeansEnded`; `ImplementsStore`; `WiringIsKept`; `RepliesGetThrough` |
| `provisioning` | BleProcess: three commands, one question under way; WiFi with and without a static address, ethernet, none; commands that raise, notifications lost, the process killed. Two phones, two sizes of frames; fair | a failed change is undone, success is of the configuration asked for, results never turn, commands end; `CommandsGetThrough` |
| `camera` | two objects, two reads that fail to give up a connection, a device opened once at a time; unplugged, mute, live; fair | one thread for each object, a working camera is seen again and again |
| `manual` | two zones, two threads of the patrol, confirmation of two samples, cooldown of four; fair | progress and demo mode are those of a thread, every cut-off set out for is ordered; `StopsMatchPresses`: a stop needs the button seen up and the cooldown over, or a new monitor, and a press is answered unless within the cooldown |

*Why the bounds are enough.* Time: ages saturate at `MaxAge`, no threshold exceeds it, and
the code compares ages with thresholds only; three units separate all stages of the ladder.
Zones: the state machines share nothing; what the loop shares (the pass, the flags) is
touched zone by zone. Two zones are used where zones interact, on the bus and in the
rounds of announcements. Misses: two is the least limit that must be counted. `Slot` and
`QueueBound` limit how many coroutines other threads start, not what the polling loop does.
Uplink: two tasks and a reconnection are what one `connect()` at a time can have waiting for it; the
limit on failures is the program's. Records: three are the fewest that overflow a cache
which still has an order, and two resends the fewest that overlap. Provisioning: three
commands are a configuration, its apply and one to come between or after; what an earlier
provisioning left behind is in the profiles at first, and in whatever connection is active
then. Ethernet over DHCP takes no path that the three others do not. Camera: two objects
are one that was replaced and its successor; a third differs only in age. `Hasty` FALSE: a
request waits until the object connects no more; what happens if not is in section 6.
ManualControl: two threads are the fewest that overlap, two zones the fewest of which one
is still to be cut off; with `Together` FALSE the patrol and the button take turns, since
they share nothing but the serial manager's queue. The cooldown is longer than a release and
a confirmation, as in the code (sixty samples to three), so that a press is confirmed within
it, also with a reading that fails in between. Detection: two cameras are the fewest of
which one can see somebody and the other not, and the windows are as long as the settings'
thresholds. Line: three replies are one before, one disturbed and one after; the noise fills
the buffer. LocalClients: two browsers compete for one place; two broadcasts overlap.
Terminal: two sessions, so that a place is given out again while the one before is being
ended. ConfigStore: two configurations are old and new; `Overlapping` FALSE, one save at a
time, is what nearly every request does (section 6 for the other). ZoneWiring: two zones,
and one address more than sensors; the theorem is for any number. RequestFrames: two phones,
one of which may vanish while the other connects.

Deadlock is checked in every run but `api`, where the two sessions may both be used up. No
run lists a type invariant, and some properties are not listed because others say more. Added
to the configuration of a run, each module's type invariant holds there, and so do
`TurnsAreTaken` and `StopIsComplete` of BroadcastManager,
`OfflineReadsZero`, `PollNeverPilesUp` and `LoraIsAddressed` of SerialManager,
`TimerNeverOverstates`, `TimerMatchesState` and `CallbacksBelowState` of ZoneStateMachine,
`SensorsAreDistinct` and `OpenIsListed`, which are parts of listed ones.

*Fairness.* `FireSafetySystem`: the loop's and the poll loop's threads run, and the clock
goes on (strongly fair: each pass of the loop disables `Tick` for a while). Clients,
cameras and people owe nothing. `SerialManager`: the event loop runs its ready tasks, and
what a device sent arrives; `PollJoin` is strongly fair because `join()` latches the moment
the queue runs empty. Devices owe no reply. Two liveness properties have the premise
`Drains`: other threads do not keep the queue full for ever. `BroadcastManager`: its two
threads run, files have a deadline (120 s), demos end. `RemoteConnection`: the event loop
runs its tasks, every await of `connect()` has a timeout, and `receive()` times out after
30 s, so that a receive loop learns of its end. `AlarmRecords`: resends go on. Neither owes
a connection: the liveness properties have a server that answers, or a connection that
stays, as a premise. `ProvisioningService`: the event loop runs its tasks, every nmcli
command ends within 30 s and the wait for an address within 20 s. NetworkManager and the
phone owe nothing. `Camera`: the threads run and calls of the camera library return
(opening and reading have timeouts); `Recovers` needs, besides, that somebody looks at a
camera that is not online, since only a preview tries again. `ManualControl`: the patrol's
threads and the monitor's callback run on; nothing else is owed. `LocalClients`: the event
loop runs its tasks, and a send to a client that is gone raises in the end. `Terminal`: the
same, and the watchdog wakes; shells owe no exit, clients no request.

*Speed.* `Tick` waits for a pass of the loop to have been made since the last one: the loop
makes ten a second and a unit is a second or more. With the fault `stall` it does not wait.

*Mutants.* The operators commented "Faulty variant (mutation runs)" are plausible bugs (a
reset forgotten, thresholds swapped, a guard left out); `PROJECT.json` says which property
refutes which.

## 4. Proofs

Eight modules, all checked from the assumptions that the modules proved about name and
those their theorems state. Where a theorem assumes something of the faults, section 6 has
the behaviour that violates the property without it.

`ZoneStateMachineProofs` proves, for every `MaxAge` and every non-empty set of settings,
that `Spec` implies

- `[]TypeOK` (`TypeCorrect`), `[]TimerMatchesState` (`TimerMatches`),
  `[]TimerNeverOverstates` (`TimerIsHonest`), `[]CallbacksBelowState` (`CallbacksAreBelow`),
- `NoEarlyEscalation` (`NeverEarly`) and `OneCallbackPerAbsence` (`CalledOnce`),
- `ImplementsGuard` (`Refinement`): every operation is a step of StoveGuard or none.

The argument: the conjunction `IInv` of the type invariant and the three state invariants is
inductive. None of them is by itself: that a
stage is not entered early needs the timer never to overstate the absence, which needs the
timer to be off at rest; that a callback is not repeated needs the callbacks of an absence
to stay at or below the state. The temperature alarm is why two of them are conditional:
its early return skips `_reset_timers`, so that a timer may run on through it, to be reset
when the alarm clears. `AfterUpdateOutcomes` splits `update()` into its five outcomes; the
step lemmas and the refinement are by cases over them.

With cameras before it, the zone is still one (`DetectedZoneIsAZone`): whatever the windows
hold, a pass is an `update()` or nothing, so that the lemmas of single steps give the same
three properties for any number of cameras. `SpecReturnEndsCountdown` and
`SpecAbsenceIsSmoothed` are about the windows. Their invariant (`Sane`) relates a window to
what was really seen: its last frames are those of the people seen in a row, every run of
empty frames at its end has been counted, it says nobody is there only with
`no_person_threshold` empty frames in it, and it says somebody is after
`person_present_threshold`. The second theorem assumes that the former threshold is not the
smaller one, which holds of the defaults (config.py:104-105).

`FireSafetySystemProofs` is about the running monitor with any finite set of zones, any
settings and any delay:

- `TypeCorrect`: `[]TypeOK`, whatever the faults. Its induction carries along that no zone is
  in a temperature alarm, which is a result of its own (`NoTemperatureAlarm`): since the loop
  passes no temperature, that state of the machine is never reached.
- `AnnouncementsMatch`: `[]AnnouncementMatches`, if zones are not deleted. `UpdateIsHeard`
  shows that `update()` never goes silently from an announced state to one that calls for
  silence without a callback: counting starts only from silent states.
- `CutsNeedAbsence`: `CutNeedsAbsence`, outside patrol mode. The invariant is that a zone's
  timer is off at rest and at most the absence (`AbsenceKept`); `OnlyUpdatesClimb` shows that
  no other step enters cutoff.
- `ReleasesWait`: `ReleaseWaits`, for polls that are not preempted between test and
  assignment. The invariant is that a permit belongs to a cut-off that is old enough
  (`PermitIsOld`): a new cut-off, ordered by whomever, withdraws it.

`MainProcessProofs` is about the parts of the main process, each by itself;
`ProcessIsItsParts` says that a behaviour of MainProcess is one of each part.

- Wiring: `[]WiringIsKept` (`SpecWiringIsKept`) for any zones, indexes from 1 and sensors, as
  long as the file can be written. The invariant says besides that no index in force is 0,
  that the file, migrated, names the installed detector of each zone not refused, and that
  the bus polls every sensor of the configuration, which is why an address that is free on
  the bus is free in the configuration. Four requests are instances of one lemma, `SavedZone`.
- Shells: `[]ShellsAreBounded` and `NothingAfterExit` for any number of connections,
  sessions and places, while the kill of a process group is obeyed. The
  invariant (`TerminalInvariance`) says who holds the lock, which task is in whose `stop()`,
  and how far each `_finish()` has got.
- Saving: it implements AtomicStore (`SavingImplementsStore`), and config.yaml is whole at
  any moment (`ConfigFileIsWhole`), for any configurations, as long as no two saves overlap.
- Serial line: `[]RepliesGetThrough` (`SpecRepliesGetThrough`) for any replies of at most
  `KeptBytes` bytes, any noise and any cut of the line into reads. The invariant (`LineInv`)
  is about the stream, what is in the buffer followed by what is on the line: its bytes are
  in the order they were sent in, those of a reply that was not disturbed and is not wholly
  read stand together (`WholeStands`), a disturbed one misses a byte (`OthersMissAByte`), and
  nothing is left of a reply that was received, nor of one before it (`ReceivedIsGone`). A
  read takes a prefix off the stream (`ReadCuts`): behind every frame found in it, and before
  the first byte of a reply whose last byte is still to come, because such a reply is not
  longer than what a cut buffer keeps. The frames of a buffer are finitely many and can be
  put in order (`CanBePutInOrder`: each goes to the place that is the number of those up to it).

`AlarmOutputProofs` is about what an alarm leads to outside the kitchen.

- Announcements, for any finite set of zones: a zone come to rest is announced once more at
  most (`SpecOneAfterwards`), and who waits is overtaken by each other zone at most twice
  (`SpecTurnsAreTaken`). A round is a list without repetitions, which takes the existence of
  a sorted list of a finite set (`CanBeSorted`, by the least of the sizes at which it would
  fail). What a zone may still be overtaken by depends on whether it and the other are still
  to come in this round (`TurnsAreCounted`).
- Records, for any records, any size of the cache and any number of resends at once:
  `SpecLossIsAccounted` and `SpecInOrder`. The invariant of the first is that the cache a
  resend will empty holds nothing it has not copied, sent, or lost for one of the four
  reasons (`CopiesCover`); of the second, that what a resend would put back comes before what
  it has still to send (`HandsInOrder`).

`DeviceProofs` is about the cameras and the bus.

- `SpecStartedOnce`: an object never has two threads on its device, for any number of objects
  and threads, where requests wait until it connects no more (`~Hasty`). The invariant
  (`Sound`) says that an object that does not run, and that requests can still reach, has no
  thread, and that only the known camera is connecting, outside of a request.
- `BusTypeCorrect` and `SpecOfflineReadsZero`, whatever the faults, for any zones, detectors
  and thermometers: a detector that is missing leaves no zone with a current or a fire. No
  step but a frame, a missing reply and an edit touches a reading (`SameReading`).
- `SpecStrictOrder`, `SpecFireWasReported` and `SpecLoraIsAddressed`, while no reply is late:
  then what is on the wire is one frame at most, the reply to the command in hand, not taken
  yet (`OneReply`). So a stove is lit by its own detector only.
- `SpecPollNeverPilesUp`, while no round of the polling loop raises: outside of `join()` no
  query is queued or in hand, and in it no query twice (`OnePoll`).

`RemoteConnectionProofs` proves `[]AttemptIsAwaited` (`EveryAttemptIsAwaited`) and
`[]IsListenedTo` (`EveryConnectionIsListenedTo`) for every set of restarting tasks, every
limit and every set of faults, assuming only that no task is named like the reconnection or
the absence of one. The inductive invariant adds the types of the variables involved; the
bound on `fails`, which TLC checks, plays no part. Failures return through one operator, and
`FailurePreserves` covers the four ways to fail at once. Of the local clients it proves
`[]OpenIsListed` (`SpecOpenIsListed`), where `accept()` does not give way: whoever a
broadcast took out has failed, and its connection is used no more (`ClientsInv`).

`ProvisioningServiceProofs` proves three properties for every set of configurations and
saved profiles, and any number of commands and questions. Each has an invariant of its own;
TLC checks the three over three and four commands.

- `[]FailureIsUndone` (`SpecFailureIsUndone`), under every fault but `query`, `nmcli`, `late`
  and `unheard`. The invariant says, for each place a call can be at, what there is to be
  undone: over the cable the profiles of the program's making are those of before, or those
  and the call's candidate, whose uuid is new; the connection of before is still up, or is
  the one the call remembers. Nothing else takes a connection away, because NetworkManager
  changes only a device whose connection is missing or has no address yet. That the call is
  about a device at all is the service's part (`Handed`): a configuration refused never gets
  to the worker.
- `ConnectedIsRequested` (`SpecConnectedIsRequested`), under every fault but `nmcli`. The call's
  part (`WorkInv`) is that the profile activated has the configuration asked for: by name
  because all others of that name have been deleted, by uuid because it is new. The service's
  part (`RequestInv`) is that the configuration in hand is the one written last before the
  apply: each apply in the queue agrees with the last set before it, and without one with
  what is pending, unless that was dropped.
- `AnswersNeverTurn` (`SpecAnswersNeverTurn`), under every fault but `same_id`. Of each apply,
  what was heard, what is on its way and what is known follow each other in this order
  (`Answers`); nothing has been said of an apply whose turn has not come (`NothingSaid`).

`ManualControlProofs` proves `[]ProgressIsReal` (`SpecProgressIsReal`) and
`StopsMatchPresses` (`SpecStopsMatchPresses`) for any non-empty set of zones, any set of
threads that the monitor's is not one of, and any debouncing and cooldown of at least one
sample. The inductive invariant is the types, `ProgressIsReal` itself and `AnsweredCounts`,
which relates what the monitor knows to what has happened: a monitor that ordered the last
stop counts the button as pressed until it was seen up, and its `since` is the age of that
stop; a new monitor is ahead of both. That a held button orders one stop only is not proved,
because it is not so when the monitor is replaced (`HeldStopsOnce`, section 6). Each step of a
thread is one of two, `GoesOn` or `Ends`; the first has a lemma that the thread's own step
is shown, the second that a demonstration which ends takes the mode with it.

Two of the state invariants of ZoneStateMachine, `TimerMatchesState` and
`CallbacksBelowState`, are parts of the argument rather than questions of their own, and have
no place in a run.

Only model-checked: liveness everywhere, which TLAPS does not reach; `CommandsGetThrough`,
whose decoder is a recursive function (what it computes takes an induction the installed
provers cannot instantiate).

## 5. Not modelled

That the gas valve's frames are byte for byte those of the relay of detector 1
(serial_helper.py:447, 461, 480, 499): the valve is a device of its own in SerialManager, so
what a cut-off of another zone does to that relay is not seen.
Pictures, snapshots, file names, logging, the layout of messages; inference; the
indicator lamps; the requests that only read. Lengths of pulses below the unit of time.
The detection loop's `time.sleep` after an exception. The zone manager's unlocked
dictionary is taken to be consistent (CPython's global lock), and `Camera.start()` to test
and set `_running` (camera/manager.py:79-87) in one step, though two threads call it without a
lock: CPython 3.11, which the device runs, switches threads at calls and at the ends of loops
only. `StartedOnce`, its theorem and `Recovers` rest on it. Two state machines alive for
one id at once: a zone is re-created only after the pass that held the old one. The
uplink's heartbeat, which decides nothing, and the awaits inside `disconnect()` after its
tasks are cancelled, taken as one.
The provisioning's remote procedure calls, pictures and get_config, which change no state
of the service; what the main program does with its part of a configuration is reduced to
its answer; the deletions of one listing are one step; connections that NetworkManager loses
by itself while a call runs; a reactivation that is accepted and then fails.
The frames of a camera but for their age, the listing of USB devices, the cache of encoded
pictures; a read of the camera library that never returns. Of the patrol, what is played
and uploaded and the list of results; of the button, its pin.
Inference itself; the arithmetic of the CRC; what a setting means to the rest of the program;
bytes and window sizes of a terminal; `shutdown()`. The heartbeat messages of a browser. The
setting of LoRa parameters, which follows the path of the queries SerialManager has, without
the cut-off's demands. The bridge between the BLE process and the main program, reduced to
its answer. Components without a module are in `PROJECT.json` with the reason: calls of
system tools, input and output, observation, and clients of the request handler.

## 6. Divergences

What the code does otherwise than the repository says, reproduced by the configurations
`<...>_divergences.cfg`, whose comments say what to replace for which property
(`tlc -config X.cfg M.tla` with the module of the run of that name; each stops at the
property it names; the two of `broadcast` are described in broadcast.cfg):

| Configuration | Property | The code | The repository says |
|---|---|---|---|
| `zone` | `NoCountdownAtRest` | `_reset_timers` leaves `alarm_remaining` | docs/websocket_protocol.md:1017: 0.0 when it does not apply |
| `zone` | `DropoutIsNoDeparture` | as long as another camera has frames, a camera that saw the person and drops out counts as nobody there | src/main.py:566: without usable frames the state is frozen |
| `zone` | `FailureIsNoDeparture` | a failing inference is an empty frame (detector.py:177) | src/main.py:566: the same |
| `zone` | `ArrivalIsConsecutive` | the window counts frames with a person, in a row or not (detector.py:115) | detector.py:118: frames in a row |
| `zone` | `AbsenceIsSmoothed`, with `person_present_threshold` above `no_person_threshold` | the window is as long as the larger threshold, so that the frames without a person it counts need not follow each other | detector.py:112: N frames in a row without a person |
| `system` | `StepByStep` | a zone without frames is skipped while its timer runs; stages are jumped | docs/websocket_protocol.md:582: step by step; src/main.py:567: the state is frozen |
| `system` | `CutNeedsAbsence` | a person seen in patrol mode does not stop the timer | docs/websocket_protocol.md:526: unattended for `action_time` |
| `system` | `ReleaseWaits` | the poll loop tests and assigns without the lock (serial_manager.py:475-480) | state_machine.py:247: ten seconds after the cut-off |
| `system` | `SilentAtRest` | a deleted zone's announcement stays, for an id that is given out again | src/main.py:302: stops at rest |
| `system` | `HotStoveAlarms` | the loop passes no temperature (src/main.py:587) | docs/websocket_protocol.md:577: temp_alarm at once |
| `system` | `CutIsCarriedOut` | `_on_cutoff` (src/main.py:242) ignores that `cutoff()` is refused while the serial manager restarts; the zone stays in cutoff and nothing was sent | docs/websocket_protocol.md:526: the power is cut |
| `bus` | `DeadGoesCold` | any reading marks the current query as answered (serial_manager.py:616), so that late replies of one detector keep another that is dead from being counted out | serial_manager.py:680: misses in a row set it to zero |
| `bus` | `StrictOrder` | a late reply answers the next command | serial_manager.py:114: strictly send, reply |
| `bus` | `PermitComes` | the second zone of a detector is skipped (serial_manager.py:462) | docs/websocket_protocol.md:580: released by current |
| `bus` | `RelayComesBack` | `stop()` drops the coroutine that was to reset the relay | serial_manager.py:970: then the reset is sent |
| `broadcast` | `PatrolIsQuiet` | the flag is read at the head of a round only | src/main.py:410: announcements pause in patrol mode |
| `broadcast` | `QuietAtRest` | a queued file is not withdrawn | src/main.py:302: stops at rest |
| `links` | `OutageIsSurvived` | a login that cannot reach the server counts as a refusal (websocket_client.py:206): five, in an outage with the token expired, end reconnection | docs/websocket_protocol.md:2056: retried, at most every 30 s; websocket_client.py:32: failures of authentication |
| `links` | `GivesUpWhenHungUp` | every accepted handshake sets the count to zero (websocket_client.py:253) | websocket_client.py:34: a connection closed at once is a failure of authentication |
| `links` | `RefusedTokenIsRenewed` | the refusal that reaches the limit keeps the token, and the next start presents it again | docs/websocket_protocol.md:2070-2071: cleared, then a login |
| `links` | `OneConnection` | a start does not ask whether a connection is up, and replaces it unclosed | websocket_client.py:494: one reconnection at a time |
| `links` | `OpenIsListed`, with `AcceptYields` | a client is listed before `accept()` is done (websocket.py:54); if that gives way to a broadcast, its send fails and the client, served from then on, is off the list | websocket.py:98: the disconnected ones are taken out |
| `records` | `NothingLost` | a resend clears the cache at its end (websocket_client.py:561), with what came meanwhile | docs/websocket_protocol.md:87: cached and resent |
| `records` | `CacheAlwaysDrains` | what an outlived resend puts back waits for another connection | docs/websocket_protocol.md:87: resent after reconnecting |
| `provisioning` | `WifiSurvivesFailure` | the WiFi profile of before is deleted before the new one is tried, and not restored | network_applier.py:209: the connection is lost briefly, the `up` that follows brings it back |
| `provisioning` | `ConnectedIsRequested` | deletions that fail are not noticed (network_applier.py:213-218), and over DHCP the profile is activated by name | network_applier.py:208: all are gone, so that `up` is unambiguous |
| `provisioning` | `FailureIsUndone` | a failing query counts as no hotspot, or no connection, to go back to | network_applier.py:250: the device can still be reached |
| `provisioning` | `FailureIsUndone`, with `unheard` | an ethernet profile whose `add` timed out, but was made, is not known as added and not deleted (network_applier.py:347-357) | network_applier.py:335: the candidate is deleted on failure |
| `provisioning` | `FailureIsUndone` | a deletion that raises in the `finally` (network_applier.py:369) skips the reactivation; one that raises after success reports failure | network_applier.py:335: the connection of before is restored |
| `provisioning` | `NothingLeftBehind` | a process killed in the middle leaves its ethernet profile, of the highest priority | network_applier.py:335: the candidate is deleted on failure |
| `provisioning` | `CancelLeadsToIdle` | a scan that raises leaves SCANNING, in which cancel is refused | docs/ble-provisioning-protocol.md:215: cancel leads to IDLE |
| `provisioning` | `AnswersNeverTurn` | an error of any command with the id of the apply replaces its result | docs/ble-provisioning-protocol.md:170: the state or error of that apply |
| `provisioning` | `HalfFrameIsForgotten` | the decoder is emptied by the watchdog only, which misses a disconnection followed at once by a connection | gatt_server.py:352: a half frame left behind must not spoil the next connection |
| `provisioning` | `NothingWaits` | a length that lies makes the decoder wait for more, with a whole frame behind it, until the next write | protocol.py:95: it looks for the next magic |
| `provisioning` | `CommandsGetThrough`, without `MtuTold` | the watchdog, having asked and found nobody, empties the decoder of a phone that connected meanwhile and of which no MTU was seen | gatt_server.py:339: a half frame just received must not be cleared |
| `api` | `StoppedIsGone` | a stop answers after five seconds at the most, the session still there | docs/websocket_protocol.md:2023: stopped, then `terminal_exit` |
| `api` | `LastOutputArrives` | `_finish` cancels the task that was to send the last output | terminal.py:254: the exit does not overtake the last output |
| `api` | `SlotComesBack`, with `cancel` | a restart of the uplink cancels the request in the middle of `_finish`, and the session keeps its place for good | terminal.py:345: no dead session keeps a place |
| `api` | `ShellsAreBounded`, with `immortal` | a shell that survives its kill gives its place free | terminal.py:37: at most `MAX_SESSIONS`, for want of memory |
| `api` | `FileIsWhole`, `PromisedIsSaved`, `Overlapping` | the audio gain is saved on a thread of its own (ws_handler.py:1133), and two saves share one temporary file | config.py:538: written atomically |
| `api` | `ReadsItsOwnSensor` | a deleted zone stays in the table of temperatures, and a new one of the same id reads its sensor | docs/websocket_protocol.md:640: null when not enabled |
| `api` | `RefusedStaysOut`, with `noserial` | an update changes `serial_index` and then raises (ws_handler.py:487, 499) | the request is answered as failed |
| `api` | `NotADetectors`, `NotAnothers`; `SensorsAreDistinct` with `full` | the allocation looks at the sensors registered now: not at the detectors of the same bus, nor at what the configuration keeps for zones that are off; and at 0 when all are taken | serial_manager.py:776: skips what is used |
| `api` | `WiringIsKept`, with an index of 0 | a zone with the default index 0 makes the next start shift the index of every zone (config.py:507-516) | docs/websocket_protocol.md:696: 0 by default; config.py:513: the addresses stay |
| `camera` | `StaysOnline` | previews call `reconnect()` while the reader connects (camera/manager.py:209), which gives up the connection just opened | docs/Web端操作指南.md:163: the picture is refreshed every second |
| `camera` | `Recovers`, without previews | a connection that fails at the first attempt is not tried again (camera/manager.py:135) | docs/websocket_protocol.md:970: an offline camera is reconnected automatically |
| `camera` | `SeesThePresent` | a reopened camera is online before it has a new frame, and still has the old one | src/main.py:567: without usable frames the zone is skipped |
| `camera` | `LetsGo`, `StartedOnce` | `_open_capture` marks running a camera that was stopped meanwhile: it reads on, unknown to the manager, and a second `start()` makes a second thread | camera/manager.py:187: stops the camera |
| `manual` | `CutsInPatrol` | the threads do not look at `is_active` again, and cut off after the patrol | docs/Web端操作指南.md:248: in patrol mode |
| `manual` | `DemoNeedsFire` | the fire is looked at when the demonstration is asked for, the power cut twenty seconds later | docs/websocket_protocol.md:1814: the stove has its fire on |
| `manual` | `DemoLasts` | one demonstration's end clears the demo mode of another | patrol_manager.py:617: demo mode on, people are not detected |
| `manual` | `HeldStopsOnce` | a reload puts a new monitor in place, to which a button still held, and stopped for, is a new press, cooldown or not (gpio.py:385-401) | gpio.py:242: held, it does not trigger again |
| `manual` | `HeldIsAnswered` | a press confirmed within the cooldown marks the button pressed and orders nothing (gpio.py:331-336), however long it is held | gpio.py:241-242: triggers once at a press; the cooldown is against bouncing |

Also, read off the code: the provisioning never sends `scan_failed`, `bad_frame` or
`FAILED`, which docs/ble-provisioning-protocol.md lists: a scan that fails is an empty
list, a bad frame is dropped, and a failure ends in `IDLE`.
A release by current asks for ten seconds since the cut-off and a current now, where
docs/websocket_protocol.md:580 says a current for ten seconds.
`reload_estop_monitor` keeps a monitor from running that was enabled after the start
(gpio.py:385-401). `is_demo_mode`, which
is to keep people from being detected (patrol_manager.py:617), is read nowhere. The device's
self-check reports every zone's state as normal, whatever it finds.

## 7. What is left

1. *Serial manager*: the parameters of the radio module, and the commands that give a
   sensor its address, as commands of the queue.
2. *Provisioning and main program*: the bridge between the two processes.
3. *Algorithms* as functions against reference definitions: the check sums of the frames,
   the post-processing of the detector.
4. *Proofs*: that each zone of FireSafetySystem implements ZoneStateMachine.
