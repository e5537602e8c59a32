---------------------------- MODULE ManualControl ----------------------------
(***************************************************************************)
(* What people make the device do by hand, past the state machines: the    *)
(* patrol (src/patrol/patrol_manager.py), whose checks, demonstrations and *)
(* forced actions run in threads of their own, any number of them at once, *)
(* and the emergency stop (EStopMonitor of src/output/gpio.py, _on_estop   *)
(* of src/main.py), whose thread samples a button and cuts off every zone  *)
(* that is enabled.                                                        *)
(*                                                                         *)
(* A step of a thread ends where it sleeps.  What is played, uploaded and  *)
(* put into the list of results, and what the checks find, is left out;    *)
(* there are zones, and they come in any order.                            *)
(***************************************************************************)
EXTENDS Naturals, FiniteSets

CONSTANTS Zone,
          Slot,      \* room for the threads of the patrol (bound)
          Debounce,  \* _debounce_count
          Cooldown,  \* _cooldown_s, in samples
          Together   \* the patrol and the button are at work at the same time

ASSUME NumbersAssumption == Debounce \in Nat \ {0} /\ Cooldown \in Nat \ {0}
ASSUME TogetherAssumption == Together \in BOOLEAN
ASSUME ZoneAssumption == Zone # {}
ASSUME SlotAssumption == "monitor" \notin Slot

VARIABLES
  enabled,    \* the zones there are that are enabled; the others are disabled
  burning,    \* serial_manager.is_fire_on
  serialUp,   \* the serial manager takes commands
  cut,        \* zones with a cut-off ordered last, not a release
  active,     \* _state.is_active
  step,       \* _state.current_step
  demo,       \* _demo_mode
  jobs,       \* the threads of the patrol, and the callback of the button's
  button,     \* held down
  listening,  \* the monitor's thread runs
  count,      \* _consecutive, as far as it matters
  pressed,    \* _state_pressed
  since,      \* time.time() - _last_trigger_ts, up to Cooldown
  released,   \* history: the button was seen up since the last emergency stop
  rebuilt,    \* history: a monitor was put in place since the last emergency stop
  calm        \* history: readings since the last emergency stop, up to Cooldown

kitchen == <<enabled, burning, serialUp>>
patrol == <<active, step, demo>>
monitor == <<listening, count, pressed, since>>
history == <<released, rebuilt, calm>>
vars == <<kitchen, cut, patrol, jobs, button, monitor, history>>

Callback == "monitor"
NoJob == [kind |-> "none", phase |-> 0, todo |-> {}]

\* What a monitor starts with, whatever the one before knew.
NewMonitor ==
  /\ count' = 0 /\ pressed' = FALSE /\ since' = Cooldown

Init ==
  /\ enabled = Zone /\ burning = {} /\ serialUp = TRUE
  /\ cut = {}
  /\ active = FALSE /\ step = "idle" /\ demo = FALSE
  /\ jobs = [s \in Slot \cup {Callback} |-> NoJob]
  /\ button = FALSE
  /\ listening \in BOOLEAN
  /\ count = 0 /\ pressed = FALSE /\ since = Cooldown
  /\ released = TRUE /\ rebuilt = FALSE /\ calm = Cooldown

\* Bound: with Together FALSE, either stands as it did at first, and all that it alone
\* looks at, while the other is at work; what they share is the queue of the serial manager.
MonitorRests == Together \/ (/\ jobs[Callback] = NoJob /\ count = 0 /\ since = Cooldown
                             /\ history = <<TRUE, FALSE, Cooldown>>
                             /\ ~button /\ enabled = Zone)
PatrolRests == Together \/ (burning = {} /\ \A s \in Slot : jobs[s] = NoJob)

-----------------------------------------------------------------------------
(***************************************************************************)
(* The requests of the patrol.                                             *)
(***************************************************************************)
Accepted(zones) == IF serialUp THEN zones ELSE {}

StartPatrol ==
  /\ ~active /\ active' = TRUE /\ step' = "idle"
  /\ UNCHANGED <<kitchen, cut, demo, jobs, button, monitor, history>>

StopPatrol ==
  /\ active' = FALSE /\ step' = "idle" /\ demo' = FALSE
  /\ UNCHANGED <<kitchen, cut, jobs, button, monitor, history>>

\* Each operation starts a thread of its own.
Launch(kind, zones) ==
  /\ active
  /\ MonitorRests
  /\ \E s \in Slot :
       /\ jobs[s] = NoJob
       /\ jobs' = [jobs EXCEPT ![s] = [kind |-> kind, phase |-> 0, todo |-> zones]]
  /\ UNCHANGED <<kitchen, cut, patrol, button, monitor, history>>

DeviceSelfCheck == Launch("check", {})
AlarmDemo == Launch("demo", {})
AlarmDemoZone(z) == z \in burning /\ Launch("demo_zone", {z})
ForceWarningAll == Launch("warning", {})
ForceAlarmAll == Launch("alarm", {})
ForceCutoffAll == Launch("cutoff", {})

Request ==
  \/ DeviceSelfCheck \/ AlarmDemo \/ ForceWarningAll \/ ForceAlarmAll \/ ForceCutoffAll
  \/ \E z \in Zone : AlarmDemoZone(z)

CutoffZone(z) ==
  /\ active
  /\ cut' = cut \cup Accepted({z})
  /\ UNCHANGED <<kitchen, patrol, jobs, button, monitor, history>>

-----------------------------------------------------------------------------
(***************************************************************************)
(* The threads.                                                            *)
(***************************************************************************)
IsDemo(j) == j.kind \in {"demo", "demo_zone"}

\* What a thread has put into _state.current_step when it sleeps.
StepOf(j) == CASE j.phase = 0 -> "none"
               [] j.kind = "check" -> IF j.phase = 1 THEN "self_check_person" ELSE "self_check_fire"
               [] IsDemo(j) -> "alarm_demo"
               [] j.kind = "warning" -> "force_warning"
               [] j.kind = "alarm" -> "force_alarm"
               [] OTHER -> "force_cutoff"

GoesOn(s, phase, todo) ==
  LET j == [kind |-> jobs[s].kind, phase |-> phase, todo |-> todo]
  IN  jobs' = [jobs EXCEPT ![s] = j] /\ step' = StepOf(j)
Ends(s) == jobs' = [jobs EXCEPT ![s] = NoJob] /\ step' = "idle"

\* _run_self_check(): presence in one zone after the other, then fire.
Check(s) ==
  LET j == jobs[s] IN
  /\ j.kind = "check"
  /\ \/ \E phase \in {j.phase, j.phase + 1} \cap {1, 2} : GoesOn(s, phase, {})
     \/ j.phase = 2 /\ Ends(s)
  /\ UNCHANGED <<kitchen, cut, active, demo, button, monitor, history>>

\* Faulty variant (mutation runs): nothing to show, and the mode is left on.
DemoStays == TRUE
DemoOver == FALSE

\* _run_alarm_demo(): of the first zone with its fire on, cutting nothing.
Demo(s) ==
  LET j == jobs[s] IN
  /\ j.kind = "demo"
  /\ \/ j.phase = 0 /\ burning = {} /\ Ends(s) /\ demo' = DemoOver
     \/ j.phase = 0 /\ burning # {} /\ GoesOn(s, 1, {}) /\ demo' = TRUE
     \/ j.phase \in {1, 2} /\ GoesOn(s, j.phase + 1, {}) /\ UNCHANGED demo
     \/ j.phase = 3 /\ Ends(s) /\ demo' = FALSE
  /\ UNCHANGED <<kitchen, cut, active, button, monitor, history>>

\* _run_alarm_demo_zone(): the third stage is a cut-off.
DemoZone(s) ==
  LET j == jobs[s] IN
  /\ j.kind = "demo_zone"
  /\ \/ /\ j.phase < 2 /\ GoesOn(s, j.phase + 1, j.todo)
        /\ demo' = (j.phase = 0 \/ demo)
        /\ UNCHANGED cut
     \/ j.phase = 2 /\ Ends(s) /\ demo' = FALSE /\ cut' = cut \cup Accepted(j.todo)
  /\ UNCHANGED <<kitchen, active, button, monitor, history>>

\* _run_force_warning() and _run_force_alarm(): sounds alone, zone by zone.
Sound(s) ==
  LET j == jobs[s] IN
  /\ j.kind \in {"warning", "alarm"}
  /\ \/ GoesOn(s, 1, {})
     \/ j.phase = 1 /\ Ends(s)
  /\ UNCHANGED <<kitchen, cut, active, demo, button, monitor, history>>

\* _run_force_cutoff(): every zone, enabled or not.
ForceCutoff(s) ==
  LET j == jobs[s] IN
  /\ j.kind = "cutoff"
  /\ \/ j.phase = 0 /\ GoesOn(s, 1, Zone) /\ UNCHANGED cut
     \/ \E z \in j.todo :
          /\ j.phase = 1
          /\ GoesOn(s, 1, j.todo \ {z})
          /\ cut' = cut \cup Accepted({z})
     \/ j.phase = 1 /\ j.todo = {} /\ Ends(s) /\ UNCHANGED cut
  /\ UNCHANGED <<kitchen, active, demo, button, monitor, history>>

-----------------------------------------------------------------------------
(***************************************************************************)
(* The button.                                                             *)
(***************************************************************************)
AtMost(n, most) == IF n > most THEN most ELSE n

\* Faulty variant (mutation runs): confirmed anew as long as it is held.
NotHeld == TRUE
NotPressedYet == ~pressed

\* _process_sample(): released; down, but not confirmed, or confirmed before; just
\* confirmed, too soon after the last time; just confirmed.
Sample ==
  /\ listening /\ jobs[Callback] = NoJob
  /\ LET n == AtMost(count + 1, Debounce)
         confirmed == button /\ n = Debounce /\ NotPressedYet
         triggers == confirmed /\ since = Cooldown
     IN  /\ count' = IF button THEN n ELSE 0
         /\ pressed' = (button /\ (confirmed \/ pressed))
         /\ since' = IF triggers THEN 0 ELSE AtMost(since + 1, Cooldown)
         /\ released' = (~triggers /\ (released \/ ~button))
         /\ rebuilt' = (~triggers /\ rebuilt)
         /\ calm' = IF triggers THEN 0 ELSE AtMost(calm + 1, Cooldown)
         /\ jobs' = IF triggers
                    THEN [jobs EXCEPT ![Callback] = [kind |-> "estop", phase |-> 0, todo |-> Zone]]
                    ELSE jobs
  /\ UNCHANGED <<kitchen, cut, patrol, button, listening>>

\* A reading that fails changes nothing, but takes its time.
SampleFails ==
  /\ listening /\ jobs[Callback] = NoJob
  /\ since' = AtMost(since + 1, Cooldown) /\ calm' = AtMost(calm + 1, Cooldown)
  /\ UNCHANGED <<kitchen, cut, patrol, jobs, button, listening, count, pressed, released, rebuilt>>

\* Faulty variant (mutation runs): a zone that is disabled ends the loop.
RestNone(todo, z) == IF z \in enabled THEN todo \ {z} ELSE {}
Rest(todo, z) == todo \ {z}

\* _on_estop(): every zone, if it is enabled by the time it is looked at.
EStop ==
  LET j == jobs[Callback] IN
  /\ j.kind = "estop"
  /\ \/ \E z \in j.todo :
          /\ jobs' = [jobs EXCEPT ![Callback].todo = Rest(j.todo, z)]
          /\ cut' = cut \cup Accepted({z} \cap enabled)
     \/ j.todo = {} /\ jobs' = [jobs EXCEPT ![Callback] = NoJob] /\ UNCHANGED cut
  /\ UNCHANGED <<kitchen, patrol, button, monitor, history>>

\* reload_estop_monitor(): a new monitor, that runs if the old one did, and that
\* takes a button held down for pressed once more, cooldown or not.
Reload ==
  /\ jobs[Callback] = NoJob /\ PatrolRests
  /\ listening' \in {FALSE, listening}
  /\ NewMonitor
  /\ rebuilt' = TRUE
  /\ UNCHANGED <<kitchen, cut, patrol, jobs, button, released, calm>>

-----------------------------------------------------------------------------
Flipped(S, z) == IF z \in S THEN S \ {z} ELSE S \cup {z}

\* The kitchen: zones are enabled and disabled, fires lit, buttons pressed, zones
\* released, commands refused for a while.
Around ==
  \/ /\ \E z \in Zone :
          \/ PatrolRests /\ enabled' = Flipped(enabled, z) /\ UNCHANGED burning
          \/ MonitorRests /\ burning' = Flipped(burning, z) /\ UNCHANGED enabled
     /\ UNCHANGED <<serialUp, cut, button>>
  \/ PatrolRests /\ button' = ~button /\ UNCHANGED <<kitchen, cut>>
  \/ /\ serialUp' = ~serialUp
     /\ UNCHANGED <<enabled, burning, cut, button>>
  \/ /\ \E z \in cut : cut' = cut \ {z}
     /\ UNCHANGED <<kitchen, button>>
Surroundings == Around /\ UNCHANGED <<patrol, jobs, monitor, history>>

Run(s) == Check(s) \/ Demo(s) \/ DemoZone(s) \/ Sound(s) \/ ForceCutoff(s)

Next ==
  \/ StartPatrol \/ StopPatrol \/ Request \/ \E z \in Zone : CutoffZone(z)
  \/ \E s \in Slot : Run(s)
  \/ Sample \/ SampleFails \/ EStop \/ Reload
  \/ Surroundings

Spec == Init /\ [][Next]_vars

\* Threads run.
FairSpec == Spec /\ WF_vars(EStop) /\ \A s \in Slot : WF_vars(Run(s))
\* The monitor's, too.
SampledSpec == FairSpec /\ WF_vars(Sample)

-----------------------------------------------------------------------------
Jobs == {jobs[s] : s \in Slot}

TypeOK ==
  /\ enabled \subseteq Zone /\ burning \subseteq Zone /\ cut \subseteq Zone
  /\ serialUp \in BOOLEAN /\ active \in BOOLEAN /\ demo \in BOOLEAN /\ button \in BOOLEAN
  /\ listening \in BOOLEAN /\ pressed \in BOOLEAN
  /\ released \in BOOLEAN /\ rebuilt \in BOOLEAN
  /\ step \in {"idle", "self_check_person", "self_check_fire", "alarm_demo",
               "force_warning", "force_alarm", "force_cutoff"}
  /\ jobs \in [Slot \cup {Callback} ->
                [kind : {"none", "check", "demo", "demo_zone", "warning", "alarm", "cutoff", "estop"},
                 phase : 0..3, todo : SUBSET Zone]]
  /\ count \in 0..Debounce /\ since \in 0..Cooldown /\ calm \in 0..Cooldown

(***************************************************************************)
(* Threads of the patrol end in any order and may be left behind by a      *)
(* patrol that is over, but what get_patrol_status says is going on is     *)
(* going on: no step, and no demo mode, stays behind when its thread ends. *)
(***************************************************************************)
ProgressIsReal ==
  /\ step # "idle" => \E j \in Jobs : StepOf(j) = step
  /\ demo => \E j \in Jobs : IsDemo(j) /\ j.phase > 0

(***************************************************************************)
(* A demonstration, a forced cut-off and an emergency stop order the       *)
(* cut-off of every zone they set out for, whatever happens to the zones,  *)
(* the patrol and the button on the way, unless the serial manager         *)
(* refuses; the emergency stop passes over a zone that is disabled by then.*)
(***************************************************************************)
OrderedIsCut == \A z \in Zone :
  /\ (\E s \in Slot : z \in jobs[s].todo) ~> z \in cut \/ ~serialUp
  /\ z \in jobs[Callback].todo ~> z \in cut \/ z \notin enabled \/ ~serialUp

\* An emergency stop is ordered; the button has been read down often enough.
Stops == jobs[Callback] = NoJob /\ jobs'[Callback] # NoJob
Confirms == count < Debounce /\ count' = Debounce

(***************************************************************************)
(* Emergency stops against presses of the button, that bounces, cannot     *)
(* always be read, and may be held while monitors are replaced.  No stop   *)
(* too many: a monitor that has ordered one orders another only when the   *)
(* button was seen up since, and the cooldown is over; a new monitor may   *)
(* order one of its own.  None too few: a button that is held long enough  *)
(* is answered, unless a stop was ordered within the cooldown.             *)
(***************************************************************************)
StopsMatchPresses ==
  [][ /\ Stops => rebuilt \/ (released /\ calm = Cooldown)
      /\ Confirms => Stops \/ calm < Cooldown ]_vars

(***************************************************************************)
(* The operations of the patrol work in patrol mode: nothing is cut off by *)
(* them after it.                                                          *)
(***************************************************************************)
CutsInPatrol ==
  [][ \A s \in Slot : jobs'[s] # jobs[s] /\ cut' # cut => active ]_vars

(***************************************************************************)
(* A zone that is cut off for demonstration has its fire on.               *)
(***************************************************************************)
DemoNeedsFire ==
  [][ \A s \in Slot : jobs[s].kind = "demo_zone" /\ jobs'[s] = NoJob => jobs[s].todo \subseteq burning ]_vars

(***************************************************************************)
(* The demo mode lasts for as long as a demonstration.                     *)
(***************************************************************************)
DemoLasts == \A j \in Jobs : IsDemo(j) /\ j.phase > 0 /\ active => demo

(***************************************************************************)
(* A button that is held does not trigger again: a stop needs the button   *)
(* to have been seen up since the last one, whichever monitor ordered that.*)
(***************************************************************************)
HeldStopsOnce == [][ Stops => released ]_vars

(***************************************************************************)
(* A button that was up and is held down since is answered.                *)
(***************************************************************************)
HeldIsAnswered ==
  button /\ listening /\ released ~> ~button \/ ~listening \/ ~released
=============================================================================
