------------------------ MODULE ManualControlProofs ------------------------
(***************************************************************************)
(* For any zones, any number of threads of the patrol, and any numbers for *)
(* the button: what is said to be going on in a patrol is going on, and    *)
(* emergency stops match the presses of the button.                        *)
(***************************************************************************)
EXTENDS ManualControl, TLAPS

\* A monitor that has ordered a stop counts the button as pressed until it was seen up,
\* and its cooldown is as old as the stop; a new one is ahead of both.
AnsweredCounts ==
  /\ released \/ rebuilt \/ pressed
  /\ pressed => count = Debounce
  /\ calm <= since
  /\ rebuilt \/ since = calm

IInv == TypeOK /\ ProgressIsReal /\ AnsweredCounts

\* What a thread says of itself is a step that the patrol has.
LEMMA StepType ==
  ASSUME NEW j, j.phase # 0
  PROVE  StepOf(j) \in {"self_check_person", "self_check_fire", "alarm_demo",
                        "force_warning", "force_alarm", "force_cutoff"}
BY DEF StepOf

LEMMA StepOfNone == StepOf(NoJob) = "none" /\ ~IsDemo(NoJob)
BY DEF StepOf, NoJob, IsDemo

LEMMA InitEstablishes == Init => IInv
<1> SUFFICES ASSUME Init PROVE IInv
  OBVIOUS
<1>1. TypeOK
  <2>1. NoJob \in [kind : {"none", "check", "demo", "demo_zone", "warning", "alarm", "cutoff", "estop"},
                   phase : 0..3, todo : SUBSET Zone]
    BY DEF NoJob
  <2>2. 0 \in 0..Debounce /\ Cooldown \in 0..Cooldown
    BY NumbersAssumption
  <2> QED
    BY <2>1, <2>2 DEF Init, TypeOK
<1>2. ProgressIsReal /\ AnsweredCounts
  BY NumbersAssumption DEF Init, ProgressIsReal, AnsweredCounts
<1> QED
  BY <1>1, <1>2 DEF IInv

-----------------------------------------------------------------------------
\* A thread that goes on says what it does, and has not gone over to another kind.
LEMMA GoesOnIsReal ==
  ASSUME IInv, NEW s \in Slot, NEW phase \in 1..3, NEW todo \in SUBSET Zone,
         GoesOn(s, phase, todo),
         demo' => demo \/ IsDemo(jobs[s])
  PROVE  /\ jobs' \in [Slot \cup {Callback} ->
                [kind : {"none", "check", "demo", "demo_zone", "warning", "alarm", "cutoff", "estop"},
                 phase : 0..3, todo : SUBSET Zone]]
         /\ step' \in {"self_check_person", "self_check_fire", "alarm_demo",
                       "force_warning", "force_alarm", "force_cutoff"}
         /\ ProgressIsReal'
<1> DEFINE Kinds == {"none", "check", "demo", "demo_zone", "warning", "alarm", "cutoff", "estop"}
<1> DEFINE j == [kind |-> jobs[s].kind, phase |-> phase, todo |-> todo]
<1>1. /\ jobs \in [Slot \cup {Callback} -> [kind : Kinds, phase : 0..3, todo : SUBSET Zone]]
      /\ jobs' = [jobs EXCEPT ![s] = j]
      /\ step' = StepOf(j)
  BY DEF IInv, TypeOK, GoesOn
<1>2. j \in [kind : Kinds, phase : 0..3, todo : SUBSET Zone]
  BY <1>1
<1>3. jobs' \in [Slot \cup {Callback} -> [kind : Kinds, phase : 0..3, todo : SUBSET Zone]]
  BY <1>1, <1>2
<1>4. step' \in {"self_check_person", "self_check_fire", "alarm_demo",
                 "force_warning", "force_alarm", "force_cutoff"}
  BY <1>1, StepType
<1>5. j \in Jobs'
  BY <1>1 DEF Jobs
<1>6. demo' => \E i \in Jobs' : IsDemo(i) /\ i.phase > 0
  <2> SUFFICES ASSUME demo' PROVE \E i \in Jobs' : IsDemo(i) /\ i.phase > 0
    OBVIOUS
  <2>1. CASE IsDemo(j)
    BY <2>1, <1>5
  <2>2. CASE ~IsDemo(j)
    <3>0. ~IsDemo(jobs[s])
      BY <2>2 DEF IsDemo
    <3>1. PICK t \in Slot : IsDemo(jobs[t]) /\ jobs[t].phase > 0
      BY <3>0 DEF IInv, ProgressIsReal, Jobs
    <3>2. t # s
      BY <3>0, <3>1
    <3>3. jobs'[t] = jobs[t] /\ jobs[t] \in Jobs'
      BY <3>2, <1>1 DEF Jobs
    <3> QED
      BY <3>1, <3>3
  <2> QED
    BY <2>1, <2>2
<1> QED
  BY <1>1, <1>3, <1>4, <1>5, <1>6 DEF ProgressIsReal

\* A thread that ends leaves the patrol at rest; one that was no demonstration
\* leaves the mode to those that are.
LEMMA EndIsReal ==
  ASSUME IInv, NEW s \in Slot, Ends(s), demo' => demo /\ ~IsDemo(jobs[s])
  PROVE  /\ jobs' \in [Slot \cup {Callback} ->
                [kind : {"none", "check", "demo", "demo_zone", "warning", "alarm", "cutoff", "estop"},
                 phase : 0..3, todo : SUBSET Zone]]
         /\ step' = "idle"
         /\ ProgressIsReal'
<1> DEFINE Kinds == {"none", "check", "demo", "demo_zone", "warning", "alarm", "cutoff", "estop"}
<1>1. /\ jobs \in [Slot \cup {Callback} -> [kind : Kinds, phase : 0..3, todo : SUBSET Zone]]
      /\ jobs' = [jobs EXCEPT ![s] = NoJob]
      /\ step' = "idle"
  BY DEF IInv, TypeOK, Ends
<1>2. NoJob \in [kind : Kinds, phase : 0..3, todo : SUBSET Zone]
  BY DEF NoJob
<1>3. jobs' \in [Slot \cup {Callback} -> [kind : Kinds, phase : 0..3, todo : SUBSET Zone]]
  BY <1>1, <1>2
<1>4. demo' => \E i \in Jobs' : IsDemo(i) /\ i.phase > 0
  <2> SUFFICES ASSUME demo' PROVE \E i \in Jobs' : IsDemo(i) /\ i.phase > 0
    OBVIOUS
  <2>1. PICK t \in Slot : IsDemo(jobs[t]) /\ jobs[t].phase > 0
    BY DEF IInv, ProgressIsReal, Jobs
  <2>2. t # s
    BY <2>1
  <2>3. jobs'[t] = jobs[t] /\ jobs[t] \in Jobs'
    BY <2>2, <1>1 DEF Jobs
  <2> QED
    BY <2>1, <2>3
<1> QED
  BY <1>1, <1>3, <1>4 DEF ProgressIsReal

\* Where neither the threads of the patrol nor its state change, it stays real.
LEMMA RealElsewhere ==
  ASSUME IInv, UNCHANGED patrol, \A s \in Slot : jobs'[s] = jobs[s]
  PROVE  ProgressIsReal'
<1>1. Jobs' = Jobs
  BY DEF Jobs
<1> QED
  BY <1>1 DEF IInv, ProgressIsReal, patrol

\* The requests: threads that are started join those there are.
LEMMA RequestsPreserve ==
  ASSUME IInv, StartPatrol \/ StopPatrol \/ Request \/ \E z \in Zone : CutoffZone(z)
  PROVE  IInv'
<1>1. CASE StartPatrol
  <2>1. TypeOK' /\ AnsweredCounts'
    BY <1>1 DEF IInv, TypeOK, AnsweredCounts, StartPatrol, kitchen, monitor, history
  <2>2. Jobs' = Jobs
    BY <1>1 DEF StartPatrol, Jobs
  <2>3. ProgressIsReal'
    BY <1>1, <2>2 DEF IInv, ProgressIsReal, StartPatrol
  <2> QED
    BY <2>1, <2>3 DEF IInv
<1>2. CASE StopPatrol
  <2>1. TypeOK' /\ AnsweredCounts'
    BY <1>2 DEF IInv, TypeOK, AnsweredCounts, StopPatrol, kitchen, monitor, history
  <2>2. ProgressIsReal'
    BY <1>2 DEF ProgressIsReal, StopPatrol
  <2> QED
    BY <2>1, <2>2 DEF IInv
<1>3. CASE \E z \in Zone : CutoffZone(z)
  <2>1. PICK z \in Zone : CutoffZone(z)
    BY <1>3
  <2>2. TypeOK' /\ AnsweredCounts'
    BY <2>1 DEF IInv, TypeOK, AnsweredCounts, CutoffZone, Accepted, kitchen, patrol, monitor, history
  <2>3. ProgressIsReal'
    BY <2>1, RealElsewhere DEF CutoffZone
  <2> QED
    BY <2>2, <2>3 DEF IInv
<1>4. CASE Request
  <2>1. PICK kind \in {"check", "demo", "demo_zone", "warning", "alarm", "cutoff"},
             zones \in SUBSET Zone : Launch(kind, zones)
    BY <1>4 DEF Request, DeviceSelfCheck, AlarmDemo, AlarmDemoZone, ForceWarningAll,
                ForceAlarmAll, ForceCutoffAll, IInv, TypeOK
  <2>2. PICK s \in Slot :
          /\ jobs[s] = NoJob
          /\ jobs' = [jobs EXCEPT ![s] = [kind |-> kind, phase |-> 0, todo |-> zones]]
    BY <2>1 DEF Launch
  <2>3. UNCHANGED <<kitchen, cut, patrol, button, monitor, history>>
    BY <2>1 DEF Launch
  <2>4. TypeOK' /\ AnsweredCounts'
    BY <2>2, <2>3 DEF IInv, TypeOK, AnsweredCounts, kitchen, patrol, monitor, history
  <2>5. jobs[s] \in Jobs /\ \A j \in Jobs : j # NoJob => j \in Jobs'
    BY <2>2 DEF Jobs, IInv, TypeOK
  <2>6. ASSUME NEW j \in Jobs, StepOf(j) = step \/ IsDemo(j)
        PROVE  j # NoJob
    BY <2>6, StepOfNone DEF IInv, TypeOK
  <2>7. ProgressIsReal'
    BY <2>3, <2>5, <2>6 DEF IInv, ProgressIsReal, patrol
  <2> QED
    BY <2>4, <2>7 DEF IInv
<1> QED
  BY <1>1, <1>2, <1>3, <1>4

-----------------------------------------------------------------------------
\* A step of a thread of the patrol.
LEMMA RunPreserves ==
  ASSUME IInv, NEW s \in Slot, Run(s)
  PROVE  IInv'
<1> DEFINE j == jobs[s]
           Goes == \E phase \in 1..3, todo \in SUBSET Zone :
                     GoesOn(s, phase, todo) /\ (demo' => demo \/ IsDemo(j))
           Over == Ends(s) /\ (demo' => demo /\ ~IsDemo(j))
           Others == /\ UNCHANGED <<kitchen, active, button, monitor, history>>
                     /\ cut' \subseteq Zone /\ demo' \in BOOLEAN
<1>1. j.phase \in 0..3 /\ j.todo \subseteq Zone
  BY DEF IInv, TypeOK
<1>2. cut \subseteq Zone /\ demo \in BOOLEAN
  BY DEF IInv, TypeOK
<1>3. Others /\ (Over \/ Goes)
  <2>1. CASE Check(s)
    <3>1. Others /\ ~IsDemo(j) /\ demo' = demo
      BY <2>1, <1>2 DEF Check, IsDemo
    <3>2. Ends(s) \/ \E phase \in {1, 2} : GoesOn(s, phase, {})
      BY <2>1 DEF Check
    <3> QED
      BY <3>1, <3>2
  <2>2. CASE Demo(s)
    <3>1. Others /\ IsDemo(j)
      BY <2>2, <1>2 DEF Demo, IsDemo, DemoOver
    <3>2. (Ends(s) /\ demo' = FALSE) \/ \E phase \in 1..3 : GoesOn(s, phase, {})
      BY <2>2, <1>1 DEF Demo, DemoOver
    <3> QED
      BY <3>1, <3>2
  <2>3. CASE DemoZone(s)
    <3>1. Others /\ IsDemo(j)
      BY <2>3, <1>1, <1>2 DEF DemoZone, IsDemo, Accepted
    <3>2. (Ends(s) /\ demo' = FALSE) \/ \E phase \in 1..3 : GoesOn(s, phase, j.todo)
      BY <2>3, <1>1 DEF DemoZone
    <3> QED
      BY <3>1, <3>2, <1>1
  <2>4. CASE Sound(s)
    <3>1. Others /\ ~IsDemo(j) /\ demo' = demo
      BY <2>4, <1>2 DEF Sound, IsDemo
    <3>2. Ends(s) \/ GoesOn(s, 1, {})
      BY <2>4 DEF Sound
    <3> QED
      BY <3>1, <3>2
  <2>5. CASE ForceCutoff(s)
    <3>1. Others /\ ~IsDemo(j) /\ demo' = demo
      BY <2>5, <1>1, <1>2 DEF ForceCutoff, IsDemo, Accepted
    <3>2. Ends(s) \/ \E todo \in SUBSET Zone : GoesOn(s, 1, todo)
      BY <2>5, <1>1 DEF ForceCutoff
    <3> QED
      BY <3>1, <3>2
  <2> QED
    BY <2>1, <2>2, <2>3, <2>4, <2>5 DEF Run
<1>4. /\ jobs' \in [Slot \cup {Callback} ->
           [kind : {"none", "check", "demo", "demo_zone", "warning", "alarm", "cutoff", "estop"},
            phase : 0..3, todo : SUBSET Zone]]
      /\ step' \in {"idle", "self_check_person", "self_check_fire", "alarm_demo",
                    "force_warning", "force_alarm", "force_cutoff"}
      /\ ProgressIsReal'
  <2>1. CASE Over
    BY <2>1, EndIsReal
  <2>2. CASE Goes
    BY <2>2, GoesOnIsReal
  <2> QED
    BY <1>3, <2>1, <2>2
<1>5. TypeOK' /\ AnsweredCounts'
  BY <1>3, <1>4 DEF IInv, TypeOK, AnsweredCounts, kitchen, monitor, history
<1> QED
  BY <1>4, <1>5 DEF IInv

-----------------------------------------------------------------------------
LEMMA CountType ==
  ASSUME NEW n \in Nat, NEW most \in Nat
  PROVE  AtMost(n, most) \in 0..most /\ (n >= most => AtMost(n, most) = most)
BY DEF AtMost

LEMMA CountOrder ==
  ASSUME NEW m \in Nat, NEW n \in Nat, NEW most \in Nat, m <= n
  PROVE  AtMost(m, most) <= AtMost(n, most)
BY DEF AtMost

\* The button: a stop that is ordered leaves it pressed until it is seen up.
LEMMA ButtonPreserves ==
  ASSUME IInv, Sample \/ SampleFails \/ EStop \/ Reload
  PROVE  IInv'
<1> DEFINE Job == [kind : {"none", "check", "demo", "demo_zone", "warning", "alarm", "cutoff", "estop"},
                   phase : 0..3, todo : SUBSET Zone]
<1>1. jobs \in [Slot \cup {Callback} -> Job] /\ Callback \notin Slot
  BY SlotAssumption DEF IInv, TypeOK, Callback
<1>2. NoJob \in Job
  BY DEF NoJob
<1>3. /\ count + 1 \in Nat /\ since + 1 \in Nat /\ calm + 1 \in Nat
      /\ Debounce \in Nat /\ Cooldown \in Nat
      /\ AtMost(count + 1, Debounce) \in 0..Debounce
      /\ AtMost(since + 1, Cooldown) \in 0..Cooldown
      /\ AtMost(calm + 1, Cooldown) \in 0..Cooldown
      /\ AtMost(calm + 1, Cooldown) <= AtMost(since + 1, Cooldown)
      /\ count = Debounce => AtMost(count + 1, Debounce) = Debounce
      /\ 0 \in 0..Debounce /\ 0 \in 0..Cooldown /\ Cooldown \in 0..Cooldown
  <2>1. /\ count + 1 \in Nat /\ since + 1 \in Nat /\ calm + 1 \in Nat
        /\ Debounce \in Nat /\ Cooldown \in Nat
        /\ calm + 1 <= since + 1 /\ (count = Debounce => count + 1 >= Debounce)
    BY NumbersAssumption DEF IInv, TypeOK, AnsweredCounts
  <2>2. /\ AtMost(count + 1, Debounce) \in 0..Debounce
        /\ AtMost(since + 1, Cooldown) \in 0..Cooldown
        /\ AtMost(calm + 1, Cooldown) \in 0..Cooldown
        /\ count = Debounce => AtMost(count + 1, Debounce) = Debounce
    BY <2>1, CountType
  <2>3. AtMost(calm + 1, Cooldown) <= AtMost(since + 1, Cooldown)
    BY <2>1, CountOrder
  <2> QED
    BY <2>1, <2>2, <2>3
<1>4. CASE Sample
  <2>1. UNCHANGED <<kitchen, cut, patrol, button, listening>>
    BY <1>4 DEF Sample
  <2>2. /\ count' \in 0..Debounce /\ since' \in 0..Cooldown /\ calm' \in 0..Cooldown
        /\ pressed' \in BOOLEAN /\ released' \in BOOLEAN /\ rebuilt' \in BOOLEAN
    BY <1>3, <1>4 DEF Sample
  <2>3. jobs' = jobs \/ jobs' = [jobs EXCEPT ![Callback] =
                                   [kind |-> "estop", phase |-> 0, todo |-> Zone]]
    BY <1>4 DEF Sample
  <2>4. jobs' \in [Slot \cup {Callback} -> Job] /\ \A s \in Slot : jobs'[s] = jobs[s]
    BY <1>1, <2>3
  <2>5. AnsweredCounts'
    <3>1. released' \/ rebuilt' \/ pressed'
      BY <1>4 DEF IInv, AnsweredCounts, Sample
    <3>2. pressed' => count' = Debounce
      BY <1>3, <1>4 DEF IInv, AnsweredCounts, Sample
    <3>3. calm' <= since' /\ (rebuilt' \/ since' = calm')
      <4>1. \/ since' = 0 /\ calm' = 0
            \/ /\ since' = AtMost(since + 1, Cooldown) /\ calm' = AtMost(calm + 1, Cooldown)
               /\ rebuilt' = rebuilt
        BY <1>4 DEF Sample, IInv, TypeOK
      <4>2. rebuilt \/ AtMost(since + 1, Cooldown) = AtMost(calm + 1, Cooldown)
        BY DEF IInv, AnsweredCounts
      <4> QED
        BY <1>3, <4>1, <4>2
    <3> QED
      BY <3>1, <3>2, <3>3 DEF AnsweredCounts
  <2>6. ProgressIsReal'
    BY <2>1, <2>4, RealElsewhere
  <2> QED
    BY <2>1, <2>2, <2>4, <2>5, <2>6 DEF IInv, TypeOK, kitchen, patrol
<1>5. CASE SampleFails
  <2>1. ProgressIsReal'
    BY <1>5, RealElsewhere DEF SampleFails
  <2> QED
    BY <1>3, <1>5, <2>1 DEF SampleFails, IInv, TypeOK, AnsweredCounts, kitchen, patrol
<1>6. CASE EStop
  <2>1. UNCHANGED <<kitchen, patrol, button, monitor, history>> /\ cut' \subseteq Zone
    BY <1>6 DEF EStop, IInv, TypeOK, Accepted
  <2>2. jobs[Callback] \in Job
    BY <1>1
  <2>3. \/ jobs' = [jobs EXCEPT ![Callback] = NoJob]
        \/ \E z \in Zone : jobs' = [jobs EXCEPT ![Callback].todo = jobs[Callback].todo \ {z}]
    BY <1>6, <2>2 DEF EStop, Rest
  <2>4. jobs' \in [Slot \cup {Callback} -> Job] /\ \A s \in Slot : jobs'[s] = jobs[s]
    BY <1>1, <1>2, <2>2, <2>3
  <2>5. ProgressIsReal'
    BY <2>1, <2>4, RealElsewhere
  <2> QED
    BY <2>1, <2>4, <2>5 DEF IInv, TypeOK, AnsweredCounts, kitchen, patrol, monitor, history
<1>7. CASE Reload
  <2>1. ProgressIsReal'
    BY <1>7, RealElsewhere DEF Reload
  <2>2. /\ rebuilt' /\ pressed' = FALSE /\ since' = Cooldown /\ count' = 0
        /\ UNCHANGED <<kitchen, cut, patrol, jobs, button, released, calm>>
        /\ listening' \in BOOLEAN /\ rebuilt' \in BOOLEAN
    BY <1>7 DEF Reload, NewMonitor, IInv, TypeOK
  <2>3. calm \in 0..Cooldown /\ calm <= Cooldown
    BY <1>3 DEF IInv, TypeOK
  <2>4. AnsweredCounts'
    BY <2>2, <2>3 DEF AnsweredCounts
  <2>5. TypeOK'
    BY <1>3, <2>2 DEF IInv, TypeOK, kitchen, patrol
  <2> QED
    BY <2>1, <2>4, <2>5 DEF IInv
<1> QED
  BY <1>4, <1>5, <1>6, <1>7

\* The kitchen has no part in either.
LEMMA SurroundingsPreserve ==
  ASSUME IInv, Surroundings
  PROVE  IInv'
<1>1. UNCHANGED <<patrol, jobs, monitor, history>>
  BY DEF Surroundings
<1>2. /\ enabled' \subseteq Zone /\ burning' \subseteq Zone /\ cut' \subseteq Zone
      /\ serialUp' \in BOOLEAN /\ button' \in BOOLEAN
  BY DEF Surroundings, Around, Flipped, IInv, TypeOK, kitchen
<1>3. ProgressIsReal'
  BY <1>1, RealElsewhere
<1> QED
  BY <1>1, <1>2, <1>3 DEF IInv, TypeOK, AnsweredCounts, patrol, monitor, history

LEMMA NextPreserves ==
  ASSUME IInv, [Next]_vars
  PROVE  IInv'
<1>1. CASE StartPatrol \/ StopPatrol \/ Request \/ \E z \in Zone : CutoffZone(z)
  BY <1>1, RequestsPreserve
<1>2. CASE \E s \in Slot : Run(s)
  BY <1>2, RunPreserves
<1>3. CASE Sample \/ SampleFails \/ EStop \/ Reload
  BY <1>3, ButtonPreserves
<1>4. CASE Surroundings
  BY <1>4, SurroundingsPreserve
<1>5. CASE UNCHANGED vars
  <2>1. ProgressIsReal'
    BY <1>5, RealElsewhere DEF vars
  <2> QED
    BY <1>5, <2>1 DEF vars, IInv, TypeOK, AnsweredCounts, kitchen, patrol, monitor, history
<1> QED
  BY <1>1, <1>2, <1>3, <1>4, <1>5 DEF Next

-----------------------------------------------------------------------------
\* The inductive invariant: types, the patrol's word for what its threads do, and
\* a button that has been answered counting as pressed (PatrolManager, EStopMonitor).
THEOREM Invariance == Spec => []IInv
<1>1. Init => IInv
  BY InitEstablishes
<1>2. IInv /\ [Next]_vars => IInv'
  BY NextPreserves
<1> QED
  BY <1>1, <1>2, PTL DEF Spec

\* What get_patrol_status says is going on is going on, however many threads the
\* patrol has started and whenever it was stopped (patrol_manager.py).
THEOREM SpecProgressIsReal == Spec => []ProgressIsReal
<1>1. IInv => ProgressIsReal
  BY DEF IInv
<1> QED
  BY <1>1, Invariance, PTL

\* Emergency stops match the presses of the button, whatever it does in between and
\* however often its monitor is replaced (EStopMonitor._process_sample, reload_estop_monitor).
THEOREM SpecStopsMatchPresses == Spec => StopsMatchPresses
<1> DEFINE Match == /\ Stops => rebuilt \/ (released /\ calm = Cooldown)
                    /\ Confirms => Stops \/ calm < Cooldown
<1>1. ASSUME IInv, [Next]_vars PROVE Match
  <2>1. Callback \notin Slot /\ jobs \in [Slot \cup {Callback} ->
          [kind : {"none", "check", "demo", "demo_zone", "warning", "alarm", "cutoff", "estop"},
           phase : 0..3, todo : SUBSET Zone]]
    BY <1>1, SlotAssumption DEF Callback, IInv, TypeOK
  <2>2. CASE Sample
    <3> DEFINE n == AtMost(count + 1, Debounce)
               confirmed == button /\ n = Debounce /\ ~pressed
               triggers == confirmed /\ since = Cooldown
    <3>1. /\ jobs[Callback] = NoJob
          /\ count' = IF button THEN n ELSE 0
          /\ jobs' = IF triggers
                     THEN [jobs EXCEPT ![Callback] = [kind |-> "estop", phase |-> 0, todo |-> Zone]]
                     ELSE jobs
      BY <2>2 DEF Sample, NotPressedYet
    <3>2. Stops <=> triggers
      BY <2>1, <3>1 DEF Stops, NoJob
    <3>3. triggers => rebuilt \/ (released /\ calm = Cooldown)
      BY <1>1 DEF IInv, AnsweredCounts
    <3>4. Confirms => confirmed
      BY <1>1, <3>1, NumbersAssumption DEF Confirms, IInv, TypeOK, AnsweredCounts
    <3>5. since = Cooldown \/ calm < Cooldown
      BY <1>1, NumbersAssumption DEF IInv, TypeOK, AnsweredCounts
    <3> QED
      BY <3>2, <3>3, <3>4, <3>5
  <2>3. CASE ~Sample
    <3>1. ~Stops
      <4> SUFFICES ASSUME Stops PROVE FALSE
        OBVIOUS
      <4>1. ~EStop
        BY DEF Stops, EStop, NoJob
      <4>2. ASSUME NEW s \in Slot, NEW j, jobs' = [jobs EXCEPT ![s] = j]
            PROVE  FALSE
        BY <2>1, <4>2 DEF Stops
      <4>3. ~Request
        BY <4>2 DEF Request, DeviceSelfCheck, AlarmDemo, AlarmDemoZone, ForceWarningAll,
                    ForceAlarmAll, ForceCutoffAll, Launch
      <4>4. ASSUME NEW s \in Slot PROVE ~Run(s)
        BY <4>2 DEF Run, Check, Demo, DemoZone, Sound, ForceCutoff, GoesOn, Ends
      <4> QED
        BY <1>1, <2>3, <4>1, <4>3, <4>4
           DEF Next, vars, Stops, StartPatrol, StopPatrol, CutoffZone, SampleFails, Reload, Surroundings
    <3>2. ~Confirms
      <4>1. count' \in {count, 0}
        BY <1>1, <2>3
           DEF Next, vars, monitor, StartPatrol, StopPatrol, Request, DeviceSelfCheck, AlarmDemo,
               AlarmDemoZone, ForceWarningAll, ForceAlarmAll, ForceCutoffAll, Launch, CutoffZone,
               Run, Check, Demo, DemoZone, Sound, ForceCutoff, SampleFails, EStop, Reload,
               NewMonitor, Surroundings
      <4> QED
        BY <1>1, <4>1, NumbersAssumption DEF Confirms, IInv, TypeOK
    <3> QED
      BY <3>1, <3>2
  <2> QED
    BY <2>2, <2>3
<1>2. IInv /\ [Next]_vars => [Match]_vars
  BY <1>1
<1> QED
  BY <1>2, Invariance, PTL DEF Spec, StopsMatchPresses
=============================================================================
