----------------------------- MODULE DeviceProofs -----------------------------
(***************************************************************************)
(* Cameras and the serial bus.  For any number of Camera objects and       *)
(* threads, as long as no request comes while an object is still           *)
(* connecting: a Camera object never has two threads on its device.  For   *)
(* any zones, detectors and thermometers, however commands are lost, zones *)
(* edited and the manager restarted: a detector that is missing leaves no  *)
(* fire; as long as no reply is late, replies and commands alternate, and  *)
(* a stove is lit by its own detector only; as long as no round of the     *)
(* polling loop raises, polling never gets ahead of the bus.               *)
(***************************************************************************)
EXTENDS SerialManager, Camera, FiniteSetTheorems, SequenceTheorems, TLAPS

-----------------------------------------------------------------------------
(***************************************************************************)
(* Cameras.  A thread is started where start() finds the object not        *)
(* running; so an object that is not running, and that requests can still  *)
(* reach, must have none.  It is connecting only as the known camera and   *)
(* outside of a request, so that no stop() comes before its reader.        *)
(***************************************************************************)
CameraObjects ==
  [running : BOOLEAN, status : {"offline", "connecting", "online", "error"},
   cap : {"none", "open"}, force : BOOLEAN, frame : {"none", "new", "old"},
   last : {"never", "recent", "stale"}, failures : 0..(MaxRetries - 1),
   starting : BOOLEAN, threads : [Thread -> {"none", "connect", "top", "open", "read"}]]

Alone(c)    == \A t, u \in Thread : c.threads[t] # "none" /\ c.threads[u] # "none" => t = u
NoThread(c) == \A t \in Thread : c.threads[t] = "none"
Early(c)    == c.starting \/ \E t \in Thread : c.threads[t] = "connect"

Sound(o, c) ==
  /\ c \in CameraObjects
  /\ Alone(c)
  /\ o > made => NoThread(c)
  /\ Early(c) => o = known /\ request = "none"
  /\ o = known /\ request = "none" /\ ~c.running => NoThread(c)

CameraInv ==
  /\ CameraTypeOK
  /\ request = "update" => made < MaxCameras
  /\ \A o \in Object : Sound(o, cameras[o])

\* An object without threads has at most one, and none that connects.
LEMMA NewIsSound ==
  /\ NewCamera \in CameraObjects /\ NoThread(NewCamera)
  /\ [NewCamera EXCEPT !.starting = TRUE] \in CameraObjects
  /\ NoThread([NewCamera EXCEPT !.starting = TRUE])
<1>1. PICK f : f = [t \in Thread |-> "none"]
  OBVIOUS
<1>2. f \in [Thread -> {"none", "connect", "top", "open", "read"}] /\ \A t \in Thread : f[t] = "none"
  BY <1>1
<1>3. 0 \in 0..(MaxRetries - 1)
  BY MaxRetriesAssumption
<1>4. NewCamera = [running |-> FALSE, status |-> "offline", cap |-> "none", force |-> FALSE,
                   frame |-> "none", last |-> "never", failures |-> 0, starting |-> FALSE,
                   threads |-> f]
  BY <1>1 DEF NewCamera
<1>5. NewCamera \in CameraObjects /\ NewCamera.threads = f
  BY <1>2, <1>3, <1>4 DEF CameraObjects
<1>6. /\ [NewCamera EXCEPT !.starting = TRUE] \in CameraObjects
      /\ [NewCamera EXCEPT !.starting = TRUE].threads = f
  BY <1>5 DEF CameraObjects
<1> QED
  BY <1>2, <1>5, <1>6 DEF NoThread

LEMMA CameraStarts == CameraInit => CameraInv
<1> SUFFICES ASSUME CameraInit PROVE CameraInv
  OBVIOUS
<1>1. ASSUME NEW o \in Object
      PROVE  /\ cameras[o] \in CameraObjects /\ NoThread(cameras[o])
             /\ cameras[o].starting => o = 1
  BY <1>1, NewIsSound DEF CameraInit, NewCamera
<1>2. cameras \in [Object -> CameraObjects]
  BY <1>1 DEF CameraInit
<1>3. CameraTypeOK
  <2>1. known \in 0..made /\ made \in 1..MaxCameras
    BY MaxCamerasAssumption DEF CameraInit
  <2> QED
    BY <1>2, <2>1 DEF CameraInit, CameraTypeOK, CameraObjects
<1>4. ASSUME NEW o \in Object PROVE Sound(o, cameras[o])
  BY <1>1, <1>4 DEF CameraInit, Sound, Alone, NoThread, Early
<1> QED
  BY <1>3, <1>4 DEF CameraInit, CameraInv

\* One object becomes another, and nobody stops or replaces it.
LEMMA OneBecomes ==
  ASSUME CameraInv, NEW o \in Object, NEW d, Sound(o, d), Becomes(o, d),
         device' \in {"none", "mute", "live"}, UNCHANGED <<known, made, request>>
  PROVE  CameraInv'
<1>1. cameras \in [Object -> CameraObjects] /\ d \in CameraObjects
  BY DEF CameraInv, CameraTypeOK, CameraObjects, Sound
<1>2. cameras' \in [Object -> CameraObjects] /\ cameras' = [cameras EXCEPT ![o] = d]
  BY <1>1 DEF Becomes
<1>3. CameraTypeOK'
  BY <1>2 DEF CameraInv, CameraTypeOK, CameraObjects
<1>4. ASSUME NEW p \in Object PROVE Sound(p, cameras[p])'
  <2>1. Sound(p, cameras'[p])
    BY <1>1, <1>2 DEF CameraInv
  <2> QED
    BY <2>1 DEF Sound, Alone, NoThread, Early
<1> QED
  BY <1>3, <1>4 DEF CameraInv

\* A thread of its own takes the object from where it stands to a place behind the
\* connecting; where it leaves the object not running, it is gone itself.
LEMMA ThreadMoves ==
  ASSUME CameraInv, NEW o \in Object, NEW t \in Thread, cameras[o].threads[t] # "none",
         NEW w \in {"none", "top", "open", "read"}, NEW d \in CameraObjects,
         d.threads = [cameras[o].threads EXCEPT ![t] = w],
         d.starting = cameras[o].starting,
         ~d.running => ~cameras[o].running \/ w = "none"
  PROVE  Sound(o, d)
<1>1. /\ cameras[o].threads \in [Thread -> {"none", "connect", "top", "open", "read"}]
      /\ Sound(o, cameras[o])
  BY DEF CameraInv, Sound, CameraObjects
<1>2. \A u \in Thread \ {t} : d.threads[u] = "none"
  BY <1>1 DEF Sound, Alone
<1>3. d.threads[t] = w
  BY <1>1
<1>4. Alone(d) /\ ~(o > made) /\ (o = known /\ request = "none" => cameras[o].running)
  BY <1>1, <1>2 DEF Sound, Alone, NoThread
<1>5. Early(d) => Early(cameras[o])
  BY <1>2, <1>3 DEF Early
<1>6. w = "none" => NoThread(d)
  BY <1>2, <1>3 DEF NoThread
<1> QED
  BY <1>1, <1>4, <1>5, <1>6 DEF Sound

\* start(): of an object that is not running, nobody uses the device.
LEMMA StartIsSound ==
  ASSUME CameraInv, known \in Object, request = "none", CanStart(cameras[known])
  PROVE  /\ Sound(known, Started(cameras[known]))
         /\ Sound(known, [Started(cameras[known]) EXCEPT !.starting = FALSE])
<1> DEFINE c == cameras[known]
<1>1. c \in CameraObjects /\ Sound(known, c) /\ ~(known > made)
  BY DEF CameraInv, Sound, CameraTypeOK
<1>2. CASE c.running
  <2>1. Started(c) = c
    BY <1>2 DEF Started
  <2>2. [c EXCEPT !.starting = FALSE] \in CameraObjects
    BY <1>1 DEF CameraObjects
  <2>3. /\ [c EXCEPT !.starting = FALSE].threads = c.threads
        /\ [c EXCEPT !.starting = FALSE].running = c.running
    BY <1>1 DEF CameraObjects
  <2>4. Sound(known, [c EXCEPT !.starting = FALSE])
    BY <1>1, <1>2, <2>2, <2>3 DEF Sound, Alone
  <2> QED
    BY <1>1, <2>1, <2>4
<1>3. CASE ~c.running
  <2>1. NoThread(c)
    BY <1>1, <1>3 DEF Sound
  <2>2. PICK t \in Thread : t = CHOOSE u \in Thread : c.threads[u] = "none"
    BY <1>3 DEF CanStart
  <2>3. Started(c) = [c EXCEPT !.threads[t] = "connect", !.status = "connecting", !.running = TRUE]
    BY <1>1, <1>3, <2>2 DEF Started, Goes, RunningAtOnce, CameraObjects
  <2>4. ASSUME NEW d \in {Started(c), [Started(c) EXCEPT !.starting = FALSE]}
        PROVE  d \in CameraObjects /\ d.running /\ d.threads = [c.threads EXCEPT ![t] = "connect"]
    <3>1. PICK e : e = Started(c)
      OBVIOUS
    <3>2. e \in CameraObjects /\ e.running /\ e.threads = [c.threads EXCEPT ![t] = "connect"]
      <4>1. PICK h : h = [c.threads EXCEPT ![t] = "connect"]
        OBVIOUS
      <4>2. h \in [Thread -> {"none", "connect", "top", "open", "read"}]
        BY <1>1, <4>1 DEF CameraObjects
      <4>3. e = [c EXCEPT !.threads = h, !.status = "connecting", !.running = TRUE]
        BY <2>3, <3>1, <4>1
      <4> QED
        BY <1>1, <4>1, <4>2, <4>3 DEF CameraObjects
    <3>3. PICK g : g = [e EXCEPT !.starting = FALSE]
      OBVIOUS
    <3>4. g \in CameraObjects /\ g.running /\ g.threads = e.threads
      BY <3>2, <3>3 DEF CameraObjects
    <3>5. d = e \/ d = g
      BY <3>1, <3>3
    <3> QED
      BY <3>2, <3>4, <3>5
  <2>5. ASSUME NEW d \in {Started(c), [Started(c) EXCEPT !.starting = FALSE]}
        PROVE  Sound(known, d)
    <3>1. Alone(d)
      BY <2>1, <2>4, <1>1 DEF Alone, NoThread, CameraObjects
    <3> QED
      BY <3>1, <2>4, <1>1 DEF Sound
  <2> QED
    BY <2>5
<1> QED
  BY <1>2, <1>3

\* What the steps of a thread make of an object is one still.
LEMMA GoesTo ==
  ASSUME NEW c \in CameraObjects, NEW t \in Thread, NEW w \in {"none", "top", "open", "read"}
  PROVE  /\ Goes(c, t, w) \in CameraObjects
         /\ Goes(c, t, w).threads = [c.threads EXCEPT ![t] = w]
         /\ Goes(c, t, w).starting = c.starting
         /\ Goes(c, t, w).running = c.running
<1>1. PICK h : h = [c.threads EXCEPT ![t] = w]
  OBVIOUS
<1>2. h \in [Thread -> {"none", "connect", "top", "open", "read"}]
  BY <1>1 DEF CameraObjects
<1>3. Goes(c, t, w) = [c EXCEPT !.threads = h]
  BY <1>1 DEF Goes
<1> QED
  BY <1>1, <1>2, <1>3 DEF CameraObjects

LEMMA DroppedIsOne ==
  ASSUME NEW c \in CameraObjects
  PROVE  /\ Dropped(c) \in CameraObjects
         /\ Dropped(c).threads = c.threads
         /\ Dropped(c).starting = c.starting
         /\ Dropped(c).running = c.running
<1>1. Aged(c) \in {"none", "new", "old"}
  BY DEF Aged
<1> QED
  BY <1>1 DEF Dropped, CameraObjects

LEMMA ZeroIsFew == 0 \in 0..(MaxRetries - 1)
  BY MaxRetriesAssumption

LEMMA MissedIsOne ==
  ASSUME NEW c \in CameraObjects
  PROVE  /\ Missed(c) \in CameraObjects
         /\ Missed(c).threads = c.threads
         /\ Missed(c).starting = c.starting
         /\ Missed(c).running = c.running
<1>1. CASE c.failures + 1 < MaxRetries
  <2>1. c.failures + 1 \in 0..(MaxRetries - 1)
    BY <1>1, MaxRetriesAssumption DEF CameraObjects
  <2> QED
    BY <1>1, <2>1 DEF Missed, CameraObjects
<1>2. CASE ~(c.failures + 1 < MaxRetries)
  <2>1. 0 \in 0..(MaxRetries - 1)
    BY MaxRetriesAssumption
  <2>2. PICK d : d = Dropped(c)
    OBVIOUS
  <2>3. Missed(c) = [d EXCEPT !.failures = 0, !.status = "error"]
    BY <1>2, <2>2 DEF Missed
  <2>4. /\ d \in CameraObjects
        /\ d.threads = c.threads /\ d.starting = c.starting /\ d.running = c.running
    BY <2>2, DroppedIsOne
  <2> QED
    BY <2>1, <2>3, <2>4 DEF CameraObjects
<1> QED
  BY <1>1, <1>2

\* _connect_async() and _read_frames().
LEMMA ThreadIsSound ==
  ASSUME CameraInv, NEW o \in Object, NEW t \in Thread,
         Connect(o, t) \/ Top(o, t) \/ Open(o, t) \/ Read(o, t)
  PROVE  CameraInv'
<1> DEFINE c == cameras[o]
<1>1. c \in CameraObjects /\ device \in {"none", "mute", "live"}
  BY DEF CameraInv, Sound, CameraTypeOK
<1>2. /\ c.threads[t] # "none"
      /\ UNCHANGED <<device, known, made, request>>
  BY DEF Connect, Top, Open, Read, At
<1>3. ASSUME NEW d \in CameraObjects, NEW w \in {"none", "top", "open", "read"},
             d.threads = [c.threads EXCEPT ![t] = w], d.starting = c.starting,
             ~d.running => ~c.running \/ w = "none", Becomes(o, d)
      PROVE  CameraInv'
  BY <1>1, <1>2, <1>3, ThreadMoves, OneBecomes
<1>4. ASSUME NEW w \in {"none", "top", "open", "read"}, NEW e \in CameraObjects,
             e.threads = c.threads, e.starting = c.starting, e.running = c.running,
             Becomes(o, Goes(e, t, w))
      PROVE  CameraInv'
  <2>1. PICK d : d = Goes(e, t, w)
    OBVIOUS
  <2>2. /\ d \in CameraObjects /\ d.threads = [c.threads EXCEPT ![t] = w]
        /\ d.starting = c.starting /\ d.running = c.running
    <3>1. /\ Goes(e, t, w) \in CameraObjects
          /\ Goes(e, t, w).threads = [e.threads EXCEPT ![t] = w]
          /\ Goes(e, t, w).starting = e.starting /\ Goes(e, t, w).running = e.running
      BY GoesTo
    <3> QED
      BY <1>4, <2>1, <3>1
  <2> QED
    BY <1>3, <1>4, <2>1, <2>2
<1>5. CASE Connect(o, t)
  <2>1. CASE Opens(o)
    <3>1. PICK e : e = Goes(c, t, "top")
      OBVIOUS
    <3>2. /\ e \in CameraObjects /\ e.threads = [c.threads EXCEPT ![t] = "top"]
          /\ e.starting = c.starting /\ e.running = c.running
      BY <1>1, <3>1, GoesTo
    <3>3. PICK d : d = [e EXCEPT !.cap = "open", !.status = "online", !.running = TRUE, !.failures = 0]
      OBVIOUS
    <3>4. d \in CameraObjects /\ d.threads = [c.threads EXCEPT ![t] = "top"]
      BY <1>1, <3>2, <3>3, ZeroIsFew DEF CameraObjects
    <3>5. d.running /\ d.starting = c.starting
      BY <1>1, <3>2, <3>3 DEF CameraObjects
    <3> QED
      BY <1>3, <1>5, <2>1, <3>1, <3>3, <3>4, <3>5 DEF Connect
  <2>2. CASE ~Opens(o)
    <3>1. PICK e : e = Goes(c, t, "none")
      OBVIOUS
    <3>2. /\ e \in CameraObjects /\ e.threads = [c.threads EXCEPT ![t] = "none"]
          /\ e.starting = c.starting /\ e.running = c.running
      BY <1>1, <3>1, GoesTo
    <3>3. PICK d : d = [e EXCEPT !.cap = "none", !.status = "error", !.running = RunningAfterFailure]
      OBVIOUS
    <3>4. d \in CameraObjects /\ d.threads = [c.threads EXCEPT ![t] = "none"]
      BY <1>1, <3>2, <3>3 DEF CameraObjects, RunningAfterFailure
    <3>5. d.starting = c.starting
      BY <1>1, <3>2, <3>3 DEF CameraObjects
    <3> QED
      BY <1>3, <1>5, <2>2, <3>1, <3>3, <3>4, <3>5 DEF Connect
  <2> QED
    BY <2>1, <2>2
<1>6. CASE Top(o, t)
  <2>1. CASE ~c.running
    <3>1. PICK e : e = Goes(c, t, "none")
      OBVIOUS
    <3>2. /\ e \in CameraObjects /\ e.threads = [c.threads EXCEPT ![t] = "none"]
          /\ e.starting = c.starting /\ e.running = c.running
      BY <1>1, <3>1, GoesTo
    <3>3. PICK d : d = [e EXCEPT !.cap = IF o = known THEN c.cap ELSE "none"]
      OBVIOUS
    <3>4. d \in CameraObjects /\ d.threads = [c.threads EXCEPT ![t] = "none"]
      BY <1>1, <3>2, <3>3 DEF CameraObjects
    <3>5. d.starting = c.starting
      BY <1>1, <3>2, <3>3 DEF CameraObjects
    <3> QED
      BY <1>3, <1>6, <2>1, <3>1, <3>3, <3>4, <3>5 DEF Top
  <2>2. CASE c.running /\ c.cap = "open" /\ ~c.force /\ c.last # "stale"
    <3>1. Becomes(o, Goes(c, t, "read"))
      BY <1>6, <2>2 DEF Top
    <3> QED
      BY <1>1, <1>4, <3>1
  <2>3. CASE c.running /\ ~(c.cap = "open" /\ ~c.force /\ c.last # "stale")
    <3>1. PICK e : e = Goes(Dropped(c), t, "open")
      OBVIOUS
    <3>2. /\ e \in CameraObjects /\ e.threads = [c.threads EXCEPT ![t] = "open"]
          /\ e.starting = c.starting /\ e.running = c.running
      <4>1. PICK f : f = Dropped(c)
        OBVIOUS
      <4>2. /\ f \in CameraObjects /\ f.threads = c.threads
            /\ f.starting = c.starting /\ f.running = c.running
        BY <1>1, <4>1, DroppedIsOne
      <4> QED
        <5>1. /\ Goes(f, t, "open") \in CameraObjects
              /\ Goes(f, t, "open").threads = [f.threads EXCEPT ![t] = "open"]
              /\ Goes(f, t, "open").starting = f.starting /\ Goes(f, t, "open").running = f.running
          BY <4>2, GoesTo
        <5>2. e = Goes(f, t, "open")
          BY <3>1, <4>1
        <5> QED
          BY <4>2, <5>1, <5>2
    <3>3. PICK d : d = [e EXCEPT !.force = FALSE, !.status = "connecting"]
      OBVIOUS
    <3>4. d \in CameraObjects /\ d.threads = [c.threads EXCEPT ![t] = "open"]
      BY <1>1, <3>2, <3>3 DEF CameraObjects
    <3>5. d.starting = c.starting /\ d.running = c.running
      BY <1>1, <3>2, <3>3 DEF CameraObjects
    <3> QED
      BY <1>3, <1>6, <2>3, <3>1, <3>3, <3>4, <3>5 DEF Top
  <2> QED
    BY <2>1, <2>2, <2>3
<1>7. CASE Open(o, t)
  <2>1. CASE Opens(o)
    <3>1. PICK e : e = Goes(c, t, "read")
      OBVIOUS
    <3>2. /\ e \in CameraObjects /\ e.threads = [c.threads EXCEPT ![t] = "read"]
          /\ e.starting = c.starting /\ e.running = c.running
      BY <1>1, <3>1, GoesTo
    <3>3. PICK d : d = [e EXCEPT !.cap = "open", !.status = "online", !.last = "recent"]
      OBVIOUS
    <3>4. d \in CameraObjects /\ d.threads = [c.threads EXCEPT ![t] = "read"]
      BY <1>1, <3>2, <3>3 DEF CameraObjects
    <3>5. d.starting = c.starting /\ d.running = c.running
      BY <1>1, <3>2, <3>3 DEF CameraObjects
    <3> QED
      BY <1>3, <1>7, <2>1, <3>1, <3>3, <3>4, <3>5 DEF Open
  <2>2. CASE ~Opens(o)
    <3>1. PICK e : e = Goes(c, t, "top")
      OBVIOUS
    <3>2. /\ e \in CameraObjects /\ e.threads = [c.threads EXCEPT ![t] = "top"]
          /\ e.starting = c.starting /\ e.running = c.running
      BY <1>1, <3>1, GoesTo
    <3>3. PICK d : d = [e EXCEPT !.cap = "none", !.status = "offline"]
      OBVIOUS
    <3>4. d \in CameraObjects /\ d.threads = [c.threads EXCEPT ![t] = "top"]
      BY <1>1, <3>2, <3>3 DEF CameraObjects
    <3>5. d.starting = c.starting /\ d.running = c.running
      BY <1>1, <3>2, <3>3 DEF CameraObjects
    <3> QED
      BY <1>3, <1>7, <2>2, <3>1, <3>3, <3>4, <3>5 DEF Open
  <2> QED
    BY <2>1, <2>2
<1>8. CASE Read(o, t)
  <2>1. /\ Got(c) \in CameraObjects /\ Got(c).threads = c.threads
        /\ Got(c).starting = c.starting /\ Got(c).running = c.running
    BY <1>1, ZeroIsFew DEF Got, CameraObjects
  <2>2. PICK e \in {Got(c), Missed(c), c} : Becomes(o, Goes(e, t, "top"))
    BY <1>8 DEF Read
  <2> QED
    BY <1>1, <1>4, <2>1, <2>2, MissedIsOne
<1> QED
  BY <1>5, <1>6, <1>7, <1>8

\* An object is made and becomes the known one: nobody is connecting before.
LEMMA ObjectIsMade ==
  ASSUME made \in 1..MaxCameras, made < MaxCameras,
         NEW all \in [Object -> CameraObjects],
         \A o \in Object : /\ Alone(all[o]) /\ ~Early(all[o])
                           /\ o > made => NoThread(all[o]),
         NEW f \in CameraObjects, NoThread(f),
         cameras' = [all EXCEPT ![made + 1] = f],
         known' = made + 1, made' = made + 1, request' = "none",
         device' \in {"none", "mute", "live"}
  PROVE  CameraInv'
<1>1. /\ made' \in 1..MaxCameras /\ known' \in 0..made' /\ known' \in Object
      /\ cameras' \in [Object -> CameraObjects]
  BY MaxCamerasAssumption DEF Object
<1>2. CameraTypeOK'
  BY <1>1 DEF CameraTypeOK, CameraObjects
<1>3. ASSUME NEW o \in Object PROVE Sound(o, cameras[o])'
  <2>1. CASE o = made + 1
    <3>1. cameras'[o] = f
      BY <1>1, <2>1
    <3>2. Alone(f)
      BY DEF Alone, NoThread
    <3> QED
      BY <2>1, <3>1, <3>2 DEF Sound, Alone, NoThread, Early
  <2>2. CASE o # made + 1
    <3>1. cameras'[o] = all[o]
      BY <1>1, <2>2
    <3>2. o > made' => o > made
      BY DEF Object
    <3> QED
      BY <2>2, <3>1, <3>2 DEF Sound, Alone, NoThread, Early
  <2> QED
    BY <2>1, <2>2
<1> QED
  BY <1>2, <1>3 DEF CameraInv

\* Every step, requests included, as long as they do not come while connecting.
LEMMA CameraKeeps ==
  ASSUME ~Hasty, CameraInv, [CameraNext]_cameraVars
  PROVE  CameraInv'
<1>0. /\ cameras \in [Object -> CameraObjects] /\ made \in 1..MaxCameras /\ known \in 0..made
      /\ device \in {"none", "mute", "live"}
  BY DEF CameraInv, CameraTypeOK, CameraObjects
<1>1. \A o \in Object : Sound(o, cameras[o])
  BY DEF CameraInv
<1>2. known # NoCamera => known \in Object
  BY <1>0, MaxCamerasAssumption DEF Object, NoCamera
<1>3. ASSUME NEW o \in Object, StartCamera(o) PROVE CameraInv'
  <2>1. o = known /\ request = "none"
    BY <1>1, <1>3 DEF StartCamera, Sound, Early
  <2> QED
    BY <1>0, <1>3, <2>1, StartIsSound, OneBecomes DEF StartCamera
<1>4. ASSUME NEW o \in Object, Wait(o) PROVE CameraInv'
  <2>1. PICK d : d = [cameras[o] EXCEPT !.last = "stale"]
    OBVIOUS
  <2>2. /\ d \in CameraObjects /\ d.threads = cameras[o].threads
        /\ d.starting = cameras[o].starting /\ d.running = cameras[o].running
    BY <1>0, <2>1 DEF CameraObjects
  <2>3. Sound(o, d)
    BY <1>1, <2>2 DEF Sound, Alone, NoThread, Early
  <2> QED
    BY <1>0, <1>4, <2>1, <2>3, OneBecomes DEF Wait
<1>5. CASE Preview
  <2>1. known \in Object /\ request = "none" /\ CanStart(cameras[known])
    BY <1>2, <1>5 DEF Preview
  <2>2. CASE ~cameras[known].running
    <3>1. Becomes(known, Started(cameras[known]))
      BY <1>5, <2>2 DEF Preview, Reconnected
    <3> QED
      BY <1>0, <1>5, <2>1, <3>1, StartIsSound, OneBecomes DEF Preview
  <2>3. CASE cameras[known].running
    <3>1. PICK c : c = cameras[known]
      OBVIOUS
    <3>2. PICK e : e = Dropped(c)
      OBVIOUS
    <3>3. /\ e \in CameraObjects /\ e.threads = c.threads
          /\ e.starting = c.starting /\ e.running = c.running
      BY <1>0, <2>1, <3>1, <3>2, DroppedIsOne
    <3>4. PICK d : d = [e EXCEPT !.force = TRUE, !.status = "connecting"]
      OBVIOUS
    <3>5. /\ d \in CameraObjects /\ d.threads = c.threads
          /\ d.starting = c.starting /\ d.running = c.running
      BY <3>3, <3>4 DEF CameraObjects
    <3>6. Sound(known, d)
      BY <1>1, <2>1, <3>1, <3>5 DEF Sound, Alone, NoThread, Early
    <3>7. Becomes(known, d)
      BY <1>5, <2>3, <3>1, <3>2, <3>4 DEF Preview, Reconnected
    <3> QED
      BY <1>0, <1>5, <2>1, <3>6, <3>7, OneBecomes DEF Preview
  <2> QED
    BY <2>2, <2>3
<1>6. CASE Edit
  <2>1. known \in Object /\ known # NoCamera /\ request = "none" /\ ~Early(cameras[known])
    BY <1>2, <1>6 DEF Edit, Connecting, Early, At
  <2>2. PICK d : d = [cameras[known] EXCEPT !.running = FALSE]
    OBVIOUS
  <2>3. /\ d \in CameraObjects /\ d.threads = cameras[known].threads
        /\ d.starting = cameras[known].starting
    <3>1. PICK c \in CameraObjects : c = cameras[known]
      BY <1>0, <2>1
    <3>2. d = [c EXCEPT !.running = FALSE]
      BY <2>2, <3>1
    <3>3. d \in CameraObjects /\ d.threads = c.threads /\ d.starting = c.starting
      BY <3>2 DEF CameraObjects
    <3> QED
      BY <3>1, <3>3
  <2>4. cameras' = [cameras EXCEPT ![known] = d] /\ cameras' \in [Object -> CameraObjects]
    BY <1>0, <1>6, <2>1, <2>2, <2>3 DEF Edit, Becomes
  <2>5. request' \in {"update", "delete"} /\ UNCHANGED <<device, known, made>>
    BY <1>6 DEF Edit
  <2>6. ASSUME NEW o \in Object PROVE Sound(o, cameras[o])'
    <3>1. Sound(o, cameras[o]) /\ ~Early(cameras[o])
      BY <1>1, <2>1 DEF Sound
    <3>2. /\ cameras'[o].threads = cameras[o].threads /\ cameras'[o].starting = cameras[o].starting
          /\ cameras'[o] \in CameraObjects
      BY <1>0, <2>3, <2>4
    <3> QED
      BY <2>5, <3>1, <3>2 DEF Sound, Alone, NoThread, Early
  <2>7. CameraTypeOK'
    BY <1>0, <2>1, <2>4, <2>5 DEF CameraTypeOK, CameraObjects
  <2>8. request' = "update" => made' < MaxCameras
    BY <1>6, <2>5 DEF Edit
  <2> QED
    BY <2>6, <2>7, <2>8 DEF CameraInv
<1>7. CASE EditEnds
  <2>1. known \in Object /\ request # "none" /\ request \in {"none", "update", "delete"}
    BY <1>2, <1>7 DEF EditEnds, CameraInv, CameraTypeOK
  <2>2. PICK d : d = Stopped(cameras[known])
    OBVIOUS
  <2>3. /\ d \in CameraObjects /\ d.threads = cameras[known].threads
        /\ d.starting = cameras[known].starting
    <3>1. PICK c : c = cameras[known]
      OBVIOUS
    <3>2. c \in CameraObjects
      BY <1>0, <2>1, <3>1
    <3>3. d = [c EXCEPT !.cap = "none", !.frame = "none", !.status = "offline"]
      BY <2>2, <3>1 DEF Stopped
    <3> QED
      BY <3>1, <3>2, <3>3 DEF CameraObjects
  <2>4. PICK removed : removed = [cameras EXCEPT ![known] = d]
    OBVIOUS
  <2>5. removed \in [Object -> CameraObjects]
    BY <1>0, <2>1, <2>3, <2>4
  <2>6. ASSUME NEW o \in Object
        PROVE  /\ Alone(removed[o]) /\ ~Early(removed[o])
               /\ o > made => NoThread(removed[o])
    <3>1. Sound(o, cameras[o]) /\ ~Early(cameras[o])
      BY <1>1, <2>1 DEF Sound
    <3>2. removed[o].threads = cameras[o].threads /\ removed[o].starting = cameras[o].starting
      BY <1>0, <2>3, <2>4
    <3> QED
      BY <3>1, <3>2 DEF Sound, Alone, NoThread, Early
  <2>7. RemoveCamera(known) = removed /\ request' = "none" /\ UNCHANGED device
    BY <1>7, <2>2, <2>4 DEF EditEnds, RemoveCamera
  <2>8. CASE request = "delete"
    <3>1. cameras' = removed /\ known' = NoCamera /\ UNCHANGED made
      BY <1>7, <2>7, <2>8 DEF EditEnds
    <3>2. ASSUME NEW o \in Object PROVE Sound(o, cameras[o])'
      BY <2>5, <2>6, <3>1 DEF Sound, Alone, NoThread, Early, NoCamera, Object
    <3>3. CameraTypeOK'
      BY <1>0, <2>5, <2>7, <3>1 DEF CameraTypeOK, CameraObjects, NoCamera
    <3> QED
      BY <2>7, <3>2, <3>3 DEF CameraInv
  <2>9. CASE request = "update"
    <3>1. /\ cameras' = [removed EXCEPT ![made + 1].starting = TRUE]
          /\ known' = made + 1 /\ made' = made + 1
      BY <1>7, <2>7, <2>9 DEF EditEnds
    <3>2. made < MaxCameras
      BY <2>9 DEF CameraInv
    <3>3. made + 1 \in Object
      BY <1>0, <3>2, MaxCamerasAssumption DEF Object
    <3>4. PICK e : e = removed[made + 1]
      OBVIOUS
    <3>5. e \in CameraObjects /\ NoThread(e)
      BY <1>0, <2>5, <2>6, <3>3, <3>4
    <3>6. PICK f : f = [e EXCEPT !.starting = TRUE]
      OBVIOUS
    <3>7. f \in CameraObjects /\ NoThread(f)
      BY <3>5, <3>6 DEF CameraObjects, NoThread
    <3>8. cameras' = [removed EXCEPT ![made + 1] = f]
      BY <2>5, <3>1, <3>3, <3>4, <3>6
    <3> QED
      BY <1>0, <2>5, <2>6, <2>7, <3>1, <3>2, <3>7, <3>8, ObjectIsMade
  <2> QED
    BY <2>1, <2>8, <2>9
<1>8. CASE Create
  <2>1. PICK f : f = [NewCamera EXCEPT !.starting = TRUE]
    OBVIOUS
  <2>2. f \in CameraObjects /\ NoThread(f)
    BY <2>1, NewIsSound
  <2>3. /\ request = "none" /\ known = NoCamera /\ made < MaxCameras
        /\ known' = made + 1 /\ made' = made + 1 /\ UNCHANGED <<device, request>>
        /\ cameras' = [cameras EXCEPT ![made + 1] = f]
    BY <1>8, <2>1 DEF Create, Becomes
  <2>4. ASSUME NEW o \in Object
        PROVE  /\ Alone(cameras[o]) /\ ~Early(cameras[o])
               /\ o > made => NoThread(cameras[o])
    <3>1. o # NoCamera
      BY MaxCamerasAssumption DEF Object, NoCamera
    <3> QED
      BY <1>1, <2>3, <3>1 DEF Sound
  <2> QED
    BY <1>0, <2>2, <2>3, <2>4, ObjectIsMade
<1>9. CASE Plug
  BY <1>9 DEF Plug, CameraInv, CameraTypeOK, Sound, Alone, NoThread, Early
<1>10. CASE UNCHANGED cameraVars
  BY <1>10 DEF cameraVars, CameraInv, CameraTypeOK, Sound, Alone, NoThread, Early
<1> QED
  BY <1>3, <1>4, <1>5, <1>6, <1>7, <1>8, <1>9, <1>10, ThreadIsSound DEF CameraNext, Run

\* src/camera/manager.py, start(): however starts, previews and failures interleave,
\* a Camera object never has two threads that open or read the device, as long as
\* requests leave a new object the time to connect.
THEOREM SpecStartedOnce == ASSUME ~Hasty PROVE CameraSpec => []StartedOnce
<1>1. CameraInv => StartedOnce
  <2> SUFFICES ASSUME CameraInv, NEW o \in Object
               PROVE  Cardinality({t \in Thread : cameras[o].threads[t] # "none"}) <= 1
    BY DEF StartedOnce
  <2>1. PICK S : S = {t \in Thread : cameras[o].threads[t] # "none"}
    OBVIOUS
  <2>2. \A t, u \in S : t = u
    BY <2>1 DEF CameraInv, Sound, Alone
  <2>3. CASE S = {}
    BY <2>1, <2>3, FS_EmptySet
  <2>4. CASE S # {}
    <3>1. PICK t : S = {t}
      BY <2>2, <2>4
    <3> QED
      BY <2>1, <3>1, FS_Singleton
  <2> QED
    BY <2>3, <2>4
<1>2. CameraSpec => []CameraInv
  BY CameraStarts, CameraKeeps, PTL DEF CameraSpec
<1> QED
  BY <1>1, <1>2, PTL

-----------------------------------------------------------------------------
(***************************************************************************)
(* The serial bus.  Two things must be known of a command: a query for a   *)
(* current names a detector, a query for LoRa names the LoRa module; and   *)
(* only the polling loop queries currents.                                 *)
(***************************************************************************)
IsQuery(cmd) == cmd.type = "GET_CURRENT"

ProperCommands ==
  {cmd \in Commands : /\ IsQuery(cmd) => cmd.index \in Detector
                      /\ cmd.type \in LoraQueries => cmd.index = Lora}
Orders == {cmd \in ProperCommands : ~IsQuery(cmd)}

LoopTypes ==
  /\ manager \in {"running", "deaf", "stopped"}
  /\ queue \in Seq(ProperCommands) /\ current \in ProperCommands \cup {None}
  /\ stage \in {"ready", "waiting", "settling"}
  /\ (current = None) <=> (stage = "ready")
  /\ replied \in BOOLEAN /\ answered \in BOOLEAN
  /\ poll \in {"begin", "channel", "round", "join"}
  /\ feeding \in [Slot -> Seq(Seq(Orders))]
  /\ \A c \in Slot : Len(feeding[c]) <= 3

Zones == registered \in Seq(Zone) /\ IsInjective(registered)

ZoneTypes ==
  /\ info \in [Zone -> Infos] /\ misses \in [Detector -> 0 .. MissLimit]
  /\ lora_device \in Addresses /\ enabled \in [Zone -> BOOLEAN]
  /\ moved \subseteq Zone

BusTypes ==
  /\ wire \subseteq [kind: {"current", "float", "number", "echo"},
                     address: Addresses, value: Readings]
  /\ load \in [Detector -> Readings]
  /\ dead \subseteq Detector /\ relay \in [Relays -> {"set", "reset"}]

BusInv == LoopTypes /\ Zones /\ ZoneTypes /\ BusTypes

\* A function on an interval from 1 is a sequence.
LEMMA FunctionIsSeq ==
  ASSUME NEW S, NEW k \in Nat, NEW f \in [1..k -> S]
  PROVE  f \in Seq(S) /\ Len(f) = k
  OBVIOUS

LEMMA NoneIsNone ==
  /\ None.type = "none" /\ None \notin ProperCommands
  BY DEF None, Command, ProperCommands, Commands, CommandTypes, LoraQueries

\* _request_lora_internal, _enqueue_cutoff_commands: neither queries a current.
LEMMA ScriptsAreOrders ==
  /\ LoraScript \in Seq(Seq(Orders)) /\ Len(LoraScript) = 2
  /\ \A i \in Detector : CutoffScript(i) \in Seq(Seq(Orders)) /\ Len(CutoffScript(i)) = 3
<1>1. ASSUME NEW type \in {"SET_RELAY", "RESET_RELAY", "SET_GAS_VALVE", "RESET_GAS_VALVE"},
             NEW a \in Relays
      PROVE  Command(type, a) \in Orders
  BY DEF Command, Orders, ProperCommands, Commands, CommandTypes, LoraQueries, Addresses, IsQuery
<1>2. ASSUME NEW type \in LoraQueries PROVE Command(type, Lora) \in Orders
  BY DEF Command, Orders, ProperCommands, Commands, CommandTypes, LoraQueries, Addresses, IsQuery
<1>3. LoraScript \in Seq(Seq(Orders)) /\ Len(LoraScript) = 2
  <2>1. PICK a, b : a = Command("GET_LORA_ID", Lora) /\ b = Command("GET_LORA_CHANNEL", Lora)
    OBVIOUS
  <2>2. a \in Orders /\ b \in Orders
    BY <1>2, <2>1 DEF LoraQueries
  <2> QED
    BY <2>1, <2>2 DEF LoraScript
<1>4. ASSUME NEW i \in Detector
      PROVE  CutoffScript(i) \in Seq(Seq(Orders)) /\ Len(CutoffScript(i)) = 3
  <2>1. PICK a, b, c, d : /\ a = Command("SET_RELAY", i) /\ b = Command("SET_GAS_VALVE", Gas)
                          /\ c = Command("RESET_RELAY", i) /\ d = Command("RESET_GAS_VALVE", Gas)
    OBVIOUS
  <2>2. a \in Orders /\ b \in Orders /\ c \in Orders /\ d \in Orders
    BY <1>1, <2>1 DEF Relays
  <2> QED
    BY <2>1, <2>2 DEF CutoffScript
<1> QED
  BY <1>3, <1>4

\* What a round asks for.
LEMMA QueriesAreCommands ==
  ASSUME NEW k \in Nat, NEW ix \in [1..k -> Detector]
  PROVE  /\ Queries("GET_CURRENT", ix) \in Seq(ProperCommands)
         /\ Len(Queries("GET_CURRENT", ix)) = k
         /\ \A n \in 1..k : Queries("GET_CURRENT", ix)[n] = Command("GET_CURRENT", ix[n])
<1>1. PICK q : q = Queries("GET_CURRENT", ix)
  OBVIOUS
<1>2. ASSUME NEW i \in Detector PROVE Command("GET_CURRENT", i) \in ProperCommands
  BY DEF Command, ProperCommands, Commands, CommandTypes, LoraQueries, Addresses, Relays, IsQuery
<1>3. q \in [1..k -> ProperCommands] /\ \A n \in 1..k : q[n] = Command("GET_CURRENT", ix[n])
  BY <1>1, <1>2 DEF Queries
<1> QED
  BY <1>1, <1>3, FunctionIsSeq

LEMMA TemperaturesAreOrders ==
  Queries("GET_TEMPERATURE", SetToSeq(Thermometer)) \in Seq(Orders)
<1>1. PICK k, s : k = Cardinality(Thermometer) /\ s = SetToSeq(Thermometer)
  OBVIOUS
<1>2. k \in Nat /\ ExistsBijection(1..k, Thermometer)
  BY <1>1, FS_CardinalityType, FiniteAssumption
<1>3. s \in [1..k -> Thermometer]
  BY <1>1, <1>2 DEF SetToSeq, ExistsBijection, Bijection, Injection
<1>4. ASSUME NEW a \in Thermometer PROVE Command("GET_TEMPERATURE", a) \in Orders
  BY DEF Command, Orders, ProperCommands, Commands, CommandTypes, LoraQueries, Addresses, IsQuery
<1>5. PICK q : q = Queries("GET_TEMPERATURE", s)
  OBVIOUS
<1>6. q \in [1..k -> Orders]
  BY <1>3, <1>4, <1>5 DEF Queries
<1> QED
  BY <1>1, <1>2, <1>5, <1>6, FunctionIsSeq

\* A round stops at registered zones, and at each detector once.
LEMMA RoundIsOnce ==
  ASSUME BusInv, NEW zones \in Polled
  PROVE  \E k \in Nat :
           /\ zones \in [1..k -> Zone]
           /\ \A m, n \in 1..k :
                info[zones[m]].serial_index = info[zones[n]].serial_index => m = n
<1>1. PICK k : k = Cardinality(Stops)
  OBVIOUS
<1>2. registered \in Seq(Zone) /\ Stops \subseteq 1..Len(registered)
  BY DEF BusInv, Zones, Stops
<1>3. k \in Nat
  <2>1. Len(registered) \in Int
    BY <1>2
  <2>2. IsFiniteSet(1..Len(registered))
    BY <2>1, FS_Interval
  <2> QED
    BY <1>1, <1>2, <2>2, FS_Subset, FS_CardinalityType
<1>4. PICK stops \in [1..k -> Stops] :
           /\ \A m, n \in 1..k : m < n => stops[m] < stops[n]
           /\ zones = [n \in 1..k |-> registered[stops[n]]]
  BY <1>1 DEF Polled
<1>5. zones \in [1..k -> Zone]
  <2>1. ASSUME NEW n \in 1..k PROVE registered[stops[n]] \in Zone
    <3>1. stops[n] \in 1..Len(registered)
      BY <1>2, <1>4
    <3>2. \A j \in 1..Len(registered) : registered[j] \in Zone
      BY <1>2
    <3> QED
      BY <3>1, <3>2
  <2> QED
    BY <1>4, <2>1
<1>6. ASSUME NEW m \in 1..k, NEW n \in 1..k, m < n
      PROVE  info[zones[m]].serial_index # info[zones[n]].serial_index
  <2>1. stops[m] < stops[n] /\ stops[m] \in Stops /\ stops[n] \in Stops
    BY <1>4, <1>6
  <2> QED
    BY <1>4, <2>1 DEF Stops
<1>7. ASSUME NEW m \in 1..k, NEW n \in 1..k,
             info[zones[m]].serial_index = info[zones[n]].serial_index
      PROVE  m = n
  BY <1>3, <1>6, <1>7
<1> QED
  BY <1>3, <1>5, <1>7

LEMMA NewInfoIsOne == \A i \in Detector : NewInfo(i) \in Infos
  BY DEF NewInfo, Infos, Readings, Never

LEMMA ReadingIsOne ==
  ASSUME NEW r \in Infos
  PROVE  /\ [r EXCEPT !.current_value = 0, !.is_fire_on = FALSE] \in Infos
         /\ \A v \in Readings : [r EXCEPT !.current_value = v, !.is_fire_on = v > 0] \in Infos
<1>1. ASSUME NEW v \in Readings, NEW b \in BOOLEAN
      PROVE  [r EXCEPT !.current_value = v, !.is_fire_on = b] \in Infos
  BY DEF Infos
<1>2. 0 \in Readings
  BY DEF Readings
<1>3. [r EXCEPT !.current_value = 0, !.is_fire_on = FALSE] \in Infos
  BY <1>1, <1>2
<1>4. ASSUME NEW v \in Readings
      PROVE  [r EXCEPT !.current_value = v, !.is_fire_on = v > 0] \in Infos
  <2>1. (v > 0) \in BOOLEAN
    OBVIOUS
  <2> QED
    BY <1>1, <2>1
<1> QED
  BY <1>3, <1>4

LEMMA BusStarts == Init => BusInv
<1> SUFFICES ASSUME Init PROVE BusInv
  OBVIOUS
<1>1. LoopTypes
  <2>1. queue = <<>> /\ queue \in Seq(ProperCommands)
    BY DEF Init
  <2>2. ASSUME NEW c \in Slot PROVE feeding[c] \in Seq(Seq(Orders)) /\ Len(feeding[c]) <= 3
    BY DEF Init
  <2> QED
    BY <2>1, <2>2 DEF Init, LoopTypes
<1>2. Zones
  <2>1. PICK k : k = Cardinality(Zone) /\ k \in Nat
    BY FiniteAssumption, FS_CardinalityType
  <2>2. /\ registered \in [1..k -> Zone]
        /\ \A m, n \in 1..k : m # n => registered[m] # registered[n]
    BY <2>1 DEF Init, SetToSeqs
  <2> QED
    BY <2>1, <2>2, FunctionIsSeq DEF Zones, IsInjective
<1>3. ZoneTypes
  <2>1. Unknown \in Addresses /\ 0 \in 0..MissLimit
    BY LimitsAssumption DEF Unknown, Addresses, Relays, Gas
  <2> QED
    BY <2>1, NewInfoIsOne, WiringAssumption DEF Init, ZoneTypes
<1>4. BusTypes
  BY DEF Init, BusTypes, Readings
<1> QED
  BY <1>1, <1>2, <1>3, <1>4 DEF BusInv

\* The frame a device answers with.
LEMMA ReplyIsFrame ==
  ASSUME BusInv, NEW cmd \in ProperCommands
  PROVE  Reply(cmd) \in [kind: {"current", "float", "number", "echo"},
                        address: Addresses, value: Readings]
<1>1. Lora \in Addresses /\ cmd.index \in Addresses /\ 0 \in Readings /\ 1 \in Readings
  BY DEF Addresses, ProperCommands, Commands, Readings
<1>2. cmd.type = "GET_CURRENT" => load[cmd.index] \in Readings
  BY DEF ProperCommands, IsQuery, BusInv, BusTypes
<1> QED
  BY <1>1, <1>2 DEF Reply, Frame

LEMMA TakeKeeps == BusInv /\ Take => BusInv'
<1> SUFFICES ASSUME BusInv, Take PROVE BusInv'
  OBVIOUS
<1>1. PICK cmd : cmd = Head(queue)
  OBVIOUS
<1>2. cmd \in ProperCommands /\ queue' \in Seq(ProperCommands)
  BY <1>1 DEF BusInv, LoopTypes, Take
<1>3. current' = cmd /\ current' # None
  BY <1>1, <1>2, NoneIsNone DEF Take
<1>4. LoopTypes'
  BY <1>2, <1>3 DEF BusInv, LoopTypes, Take
<1>5. wire' = wire \cup {Reply(cmd)} \/ UNCHANGED wire
  BY <1>1 DEF Take
<1>6. relay' \in [Relays -> {"set", "reset"}]
  <2>1. SendCommand(cmd) \/ UNCHANGED relay
    BY <1>1 DEF Take, SendFails
  <2> QED
    BY <2>1 DEF SendCommand, BusInv, BusTypes
<1>7. BusTypes'
  BY <1>2, <1>5, <1>6, ReplyIsFrame DEF BusInv, BusTypes, Take
<1> QED
  BY <1>4, <1>7 DEF BusInv, Zones, ZoneTypes, Take, zoneVars

LEMMA DeliverKeeps == BusInv /\ (\E f \in wire : Deliver(f)) => BusInv'
<1> SUFFICES ASSUME BusInv, NEW f \in wire, Deliver(f) PROVE BusInv'
  OBVIOUS
<1>1. LoopTypes'
  BY DEF BusInv, LoopTypes, Deliver
<1>2. BusTypes'
  BY DEF BusInv, BusTypes, Deliver
<1>3. f.address \in Addresses /\ f.value \in Readings
  BY DEF BusInv, BusTypes
<1>4. ZoneTypes'
  <2>1. lora_device' \in Addresses
    BY <1>3 DEF BusInv, ZoneTypes, Deliver, SetLoraDeviceId
  <2>2. CASE UpdateCurrent(f.address, f.value)
    <3>1. misses' \in [Detector -> 0 .. MissLimit]
      <4>1. 0 \in 0 .. MissLimit /\ misses \in [Detector -> 0 .. MissLimit]
        BY LimitsAssumption DEF BusInv, ZoneTypes
      <4> QED
        BY <2>2, <4>1 DEF UpdateCurrent
    <3>2. ASSUME NEW z \in Zone
          PROVE  [info[z] EXCEPT !.current_value = f.value, !.is_fire_on = f.value > 0] \in Infos
      BY <1>3, ReadingIsOne DEF BusInv, ZoneTypes
    <3>3. info' \in [Zone -> Infos]
      BY <2>2, <3>2 DEF UpdateCurrent, BusInv, ZoneTypes
    <3>4. moved' \subseteq Zone
      BY <2>2 DEF UpdateCurrent, BusInv, ZoneTypes
    <3> QED
      BY <2>1, <3>1, <3>3, <3>4 DEF BusInv, ZoneTypes, Deliver
  <2>3. CASE UNCHANGED <<misses, info, moved>>
    BY <2>1, <2>3 DEF BusInv, ZoneTypes, Deliver
  <2> QED
    BY <2>2, <2>3 DEF Deliver
<1> QED
  BY <1>1, <1>2, <1>4 DEF BusInv, Zones, Deliver

\* What a missing reply does to the zones of its detector.
LEMMA MissEffect ==
  ASSUME BusInv, NEW i \in Detector, HandleMiss(i)
  PROVE  /\ misses' \in [Detector -> 0 .. MissLimit]
         /\ info' \in [Zone -> Infos]
         /\ moved' \subseteq Zone
<1>1. MissCount(i) \in 0 .. MissLimit
  BY LimitsAssumption DEF MissCount, BusInv, ZoneTypes
<1>2. ASSUME NEW z \in Zone
      PROVE  [info[z] EXCEPT !.current_value = 0, !.is_fire_on = FALSE] \in Infos
  BY ReadingIsOne DEF BusInv, ZoneTypes
<1>3. info' \in [Zone -> Infos]
  BY <1>2 DEF HandleMiss, BusInv, ZoneTypes
<1> QED
  BY <1>1, <1>3 DEF HandleMiss, BusInv, ZoneTypes

LEMMA EndWaitKeeps == BusInv /\ EndWait => BusInv'
<1> SUFFICES ASSUME BusInv, EndWait PROVE BusInv'
  OBVIOUS
<1>1. LoopTypes'
  BY DEF BusInv, LoopTypes, EndWait
<1>2. current \in ProperCommands
  BY DEF BusInv, LoopTypes, EndWait
<1>3. /\ misses' \in [Detector -> 0 .. MissLimit]
      /\ info' \in [Zone -> Infos]
      /\ moved' \subseteq Zone
  <2>1. CASE current.type = "GET_CURRENT" /\ ~answered
    BY <1>2, <2>1, MissEffect DEF EndWait, ProperCommands, IsQuery
  <2>2. CASE ~(current.type = "GET_CURRENT" /\ ~answered)
    BY <2>2 DEF EndWait, BusInv, ZoneTypes
  <2> QED
    BY <2>1, <2>2
<1>4. ZoneTypes' /\ BusTypes' /\ Zones'
  BY <1>3 DEF EndWait, BusInv, ZoneTypes, BusTypes, Zones, busVars
<1> QED
  BY <1>1, <1>4 DEF BusInv

LEMMA OrdersAreProper == Seq(Orders) \subseteq Seq(ProperCommands)
  BY DEF Orders

\* Putting a batch of orders.
LEMMA BatchIsPut ==
  ASSUME NEW q \in Seq(ProperCommands), NEW batch \in Seq(Orders)
  PROVE  q \o batch \in Seq(ProperCommands)
<1>1. batch \in Seq(ProperCommands)
  BY OrdersAreProper
<1> QED
  BY <1>1, ConcatProperties

\* A round may find any of its zones cooled; an aborted one has cleared the last.
LEMMA CheckIsInfo ==
  ASSUME BusInv, NEW zs
  PROVE  CanCheck(zs) \in [Zone -> Infos]
<1>1. ASSUME NEW r \in Infos, NEW b \in BOOLEAN PROVE [r EXCEPT !.can_check_reset = b] \in Infos
  BY DEF Infos
<1>2. ASSUME NEW z \in Zone
      PROVE  [info[z] EXCEPT !.can_check_reset = @ \/ (z \in zs /\ Cooled(z))] \in Infos
  <2>1. (info[z].can_check_reset \/ (z \in zs /\ Cooled(z))) \in BOOLEAN
    OBVIOUS
  <2>2. info[z] \in Infos
    BY DEF BusInv, ZoneTypes
  <2> QED
    BY <1>1, <2>1, <2>2
<1> QED
  BY <1>2 DEF CanCheck

LEMMA ClearedIsInfo ==
  ASSUME NEW infos \in [Zone -> Infos], NEW z \in Zone, NEW age \in Ages \cup {Never}
  PROVE  [infos EXCEPT ![z].cutoff_time = age, ![z].can_check_reset = FALSE] \in [Zone -> Infos]
<1>1. [infos[z] EXCEPT !.cutoff_time = age, !.can_check_reset = FALSE] \in Infos
  BY DEF Infos
<1> QED
  BY <1>1

LEMMA PollBeginKeeps == BusInv /\ PollBegin => BusInv'
<1> SUFFICES ASSUME BusInv, PollBegin PROVE BusInv'
  OBVIOUS
<1>1. queue' \in Seq(ProperCommands)
  <2>1. LoraScript[1] \in Seq(Orders) /\ LoraScript[2] \in Seq(Orders)
    BY ScriptsAreOrders
  <2>2. queue' = queue \o LoraScript[1] \/ queue' = queue \o LoraScript[2]
    BY DEF PollBegin
  <2> QED
    BY <2>1, <2>2, BatchIsPut DEF BusInv, LoopTypes
<1>2. poll' \in {"channel", "round"}
  BY DEF PollBegin
<1> QED
  BY <1>1, <1>2 DEF PollBegin, BusInv, LoopTypes, Zones, ZoneTypes, BusTypes, zoneVars, busVars

LEMMA PollRoundKeeps == BusInv /\ PollRound => BusInv'
<1> SUFFICES ASSUME BusInv, PollRound PROVE BusInv'
  OBVIOUS
<1>1. PICK zones \in Polled :
        /\ queue' = queue \o Queries("GET_CURRENT", [n \in DOMAIN zones |-> info[zones[n]].serial_index])
                          \o Queries("GET_TEMPERATURE", SetToSeq(Thermometer))
        /\ info' = CanCheck(Range(zones))
  BY DEF PollRound
<1>2. PICK k \in Nat : zones \in [1..k -> Zone]
  BY RoundIsOnce
<1>3. PICK ix : ix = [n \in DOMAIN zones |-> info[zones[n]].serial_index]
  OBVIOUS
<1>4. ix \in [1..k -> Detector]
  BY <1>2, <1>3 DEF BusInv, ZoneTypes, Infos
<1>5. queue \o Queries("GET_CURRENT", ix) \in Seq(ProperCommands)
  BY <1>4, QueriesAreCommands, ConcatProperties DEF BusInv, LoopTypes
<1>6. queue' \in Seq(ProperCommands)
  BY <1>1, <1>3, <1>5, TemperaturesAreOrders, BatchIsPut
<1>7. info' \in [Zone -> Infos]
  BY <1>1, CheckIsInfo
<1> QED
  BY <1>6, <1>7 DEF PollRound, BusInv, LoopTypes, Zones, ZoneTypes, BusTypes, busVars

LEMMA PollAbortKeeps == BusInv /\ PollAbort => BusInv'
<1> SUFFICES ASSUME BusInv, PollAbort PROVE BusInv'
  OBVIOUS
<1>1. PICK zones \in Polled : \E n \in DOMAIN zones :
        /\ queue' = queue \o Queries("GET_CURRENT", [m \in 1 .. n |-> info[zones[m]].serial_index])
        /\ info' = [CanCheck({zones[m] : m \in 1 .. n - 1}) EXCEPT
                      ![zones[n]].cutoff_time = Never, ![zones[n]].can_check_reset = FALSE]
  BY DEF PollAbort
<1>2. PICK k \in Nat : zones \in [1..k -> Zone]
  BY RoundIsOnce
<1>3. PICK n \in 1..k :
        /\ queue' = queue \o Queries("GET_CURRENT", [m \in 1 .. n |-> info[zones[m]].serial_index])
        /\ info' = [CanCheck({zones[m] : m \in 1 .. n - 1}) EXCEPT
                      ![zones[n]].cutoff_time = Never, ![zones[n]].can_check_reset = FALSE]
  BY <1>1, <1>2
<1>4. PICK ix : ix = [m \in 1 .. n |-> info[zones[m]].serial_index]
  OBVIOUS
<1>5. n \in Nat /\ ix \in [1..n -> Detector]
  BY <1>2, <1>4 DEF BusInv, ZoneTypes, Infos
<1>6. queue' \in Seq(ProperCommands)
  BY <1>3, <1>4, <1>5, QueriesAreCommands, ConcatProperties DEF BusInv, LoopTypes
<1>7. info' \in [Zone -> Infos]
  BY <1>2, <1>3, CheckIsInfo, ClearedIsInfo
<1> QED
  BY <1>6, <1>7 DEF PollAbort, BusInv, LoopTypes, Zones, ZoneTypes, BusTypes, busVars

LEMMA FeedKeeps ==
  ASSUME BusInv, NEW c \in Slot, Feed(c)
  PROVE  BusInv'
<1>1. /\ feeding \in [Slot -> Seq(Seq(Orders))] /\ feeding[c] # <<>>
      /\ Len(feeding[c]) <= 3
  BY DEF Feed, BusInv, LoopTypes
<1>2. /\ Head(feeding[c]) \in Seq(Orders) /\ Tail(feeding[c]) \in Seq(Seq(Orders))
      /\ Len(Tail(feeding[c])) <= 3
  BY <1>1, HeadTailProperties, LenProperties
<1>3. queue' \in Seq(ProperCommands)
  BY <1>2, BatchIsPut DEF Feed, BusInv, LoopTypes
<1>4. feeding' \in [Slot -> Seq(Seq(Orders))] /\ \A d \in Slot : Len(feeding'[d]) <= 3
  BY <1>1, <1>2 DEF Feed, BusInv, LoopTypes
<1> QED
  BY <1>3, <1>4 DEF Feed, BusInv, LoopTypes, Zones, ZoneTypes, BusTypes, zoneVars, busVars

\* run_coroutine_threadsafe with one of the scripts.
LEMMA StartedFeed ==
  ASSUME BusInv, NEW script \in Seq(Seq(Orders)), Len(script) <= 3, Start(script)
  PROVE  /\ feeding' \in [Slot -> Seq(Seq(Orders))]
         /\ \A d \in Slot : Len(feeding'[d]) <= 3
  BY DEF Start, BusInv, LoopTypes

\* A list without one of its places lists the others, once each.
LEMMA RemovalIsOne ==
  ASSUME NEW S, NEW s \in Seq(S), IsInjective(s), NEW n \in DOMAIN s
  PROVE  RemoveAt(s, n) \in Seq(S) /\ IsInjective(RemoveAt(s, n))
<1>1. PICK a, b : a = SubSeq(s, 1, n-1) /\ b = SubSeq(s, n+1, Len(s))
  OBVIOUS
<1>2. n \in 1..Len(s) /\ Len(s) \in Nat
  OBVIOUS
<1>3. /\ a \in Seq(S) /\ Len(a) = n - 1
      /\ \A i \in 1..(n-1) : a[i] = s[i]
  BY <1>1, <1>2, SubSeqProperties
<1>4. /\ b \in Seq(S) /\ Len(b) = Len(s) - n
      /\ \A i \in 1..(Len(s) - n) : b[i] = s[n + i]
  BY <1>1, <1>2, SubSeqProperties
<1>5. PICK r : r = a \o b
  OBVIOUS
<1>6. r \in Seq(S) /\ Len(r) = Len(s) - 1
  BY <1>2, <1>3, <1>4, <1>5, ConcatProperties
<1>7. ASSUME NEW i \in 1..(Len(s) - 1)
      PROVE  r[i] = IF i < n THEN s[i] ELSE s[i + 1]
  <2>1. r[i] = IF i <= n - 1 THEN a[i] ELSE b[i - (n - 1)]
    BY <1>2, <1>3, <1>4, <1>5, ConcatProperties
  <2>2. CASE i < n
    BY <1>2, <1>3, <2>1, <2>2
  <2>3. CASE ~(i < n)
    <3>1. i - (n - 1) \in 1..(Len(s) - n) /\ n + (i - (n - 1)) = i + 1
      BY <1>2, <2>3
    <3> QED
      BY <1>2, <1>4, <2>1, <2>3, <3>1
  <2> QED
    BY <2>2, <2>3
<1>8. IsInjective(r)
  <2>1. ASSUME NEW i \in 1..(Len(s) - 1), NEW j \in 1..(Len(s) - 1), r[i] = r[j] PROVE i = j
    <3>1. PICK p, q \in 1..Len(s) :
            /\ p = (IF i < n THEN i ELSE i + 1) /\ q = (IF j < n THEN j ELSE j + 1)
            /\ r[i] = s[p] /\ r[j] = s[q]
      BY <1>2, <1>7
    <3>2. p = q
      <4>1. \A k, l \in 1..Len(s) : s[k] = s[l] => k = l
        BY DEF IsInjective
      <4> QED
        BY <2>1, <3>1, <4>1
    <3> QED
      BY <1>2, <3>1, <3>2
  <2> QED
    BY <1>6, <2>1 DEF IsInjective
<1> QED
  BY <1>1, <1>5, <1>6, <1>8 DEF RemoveAt

LEMMA RemovedAreFewer ==
  ASSUME NEW S, NEW s \in Seq(S), NEW n \in DOMAIN s
  PROVE  Range(RemoveAt(s, n)) \subseteq Range(s)
<1>1. PICK a, b : a = SubSeq(s, 1, n-1) /\ b = SubSeq(s, n+1, Len(s))
  OBVIOUS
<1>2. n \in 1..Len(s) /\ Len(s) \in Nat
  OBVIOUS
<1>3. a \in Seq(S) /\ Len(a) = n - 1 /\ \A i \in 1..(n-1) : a[i] = s[i]
  BY <1>1, <1>2, SubSeqProperties
<1>4. b \in Seq(S) /\ Len(b) = Len(s) - n /\ \A i \in 1..(Len(s) - n) : b[i] = s[n + i]
  BY <1>1, <1>2, SubSeqProperties
<1>5. PICK r : r = a \o b
  OBVIOUS
<1>6. r \in Seq(S) /\ Len(r) = Len(s) - 1
  BY <1>2, <1>3, <1>4, <1>5, ConcatProperties
<1>7. ASSUME NEW i \in 1..(Len(s) - 1)
      PROVE  \E k \in 1..Len(s) : r[i] = s[k]
  <2>1. r[i] = IF i <= n - 1 THEN a[i] ELSE b[i - (n - 1)]
    BY <1>2, <1>3, <1>4, <1>5, ConcatProperties
  <2>2. CASE i <= n - 1
    BY <1>2, <1>3, <2>1, <2>2
  <2>3. CASE ~(i <= n - 1)
    <3>1. i - (n - 1) \in 1..(Len(s) - n) /\ n + (i - (n - 1)) \in 1..Len(s)
      BY <1>2, <2>3
    <3> QED
      BY <1>4, <2>1, <2>3, <3>1
  <2> QED
    BY <2>2, <2>3
<1> QED
  <2>1. RemoveAt(s, n) = r
    BY <1>1, <1>5 DEF RemoveAt
  <2>2. DOMAIN r = 1..(Len(s) - 1) /\ DOMAIN s = 1..Len(s)
    BY <1>2, <1>6
  <2>3. Range(r) \subseteq Range(s)
    BY <1>7, <2>2 DEF Range
  <2> QED
    BY <2>1, <2>3

\* The orders of the other threads.
LEMMA ThreadsKeep ==
  ASSUME BusInv, Threads
  PROVE  BusInv'
<1>0. /\ info \in [Zone -> Infos] /\ registered \in Seq(Zone) /\ IsInjective(registered)
      /\ moved \subseteq Zone /\ 0 \in Ages
  BY LimitsAssumption DEF BusInv, ZoneTypes, Zones, Ages
<1>1. CASE QueryLora
  <2>1. /\ feeding' \in [Slot -> Seq(Seq(Orders))]
        /\ \A d \in Slot : Len(feeding'[d]) <= 3
    <3>1. PICK script : script = LoraScript
      OBVIOUS
    <3>2. script \in Seq(Seq(Orders)) /\ Len(script) <= 3 /\ Start(script)
      BY <1>1, <3>1, ScriptsAreOrders DEF QueryLora
    <3> QED
      BY <3>2, StartedFeed
  <2> QED
    BY <1>1, <2>1 DEF QueryLora, BusInv, LoopTypes, Zones, ZoneTypes, BusTypes, zoneVars, busVars
<1>2. CASE Stop
  <2>1. /\ <<>> \in Seq(ProperCommands) /\ <<>> \in Seq(Seq(Orders)) /\ Len(<<>>) <= 3
    BY EmptySeq
  <2> QED
    BY <1>2, <2>1 DEF Stop, ClosePort, BusInv, LoopTypes, Zones, ZoneTypes, BusTypes, zoneVars
<1>3. CASE Initialize
  <2>1. Unknown \in Addresses
    BY DEF Unknown, Addresses, Relays, Gas
  <2> QED
    BY <1>3, <2>1 DEF Initialize, OpenPort, BusInv, LoopTypes, Zones, ZoneTypes, BusTypes, busVars
<1>4. ASSUME NEW z \in Zone, Cutoff(z) PROVE BusInv'
  <2>1. info[z].serial_index \in Detector
    BY <1>0 DEF Infos
  <2>2. /\ feeding' \in [Slot -> Seq(Seq(Orders))]
        /\ \A d \in Slot : Len(feeding'[d]) <= 3
    <3>1. PICK i \in Detector : i = info[z].serial_index
      BY <2>1
    <3>2. PICK script : script = CutoffScript(i)
      OBVIOUS
    <3>3. script \in Seq(Seq(Orders)) /\ Len(script) <= 3
      <4>1. CutoffScript(i) \in Seq(Seq(Orders)) /\ Len(CutoffScript(i)) = 3
        BY ScriptsAreOrders, Zenon
      <4> QED
        BY <3>2, <4>1
    <3>4. Start(script)
      BY <1>4, <3>1, <3>2 DEF Cutoff
    <3> QED
      BY <3>3, <3>4, StartedFeed
  <2>3. info' \in [Zone -> Infos]
    BY <1>0, <1>4, ClearedIsInfo DEF Cutoff
  <2> QED
    BY <1>4, <2>2, <2>3 DEF Cutoff, BusInv, LoopTypes, Zones, ZoneTypes, BusTypes, busVars
<1>5. ASSUME NEW z \in Zone, ClearCutoffState(z) PROVE BusInv'
  <2>1. info' \in [Zone -> Infos]
    BY <1>0, <1>5, ClearedIsInfo DEF ClearCutoffState
  <2> QED
    BY <1>5, <2>1 DEF ClearCutoffState, BusInv, LoopTypes, Zones, ZoneTypes, BusTypes, loopVars, busVars
<1>6. ASSUME NEW z \in Zone, SetEnabled(z) PROVE BusInv'
  <2>1. enabled' \in [Zone -> BOOLEAN]
    BY <1>6 DEF SetEnabled, BusInv, ZoneTypes
  <2> QED
    BY <1>6, <2>1 DEF SetEnabled, BusInv, LoopTypes, Zones, ZoneTypes, BusTypes, loopVars, busVars
<1>7. ASSUME NEW z \in Zone, Register(z) PROVE BusInv'
  <2>1. PICK i \in Detector : info' = [info EXCEPT ![z] = NewInfo(i)]
    BY <1>7 DEF Register
  <2>2. info' \in [Zone -> Infos]
    BY <1>0, <2>1, NewInfoIsOne
  <2>3. registered' \in Seq(Zone) /\ IsInjective(registered')
    <3>1. CASE z \in Range(registered)
      BY <1>0, <1>7, <3>1 DEF Register
    <3>2. CASE z \notin Range(registered)
      BY <1>0, <1>7, <3>2, AppendProperties DEF Register, IsInjective, Range
    <3> QED
      BY <3>1, <3>2
  <2> QED
    BY <1>7, <2>2, <2>3 DEF Register, BusInv, LoopTypes, Zones, ZoneTypes, BusTypes, loopVars, busVars
<1>8. ASSUME NEW z \in Zone, Unregister(z) PROVE BusInv'
  <2>1. PICK n \in DOMAIN registered : registered' = RemoveAt(registered, n)
    BY <1>8 DEF Unregister
  <2>2. registered' \in Seq(Zone) /\ IsInjective(registered')
    BY <1>0, <2>1, RemovalIsOne
  <2>3. info' \in [Zone -> Infos]
    BY <1>0, <1>8, NewInfoIsOne, WiringAssumption DEF Unregister
  <2> QED
    BY <1>8, <2>2, <2>3 DEF Unregister, BusInv, LoopTypes, Zones, ZoneTypes, BusTypes, loopVars, busVars
<1>9. ASSUME NEW z \in Zone, Rewire(z) PROVE BusInv'
  <2>1. PICK i \in Detector : info' = [info EXCEPT ![z].serial_index = i]
    BY <1>9 DEF Rewire
  <2>2. [info[z] EXCEPT !.serial_index = i] \in Infos
    BY <1>0 DEF Infos
  <2>3. info' \in [Zone -> Infos]
    BY <1>0, <2>1, <2>2
  <2> QED
    BY <1>9, <2>3 DEF Rewire, BusInv, LoopTypes, Zones, ZoneTypes, BusTypes, loopVars, busVars
<1> QED
  BY <1>1, <1>2, <1>3, <1>4, <1>5, <1>6, <1>7, <1>8, <1>9 DEF Threads

\* The clock and the kitchen.
LEMMA SurroundingsKeep ==
  ASSUME BusInv, Tick \/ \E i \in Detector : Load(i) \/ Power(i)
  PROVE  BusInv'
<1>1. CASE Tick
  <2>1. ASSUME NEW r \in Infos PROVE [r EXCEPT !.cutoff_time = Older(@)] \in Infos
    <3>1. Older(r.cutoff_time) \in Ages \cup {Never}
      BY LimitsAssumption DEF Infos, Older, Ages, Never
    <3> QED
      BY <3>1 DEF Infos
  <2>2. info' \in [Zone -> Infos]
    BY <1>1, <2>1 DEF Tick, BusInv, ZoneTypes
  <2> QED
    BY <1>1, <2>2 DEF Tick, BusInv, LoopTypes, Zones, ZoneTypes, BusTypes, loopVars, busVars
<1>2. CASE \E i \in Detector : Load(i) \/ Power(i)
  <2>1. load' \in [Detector -> Readings] /\ dead' \subseteq Detector
    BY <1>2 DEF Load, Power, BusInv, BusTypes, Readings
  <2> QED
    BY <1>2, <2>1 DEF Load, Power, BusInv, LoopTypes, Zones, ZoneTypes, BusTypes, loopVars, zoneVars
<1> QED
  BY <1>1, <1>2

LEMMA BusKeeps == BusInv /\ [Next]_vars => BusInv'
<1> SUFFICES ASSUME BusInv, [Next]_vars PROVE BusInv'
  OBVIOUS
<1>1. CASE Settle
  BY <1>1 DEF Settle, BusInv, LoopTypes, Zones, ZoneTypes, BusTypes, zoneVars, busVars
<1>2. CASE PollJoin
  BY <1>2 DEF PollJoin, BusInv, LoopTypes, Zones, ZoneTypes, BusTypes, zoneVars, busVars
<1>3. CASE UNCHANGED vars
  BY <1>3 DEF vars, loopVars, zoneVars, busVars, BusInv, LoopTypes, Zones, ZoneTypes, BusTypes
<1> QED
  BY <1>1, <1>2, <1>3, TakeKeeps, EndWaitKeeps, DeliverKeeps, PollBeginKeeps, PollRoundKeeps,
     PollAbortKeeps, FeedKeeps, ThreadsKeep, SurroundingsKeep
     DEF Next, Processor, Polling

\* src/serial_port/serial_manager.py: every variable of the bus keeps its type; a zone
\* is registered once, and what is in hand is what the processor is at work on.
THEOREM BusTypeCorrect == Spec => []TypeOK
<1>1. BusInv => TypeOK
  <2> SUFFICES ASSUME BusInv PROVE TypeOK
    OBVIOUS
  <2>1. ProperCommands \subseteq Commands
    BY DEF ProperCommands
  <2>2. Range(registered) \subseteq Zone
    BY RangeOfSeq DEF BusInv, Zones
  <2>3. queue \in Seq(Commands) /\ current \in Commands \cup {None}
    BY <2>1 DEF BusInv, LoopTypes
  <2> QED
    BY <2>2, <2>3 DEF BusInv, LoopTypes, Zones, ZoneTypes, BusTypes, TypeOK
<1> QED
  BY <1>1, BusStarts, BusKeeps, PTL DEF Spec

-----------------------------------------------------------------------------
(***************************************************************************)
(* What is read of the detectors.                                          *)
(***************************************************************************)
SameReading(z) ==
  /\ info'[z].serial_index = info[z].serial_index
  /\ info'[z].current_value = info[z].current_value
  /\ info'[z].is_fire_on = info[z].is_fire_on

\* Frames, missing replies and edits aside, no step touches a reading.
LEMMA ReadingsStay ==
  ASSUME BusInv, [Next]_vars
  PROVE  \/ \E f \in wire : Deliver(f)
         \/ EndWait
         \/ \E z \in Zone : Register(z) \/ Unregister(z) \/ Rewire(z)
         \/ /\ UNCHANGED <<registered, misses, moved>>
            /\ \A z \in Zone : SameReading(z)
<1>0. info \in [Zone -> Infos]
  BY DEF BusInv, ZoneTypes
<1>1. CASE \/ Take \/ Settle \/ PollBegin \/ PollJoin \/ UNCHANGED vars
           \/ \E c \in Slot : Feed(c)
           \/ \E i \in Detector : Load(i) \/ Power(i)
           \/ QueryLora \/ Stop \/ Initialize
           \/ \E z \in Zone : SetEnabled(z)
  <2>1. UNCHANGED <<registered, info, misses, moved>>
    BY <1>1 DEF Take, Settle, PollBegin, PollJoin, vars, Feed, Load, Power, QueryLora, Stop,
                Initialize, SetEnabled, zoneVars
  <2> QED
    BY <2>1 DEF SameReading
<1>2. ASSUME NEW zs PROVE \A z \in Zone :
        /\ CanCheck(zs)[z].serial_index = info[z].serial_index
        /\ CanCheck(zs)[z].current_value = info[z].current_value
        /\ CanCheck(zs)[z].is_fire_on = info[z].is_fire_on
  <2> SUFFICES ASSUME NEW z \in Zone
               PROVE  /\ CanCheck(zs)[z].serial_index = info[z].serial_index
                      /\ CanCheck(zs)[z].current_value = info[z].current_value
                      /\ CanCheck(zs)[z].is_fire_on = info[z].is_fire_on
    OBVIOUS
  <2>1. PICK b : b = (info[z].can_check_reset \/ (z \in zs /\ Cooled(z)))
    OBVIOUS
  <2>2. CanCheck(zs)[z] = [info[z] EXCEPT !.can_check_reset = b]
    BY <2>1 DEF CanCheck
  <2>3. info[z] \in Infos
    BY <1>0
  <2> QED
    BY <2>2, <2>3 DEF Infos
<1>3. ASSUME NEW infos \in [Zone -> Infos], NEW y \in Zone, NEW z \in Zone, NEW age, NEW v,
             v = [infos EXCEPT ![y].cutoff_time = age, ![y].can_check_reset = FALSE]
      PROVE  /\ v[z].serial_index = infos[z].serial_index
             /\ v[z].current_value = infos[z].current_value
             /\ v[z].is_fire_on = infos[z].is_fire_on
  <2>1. CASE y = z
    <3>1. v[z] = [infos[z] EXCEPT !.cutoff_time = age, !.can_check_reset = FALSE] /\ infos[z] \in Infos
      BY <1>3, <2>1
    <3> QED
      BY <3>1 DEF Infos
  <2>2. CASE y # z
    BY <1>3, <2>2
  <2> QED
    BY <2>1, <2>2
<1>4. CASE PollRound
  <2>1. UNCHANGED <<registered, misses, moved>> /\ \E zs : info' = CanCheck(zs)
    BY <1>4 DEF PollRound
  <2> QED
    BY <1>2, <2>1 DEF SameReading
<1>5. CASE PollAbort
  <2>1. PICK zones \in Polled : \E n \in DOMAIN zones :
          info' = [CanCheck({zones[m] : m \in 1 .. n - 1}) EXCEPT
                     ![zones[n]].cutoff_time = Never, ![zones[n]].can_check_reset = FALSE]
    BY <1>5 DEF PollAbort
  <2>2. PICK y \in Zone :
          \E zs : info' = [CanCheck(zs) EXCEPT ![y].cutoff_time = Never, ![y].can_check_reset = FALSE]
    <3>1. PICK n \in DOMAIN zones :
            info' = [CanCheck({zones[m] : m \in 1 .. n - 1}) EXCEPT
                       ![zones[n]].cutoff_time = Never, ![zones[n]].can_check_reset = FALSE]
      BY <2>1
    <3>2. PICK y, zs : y = zones[n] /\ zs = {zones[m] : m \in 1 .. n - 1}
      OBVIOUS
    <3>3. y \in Zone
      BY <3>2, RoundIsOnce
    <3>4. info' = [CanCheck(zs) EXCEPT ![y].cutoff_time = Never, ![y].can_check_reset = FALSE]
      BY <3>1, <3>2
    <3> QED
      BY <3>3, <3>4
  <2>3. PICK zs :
          info' = [CanCheck(zs) EXCEPT ![y].cutoff_time = Never, ![y].can_check_reset = FALSE]
    BY <2>2
  <2>4. PICK infos \in [Zone -> Infos] : infos = CanCheck(zs)
    BY CheckIsInfo
  <2>5. ASSUME NEW z \in Zone PROVE SameReading(z)
    BY <1>2, <1>3, <2>3, <2>4 DEF SameReading
  <2> QED
    BY <1>5, <2>5 DEF PollAbort
<1>6. CASE \E z \in Zone : Cutoff(z) \/ ClearCutoffState(z)
  <2>1. PICK y \in Zone : Cutoff(y) \/ ClearCutoffState(y)
    BY <1>6
  <2>2. PICK age : info' = [info EXCEPT ![y].cutoff_time = age, ![y].can_check_reset = FALSE]
    BY <2>1 DEF Cutoff, ClearCutoffState
  <2>3. ASSUME NEW z \in Zone PROVE SameReading(z)
    BY <1>0, <1>3, <2>2 DEF SameReading
  <2> QED
    BY <2>1, <2>3 DEF Cutoff, ClearCutoffState
<1>7. CASE Tick
  <2>1. ASSUME NEW z \in Zone PROVE SameReading(z)
    <3>1. PICK age : info'[z] = [info[z] EXCEPT !.cutoff_time = age]
      BY <1>7 DEF Tick
    <3>2. info[z] \in Infos
      BY <1>0
    <3> QED
      BY <3>1, <3>2 DEF SameReading, Infos
  <2> QED
    BY <1>7, <2>1 DEF Tick
<1> QED
  BY <1>1, <1>4, <1>5, <1>6, <1>7 DEF Next, Processor, Polling, Threads

\* No current, no fire; and what OfflineReadsZero says.
ReadingInv ==
  /\ \A z \in Zone : info[z].current_value = 0 => ~info[z].is_fire_on
  /\ OfflineReadsZero

LEMMA ReadingStarts == Init => ReadingInv
<1> SUFFICES ASSUME Init PROVE ReadingInv
  OBVIOUS
<1>1. ASSUME NEW z \in Zone PROVE info[z].current_value = 0 /\ ~info[z].is_fire_on
  BY DEF Init, NewInfo
<1>2. \A z \in Range(registered) : z \in Zone
  BY BusStarts, RangeOfSeq DEF BusInv, Zones
<1> QED
  BY <1>1, <1>2 DEF ReadingInv, OfflineReadsZero

LEMMA DeliverKeepsReading ==
  ASSUME BusInv, ReadingInv, NEW f \in wire, Deliver(f)
  PROVE  ReadingInv'
<1>0. info \in [Zone -> Infos] /\ misses \in [Detector -> 0 .. MissLimit] /\ f.value \in Readings
  BY DEF BusInv, ZoneTypes, BusTypes
<1>1. CASE UNCHANGED <<misses, info, moved>>
  BY <1>1 DEF ReadingInv, OfflineReadsZero, Deliver
<1>2. CASE UpdateCurrent(f.address, f.value)
  <2>1. UNCHANGED registered
    BY DEF Deliver
  <2>2. ASSUME NEW z \in Wired(f.address)
        PROVE  /\ info'[z].serial_index = f.address
               /\ info'[z].current_value = f.value
               /\ info'[z].is_fire_on = (f.value > 0)
               /\ misses'[f.address] = 0
    <3>1. z \in Zone /\ info[z].serial_index = f.address /\ info[z] \in Infos
      BY <1>0, RangeOfSeq DEF Wired, BusInv, Zones
    <3>2. info'[z] = [info[z] EXCEPT !.current_value = f.value, !.is_fire_on = f.value > 0]
      BY <1>2, <3>1 DEF UpdateCurrent
    <3>3. f.address \in Detector
      BY <3>1 DEF Infos
    <3> QED
      BY <1>2, <3>1, <3>2, <3>3 DEF Infos, UpdateCurrent
  <2>3. ASSUME NEW z \in Zone \ Wired(f.address)
        PROVE  info'[z] = info[z]
    BY <1>2, <2>3 DEF UpdateCurrent
  <2>4. ASSUME NEW z \in Zone, info'[z].current_value = 0 PROVE ~info'[z].is_fire_on
    <3>1. CASE z \in Wired(f.address)
      <4>1. f.value = 0
        BY <2>2, <2>4, <3>1
      <4>2. ~(f.value > 0)
        BY <4>1
      <4> QED
        BY <2>2, <3>1, <4>2
    <3>2. CASE z \notin Wired(f.address)
      BY <2>3, <2>4, <3>2 DEF ReadingInv
    <3> QED
      BY <3>1, <3>2
  <2>5. ASSUME NEW z \in Range(registered) \ moved', misses'[info'[z].serial_index] = MissLimit
        PROVE  info'[z].current_value = 0 /\ ~info'[z].is_fire_on
    <3>1. z \in Zone
      BY RangeOfSeq DEF BusInv, Zones
    <3>2. z \notin Wired(f.address)
      BY <2>2, <2>5, LimitsAssumption
    <3>3. info'[z] = info[z] /\ z \notin moved /\ info[z].serial_index # f.address
      BY <1>2, <2>3, <3>1, <3>2 DEF UpdateCurrent, Wired
    <3>4. info[z].serial_index \in Detector
      BY <1>0, <3>1 DEF Infos
    <3>5. misses[info[z].serial_index] = MissLimit
      BY <1>2, <2>5, <3>3, <3>4 DEF UpdateCurrent
    <3> QED
      BY <3>3, <3>5 DEF ReadingInv, OfflineReadsZero
  <2> QED
    BY <2>1, <2>4, <2>5 DEF ReadingInv, OfflineReadsZero
<1> QED
  BY <1>1, <1>2 DEF Deliver

LEMMA EndWaitKeepsReading ==
  ASSUME BusInv, ReadingInv, EndWait
  PROVE  ReadingInv'
<1>0. info \in [Zone -> Infos] /\ misses \in [Detector -> 0 .. MissLimit] /\ UNCHANGED registered
  BY DEF BusInv, ZoneTypes, EndWait
<1>1. CASE UNCHANGED <<misses, info, moved>>
  BY <1>0, <1>1 DEF ReadingInv, OfflineReadsZero
<1>2. CASE current.type = "GET_CURRENT" /\ HandleMiss(current.index)
  <2>1. PICK i \in Detector : HandleMiss(i)
    BY <1>2 DEF EndWait, BusInv, LoopTypes, ProperCommands, IsQuery
  <2>2. ASSUME NEW z \in Zone
        PROVE  /\ info'[z].serial_index = info[z].serial_index
               /\ \/ info'[z] = info[z]
                  \/ info'[z].current_value = 0 /\ ~info'[z].is_fire_on
               /\ IsOffline(i) /\ z \in Wired(i) => info'[z].current_value = 0
    BY <1>0, <2>1 DEF HandleMiss, Infos
  <2>3. ASSUME NEW z \in Zone, info'[z].current_value = 0 PROVE ~info'[z].is_fire_on
    BY <2>2, <2>3 DEF ReadingInv
  <2>4. ASSUME NEW z \in Range(registered) \ moved', misses'[info'[z].serial_index] = MissLimit
        PROVE  info'[z].current_value = 0
    <3>1. z \in Zone
      BY RangeOfSeq DEF BusInv, Zones
    <3>2. info[z].serial_index \in Detector /\ info'[z].serial_index = info[z].serial_index
      BY <1>0, <2>2, <3>1 DEF Infos
    <3>3. CASE info[z].serial_index = i
      <4>1. IsOffline(i) /\ z \in Wired(i)
        BY <1>0, <2>1, <2>4, <3>2, <3>3 DEF HandleMiss, IsOffline, Wired
      <4> QED
        BY <2>2, <3>1, <4>1
    <3>4. CASE info[z].serial_index # i
      <4>1. misses[info[z].serial_index] = MissLimit /\ z \notin moved
        BY <1>0, <2>1, <2>4, <3>2, <3>4 DEF HandleMiss, Wired
      <4> QED
        BY <2>2, <3>1, <4>1 DEF ReadingInv, OfflineReadsZero
    <3> QED
      BY <3>3, <3>4
  <2>5. \A z \in Range(registered) : z \in Zone
    BY RangeOfSeq DEF BusInv, Zones
  <2> QED
    BY <1>0, <2>3, <2>4, <2>5 DEF ReadingInv, OfflineReadsZero
<1> QED
  BY <1>1, <1>2 DEF EndWait

LEMMA EditsKeepReading ==
  ASSUME BusInv, ReadingInv, NEW z \in Zone, Register(z) \/ Unregister(z) \/ Rewire(z)
  PROVE  ReadingInv'
<1>0. info \in [Zone -> Infos] /\ registered \in Seq(Zone)
  BY DEF BusInv, ZoneTypes, Zones
<1>1. CASE Register(z) \/ Unregister(z)
  <2>1. PICK i \in Detector : info' = [info EXCEPT ![z] = NewInfo(i)]
    BY <1>1, WiringAssumption DEF Register, Unregister
  <2>2. info'[z].current_value = 0 /\ ~info'[z].is_fire_on
    BY <1>0, <2>1 DEF NewInfo
  <2>3. Range(registered') \subseteq Range(registered) \cup {z}
    <3>1. CASE Register(z)
      BY <1>0, <3>1, AppendProperties DEF Register, Range
    <3>2. CASE Unregister(z)
      <4>1. PICK n \in DOMAIN registered : registered' = RemoveAt(registered, n)
        BY <3>2 DEF Unregister
      <4> QED
        BY <1>0, <4>1, RemovedAreFewer
    <3> QED
      BY <1>1, <3>1, <3>2
  <2>4. UNCHANGED misses /\ moved' = moved \ {z}
    BY <1>1 DEF Register, Unregister
  <2>5. \A y \in Zone : y # z => info'[y] = info[y]
    BY <1>0, <2>1
  <2>6. \A y \in Range(registered) : y \in Zone
    BY <1>0, RangeOfSeq
  <2> QED
    BY <2>2, <2>3, <2>4, <2>5, <2>6 DEF ReadingInv, OfflineReadsZero
<1>2. CASE Rewire(z)
  <2>1. PICK i \in Detector : info' = [info EXCEPT ![z].serial_index = i]
    BY <1>2 DEF Rewire
  <2>2. /\ info'[z].current_value = info[z].current_value
        /\ info'[z].is_fire_on = info[z].is_fire_on
    BY <1>0, <2>1 DEF Infos
  <2>3. \A y \in Zone : y # z => info'[y] = info[y]
    BY <1>0, <2>1
  <2>4. \A y \in Range(registered) : y \in Zone
    BY <1>0, RangeOfSeq
  <2> QED
    BY <1>2, <2>2, <2>3, <2>4 DEF Rewire, ReadingInv, OfflineReadsZero
<1> QED
  BY <1>1, <1>2

LEMMA ReadingKept == BusInv /\ ReadingInv /\ [Next]_vars => ReadingInv'
<1> SUFFICES ASSUME BusInv, ReadingInv, [Next]_vars PROVE ReadingInv'
  OBVIOUS
<1>1. CASE UNCHANGED <<registered, misses, moved>> /\ \A z \in Zone : SameReading(z)
  <2>1. \A z \in Range(registered) : z \in Zone
    BY RangeOfSeq DEF BusInv, Zones
  <2> QED
    BY <1>1, <2>1 DEF SameReading, ReadingInv, OfflineReadsZero
<1> QED
  BY <1>1, ReadingsStay, DeliverKeepsReading, EndWaitKeepsReading, EditsKeepReading

\* src/serial_port/serial_manager.py, _handle_current_miss: a detector that is missing
\* leaves no zone reading a current or a fire, whatever is lost, late, edited or
\* restarted in between, except a zone rewired to it and not yet polled.
THEOREM SpecOfflineReadsZero == Spec => []OfflineReadsZero
<1>1. ReadingInv => OfflineReadsZero
  BY DEF ReadingInv
<1> QED
  BY <1>1, BusStarts, BusKeeps, ReadingStarts, ReadingKept, PTL DEF Spec

-----------------------------------------------------------------------------
(***************************************************************************)
(* As long as no reply is late: what arrives while a command is in hand is *)
(* its reply, and there is one at most.                                    *)
(***************************************************************************)
OneReply ==
  /\ wire # {} => stage = "waiting" /\ ~replied
  /\ \A f \in wire : f.kind = Reply(current).kind /\ f.address = current.index
  /\ \A f, g \in wire : f = g

\* What a device is, decides neither which it is nor what kind of frame it sends.
LEMMA ReplySays ==
  ASSUME NEW cmd \in ProperCommands
  PROVE  /\ Reply(cmd).kind \in {"current", "float", "number", "echo"}
         /\ Reply(cmd).kind = "current" <=> cmd.type = "GET_CURRENT"
         /\ Reply(cmd).kind = "echo" => cmd.type \notin LoraQueries
         /\ Reply(cmd).kind = Reply(cmd)'.kind
         /\ Reply(cmd).address = cmd.index
<1>1. CASE cmd.type = "GET_CURRENT"
  BY <1>1 DEF Reply, Frame, LoraQueries
<1>2. CASE cmd.type = "GET_TEMPERATURE"
  BY <1>2 DEF Reply, Frame, LoraQueries
<1>3. CASE cmd.type \in LoraQueries
  BY <1>3 DEF Reply, Frame, LoraQueries, ProperCommands
<1>4. CASE cmd.type \notin {"GET_CURRENT", "GET_TEMPERATURE"} \cup LoraQueries
  BY <1>4 DEF Reply, Frame, LoraQueries
<1> QED
  BY <1>1, <1>2, <1>3, <1>4

LEMMA OneReplyStarts == Init => OneReply
  BY DEF Init, OneReply

LEMMA OneReplyKept ==
  ASSUME "late" \notin Faults, BusInv, OneReply, [Next]_vars
  PROVE  OneReply'
<1>1. CASE Take
  <2>1. wire = {}
    BY <1>1 DEF OneReply, Take
  <2>2. PICK cmd : cmd = Head(queue)
    OBVIOUS
  <2>3. cmd \in ProperCommands /\ current' = cmd /\ stage' = "waiting" /\ ~replied'
    BY <1>1, <2>2, HeadTailProperties DEF Take, BusInv, LoopTypes
  <2>4. wire' = {Reply(cmd)} \/ wire' = {}
    BY <1>1, <2>1, <2>2 DEF Take
  <2>5. Reply(current)'.kind = Reply(cmd).kind /\ Reply(cmd).address = cmd.index
    <3>1. load' = load
      BY <1>1 DEF Take
    <3> QED
      BY <2>3, <3>1, ReplySays DEF Reply
  <2> QED
    BY <2>3, <2>4, <2>5 DEF OneReply
<1>2. CASE \E f \in wire : Deliver(f)
  <2>1. wire' = {}
    BY <1>2 DEF OneReply, Deliver
  <2> QED
    BY <2>1 DEF OneReply
<1>3. CASE EndWait
  <2>1. wire = {} /\ UNCHANGED wire
    BY <1>3 DEF EndWait, OneReply, TimedOut, busVars
  <2> QED
    BY <2>1 DEF OneReply
<1>4. CASE Settle \/ Stop
  <2>1. wire' = {}
    BY <1>4 DEF Settle, Stop, ClosePort, OneReply, busVars
  <2> QED
    BY <2>1 DEF OneReply
<1>5. CASE \E i \in Detector : Load(i)
  <2>1. UNCHANGED <<wire, stage, replied, current>>
    BY <1>5 DEF Load, loopVars
  <2>2. ASSUME NEW f \in wire PROVE Reply(current)'.kind = Reply(current).kind
    <3>1. current \in ProperCommands
      BY DEF OneReply, BusInv, LoopTypes
    <3> QED
      BY <2>1, <3>1, ReplySays DEF Reply, Frame
  <2> QED
    BY <2>1, <2>2 DEF OneReply
<1>6. CASE UNCHANGED <<wire, stage, replied, current, load>>
  BY <1>6 DEF OneReply, Reply
<1>7. ASSUME NEW c \in Slot, Feed(c) PROVE OneReply'
  BY <1>6, <1>7 DEF Feed, busVars
<1>8. CASE \/ PollBegin \/ PollRound \/ PollAbort \/ PollJoin \/ QueryLora \/ Initialize \/ Tick
           \/ UNCHANGED vars
  BY <1>6, <1>8 DEF PollBegin, PollRound, PollAbort, PollJoin, QueryLora, Initialize, Tick, vars,
                    loopVars, busVars
<1>9. CASE \E z \in Zone : \/ Cutoff(z) \/ ClearCutoffState(z) \/ SetEnabled(z)
                          \/ Register(z) \/ Unregister(z) \/ Rewire(z)
  BY <1>6, <1>9 DEF Cutoff, ClearCutoffState, SetEnabled, Register, Unregister, Rewire,
                    loopVars, busVars
<1>10. CASE \E i \in Detector : Power(i)
  BY <1>6, <1>10 DEF Power, loopVars
<1> QED
  BY <1>1, <1>2, <1>3, <1>4, <1>5, <1>7, <1>8, <1>9, <1>10 DEF Next, Processor, Polling, Threads

LEMMA SpecOneReply == ASSUME "late" \notin Faults PROVE Spec => [](BusInv /\ OneReply)
<1>1. BusInv /\ OneReply /\ [Next]_vars => OneReply'
  BY OneReplyKept
<1> QED
  BY <1>1, BusStarts, BusKeeps, OneReplyStarts, PTL DEF Spec

\* src/serial_port/serial_manager.py, class SerialManager (send, reply, send, reply, in
\* strict order): every frame the manager takes is the answer to the command in hand,
\* as long as no reply takes longer than the timeout.
THEOREM SpecStrictOrder == ASSUME "late" \notin Faults PROVE Spec => StrictOrder
<1>1. BusInv /\ OneReply /\ [Next]_vars
      => [manager' = "running" =>
           \A f \in wire \ wire' : f.kind = Reply(current).kind /\ f.address = current.index]_vars
  BY DEF OneReply
<1> QED
  BY <1>1, SpecOneReply, PTL DEF Spec, StrictOrder

\* What a detector reports is what its zones take.
LEMMA DeliverReports ==
  ASSUME BusInv, OneReply, NEW f \in wire, Deliver(f), NEW z \in Range(registered),
         info'[z].is_fire_on # info[z].is_fire_on
  PROVE  /\ f \in wire \ wire'
         /\ f = Frame("current", info[z].serial_index, IF info'[z].is_fire_on THEN 1 ELSE 0)
<1>0. z \in Zone /\ info \in [Zone -> Infos]
  BY RangeOfSeq DEF BusInv, Zones, ZoneTypes
<1>1. IsCurrent(f) /\ UpdateCurrent(f.address, f.value)
  BY DEF Deliver
<1>2. z \in Wired(f.address)
  BY <1>0, <1>1 DEF UpdateCurrent
<1>3. info[z].serial_index = f.address /\ info'[z].is_fire_on = (f.value > 0)
  <2>1. info'[z] = [info[z] EXCEPT !.current_value = f.value, !.is_fire_on = f.value > 0]
    BY <1>0, <1>1, <1>2 DEF UpdateCurrent
  <2> QED
    BY <1>0, <1>2, <2>1 DEF Wired, Infos
<1>4. f.kind = "current"
  <2>1. current \in ProperCommands
    BY DEF OneReply, BusInv, LoopTypes
  <2>2. current.type = "GET_CURRENT"
    BY <1>1, <2>1 DEF IsCurrent, ProperCommands, Commands, CommandTypes, LoraQueries
  <2> QED
    BY <2>1, <2>2, ReplySays DEF OneReply
<1>5. f.value \in {0, 1} /\ f = [kind |-> f.kind, address |-> f.address, value |-> f.value]
  BY DEF BusInv, BusTypes, Readings
<1>6. f.value = IF f.value > 0 THEN 1 ELSE 0
  BY <1>5
<1> QED
  BY <1>3, <1>4, <1>5, <1>6 DEF Frame, Deliver

LEMMA MissReports ==
  ASSUME BusInv, EndWait, NEW z \in Range(registered),
         info'[z].is_fire_on # info[z].is_fire_on
  PROVE  ~info'[z].is_fire_on /\ misses'[info[z].serial_index] = MissLimit
<1>0. z \in Zone /\ info \in [Zone -> Infos] /\ misses \in [Detector -> 0 .. MissLimit]
  BY RangeOfSeq DEF BusInv, Zones, ZoneTypes
<1>1. current.type = "GET_CURRENT" /\ HandleMiss(current.index)
  BY DEF EndWait
<1>2. PICK i \in Detector : HandleMiss(i)
  BY <1>1 DEF EndWait, BusInv, LoopTypes, ProperCommands, IsQuery
<1>3. IsOffline(i) /\ z \in Wired(i)
  BY <1>0, <1>2 DEF HandleMiss
<1>4. ~info'[z].is_fire_on
  BY <1>0, <1>2 DEF HandleMiss, Infos
<1>5. misses'[i] = MissLimit
  BY <1>0, <1>2, <1>3 DEF HandleMiss, IsOffline
<1> QED
  BY <1>3, <1>4, <1>5 DEF Wired

\* src/serial_port/serial_manager.py, _on_data_received, _update_current: a stove is lit
\* and put out by what its own detector reports and by nothing else on the bus, short
\* of the detector's being missing and of an edit of the zone, as long as no reply
\* takes longer than the timeout.
THEOREM SpecFireWasReported == ASSUME "late" \notin Faults PROVE Spec => FireWasReported
<1> DEFINE Reported ==
      \A z \in Range(registered) :
        info'[z].is_fire_on # info[z].is_fire_on =>
          \/ \E f \in wire \ wire' :
               f = Frame("current", info[z].serial_index, IF info'[z].is_fire_on THEN 1 ELSE 0)
          \/ ~info'[z].is_fire_on /\ misses'[info[z].serial_index] = MissLimit
          \/ UNCHANGED <<loopVars, wire>>
<1>1. ASSUME BusInv, OneReply, [Next]_vars PROVE Reported
  <2>1. CASE \E f \in wire : Deliver(f)
    BY <1>1, <2>1, DeliverReports
  <2>2. CASE EndWait
    BY <1>1, <2>2, MissReports
  <2>3. CASE \E z \in Zone : Register(z) \/ Unregister(z) \/ Rewire(z)
    <3>1. UNCHANGED <<loopVars, wire>>
      BY <2>3 DEF Register, Unregister, Rewire, busVars
    <3> QED
      BY <3>1
  <2>4. CASE \A z \in Zone : SameReading(z)
    <3>1. \A z \in Range(registered) : z \in Zone
      BY <1>1, RangeOfSeq DEF BusInv, Zones
    <3> QED
      BY <2>4, <3>1 DEF SameReading
  <2> QED
    BY <1>1, <2>1, <2>2, <2>3, <2>4, ReadingsStay
<1>2. BusInv /\ OneReply /\ [Next]_vars => [Reported]_vars
  BY <1>1
<1> QED
  BY <1>2, SpecOneReply, PTL DEF Spec, FireWasReported

\* src/serial_port/serial_manager.py, _on_data_received: LoRa settings go to the address the
\* LoRa module answered from, as long as no reply takes longer than the timeout.
THEOREM SpecLoraIsAddressed == ASSUME "late" \notin Faults PROVE Spec => []LoraIsAddressed
<1>1. Init => LoraIsAddressed
  BY DEF Init, LoraIsAddressed
<1>2. ASSUME BusInv, OneReply, LoraIsAddressed, [Next]_vars PROVE LoraIsAddressed'
  <2>1. ASSUME NEW f \in wire, Deliver(f) PROVE LoraIsAddressed'
    <3>1. CASE IsLoraNumber(f)
      <4>1. current \in ProperCommands
        BY <1>2 DEF OneReply, BusInv, LoopTypes
      <4>2. f.address = Lora
        BY <1>2, <3>1, <4>1 DEF IsLoraNumber, OneReply, ProperCommands
      <4> QED
        BY <2>1, <3>1, <4>2 DEF Deliver, SetLoraDeviceId, LoraIsAddressed
    <3>2. CASE ~IsLoraNumber(f)
      BY <1>2, <2>1, <3>2 DEF Deliver, SetLoraDeviceId, LoraIsAddressed
    <3> QED
      BY <3>1, <3>2
  <2>2. CASE Initialize
    BY <2>2 DEF Initialize, LoraIsAddressed
  <2>3. CASE UNCHANGED lora_device
    BY <1>2, <2>3 DEF LoraIsAddressed
  <2>4. CASE \/ Take \/ EndWait \/ Settle \/ Polling \/ QueryLora \/ Stop \/ Tick \/ UNCHANGED vars
             \/ \E c \in Slot : Feed(c)
             \/ \E i \in Detector : Load(i) \/ Power(i)
    BY <2>3, <2>4 DEF Take, EndWait, Settle, Polling, PollBegin, PollRound, PollAbort, PollJoin,
                      QueryLora, Stop, Tick, vars, zoneVars, Feed, Load, Power
  <2>5. CASE \E z \in Zone : \/ Cutoff(z) \/ ClearCutoffState(z) \/ SetEnabled(z)
                            \/ Register(z) \/ Unregister(z) \/ Rewire(z)
    BY <2>3, <2>5 DEF Cutoff, ClearCutoffState, SetEnabled, Register, Unregister, Rewire
  <2> QED
    BY <1>2, <2>1, <2>2, <2>4, <2>5 DEF Next, Processor, Threads
<1>3. BusInv /\ OneReply /\ LoraIsAddressed /\ [Next]_vars => LoraIsAddressed'
  BY <1>2
<1> QED
  BY <1>1, <1>3, SpecOneReply, PTL DEF Spec

-----------------------------------------------------------------------------
(***************************************************************************)
(* As long as no round of the polling loop is aborted: a round begins only *)
(* when the queries of the one before have been taken and finished.        *)
(***************************************************************************)
NoQuery(q)    == \A n \in DOMAIN q : ~IsQuery(q[n])
QueryOnce(q)  == \A m, n \in DOMAIN q : IsQuery(q[m]) /\ q[m] = q[n] => m = n
Lacks(q, cmd) == \A n \in DOMAIN q : q[n] # cmd

OnePoll ==
  /\ poll # "join" => ~IsQuery(current) /\ NoQuery(queue)
  /\ QueryOnce(queue)
  /\ IsQuery(current) => Lacks(queue, current)
  /\ manager = "stopped" => queue = <<>> /\ current = None

\* Orders put behind the queue add no query.
LEMMA OrdersAddNone ==
  ASSUME NEW q \in Seq(ProperCommands), NEW batch \in Seq(Orders)
  PROVE  /\ NoQuery(q) => NoQuery(q \o batch)
         /\ QueryOnce(q) => QueryOnce(q \o batch)
         /\ \A cmd : IsQuery(cmd) /\ Lacks(q, cmd) => Lacks(q \o batch, cmd)
<1>1. PICK r : r = q \o batch
  OBVIOUS
<1>2. /\ r \in Seq(ProperCommands) /\ DOMAIN q = 1..Len(q) /\ Len(q) \in Nat
      /\ \A n \in DOMAIN q : r[n] = q[n]
      /\ \A n \in DOMAIN r \ DOMAIN q : ~IsQuery(r[n])
  <2>1. batch \in Seq(ProperCommands)
    BY OrdersAreProper
  <2>2. /\ Len(r) = Len(q) + Len(batch) /\ r \in Seq(ProperCommands)
        /\ \A n \in 1..Len(r) : r[n] = IF n <= Len(q) THEN q[n] ELSE batch[n - Len(q)]
    BY <1>1, <2>1, ConcatProperties
  <2>3. \A n \in 1..Len(batch) : ~IsQuery(batch[n])
    BY DEF Orders
  <2> QED
    BY <2>1, <2>2, <2>3
<1>3. NoQuery(q) => NoQuery(r)
  BY <1>2 DEF NoQuery
<1>4. QueryOnce(q) => QueryOnce(r)
  BY <1>2 DEF QueryOnce
<1>5. \A cmd : IsQuery(cmd) /\ Lacks(q, cmd) => Lacks(r, cmd)
  BY <1>2 DEF Lacks
<1> QED
  BY <1>1, <1>3, <1>4, <1>5

\* A round put behind a queue without queries.
LEMMA RoundAddsOnce ==
  ASSUME NEW q \in Seq(ProperCommands), NEW k \in Nat, NEW ix \in [1..k -> Detector], NoQuery(q),
         \A m, n \in 1..k : ix[m] = ix[n] => m = n
  PROVE  QueryOnce(q \o Queries("GET_CURRENT", ix))
<1>1. PICK b : b = Queries("GET_CURRENT", ix)
  OBVIOUS
<1>2. b \in Seq(ProperCommands) /\ Len(b) = k /\ \A n \in 1..k : b[n].index = ix[n]
  <2>1. /\ Queries("GET_CURRENT", ix) \in Seq(ProperCommands)
        /\ Len(Queries("GET_CURRENT", ix)) = k
        /\ \A n \in 1..k : Queries("GET_CURRENT", ix)[n] = Command("GET_CURRENT", ix[n])
    BY QueriesAreCommands
  <2>2. \A n \in 1..k : b[n] = Command("GET_CURRENT", ix[n])
    BY <1>1, <2>1
  <2>3. \A i : Command("GET_CURRENT", i).index = i
    BY DEF Command
  <2>4. \A n \in 1..k : b[n].index = ix[n]
    BY <2>2, <2>3
  <2>5. b \in Seq(ProperCommands) /\ Len(b) = k
    BY <1>1, <2>1
  <2> QED
    BY <2>4, <2>5
<1>3. PICK r : r = q \o b
  OBVIOUS
<1>4. /\ Len(r) = Len(q) + k /\ DOMAIN r = 1..Len(r) /\ Len(q) \in Nat
      /\ \A n \in 1..Len(r) : r[n] = IF n <= Len(q) THEN q[n] ELSE b[n - Len(q)]
  BY <1>2, <1>3, ConcatProperties
<1>5. ASSUME NEW m \in DOMAIN r, NEW n \in DOMAIN r, IsQuery(r[m]), r[m] = r[n]
      PROVE  m = n
  <2>1. m > Len(q) /\ n > Len(q)
    BY <1>4, <1>5 DEF NoQuery
  <2>2. PICK i, j : i = m - Len(q) /\ j = n - Len(q)
    OBVIOUS
  <2>3. i \in 1..k /\ j \in 1..k
    BY <1>4, <2>1, <2>2
  <2>4. b[i] = b[j]
    BY <1>4, <1>5, <2>1, <2>2
  <2>5. ix[i] = ix[j]
    BY <1>2, <2>3, <2>4
  <2>6. i = j
    BY <2>3, <2>5
  <2> QED
    BY <1>4, <2>2, <2>6
<1>6. QueryOnce(r)
  BY <1>5 DEF QueryOnce
<1> QED
  BY <1>1, <1>3, <1>6

\* The command taken is no longer in the queue.
LEMMA TakenIsOut ==
  ASSUME NEW q \in Seq(ProperCommands), q # <<>>, QueryOnce(q)
  PROVE  /\ QueryOnce(Tail(q))
         /\ IsQuery(Head(q)) => Lacks(Tail(q), Head(q))
         /\ NoQuery(q) => NoQuery(Tail(q)) /\ ~IsQuery(Head(q))
<1>1. PICK h, t : h = Head(q) /\ t = Tail(q)
  OBVIOUS
<1>2. /\ h = q[1] /\ 1 \in DOMAIN q /\ DOMAIN t = 1..Len(t) /\ Len(t) \in Nat
      /\ \A n \in DOMAIN t : n + 1 \in DOMAIN q /\ t[n] = q[n + 1]
  BY <1>1, HeadTailProperties
<1>3. QueryOnce(t)
  <2> SUFFICES ASSUME NEW m \in DOMAIN t, NEW n \in DOMAIN t, IsQuery(t[m]), t[m] = t[n]
               PROVE  m = n
    BY DEF QueryOnce
  <2>1. m + 1 = n + 1
    BY <1>2 DEF QueryOnce
  <2> QED
    BY <1>2, <2>1
<1>4. IsQuery(h) => Lacks(t, h)
  <2> SUFFICES ASSUME IsQuery(h), NEW n \in DOMAIN t, t[n] = h
               PROVE  FALSE
    BY DEF Lacks
  <2>1. n + 1 = 1
    BY <1>2 DEF QueryOnce
  <2> QED
    BY <1>2, <2>1
<1>5. NoQuery(q) => NoQuery(t) /\ ~IsQuery(h)
  BY <1>2 DEF NoQuery
<1> QED
  BY <1>1, <1>3, <1>4, <1>5

LEMMA EmptyHasNone == NoQuery(<<>>) /\ QueryOnce(<<>>) /\ ~IsQuery(None)
  BY NoneIsNone DEF NoQuery, QueryOnce, IsQuery

LEMMA PollStarts == Init => OnePoll
  BY EmptyHasNone DEF Init, OnePoll

\* What puts orders and nothing else keeps the queries as they are.
LEMMA PutKeepsPoll ==
  ASSUME BusInv, OnePoll, NEW batch \in Seq(Orders), queue' = queue \o batch,
         poll # "join" \/ poll' = "join", manager # "stopped", UNCHANGED <<manager, current>>
  PROVE  OnePoll'
<1>1. queue \in Seq(ProperCommands)
  BY DEF BusInv, LoopTypes
<1>2. /\ NoQuery(queue) => NoQuery(queue \o batch)
      /\ QueryOnce(queue) => QueryOnce(queue \o batch)
      /\ \A cmd : IsQuery(cmd) /\ Lacks(queue, cmd) => Lacks(queue \o batch, cmd)
  BY <1>1, OrdersAddNone
<1>3. PICK q : q = queue \o batch
  OBVIOUS
<1>4. /\ NoQuery(queue) => NoQuery(q)
      /\ QueryOnce(q)
      /\ IsQuery(current) => Lacks(q, current)
  BY <1>2, <1>3 DEF OnePoll
<1>5. queue' = q
  BY <1>3
<1> QED
  BY <1>4, <1>5 DEF OnePoll, NoQuery, QueryOnce, Lacks

LEMMA RoundKeepsPoll == ASSUME BusInv, OnePoll, PollRound PROVE OnePoll'
<1>1. PICK zones \in Polled :
        queue' = queue \o Queries("GET_CURRENT",
                                  [n \in DOMAIN zones |-> info[zones[n]].serial_index])
                       \o Queries("GET_TEMPERATURE", SetToSeq(Thermometer))
  BY DEF PollRound
<1>2. PICK k \in Nat :
         /\ zones \in [1..k -> Zone]
         /\ \A m, n \in 1..k :
              info[zones[m]].serial_index = info[zones[n]].serial_index => m = n
  BY RoundIsOnce
<1>3. PICK ix : ix = [n \in DOMAIN zones |-> info[zones[n]].serial_index]
  OBVIOUS
<1>4. ix \in [1..k -> Detector] /\ \A m, n \in 1..k : ix[m] = ix[n] => m = n
  BY <1>2, <1>3 DEF BusInv, ZoneTypes, Infos
<1>5. queue \in Seq(ProperCommands) /\ NoQuery(queue) /\ ~IsQuery(current)
  BY DEF BusInv, LoopTypes, OnePoll, PollRound
<1>6. PICK q : q = queue \o Queries("GET_CURRENT", ix)
  OBVIOUS
<1>7. q \in Seq(ProperCommands)
  BY <1>4, <1>5, <1>6, QueriesAreCommands, ConcatProperties
<1>8. QueryOnce(q)
  BY <1>4, <1>5, <1>6, RoundAddsOnce
<1>9. PICK batch \in Seq(Orders) : batch = Queries("GET_TEMPERATURE", SetToSeq(Thermometer))
  BY TemperaturesAreOrders
<1>10. PICK r : r = q \o batch
  OBVIOUS
<1>11. QueryOnce(r) /\ queue' = r
  <2>1. QueryOnce(q) => QueryOnce(q \o batch)
    BY <1>7, OrdersAddNone
  <2> QED
    BY <1>1, <1>3, <1>6, <1>8, <1>9, <1>10, <2>1
<1> QED
  BY <1>5, <1>11 DEF OnePoll, PollRound, QueryOnce

LEMMA PollKept ==
  ASSUME "abort" \notin Faults, BusInv, OnePoll, [Next]_vars
  PROVE  OnePoll'
<1>0. queue \in Seq(ProperCommands)
  BY DEF BusInv, LoopTypes
<1>1. CASE Take
  <2>1. PICK h, t : h = Head(queue) /\ t = Tail(queue)
    OBVIOUS
  <2>2. queue' = t /\ current' = h /\ UNCHANGED <<poll, manager>> /\ manager = "running"
    BY <1>1, <2>1 DEF Take
  <2>3. /\ QueryOnce(t)
        /\ IsQuery(h) => Lacks(t, h)
        /\ NoQuery(queue) => NoQuery(t) /\ ~IsQuery(h)
    BY <1>0, <1>1, <2>1, TakenIsOut DEF OnePoll, Take
  <2> QED
    BY <2>2, <2>3 DEF OnePoll, QueryOnce, Lacks, NoQuery
<1>2. CASE Settle
  BY <1>2, EmptyHasNone DEF Settle, OnePoll, QueryOnce, NoQuery
<1>3. CASE PollBegin
  <2>1. PICK a \in Seq(Orders), b \in Seq(Orders) : a = LoraScript[1] /\ b = LoraScript[2]
    BY ScriptsAreOrders
  <2>2. PICK batch \in Seq(Orders) : queue' = queue \o batch
    BY <1>3, <2>1 DEF PollBegin
  <2> QED
    BY <1>3, <2>2, PutKeepsPoll DEF PollBegin
<1>4. CASE PollRound
  BY <1>4, RoundKeepsPoll
<1>5. CASE PollJoin
  BY <1>5, EmptyHasNone DEF PollJoin, Joined, OnePoll, BusInv, LoopTypes, NoQuery, QueryOnce
<1>6. ASSUME NEW c \in Slot, Feed(c) PROVE OnePoll'
  <2>1. CASE manager = "running"
    <3>1. PICK batch \in Seq(Orders) : queue' = queue \o batch
      BY <1>6, <2>1, HeadTailProperties DEF Feed, BusInv, LoopTypes
    <3> QED
      BY <1>6, <2>1, <3>1, PutKeepsPoll DEF Feed
  <2>2. CASE manager # "running"
    BY <1>6, <2>2 DEF Feed, OnePoll, QueryOnce, Lacks, NoQuery
  <2> QED
    BY <2>1, <2>2
<1>7. CASE Stop \/ Initialize
  BY <1>7, EmptyHasNone DEF Stop, Initialize, OnePoll, NoQuery, QueryOnce, Lacks
<1>8. CASE UNCHANGED <<manager, queue, current, poll>>
  BY <1>8 DEF OnePoll, NoQuery, QueryOnce, Lacks
<1>9. CASE \/ EndWait \/ QueryLora \/ Tick \/ UNCHANGED vars
           \/ \E i \in Detector : Load(i) \/ Power(i)
           \/ \E f \in wire : Deliver(f)
  BY <1>8, <1>9 DEF EndWait, QueryLora, Tick, vars, loopVars, Load, Power, Deliver
<1>10. CASE \E z \in Zone : \/ Cutoff(z) \/ ClearCutoffState(z) \/ SetEnabled(z)
                           \/ Register(z) \/ Unregister(z) \/ Rewire(z)
  BY <1>8, <1>10 DEF Cutoff, ClearCutoffState, SetEnabled, Register, Unregister, Rewire, loopVars
<1>11. ~PollAbort
  BY DEF PollAbort
<1> QED
  BY <1>1, <1>2, <1>3, <1>4, <1>5, <1>6, <1>7, <1>9, <1>10, <1>11
     DEF Next, Processor, Polling, Threads

\* src/serial_port/serial_manager.py, _polling_loop: with zones registered, removed and
\* rewired between the rounds and during them, and the manager restarted, one query per
\* detector at most is outstanding, as long as no round raises.
THEOREM SpecPollNeverPilesUp == ASSUME "abort" \notin Faults PROVE Spec => []PollNeverPilesUp
<1>1. ASSUME BusInv, OnePoll PROVE PollNeverPilesUp
  <2> SUFFICES ASSUME NEW i \in Detector, NEW query, query = Command("GET_CURRENT", i)
               PROVE  Cardinality({n \in DOMAIN queue : queue[n] = query})
                        + (IF current = query THEN 1 ELSE 0) <= 1
    BY DEF PollNeverPilesUp
  <2>1. IsQuery(query)
    BY DEF Command, IsQuery
  <2>2. PICK S : S = {n \in DOMAIN queue : queue[n] = query}
    OBVIOUS
  <2>3. \A m, n \in S : m = n
    BY <1>1, <2>1, <2>2 DEF OnePoll, QueryOnce
  <2>4. CASE S = {}
    <3>1. Cardinality(S) = 0
      BY <2>4, FS_EmptySet
    <3> QED
      BY <2>2, <3>1
  <2>5. CASE S # {}
    <3>0. PICK n \in S : TRUE
      BY <2>5
    <3>1. S = {n}
      BY <2>3, <3>0
    <3>2. Cardinality(S) = 1
      BY <3>1, FS_Singleton
    <3>3. current # query
      BY <1>1, <2>1, <2>2, <3>1 DEF OnePoll, Lacks
    <3> QED
      BY <2>2, <3>2, <3>3
  <2> QED
    BY <2>4, <2>5
<1>2. BusInv /\ OnePoll /\ [Next]_vars => OnePoll'
  BY PollKept
<1>3. BusInv /\ OnePoll => PollNeverPilesUp
  BY <1>1
<1> QED
  BY <1>2, <1>3, BusStarts, BusKeeps, PollStarts, PTL DEF Spec

=============================================================================
