------------------------------- MODULE Camera -------------------------------
(***************************************************************************)
(* One camera (src/camera/manager.py) under the requests that create,      *)
(* update, delete and preview it (src/api/ws_handler.py).  An update makes *)
(* a new Camera object under the same id, while threads of the one before  *)
(* may still run: one that opens the device first, then one that reads it. *)
(*                                                                         *)
(* A step of a thread ends where it blocks, in opening the device or in    *)
(* reading a frame; the requests run on one event loop, where stop() waits *)
(* for the reader, but not for longer than five seconds.                   *)
(***************************************************************************)
EXTENDS Naturals, FiniteSets

CONSTANTS MaxCameras,  \* bound: Camera objects made
          Thread,      \* room for the threads of one (bound)
          MaxRetries,  \* max_retries
          Exclusive,   \* the device is opened once at a time (USB), or not (RTSP)
          Hasty        \* requests come while an object is still connecting

ASSUME MaxCamerasAssumption == MaxCameras \in Nat \ {0}
ASSUME MaxRetriesAssumption == MaxRetries \in Nat \ {0}
ASSUME FlagsAssumption == Exclusive \in BOOLEAN /\ Hasty \in BOOLEAN

VARIABLES
  device,   \* what is plugged in: nothing, what opens but has no frames, a camera
  cameras,  \* the objects
  known,    \* the one CameraManager knows, 0 for none
  made,     \* objects made
  request   \* what the event loop waits in stop() for

cameraVars == <<device, cameras, known, made, request>>

Object == 1..MaxCameras
NoCamera == 0

(***************************************************************************)
(* last is what _last_frame_time says, against FRAME_TIMEOUT_SEC; a frame  *)
(* is old when the connection it came by was given up.  starting: the      *)
(* thread that is to call start() has not run.                             *)
(***************************************************************************)
NewCamera ==
  [running |-> FALSE, status |-> "offline", cap |-> "none", force |-> FALSE,
   frame |-> "none", last |-> "never", failures |-> 0, starting |-> FALSE,
   threads |-> [t \in Thread |-> "none"]]
Aged(c) == IF c.frame = "none" THEN "none" ELSE "old"
Dropped(c) == [c EXCEPT !.cap = "none", !.frame = Aged(c)]

CameraInit ==
  /\ device \in {"none", "mute", "live"}
  /\ cameras = [o \in Object |-> IF o = 1 THEN [NewCamera EXCEPT !.starting = TRUE] ELSE NewCamera]
  /\ known = 1 /\ made = 1
  /\ request = "none"

Becomes(o, c) == cameras' = [cameras EXCEPT ![o] = c]
At(o, t, where) == cameras[o].threads[t] = where
Goes(c, t, where) == [c EXCEPT !.threads[t] = where]
Opens(o) == /\ device # "none"
            /\ Exclusive => \A p \in Object \ {o} : cameras[p].cap # "open"

-----------------------------------------------------------------------------
\* Faulty variant (mutation runs): left to _open_capture() to mark it running.
RunningLater(c) == c.running
RunningAtOnce(c) == TRUE

\* start(): a thread connects.  Two threads may call it, without a lock; its test of
\* _running and its assignment are one step, because CPython 3.11, which the device runs,
\* switches threads at calls and at the ends of loops only, and there is neither between.
CanStart(c) == c.running \/ \E t \in Thread : c.threads[t] = "none"
Started(c) ==
  IF c.running THEN c
  ELSE LET t == CHOOSE t \in Thread : c.threads[t] = "none"
       IN  [Goes(c, t, "connect") EXCEPT !.status = "connecting", !.running = RunningAtOnce(c)]

StartCamera(o) ==
  LET c == cameras[o] IN
  /\ c.starting /\ CanStart(c)
  /\ Becomes(o, [Started(c) EXCEPT !.starting = FALSE])
  /\ UNCHANGED <<device, known, made, request>>

\* Faulty variant (mutation runs): a failure leaves it marked running.
RunningStays == TRUE
RunningAfterFailure == FALSE

\* _connect_async(), whoever has called stop() in the meantime.
Connect(o, t) ==
  LET c == cameras[o] IN
  /\ At(o, t, "connect")
  /\ Becomes(o, IF Opens(o)
                THEN [Goes(c, t, "top") EXCEPT !.cap = "open", !.status = "online", !.running = TRUE,
                                               !.failures = 0]
                ELSE [Goes(c, t, "none") EXCEPT !.cap = "none", !.status = "error",
                                                !.running = RunningAfterFailure])
  /\ UNCHANGED <<device, known, made, request>>

\* _read_frames(), from the head of its loop to where it opens or reads.  The last
\* thread of an object nobody knows takes the connection with it.
Top(o, t) ==
  LET c == cameras[o] IN
  /\ At(o, t, "top")
  /\ Becomes(o,
       IF ~c.running
       THEN [Goes(c, t, "none") EXCEPT !.cap = IF o = known THEN c.cap ELSE "none"]
       ELSE IF c.cap = "open" /\ ~c.force /\ c.last # "stale" THEN Goes(c, t, "read")
       ELSE [Goes(Dropped(c), t, "open") EXCEPT !.force = FALSE, !.status = "connecting"])
  /\ UNCHANGED <<device, known, made, request>>

Open(o, t) ==
  LET c == cameras[o] IN
  /\ At(o, t, "open")
  /\ Becomes(o, IF Opens(o)
                THEN [Goes(c, t, "read") EXCEPT !.cap = "open", !.status = "online",
                                                !.last = "recent"]
                ELSE [Goes(c, t, "top") EXCEPT !.cap = "none", !.status = "offline"])
  /\ UNCHANGED <<device, known, made, request>>

Got(c) == [c EXCEPT !.frame = "new", !.last = "recent", !.status = "online", !.failures = 0]
Missed(c) == IF c.failures + 1 < MaxRetries THEN [c EXCEPT !.failures = @ + 1]
             ELSE [Dropped(c) EXCEPT !.failures = 0, !.status = "error"]

\* read() returns; if the connection was taken away in between, anyhow or not at all.
Read(o, t) ==
  LET c == cameras[o]
      Returns(d) == Becomes(o, Goes(d, t, "top"))
  IN  /\ At(o, t, "read")
      /\ \/ device = "live" /\ Returns(Got(c))
         \/ (device # "live" \/ c.cap = "none") /\ Returns(Missed(c))
         \/ c.cap = "none" /\ Returns(c)
      /\ UNCHANGED <<device, known, made, request>>

\* A read that blocks for long.
Wait(o) ==
  /\ device # "live" /\ cameras[o].last = "recent"
  /\ \E t \in Thread : At(o, t, "read")
  /\ Becomes(o, [cameras[o] EXCEPT !.last = "stale"])
  /\ UNCHANGED <<device, known, made, request>>

-----------------------------------------------------------------------------
(***************************************************************************)
(* The requests.                                                           *)
(***************************************************************************)
Connecting(o) == cameras[o].starting \/ \E t \in Thread : At(o, t, "connect")

\* _update_camera() and _delete_camera(): stop(), up to the wait for the reader.
Edit ==
  /\ request = "none" /\ known # NoCamera
  /\ Hasty \/ ~Connecting(known)
  /\ request' \in {"delete"} \cup IF made < MaxCameras THEN {"update"} ELSE {}
  /\ Becomes(known, [cameras[known] EXCEPT !.running = FALSE])
  /\ UNCHANGED <<device, known, made>>

\* The reader has ended, or is given up; there may be none yet to wait for.
Ended(c) == \A t \in Thread :
  c.threads[t] \in {"none", "connect"} \cup IF device = "live" THEN {} ELSE {"open", "read"}

Stopped(c) == [c EXCEPT !.cap = "none", !.frame = "none", !.status = "offline"]

RemoveCamera(o) == [cameras EXCEPT ![o] = Stopped(cameras[o])]

EditEnds ==
  /\ request # "none" /\ Ended(cameras[known])
  /\ LET removed == RemoveCamera(known)
     IN  IF request = "delete"
         THEN cameras' = removed /\ known' = NoCamera /\ UNCHANGED made
         ELSE /\ cameras' = [removed EXCEPT ![made + 1].starting = TRUE]
              /\ known' = made + 1 /\ made' = made + 1
  /\ request' = "none"
  /\ UNCHANGED device

\* _create_camera().
Create ==
  /\ request = "none" /\ known = NoCamera /\ made < MaxCameras
  /\ known' = made + 1 /\ made' = made + 1
  /\ Becomes(made + 1, [NewCamera EXCEPT !.starting = TRUE])
  /\ UNCHANGED <<device, request>>

\* reconnect(): started, or its connection given up for the reader to open anew.
Reconnected(c) ==
  IF ~c.running THEN Started(c)
  ELSE [Dropped(c) EXCEPT !.force = TRUE, !.status = "connecting"]

\* _preview_camera() of a camera that is not online.
Preview ==
  /\ request = "none" /\ known # NoCamera
  /\ LET c == cameras[known] IN
       /\ c.status # "online"
       /\ CanStart(c)
       /\ Becomes(known, Reconnected(c))
  /\ UNCHANGED <<device, known, made, request>>

\* The device is unplugged, hangs, comes back.
Plug ==
  /\ device' \in {"none", "mute", "live"} \ {device}
  /\ UNCHANGED <<cameras, known, made, request>>

Run(o) == StartCamera(o) \/ \E t \in Thread : Connect(o, t) \/ Top(o, t) \/ Open(o, t) \/ Read(o, t)

CameraNext ==
  \/ \E o \in Object : Run(o) \/ Wait(o)
  \/ Edit \/ EditEnds \/ Create \/ Preview \/ Plug

CameraSpec == CameraInit /\ [][CameraNext]_cameraVars

\* Threads run, calls of the camera library return.
CameraFairSpec == CameraSpec /\ WF_cameraVars(EditEnds) /\ \A o \in Object : WF_cameraVars(Run(o))
\* And somebody looks at a camera that is not online.
WatchedSpec == CameraFairSpec /\ WF_cameraVars(Preview)

-----------------------------------------------------------------------------
CameraTypeOK ==
  /\ device \in {"none", "mute", "live"}
  /\ cameras \in [Object ->
       [running : BOOLEAN, status : {"offline", "connecting", "online", "error"},
        cap : {"none", "open"}, force : BOOLEAN, frame : {"none", "new", "old"},
        last : {"never", "recent", "stale"}, failures : 0..(MaxRetries - 1),
        starting : BOOLEAN, threads : [Thread -> {"none", "connect", "top", "open", "read"}]]]
  /\ known \in 0..made /\ made \in 1..MaxCameras
  /\ request \in {"none", "update", "delete"}
  /\ request # "none" => known # NoCamera

Shows(o) == cameras[o].status = "online" /\ cameras[o].frame = "new"

(***************************************************************************)
(* However starts, previews and failures interleave, a Camera object never *)
(* has two threads that open or read the device: they would share one      *)
(* VideoCapture, which is not made for it.                                 *)
(***************************************************************************)
StartedOnce ==
  \A o \in Object : Cardinality({t \in Thread : cameras[o].threads[t] # "none"}) <= 1

(***************************************************************************)
(* A camera that works from some time on shows what it sees again and      *)
(* again, whatever it, and the Camera objects before it, went through.     *)
(***************************************************************************)
Recovers == <>[](device = "live") => []<>(known = NoCamera \/ Shows(known))

(***************************************************************************)
(* The same without a break: once a working camera shows what it sees, it  *)
(* stays online.                                                           *)
(***************************************************************************)
StaysOnline ==
  <>[](device = "live" /\ request = "none" /\ known # NoCamera) => <>[](known = NoCamera \/ Shows(known))

(***************************************************************************)
(* The detection loop takes frames of cameras that are online: none of     *)
(* them is from before the connection was lost.                            *)
(***************************************************************************)
SeesThePresent == known # NoCamera /\ cameras[known].status = "online" => cameras[known].frame # "old"

(***************************************************************************)
(* An object that was stopped and replaced lets go of the device.          *)
(***************************************************************************)
LetsGo ==
  \A o \in Object : o <= made /\ o # known ~> \A t \in Thread : cameras[o].threads[t] = "none"
=============================================================================
