------------------------------ MODULE Detector ------------------------------
(***************************************************************************)
(* What PersonDetector (src/detection/detector.py) makes of the frames of  *)
(* one camera of one zone.  Where a person stands in a frame and what the  *)
(* network finds is abstracted to what the zone can tell apart: somebody   *)
(* in its region, somebody elsewhere in the frame, nobody, or an inference *)
(* that failed, which the engines report as an empty list.                 *)
(***************************************************************************)
EXTENDS Integers, Sequences, FiniteSets

\* "no_frame": the camera is missing, offline or has no frame yet.
Sights == {"in_roi", "elsewhere", "nobody", "failed", "no_frame"}

\* raw_has_person.  The region of interest filters only in a zone of one
\* camera that has one; several cameras are asked for the whole picture.
RawHasPerson(sight, filtered) ==
  sight = "in_roi" \/ (sight = "elsewhere" /\ ~filtered)

\* no_person_threshold and person_present_threshold of DetectionConfig.
DetectionConfigs == [no_person: Nat \ {0}, person_present: Nat \ {0}]

\* A new ZoneDetectionState.
NewWindow == [recent |-> <<>>, present |-> FALSE]

\* deque(maxlen=max(no_person_threshold, person_present_threshold))
MaxLen(th) == IF th.no_person > th.person_present THEN th.no_person
                                                  ELSE th.person_present

\* Faulty variant (mutation runs): the window is one frame too long.
KeptOneMore(recent, th) ==
  IF Len(recent) > MaxLen(th) + 1 THEN Tail(recent) ELSE recent

\* The window after an append: the oldest frame falls out.
Kept(recent, th) == IF Len(recent) > MaxLen(th) THEN Tail(recent) ELSE recent

Count(recent, b) == Cardinality({i \in DOMAIN recent : recent[i] = b})

\* ZoneDetectionState.update(): the smoothed answer turns when the window
\* holds enough frames of the other kind, wherever in it they are.
AfterFrame(w, has_person, th) ==
  LET recent == Kept(Append(w.recent, has_person), th)
  IN  [recent  |-> recent,
       present |-> IF w.present THEN Count(recent, FALSE) < th.no_person
                                ELSE Count(recent, TRUE) >= th.person_present]
=============================================================================
