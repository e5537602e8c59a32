----------------------------- MODULE StoveGuard -----------------------------
(***************************************************************************)
(* What a zone promises, whatever drives it: an escalation ladder.  The    *)
(* clock "absence" runs since somebody was last known to be looking after  *)
(* the stove, since its fire was last known to be out, or since the zone   *)
(* was last brought to rest.  The zone climbs the ladder one way only,     *)
(* never to a rung whose time has not come, and comes down only to rest.   *)
(***************************************************************************)
EXTENDS Integers

CONSTANTS MaxAge,      \* the clock saturates here
          Limits       \* the admissible settings of the three thresholds

Levels == {"rest", "timing", "warning", "alarm", "cutoff", "overheated"}
Order  == [l \in Levels |->
             CASE l = "timing" -> 1 [] l = "warning" -> 2 [] l = "alarm" -> 3
               [] l = "cutoff" -> 4 [] OTHER -> 0]

VARIABLES level, absence, limits

vars == <<level, absence, limits>>

\* The absence a rung needs before it may be entered.
Needs(l) == CASE l = "warning" -> limits.warning_time
              [] l = "alarm"   -> limits.alarm_time
              [] l = "cutoff"  -> limits.action_time
              [] OTHER         -> 0

Init == level = "rest" /\ absence = 0 /\ limits \in Limits

Wait == /\ absence' = IF absence = MaxAge THEN absence ELSE absence + 1
        /\ UNCHANGED <<level, limits>>

Configure == limits' \in Limits /\ UNCHANGED <<level, absence>>

\* Somebody is there, the fire is out, or the zone is released.
Rest == level' = "rest" /\ absence' = 0 /\ UNCHANGED limits

Climb(l) == /\ level # "overheated"
            /\ Order[l] > Order[level]
            /\ absence >= Needs(l)
            /\ level' = l
            /\ UNCHANGED <<absence, limits>>

\* Overheating pre-empts the ladder; while it lasts the absence clock may be
\* restarted by what is observed.
Overheat == /\ level' = "overheated"
            /\ absence' \in {absence, 0}
            /\ UNCHANGED limits

\* An observation that restarts the clock of a zone at rest or overheated
\* and changes nothing else is covered by Rest and Overheat.
Next == \/ Wait \/ Configure \/ Rest \/ Overheat
        \/ \E l \in {"timing", "warning", "alarm", "cutoff"} : Climb(l)

Spec == Init /\ [][Next]_vars
=============================================================================
