----------------------------- MODULE AtomicStore -----------------------------
(***************************************************************************)
(* What ConfigManager.save() promises (src/utils/config.py:538): the saved *)
(* configuration goes from one whole configuration to the next at once,    *)
(* and what a request was told is in force survives a restart.             *)
(***************************************************************************)
CONSTANTS Setting,   \* whole configurations
          Parsed(_)  \* what reading makes of one

VARIABLES memory,   \* the configuration in use
          saved,    \* the one the next start will read
          promised  \* the one the last successful request left

storeVars == <<memory, saved, promised>>

Init == memory \in Setting /\ saved = memory /\ promised = memory

Change == memory' \in Setting /\ UNCHANGED <<saved, promised>>
Save == saved' = memory /\ UNCHANGED <<memory, promised>>
Promise == saved = memory /\ promised' = memory /\ UNCHANGED <<memory, saved>>
Restart == memory' = Parsed(saved) /\ UNCHANGED <<saved, promised>>

Next == Change \/ Save \/ Promise \/ Restart

Spec == Init /\ [][Next]_storeVars
=============================================================================
