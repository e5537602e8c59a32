--------------------------- MODULE NetworkApplier ---------------------------
(***************************************************************************)
(* NetworkApplier (src/ble/network_applier.py): one call of connect() or   *)
(* connect_ethernet(), an nmcli command at a time, next to NetworkManager, *)
(* which saves connection profiles, activates them, and activates one of   *)
(* its own accord on a device left without.                                *)
(*                                                                         *)
(* A command has a return code that most callers ignore, so "the command   *)
(* failed" is an outcome of nearly every step.  A step is one command,     *)
(* except that the deletions of one listing are one step.  The calls are   *)
(* made, and their results taken, by ProvisioningService.                  *)
(***************************************************************************)
EXTENDS Naturals, FiniteSets

CONSTANTS Config,  \* what can be configured: the device, and a static address or not
          Saved,   \* the profiles NetworkManager knows at first
          Faults   \* what may go wrong besides an activation that fails

Dev == {"wlan", "eth"}
Name == {"hotspot", "provisioned-wifi", "provisioned-ethernet", "factory"}
NoConfig == [dev |-> "unset"]
None == [name |-> "none", uuid |-> 0, conf |-> NoConfig]

ASSUME ConfigAssumption ==
  \A c \in Config : c.dev \in Dev \cup {"none"} /\ c.static \in BOOLEAN
ASSUME SavedAssumption ==
  /\ IsFiniteSet(Saved)
  /\ Saved \subseteq [name : Name, uuid : 1..Cardinality(Saved), conf : Config \cup {NoConfig}]
ASSUME FaultsAssumption ==
  Faults \subseteq {"query",   \* a query of nmcli fails
                    "nmcli",   \* a deletion or a reactivation fails
                    "unheard", \* a profile is added, but not within the time of the command
                    "raise",   \* a command raises, before the call has succeeded
                    "late",    \* a command of the cleaning up raises
                    "scan",    \* the scan for networks raises
                    "lose",    \* a notification is lost
                    "same_id", \* commands other than apply reuse its id
                    "kill"}    \* the provisioning process is killed

VARIABLES
  profiles,  \* NetworkManager's connection profiles
  active,    \* the profile active, or being activated, on each device
  ready,     \* it has its address
  uuids,     \* uuids given out
  call       \* the call in progress, and its result

netVars == <<profiles, active, ready, uuids, call>>

DevOf(p) == IF p.name \in {"hotspot", "provisioned-wifi"} THEN "wlan" ELSE "eth"
NameOn(d) == IF d = "wlan" THEN "provisioned-wifi" ELSE "provisioned-ethernet"
Named(n) == {p \in profiles : p.name = n}

(***************************************************************************)
(* A call: where it is, the configuration asked for, the connection to go  *)
(* back to, the profile it created if it knows it by uuid; and, for the    *)
(* properties, what there was when it began.                               *)
(***************************************************************************)
NoCall == [pc |-> "none"]
Started(c) == [pc |-> "look", conf |-> c, kept |-> None, cand |-> None,
               res |-> "ok", before |-> profiles,
               was |-> IF ready[c.dev] THEN active[c.dev] ELSE None]
At(pc) == call.pc = pc
D == call.conf.dev
ByUuid == call.conf.static \/ D = "eth"
Goto(pc) == call' = [call EXCEPT !.pc = pc]
Fails == call' = [call EXCEPT !.pc = "undo", !.res = "failed"]
Returns(r) == call' = [call EXCEPT !.pc = "done", !.res = r]

NetInit ==
  /\ profiles = Saved
  /\ active \in [Dev -> Saved \cup {None}]
  /\ \A d \in Dev : active[d] = None \/ DevOf(active[d]) = d
  /\ ready = [d \in Dev |-> active[d] # None]
  /\ uuids = Cardinality(Saved)
  /\ call = NoCall

Activate(d, p, r) ==
  /\ active' = [active EXCEPT ![d] = p]
  /\ ready' = [ready EXCEPT ![d] = r]
Deactivate(d) == Activate(d, None, FALSE)

\* Profiles deleted take their connection down.
Delete(s) ==
  /\ profiles' = profiles \ s
  /\ active' = [d \in Dev |-> IF active[d] \in s THEN None ELSE active[d]]
  /\ ready' = [d \in Dev |-> ready[d] /\ active[d] \notin s]

\* Deletions of which any may fail unnoticed.
DeleteSome(s) == \E t \in SUBSET s : (t = s \/ "nmcli" \in Faults) /\ Delete(t)

-----------------------------------------------------------------------------
\* Faulty variant (mutation runs): asks nmcli for a field it does not have.
HotspotNever(p) == FALSE
IsHotspot(p) == p.name = "hotspot"

\* connect() asks for the hotspot and the security of the network; a password
\* left out ends the attempt.  connect_ethernet() asks for the active uuid.
Look ==
  /\ At("look")
  /\ \E answered \in {TRUE} \cup IF "query" \in Faults THEN {FALSE} ELSE {} :
       LET kept == IF answered /\ (D = "eth" \/ IsHotspot(active[D])) THEN active[D] ELSE None
       IN  \E pc \in IF D = "wlan" THEN {"down", "undo"} ELSE {"add"} :
             call' = [call EXCEPT !.kept = kept, !.pc = pc,
                                  !.res = IF pc = "undo" THEN "failed" ELSE "ok"]
  /\ UNCHANGED <<profiles, active, ready, uuids>>

\* The hotspot, if there was one, is taken down.
Down ==
  /\ At("down")
  /\ IF call.kept = None THEN UNCHANGED <<active, ready>>
     ELSE \/ Deactivate(D)
          \/ "nmcli" \in Faults /\ UNCHANGED <<active, ready>>
  /\ Goto("clean")
  /\ UNCHANGED <<profiles, uuids>>

\* Faulty variant (mutation runs): profiles are added without a look at their names.
NoDuplicates == {}
Duplicates == Named("provisioned-wifi")

\* _delete_provisioned_duplicates().
Clean ==
  /\ At("clean")
  /\ DeleteSome(Duplicates)
  /\ Goto("add")
  /\ UNCHANGED uuids

\* connection add; over WiFi a refusal makes it modify a profile of that name.  One that
\* times out counts as refused, and may have been obeyed.
Add ==
  /\ At("add")
  /\ LET new == [name |-> NameOn(D), uuid |-> uuids + 1, conf |-> call.conf]
         Going(p) == call' = [call EXCEPT !.pc = "up", !.cand = IF ByUuid THEN p ELSE None]
     IN  \/ /\ profiles' = profiles \cup {new}
            /\ uuids' = uuids + 1
            /\ Going(new)
         \/ \E made \in {{}} \cup IF "unheard" \in Faults THEN {{new}} ELSE {} :
              /\ uuids' = IF made = {} THEN uuids ELSE uuids + 1
              /\ \/ /\ D = "wlan" /\ ~call.conf.static
                    /\ \E p \in Named(NameOn(D)) \cup made :
                         /\ profiles' = ((profiles \cup made) \ {p})
                                           \cup {[p EXCEPT !.conf = call.conf]}
                         /\ Going(p)
                 \/ Fails /\ profiles' = profiles \cup made
  /\ UNCHANGED <<active, ready>>

\* connection up, by uuid if the call made one up, else by name.  A static address
\* is not waited for, and an activation that timed out goes on all the same.
Up ==
  /\ At("up")
  /\ \/ \E p \in IF ByUuid THEN {call.cand} \cap profiles ELSE Named(NameOn(D)) :
          \/ ~call.conf.static /\ Activate(D, p, TRUE) /\ Goto("wait")
          \/ ~call.conf.static /\ Activate(D, p, FALSE) /\ Fails
          \/ call.conf.static /\ Activate(D, p, FALSE) /\ Goto("wait")
     \/ Deactivate(D) /\ Fails
  /\ UNCHANGED <<profiles, uuids>>

\* What _wait_for_ip() looks for.
HasAddress == ready[D] /\ (call.conf.static => active[D] = call.cand)

WaitForIp ==
  /\ At("wait")
  /\ IF ~HasAddress THEN Fails
     ELSE IF D = "eth" THEN Goto("tidy") ELSE Returns("ok")
  /\ UNCHANGED <<profiles, active, ready, uuids>>

\* connect_ethernet() deletes the connections it made before.
Tidy ==
  /\ At("tidy")
  /\ DeleteSome(Named(NameOn(D)) \ {call.cand})
  /\ Returns("ok")
  /\ UNCHANGED uuids

\* A failed attempt: over ethernet the new profile goes first.
Undo ==
  /\ At("undo")
  /\ IF D = "eth" THEN DeleteSome({call.cand} \cap profiles)
     ELSE UNCHANGED <<profiles, active, ready>>
  /\ Goto("restore")
  /\ UNCHANGED uuids

\* The connection found at the start is activated again; over ethernet only if a
\* profile had been added.
Restore ==
  /\ At("restore")
  /\ IF call.kept = None \/ (D = "eth" /\ call.cand = None) THEN UNCHANGED <<active, ready>>
     ELSE \/ Activate(D, call.kept, TRUE)
          \/ "nmcli" \in Faults /\ UNCHANGED <<active, ready>>
  /\ Returns(call.res)
  /\ UNCHANGED <<profiles, uuids>>

\* A command raises.
Raise ==
  /\ \/ "raise" \in Faults /\ At("look") /\ Returns("raised")
     \/ /\ "raise" \in Faults
        /\ call.pc \in {"down", "clean", "add", "up", "wait"}
        /\ call' = [call EXCEPT !.pc = "undo", !.res = "raised"]
     \/ "late" \in Faults /\ call.pc \in {"tidy", "undo", "restore"} /\ Returns("raised")
  /\ UNCHANGED <<profiles, active, ready, uuids>>

-----------------------------------------------------------------------------
\* NetworkManager: an activation ends, a device without connection gets one.
Settle(d) ==
  /\ active[d] # None /\ ~ready[d]
  /\ Activate(d, active[d], TRUE) \/ Deactivate(d)
  /\ UNCHANGED <<profiles, uuids, call>>

Autoconnect(d) ==
  /\ active[d] = None
  /\ \E p \in profiles : DevOf(p) = d /\ p.name # "hotspot" /\ Activate(d, p, TRUE)
  /\ UNCHANGED <<profiles, uuids, call>>

Applier == Look \/ Down \/ Clean \/ Add \/ Up \/ WaitForIp \/ Tidy \/ Undo \/ Restore
NetworkManager == \E d \in Dev : Settle(d) \/ Autoconnect(d)
Network == Applier \/ Raise \/ NetworkManager

-----------------------------------------------------------------------------
ProfileOf(p) == p \in [name : Name, uuid : 1..uuids, conf : Config \cup {NoConfig}]

NetTypeOK ==
  /\ \A p \in profiles : ProfileOf(p)
  /\ \A d \in Dev : active[d] = None \/ (active[d] \in profiles /\ DevOf(active[d]) = d)
  /\ ready \in [Dev -> BOOLEAN]
  /\ \A d \in Dev : ready[d] => active[d] # None
  /\ call = NoCall \/ (call.conf \in Config /\ call.res \in {"ok", "failed", "raised"})

(***************************************************************************)
(* A call that reports failure, or raises, leaves a device as it found it: *)
(* the hotspot the WiFi call took down is back, so that the device can     *)
(* still be reached; the ethernet connection that had its address is back, *)
(* and no profile of the attempt is left for NetworkManager to prefer at   *)
(* the next start (its priority is 999).                                   *)
(***************************************************************************)
FailureIsUndone ==
  At("done") /\ call.res # "ok" =>
    /\ D = "wlan" /\ call.was.name = "hotspot" => active[D] = call.was
    /\ D = "eth" => /\ call.was # None => active[D] = call.was
                    /\ Named(NameOn(D)) = {p \in call.before : p.name = NameOn(D)}
=============================================================================
