---------------------- MODULE ProvisioningServiceProofs ----------------------
(***************************************************************************)
(* For every set of configurations and of saved profiles, any number of    *)
(* commands and questions: an attempt that fails leaves the device as it   *)
(* was; success is of the configuration asked for; what a phone hears of   *)
(* an apply never goes back.  Each holds under all faults but those named. *)
(***************************************************************************)
EXTENDS ProvisioningService, FiniteSetTheorems, TLAPS

\* The code does not look at what becomes of its deletions and reactivations, nor
\* of its queries, nor at what is left to do when its cleaning up raises; and what was
\* added too late for its answer it takes for not added.
Obedient == "nmcli" \notin Faults
Cooperative == Obedient /\ Faults \cap {"query", "late", "unheard"} = {}

Profile == [name : Name, uuid : Nat, conf : Config \cup {NoConfig}]
Pc == {"look", "down", "clean", "add", "up", "wait", "tidy", "undo", "restore", "done"}
Calls ==
  [pc : Pc, conf : Config, kept : Profile \cup {None}, cand : Profile \cup {None},
   res : {"ok", "failed", "raised"}, before : SUBSET Profile, was : Profile \cup {None}]

NetTypes ==
  /\ profiles \subseteq Profile
  /\ uuids \in Nat
  /\ \A p \in profiles : p.uuid <= uuids
  /\ active \in [Dev -> Profile \cup {None}]
  /\ ready \in [Dev -> BOOLEAN]
  /\ call = NoCall \/ (call \in Calls /\ D \in Dev)

\* What there is to be undone, for a call over WiFi and one over the cable.
Before == {p \in call.before : p.name = "provisioned-ethernet"}
Now == Named("provisioned-ethernet")
Found == call.was # None => active[D] = call.was /\ ready[D]
Remembered == call.was # None => call.kept = call.was
Added == call.cand \notin Before /\ call.cand # None /\ Now = Before \cup {call.cand}
Failed == At("done") /\ call.res # "ok"

WifiPart ==
  call # NoCall /\ D = "wlan" /\ call.was.name = "hotspot" =>
    /\ At("look") \/ Failed => Found
    /\ call.pc \in {"down", "clean", "add", "up", "wait", "undo", "restore"} => Remembered

CablePart ==
  call # NoCall /\ D = "eth" =>
    /\ call.pc \notin {"down", "clean"}
    /\ At("look") \/ Failed => Now = Before /\ Found
    /\ At("look") => call.cand = None
    /\ call.pc \in {"add", "up", "wait", "undo", "restore"} => Remembered
    /\ At("add") => Now = Before /\ Found /\ call.cand = None
    /\ call.pc \in {"up", "wait"} => Added
    /\ At("undo") => Added \/ (call.cand = None /\ Now = Before /\ Found)
    /\ At("restore") => Now = Before /\ (call.cand = None => Found)

CallInv == WifiPart /\ CablePart

\* What the service hands to the worker is a configuration for a device.
Commands == [cmd : {"scan", "set", "cancel", "apply"}, id : Id \cup {0},
             conf : Config \cup {NoConfig, Bad}, token : Nat]
Handed ==
  /\ queue \in Seq(Commands)
  /\ \A i \in DOMAIN queue : queue[i].cmd = "set" => queue[i].conf # NoConfig
  /\ written \in Nat
  /\ pending \in Config \cup {NoConfig}
  /\ at \in {"remote", "call"} => pending # NoConfig
  /\ at = "call" => pending.dev # "none"

\* What is to be undone can be, and is.
IInv == NetTypes /\ CallInv /\ Handed

LEMMA InitEstablishes == Init => IInv
<1> SUFFICES ASSUME Init PROVE IInv
  OBVIOUS
<1>1. Cardinality(Saved) \in Nat
  BY FS_CardinalityType, SavedAssumption
<1>2. NetTypes
  <2>1. \A p \in Saved : p \in Profile /\ p.uuid <= Cardinality(Saved)
    BY <1>1, SavedAssumption DEF Profile
  <2>2. profiles \subseteq Profile /\ uuids \in Nat /\ \A p \in profiles : p.uuid <= uuids
    BY <1>1, <2>1 DEF Init, NetInit
  <2>3. active \in [Dev -> Profile \cup {None}] /\ ready \in [Dev -> BOOLEAN]
    BY <2>1 DEF Init, NetInit
  <2> QED
    BY <2>2, <2>3 DEF Init, NetInit, NetTypes
<1>3. CallInv
  BY DEF Init, NetInit, CallInv, WifiPart, CablePart
<1>4. Handed
  BY DEF Init, Handed
<1> QED
  BY <1>2, <1>3, <1>4 DEF IInv

\* No saved profile, and no call, is mistaken for the absence of one.
LEMMA NobodyIsNone ==
  /\ None \notin Profile
  /\ NoCall \notin Calls
<1>1. None.name \notin Name
  BY DEF None, Name
<1>2. NoCall.pc = "none"
  BY DEF NoCall
<1> QED
  BY <1>1, <1>2 DEF Profile, Calls, Pc

\* What activating a known profile, or none, leaves of the types.
LEMMA ActivateTypes ==
  ASSUME NetTypes, NEW d \in Dev, NEW p \in Profile \cup {None}, NEW r \in BOOLEAN,
         Activate(d, p, r)
  PROVE  /\ active' \in [Dev -> Profile \cup {None}] /\ ready' \in [Dev -> BOOLEAN]
         /\ active'[d] = p /\ ready'[d] = r
         /\ \A e \in Dev \ {d} : active'[e] = active[e] /\ ready'[e] = ready[e]
BY DEF NetTypes, Activate

\* Deletions never fail here, and spare a connection that is not of them.
LEMMA DeleteTypes ==
  ASSUME NetTypes, Obedient, NEW s, DeleteSome(s)
  PROVE  /\ profiles' = profiles \ s
         /\ active' \in [Dev -> Profile \cup {None}] /\ ready' \in [Dev -> BOOLEAN]
         /\ \A d \in Dev : active[d] \notin s => active'[d] = active[d] /\ ready'[d] = ready[d]
BY DEF NetTypes, Obedient, DeleteSome, Delete

LEMMA CallTypes ==
  ASSUME NetTypes, call.pc # "none"
  PROVE  call \in Calls /\ D \in Dev /\ call # NoCall
BY NobodyIsNone DEF NetTypes, NoCall

\* What a step of the worker changes of its call: not what it is about.
SameCall == /\ call' \in Calls /\ D' = D
            /\ call'.was = call.was /\ call'.before = call.before

LEMMA GoesOn ==
  ASSUME NetTypes, call.pc # "none", NEW pc \in Pc, NEW res \in {"ok", "failed", "raised"},
         (Goto(pc) /\ res = call.res) \/ call' = [call EXCEPT !.pc = pc, !.res = res]
  PROVE  /\ SameCall /\ call'.pc = pc /\ call'.res = res
         /\ call'.kept = call.kept /\ call'.cand = call.cand
<1>1. call \in Calls
  BY CallTypes
<1>2. call' = [call EXCEPT !.pc = pc, !.res = res]
  <2>1. CASE Goto(pc) /\ res = call.res
    BY <1>1, <2>1 DEF Goto, Calls
  <2> QED
    BY <2>1
<1> QED
  BY <1>1, <1>2 DEF Calls, SameCall, D

-----------------------------------------------------------------------------
(***************************************************************************)
(* The commands of a call, one lemma each.                                 *)
(***************************************************************************)
LEMMA LookPreserves ==
  ASSUME NetTypes, CallInv, Cooperative, Look
  PROVE  NetTypes' /\ CallInv'
<1> DEFINE kept == IF D = "eth" \/ IsHotspot(active[D]) THEN active[D] ELSE None
<1>1. call \in Calls /\ D \in Dev /\ call # NoCall /\ At("look") /\ call.pc # "none"
  BY CallTypes DEF Look, At
<1>2. PICK pc \in IF D = "wlan" THEN {"down", "undo"} ELSE {"add"} :
        call' = [call EXCEPT !.kept = kept, !.pc = pc,
                             !.res = IF pc = "undo" THEN "failed" ELSE "ok"]
  BY DEF Look, Cooperative
<1>3. kept \in Profile \cup {None}
  BY <1>1 DEF NetTypes
<1> HIDE DEF kept
<1>4. call' \in Calls /\ SameCall /\ call'.pc = pc /\ call'.kept = kept /\ call'.cand = call.cand
  BY <1>1, <1>2, <1>3 DEF Calls, Pc, SameCall, D
<1>5. UNCHANGED <<profiles, active, ready, uuids>>
  BY DEF Look
<1>6. NetTypes'
  BY <1>1, <1>4, <1>5 DEF NetTypes, SameCall
<1>7. WifiPart'
  BY <1>1, <1>2, <1>4, <1>5
  DEF CallInv, WifiPart, At, Failed, Found, Remembered, IsHotspot, None, SameCall, kept
<1>8. CablePart'
  BY <1>1, <1>2, <1>4, <1>5
  DEF CallInv, CablePart, At, Failed, Found, Remembered, Added, Now, Before, Named, SameCall, kept
<1> QED
  BY <1>6, <1>7, <1>8 DEF CallInv

\* What the steps have in common: the types hold after a step that goes on with the
\* call and activates at most a profile that is known.
LEMMA TypesPreserved ==
  ASSUME NetTypes, SameCall, call # NoCall,
         profiles' \subseteq Profile, uuids' \in Nat, \A p \in profiles' : p.uuid <= uuids',
         active' \in [Dev -> Profile \cup {None}], ready' \in [Dev -> BOOLEAN]
  PROVE  NetTypes'
BY DEF NetTypes, SameCall

LEMMA DownPreserves ==
  ASSUME NetTypes, CallInv, Cooperative, Down
  PROVE  NetTypes' /\ CallInv'
<1>1. call \in Calls /\ D \in Dev /\ call # NoCall /\ call.pc = "down"
  BY CallTypes DEF Down, At
<1>2. SameCall /\ call'.pc = "clean" /\ call'.kept = call.kept
  BY <1>1, GoesOn DEF Down, Pc, Calls
<1>3. active' \in [Dev -> Profile \cup {None}] /\ ready' \in [Dev -> BOOLEAN]
  BY <1>1, ActivateTypes DEF Down, Cooperative, Obedient, Deactivate, NetTypes
<1>4. NetTypes'
  BY <1>1, <1>2, <1>3, TypesPreserved DEF NetTypes, Down
<1>5. CallInv'
  BY <1>1, <1>2 DEF CallInv, WifiPart, CablePart, SameCall, At, Failed, Remembered
<1> QED
  BY <1>4, <1>5

LEMMA CleanPreserves ==
  ASSUME NetTypes, CallInv, Obedient, Clean
  PROVE  NetTypes' /\ CallInv'
<1>1. call \in Calls /\ D \in Dev /\ call # NoCall /\ call.pc = "clean"
  BY CallTypes DEF Clean, At
<1>2. SameCall /\ call'.pc = "add" /\ call'.kept = call.kept
  BY <1>1, GoesOn DEF Clean, Pc, Calls
<1>3. NetTypes'
  BY <1>1, <1>2, DeleteTypes, TypesPreserved DEF NetTypes, Clean
<1>4. CallInv'
  BY <1>1, <1>2 DEF CallInv, WifiPart, CablePart, SameCall, At, Failed, Remembered
<1> QED
  BY <1>3, <1>4

LEMMA AddPreserves ==
  ASSUME NetTypes, CallInv, Cooperative, Add
  PROVE  NetTypes' /\ CallInv'
<1> DEFINE new == [name |-> NameOn(D), uuid |-> uuids + 1, conf |-> call.conf]
           Going(p) == call' = [call EXCEPT !.pc = "up", !.cand = IF ByUuid THEN p ELSE None]
<1>1. call \in Calls /\ D \in Dev /\ call # NoCall /\ call.pc = "add"
  BY CallTypes DEF Add, At
<1>2. UNCHANGED <<active, ready>>
  BY DEF Add
<1>3. CASE profiles' = profiles \cup {new} /\ uuids' = uuids + 1 /\ Going(new)
  <2>1. new \in Profile /\ new \notin profiles
    BY <1>1 DEF NetTypes, Calls, Profile, NameOn, Name
  <2>2. /\ SameCall /\ call'.pc = "up" /\ call'.kept = call.kept
        /\ call'.cand = IF ByUuid THEN new ELSE None
    BY <1>1, <1>3, <2>1 DEF Calls, Pc, SameCall, D
  <2>3. NetTypes'
    <3>1. profiles' \subseteq Profile /\ uuids' \in Nat
      BY <1>3, <2>1 DEF NetTypes
    <3>2. \A p \in profiles' : p.uuid <= uuids'
      BY <1>3 DEF NetTypes, Profile
    <3> QED
      BY <1>1, <1>2, <2>2, <3>1, <3>2, TypesPreserved DEF NetTypes
  <2>4. WifiPart'
    BY <1>1, <2>2 DEF CallInv, WifiPart, SameCall, At, Failed, Remembered
  <2>5. ASSUME D = "eth" PROVE Added'
    <3>1. new.name = "provisioned-ethernet" /\ call'.cand = new
      BY <2>2, <2>5 DEF NameOn, ByUuid
    <3>2. Now = Before
      BY <1>1, <2>5 DEF CallInv, CablePart, At
    <3>3. Now' = Now \cup {new} /\ new \notin Now
      BY <1>3, <2>1, <3>1 DEF Now, Named
    <3>4. Before' = Before
      BY <2>2 DEF SameCall, Before
    <3> QED
      BY <2>1, <3>1, <3>2, <3>3, <3>4, NobodyIsNone DEF Added
  <2>6. CablePart'
    BY <1>1, <2>2, <2>5 DEF CallInv, CablePart, SameCall, At, Failed, Remembered
  <2> QED
    BY <2>3, <2>4, <2>6 DEF CallInv
<1>4. CASE /\ D = "wlan" /\ ~call.conf.static
           /\ \E p \in Named(NameOn(D)) :
                /\ profiles' = (profiles \ {p}) \cup {[p EXCEPT !.conf = call.conf]}
                /\ Going(p)
           /\ UNCHANGED uuids
  <2>1. PICK p \in profiles :
          /\ profiles' = (profiles \ {p}) \cup {[p EXCEPT !.conf = call.conf]}
          /\ Going(p)
    BY <1>4 DEF Named
  <2>2. SameCall /\ call'.pc = "up" /\ call'.kept = call.kept
    BY <1>1, <2>1 DEF Calls, Pc, SameCall, D, NetTypes
  <2>3. [p EXCEPT !.conf = call.conf] \in Profile /\ [p EXCEPT !.conf = call.conf].uuid = p.uuid
    BY <1>1 DEF NetTypes, Calls, Profile
  <2>4. NetTypes'
    BY <1>1, <1>2, <1>4, <2>1, <2>2, <2>3, TypesPreserved DEF NetTypes
  <2>5. CallInv'
    BY <1>1, <1>4, <2>2 DEF CallInv, WifiPart, CablePart, SameCall, At, Failed, Remembered
  <2> QED
    BY <2>4, <2>5
<1>5. CASE Fails /\ UNCHANGED <<profiles, uuids>>
  <2>1. /\ SameCall /\ call'.pc = "undo" /\ call'.res = "failed"
        /\ call'.kept = call.kept /\ call'.cand = call.cand
    BY <1>1, <1>5, GoesOn DEF Fails, Pc
  <2>2. NetTypes'
    BY <1>1, <1>2, <1>5, <2>1, TypesPreserved DEF NetTypes
  <2>3. CallInv'
    BY <1>1, <1>2, <1>5, <2>1
    DEF CallInv, WifiPart, CablePart, SameCall, At, Failed, Remembered, Found, Now, Before, Named
  <2> QED
    BY <2>2, <2>3
<1>6. "unheard" \notin Faults
  BY DEF Cooperative
<1> QED
  BY <1>3, <1>4, <1>5, <1>6 DEF Add

LEMMA UpPreserves ==
  ASSUME NetTypes, CallInv, Up
  PROVE  NetTypes' /\ CallInv'
<1>1. call \in Calls /\ D \in Dev /\ call # NoCall /\ call.pc = "up"
  BY CallTypes DEF Up, At
<1>2. UNCHANGED <<profiles, uuids>>
  BY DEF Up
<1>3. PICK p \in Profile \cup {None}, r \in BOOLEAN : Activate(D, p, r) /\ (Goto("wait") \/ Fails)
  BY <1>1 DEF Up, Named, Deactivate, NetTypes
<1>4. active' \in [Dev -> Profile \cup {None}] /\ ready' \in [Dev -> BOOLEAN]
  BY <1>1, <1>3, ActivateTypes
<1>5. /\ SameCall /\ call'.pc \in {"wait", "undo"}
      /\ call'.kept = call.kept /\ call'.cand = call.cand
  <2>1. CASE Goto("wait")
    BY <1>1, <2>1, GoesOn DEF Pc, Calls
  <2>2. CASE Fails
    BY <1>1, <2>2, GoesOn DEF Fails, Pc
  <2> QED
    BY <1>3, <2>1, <2>2
<1>6. NetTypes'
  BY <1>1, <1>2, <1>4, <1>5, TypesPreserved DEF NetTypes
<1>7. CallInv'
  BY <1>1, <1>2, <1>5 DEF CallInv, WifiPart, CablePart, SameCall, At, Failed, Remembered, Added,
                          Now, Before, Named
<1> QED
  BY <1>6, <1>7

LEMMA WaitForIpPreserves ==
  ASSUME NetTypes, CallInv, WaitForIp
  PROVE  NetTypes' /\ CallInv'
<1>1. call \in Calls /\ D \in Dev /\ call # NoCall /\ call.pc = "wait"
  BY CallTypes DEF WaitForIp, At
<1>2. UNCHANGED <<profiles, active, ready, uuids>>
  BY DEF WaitForIp
<1>3. /\ SameCall /\ call'.kept = call.kept /\ call'.cand = call.cand
      /\ call'.pc = "undo" \/ (call'.pc = "tidy" /\ D = "eth")
         \/ (call'.pc = "done" /\ call'.res = "ok")
  <2>1. CASE Fails
    BY <1>1, <2>1, GoesOn DEF Fails, Pc
  <2>2. CASE D = "eth" /\ Goto("tidy")
    BY <1>1, <2>2, GoesOn DEF Pc, Calls
  <2>3. CASE Returns("ok")
    BY <1>1, <2>3, GoesOn DEF Returns, Pc
  <2> QED
    BY <2>1, <2>2, <2>3 DEF WaitForIp
<1>4. NetTypes'
  BY <1>1, <1>2, <1>3, TypesPreserved DEF NetTypes
<1>5. CallInv'
  BY <1>1, <1>2, <1>3 DEF CallInv, WifiPart, CablePart, SameCall, At, Failed, Remembered, Added,
                          Now, Before, Named
<1> QED
  BY <1>4, <1>5

LEMMA TidyPreserves ==
  ASSUME NetTypes, CallInv, Obedient, Tidy
  PROVE  NetTypes' /\ CallInv'
<1>1. call \in Calls /\ D \in Dev /\ call # NoCall /\ call.pc = "tidy"
  BY CallTypes DEF Tidy, At
<1>2. SameCall /\ call'.pc = "done" /\ call'.res = "ok"
  BY <1>1, GoesOn DEF Tidy, Returns, Pc
<1>3. NetTypes'
  BY <1>1, <1>2, DeleteTypes, TypesPreserved DEF NetTypes, Tidy
<1>4. CallInv'
  BY <1>2 DEF CallInv, WifiPart, CablePart, At, Failed
<1> QED
  BY <1>3, <1>4

\* The one deletion the property is about: of exactly the profile that was added.
LEMMA UndoPreserves ==
  ASSUME NetTypes, CallInv, Obedient, Undo
  PROVE  NetTypes' /\ CallInv'
<1>1. call \in Calls /\ D \in Dev /\ call # NoCall /\ call.pc = "undo"
  BY CallTypes DEF Undo, At
<1>2. SameCall /\ call'.pc = "restore" /\ call'.kept = call.kept /\ call'.cand = call.cand
  BY <1>1, GoesOn DEF Undo, Pc, Calls
<1>3. CASE D = "eth"
  <2>1. DeleteSome({call.cand} \cap profiles)
    BY <1>3 DEF Undo
  <2>2. profiles' = profiles \ {call.cand}
    BY <2>1, DeleteTypes
  <2>3. NetTypes'
    BY <1>1, <1>2, <2>1, <2>2, DeleteTypes, TypesPreserved DEF NetTypes, Undo
  <2>4. Now' = Now \ {call.cand} /\ Before' = Before
    BY <1>2, <2>2 DEF Now, Named, SameCall, Before
  <2>5. Now' = Before' /\ (call.cand = None => Found')
    <3>1. CASE Added
      BY <2>4, <3>1 DEF Added
    <3>2. CASE call.cand = None /\ Now = Before /\ Found
      <4>1. {call.cand} \cap profiles = {}
        BY <3>2, NobodyIsNone DEF NetTypes
      <4>2. active'[D] = active[D] /\ ready'[D] = ready[D]
        BY <1>1, <2>1, <4>1, DeleteTypes
      <4>3. call.cand \notin Now
        BY <3>2, NobodyIsNone DEF NetTypes, Now, Named
      <4> QED
        BY <1>2, <2>4, <3>2, <4>2, <4>3 DEF Found, SameCall
    <3> QED
      BY <1>1, <1>3, <3>1, <3>2 DEF CallInv, CablePart, At
  <2>6. CallInv'
    BY <1>1, <1>2, <1>3, <2>5 DEF CallInv, WifiPart, CablePart, SameCall, At, Failed, Remembered
  <2> QED
    BY <2>3, <2>6
<1>4. CASE D # "eth"
  <2>1. UNCHANGED <<profiles, active, ready, uuids>>
    BY <1>4 DEF Undo
  <2>2. NetTypes'
    BY <1>1, <1>2, <2>1, TypesPreserved DEF NetTypes
  <2>3. CallInv'
    BY <1>1, <1>2, <1>4 DEF CallInv, WifiPart, CablePart, SameCall, At, Failed, Remembered
  <2> QED
    BY <2>2, <2>3
<1> QED
  BY <1>3, <1>4

LEMMA RestorePreserves ==
  ASSUME NetTypes, CallInv, Cooperative, Restore
  PROVE  NetTypes' /\ CallInv'
<1>1. call \in Calls /\ D \in Dev /\ call # NoCall /\ call.pc = "restore"
  BY CallTypes DEF Restore, At
<1>2. SameCall /\ call'.pc = "done" /\ call'.kept = call.kept /\ call'.cand = call.cand
  <2>1. call.res \in {"ok", "failed", "raised"}
    BY <1>1 DEF Calls
  <2> QED
    BY <1>1, <2>1, GoesOn DEF Restore, Returns, Pc
<1>3. UNCHANGED <<profiles, uuids>>
  BY DEF Restore
<1>4. CASE call.kept = None \/ (D = "eth" /\ call.cand = None)
  <2>1. UNCHANGED <<active, ready>>
    BY <1>4 DEF Restore
  <2>2. NetTypes'
    BY <1>1, <1>2, <1>3, <2>1, TypesPreserved DEF NetTypes
  <2>3. WifiPart'
    BY <1>1, <1>2, <1>4 DEF CallInv, WifiPart, SameCall, At, Failed, Remembered, None
  <2>4. ASSUME D = "eth" PROVE Now' = Before' /\ Found'
    BY <1>1, <1>2, <1>3, <1>4, <2>1, <2>4
    DEF CallInv, CablePart, SameCall, At, Remembered, Found, Now, Before, Named
  <2>5. CablePart'
    BY <1>2, <2>4 DEF CablePart, SameCall, At, Failed
  <2> QED
    BY <2>2, <2>3, <2>5 DEF CallInv
<1>5. CASE ~(call.kept = None \/ (D = "eth" /\ call.cand = None))
  <2>1. Activate(D, call.kept, TRUE) /\ call.kept \in Profile \cup {None}
    BY <1>1, <1>5 DEF Restore, Cooperative, Obedient, Calls
  <2>2. /\ active' \in [Dev -> Profile \cup {None}] /\ ready' \in [Dev -> BOOLEAN]
        /\ active'[D] = call.kept /\ ready'[D]
    BY <1>1, <2>1, ActivateTypes
  <2>3. NetTypes'
    BY <1>1, <1>2, <1>3, <2>2, TypesPreserved DEF NetTypes
  <2>4. Remembered => Found'
    BY <1>2, <2>2 DEF Remembered, Found, SameCall
  <2>5. WifiPart'
    BY <1>1, <1>2, <2>4 DEF CallInv, WifiPart, SameCall, At
  <2>6. CablePart'
    BY <1>1, <1>2, <1>3, <2>4 DEF CallInv, CablePart, SameCall, At, Failed, Now, Before, Named
  <2> QED
    BY <2>3, <2>5, <2>6 DEF CallInv
<1> QED
  BY <1>4, <1>5

LEMMA RaisePreserves ==
  ASSUME NetTypes, CallInv, Cooperative, Raise
  PROVE  NetTypes' /\ CallInv'
<1>1. call.pc \in {"look", "down", "clean", "add", "up", "wait"}
  BY DEF Raise, At, Cooperative
<1>2. call \in Calls /\ D \in Dev /\ call # NoCall
  BY <1>1, CallTypes
<1>3. UNCHANGED <<profiles, active, ready, uuids>>
  BY DEF Raise
<1>4. /\ SameCall /\ call'.kept = call.kept /\ call'.cand = call.cand
      /\ call'.pc = IF call.pc = "look" THEN "done" ELSE "undo"
  <2>1. CASE At("look") /\ Returns("raised")
    BY <1>2, <2>1, GoesOn DEF Returns, Pc, At
  <2>2. CASE call.pc # "look" /\ call' = [call EXCEPT !.pc = "undo", !.res = "raised"]
    BY <1>1, <2>2, GoesOn DEF Pc
  <2> QED
    BY <2>1, <2>2 DEF Raise, Cooperative
<1>5. NetTypes'
  BY <1>2, <1>3, <1>4, TypesPreserved DEF NetTypes
<1>6. CallInv'
  BY <1>1, <1>2, <1>3, <1>4
  DEF CallInv, WifiPart, CablePart, SameCall, At, Failed, Found, Remembered, Added, Now, Before, Named
<1> QED
  BY <1>5, <1>6

\* NetworkManager takes from nobody a connection that has its address.
LEMMA NetworkManagerPreserves ==
  ASSUME NetTypes, CallInv, NetworkManager
  PROVE  NetTypes' /\ CallInv'
<1>1. UNCHANGED <<profiles, uuids, call>>
  BY DEF NetworkManager, Settle, Autoconnect
<1>2. PICK d \in Dev, p \in Profile \cup {None}, r \in BOOLEAN :
        Activate(d, p, r) /\ (active[d] = None \/ ~ready[d])
  BY DEF NetworkManager, Settle, Autoconnect, Deactivate, NetTypes
<1>3. /\ active' \in [Dev -> Profile \cup {None}] /\ ready' \in [Dev -> BOOLEAN]
      /\ \A e \in Dev \ {d} : active'[e] = active[e] /\ ready'[e] = ready[e]
  BY <1>2, ActivateTypes
<1>4. D' = D
  BY <1>1 DEF D
<1>5. NetTypes'
  BY <1>1, <1>3, <1>4 DEF NetTypes
<1>6. ASSUME call # NoCall, Found PROVE Found'
  <2>1. D \in Dev
    BY <1>6 DEF NetTypes
  <2>2. CASE call.was = None
    BY <1>1, <2>2 DEF Found
  <2>3. CASE call.was # None
    <3>1. D # d
      BY <1>2, <1>6, <2>3 DEF Found
    <3> QED
      BY <1>1, <1>3, <1>4, <1>6, <2>1, <3>1 DEF Found
  <2> QED
    BY <2>2, <2>3
<1>7. CallInv'
  BY <1>1, <1>4, <1>6
  DEF CallInv, WifiPart, CablePart, At, Failed, Remembered, Added, Now, Before, Named
<1> QED
  BY <1>5, <1>7

LEMMA ApplierPreserves ==
  ASSUME NetTypes, CallInv, Cooperative, Applier \/ Raise
  PROVE  NetTypes' /\ CallInv'
BY LookPreserves, DownPreserves, CleanPreserves, AddPreserves, UpPreserves, WaitForIpPreserves,
   TidyPreserves, UndoPreserves, RestorePreserves, RaisePreserves DEF Applier, Cooperative

\* Steps of the service that leave the network alone.
LEMMA NetUnchanged ==
  ASSUME NetTypes, CallInv, UNCHANGED netVars
  PROVE  NetTypes' /\ CallInv'
<1>1. UNCHANGED <<profiles, active, ready, uuids, call>>
  BY DEF netVars
<1>2. D' = D
  BY <1>1 DEF D
<1>3. NetTypes'
  BY <1>1, <1>2 DEF NetTypes
<1>4. CallInv'
  BY <1>1, <1>2
  DEF CallInv, WifiPart, CablePart, At, Failed, Found, Remembered, Added, Now, Before, Named
<1> QED
  BY <1>3, <1>4

\* The call ends, or its process is killed.
LEMMA CallForgotten ==
  ASSUME NetTypes, call' = NoCall, UNCHANGED <<profiles, active, ready, uuids>>
  PROVE  NetTypes' /\ CallInv'
BY DEF NetTypes, CallInv, WifiPart, CablePart

\* A call begins with nothing to be undone.
LEMMA ConnectPreserves ==
  ASSUME NetTypes, Handed, Connect
  PROVE  NetTypes' /\ CallInv'
<1>1. call' = Started(pending) /\ UNCHANGED <<profiles, active, ready, uuids>> /\ at = "call"
  BY DEF Connect, Holding
<1>2. pending \in Config /\ pending.dev \in Dev
  BY <1>1, ConfigAssumption DEF Handed
<1>3. call' \in Calls
  BY <1>1, <1>2 DEF NetTypes, Started, Calls, Pc
<1>4. /\ D' \in Dev /\ call'.pc = "look" /\ call'.cand = None /\ call'.before = profiles
      /\ call'.was = IF ready[D'] THEN active[D'] ELSE None
  BY <1>1, <1>2 DEF Started, D
<1>5. NetTypes'
  BY <1>1, <1>3, <1>4 DEF NetTypes
<1>6. Now' = Before' /\ Found'
  BY <1>1, <1>4 DEF Now, Named, Before, Found
<1>7. CallInv'
  BY <1>4, <1>6 DEF CallInv, WifiPart, CablePart, At, Failed
<1> QED
  BY <1>5, <1>7

-----------------------------------------------------------------------------
(***************************************************************************)
(* The service.                                                            *)
(***************************************************************************)
LEMMA WrittenCommand ==
  ASSUME Handed, WriteCommand
  PROVE  \E c \in Commands :
           /\ c.cmd = "set" => c.conf # NoConfig
           /\ c.cmd = "apply" => LastSet(c.conf) /\ c.id \in Id
           /\ c.cmd # "apply" => c.id \in {0} \cup IF "same_id" \in Faults THEN Id ELSE {}
           /\ c.token = written + 1
           /\ queue' = Append(queue, c) /\ written' = written + 1
           /\ UNCHANGED <<netVars, state, pending, applyId, applyToken, applyStatus, at,
                          outbox, heard>>
<1>1. NoConfig \notin Config \cup {Bad}
  BY ConfigAssumption DEF NoConfig, Bad, Dev
<1>2. PICK cmd \in {"scan", "set", "cancel", "apply"}, id \in Id \cup {0},
           c \in Config \cup {NoConfig, Bad} :
        /\ Write(cmd, id, c)
        /\ cmd = "set" => c # NoConfig
        /\ cmd = "apply" => LastSet(c) /\ id \in Id
        /\ cmd # "apply" => id \in {0} \cup IF "same_id" \in Faults THEN Id ELSE {}
  BY <1>1 DEF WriteCommand
<1> DEFINE command == [cmd |-> cmd, id |-> id, conf |-> c, token |-> written + 1]
<1>3. command \in Commands
  BY DEF Handed, Commands
<1>4. queue' = Append(queue, command)
  BY <1>2 DEF Write
<1> QED
  BY <1>2, <1>3, <1>4 DEF Write

LEMMA HandedStep ==
  ASSUME Handed, [Next]_vars
  PROVE  Handed'
<1> USE DEF Handed, Phone, Holding, Holder
<1>1. CASE Scan
  BY <1>1 DEF Scan
<1>2. CASE ScanEnds
  BY <1>2 DEF ScanEnds
<1>3. CASE SetConfig
  <2>1. queue # <<>> /\ Head(queue) = queue[1] /\ 1 \in DOMAIN queue
    BY <1>3 DEF SetConfig
  <2>2. Holder.conf \in Config \cup {Bad}
    <3>1. queue[1].conf \in Config \cup {NoConfig, Bad}
      <4>1. queue[1] \in Commands
        BY <2>1
      <4> QED
        BY <4>1 DEF Commands
    <3>2. queue[1].conf # NoConfig
      BY <1>3, <2>1 DEF SetConfig
    <3> QED
      BY <2>1, <3>1, <3>2
  <2>3. pending' \in Config \cup {NoConfig}
    BY <1>3, <2>2 DEF SetConfig, BadCleared
  <2> QED
    BY <1>3, <2>3 DEF SetConfig
<1>4. CASE Cancel
  BY <1>4 DEF Cancel
<1>5. CASE Apply
  BY <1>5 DEF Apply
<1>6. CASE Remote
  BY <1>6 DEF Remote
<1>7. CASE Connect \/ ConnectEnds \/ Fail
  BY <1>7 DEF Connect, ConnectEnds, Fail
<1>8. CASE Release
  BY <1>8 DEF Release
<1>9. CASE WriteCommand
  <2>1. PICK c \in Commands :
          /\ c.cmd = "set" => c.conf # NoConfig
          /\ queue' = Append(queue, c) /\ written' = written + 1 /\ UNCHANGED <<pending, at>>
    BY <1>9, WrittenCommand
  <2> QED
    BY <2>1
<1>10. CASE Query \/ Deliver \/ UNCHANGED svcVars
  BY <1>10 DEF Query, Deliver, svcVars
<1>11. CASE Kill
  BY <1>11 DEF Kill
<1> QED
  BY <1>1, <1>2, <1>3, <1>4, <1>5, <1>6, <1>7, <1>8, <1>9, <1>10, <1>11 DEF Next, Service, vars

LEMMA NextPreserves ==
  ASSUME IInv, Cooperative, [Next]_vars
  PROVE  IInv'
<1>1. CASE UNCHANGED netVars
  BY <1>1, NetUnchanged, HandedStep DEF IInv
<1>2. CASE Network
  BY <1>2, ApplierPreserves, NetworkManagerPreserves, HandedStep DEF IInv, Network
<1>3. CASE Connect
  BY <1>3, ConnectPreserves, HandedStep DEF IInv
<1>4. CASE ConnectEnds \/ Kill
  BY <1>4, CallForgotten, HandedStep DEF IInv, ConnectEnds, Kill
<1>5. UNCHANGED netVars \/ Network \/ Connect \/ ConnectEnds \/ Kill
  BY DEF Next, vars, Service, Scan, ScanEnds, SetConfig, Cancel, Apply, Remote, Fail, Release,
         WriteCommand, Write, Query, Deliver
<1> QED
  BY <1>1, <1>2, <1>3, <1>4, <1>5

(***************************************************************************)
(* A call of connect() or connect_ethernet() that fails or raises leaves   *)
(* the hotspot up over WiFi, or the connection and the profiles that were  *)
(* there over the cable, however NetworkManager, other commands and a kill *)
(* of the process interleave with it, as long as nmcli answers the queries *)
(* and does the deletions and reactivations of the call.                   *)
(***************************************************************************)
THEOREM SpecFailureIsUndone ==
  ASSUME Cooperative
  PROVE  Spec => []FailureIsUndone
<1>1. Init => IInv
  BY InitEstablishes
<1>2. IInv /\ [Next]_vars => IInv'
  BY NextPreserves
<1>3. IInv => FailureIsUndone
  <2> SUFFICES ASSUME IInv, At("done"), call.res # "ok" PROVE FailureIsUndone
    BY DEF FailureIsUndone
  <2>1. call \in Calls /\ D \in Dev /\ call # NoCall
    BY CallTypes DEF IInv, At
  <2>2. CASE D = "wlan"
    BY <2>1, <2>2 DEF IInv, CallInv, WifiPart, Failed, Found, FailureIsUndone, None
  <2>3. CASE D = "eth"
    BY <2>1, <2>3 DEF IInv, CallInv, CablePart, Failed, Found, Now, Before, NameOn, FailureIsUndone
  <2> QED
    BY <2>1, <2>2, <2>3 DEF Dev
<1> QED
  BY <1>1, <1>2, <1>3, PTL DEF Spec

-----------------------------------------------------------------------------
(***************************************************************************)
(* Success is of the configuration asked for.  Deletions that fail are the *)
(* one fault that matters: the rest may go wrong as it likes.              *)
(***************************************************************************)
\* What the call knows of the profile it will activate, or has.
Connected == ready[D] /\ active[D].conf = call.conf
WorkInv ==
  /\ At("add") /\ D = "wlan" => Named("provisioned-wifi") = {}
  /\ At("up") => IF ByUuid THEN call.cand.conf = call.conf
                 ELSE \A p \in Named(NameOn(D)) : p.conf = call.conf
  /\ At("wait") => IF call.conf.static THEN call.cand.conf = call.conf
                   ELSE Connected /\ (D = "eth" => active[D] = call.cand)
  /\ At("tidy") => Connected /\ active[D] = call.cand
  /\ At("undo") \/ At("restore") => call.res # "ok"
  /\ At("done") /\ call.res = "ok" => Connected

\* The command in hand is the apply whose configuration the worker has.
InHand ==
  /\ call # NoCall => at = "wait"
  /\ at = "wait" => call.conf = pending
  /\ at # "idle" => queue # <<>>
  /\ at \in {"remote", "call", "wait"} => queue[1].cmd = "apply" /\ queue[1].conf = pending
  /\ at = "fail" => queue[1].cmd = "apply"
  /\ at = "scan" => queue[1].cmd = "scan"

\* An apply finds the configuration of the last set before it, or none.
NoSetBetween(j, i) == \A k \in DOMAIN queue : j < k /\ k < i => queue[k].cmd # "set"
AppliesTheLast ==
  \A i \in DOMAIN queue : queue[i].cmd = "apply" =>
    /\ \A j \in DOMAIN queue :
         j < i /\ queue[j].cmd = "set" /\ NoSetBetween(j, i) => queue[i].conf = queue[j].conf
    /\ NoSetBetween(0, i) => pending \in {NoConfig, queue[i].conf}
SetTaken ==
  at = "end" /\ queue[1].cmd = "set" => pending \in {NoConfig, queue[1].conf}

RequestInv == InHand /\ AppliesTheLast /\ SetTaken
ConnectInv == NetTypes /\ WorkInv /\ Handed /\ RequestInv

LEMMA ConfigIsNoMark == NoConfig \notin Config /\ Bad \notin Config /\ Bad # NoConfig
BY ConfigAssumption DEF NoConfig, Bad, Dev

\* The steps of a call up to the profile it adds.
LEMMA BeforeTheProfile ==
  ASSUME NetTypes, WorkInv, Obedient, Look \/ Down \/ Clean
  PROVE  NetTypes' /\ WorkInv'
<1>1. CASE Look
  <2>1. call \in Calls /\ D \in Dev /\ call # NoCall
    BY <1>1, CallTypes DEF Look, At
  <2>2. PICK kept \in Profile \cup {None}, pc \in IF D = "wlan" THEN {"down", "undo"} ELSE {"add"} :
          call' = [call EXCEPT !.kept = kept, !.pc = pc,
                               !.res = IF pc = "undo" THEN "failed" ELSE "ok"]
    BY <1>1, <2>1 DEF Look, NetTypes
  <2>3. SameCall /\ call'.pc = pc /\ (pc = "undo" => call'.res = "failed")
    BY <2>1, <2>2 DEF Calls, Pc, SameCall, D
  <2>4. NetTypes'
    BY <1>1, <2>1, <2>3, TypesPreserved DEF NetTypes, Look
  <2> QED
    BY <2>2, <2>3, <2>4 DEF WorkInv, At, SameCall
<1>2. CASE Down
  <2>1. call \in Calls /\ D \in Dev /\ call # NoCall
    BY <1>2, CallTypes DEF Down, At
  <2>2. SameCall /\ call'.pc = "clean"
    BY <1>2, <2>1, GoesOn DEF Down, At, Pc, Calls
  <2>3. active' \in [Dev -> Profile \cup {None}] /\ ready' \in [Dev -> BOOLEAN]
    BY <1>2, <2>1, ActivateTypes DEF Down, Deactivate, NetTypes
  <2>4. NetTypes'
    BY <1>2, <2>1, <2>2, <2>3, TypesPreserved DEF NetTypes, Down
  <2> QED
    BY <2>2, <2>4 DEF WorkInv, At
<1>3. CASE Clean
  <2>1. call \in Calls /\ D \in Dev /\ call # NoCall
    BY <1>3, CallTypes DEF Clean, At
  <2>2. SameCall /\ call'.pc = "add"
    BY <1>3, <2>1, GoesOn DEF Clean, At, Pc, Calls
  <2>3. profiles' = profiles \ Duplicates
    BY <1>3, DeleteTypes DEF Clean
  <2>4. NetTypes'
    BY <1>3, <2>1, <2>2, <2>3, DeleteTypes, TypesPreserved DEF NetTypes, Clean
  <2> QED
    BY <2>2, <2>3, <2>4 DEF WorkInv, At, Duplicates, Named
<1> QED
  BY <1>1, <1>2, <1>3

LEMMA ProfileIsAsAsked ==
  ASSUME NetTypes, WorkInv, Add
  PROVE  NetTypes' /\ WorkInv'
<1> DEFINE new == [name |-> NameOn(D), uuid |-> uuids + 1, conf |-> call.conf]
           Going(p) == call' = [call EXCEPT !.pc = "up", !.cand = IF ByUuid THEN p ELSE None]
<1>1. call \in Calls /\ D \in Dev /\ call # NoCall /\ call.pc = "add"
  BY CallTypes DEF Add, At
<1>2. UNCHANGED <<active, ready>>
  BY DEF Add
<1>3. CASE profiles' = profiles \cup {new} /\ uuids' = uuids + 1 /\ Going(new)
  <2>1. new \in Profile
    BY <1>1 DEF NetTypes, Calls, Profile, NameOn, Name
  <2>2. /\ SameCall /\ call'.pc = "up" /\ call'.conf = call.conf
        /\ call'.cand = IF ByUuid THEN new ELSE None
    BY <1>1, <1>3, <2>1 DEF Calls, Pc, SameCall, D
  <2>3. NetTypes'
    <3>1. profiles' \subseteq Profile /\ uuids' \in Nat
      BY <1>3, <2>1 DEF NetTypes
    <3>2. \A p \in profiles' : p.uuid <= uuids'
      BY <1>3 DEF NetTypes, Profile
    <3> QED
      BY <1>1, <1>2, <2>2, <3>1, <3>2, TypesPreserved DEF NetTypes
  <2>4. ByUuid' <=> ByUuid
    BY <2>2 DEF ByUuid, SameCall
  <2>5. ASSUME ~ByUuid PROVE \A p \in Named(NameOn(D))' : p.conf = call.conf
    <3>1. D = "wlan" /\ Named("provisioned-wifi") = {}
      BY <1>1, <2>5 DEF ByUuid, WorkInv, At, Dev
    <3>2. D' = "wlan"
      BY <2>2, <3>1 DEF SameCall
    <3> QED
      BY <1>3, <3>1, <3>2 DEF Named, NameOn
  <2> QED
    BY <2>2, <2>3, <2>4, <2>5 DEF WorkInv, At
<1>4. ASSUME NEW made \in {{}, {new}},
             uuids' = IF made = {} THEN uuids ELSE uuids + 1
      PROVE  /\ (profiles \cup made) \subseteq Profile /\ uuids' \in Nat
             /\ \A p \in profiles \cup made : p.uuid <= uuids'
  <2>1. new \in Profile /\ new.uuid = uuids + 1
    BY <1>1 DEF NetTypes, Calls, Profile, NameOn, Name
  <2> QED
    BY <1>4, <2>1 DEF NetTypes, Profile
<1>5. ASSUME NEW made \in {{}, {new}},
             uuids' = IF made = {} THEN uuids ELSE uuids + 1,
             D = "wlan" /\ ~call.conf.static,
             NEW p \in Named(NameOn(D)) \cup made,
             profiles' = ((profiles \cup made) \ {p}) \cup {[p EXCEPT !.conf = call.conf]},
             Going(p)
      PROVE  NetTypes' /\ WorkInv'
  <2>1. p \in profiles \cup made /\ p \in Profile
    BY <1>4, <1>5 DEF Named
  <2>2. /\ SameCall /\ call'.pc = "up" /\ call'.conf = call.conf
    BY <1>1, <1>5, <2>1 DEF Calls, Pc, SameCall, D
  <2>3. [p EXCEPT !.conf = call.conf] \in Profile /\ [p EXCEPT !.conf = call.conf].uuid = p.uuid
        /\ [p EXCEPT !.conf = call.conf].conf = call.conf
    BY <1>1, <2>1 DEF NetTypes, Calls, Profile
  <2>4. NetTypes'
    BY <1>1, <1>2, <1>4, <1>5, <2>1, <2>2, <2>3, TypesPreserved DEF NetTypes
  <2>5. D' = "wlan" /\ Named("provisioned-wifi") = {}
    BY <1>1, <1>5, <2>2 DEF WorkInv, At, SameCall
  <2>6. made = {new} /\ p = new
    BY <1>5, <2>5 DEF NameOn
  <2>7. \A q \in Named(NameOn(D))' : q.conf = call.conf
    BY <1>5, <2>3, <2>5, <2>6 DEF Named, NameOn
  <2>8. ~ByUuid'
    BY <1>5, <2>2, <2>5 DEF ByUuid, SameCall
  <2>9. WorkInv'
    BY <2>2, <2>7, <2>8 DEF WorkInv, At
  <2> QED
    BY <2>4, <2>9
<1>6. ASSUME NEW made \in {{}, {new}},
             uuids' = IF made = {} THEN uuids ELSE uuids + 1,
             Fails, profiles' = profiles \cup made
      PROVE  NetTypes' /\ WorkInv'
  <2>1. SameCall /\ call'.pc = "undo" /\ call'.res = "failed"
    BY <1>1, <1>6, GoesOn DEF Fails, Pc
  <2>2. NetTypes'
    BY <1>1, <1>2, <1>4, <1>6, <2>1, TypesPreserved DEF NetTypes
  <2> QED
    BY <2>1, <2>2 DEF WorkInv, At
<1>7. \/ profiles' = profiles \cup {new} /\ uuids' = uuids + 1 /\ Going(new)
      \/ \E made \in {{}, {new}} :
           /\ uuids' = IF made = {} THEN uuids ELSE uuids + 1
           /\ \/ /\ D = "wlan" /\ ~call.conf.static
                 /\ \E p \in Named(NameOn(D)) \cup made :
                      /\ profiles' = ((profiles \cup made) \ {p}) \cup {[p EXCEPT !.conf = call.conf]}
                      /\ Going(p)
              \/ Fails /\ profiles' = profiles \cup made
  BY DEF Add
<1> QED
  BY <1>3, <1>5, <1>6, <1>7

LEMMA ActivatedIsAsAsked ==
  ASSUME NetTypes, WorkInv, Up
  PROVE  NetTypes' /\ WorkInv'
<1>1. call \in Calls /\ D \in Dev /\ call # NoCall /\ call.pc = "up"
  BY CallTypes DEF Up, At
<1>2. UNCHANGED <<profiles, uuids>>
  BY DEF Up
<1>3. PICK p \in Profile \cup {None}, r \in BOOLEAN :
        /\ Activate(D, p, r)
        /\ \/ /\ Goto("wait") /\ (~call.conf.static => r)
              /\ IF ByUuid THEN p = call.cand ELSE p \in Named(NameOn(D))
           \/ Fails
  <2>1. CASE Deactivate(D) /\ Fails
    BY <2>1 DEF Deactivate
  <2>2. CASE \E p \in IF ByUuid THEN {call.cand} \cap profiles ELSE Named(NameOn(D)) :
               \/ ~call.conf.static /\ Activate(D, p, TRUE) /\ Goto("wait")
               \/ ~call.conf.static /\ Activate(D, p, FALSE) /\ Fails
               \/ call.conf.static /\ Activate(D, p, FALSE) /\ Goto("wait")
    BY <2>2 DEF Named, NetTypes
  <2> QED
    BY <2>1, <2>2 DEF Up
<1>4. /\ active' \in [Dev -> Profile \cup {None}] /\ ready' \in [Dev -> BOOLEAN]
      /\ active'[D] = p /\ ready'[D] = r
  BY <1>1, <1>3, ActivateTypes
<1>5. CASE Fails
  <2>1. SameCall /\ call'.pc = "undo" /\ call'.res = "failed"
    BY <1>1, <1>5, GoesOn DEF Fails, Pc
  <2>2. NetTypes'
    BY <1>1, <1>2, <1>4, <2>1, TypesPreserved DEF NetTypes
  <2> QED
    BY <2>1, <2>2 DEF WorkInv, At
<1>6. CASE ~Fails
  <2>1. /\ Goto("wait") /\ (~call.conf.static => r)
        /\ IF ByUuid THEN p = call.cand ELSE p \in Named(NameOn(D))
    BY <1>3, <1>6
  <2>2. SameCall /\ call'.pc = "wait" /\ call'.cand = call.cand /\ call'.conf = call.conf
    BY <1>1, <2>1, GoesOn DEF Pc, Calls, Goto
  <2>3. NetTypes'
    BY <1>1, <1>2, <1>4, <2>2, TypesPreserved DEF NetTypes
  <2>4. p.conf = call.conf /\ (ByUuid => p = call.cand /\ call.cand.conf = call.conf)
    BY <1>1, <2>1 DEF WorkInv, At
  <2>5. call.conf.static => call.cand.conf = call.conf
    BY <2>4 DEF ByUuid
  <2>6. ~call.conf.static => Connected' /\ (D = "eth" => active'[D] = call.cand)
    BY <1>4, <2>1, <2>2, <2>4 DEF ByUuid, Connected, SameCall
  <2> QED
    BY <2>2, <2>3, <2>5, <2>6 DEF WorkInv, At, SameCall
<1> QED
  BY <1>5, <1>6

LEMMA AddressIsAsAsked ==
  ASSUME NetTypes, WorkInv, WaitForIp
  PROVE  NetTypes' /\ WorkInv'
<1>1. call \in Calls /\ D \in Dev /\ call # NoCall /\ call.pc = "wait"
  BY CallTypes DEF WaitForIp, At
<1>2. UNCHANGED <<profiles, active, ready, uuids>>
  BY DEF WaitForIp
<1>3. CASE Fails
  <2>1. SameCall /\ call'.pc = "undo" /\ call'.res = "failed"
    BY <1>1, <1>3, GoesOn DEF Fails, Pc
  <2>2. NetTypes'
    BY <1>1, <1>2, <2>1, TypesPreserved DEF NetTypes
  <2> QED
    BY <2>1, <2>2 DEF WorkInv, At
<1>4. CASE HasAddress /\ IF D = "eth" THEN Goto("tidy") ELSE Returns("ok")
  <2>1. /\ SameCall /\ call'.cand = call.cand /\ call'.conf = call.conf
        /\ IF D = "eth" THEN call'.pc = "tidy" ELSE call'.pc = "done"
    <3>1. call.res \in {"ok", "failed", "raised"}
      BY <1>1 DEF Calls
    <3>2. CASE Goto("tidy")
      BY <1>1, <1>4, <3>1, <3>2, GoesOn DEF Pc, Calls, Goto, Returns
    <3>3. CASE Returns("ok")
      BY <1>1, <1>4, <3>3, GoesOn DEF Pc, Calls, Goto, Returns
    <3> QED
      BY <1>4, <3>2, <3>3
  <2>2. Connected /\ (D = "eth" => active[D] = call.cand)
    BY <1>1, <1>4 DEF WorkInv, At, HasAddress, Connected
  <2>3. NetTypes'
    BY <1>1, <1>2, <2>1, TypesPreserved DEF NetTypes
  <2> QED
    BY <1>2, <2>1, <2>2, <2>3 DEF WorkInv, At, Connected, SameCall
<1> QED
  BY <1>3, <1>4 DEF WaitForIp

\* The cleaning up after success spares the connection made.
LEMMA TidySpares ==
  ASSUME NetTypes, WorkInv, Obedient, Tidy
  PROVE  NetTypes' /\ WorkInv'
<1>1. call \in Calls /\ D \in Dev /\ call # NoCall /\ call.pc = "tidy"
  BY CallTypes DEF Tidy, At
<1>2. SameCall /\ call'.pc = "done" /\ call'.conf = call.conf
  BY <1>1, GoesOn DEF Tidy, Returns, Pc, Calls
<1>3. DeleteSome(Named(NameOn(D)) \ {call.cand})
  BY DEF Tidy
<1>4. Connected /\ active[D] = call.cand
  BY <1>1 DEF WorkInv, At
<1>5. active'[D] = active[D] /\ ready'[D] = ready[D]
  BY <1>1, <1>3, <1>4, DeleteTypes
<1>6. NetTypes'
  BY <1>1, <1>2, <1>3, DeleteTypes, TypesPreserved DEF NetTypes, Tidy
<1> QED
  BY <1>2, <1>4, <1>5, <1>6 DEF WorkInv, At, Connected, SameCall

LEMMA FailureStaysOne ==
  ASSUME NetTypes, WorkInv, Obedient, Undo \/ Restore \/ Raise
  PROVE  NetTypes' /\ WorkInv'
<1>1. CASE Undo
  <2>1. call \in Calls /\ D \in Dev /\ call # NoCall /\ call.pc = "undo"
    BY <1>1, CallTypes DEF Undo, At
  <2>2. SameCall /\ call'.pc = "restore" /\ call'.res = call.res
    BY <1>1, <2>1, GoesOn DEF Undo, Pc, Calls
  <2>3. NetTypes'
    <3>1. CASE D = "eth"
      BY <1>1, <2>1, <2>2, <3>1, DeleteTypes, TypesPreserved DEF NetTypes, Undo
    <3>2. CASE D # "eth"
      BY <1>1, <2>1, <2>2, <3>2, TypesPreserved DEF NetTypes, Undo
    <3> QED
      BY <3>1, <3>2
  <2> QED
    BY <2>1, <2>2, <2>3 DEF WorkInv, At
<1>2. CASE Restore
  <2>1. call \in Calls /\ D \in Dev /\ call # NoCall /\ call.pc = "restore"
    BY <1>2, CallTypes DEF Restore, At
  <2>2. SameCall /\ call'.pc = "done" /\ call'.res = call.res
    BY <1>2, <2>1, GoesOn DEF Restore, Returns, Pc, Calls
  <2>3. active' \in [Dev -> Profile \cup {None}] /\ ready' \in [Dev -> BOOLEAN]
    BY <1>2, <2>1, ActivateTypes DEF Restore, NetTypes, Calls
  <2>4. NetTypes'
    BY <1>2, <2>1, <2>2, <2>3, TypesPreserved DEF NetTypes, Restore
  <2> QED
    BY <2>1, <2>2, <2>4 DEF WorkInv, At
<1>3. CASE Raise
  <2>1. call.pc \in Pc
    BY <1>3 DEF Raise, At, Pc
  <2>2. call \in Calls /\ D \in Dev /\ call # NoCall
    BY <2>1, CallTypes DEF Pc
  <2>3. SameCall /\ call'.pc \in {"done", "undo"} /\ call'.res = "raised"
    BY <1>3, <2>1, <2>2, GoesOn DEF Raise, Returns, Pc
  <2>4. NetTypes'
    BY <1>3, <2>2, <2>3, TypesPreserved DEF NetTypes, Raise
  <2> QED
    BY <2>3, <2>4 DEF WorkInv, At
<1> QED
  BY <1>1, <1>2, <1>3

\* NetworkManager goes on by itself only where there is no address.
LEMMA ManagerKeepsAsAsked ==
  ASSUME NetTypes, WorkInv, NetworkManager
  PROVE  NetTypes' /\ WorkInv'
<1>1. UNCHANGED <<profiles, uuids, call>>
  BY DEF NetworkManager, Settle, Autoconnect
<1>2. PICK d \in Dev, p \in Profile \cup {None}, r \in BOOLEAN :
        Activate(d, p, r) /\ (active[d] = None \/ ~ready[d])
  BY DEF NetworkManager, Settle, Autoconnect, Deactivate, NetTypes
<1>3. /\ active' \in [Dev -> Profile \cup {None}] /\ ready' \in [Dev -> BOOLEAN]
      /\ \A e \in Dev \ {d} : active'[e] = active[e] /\ ready'[e] = ready[e]
  BY <1>2, ActivateTypes
<1>4. D' = D /\ (ByUuid' <=> ByUuid)
  BY <1>1 DEF D, ByUuid
<1>5. NetTypes'
  BY <1>1, <1>3, <1>4 DEF NetTypes
<1>6. ASSUME call # NoCall, Connected PROVE Connected' /\ active'[D] = active[D]
  <2>1. D \in Dev /\ call.conf \in Config
    BY <1>6 DEF NetTypes, Calls
  <2>2. active[D] # None \/ call.conf = NoConfig
    BY <1>6 DEF Connected, None
  <2>3. D # d
    BY <1>2, <1>6, <2>1, <2>2, ConfigIsNoMark DEF Connected
  <2> QED
    BY <1>1, <1>3, <1>4, <1>6, <2>1, <2>3 DEF Connected
<1>7. WorkInv'
  BY <1>1, <1>4, <1>6 DEF WorkInv, At, Named, NoCall
<1> QED
  BY <1>5, <1>7

LEMMA NetworkKeepsAsAsked ==
  ASSUME NetTypes, WorkInv, Obedient, Network
  PROVE  NetTypes' /\ WorkInv'
BY BeforeTheProfile, ProfileIsAsAsked, ActivatedIsAsAsked, AddressIsAsAsked, TidySpares,
   FailureStaysOne, ManagerKeepsAsAsked DEF Network, Applier

LEMMA AboutTheSame ==
  ASSUME NetTypes, Network
  PROVE  call' = call \/ (call # NoCall /\ call'.conf = call.conf)
<1>1. CASE NetworkManager
  BY <1>1 DEF NetworkManager, Settle, Autoconnect
<1>2. CASE Applier \/ Raise
  <2>1. call \in Calls /\ call # NoCall
    BY <1>2, CallTypes DEF Applier, Look, Down, Clean, Add, Up, WaitForIp, Tidy, Undo, Restore,
                           Raise, At
  <2>2. CASE Look
    BY <2>1, <2>2 DEF Look, Calls
  <2>3. CASE Down \/ Clean \/ Undo
    BY <2>1, <2>3 DEF Down, Clean, Undo, Goto, Calls
  <2>4. CASE Add
    BY <2>1, <2>4 DEF Add, Fails, Calls
  <2>5. CASE Up
    BY <2>1, <2>5 DEF Up, Goto, Fails, Calls
  <2>6. CASE WaitForIp
    BY <2>1, <2>6 DEF WaitForIp, Goto, Fails, Returns, Calls
  <2>7. CASE Tidy \/ Restore \/ Raise
    BY <2>1, <2>7 DEF Tidy, Restore, Raise, Returns, Calls
  <2> QED
    BY <1>2, <2>1, <2>2, <2>3, <2>4, <2>5, <2>6, <2>7 DEF Applier
<1> QED
  BY <1>1, <1>2 DEF Network

LEMMA HeadIsFirst ==
  ASSUME Handed, queue # <<>>
  PROVE  /\ Holder = queue[1] /\ queue[1] \in Commands /\ 1 \in DOMAIN queue
         /\ Len(queue) \in Nat /\ DOMAIN queue = 1..Len(queue)
BY DEF Handed, Holder

\* A command in hand leaves the queue as it is.
LEMMA InHandSteps ==
  ASSUME Handed, RequestInv,
         Scan \/ ScanEnds \/ SetConfig \/ Cancel \/ Apply \/ Remote \/ Connect \/ ConnectEnds \/ Fail
  PROVE  RequestInv'
<1>1. queue # <<>> /\ UNCHANGED queue
  BY DEF Scan, ScanEnds, SetConfig, Cancel, Apply, Remote, Connect, ConnectEnds, Fail, Holding, Phone
<1>2. Holder = queue[1] /\ queue[1] \in Commands /\ 1 \in DOMAIN queue
      /\ Len(queue) \in Nat /\ DOMAIN queue = 1..Len(queue)
  BY <1>1, HeadIsFirst
<1>3. ASSUME pending' \in {NoConfig, pending} PROVE AppliesTheLast'
  BY <1>1, <1>3 DEF RequestInv, AppliesTheLast, NoSetBetween
<1>4. ASSUME UNCHANGED <<call, pending>>, at' = at \/ (at # "wait" /\ at' \in {"end", "scan", "won"}),
             at' = "end" => queue[1].cmd # "set", at' = "scan" => queue[1].cmd = "scan"
      PROVE  RequestInv'
  BY <1>1, <1>3, <1>4 DEF RequestInv, InHand, SetTaken
<1>5. CASE Scan
  BY <1>2, <1>4, <1>5 DEF Scan, Holding, netVars
<1>6. CASE ScanEnds
  BY <1>2, <1>4, <1>6 DEF ScanEnds, Holding, netVars, RequestInv, InHand
<1>7. CASE SetConfig
  <2>1. /\ at = "idle" /\ at' = "end" /\ UNCHANGED call /\ queue[1].cmd = "set"
        /\ pending' \in {NoConfig, queue[1].conf}
    BY <1>2, <1>7 DEF SetConfig, Holding, netVars, BadCleared
  <2>2. AppliesTheLast'
    <3>1. \A i \in DOMAIN queue : queue[i].cmd = "apply" => ~NoSetBetween(0, i)
      BY <1>2, <2>1 DEF NoSetBetween
    <3> QED
      BY <1>1, <3>1 DEF RequestInv, AppliesTheLast, NoSetBetween
  <2> QED
    BY <1>1, <2>1, <2>2 DEF RequestInv, InHand, SetTaken
<1>8. CASE Cancel
  <2>1. /\ at = "idle" /\ at' = "end" /\ UNCHANGED call /\ queue[1].cmd = "cancel"
        /\ pending' \in {NoConfig, pending}
    BY <1>2, <1>8 DEF Cancel, Holding, netVars
  <2> QED
    BY <1>1, <1>3, <2>1 DEF RequestInv, InHand, SetTaken
<1>9. CASE Apply
  <2>1. /\ at = "idle" /\ UNCHANGED <<call, pending>> /\ queue[1].cmd = "apply"
        /\ at' = IF pending = NoConfig THEN "end" ELSE "remote"
    BY <1>2, <1>9 DEF Apply, Holding, netVars
  <2>2. pending \in {NoConfig, queue[1].conf}
    <3>1. NoSetBetween(0, 1)
      BY <1>2 DEF NoSetBetween
    <3> QED
      BY <1>2, <2>1, <3>1 DEF RequestInv, AppliesTheLast
  <2> QED
    BY <1>1, <1>3, <2>1, <2>2 DEF RequestInv, InHand, SetTaken
<1>10. CASE Remote \/ Fail
  <2>1. /\ at \in {"remote", "fail"} /\ UNCHANGED <<call, pending>>
        /\ IF at = "remote" THEN at' \in {"won", "call", "fail"} ELSE at' = "end"
    BY <1>10 DEF Remote, Fail, Holding, netVars
  <2> QED
    BY <1>1, <1>3, <2>1 DEF RequestInv, InHand, SetTaken
<1>11. CASE Connect
  BY <1>1, <1>3, <1>11 DEF Connect, Holding, Started, RequestInv, InHand, SetTaken
<1>12. CASE ConnectEnds
  BY <1>1, <1>3, <1>12 DEF ConnectEnds, Holding, RequestInv, InHand, SetTaken
<1> QED
  BY <1>5, <1>6, <1>7, <1>8, <1>9, <1>10, <1>11, <1>12

LEMMA ReleasePassesOn ==
  ASSUME Handed, RequestInv, Release
  PROVE  RequestInv'
<1>1. /\ queue # <<>> /\ queue' = Tail(queue) /\ at' = "idle" /\ UNCHANGED call
      /\ at \in {"end", "won"} /\ pending' \in {NoConfig, pending} /\ (at = "won" => pending' = NoConfig)
  BY DEF Release, Holding, netVars
<1>2. queue \in Seq(Commands) /\ Len(queue) \in Nat /\ DOMAIN queue = 1..Len(queue)
  BY <1>1, HeadIsFirst DEF Handed
<1>3. DOMAIN queue' = 1..(Len(queue) - 1) /\ \A i \in DOMAIN queue' : queue'[i] = queue[i + 1]
  BY <1>1, <1>2
<1>4. ASSUME NEW i \in DOMAIN queue', NEW j \in Nat, NoSetBetween(j, i)'
      PROVE  \A k \in DOMAIN queue : j + 1 < k /\ k < i + 1 => queue[k].cmd # "set"
  <2> SUFFICES ASSUME NEW k \in DOMAIN queue, j + 1 < k, k < i + 1 PROVE queue[k].cmd # "set"
    OBVIOUS
  <2>1. k - 1 \in DOMAIN queue' /\ j < k - 1 /\ k - 1 < i /\ (k - 1) + 1 = k
    BY <1>2, <1>3, <1>4
  <2> QED
    BY <1>3, <1>4, <2>1 DEF NoSetBetween
<1>5. AppliesTheLast'
  <2> SUFFICES ASSUME NEW i \in DOMAIN queue', queue'[i].cmd = "apply"
               PROVE  /\ \A j \in DOMAIN queue' :
                           j < i /\ queue'[j].cmd = "set" /\ NoSetBetween(j, i)'
                             => queue'[i].conf = queue'[j].conf
                      /\ NoSetBetween(0, i)' => pending' \in {NoConfig, queue'[i].conf}
    BY DEF AppliesTheLast
  <2>1. i + 1 \in DOMAIN queue /\ queue[i + 1].cmd = "apply" /\ queue'[i] = queue[i + 1]
    BY <1>2, <1>3
  <2>2. ASSUME NEW j \in DOMAIN queue', j < i, queue'[j].cmd = "set", NoSetBetween(j, i)'
        PROVE  queue'[i].conf = queue'[j].conf
    <3>1. j + 1 \in DOMAIN queue /\ j + 1 < i + 1 /\ queue[j + 1].cmd = "set" /\ j \in Nat
      BY <1>2, <1>3, <2>2
    <3>2. NoSetBetween(j + 1, i + 1)
      BY <1>4, <2>2, <3>1 DEF NoSetBetween
    <3> QED
      BY <1>3, <2>1, <2>2, <3>1, <3>2 DEF RequestInv, AppliesTheLast
  <2>3. ASSUME NoSetBetween(0, i)' PROVE pending' \in {NoConfig, queue'[i].conf}
    <3>1. NoSetBetween(1, i + 1) /\ 1 \in DOMAIN queue /\ 1 < i + 1
      BY <1>2, <1>3, <1>4, <2>1, <2>3 DEF NoSetBetween
    <3>2. CASE queue[1].cmd = "set"
      <4>1. queue[i + 1].conf = queue[1].conf
        BY <2>1, <3>1, <3>2 DEF RequestInv, AppliesTheLast
      <4> QED
        BY <1>1, <2>1, <3>2, <4>1 DEF RequestInv, SetTaken
    <3>3. CASE queue[1].cmd # "set"
      <4>1. NoSetBetween(0, i + 1)
        <5> SUFFICES ASSUME NEW k \in DOMAIN queue, 0 < k, k < i + 1 PROVE queue[k].cmd # "set"
          BY DEF NoSetBetween
        <5>1. k = 1 \/ 1 < k
          BY <1>2
        <5> QED
          BY <3>1, <3>3, <5>1 DEF NoSetBetween
      <4> QED
        BY <1>1, <2>1, <4>1 DEF RequestInv, AppliesTheLast
    <3> QED
      BY <3>2, <3>3
  <2> QED
    BY <2>2, <2>3
<1> QED
  BY <1>1, <1>5 DEF RequestInv, InHand, SetTaken

LEMMA WritingAddsTheLast ==
  ASSUME Handed, RequestInv, WriteCommand
  PROVE  RequestInv'
<1>1. PICK c \in Commands :
        /\ c.cmd = "apply" => LastSet(c.conf)
        /\ queue' = Append(queue, c) /\ UNCHANGED <<call, pending, at>>
  BY WrittenCommand DEF netVars
<1>2. PICK n \in Nat : n = Len(queue)
  BY DEF Handed
<1>3. /\ DOMAIN queue = 1..n /\ DOMAIN queue' = 1..(n + 1) /\ queue'[n + 1] = c
      /\ \A i \in 1..n : queue'[i] = queue[i]
  BY <1>1, <1>2 DEF Handed
<1>4. queue # <<>> => queue' # <<>> /\ queue'[1] = queue[1]
  BY <1>2, <1>3 DEF Handed
<1>5. InHand'
  BY <1>1, <1>4 DEF RequestInv, InHand
<1>6. SetTaken'
  BY <1>1, <1>4 DEF RequestInv, SetTaken, InHand
<1>7. AppliesTheLast'
  <2> SUFFICES ASSUME NEW i \in 1..(n + 1), queue'[i].cmd = "apply"
               PROVE  /\ \A j \in 1..(n + 1) :
                           j < i /\ queue'[j].cmd = "set" /\ NoSetBetween(j, i)'
                             => queue'[i].conf = queue'[j].conf
                      /\ NoSetBetween(0, i)' => pending' \in {NoConfig, queue'[i].conf}
    BY <1>3 DEF AppliesTheLast
  <2>1. CASE i \in 1..n
    <3>1. \A j \in 0..n : NoSetBetween(j, i)' => NoSetBetween(j, i)
      BY <1>2, <1>3, <2>1 DEF NoSetBetween
    <3> QED
      BY <1>1, <1>2, <1>3, <2>1, <3>1 DEF RequestInv, AppliesTheLast
  <2>2. CASE i = n + 1
    <3>1. LastSet(c.conf) /\ queue'[i] = c
      BY <1>1, <1>3, <2>2
    <3>2. ASSUME NEW j \in 1..n, queue[j].cmd = "set", NoSetBetween(j, i)'
          PROVE  c.conf = queue[j].conf
      <4>1. PICK m \in 1..n : /\ queue[m].cmd = "set" /\ c.conf = queue[m].conf
                              /\ \A k \in 1..n : queue[k].cmd = "set" => k <= m
        BY <1>3, <3>1, <3>2 DEF LastSet
      <4>2. ~(j < m)
        BY <1>2, <1>3, <2>2, <3>2, <4>1 DEF NoSetBetween
      <4>3. m = j
        BY <1>2, <3>2, <4>1, <4>2
      <4> QED
        BY <4>1, <4>3
    <3>3. ASSUME NoSetBetween(0, i)' PROVE c.conf = pending
      <4>1. \A k \in 1..n : queue[k].cmd # "set"
        BY <1>2, <1>3, <2>2, <3>3 DEF NoSetBetween
      <4> QED
        BY <1>3, <3>1, <4>1 DEF LastSet
    <3>4. \A j \in 1..(n + 1) : j < i => j \in 1..n
      BY <1>2, <2>2
    <3> QED
      BY <1>1, <1>3, <3>1, <3>2, <3>3, <3>4
  <2> QED
    BY <1>2, <2>1, <2>2
<1> QED
  BY <1>5, <1>6, <1>7 DEF RequestInv

LEMMA ConnectInvInit == Init => ConnectInv
<1> SUFFICES ASSUME Init PROVE ConnectInv
  OBVIOUS
<1>1. NetTypes /\ Handed
  BY InitEstablishes DEF IInv
<1>2. WorkInv
  BY DEF Init, NetInit, NoCall, WorkInv, At
<1>3. RequestInv
  BY DEF Init, NetInit, RequestInv, InHand, AppliesTheLast, SetTaken
<1> QED
  BY <1>1, <1>2, <1>3 DEF ConnectInv

LEMMA ConnectInvStep ==
  ASSUME ConnectInv, Obedient, [Next]_vars
  PROVE  ConnectInv'
<1>1. Handed'
  BY HandedStep DEF ConnectInv
<1>2. NetTypes' /\ WorkInv'
  <2>1. CASE UNCHANGED netVars
    <3>1. UNCHANGED <<profiles, active, ready, uuids, call>>
      BY <2>1 DEF netVars
    <3>2. D' = D /\ (ByUuid' <=> ByUuid)
      BY <3>1 DEF D, ByUuid
    <3> QED
      BY <3>1, <3>2 DEF ConnectInv, NetTypes, WorkInv, At, Connected, Named
  <2>2. CASE Network
    BY <2>2, NetworkKeepsAsAsked DEF ConnectInv
  <2>3. CASE Connect
    <3>1. call' = Started(pending) /\ UNCHANGED <<profiles, active, ready, uuids>> /\ at = "call"
      BY <2>3 DEF Connect, Holding
    <3>2. pending \in Config /\ pending.dev \in Dev
      BY <3>1, ConfigAssumption DEF ConnectInv, Handed
    <3>3. call' \in Calls /\ D' \in Dev /\ call'.pc = "look"
      BY <3>1, <3>2 DEF ConnectInv, NetTypes, Started, Calls, Pc, D
    <3> QED
      BY <3>1, <3>3 DEF ConnectInv, NetTypes, WorkInv, At
  <2>4. CASE ConnectEnds \/ Kill
    <3>1. call' = NoCall /\ UNCHANGED <<profiles, active, ready, uuids>>
      BY <2>4 DEF ConnectEnds, Kill
    <3> QED
      BY <3>1 DEF ConnectInv, NetTypes, WorkInv, At, NoCall
  <2>5. UNCHANGED netVars \/ Network \/ Connect \/ ConnectEnds \/ Kill
    BY DEF Next, vars, Service, Scan, ScanEnds, SetConfig, Cancel, Apply, Remote, Fail, Release,
           WriteCommand, Write, Query, Deliver
  <2> QED
    BY <2>1, <2>2, <2>3, <2>4, <2>5
<1>3. RequestInv'
  <2>1. CASE UNCHANGED <<queue, at, pending>> /\ (call' = call \/ (call # NoCall /\ call'.conf = call.conf))
    BY <2>1 DEF ConnectInv, RequestInv, InHand, AppliesTheLast, SetTaken, NoSetBetween
  <2>2. CASE Network /\ UNCHANGED svcVars
    BY <2>1, <2>2, AboutTheSame DEF ConnectInv, svcVars
  <2>3. CASE Query \/ Deliver \/ UNCHANGED vars
    BY <2>1, <2>3 DEF Query, Deliver, vars, svcVars, netVars
  <2>4. CASE Service
    BY <2>4, InHandSteps, ReleasePassesOn DEF ConnectInv, Service
  <2>5. CASE WriteCommand
    BY <2>5, WritingAddsTheLast DEF ConnectInv
  <2>6. CASE Kill
    BY <2>6 DEF Kill, RequestInv, InHand, AppliesTheLast, SetTaken
  <2> QED
    BY <2>2, <2>3, <2>4, <2>5, <2>6 DEF Next
<1> QED
  BY <1>1, <1>2, <1>3 DEF ConnectInv

(***************************************************************************)
(* CONNECTED is said of an apply only with an address on its device and a  *)
(* profile of the configuration last written before that apply, whatever   *)
(* other commands come between, NetworkManager does by itself, and fails,  *)
(* as long as deletions are obeyed.                                        *)
(***************************************************************************)
THEOREM SpecConnectedIsRequested ==
  ASSUME Obedient
  PROVE  Spec => ConnectedIsRequested
<1>1. Init => ConnectInv
  BY ConnectInvInit
<1>2. ConnectInv /\ [Next]_vars => ConnectInv'
  BY ConnectInvStep
<1> DEFINE Requested == at # "won" /\ at' = "won" =>
             LET c == Holder.conf IN
               c.dev # "none" => c \in Config /\ ready[c.dev] /\ active[c.dev].conf = c
<1>3. ConnectInv /\ [Next]_vars => Requested
  <2> SUFFICES ASSUME ConnectInv, Next, at # "won", at' = "won" PROVE Requested
    BY DEF vars, svcVars
  <2>1. Remote \/ ConnectEnds
    BY DEF Next, svcVars, Service, Scan, ScanEnds, SetConfig, Cancel, Apply, Connect, Fail, Release,
           WriteCommand, Write, Query, Deliver, Kill
  <2>2. queue # <<>> /\ at \in {"remote", "wait"}
    BY <2>1 DEF Remote, ConnectEnds, Holding
  <2>3. Holder.conf = pending
    BY <2>2, HeadIsFirst DEF ConnectInv, RequestInv, InHand
  <2>4. CASE Remote
    BY <2>3, <2>4 DEF Remote
  <2>5. CASE ConnectEnds
    <3>1. call.pc = "done" /\ call.res = "ok" /\ at = "wait"
      BY <2>5 DEF ConnectEnds, Holding
    <3>2. call \in Calls /\ call.conf = pending
      BY <3>1, CallTypes DEF ConnectInv, RequestInv, InHand
    <3>3. Connected
      BY <3>1 DEF ConnectInv, WorkInv, At
    <3> QED
      BY <2>3, <3>2, <3>3 DEF Connected, D, Calls
  <2> QED
    BY <2>1, <2>4, <2>5
<1>4. ConnectInv /\ [Next]_vars => [Requested]_vars
  BY <1>3
<1> QED
  BY <1>1, <1>2, <1>4, PTL DEF Spec, ConnectedIsRequested

-----------------------------------------------------------------------------
(***************************************************************************)
(* What is told of an apply never goes back.  No command but an apply has  *)
(* the id of one: the code tells them apart by nothing else.               *)
(***************************************************************************)
IdsAreOwn == "same_id" \notin Faults

Told == {"none", "APPLYING", "CONNECTING", "CONNECTED", "error"}
Message == [query : BOOLEAN, token : Nat, says : Told]
Follows(a, b) == a = "none" \/ b = "none" \/ a = b \/ Rank(a) < Rank(b)

TalkTypes ==
  /\ outbox \in Seq(Message)
  /\ heard \in [Token -> Told]
  /\ applyStatus \in Told
  /\ applyToken \in 0..written /\ applyId \in Nat
  /\ written <= MaxCommands

\* A message on its way comes after what was heard and before what is known.
MessageInOrder(i) ==
  outbox[i].token # 0 =>
    /\ outbox[i].token \in 1..written
    /\ Follows(heard[outbox[i].token], outbox[i].says)
    /\ outbox[i].token = applyToken => Follows(outbox[i].says, applyStatus)
    /\ \A j \in DOMAIN outbox :
         i < j /\ outbox[j].token = outbox[i].token => Follows(outbox[i].says, outbox[j].says)
Answers ==
  /\ \A i \in DOMAIN outbox : MessageInOrder(i)
  /\ applyToken # 0 => applyStatus # "none" /\ Follows(heard[applyToken], applyStatus)

\* Nothing was said yet of an apply whose turn has not come.
Fresh(t) == /\ t # applyToken /\ heard[t] = "none"
            /\ \A i \in DOMAIN outbox : outbox[i].token # t
NothingSaid ==
  /\ \A i \in DOMAIN queue : i > 1 \/ at = "idle" => Fresh(queue[i].token)
  /\ \A t \in Token : t > written => Fresh(t)

Numbered ==
  /\ \A i \in DOMAIN queue : /\ queue[i].token \in 1..written
                             /\ queue[i].cmd = "apply" <=> queue[i].id # 0
  /\ \A i, j \in DOMAIN queue : i # j => queue[i].token # queue[j].token

\* The status is that of the apply in hand.
OwnStatus ==
  /\ applyId = 0 => applyToken = 0
  /\ at # "idle" => queue # <<>>
  /\ at = "scan" => queue[1].cmd = "scan"
  /\ at \in {"remote", "call", "wait", "fail"} =>
       queue[1].cmd = "apply" /\ queue[1].token = applyToken /\ queue[1].id = applyId
  /\ at = "remote" => applyStatus = "APPLYING"
  /\ at \in {"call", "wait"} => applyStatus = "CONNECTING"

AnswersInv == Handed /\ TalkTypes /\ Answers /\ NothingSaid /\ Numbered /\ OwnStatus

LEMMA TokenIsANumber == Token \subseteq Nat \ {0}
BY BoundAssumption DEF Token

LEMMA FrontOfSeq ==
  ASSUME NEW S, NEW q \in Seq(S), q # <<>>
  PROVE  \E m \in Nat \ {0} :
           /\ m = Len(q) /\ DOMAIN q = 1..m /\ \A i \in 1..m : q[i] \in S
           /\ Head(q) = q[1] /\ Tail(q) \in Seq(S) /\ DOMAIN Tail(q) = 1..(m - 1)
           /\ \A i \in 1..(m - 1) : i + 1 \in 1..m /\ Tail(q)[i] = q[i + 1]
OBVIOUS

LEMMA FollowsOn ==
  /\ \A a, b, c \in Told : Follows(a, b) /\ Follows(b, c) /\ b # "none" => Follows(a, c)
  /\ \A a \in Told : Follows(a, a) /\ Follows("none", a) /\ Follows(a, "none")
BY DEF Told, Follows, Rank

LEMMA StatusFollows ==
  /\ Follows("APPLYING", "CONNECTING") /\ Follows("APPLYING", "CONNECTED")
  /\ Follows("APPLYING", "error")
  /\ Follows("CONNECTING", "CONNECTED") /\ Follows("CONNECTING", "error")
BY DEF Follows, Rank

LEMMA ToldOnce ==
  \A a, b \in Told : b # "none" /\ Follows(a, b) => b = a \/ Rank(b) > Rank(a)
BY DEF Told, Follows, Rank

\* A message appended says what is known of the apply in hand, or nothing of any.
LEMMA SayingKeepsOrder ==
  ASSUME Handed, TalkTypes, Answers,
         NEW n \in Message, outbox' = Append(outbox, n),
         UNCHANGED <<heard, applyToken, written>>, applyStatus' \in Told, applyId' \in Nat,
         applyToken # 0 => applyStatus' # "none" /\ Follows(applyStatus, applyStatus'),
         n.token # 0 => n.token = applyToken /\ n.says \in {"none", applyStatus'}
  PROVE  TalkTypes' /\ Answers' /\ \A t \in Token : Fresh(t) => Fresh(t)'
<1>1. PICK m \in Nat : m = Len(outbox)
  BY DEF TalkTypes
<1>2. /\ DOMAIN outbox = 1..m /\ DOMAIN outbox' = 1..(m + 1) /\ outbox'[m + 1] = n
      /\ \A i \in 1..m : outbox'[i] = outbox[i]
      /\ \A i \in 1..m : outbox[i] \in Message
  BY <1>1 DEF TalkTypes
<1>3. ASSUME applyToken # 0
      PROVE  /\ applyToken \in Token /\ heard[applyToken] \in Told
             /\ Follows(heard[applyToken], applyStatus')
  <2>1. applyToken \in Token /\ heard[applyToken] \in Told /\ applyStatus \in Told
    BY <1>3, BoundAssumption DEF TalkTypes, Token, Handed
  <2> QED
    BY <1>3, <2>1, FollowsOn DEF Answers
<1>4. ASSUME NEW i \in 1..m PROVE MessageInOrder(i)'
  <2> SUFFICES ASSUME outbox[i].token # 0 PROVE MessageInOrder(i)'
    BY <1>2 DEF MessageInOrder
  <2>1. MessageInOrder(i) /\ outbox[i].says \in Told
    BY <1>2 DEF Answers, Message
  <2>2. outbox[i].token = applyToken => Follows(outbox[i].says, applyStatus')
    BY <2>1, FollowsOn DEF MessageInOrder, Answers, TalkTypes
  <2>3. n.token = outbox[i].token => Follows(outbox[i].says, n.says)
    BY <2>1, <2>2, FollowsOn
  <2>4. ASSUME NEW j \in 1..(m + 1), i < j, outbox'[j].token = outbox[i].token
        PROVE  Follows(outbox[i].says, outbox'[j].says)
    <3>1. CASE j \in 1..m
      BY <1>2, <2>1, <2>4, <3>1 DEF MessageInOrder
    <3>2. CASE j = m + 1
      BY <1>2, <2>3, <2>4, <3>2
    <3> QED
      BY <1>1, <3>1, <3>2
  <2> QED
    BY <1>2, <2>1, <2>2, <2>4 DEF MessageInOrder
<1>5. MessageInOrder(m + 1)'
  BY <1>2, <1>3, FollowsOn DEF MessageInOrder, TalkTypes, Handed
<1>6. Answers'
  <2>1. \A i \in 1..(m + 1) : i \in 1..m \/ i = m + 1
    BY <1>1
  <2> QED
    BY <1>2, <1>3, <1>4, <1>5, <2>1 DEF Answers
<1>7. TalkTypes'
  BY DEF TalkTypes, Message
<1>8. \A t \in Token : Fresh(t) => Fresh(t)'
  BY <1>1, <1>2, TokenIsANumber DEF Fresh
<1> QED
  BY <1>6, <1>7, <1>8

\* An apply whose turn it is begins to be spoken of.
LEMMA TurnKeepsOrder ==
  ASSUME Handed, TalkTypes, Answers,
         NEW n \in Message, outbox' = Append(outbox, n),
         UNCHANGED <<heard, written>>, n.token \in 1..written, Fresh(n.token),
         applyToken' = n.token, applyStatus' = n.says, n.says # "none", applyId' \in Nat
  PROVE  TalkTypes' /\ Answers' /\ \A t \in Token \ {n.token} : Fresh(t) => Fresh(t)'
<1>1. PICK m \in Nat : m = Len(outbox)
  BY DEF TalkTypes
<1>2. /\ DOMAIN outbox = 1..m /\ DOMAIN outbox' = 1..(m + 1) /\ outbox'[m + 1] = n
      /\ \A i \in 1..m : outbox'[i] = outbox[i]
      /\ \A i \in 1..m : outbox[i] \in Message
  BY <1>1 DEF TalkTypes
<1>3. \A i \in 1..m : outbox[i].token # n.token
  BY <1>2 DEF Fresh
<1>4. heard[n.token] = "none"
  BY DEF Fresh
<1>5. ASSUME NEW i \in 1..m PROVE MessageInOrder(i)'
  <2>1. MessageInOrder(i)
    BY <1>2 DEF Answers
  <2> QED
    BY <1>2, <1>3, <2>1 DEF MessageInOrder
<1>6. MessageInOrder(m + 1)'
  BY <1>1, <1>2, <1>4, FollowsOn DEF MessageInOrder, Message, Handed
<1>7. Answers'
  <2>1. \A i \in 1..(m + 1) : i \in 1..m \/ i = m + 1
    BY <1>1
  <2> QED
    BY <1>2, <1>4, <1>5, <1>6, <2>1, FollowsOn DEF Answers, Message
<1>8. TalkTypes'
  BY DEF TalkTypes, Message
<1>9. \A t \in Token \ {n.token} : Fresh(t) => Fresh(t)'
  BY <1>1, <1>2, TokenIsANumber DEF Fresh
<1> QED
  BY <1>7, <1>8, <1>9

LEMMA DeliveryKeepsOrder ==
  ASSUME Handed, TalkTypes, Answers, Deliver
  PROVE  /\ TalkTypes' /\ Answers'
         /\ \A t \in Token : Fresh(t) => Fresh(t)'
         /\ \A t \in Token : heard'[t] = heard[t] \/ Rank(heard'[t]) > Rank(heard[t])
<1>1. PICK m \in Nat \ {0} :
        /\ m = Len(outbox) /\ DOMAIN outbox = 1..m /\ \A i \in 1..m : outbox[i] \in Message
        /\ Head(outbox) = outbox[1] /\ outbox' \in Seq(Message) /\ DOMAIN outbox' = 1..(m - 1)
        /\ \A i \in 1..(m - 1) : i + 1 \in 1..m /\ outbox'[i] = outbox[i + 1]
  BY FrontOfSeq DEF TalkTypes, Deliver
<1>2. PICK n \in Message : n = outbox[1] /\ n = Head(outbox)
  BY <1>1
<1>3. heard' = heard \/ (n.token # 0 /\ n.says # "none" /\ heard' = [heard EXCEPT ![n.token] = n.says])
  BY <1>2 DEF Deliver
<1>4. UNCHANGED <<applyId, applyToken, applyStatus, written>>
  BY DEF Deliver
<1>5. n.token # 0 =>
        /\ n.token \in Token /\ heard[n.token] \in Told /\ Follows(heard[n.token], n.says)
        /\ n.token = applyToken => Follows(n.says, applyStatus)
        /\ \A j \in 1..m : 1 < j /\ outbox[j].token = n.token => Follows(n.says, outbox[j].says)
  <2>1. MessageInOrder(1)
    BY <1>1 DEF Answers
  <2>2. ASSUME n.token # 0 PROVE n.token \in Token
    BY <1>2, <2>1, <2>2, BoundAssumption DEF MessageInOrder, Token, TalkTypes, Handed
  <2> QED
    BY <1>1, <1>2, <2>1, <2>2 DEF MessageInOrder, TalkTypes
<1>6. /\ heard' \in [Token -> Told]
      /\ \A t \in Token : heard'[t] = heard[t] \/ (t = n.token /\ t # 0 /\ heard'[t] = n.says /\ n.says # "none")
  BY <1>2, <1>3, <1>5 DEF TalkTypes, Message
<1>7. TalkTypes'
  BY <1>1, <1>4, <1>6 DEF TalkTypes
<1>8. ASSUME NEW i \in 1..(m - 1) PROVE MessageInOrder(i)'
  <2>1. MessageInOrder(i + 1) /\ outbox'[i] = outbox[i + 1] /\ 1 < i + 1 /\ i + 1 \in 1..m
    BY <1>1 DEF Answers
  <2> SUFFICES ASSUME outbox[i + 1].token # 0 PROVE MessageInOrder(i)'
    BY <2>1 DEF MessageInOrder
  <2>2. outbox[i + 1].token \in Token
    BY <2>1, BoundAssumption DEF MessageInOrder, Token, TalkTypes, Handed
  <2>3. Follows(heard'[outbox[i + 1].token], outbox[i + 1].says)
    BY <1>5, <1>6, <2>1, <2>2 DEF MessageInOrder
  <2>4. ASSUME NEW j \in 1..(m - 1), i < j, outbox'[j].token = outbox[i + 1].token
        PROVE  Follows(outbox[i + 1].says, outbox'[j].says)
    <3>1. j + 1 \in 1..m /\ i + 1 < j + 1 /\ outbox'[j] = outbox[j + 1]
      BY <1>1, <2>4
    <3> QED
      BY <1>1, <2>1, <2>4, <3>1 DEF MessageInOrder
  <2> QED
    BY <1>1, <1>4, <2>1, <2>3, <2>4 DEF MessageInOrder
<1>9. Answers'
  <2>1. ASSUME applyToken # 0 PROVE applyStatus # "none" /\ Follows(heard'[applyToken], applyStatus)
    <3>1. applyToken \in Token
      BY <2>1, BoundAssumption DEF TalkTypes, Token, Handed
    <3> QED
      BY <1>5, <1>6, <2>1, <3>1 DEF Answers
  <2> QED
    BY <1>1, <1>4, <1>8, <2>1 DEF Answers
<1>10. ASSUME NEW t \in Token, Fresh(t) PROVE Fresh(t)'
  <2>1. t # n.token
    BY <1>1, <1>2, <1>10 DEF Fresh
  <2>2. heard'[t] = heard[t]
    BY <1>3, <2>1 DEF TalkTypes
  <2> QED
    BY <1>1, <1>4, <1>10, <2>2 DEF Fresh
<1>11. \A t \in Token : heard'[t] = heard[t] \/ Rank(heard'[t]) > Rank(heard[t])
  BY <1>2, <1>5, <1>6, ToldOnce
<1> QED
  BY <1>7, <1>9, <1>10, <1>11

LEMMA TokensInQueue ==
  ASSUME Handed, TalkTypes, Numbered, NEW i \in DOMAIN queue
  PROVE  queue[i] \in Commands /\ queue[i].token \in Token /\ queue[i].token \in Nat \ {0}
BY BoundAssumption DEF Handed, TalkTypes, Numbered, Token

\* The command in hand says something; those behind it stay unspoken of.
LEMMA SpeakingLeavesTheRest ==
  ASSUME Handed, TalkTypes, Answers, NothingSaid, Numbered,
         NEW n \in Message, outbox' = Append(outbox, n), at = "idle" => at' = "idle" \/ queue # <<>>,
         at' = "idle" => at = "idle",
         UNCHANGED <<queue, heard, applyToken, written>>, applyStatus' \in Told, applyId' \in Nat,
         applyToken # 0 => applyStatus' # "none" /\ Follows(applyStatus, applyStatus'),
         n.token # 0 => n.token = applyToken /\ n.says \in {"none", applyStatus'}
  PROVE  TalkTypes' /\ Answers' /\ NothingSaid' /\ Numbered'
<1>1. TalkTypes' /\ Answers' /\ \A t \in Token : Fresh(t) => Fresh(t)'
  BY SayingKeepsOrder
<1>2. NothingSaid'
  BY <1>1, TokensInQueue DEF NothingSaid
<1>3. Numbered'
  BY DEF Numbered
<1> QED
  BY <1>1, <1>2, <1>3

LEMMA OthersSpeak ==
  ASSUME AnswersInv, Scan \/ ScanEnds \/ SetConfig \/ Cancel
  PROVE  TalkTypes' /\ Answers' /\ NothingSaid' /\ Numbered' /\ OwnStatus'
<1>1. queue # <<>> /\ UNCHANGED <<queue, heard, written, applyId, applyToken>>
  BY DEF Scan, ScanEnds, SetConfig, Cancel, Holding, Phone, KeepsRequest
<1>2. Holder = queue[1] /\ 1 \in DOMAIN queue /\ queue[1].cmd # "apply"
  BY <1>1, HeadIsFirst DEF AnswersInv, OwnStatus, Scan, ScanEnds, SetConfig, Cancel, Holding
<1>3. queue[1].id = 0
  BY <1>2 DEF AnswersInv, Numbered
<1>4. PICK says \in {"none", "error"} :
        /\ Notify(says)
        /\ applyStatus' = applyStatus \/ (applyId = 0 /\ applyStatus' = "error")
  BY <1>2, <1>3 DEF Scan, ScanEnds, SetConfig, Cancel, StateUpdate, Error, IsOfApply
<1>5. at' \in {"end", "scan"} /\ (at' = "scan" => queue[1].cmd = "scan")
  BY <1>2 DEF Scan, ScanEnds, SetConfig, Cancel
<1>6. PICK n \in Message : n.token = 0 /\ outbox' = Append(outbox, n)
  <2>1. [query |-> FALSE, says |-> says, token |-> 0] \in Message
    BY DEF Message, Told
  <2> QED
    BY <1>2, <1>4, <2>1 DEF Notify
<1>7. /\ applyStatus' \in Told /\ applyId' \in Nat
      /\ applyToken # 0 => applyStatus' # "none" /\ Follows(applyStatus, applyStatus')
  BY <1>1, <1>4, FollowsOn DEF AnswersInv, TalkTypes, Answers, OwnStatus, Told
<1>8. TalkTypes' /\ Answers' /\ NothingSaid' /\ Numbered'
  BY <1>1, <1>5, <1>6, <1>7, SpeakingLeavesTheRest DEF AnswersInv
<1>9. OwnStatus'
  BY <1>1, <1>5 DEF AnswersInv, OwnStatus
<1> QED
  BY <1>8, <1>9

LEMMA ApplySpeaks ==
  ASSUME AnswersInv, Remote \/ ConnectEnds \/ Fail
  PROVE  TalkTypes' /\ Answers' /\ NothingSaid' /\ Numbered' /\ OwnStatus'
<1>1. queue # <<>> /\ UNCHANGED <<queue, heard, written, applyId, applyToken>>
  BY DEF Remote, ConnectEnds, Fail, Holding, Phone, KeepsRequest
<1>2. /\ Holder = queue[1] /\ 1 \in DOMAIN queue
      /\ Holder.cmd = "apply" /\ Holder.token = applyToken /\ Holder.id = applyId
  BY <1>1, HeadIsFirst DEF AnswersInv, OwnStatus, Remote, ConnectEnds, Fail, Holding
<1>3. IsOfApply(Holder.id)
  BY <1>2 DEF IsOfApply
<1>4. PICK says \in Told :
        /\ Notify(says) /\ says \in {"none", applyStatus'} /\ applyStatus' \in Told \ {"none"}
        /\ at' = "call" => applyStatus' = "CONNECTING"
        /\ Follows(applyStatus, applyStatus') /\ at' \in {"call", "won", "fail", "end"}
  <2>1. CASE Remote
    <3>1. applyStatus = "APPLYING"
      BY <2>1 DEF AnswersInv, OwnStatus, Remote, Holding
    <3> QED
      BY <1>3, <2>1, <3>1, StatusFollows DEF Remote, StateUpdate, Error, Told
  <2>2. CASE ConnectEnds
    <3>1. applyStatus = "CONNECTING"
      BY <2>2 DEF AnswersInv, OwnStatus, ConnectEnds, Holding
    <3> QED
      BY <1>3, <2>2, <3>1, StatusFollows DEF ConnectEnds, StateUpdate, Error, Told
  <2>3. CASE Fail
    <3>1. applyStatus' = applyStatus /\ Notify("none") /\ at' = "end"
      BY <2>3 DEF Fail, StateUpdate, StateAfterFailure
    <3>2. applyToken # 0
      BY <1>2, TokensInQueue DEF AnswersInv
    <3> QED
      BY <3>1, <3>2, FollowsOn DEF AnswersInv, TalkTypes, Answers, Told
  <2> QED
    BY <2>1, <2>2, <2>3
<1>5. PICK n \in Message : n.token = applyToken /\ n.says = says /\ outbox' = Append(outbox, n)
  <2>1. [query |-> FALSE, says |-> says, token |-> applyToken] \in Message
    BY DEF Message, AnswersInv, TalkTypes, Handed
  <2> QED
    BY <1>2, <1>4, <2>1 DEF Notify
<1>6. applyId' \in Nat
  BY <1>1 DEF AnswersInv, TalkTypes
<1>7. TalkTypes' /\ Answers' /\ NothingSaid' /\ Numbered'
  BY <1>1, <1>4, <1>5, <1>6, SpeakingLeavesTheRest DEF AnswersInv
<1>8. OwnStatus'
  BY <1>1, <1>2, <1>4 DEF AnswersInv, OwnStatus
<1> QED
  BY <1>7, <1>8

LEMMA TurnOfAnApply ==
  ASSUME AnswersInv, Apply
  PROVE  TalkTypes' /\ Answers' /\ NothingSaid' /\ Numbered' /\ OwnStatus'
<1>1. queue # <<>> /\ UNCHANGED <<queue, heard, written>> /\ at = "idle"
  BY DEF Apply, Holding, Phone
<1>2. Holder = queue[1] /\ 1 \in DOMAIN queue /\ queue[1].cmd = "apply"
  BY <1>1, HeadIsFirst DEF AnswersInv, Apply
<1>3. /\ queue[1].token \in Token /\ queue[1].token \in 1..written /\ Fresh(queue[1].token)
      /\ queue[1].id \in Nat \ {0}
  <2>1. queue[1].id \in Nat
    <3>1. PICK c \in Commands : c = queue[1]
      BY <1>2, TokensInQueue DEF AnswersInv
    <3>2. c.id \in Id \cup {0}
      BY DEF Commands
    <3>3. Id \cup {0} \subseteq Nat
      BY IdAssumption
    <3>4. c.id \in Nat
      BY <3>2, <3>3
    <3> QED
      BY <3>1, <3>4
  <2> QED
    BY <1>1, <1>2, <2>1, TokensInQueue DEF AnswersInv, NothingSaid, Numbered
<1>4. PICK says \in {"error", "APPLYING"} :
        /\ applyStatus' = says /\ Notify(says)
        /\ at' = IF says = "error" THEN "end" ELSE "remote"
        /\ applyId' = queue[1].id /\ applyToken' = queue[1].token
  BY <1>2 DEF Apply
<1>5. PICK n \in Message : n.token = queue[1].token /\ n.says = says /\ outbox' = Append(outbox, n)
  <2>1. [query |-> FALSE, says |-> says, token |-> queue[1].token] \in Message
    BY <1>3, TokenIsANumber DEF Message, Told
  <2> QED
    BY <1>2, <1>4, <2>1 DEF Notify
<1>6. TalkTypes' /\ Answers' /\ \A t \in Token \ {n.token} : Fresh(t) => Fresh(t)'
  BY <1>1, <1>3, <1>4, <1>5, TurnKeepsOrder DEF AnswersInv
<1>7. NothingSaid'
  <2>1. ASSUME NEW i \in DOMAIN queue, i > 1 PROVE Fresh(queue[i].token)'
    <3>1. queue[i].token # queue[1].token
      BY <1>2, <2>1 DEF AnswersInv, Numbered
    <3> QED
      BY <1>1, <1>5, <1>6, <2>1, <3>1, TokensInQueue DEF AnswersInv, NothingSaid
  <2>2. ASSUME NEW t \in Token, t > written PROVE Fresh(t)'
    <3>1. t # n.token
      BY <1>3, <1>5, <2>2, TokenIsANumber DEF AnswersInv, Handed
    <3> QED
      BY <1>6, <2>2, <3>1 DEF AnswersInv, NothingSaid
  <2> QED
    BY <1>1, <1>4, <2>1, <2>2 DEF NothingSaid
<1>8. Numbered'
  BY <1>1 DEF AnswersInv, Numbered
<1>9. OwnStatus'
  BY <1>1, <1>2, <1>3, <1>4 DEF AnswersInv, OwnStatus
<1> QED
  BY <1>6, <1>7, <1>8, <1>9

LEMMA QueueMovesOn ==
  ASSUME AnswersInv, Release
  PROVE  TalkTypes' /\ Answers' /\ NothingSaid' /\ Numbered' /\ OwnStatus'
<1>1. /\ queue # <<>> /\ queue' = Tail(queue) /\ at' = "idle"
      /\ UNCHANGED <<applyId, applyToken, applyStatus, outbox, written, heard>>
  BY DEF Release, Holding, KeepsRequest
<1>2. PICK m \in Nat \ {0} :
        /\ DOMAIN queue = 1..m /\ DOMAIN queue' = 1..(m - 1)
        /\ \A i \in 1..(m - 1) : i + 1 \in 1..m /\ i + 1 > 1 /\ queue'[i] = queue[i + 1]
  BY <1>1, FrontOfSeq DEF AnswersInv, Handed
<1>3. \A t : Fresh(t)' <=> Fresh(t)
  BY <1>1 DEF Fresh
<1>4. NothingSaid'
  BY <1>1, <1>2, <1>3 DEF AnswersInv, NothingSaid
<1>5. Numbered'
  <2>1. \A i, j \in 1..(m - 1) : i # j => i + 1 # j + 1
    BY <1>2
  <2> QED
    BY <1>1, <1>2, <2>1 DEF AnswersInv, Numbered
<1>6. TalkTypes' /\ Answers'
  BY <1>1 DEF AnswersInv, TalkTypes, Answers, MessageInOrder
<1>7. OwnStatus'
  BY <1>1 DEF AnswersInv, OwnStatus
<1> QED
  BY <1>4, <1>5, <1>6, <1>7

LEMMA WritingIsUnspokenOf ==
  ASSUME AnswersInv, IdsAreOwn, WriteCommand
  PROVE  TalkTypes' /\ Answers' /\ NothingSaid' /\ Numbered' /\ OwnStatus'
<1>1. PICK c \in Commands :
        /\ c.cmd = "apply" <=> c.id # 0
        /\ c.token = written + 1 /\ queue' = Append(queue, c) /\ written' = written + 1
        /\ UNCHANGED <<applyId, applyToken, applyStatus, at, outbox, heard>>
  BY WrittenCommand, IdAssumption DEF AnswersInv, IdsAreOwn
<1>2. PICK m \in Nat :
        /\ DOMAIN queue = 1..m /\ DOMAIN queue' = 1..(m + 1) /\ queue'[m + 1] = c
        /\ \A i \in 1..m : queue'[i] = queue[i]
        /\ queue # <<>> => 1 \in 1..m
  BY <1>1 DEF AnswersInv, Handed
<1>3. written + 1 \in Token /\ written \in Nat
  <2>1. written < MaxCommands
    BY DEF WriteCommand, Write
  <2> QED
    BY <2>1, BoundAssumption DEF AnswersInv, Handed, Token
<1>4. \A t : Fresh(t)' <=> Fresh(t)
  BY <1>1 DEF Fresh
<1>5. \A i \in 1..(m + 1) : i \in 1..m \/ i = m + 1
  BY <1>2
<1>6. NothingSaid'
  <2>1. Fresh(written + 1)
    BY <1>3 DEF AnswersInv, NothingSaid
  <2>2. \A t \in Token : t > written + 1 => t > written
    BY <1>3, TokenIsANumber
  <2> QED
    BY <1>1, <1>2, <1>4, <1>5, <2>1, <2>2 DEF AnswersInv, NothingSaid
<1>7. Numbered'
  <2>1. \A i \in 1..m : queue[i].token \in 1..(written + 1) /\ queue[i].token # written + 1
    BY <1>2, <1>3 DEF AnswersInv, Numbered
  <2>2. written + 1 \in 1..(written + 1)
    BY <1>3
  <2> QED
    BY <1>1, <1>2, <1>5, <2>1, <2>2 DEF AnswersInv, Numbered
<1>8. TalkTypes'
  BY <1>1, <1>3 DEF AnswersInv, TalkTypes, Token
<1>9. Answers'
  <2>1. 1..written \subseteq 1..(written + 1)
    BY <1>3
  <2> QED
    BY <1>1, <2>1 DEF AnswersInv, Answers, MessageInOrder
<1>10. OwnStatus'
  <2>1. queue # <<>> => queue' # <<>> /\ queue'[1] = queue[1]
    BY <1>1, <1>2 DEF AnswersInv, Handed
  <2> QED
    BY <1>1, <2>1 DEF AnswersInv, OwnStatus
<1> QED
  BY <1>6, <1>7, <1>8, <1>9, <1>10

LEMMA QueriesAreAnswered ==
  ASSUME AnswersInv, Query
  PROVE  TalkTypes' /\ Answers' /\ NothingSaid' /\ Numbered' /\ OwnStatus'
<1>1. UNCHANGED <<queue, at, heard, written, applyId, applyToken, applyStatus>>
  BY DEF Query
<1>2. PICK n \in Message :
        /\ outbox' = Append(outbox, n)
        /\ n.token # 0 => n.token = applyToken /\ n.says = applyStatus
  <2>1. PICK t \in 0..written, matched \in BOOLEAN :
          /\ matched => t = applyToken
          /\ outbox' = Append(outbox, [query |-> TRUE, token |-> IF matched THEN t ELSE 0,
                                       says |-> IF matched THEN applyStatus ELSE "none"])
    BY DEF Query
  <2>2. /\ [query |-> TRUE, token |-> t, says |-> applyStatus] \in Message
        /\ [query |-> TRUE, token |-> 0, says |-> "none"] \in Message
    BY DEF Message, Told, AnswersInv, TalkTypes, Handed
  <2> QED
    BY <2>1, <2>2
<1>3. applyToken # 0 => applyStatus # "none" /\ Follows(applyStatus, applyStatus)
  BY FollowsOn DEF AnswersInv, Answers, TalkTypes
<1>4. TalkTypes' /\ Answers' /\ \A t \in Token : Fresh(t) => Fresh(t)'
  BY <1>1, <1>2, <1>3, SayingKeepsOrder DEF AnswersInv, TalkTypes
<1>5. NothingSaid'
  BY <1>1, <1>4, TokensInQueue DEF AnswersInv, NothingSaid
<1> QED
  BY <1>1, <1>4, <1>5 DEF AnswersInv, Numbered, OwnStatus

LEMMA AnswersInit == Init => AnswersInv
<1> SUFFICES ASSUME Init PROVE AnswersInv
  OBVIOUS
<1>1. Handed
  BY InitEstablishes DEF IInv
<1>2. TalkTypes
  BY BoundAssumption DEF Init, TalkTypes, Told
<1> QED
  BY <1>1, <1>2, TokenIsANumber
  DEF Init, AnswersInv, Answers, NothingSaid, Fresh, Numbered, OwnStatus

LEMMA AnswersStep ==
  ASSUME AnswersInv, IdsAreOwn, [Next]_vars
  PROVE  AnswersInv'
<1>1. Handed'
  BY HandedStep DEF AnswersInv
<1>2. TalkTypes' /\ Answers' /\ NothingSaid' /\ Numbered' /\ OwnStatus'
  <2>1. CASE Scan \/ ScanEnds \/ SetConfig \/ Cancel
    BY <2>1, OthersSpeak
  <2>2. CASE Remote \/ ConnectEnds \/ Fail
    BY <2>2, ApplySpeaks
  <2>3. CASE Apply \/ Release \/ WriteCommand \/ Query
    BY <2>3, TurnOfAnApply, QueueMovesOn, WritingIsUnspokenOf, QueriesAreAnswered
  <2>4. CASE Connect
    <3>1. /\ UNCHANGED <<queue, heard, written, applyId, applyToken, applyStatus, outbox>>
          /\ at = "call" /\ at' = "wait"
      BY <2>4 DEF Connect, Holding, Phone
    <3> QED
      BY <3>1 DEF AnswersInv, TalkTypes, Answers, MessageInOrder, NothingSaid, Fresh, Numbered, OwnStatus
  <2>5. CASE UNCHANGED svcVars
    BY <2>5 DEF svcVars, AnswersInv, TalkTypes, Answers, MessageInOrder, NothingSaid, Fresh, Numbered,
                OwnStatus
  <2>6. CASE Deliver
    <3>1. UNCHANGED <<queue, at, written, applyId, applyToken, applyStatus>>
      BY <2>6 DEF Deliver
    <3>2. TalkTypes' /\ Answers' /\ \A t \in Token : Fresh(t) => Fresh(t)'
      BY <2>6, DeliveryKeepsOrder DEF AnswersInv
    <3>3. NothingSaid'
      BY <3>1, <3>2, TokensInQueue DEF AnswersInv, NothingSaid
    <3> QED
      BY <3>1, <3>2, <3>3 DEF AnswersInv, Numbered, OwnStatus
  <2>7. CASE Kill
    BY <2>7, TokenIsANumber
    DEF Kill, AnswersInv, Handed, TalkTypes, Told, Answers, NothingSaid, Fresh, Numbered, OwnStatus
  <2> QED
    BY <2>1, <2>2, <2>3, <2>4, <2>5, <2>6, <2>7 DEF Next, Service, vars
<1> QED
  BY <1>1, <1>2 DEF AnswersInv

(***************************************************************************)
(* Whatever the phone asks and when, and whatever is lost or overtaken by  *)
(* the next command: what it hears of an apply, by notification or as an   *)
(* answer, never goes back, as long as other commands do not use its id.   *)
(***************************************************************************)
THEOREM SpecAnswersNeverTurn ==
  ASSUME IdsAreOwn
  PROVE  Spec => AnswersNeverTurn
<1>1. Init => AnswersInv
  BY AnswersInit
<1>2. AnswersInv /\ [Next]_vars => AnswersInv'
  BY AnswersStep
<1> DEFINE Advance == \A t \in Token : heard'[t] = heard[t] \/ Rank(heard'[t]) > Rank(heard[t])
<1>3. AnswersInv /\ [Next]_vars => [Advance]_vars
  <2>1. ASSUME AnswersInv, Deliver PROVE Advance
    BY <2>1, DeliveryKeepsOrder DEF AnswersInv
  <2>2. ASSUME Next, ~Deliver PROVE UNCHANGED heard
    BY <2>2 DEF Next, svcVars, Service, Phone, Scan, ScanEnds, SetConfig, Cancel, Apply, Remote, Connect,
                ConnectEnds, Fail, Release, WriteCommand, Write, Query, Kill
  <2> QED
    BY <2>1, <2>2
<1> QED
  BY <1>1, <1>2, <1>3, PTL DEF Spec, AnswersNeverTurn
=============================================================================
