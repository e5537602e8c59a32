------------------------ MODULE ProvisioningService ------------------------
(***************************************************************************)
(* ProvisioningService (src/ble/service.py) and the notifications of       *)
(* GattServer (src/ble/gatt_server.py).  A phone writes commands; each is  *)
(* handled by a task of its own; a lock, granted in order, lets one scan,  *)
(* set_config, apply or cancel run at a time, while questions for the      *)
(* result of an apply pass it by.  What the network has to do runs in a    *)
(* worker thread (NetworkApplier).  A step is what happens between two     *)
(* awaits: the service awaits every notification it sends.                 *)
(*                                                                         *)
(* The remote procedure calls, pictures and get_config change no state of  *)
(* the service and are left out; what the main program does with its part  *)
(* of the configuration is reduced to its answer.                          *)
(***************************************************************************)
EXTENDS NetworkApplier, Sequences

CONSTANTS Id,           \* ids the phone gives to apply commands
          MaxCommands,  \* bound: commands written
          MaxQueries    \* bound: questions on their way

ASSUME IdAssumption == Id \subseteq Nat \ {0}
ASSUME BoundAssumption == MaxCommands \in Nat /\ MaxQueries \in Nat

Bad == [dev |-> "bad"]

VARIABLES
  state,        \* _state
  pending,      \* _pending_config
  applyId,      \* _apply_id
  applyToken,   \* _apply_token
  applyStatus,  \* _apply_status, as the step it reports; "none"
  queue,        \* commands accepted, the holder of the lock first
  at,           \* where the holder is
  outbox,       \* notifications waiting for, or holding, _notify_lock
  written,      \* commands written so far
  heard         \* the last the phone was told about each apply, by its token

svcVars == <<state, pending, applyId, applyToken, applyStatus, queue, at, outbox, written, heard>>
vars == <<netVars, svcVars>>

Token == 1..MaxCommands

\* The steps an apply reports, in their order; the last two end it.
Rank(s) == CASE s = "none" -> 0 [] s = "APPLYING" -> 1 [] s = "CONNECTING" -> 2
             [] s \in {"CONNECTED", "error"} -> 3

Init ==
  /\ NetInit
  /\ state = "IDLE"
  /\ pending = NoConfig
  /\ applyId = 0 /\ applyToken = 0 /\ applyStatus = "none"
  /\ queue = <<>> /\ at = "idle" /\ outbox = <<>>
  /\ written = 0
  /\ heard = [t \in Token |-> "none"]

-----------------------------------------------------------------------------
Holder == Head(queue)
Holding(pc) == queue # <<>> /\ at = pc /\ \A i \in DOMAIN outbox : outbox[i].query

\* A notification about the command in hand: what it says matters for an apply only.
Notify(says) ==
  outbox' = Append(outbox, [query |-> FALSE, says |-> says,
                            token |-> IF Holder.cmd = "apply" THEN Holder.token ELSE 0])

\* Faulty variant (mutation runs): whoever reports an error, it is kept.
KeepsAll(id) == TRUE
IsOfApply(id) == id = applyId

\* _state_update() and _error().
StateUpdate(s) ==
  /\ state' = s
  /\ applyStatus' = IF IsOfApply(Holder.id) /\ s \in {"APPLYING", "CONNECTING", "CONNECTED"}
                    THEN s ELSE applyStatus
  /\ Notify(IF s \in {"IDLE", "SCANNING"} THEN "none" ELSE s)
Error ==
  /\ applyStatus' = IF IsOfApply(Holder.id) THEN "error" ELSE applyStatus
  /\ Notify("error")
  /\ UNCHANGED state

KeepsRequest == UNCHANGED <<applyId, applyToken>>
Phone == UNCHANGED <<queue, written, heard>>

\* handle(): the lock comes free for the next command.
Scan ==
  /\ Holding("idle") /\ Holder.cmd = "scan"
  /\ IF state \in {"APPLYING", "CONNECTING"} THEN Error /\ at' = "end"
     ELSE StateUpdate("SCANNING") /\ at' = "scan"
  /\ KeepsRequest /\ Phone /\ UNCHANGED <<netVars, pending>>

\* The worker comes back; results and state are two notifications, the first of
\* which changes nothing and is left out.
ScanEnds ==
  /\ Holding("scan")
  /\ \/ StateUpdate("IDLE")
     \/ "scan" \in Faults /\ Error
  /\ at' = "end"
  /\ KeepsRequest /\ Phone /\ UNCHANGED <<netVars, pending>>

\* Faulty variant (mutation runs): a configuration refused leaves the one before it.
BadKept == pending
BadCleared == NoConfig

SetConfig ==
  /\ Holding("idle") /\ Holder.cmd = "set"
  /\ IF Holder.conf = Bad THEN pending' = BadCleared /\ Error
     ELSE pending' = Holder.conf /\ StateUpdate("IDLE")
  /\ at' = "end"
  /\ KeepsRequest /\ Phone /\ UNCHANGED netVars

Cancel ==
  /\ Holding("idle") /\ Holder.cmd = "cancel"
  /\ IF state = "IDLE" THEN pending' = NoConfig /\ StateUpdate("IDLE")
     ELSE Error /\ UNCHANGED pending
  /\ at' = "end"
  /\ KeepsRequest /\ Phone /\ UNCHANGED netVars

Apply ==
  /\ Holding("idle") /\ Holder.cmd = "apply"
  /\ applyId' = Holder.id /\ applyToken' = Holder.token
  /\ LET says == IF pending = NoConfig THEN "error" ELSE "APPLYING" IN
       /\ applyStatus' = says /\ Notify(says)
       /\ state' = IF says = "error" THEN state ELSE says
       /\ at' = IF says = "error" THEN "end" ELSE "remote"
  /\ Phone /\ UNCHANGED <<netVars, pending>>

\* The main program takes its part, refuses it, or cannot be reached.
Remote ==
  /\ Holding("remote")
  /\ \/ /\ pending.dev = "none"
        /\ StateUpdate("CONNECTED") /\ at' = "won"
     \/ /\ pending.dev # "none"
        /\ StateUpdate("CONNECTING") /\ at' = "call"
     \/ Error /\ at' = "fail"
  /\ KeepsRequest /\ Phone /\ UNCHANGED <<netVars, pending>>

Connect ==
  /\ Holding("call")
  /\ call' = Started(pending) /\ at' = "wait"
  /\ Phone
  /\ UNCHANGED <<profiles, active, ready, uuids, state, pending, applyId, applyToken,
                 applyStatus, outbox>>

ConnectEnds ==
  /\ Holding("wait") /\ call.pc = "done"
  /\ IF call.res = "ok" THEN StateUpdate("CONNECTED") /\ at' = "won"
     ELSE Error /\ at' = "fail"
  /\ call' = NoCall
  /\ KeepsRequest /\ Phone /\ UNCHANGED <<profiles, active, ready, uuids, pending>>

\* Faulty variant (mutation runs): the state stays.
StateStays == state
StateAfterFailure == "IDLE"

\* After an error, whether returned or raised, the state goes back.
Fail ==
  /\ Holding("fail")
  /\ StateUpdate(StateAfterFailure)
  /\ at' = "end"
  /\ KeepsRequest /\ Phone /\ UNCHANGED <<netVars, pending>>

\* The lock is released.
Release ==
  /\ \/ Holding("end") /\ UNCHANGED pending
     \/ Holding("won") /\ pending' = NoConfig
  /\ queue' = Tail(queue) /\ at' = "idle"
  /\ KeepsRequest
  /\ UNCHANGED <<netVars, state, applyStatus, outbox, written, heard>>

-----------------------------------------------------------------------------
(***************************************************************************)
(* The phone.  The token of a command is its number.  An apply remembers,  *)
(* for the properties, the last configuration written before it.           *)
(***************************************************************************)
LastSet(c) ==
  LET sets == {i \in DOMAIN queue : queue[i].cmd = "set"}
  IN  \/ sets = {} /\ c = pending
      \/ \E i \in sets : c = queue[i].conf /\ \A j \in sets : j <= i

Write(cmd, id, conf) ==
  /\ written < MaxCommands
  /\ written' = written + 1
  /\ queue' = Append(queue, [cmd |-> cmd, id |-> id, conf |-> conf, token |-> written + 1])
  /\ UNCHANGED <<netVars, state, pending, applyId, applyToken, applyStatus, at, outbox, heard>>

WriteCommand ==
  \/ \E id \in Id, c \in Config \cup {NoConfig, Bad} : LastSet(c) /\ Write("apply", id, c)
  \/ \E id \in {0} \cup IF "same_id" \in Faults THEN Id ELSE {} :
       \/ Write("scan", id, NoConfig)
       \/ Write("cancel", id, NoConfig)
       \/ \E c \in Config \cup {Bad} : Write("set", id, c)

\* get_provisioning_state: the status is copied before its turn to be sent; to
\* another id or token the answer is UNKNOWN.
Query ==
  \E t \in 0..written, id \in Id :
    /\ Len(SelectSeq(outbox, LAMBDA n : n.query)) < MaxQueries
    /\ LET matched == t = applyToken /\ id = applyId IN
         outbox' = Append(outbox, [query |-> TRUE, token |-> IF matched THEN t ELSE 0,
                                   says |-> IF matched THEN applyStatus ELSE "none"])
    /\ UNCHANGED <<netVars, state, pending, applyId, applyToken, applyStatus, queue, at,
                   written, heard>>

\* A notification goes out, and arrives unless the phone is not listening.
Deliver ==
  /\ outbox # <<>>
  /\ LET n == Head(outbox) IN
       \/ heard' = IF n.token = 0 \/ n.says = "none" THEN heard
                   ELSE [heard EXCEPT ![n.token] = n.says]
       \/ "lose" \in Faults /\ UNCHANGED heard
  /\ outbox' = Tail(outbox)
  /\ UNCHANGED <<netVars, state, pending, applyId, applyToken, applyStatus, queue, at, written>>

\* The process is killed and started again; NetworkManager lives on.
Kill ==
  /\ "kill" \in Faults
  /\ call # NoCall
  /\ state' = "IDLE" /\ pending' = NoConfig
  /\ applyId' = 0 /\ applyToken' = 0 /\ applyStatus' = "none"
  /\ queue' = <<>> /\ at' = "idle" /\ outbox' = <<>>
  /\ call' = NoCall
  /\ UNCHANGED <<profiles, active, ready, uuids, written, heard>>

Service ==
  \/ Scan \/ ScanEnds \/ SetConfig \/ Cancel
  \/ Apply \/ Remote \/ Connect \/ ConnectEnds \/ Fail \/ Release

Next ==
  \/ Service
  \/ Network /\ UNCHANGED svcVars
  \/ WriteCommand \/ Query \/ Deliver \/ Kill

Spec == Init /\ [][Next]_vars

\* Workers end (every command has a timeout) and notifications go out.
FairSpec ==
  /\ Spec
  /\ WF_vars(Service)
  /\ WF_vars(Applier /\ UNCHANGED svcVars)
  /\ WF_vars(Deliver)

-----------------------------------------------------------------------------
TypeOK ==
  /\ NetTypeOK
  /\ state \in {"IDLE", "SCANNING", "APPLYING", "CONNECTING", "CONNECTED"}
  /\ pending \in Config \cup {NoConfig}
  /\ applyStatus \in {"none", "APPLYING", "CONNECTING", "CONNECTED", "error"}
  /\ call # NoCall <=> at = "wait"
  /\ at # "idle" => queue # <<>>

(***************************************************************************)
(* CONNECTED is said of an apply only when the device it is about has an   *)
(* address, through a profile with the configuration written last before   *)
(* that apply: not with an older one under the same name, and not with one *)
(* that was replaced or refused in between.                                *)
(***************************************************************************)
ConnectedIsRequested ==
  [][ at # "won" /\ at' = "won" =>
        LET c == Holder.conf IN
          c.dev # "none" => c \in Config /\ ready[c.dev] /\ active[c.dev].conf = c ]_vars

(***************************************************************************)
(* What the phone is told of an apply, by notification or on asking, never *)
(* goes back: an answer is not older than what was said before it, and     *)
(* once success or failure is told, it stays so.                           *)
(***************************************************************************)
AnswersNeverTurn ==
  [][ \A t \in Token : heard'[t] = heard[t] \/ Rank(heard'[t]) > Rank(heard[t]) ]_vars

(***************************************************************************)
(* Every command accepted is done with in the end, whatever fails in it,   *)
(* and then the service is at rest: no command after it is refused as busy *)
(* over an apply that is no longer there.                                  *)
(***************************************************************************)
Answered == (queue # <<>>) ~> (queue = <<>> /\ state \notin {"APPLYING", "CONNECTING"})

(***************************************************************************)
(* Section 7 of the protocol: cancel leads from every state that is not    *)
(* final back to IDLE.                                                     *)
(***************************************************************************)
CancelLeadsToIdle ==
  [][ Cancel /\ state # "CONNECTED" => state' = "IDLE" ]_vars

(***************************************************************************)
(* Between commands at most one ethernet profile of the program's making   *)
(* is there: NetworkManager prefers any of them to every other profile.    *)
(***************************************************************************)
NothingLeftBehind ==
  queue = <<>> => Cardinality(Named("provisioned-ethernet")) <= 1

(***************************************************************************)
(* The device keeps a connection: an attempt that fails does not leave the *)
(* wireless device with fewer profiles to connect by than it had.          *)
(***************************************************************************)
WifiSurvivesFailure ==
  call.pc = "done" /\ call.res # "ok" /\ call.conf.dev = "wlan" =>
    {p \in call.before : DevOf(p) = "wlan"} \subseteq profiles
=============================================================================
