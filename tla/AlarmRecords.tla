---------------------------- MODULE AlarmRecords ----------------------------
(***************************************************************************)
(* The way of an alarm record to the server (src/api/websocket.py,         *)
(* offline_cache.py and the resending of websocket_client.py): sent while  *)
(* connected, cached otherwise, and resent by a task of its own after each *)
(* connection.  A resend works on a copy of the cache, sleeps between two  *)
(* records, and may still be under way when the next connection starts     *)
(* another.  What makes connections come and go is RemoteConnection.       *)
(***************************************************************************)
EXTENDS Naturals, FiniteSets, Sequences, SequencesExt

CONSTANTS Record,     \* the alarm records of a behaviour
          CacheSize,  \* max_size
          Slot,       \* room for resends (bound on how many are under way)
          Faults      \* what may go wrong besides lost connections

ASSUME CacheSizeAssumption == CacheSize \in Nat \ {0}
ASSUME FaultsAssumption ==
  Faults \subseteq {"broken",  \* a socket that counts as connected refuses a record
                    "crash"}   \* the program is killed and started again

VARIABLES
  online,   \* remote_ws_client.is_connected
  cache,    \* OfflineCache._queue; its file is rewritten under the same lock
  resends,  \* the _resend_cached_messages tasks: messages still to send, failed
  raised,   \* history: the records uploaded, in order
  sent,     \* history: the records a socket has taken
  excused,  \* history: the records whose loss is accounted for
  smooth    \* history: the last connection came up with no resend under way, and
            \*   its socket has refused no record

histories == <<raised, sent, excused, smooth>>
vars == <<online, cache, resends, histories>>

Idle == [phase |-> "idle", messages |-> <<>>, failed |-> <<>>]

\* Faulty variant (mutation runs): a connection starts no resend.
FreshNever == Idle
\* The task that connect() creates.
Fresh == [Idle EXCEPT !.phase = "fresh"]

Init ==
  /\ online = FALSE
  /\ cache = <<>>
  /\ resends = [i \in Slot |-> Idle]
  /\ raised = <<>>
  /\ sent = {}
  /\ excused = {}
  /\ smooth = TRUE

InHand(i) == Range(resends[i].messages) \cup Range(resends[i].failed)
Hands     == UNION {InHand(i) : i \in Slot}
Sending   == {i \in Slot : resends[i].phase = "sending"}

\* Records put into a cache of which one of these resends has a copy.
AtRisk(others, records) == IF others = {} THEN {} ELSE records

\* OfflineCache.push: a full queue drops its oldest record.
Push(queue, r) ==
  Append(IF Len(queue) >= CacheSize THEN Tail(queue) ELSE queue, r)

\* OfflineCache.push_back: what does not fit stays out.
PushBack(queue, messages) ==
  LET all == queue \o messages
  IN  IF Len(all) > CacheSize THEN SubSeq(all, 1, CacheSize) ELSE all

-----------------------------------------------------------------------------
\* upload_alarm_record while connected; what send() returns is not looked at.
UploadOnline(r) ==
  /\ online /\ r \notin Range(raised)
  /\ raised' = Append(raised, r)
  /\ \/ sent' = sent \cup {r} /\ UNCHANGED excused
     \/ "broken" \in Faults /\ excused' = excused \cup {r} /\ UNCHANGED sent
  /\ UNCHANGED <<online, cache, resends, smooth>>

UploadOffline(r) ==
  /\ ~online /\ r \notin Range(raised)
  /\ raised' = Append(raised, r)
  /\ cache' = Push(cache, r)
  /\ excused' = excused \cup (Range(cache) \ Range(cache')) \cup AtRisk(Sending, {r})
  /\ UNCHANGED <<online, resends, sent, smooth>>

\* connect() ends by creating the task that resends.  Bound: a slot is free.
Connect(i) ==
  /\ ~online /\ resends[i].phase = "idle"
  /\ online' = TRUE
  /\ resends' = [resends EXCEPT ![i] = Fresh]
  /\ smooth' = \A j \in Slot : resends[j].phase = "idle"
  /\ UNCHANGED <<cache, raised, sent, excused>>

Disconnect ==
  /\ online
  /\ online' = FALSE
  /\ UNCHANGED <<cache, resends, histories>>

\* The task looks at the cache (peek_all) and is done if it is empty.
ResendBegin(i) ==
  /\ resends[i].phase = "fresh"
  /\ resends' = [resends EXCEPT ![i] =
                   IF cache = <<>> THEN Idle
                   ELSE [phase |-> "sending", messages |-> cache, failed |-> <<>>]]
  /\ UNCHANGED <<online, cache, histories>>

\* Faulty variant (mutation runs): a record that was not sent is forgotten.
FailForgets(i) ==
  /\ resends' = [resends EXCEPT ![i].messages = Tail(@)]
  /\ UNCHANGED <<cache, sent>>

\* One record could not be sent: it is put aside.
Fail(i) ==
  /\ resends' = [resends EXCEPT ![i].messages = Tail(@),
                                ![i].failed = Append(@, Head(resends[i].messages))]
  /\ UNCHANGED <<cache, sent>>

\* One record is sent, and the first success empties the cache (pop_all).
Succeed(i) ==
  /\ sent' = sent \cup {Head(resends[i].messages)}
  /\ cache' = <<>>
  /\ resends' = [resends EXCEPT ![i].messages = Tail(@)]

ResendOne(i) ==
  /\ i \in Sending /\ resends[i].messages # <<>>
  /\ \/ online /\ Succeed(i) /\ UNCHANGED smooth
     \/ ~online /\ Fail(i) /\ UNCHANGED smooth
     \/ online /\ "broken" \in Faults /\ Fail(i) /\ smooth' = FALSE
  /\ UNCHANGED <<online, raised, excused>>

\* Faulty variant (mutation runs): the failed records go behind what is there.
LeftoversBehind(i) == PushBack(cache, resends[i].failed)
\* After the last record the cache is cleared and the failed ones are put back.
Leftovers(i) == PushBack(<<>>, resends[i].failed)

ResendEnd(i) ==
  /\ i \in Sending /\ resends[i].messages = <<>>
  /\ cache' = Leftovers(i)
  /\ resends' = [resends EXCEPT ![i] = Idle]
  /\ excused' = excused \cup AtRisk(Sending \ {i}, Range(resends[i].failed))
  /\ UNCHANGED <<online, raised, sent, smooth>>

\* The cache comes back from its file (_load_from_file); tasks do not.
Crash ==
  /\ "crash" \in Faults
  /\ online' = FALSE
  /\ resends' = [i \in Slot |-> Idle]
  /\ excused' = excused \cup Hands
  /\ UNCHANGED <<cache, raised, sent, smooth>>

-----------------------------------------------------------------------------
Resend == \E i \in Slot : ResendBegin(i) \/ ResendOne(i) \/ ResendEnd(i)

Next ==
  \/ \E r \in Record : UploadOnline(r) \/ UploadOffline(r)
  \/ \E i \in Slot : Connect(i)
  \/ Disconnect \/ Resend \/ Crash

Spec == Init /\ [][Next]_vars

\* The event loop runs its tasks; nobody owes a connection.
FairSpec ==
  Spec /\ \A i \in Slot : WF_vars(ResendBegin(i) \/ ResendOne(i) \/ ResendEnd(i))

-----------------------------------------------------------------------------
(***************************************************************************)
(* Properties                                                              *)
(***************************************************************************)
Queues == BoundedSeq(Record, CacheSize)

TypeOK ==
  /\ online \in BOOLEAN
  /\ cache \in Queues
  /\ resends \in [Slot -> [phase: {"idle", "fresh", "sending"},
                           messages: Queues, failed: Queues]]
  /\ Range(raised) \subseteq Record /\ IsInjective(raised)
  /\ sent \subseteq Record /\ excused \subseteq Record /\ smooth \in BOOLEAN

\* docs/websocket_protocol.md: the records raised while disconnected are cached
\* and resent.
NothingLost == Range(raised) \subseteq sent \cup Range(cache) \cup Hands

\* A record is lost for one of four reasons only: the cache was full, a resend
\* was under way when it was cached or put back, the socket broke under it, or
\* the program was killed in the middle of a resend.
LossIsAccounted == Range(raised) \subseteq sent \cup Range(cache) \cup Hands \cup excused

\* queue lists records in the order in which they were raised.
Ordered(queue) ==
  \A j, k \in DOMAIN queue :
    j < k => \E a, b \in DOMAIN raised :
               a < b /\ raised[a] = queue[j] /\ raised[b] = queue[k]

\* What waits, in the cache and in every resend, waits in the order in which it
\* was raised and once, so that the oldest is what a full cache drops.
InOrder ==
  /\ Ordered(cache)
  /\ \A i \in Slot : Ordered(resends[i].messages) /\ Ordered(resends[i].failed)

\* A connection that stays empties the cache, if it came up with no resend of an
\* older one under way and its socket refuses nothing.
CacheDrains == <>[](online /\ smooth) => <>[](cache = <<>>)

\* The same with resends that may outlive their connection.
CacheAlwaysDrains == <>[]online => <>[](cache = <<>>)
=============================================================================
