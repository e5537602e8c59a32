---------------------------- MODULE RequestFrames ----------------------------
(***************************************************************************)
(* How the commands of the phones get into the BLE service: the frames     *)
(* written to the REQUEST characteristic piece by piece, the decoder that  *)
(* all connections share (FrameDecoder of src/ble/protocol.py), and the    *)
(* watchdog that forgets a frame left half (src/ble/gatt_server.py).       *)
(*                                                                         *)
(* Piece k of command n is <<n, k>>; the first one is the header with the  *)
(* length, the last one the CRC.  BLE keeps the order of what it delivers  *)
(* and spoils nothing, but a phone may vanish in the middle of a frame.    *)
(***************************************************************************)
EXTENDS Naturals, Sequences, SequencesExt, FiniteSets

CONSTANTS Handset,    \* phones
          Size,       \* the commands they will write, as the number of pieces of each
          Deceptive,  \* payload with a byte like the magic one: the length
                      \*   that seems to follow
          MaxFrame,   \* MAX_FRAME_PAYLOAD
          MtuTold     \* whether BlueZ tells the MTU with a write

ASSUME SizeAssumption == Size \in Seq(2..MaxFrame)
ASSUME DeceptiveAssumption == \A t \in DOMAIN Deceptive : Deceptive[t] \in Nat
ASSUME MtuToldAssumption == MtuTold \in BOOLEAN

NoCommand == 0

VARIABLES
  connected,   \* the phones BlueZ has a connection to
  writing,     \* what each phone has yet to write of its command
  begun,       \* commands begun so far
  decoder,     \* _decoder: the pieces it holds
  dispatched,  \* the commands handed to the service, in order
  watchdog,    \* "asleep", "asking" BlueZ, "told" what it answered
  answer,      \* the phones it says are connected
  seen,        \* _peer_seen since the question
  clean        \* history: the command that has had the decoder to itself so far

requestVars == <<connected, writing, begun, decoder, dispatched, watchdog, answer, seen, clean>>

RequestInit ==
  /\ connected = {} /\ writing = [p \in Handset |-> <<>>] /\ begun = 0
  /\ decoder = <<>> /\ dispatched = <<>>
  /\ watchdog = "asleep" /\ answer = {} /\ seen = {}
  /\ clean = NoCommand

-----------------------------------------------------------------------------
(* FrameDecoder *)

Pieces(n) == [k \in 1..Size[n] |-> <<n, k>>]
Command == 1..Len(Size)

\* The length declared where a frame may begin; 0 where there is no magic byte.
Declared(t) == IF t[2] = 1 THEN Size[t[1]]
               ELSE IF t \in DOMAIN Deceptive THEN Deceptive[t] ELSE 0

Leads(b, n) == IsPrefix(Pieces(n), b)
After(b, n) == SubSeq(b, n + 1, Len(b))

\* _try_parse_one() where no frame leads: what it consumes.
Skipped(b) ==
  LET magics == {i \in DOMAIN b : Declared(b[i]) # 0}
      first  == CHOOSE i \in magics : \A j \in magics : i <= j
  IN  IF b = <<>> THEN 0
      ELSE IF magics = {} THEN Len(b)
      ELSE IF first # 1 THEN first - 1
      ELSE IF Declared(b[1]) > MaxFrame THEN 1
      ELSE IF Len(b) < Declared(b[1]) THEN 0
      ELSE Declared(b[1])

\* feed(): frames are taken off until one attempt fails.
Fed[b \in Seq(Command \X Nat)] ==
  IF \E n \in Command : Leads(b, n)
  THEN LET n == b[1][1]
           r == Fed[After(b, Size[n])]
       IN  [out |-> <<n>> \o r.out, left |-> r.left]
  ELSE [out |-> <<>>, left |-> After(b, Skipped(b))]

-----------------------------------------------------------------------------
(* The phones *)

Connects(p) ==
  /\ p \notin connected
  /\ connected' = connected \cup {p}
  /\ UNCHANGED <<writing, begun, decoder, dispatched, watchdog, answer, seen, clean>>

Vanishes(p) ==
  /\ p \in connected
  /\ connected' = connected \ {p}
  /\ writing' = [writing EXCEPT ![p] = <<>>]
  /\ clean' = IF writing[p] # <<>> /\ writing[p][1][1] = clean THEN NoCommand ELSE clean
  /\ UNCHANGED <<begun, decoder, dispatched, watchdog, answer, seen>>

\* _observe_gatt_options() and _write(): the next k pieces of the command in hand, or
\* of a new one.
Writes(p, k) ==
  LET new   == writing[p] = <<>>
      n     == IF new THEN begun + 1 ELSE writing[p][1][1]
      rest  == IF new THEN Pieces(n) ELSE writing[p]
      fed   == Fed[decoder \o SubSeq(rest, 1, k)]
  IN  /\ p \in connected
      /\ n \in Command /\ k \in 1..Len(rest)
      /\ begun' = IF new THEN n ELSE begun
      /\ writing' = [writing EXCEPT ![p] = After(rest, k)]
      /\ decoder' = fed.left
      /\ dispatched' = dispatched \o fed.out
      /\ seen' = IF MtuTold /\ watchdog # "asleep" THEN seen \cup {p} ELSE seen
      /\ clean' = IF k = Len(rest) THEN NoCommand
                  ELSE IF new /\ decoder = <<>> THEN n
                  ELSE IF clean = n THEN n ELSE NoCommand
      /\ UNCHANGED <<connected, watchdog, answer>>

-----------------------------------------------------------------------------
(* _any_central_connected(), from the advertising watchdog every few seconds *)

Asks ==
  /\ watchdog = "asleep"
  /\ watchdog' = "asking" /\ seen' = {}
  /\ UNCHANGED <<connected, writing, begun, decoder, dispatched, answer, clean>>

BlueZAnswers ==
  /\ watchdog = "asking"
  /\ watchdog' = "told" /\ answer' = connected
  /\ UNCHANGED <<connected, writing, begun, decoder, dispatched, seen, clean>>

\* Faulty variant (mutation runs): the answer is taken as it is.
AsAnswered == answer
\* Whoever has written since the question is there, whatever the answer says.
StillThere == answer \cup seen

Concludes ==
  /\ watchdog = "told"
  /\ watchdog' = "asleep" /\ answer' = {} /\ seen' = {}
  /\ decoder' = IF StillThere = {} THEN <<>> ELSE decoder
  /\ UNCHANGED <<connected, writing, begun, dispatched, clean>>

\* The question fails or takes too long.
GoesUnanswered ==
  /\ watchdog \in {"asking", "told"}
  /\ watchdog' = "asleep" /\ answer' = {} /\ seen' = {}
  /\ UNCHANGED <<connected, writing, begun, decoder, dispatched, clean>>

RequestNext ==
  \/ \E p \in Handset : \/ Connects(p) \/ Vanishes(p)
                        \/ \E k \in 1..MaxFrame : Writes(p, k)
  \/ Asks \/ BlueZAnswers \/ Concludes \/ GoesUnanswered

RequestSpec == RequestInit /\ [][RequestNext]_requestVars

-----------------------------------------------------------------------------
RequestTypeOK ==
  /\ connected \subseteq Handset /\ {answer, seen} \subseteq SUBSET Handset
  /\ writing \in [Handset -> Seq(Command \X Nat)]
  /\ begun \in 0..Len(Size) /\ clean \in Command \cup {NoCommand}
  /\ decoder \in Seq(Command \X Nat) /\ dispatched \in Seq(Command)
  /\ watchdog \in {"asleep", "asking", "told"}

\* A command that met nothing left over and nobody else's pieces is dispatched by
\* the write of its last piece: the watchdog never takes a phone that connected
\* while it was asking for one that is gone, and resets the decoder under it.
CommandsGetThrough ==
  [][\A p \in Handset :
       /\ writing[p] # <<>> /\ writing'[p] = <<>> /\ p \in connected'
       /\ clean = writing[p][1][1]
       => dispatched' = Append(dispatched, clean)]_requestVars

(***************************************************************************)
(* What does not hold (provisioning_divergences.cfg)                       *)
(***************************************************************************)
\* gatt_server.py:352: a frame left half by a broken connection does not spoil the
\* next connection.
HalfFrameIsForgotten ==
  [][\A p \in Handset : Connects(p) /\ connected = {} => decoder = <<>>]_requestVars

\* protocol.py:95: after a bad frame or garbage the decoder goes on with the next
\* magic byte: a whole frame does not wait in it for another write.
NothingWaits == ~\E n \in Command : Leads(decoder, n)
=============================================================================
