------------------------------ MODULE SerialLine ------------------------------
(***************************************************************************)
(* How the bytes of the serial line become the frames that SerialManager   *)
(* is given: _receive_loop() and _parse_response() of                      *)
(* src/serial_port/serial_helper.py.  The line has noise, loses and spoils *)
(* bytes, and is read in whatever pieces have arrived.                     *)
(*                                                                         *)
(* Byte k of the reply n is <<n, k>>; a spoilt byte or one of noise is of  *)
(* no reply, so that the CRC of what it is taken for does not match.       *)
(***************************************************************************)
EXTENDS Naturals, Sequences, SequencesExt, FiniteSetsExt

CONSTANTS Size,        \* the replies of the devices, as the number of bytes of each
          MaxNoise,    \* bound: bytes of noise
          MaxBuffer,   \* 256
          KeptBytes    \* 128

\* The longest reply has 9 bytes.
ASSUME SizeAssumption == Size \in Seq(1..KeptBytes)
ASSUME BufferAssumption == MaxNoise \in Nat /\ MaxBuffer \in Nat /\ KeptBytes \in 1..MaxBuffer

Noise == <<0, 0>>

VARIABLES
  line,      \* bytes not read yet
  buffer,    \* those read and not parsed
  noises,    \* bytes of noise so far
  sent,      \* replies so far
  whole,     \* history: those that reached the line as they were sent
  received   \* the replies given to _on_data_received, in order

lineVars == <<line, buffer, noises, sent, whole, received>>

LineInit ==
  /\ line = <<>> /\ buffer = <<>>
  /\ noises = 0 /\ sent = 0
  /\ whole = {} /\ received = <<>>

Bytes(n) == [k \in 1..Size[n] |-> <<n, k>>]
Arrives(bytes) == line' = line \o bytes

-----------------------------------------------------------------------------
(* The devices and the line *)

Replies ==
  /\ sent < Len(Size)
  /\ sent' = sent + 1
  /\ Arrives(Bytes(sent'))
  /\ whole' = whole \cup {sent'}
  /\ UNCHANGED <<buffer, noises, received>>

\* One byte of it is lost or spoilt.
RepliesBadly ==
  /\ sent < Len(Size)
  /\ sent' = sent + 1
  /\ \E k \in 1..Size[sent'] :
       \/ Arrives(RemoveAt(Bytes(sent'), k))
       \/ Arrives([Bytes(sent') EXCEPT ![k] = Noise])
  /\ UNCHANGED <<buffer, noises, whole, received>>

Rustles ==
  /\ noises < MaxNoise
  /\ noises' = noises + 1
  /\ Arrives(<<Noise>>)
  /\ UNCHANGED <<buffer, sent, whole, received>>

-----------------------------------------------------------------------------
(* The receiver *)

\* _parse_frame_at(): a frame that is complete and passes the CRC begins there.
FrameAt(b, i) ==
  LET n == b[i][1]
  IN  /\ n # 0
      /\ i + Size[n] - 1 <= Len(b)
      /\ SubSeq(b, i, i + Size[n] - 1) = Bytes(n)

\* Faulty variant (mutation runs): frames are looked for at the front only.
OnlyInFront(b) == {i \in {1} \cap DOMAIN b : FrameAt(b, i)}
\* _parse_response(), again and again: what comes before a frame is thrown away.
FramesIn(b) == {i \in DOMAIN b : FrameAt(b, i)}

Ascending(S) == CHOOSE s \in [1..Cardinality(S) -> S] : \A i, j \in DOMAIN s : i < j => s[i] < s[j]
ParseResponse(b) == LET at == Ascending(FramesIn(b)) IN [j \in DOMAIN at |-> b[at[j]][1]]
Remaining(b) ==
  IF FramesIn(b) = {} THEN b
  ELSE LET last == Max(FramesIn(b)) IN SubSeq(b, last + Size[b[last][1]], Len(b))

\* A buffer that only grows is cut to its end.
Trimmed(b) == IF Len(b) > MaxBuffer THEN SubSeq(b, Len(b) - KeptBytes + 1, Len(b)) ELSE b

\* _receive_loop(): the first k bytes of the line have arrived.
Read(k) ==
  LET b == buffer \o SubSeq(line, 1, k)
  IN  /\ line' = SubSeq(line, k + 1, Len(line))
      /\ buffer' = Trimmed(Remaining(b))
      /\ received' = received \o ParseResponse(b)
      /\ UNCHANGED <<noises, sent, whole>>

\* close() and open(): what is under way is lost.
Under(n) == \E k \in 1..Size[n] : <<n, k>> \in Range(line) \cup Range(buffer)
Reopen ==
  /\ line' = <<>> /\ buffer' = <<>>
  /\ whole' = {n \in whole : ~Under(n)}
  /\ UNCHANGED <<noises, sent, received>>

LineNext ==
  \/ Replies \/ RepliesBadly \/ Rustles
  \/ \E k \in DOMAIN line : Read(k)
  \/ Reopen

LineSpec == LineInit /\ [][LineNext]_lineVars

-----------------------------------------------------------------------------
LineTypeOK ==
  /\ {line, buffer} \subseteq Seq((0..Len(Size)) \X Nat)
  /\ noises \in 0..MaxNoise /\ sent \in 0..Len(Size)
  /\ whole \subseteq 1..sent /\ received \in Seq(1..sent)
  /\ Len(buffer) <= MaxBuffer

\* Whatever is before it, behind it or missing around it, and however the line is
\* cut into reads, a reply that was not disturbed is received with its last byte,
\* once, in its turn and with no other: also when noise has filled the buffer.
RepliesGetThrough ==
  /\ Range(received) = {n \in whole : \A k \in DOMAIN line : line[k][1] # n}
  /\ \A i, j \in DOMAIN received : i < j => received[i] < received[j]
=============================================================================
