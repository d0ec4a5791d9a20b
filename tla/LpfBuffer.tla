------------------------------ MODULE LpfBuffer ------------------------------
(***************************************************************************)
(* Length prefix framing on one stream of LpfTransport.  The sender writes *)
(* each message as a prefix of prefix_length bytes, its length big-endian, *)
(* and its bytes (send, cut_through_send_start and _bytes).  The receiver  *)
(* is handed the bytes of the stream in pieces cut anywhere, and finds the *)
(* messages again: a StoreThenForwardBuffer hands over whole messages, a   *)
(* CutThroughBuffer announces a message, passes its bytes on as they come, *)
(* and announces its end.  A flush of the stream discards the buffer.      *)
(* A byte is its position in what was written: what is handed over can be  *)
(* compared with what was sent.  A piece is taken one recursive call of    *)
(* did_recv at a time.                                                     *)
(***************************************************************************)
EXTENDS Integers, Sequences, FiniteSets, SequencesExt

CONSTANTS
  prefix_length,   \* 8
  Radix,           \* 256
  MaxLength,       \* 5000000: longer messages close the connection
  Lengths,         \* lengths of messages the sender may write
  MaxMessages      \* bound: messages on the stream

Power[k \in 0 .. prefix_length] == IF k = 0 THEN 1 ELSE Radix * Power[k - 1]
LengthsAssumption ==
  /\ prefix_length \in Nat \ {0} /\ Radix \in Nat \ {0, 1}
  /\ MaxLength \in Nat /\ MaxMessages \in Nat
  /\ Lengths \subseteq 0 .. Power[prefix_length] - 1
ASSUME LengthsAssumption

VARIABLES
  sent,      \* the lengths of the messages written, in order
  kind,      \* "store" (stf_buffers) or "cut" (cut_through_buffers)
  read,      \* bytes of the stream handed to did_recv, or flushed
  pending,   \* how many of them did_recv has still to take
  buffer,    \* the buffer of the stream
  current,   \* the bytes it took of a message: kept in buf, or passed on
  handed,    \* the messages that ended
  flushed,   \* the messages a flush cut short
  closed     \* whether the connection is closed: "long", a message was too long

bufferVars == <<sent, kind, read, pending, buffer, current, handed, flushed, closed>>

-----------------------------------------------------------------------------
(* What the sender writes                                                  *)

Framed(length) == prefix_length + length

End(i) ==
  LET end[j \in 0 .. Len(sent)] == IF j = 0 THEN 0 ELSE end[j - 1] + Framed(sent[j])
  IN end[i]
Before(i) == End(i - 1)
Written == End(Len(sent))
Payload(i) == [k \in 1 .. sent[i] |-> Before(i) + prefix_length + k]

(* The value of a byte; those of a message may be anything, here 1.        *)
Value(byte) ==
  LET i == CHOOSE j \in DOMAIN sent : Before(j) < byte /\ byte <= End(j)
      place == prefix_length - (byte - Before(i))
  IN IF place >= 0 THEN (sent[i] \div Power[place]) % Radix ELSE 1

-----------------------------------------------------------------------------
NewBuffer == [reading |-> "length", length |-> 0, size |-> 0]

BufferTypeOK ==
  /\ sent \in Seq(Lengths) /\ Len(sent) <= MaxMessages
  /\ kind \in {"store", "cut"}
  /\ read \in 0 .. Written /\ pending \in 0 .. read
  /\ buffer.length \in 0 .. Power[prefix_length] - 1
  /\ buffer.reading = "length" => buffer.size < prefix_length
  /\ buffer.reading = "message" => buffer.size <= buffer.length
  /\ flushed \subseteq DOMAIN sent /\ closed \in {"no", "long", "refused"}

BufferInit ==
  /\ sent \in SeqOf(Lengths, MaxMessages)
  /\ kind \in {"store", "cut"}
  /\ read = 0 /\ pending = 0
  /\ buffer = NewBuffer /\ current = <<>>
  /\ handed = <<>> /\ flushed = {} /\ closed = "no"

First(n) == [k \in 1 .. n |-> read - pending + k]   \* the next n pending bytes
Read(n) ==   \* the length after n more bytes of the prefix
  LET after[k \in 0 .. n] ==
        IF k = 0 THEN buffer.length ELSE after[k - 1] * Radix + Value(read - pending + k)
  IN after[n]

(* The stream delivers the next bytes.                                     *)
did_recv ==
  /\ pending = 0 /\ closed = "no"
  /\ \E n \in 1 .. Written - read : read' = read + n /\ pending' = n
  /\ UNCHANGED <<sent, kind, buffer, current, handed, flushed, closed>>

PartialLength ==
  /\ buffer.reading = "length" /\ 0 < pending /\ pending + buffer.size < prefix_length
  /\ buffer' = [buffer EXCEPT !.length = Read(pending), !.size = @ + pending]
  /\ pending' = 0
  /\ UNCHANGED <<sent, kind, read, current, handed, flushed, closed>>

Opened(length) == [reading |-> "message", length |-> length, size |-> 0]

TooLong(length) == length > MaxLength

FullLength ==
  LET rest == prefix_length - buffer.size
  IN /\ buffer.reading = "length" /\ 0 < pending /\ rest <= pending
     /\ \/ /\ TooLong(Read(rest))
           /\ closed' = "long" /\ pending' = 0
           /\ UNCHANGED buffer
        \/ /\ ~TooLong(Read(rest))
           /\ buffer' = Opened(Read(rest))
           /\ pending' = pending - rest
           /\ UNCHANGED closed
     /\ UNCHANGED <<sent, kind, read, current, handed, flushed>>

PartialMessage ==
  /\ buffer.reading = "message" /\ 0 < pending
  /\ pending + buffer.size < buffer.length
  /\ current' = current \o First(pending)
  /\ buffer' = [buffer EXCEPT !.size = @ + pending]
  /\ pending' = 0
  /\ UNCHANGED <<sent, kind, read, handed, flushed, closed>>

(* With what is left over did_recv goes on to the next prefix.             *)
LeftOver_Dropped(rest) == 0   \* slip: the rest of the piece is not looked at
LeftOver(rest) == pending - rest

FullMessage ==
  LET rest == buffer.length - buffer.size
  IN /\ buffer.reading = "message" /\ 0 < pending /\ rest <= pending
     /\ handed' = Append(handed, current \o First(rest))
     /\ current' = <<>>
     /\ buffer' = NewBuffer
     /\ pending' = LeftOver(rest)
     /\ UNCHANGED <<sent, kind, read, flushed, closed>>

(* The delegate returns an error: it has closed the connection itself.     *)
Refused ==
  /\ buffer.reading = "message" /\ 0 < pending
  /\ kind = "cut" \/ buffer.length <= pending + buffer.size
  /\ closed' = "refused" /\ pending' = 0
  /\ UNCHANGED <<sent, kind, read, buffer, current, handed, flushed>>

(* cut_through_recv_flush: the sender gave up what it had sent, the end of *)
(* message i or less; the next byte begins a message.                      *)
AfterFlush == NewBuffer

did_recv_flush_stream ==
  /\ kind = "cut" /\ pending = 0 /\ closed = "no"
  /\ \E i \in DOMAIN sent :
       /\ read < End(i)
       /\ read' = End(i)
       /\ flushed' = flushed \cup (Len(handed) + Cardinality(flushed) + 1) .. i
  /\ buffer' = AfterFlush /\ current' = <<>>
  /\ UNCHANGED <<sent, kind, pending, handed, closed>>

BufferNext ==
  \/ did_recv
  \/ PartialLength \/ FullLength \/ PartialMessage \/ FullMessage \/ Refused
  \/ did_recv_flush_stream

BufferSpec == BufferInit /\ [][BufferNext]_bufferVars

-----------------------------------------------------------------------------
(* The place of message i among those that were not flushed.               *)
Rank(i) == Cardinality((1 .. i) \ flushed)

(* Whatever way the stream is cut into pieces, the messages handed over    *)
(* are those written and not flushed, byte for byte and in order, and none *)
(* waits when all bytes have come.  An empty message at the end does: its  *)
(* end is noticed with the next byte (did_recv of LpfTransport).           *)
HandedIsSent ==
  /\ \A k \in DOMAIN handed :
       \E i \in DOMAIN sent \ flushed : Rank(i) = k /\ handed[k] = Payload(i)
  /\ read = Written /\ pending = 0 /\ closed = "no" =>
       \A i \in DOMAIN sent \ flushed : sent[i] = 0 \/ Rank(i) <= Len(handed)
=============================================================================
