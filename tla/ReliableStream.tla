--------------------------- MODULE ReliableStream ---------------------------
(***************************************************************************)
(* What StreamTransport promises the applications at its two ends          *)
(* ("In-order delivery", "Reliable delivery", "Stream multiplexing",       *)
(* StreamTransport.hpp:38-43).  A stream is a sequence of bytes, numbered  *)
(* from 0.  The receiver is handed them in order, none before it was       *)
(* written, and misses only bytes the sender flushed: flush_stream "tells  *)
(* the receiver that we are skipping to the end of the current             *)
(* transmission".  The streams are independent.                            *)
(***************************************************************************)
EXTENDS Integers

CONSTANTS
  Streams,    \* stream ids
  MaxBytes    \* bound: bytes written on a stream

VARIABLES
  written,    \* end of what the sender's application wrote
  flushed,    \* end of what the sender's application gave up
  read,       \* end of what the receiver's application was handed or told of
  missed,     \* the bytes it was told it will not get
  up          \* FALSE once the connection is reset

vars == <<written, flushed, read, missed, up>>

Init ==
  /\ written = [s \in Streams |-> 0]
  /\ flushed = [s \in Streams |-> 0]
  /\ read = [s \in Streams |-> 0]
  /\ missed = [s \in Streams |-> {}]
  /\ up = TRUE

Write(s) ==
  /\ \E end \in written[s] + 1 .. MaxBytes : written' = [written EXCEPT ![s] = end]
  /\ UNCHANGED <<flushed, read, missed, up>>

(* The sender gives up what it sent and forgets what it had not sent yet:  *)
(* the next bytes written take its place.                                  *)
Flush(s) ==
  /\ \E sent \in flushed[s] .. written[s] :
       /\ flushed' = [flushed EXCEPT ![s] = sent]
       /\ written' = [written EXCEPT ![s] = sent]
  /\ UNCHANGED <<read, missed, up>>

(* The next bytes, in order.                                               *)
Deliver(s) ==
  /\ \E end \in read[s] + 1 .. written[s] : read' = [read EXCEPT ![s] = end]
  /\ UNCHANGED <<written, flushed, missed, up>>

Skip(s) ==
  /\ \E end \in read[s] + 1 .. flushed[s] :
       /\ read' = [read EXCEPT ![s] = end]
       /\ missed' = [missed EXCEPT ![s] = @ \cup read[s] .. end - 1]
  /\ UNCHANGED <<written, flushed, up>>

Reset == up' = FALSE /\ UNCHANGED <<written, flushed, read, missed>>

Next ==
  /\ up
  /\ Reset \/ \E s \in Streams : Write(s) \/ Flush(s) \/ Deliver(s) \/ Skip(s)

Spec == Init /\ [][Next]_vars
=============================================================================
