----------------------------- MODULE StreamData -----------------------------
(***************************************************************************)
(* The data plane of StreamTransport                                       *)
(* (stream/include/marlin/stream/StreamTransport.hpp): the sending half of *)
(* one peer and the receiving half of the other, on one established        *)
(* connection.  Streams, fragmentation, packets and acks, retransmission   *)
(* after losses and tail loss probes, pacing and the congestion window,    *)
(* SKIPSTREAM / FLUSHSTREAM / FLUSHCONF.                                   *)
(*                                                                         *)
(* Bytes are numbered by their offset in their stream; contents and the    *)
(* clock are left out.  done_queueing is never set by the code, so no      *)
(* packet is a FIN and no stream finishes.  Offsets are absolute: the      *)
(* code's data_item->stream_offset + offset.                               *)
(***************************************************************************)
EXTENDS Integers, Sequences, FiniteSets, FiniteSetsExt, SequencesExt, AckRanges

CONSTANTS
  Streams,          \* stream ids in use
  Sizes,            \* sizes of the buffers the application sends
  Fragment,         \* DEFAULT_FRAGMENT_SIZE
  PacingLimit,      \* DEFAULT_PACING_LIMIT
  QueueLimit,       \* 20000000: queued and unacked bytes that make send() fail
  Cwnds,            \* values congestion_window may take
  TlpAbort,         \* 25000 in units of DEFAULT_TLP_INTERVAL
  StateAbort,       \* 64000 in units of the first flush or skip timeout
  Word,             \* 2^64: bytes_in_flight is an unsigned 64-bit counter
  MaxBytes,         \* bound: bytes queued on a stream
  MaxPackets,       \* bound: packets sent
  MaxFlushes, MaxSkips,      \* bound: calls of flush_stream and skip_stream
  Duplicates,       \* TRUE: UDP may deliver any datagram again, at any time
  MaxLosses,        \* bound: datagrams the network drops
  PromptNetwork     \* TRUE: what is in flight arrives before a retry timer fires

ASSUME SizesAssumption ==
  /\ Sizes \subseteq Nat \ {0}
  /\ Fragment \in Nat \ {0} /\ PacingLimit \in Nat \ {0}
  /\ Cwnds \subseteq Nat /\ \A c \in Cwnds : c >= Fragment
  /\ IsFiniteSet(Cwnds) /\ Cwnds # {}
ASSUME BoundsAssumption ==
  /\ {QueueLimit, TlpAbort, StateAbort, MaxBytes, MaxFlushes, MaxSkips,
      MaxLosses} \subseteq Nat
  /\ MaxPackets \in Nat \ {0}
  /\ Word \in Nat /\ Word > MaxPackets * Fragment
ASSUME FlagsAssumption == {Duplicates, PromptNetwork} \subseteq BOOLEAN

VARIABLES
  log,             \* log[pn + 1]: what packet number pn carried
  sent_packets,    \* packet numbers sent and neither acked nor lost
  lost_packets,    \* packet numbers marked lost, to be retransmitted
  bytes_in_flight, congestion_window, largest_acked,
  send_queue,      \* streams with data ready to be sent
  is_pacing_timer_active,
  tlp,             \* 0: tlp_timer stopped, otherwise its interval
  tlp_interval,
  snd,             \* snd[s]: the sender's SendStream s
  rcv,             \* rcv[s]: the receiver's RecvStream s
  ack_ranges,      \* the packet numbers the receiver has seen (AckRanges)
  ack_timer_active,
  net,             \* datagrams in flight
  up,              \* FALSE once a side gave up: reset(); transport.close()
  flushes, skips, lost,   \* bounded events so far
  flushed,         \* history: sent_offset at the last flush_stream, per stream
  handed,          \* history: the bytes handed to the receiver's application
  arrived          \* history: the packet numbers added to ack_ranges

congestion == <<bytes_in_flight, congestion_window, largest_acked>>
timers == <<is_pacing_timer_active, tlp, tlp_interval>>
sender == <<log, sent_packets, lost_packets, congestion, send_queue, timers, snd,
            flushes, flushed>>
receiver == <<rcv, ack_ranges, ack_timer_active, skips, handed, arrived>>
vars == <<sender, receiver, net, up, lost>>

-----------------------------------------------------------------------------
(* Packets and byte ranges                                                 *)

PacketNumber == 0 .. MaxPackets - 1
Offset == 0 .. MaxBytes
Ranges == [offset : Offset, length : 1 .. Fragment]

Packet(pn) == log[pn + 1]
RangeOf(pkt) == [offset |-> pkt.offset, length |-> pkt.length]
End(r) == r.offset + r.length
Length(pns) ==
  Total([i \in 1 .. Len(log) |-> IF i - 1 \in pns THEN log[i].length ELSE 0], Len(log))
Covers(r, byte) == r.offset <= byte /\ byte < End(r)

(* The offset reached from r0 by taking ranges in order as long as they    *)
(* start at or before it: how acked_offset swallows outstanding_acks and   *)
(* read_offset swallows recv_packets.                                      *)
Extend(r0, ranges) ==
  Min({r \in {r0} \cup {End(k) : k \in ranges} :
         r >= r0 /\ \A k \in ranges : k.offset <= r => End(k) <= r})

Beyond(r0, ranges) == {k \in ranges : k.offset > r0}

(* What is left of a queue from the first of the given positions on.       *)
From(queue, positions) ==
  SubSeq(queue, Min(positions \cup {Len(queue) + 1}), Len(queue))

(* The elements of DOMAIN key by increasing key, a pair of numbers.        *)
Before(a, b) == a[1] < b[1] \/ (a[1] = b[1] /\ a[2] < b[2])
InOrder(key) ==
  LET rank(x) == Cardinality({y \in DOMAIN key : Before(key[y], key[x])})
  IN [i \in 1 .. Cardinality(DOMAIN key) |-> CHOOSE x \in DOMAIN key : rank(x) = i - 1]

(* The packets send_new_data cuts an item of stream s into.                *)
Fragments(s, item) ==
  {[stream |-> s, offset |-> item.offset + i * Fragment,
    length |-> Min({Fragment, item.size - i * Fragment})] :
     i \in {j \in 0 .. item.size - 1 : j * Fragment < item.size}}

(* next_item_iterator and the items' sent_offset always point at the       *)
(* stream's sent_offset, so what is left to send lies beyond it.           *)
Unsent(s) ==
  {f \in UNION {Fragments(s, snd[s].data_queue[i]) : i \in DOMAIN snd[s].data_queue} :
     f.offset >= snd[s].sent_offset}

\* uint64_t arithmetic
Plus(x, y) == (x + y) % Word
Minus(x, y) == (x - y) % Word

-----------------------------------------------------------------------------
(* Messages                                                                *)

DATA(pn) == [type |-> "DATA", packet_number |-> pn]
SKIPSTREAM(s, offset) == [type |-> "SKIPSTREAM", stream |-> s, offset |-> offset]
FLUSHSTREAM(s, offset) == [type |-> "FLUSHSTREAM", stream |-> s, offset |-> offset]
FLUSHCONF(s) == [type |-> "FLUSHCONF", stream |-> s]

ACK(ar) == [type |-> "ACK", ranges |-> Carried(ar).ranges, largest |-> ar.largest]

Message ==
  [type : {"DATA"}, packet_number : PacketNumber]
    \cup [type : {"ACK"}, ranges : Seq(Nat \ {0}), largest : PacketNumber]
    \cup [type : {"SKIPSTREAM", "FLUSHSTREAM"}, stream : Streams, offset : Offset]
    \cup [type : {"FLUSHCONF"}, stream : Streams]

Exchange(in, out) == net' = (IF Duplicates THEN net ELSE net \ in) \cup out
Reply(m, out) == Exchange({m}, out)

(* Retry timers run for seconds: on a prompt network everything sent has   *)
(* arrived, and the short ack and pacing timers have fired, before they do.*)
RetryDue == PromptNetwork =>
  net = {} /\ ~ack_timer_active /\ ~is_pacing_timer_active

(* reset(); transport.close()                                              *)
GiveUp == up' = FALSE

-----------------------------------------------------------------------------
Item == [offset : Offset, size : 1 .. MaxBytes]
\* flush_timer, skip_timer: 0 when the state_timer is stopped, else its interval
SendStream == [data_queue : Seq(Item), queue_offset : Offset, sent_offset : Offset,
               acked_offset : Offset, outstanding_acks : SUBSET Ranges,
               flush_timer : Nat]
RecvStream == [read_offset : Offset, recv_packets : SUBSET Ranges,
               wait_flush : BOOLEAN, skip_timer : Nat]

TypeOK ==
  /\ log \in Seq([stream : Streams, offset : Offset, length : 1 .. Fragment])
  /\ Len(log) <= MaxPackets
  /\ sent_packets \cup lost_packets \subseteq 0 .. Len(log) - 1
  /\ bytes_in_flight \in 0 .. Word - 1
  /\ congestion_window \in Cwnds
  /\ largest_acked \in PacketNumber
  /\ send_queue \in Seq(Streams)
  /\ is_pacing_timer_active \in BOOLEAN
  /\ tlp \in Nat /\ tlp_interval \in Nat
  /\ snd \in [Streams -> SendStream]
  /\ rcv \in [Streams -> RecvStream]
  /\ ack_ranges \in [ranges : Seq(Nat \ {0}), largest : PacketNumber]
  /\ ack_timer_active \in BOOLEAN
  /\ net \subseteq Message
  /\ up \in BOOLEAN
  /\ flushes \in 0 .. MaxFlushes /\ skips \in 0 .. MaxSkips /\ lost \in 0 .. MaxLosses
  /\ flushed \in [Streams -> Offset] /\ handed \in [Streams -> SUBSET Offset]
  /\ arrived \subseteq 0 .. Len(log) - 1

Init ==
  /\ log = <<>> /\ sent_packets = {} /\ lost_packets = {}
  /\ bytes_in_flight = 0 /\ congestion_window = Max(Cwnds) /\ largest_acked = 0
  /\ send_queue = <<>>
  /\ is_pacing_timer_active = FALSE /\ tlp = 0 /\ tlp_interval = 1
  /\ snd = [s \in Streams |->
             [data_queue |-> <<>>, queue_offset |-> 0, sent_offset |-> 0,
              acked_offset |-> 0, outstanding_acks |-> {}, flush_timer |-> 0]]
  /\ rcv = [s \in Streams |->
             [read_offset |-> 0, recv_packets |-> {}, wait_flush |-> FALSE,
              skip_timer |-> 0]]
  /\ ack_ranges = NoneSeen /\ ack_timer_active = FALSE
  /\ net = {} /\ up = TRUE
  /\ flushes = 0 /\ skips = 0 /\ lost = 0
  /\ flushed = [s \in Streams |-> 0] /\ handed = [s \in Streams |-> {}]
  /\ arrived = {}

-----------------------------------------------------------------------------
(* Sender                                                                  *)

Idle_NoLost == sent_packets = {} /\ send_queue = <<>>   \* slip
Idle == sent_packets = {} /\ lost_packets = {} /\ send_queue = <<>>

(* send(): queue a buffer, arm the tail loss probe when the connection was *)
(* idle, and ask for a pacing round.                                       *)
send(s, size) ==
  LET st == snd[s]
  IN /\ up
     /\ st.queue_offset - st.acked_offset <= QueueLimit
     /\ st.queue_offset + size <= MaxBytes
     /\ snd' = [snd EXCEPT
          ![s].data_queue = Append(@, [offset |-> st.queue_offset, size |-> size]),
          ![s].queue_offset = @ + size]
     /\ tlp' = IF Idle THEN tlp_interval ELSE tlp
     /\ send_queue' = IF s \in ToSet(send_queue) THEN send_queue
                      ELSE Append(send_queue, s)
     /\ is_pacing_timer_active' = TRUE
     /\ UNCHANGED <<log, sent_packets, lost_packets, congestion, tlp_interval,
                    flushes, flushed, receiver, net, up, lost>>

(* What a pacing round would send, in order: the lost packets, then the    *)
(* unsent fragments of the queued streams, one stream after the other.     *)
Retransmissions ==
  LET pns == InOrder([pn \in lost_packets |-> <<0, pn>>])
  IN [i \in DOMAIN pns |-> Packet(pns[i])]
NewData ==
  LET turn(s) == CHOOSE i \in DOMAIN send_queue : send_queue[i] = s
  IN InOrder([f \in UNION {Unsent(s) : s \in ToSet(send_queue)} |->
               <<turn(f.stream), f.offset>>])
Backlog == Retransmissions \o NewData

(* Bytes of the first n packets of a backlog.                              *)
Bytes_New(work, n) ==   \* slip: send_lost_data does not count what it sends
  Total([i \in DOMAIN work |-> IF i <= Cardinality(lost_packets) THEN 0 ELSE work[i].length], n)
Bytes(work, n) == Total([i \in DOMAIN work |-> work[i].length], n)

(* The pacing limit is >= for lost packets and > for new ones, and they    *)
(* test it before and after the window.                                    *)
OverPaced(work, i) ==
  LET round == Bytes(work, i - 1)
  IN IF i <= Cardinality(lost_packets) THEN round >= PacingLimit ELSE round > PacingLimit
OverWindow(work, i) ==
  Plus(bytes_in_flight, Bytes(work, i - 1)) > congestion_window - work[i].length
Blocked(work, i) == OverPaced(work, i) \/ OverWindow(work, i)
(* send_lost_data or send_new_data returns -1, and not -2                  *)
Rescheduled(work, i) ==
  /\ OverPaced(work, i)
  /\ i <= Cardinality(lost_packets) \/ ~OverWindow(work, i)

(* A round sends the packets before the first blocked one.                 *)
Round(work, n) ==
  /\ \A i \in 1 .. n : ~Blocked(work, i)
  /\ n < Len(work) => Blocked(work, n + 1)

(* pacing_timer_cb: one round of send_lost_data and send_new_data sends    *)
(* the first n packets of the backlog.  A stream leaves the queue when its *)
(* turn came and all of it is sent.                                        *)
SendRound(work, n) ==
  LET losses == Cardinality(lost_packets)
      pns == Len(log) .. Len(log) + n - 1
      SentTo(s) == Max({snd[s].sent_offset}
                       \cup {End(work[i]) : i \in {j \in losses + 1 .. n : work[j].stream = s}})
      unfinished == {i \in DOMAIN send_queue :
                       SentTo(send_queue[i]) < snd[send_queue[i]].queue_offset}
  IN /\ Len(log) + n <= MaxPackets
     /\ log' = log \o SubSeq(work, 1, n)
     /\ sent_packets' = sent_packets \cup pns
     /\ lost_packets' = {pn \in lost_packets : Cardinality({x \in lost_packets : x <= pn}) > n}
     /\ bytes_in_flight' = Plus(bytes_in_flight, Bytes(work, n))
     /\ snd' = [s \in Streams |-> [snd[s] EXCEPT !.sent_offset = SentTo(s)]]
     /\ send_queue' = IF n < losses THEN send_queue
                      ELSE From(send_queue, unfinished)
     /\ is_pacing_timer_active' = (n < Len(work) /\ Rescheduled(work, n + 1))
     /\ net' = net \cup {DATA(pn) : pn \in pns}

pacing_timer_cb ==
  /\ up /\ is_pacing_timer_active
  /\ \E work \in {Backlog} : \E n \in 0 .. Len(work) : Round(work, n) /\ SendRound(work, n)
  /\ UNCHANGED <<congestion_window, largest_acked, tlp, tlp_interval, flushes, flushed,
                 receiver, up, lost>>

(* tlp_timer_cb: no ack for tlp_interval.  Everything sent is lost.        *)
tlp_timer_cb ==
  /\ up /\ tlp > 0 /\ RetryDue
  /\ IF Idle
     THEN /\ tlp' = 0 /\ tlp_interval' = 1
          /\ UNCHANGED <<sent_packets, lost_packets, congestion,
                         is_pacing_timer_active, up>>
     ELSE /\ bytes_in_flight' = Minus(bytes_in_flight, Length(sent_packets))
          /\ lost_packets' = lost_packets \cup sent_packets
          /\ sent_packets' = {}
          /\ congestion_window' \in
               IF sent_packets = {} THEN {congestion_window}
               ELSE {c \in Cwnds : c <= congestion_window}
          /\ is_pacing_timer_active' = TRUE
          /\ \/ tlp_interval < TlpAbort /\ tlp_interval' = 2 * tlp_interval
                /\ tlp' = tlp_interval' /\ UNCHANGED up
             \/ tlp_interval >= TlpAbort /\ GiveUp /\ UNCHANGED <<tlp, tlp_interval>>
          /\ UNCHANGED largest_acked
  /\ UNCHANGED <<log, send_queue, snd, flushes, flushed, receiver, net, lost>>

(* did_recv_ACK                                                            *)
NewlyAcked(m) == sent_packets \cap Seen(m)
AckedRanges(acked, s) ==
  {RangeOf(Packet(pn)) : pn \in {x \in acked : Packet(x).stream = s}}

AckStream(pns, s) ==
  LET st == snd[s]
      new == AckedRanges(pns, s) \cup st.outstanding_acks
      acked == Extend(st.acked_offset, new)
  IN [st EXCEPT !.acked_offset = acked,
                !.outstanding_acks = Beyond(acked, new),
                !.data_queue = From(@, {i \in DOMAIN @ : @[i].offset + @[i].size > acked})]

(* A packet is lost when it was sent more than 50ms before the largest     *)
(* acked one: with no clock, any prefix of those sent before it.           *)
LostPrefixes(acked) ==
  {{pn \in sent_packets \ acked : pn < limit} : limit \in 0 .. largest_acked'}

did_recv_ACK(m) ==
  /\ up /\ m.type = "ACK"
  /\ largest_acked' = IF m.largest > largest_acked /\ m.largest \in sent_packets
                      THEN m.largest ELSE largest_acked
  /\ \E acked \in {NewlyAcked(m)} : \E gone \in LostPrefixes(acked) :
       /\ snd' = [s \in Streams |-> AckStream(acked, s)]
       /\ sent_packets' = (sent_packets \ acked) \ gone
       /\ lost_packets' = lost_packets \cup gone
       /\ bytes_in_flight' = Minus(bytes_in_flight, Length(acked \cup gone))
       /\ congestion_window' \in
            {c \in Cwnds : /\ gone = {} => c >= congestion_window
                           /\ acked = {} => c <= congestion_window}
  /\ is_pacing_timer_active' = TRUE
  /\ tlp' = 1 /\ tlp_interval' = 1
  /\ Reply(m, {})
  /\ UNCHANGED <<log, send_queue, flushes, flushed, receiver, up, lost>>

-----------------------------------------------------------------------------
(* Sender: skipping to the end of what was sent                            *)

(* flush_stream: drop everything of the stream, sent or not, and tell the  *)
(* receiver to move to sent_offset.                                        *)
PacketsOf_Sent(s) == {pn \in sent_packets : Packet(pn).stream = s}   \* slip
PacketsOf(s) == {pn \in sent_packets \cup lost_packets : Packet(pn).stream = s}

Emptied_Unacked(st) ==   \* slip: acked_offset is not moved
  [st EXCEPT !.data_queue = <<>>, !.queue_offset = st.sent_offset,
             !.outstanding_acks = {}, !.flush_timer = 1]
Emptied(st) ==
  [st EXCEPT !.data_queue = <<>>, !.queue_offset = st.sent_offset,
             !.acked_offset = st.sent_offset, !.outstanding_acks = {},
             !.flush_timer = 1]

(* The lost packets are subtracted from bytes_in_flight although marking   *)
(* them lost already did so.                                               *)
Flush(s, request) ==
  /\ up /\ flushes < MaxFlushes /\ flushes' = flushes + 1
  /\ sent_packets' = sent_packets \ PacketsOf(s)
  /\ lost_packets' = lost_packets \ PacketsOf(s)
  /\ bytes_in_flight' = Minus(bytes_in_flight, Length(PacketsOf(s)))
  /\ snd' = [snd EXCEPT ![s] = Emptied(@)]
  /\ flushed' = [flushed EXCEPT ![s] = snd[s].sent_offset]
  /\ Exchange(request, {FLUSHSTREAM(s, snd[s].sent_offset)})
  /\ UNCHANGED <<log, congestion_window, largest_acked, send_queue, timers,
                 receiver, up, lost>>

flush_stream(s) == Flush(s, {})

flush_timer_cb(s) ==
  /\ up /\ snd[s].flush_timer > 0 /\ RetryDue
  /\ \/ snd[s].flush_timer >= StateAbort /\ GiveUp /\ UNCHANGED <<snd, net>>
     \/ /\ snd[s].flush_timer < StateAbort
        /\ net' = net \cup {FLUSHSTREAM(s, snd[s].sent_offset)}
        /\ snd' = [snd EXCEPT ![s].flush_timer = 2 * @]
        /\ UNCHANGED up
  /\ UNCHANGED <<log, sent_packets, lost_packets, congestion, send_queue, timers,
                 flushes, flushed, receiver, lost>>

did_recv_FLUSHCONF(m) ==
  /\ up /\ m.type = "FLUSHCONF"
  /\ snd' = [snd EXCEPT ![m.stream].flush_timer = 0]
  /\ Reply(m, {})
  /\ UNCHANGED <<log, sent_packets, lost_packets, congestion, send_queue, timers,
                 flushes, flushed, receiver, up, lost>>

did_recv_SKIPSTREAM(m) ==
  /\ up /\ m.type = "SKIPSTREAM"
  /\ LET acked == snd[m.stream].acked_offset
     IN IF m.offset < acked
        THEN /\ Reply(m, {FLUSHSTREAM(m.stream, acked)})
             /\ UNCHANGED <<sender, receiver, up, lost>>
        ELSE Flush(m.stream, {m})

-----------------------------------------------------------------------------
(* Receiver                                                                *)

(* Every DATA packet is acked, old data too, but none while the stream     *)
(* waits to be flushed.                                                    *)
Acks_New(st, pkt) ==   \* slip: old data is not acked again
  ~st.wait_flush /\ End(pkt) > st.read_offset
Acks(st, pkt) == ~st.wait_flush

(* The stream after a packet that is acked: data at read_offset is handed  *)
(* over with everything queued behind it, later data is queued.            *)
Accept_NoDrain(st, pkt) ==   \* slip: the queued packets are not looked at
  CASE End(pkt) <= st.read_offset -> st
    [] pkt.offset <= st.read_offset /\ End(pkt) > st.read_offset ->
         [st EXCEPT !.read_offset = End(pkt)]
    [] OTHER -> [st EXCEPT !.recv_packets = @ \cup {RangeOf(pkt)}]
Accept_OutOfOrder(st, pkt) ==   \* slip: later data is handed over at once
  IF End(pkt) <= st.read_offset THEN st ELSE [st EXCEPT !.read_offset = End(pkt)]
Accept(st, pkt) ==
  LET all == st.recv_packets \cup {RangeOf(pkt)}
      read == Extend(st.read_offset, all)
      known == \E k \in st.recv_packets : k.offset = pkt.offset  \* try_emplace
  IN CASE End(pkt) <= st.read_offset -> st
       [] pkt.offset <= st.read_offset /\ End(pkt) > st.read_offset ->
            [st EXCEPT !.read_offset = read, !.recv_packets = Beyond(read, all)]
       [] OTHER -> [st EXCEPT !.recv_packets = IF known THEN @ ELSE all]

(* The bytes the application is handed when st becomes new.                *)
Handed(st, new, pkt) ==
  {byte \in st.read_offset .. new.read_offset - 1 :
     \E r \in st.recv_packets \cup {RangeOf(pkt)} : Covers(r, byte)}

did_recv_DATA(m) ==
  LET pkt == Packet(m.packet_number)
      s == pkt.stream
      new == Accept(rcv[s], pkt)
  IN /\ up /\ m.type = "DATA"
     /\ \/ /\ Acks(rcv[s], pkt)
           /\ ack_ranges' = add_packet_number(ack_ranges, m.packet_number)
           /\ arrived' = arrived \cup {m.packet_number}
           /\ ack_timer_active' = TRUE
           /\ rcv' = [rcv EXCEPT ![s] = new]
           /\ handed' = [handed EXCEPT ![s] = @ \cup Handed(rcv[s], new, pkt)]
           /\ UNCHANGED skips
        \/ ~Acks(rcv[s], pkt) /\ UNCHANGED receiver
     /\ Reply(m, {})
     /\ UNCHANGED <<sender, up, lost>>

ack_timer_cb ==
  /\ up /\ ack_timer_active
  /\ ack_timer_active' = FALSE
  /\ net' = net \cup {ACK(ack_ranges)}
  /\ UNCHANGED <<sender, rcv, ack_ranges, skips, handed, arrived, up, lost>>

did_recv_FLUSHSTREAM(m) ==
  /\ up /\ m.type = "FLUSHSTREAM"
  /\ IF rcv[m.stream].read_offset >= m.offset
     THEN Reply(m, {}) /\ UNCHANGED rcv
     ELSE /\ rcv' = [rcv EXCEPT ![m.stream].read_offset = m.offset,
                                ![m.stream].wait_flush = FALSE,
                                ![m.stream].skip_timer = 0]
          /\ Reply(m, {FLUSHCONF(m.stream)})
  /\ UNCHANGED <<sender, ack_ranges, ack_timer_active, skips, handed, arrived, up, lost>>

(* Where the receiver asks the sender to skip from: the end of what it     *)
(* holds.                                                                  *)
SkipOffset(st) ==
  IF st.recv_packets = {} THEN st.read_offset
  ELSE End(CHOOSE k \in st.recv_packets : \A x \in st.recv_packets : x.offset <= k.offset)

skip_stream(s) ==
  /\ up /\ skips < MaxSkips /\ skips' = skips + 1
  /\ rcv' = [rcv EXCEPT ![s].wait_flush = TRUE, ![s].skip_timer = 1]
  /\ net' = net \cup {SKIPSTREAM(s, SkipOffset(rcv[s]))}
  /\ UNCHANGED <<sender, ack_ranges, ack_timer_active, handed, arrived, up, lost>>

skip_timer_cb(s) ==
  /\ up /\ rcv[s].skip_timer > 0 /\ RetryDue
  /\ \/ rcv[s].skip_timer >= StateAbort /\ GiveUp /\ UNCHANGED <<rcv, net>>
     \/ /\ rcv[s].skip_timer < StateAbort
        /\ net' = net \cup {SKIPSTREAM(s, SkipOffset(rcv[s]))}
        /\ rcv' = [rcv EXCEPT ![s].skip_timer = 2 * @]
        /\ UNCHANGED up
  /\ UNCHANGED <<sender, ack_ranges, ack_timer_active, skips, handed, arrived, lost>>

-----------------------------------------------------------------------------
did_recv(m) ==
  \/ did_recv_DATA(m) \/ did_recv_ACK(m)
  \/ did_recv_SKIPSTREAM(m) \/ did_recv_FLUSHSTREAM(m) \/ did_recv_FLUSHCONF(m)

Lose(m) ==
  /\ up /\ lost < MaxLosses /\ lost' = lost + 1
  /\ net' = net \ {m}
  /\ UNCHANGED <<sender, receiver, up>>

Receive == \E m \in net : did_recv(m)

Next ==
  \/ \E s \in Streams : \/ \E size \in Sizes : send(s, size)
                        \/ flush_stream(s) \/ flush_timer_cb(s)
                        \/ skip_stream(s) \/ skip_timer_cb(s)
  \/ pacing_timer_cb \/ tlp_timer_cb \/ ack_timer_cb
  \/ Receive
  \/ \E m \in net : Lose(m)

Spec == Init /\ [][Next]_vars
(* The event loop keeps firing due timers and reading the sockets.         *)
Fairness ==
  /\ WF_vars(pacing_timer_cb) /\ WF_vars(tlp_timer_cb)
  /\ WF_vars(ack_timer_cb) /\ WF_vars(Receive)
  /\ \A s \in Streams : /\ WF_vars(flush_timer_cb(s))
                        /\ WF_vars(skip_timer_cb(s))

FairSpec == Spec /\ Fairness

-----------------------------------------------------------------------------
(* The sender counts a byte as acked, in order or out of order, only when  *)
(* the receiver has it: handed to the application or kept in recv_packets  *)
(* (did_recv_ACK's range walk and outstanding_acks against did_recv_DATA). *)
AckedIsReceived ==
  \A s \in Streams : \A byte \in flushed[s] .. MaxBytes :
    (byte < snd[s].acked_offset
     \/ \E r \in snd[s].outstanding_acks : Covers(r, byte)) =>
      (byte < rcv[s].read_offset \/ \E r \in rcv[s].recv_packets : Covers(r, byte))

(* The run-length list says exactly which packets were taken, in whatever  *)
(* order they came: gaps open, shrink from both ends, split and close      *)
(* (add_packet_number).  With more ranges than are kept it forgets, but    *)
(* never claims a packet that was not taken.                               *)
AckRangesExact ==
  /\ Seen(ack_ranges) \subseteq arrived
  /\ MaxRanges > MaxPackets => Seen(ack_ranges) = arrived

(* Nothing sent falls between the sender's books: each byte sent and not   *)
(* acked is in exactly one of a packet in flight, a packet to retransmit   *)
(* and an out-of-order ack, through every loss, retransmission, late ack   *)
(* and flush.                                                              *)
TrackedOnce ==
  \A s \in Streams : \A byte \in snd[s].acked_offset .. snd[s].sent_offset - 1 :
    Cardinality({pn \in sent_packets \cup lost_packets :
                   Packet(pn).stream = s /\ Covers(Packet(pn), byte)})
      + Cardinality({r \in snd[s].outstanding_acks : Covers(r, byte)}) = 1

(* The DataItem* a sent or lost packet keeps still points into data_queue: *)
(* did_recv_ACK and flush_stream never free an item some packet refers to. *)
NoDanglingItem ==
  \A pn \in sent_packets \cup lost_packets :
    LET pkt == Packet(pn)
    IN \E i \in DOMAIN snd[pkt.stream].data_queue :
         LET item == snd[pkt.stream].data_queue[i]
         IN item.offset <= pkt.offset /\ End(pkt) <= item.offset + item.size

(* bytes_in_flight is what is in flight: the "number of bytes sent but not *)
(* acked" nor given up as lost.  The congestion window compares it.        *)
BytesInFlightExact == bytes_in_flight = Length(sent_packets)

(* While anything waits for an ack, for retransmission or for room in the  *)
(* window, the tail loss probe is armed: no sequence of acks, losses and   *)
(* flushes leaves the sender waiting for an event that cannot come.        *)
RetransmissionArmed ==
  up /\ (sent_packets # {} \/ lost_packets # {} \/ send_queue # <<>>) => tlp > 0

(* What has arrived in order has been handed over: no queued packet starts *)
(* at or before read_offset.  Nothing but new DATA would release it.       *)
NoReadyDataHeld ==
  \A s \in Streams : \A r \in rcv[s].recv_packets : r.offset > rcv[s].read_offset

Missed(s) == (0 .. rcv[s].read_offset - 1) \ handed[s]

(* A connection is not given up while the network loses nothing.           *)
LosslessStaysUp == lost = 0 => up

(* Bytes are handed over in order, none that was not written, and only     *)
(* flushed ones are missed (ReliableStream).                               *)
Promise == INSTANCE ReliableStream WITH
  written <- [s \in Streams |-> snd[s].queue_offset],
  read <- [s \in Streams |-> rcv[s].read_offset],
  missed <- [s \in Streams |-> Missed(s)]
ImplementsReliableStream == Promise!Spec

(* Every byte queued on a stream is eventually handed to the receiver's    *)
(* application, unless it was flushed or the connection was given up.      *)
AllDelivered ==
  \A s \in Streams : \A end \in 1 .. MaxBytes :
    snd[s].queue_offset >= end ~>
      (rcv[s].read_offset >= end \/ snd[s].queue_offset < end \/ ~up)
=============================================================================
