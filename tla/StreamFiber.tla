---------------------------- MODULE StreamFiber ----------------------------
(***************************************************************************)
(* StreamFiber (stream/include/marlin/stream/StreamFiber.hpp): the stream  *)
(* transport in the fiber style.  Its handlers are those of                *)
(* StreamTransport, but a fiber outlives its connections: a MappingFiber   *)
(* makes one for an address and keeps it, reset() puts it back to Listen,  *)
(* and the next connection, dialled or accepted, runs on the same object.  *)
(* Here two fibers connect, move data on one stream, lose each other,      *)
(* close and connect again while datagrams of the earlier connections are  *)
(* still under way.                                                        *)
(*                                                                         *)
(* A packet carries one byte; where the pacing limit and the congestion    *)
(* window stop a round is a free choice (StreamData has their arithmetic). *)
(* The content of a byte is the connection it was written on.  Timers      *)
(* count how often they were started: interval n is 2^(n - 1) times the    *)
(* first one.                                                              *)
(***************************************************************************)
EXTENDS Integers, Sequences, FiniteSets, FiniteSetsExt, AckRanges

CONSTANTS
  Fibers,        \* the two ends
  DialAbort, CloseAbort, TlpAbort, StateAbort,  \* 7, 4, 6, 7: intervals that abort
  Scenarios,     \* bounds of a behaviour: which ends dial, close and write, how many
                 \* ids are drawn, bytes queued and packets sent per connection,
                 \* flushes and skips called
  Duplicates     \* TRUE: UDP may deliver any datagram again.  One never taken is lost

ASSUME FibersAssumption ==
  /\ \E f, g \in Fibers : f # g /\ Fibers = {f, g}
  /\ {DialAbort, CloseAbort, TlpAbort, StateAbort} \subseteq Nat \ {0}
  /\ Scenarios \subseteq [dial : SUBSET Fibers, close : SUBSET Fibers, write : SUBSET Fibers,
                         ids : Nat, bytes : Nat, packets : Nat, controls : Nat]
  /\ Duplicates \in BOOLEAN

VARIABLES
  fiber,       \* fiber[f]: the members of the fiber at end f
  net,         \* datagrams under way
  nextId,      \* the next connection id: random in the code, here fresh
  scenario, controls,   \* the bounds, and what they count
  handed,      \* history: bytes handed up, <<content, connection>> of each
  told         \* history: dials begun minus did_dial calls, per end

bounded == <<scenario, controls>>
history == <<handed, told>>
vars == <<fiber, net, nextId, bounded, history>>

Other(f) == CHOOSE g \in Fibers : g # f

-----------------------------------------------------------------------------
(* reset(): everything but the addresses, the keys and close_reason.       *)
Fresh ==
  [state |-> "Listen", src |-> 0, dst |-> 0, dialled |-> FALSE,
   state_timer |-> "off", interval |-> 0,
   \* the send stream
   data |-> <<>>, sent_offset |-> 0, acked_offset |-> 0, outstanding_acks |-> {},
   flush_timer |-> 0,
   \* packets
   next |-> 0, sent_packets |-> {}, lost_packets |-> {}, largest_acked |-> 0,
   in_queue |-> FALSE, pacing |-> FALSE, tlp |-> 0, tlp_interval |-> 1,
   \* the receive stream
   read_offset |-> 0, recv_packets |-> {}, wait_flush |-> FALSE, skip_timer |-> 0,
   ack_ranges |-> NoneSeen, ack_timer |-> FALSE]
reset_KeepAcks(r) == [Fresh EXCEPT !.ack_ranges = r.ack_ranges]   \* slip
reset_KeepLost(r) ==   \* slip: lost_packets is not cleared
  [Fresh EXCEPT !.lost_packets = r.lost_packets]
reset(r) == Fresh

(* outer_call<"did_dial">: told of the connections it dialled.             *)
Become(f, r) ==
  LET dials == fiber[f].state = "Listen" /\ r.state = "DialSent"
      opens == fiber[f].state # "Established" /\ r.state = "Established" /\ r.dialled
  IN /\ fiber' = [fiber EXCEPT ![f] = r]
     /\ told' = [told EXCEPT ![f] = CASE r.state = "Listen" -> 0
                                      [] dials -> 1
                                      [] opens -> @ - 1
                                      [] OTHER -> @]

\* Ids as the receiver reads them: the sender's dst is the receiver's src.
Datagram(f, type, src, dst, body) ==
  {[type |-> type, to |-> Other(f), src |-> dst, dst |-> src, body |-> body]}
Send(f, r, type) == Datagram(f, type, r.src, r.dst, <<>>)
SendOffset(f, r, type, offset) == Datagram(f, type, r.src, r.dst, <<offset>>)
RST(f, m) == Datagram(f, "RST", m.src, m.dst, <<>>)   \* the ids of the message
DATA(f, r, p) == Datagram(f, "DATA", r.src, r.dst, <<p.pn, p.offset, p.on>>)
ACK(f, r) ==
  Datagram(f, "ACK", r.src, r.dst, <<r.ack_ranges.largest>> \o Carried(r.ack_ranges).ranges)

Post(out) == net' = net \cup out
Take(m, out) == net' = (IF Duplicates THEN net ELSE net \ {m}) \cup out
Receive(f, m, type) == m \in net /\ m.to = f /\ m.type = type
Matches(r, m) == m.src = r.src /\ m.dst = r.dst

-----------------------------------------------------------------------------
(* Calls of the application                                                *)

did_dial(f) ==
  LET d == [fiber[f] EXCEPT !.state = "DialSent", !.dialled = TRUE, !.src = nextId,
                            !.state_timer = "dial", !.interval = 1]
  IN /\ f \in scenario.dial /\ fiber[f].state = "Listen"
     /\ nextId <= scenario.ids /\ nextId' = nextId + 1
     /\ Become(f, d) /\ Post(Send(f, d, "DIAL"))
     /\ UNCHANGED <<bounded, handed>>

Idle(r) == r.sent_packets = {} /\ r.lost_packets = {} /\ ~r.in_queue
send(f) ==
  LET r == fiber[f]
  IN /\ f \in scenario.write /\ r.state = "Established" /\ Len(r.data) < scenario.bytes
     /\ Become(f, [r EXCEPT !.data = Append(@, r.src), !.in_queue = TRUE, !.pacing = TRUE,
                            !.tlp = IF Idle(r) THEN r.tlp_interval ELSE @])
     /\ UNCHANGED <<net, nextId, bounded, handed>>

(* Closing keeps the ids of the connection for the retries.  CLOSE itself  *)
(* is left out: did_recv has no case for it.                               *)
close(f) ==
  LET c == [reset(fiber[f]) EXCEPT !.src = fiber[f].src, !.dst = fiber[f].dst, !.state = "Closing",
                                   !.state_timer = "close", !.interval = 1]
  IN /\ f \in scenario.close /\ fiber[f].state \in {"DialSent", "DialRcvd", "Established"}
     /\ Become(f, c)
     /\ UNCHANGED <<net, nextId, bounded, handed>>

(* flush_stream: what was queued and not sent is forgotten, what was sent  *)
(* is given up.  Neither it nor skip_stream looks at conn_state: the       *)
(* application calls them while the connection is open.                    *)
Flushed(r) ==
  [r EXCEPT !.data = SubSeq(@, 1, r.sent_offset), !.acked_offset = r.sent_offset,
            !.outstanding_acks = {}, !.sent_packets = {}, !.lost_packets = {}, !.flush_timer = 1]
flush_stream(f) ==
  LET r == fiber[f]
  IN /\ f \in scenario.write /\ r.state = "Established"
     /\ controls < scenario.controls /\ controls' = controls + 1
     /\ Become(f, Flushed(r)) /\ Post(SendOffset(f, r, "FLUSHSTREAM", r.sent_offset))
     /\ UNCHANGED <<nextId, scenario, handed>>

Held(r) == {p[1] : p \in r.recv_packets}
SkipOffset(r) == IF r.recv_packets = {} THEN r.read_offset ELSE Max(Held(r)) + 1
skip_stream(f) ==
  LET r == fiber[f]
  IN /\ Other(f) \in scenario.write /\ r.state = "Established"
     /\ controls < scenario.controls /\ controls' = controls + 1
     /\ Become(f, [r EXCEPT !.wait_flush = TRUE, !.skip_timer = 1])
     /\ Post(SendOffset(f, r, "SKIPSTREAM", SkipOffset(r)))
     /\ UNCHANGED <<nextId, scenario, handed>>

-----------------------------------------------------------------------------
(* Timers.  One that was started too often resets the fiber and closes the *)
(* UDP fiber below, which has nothing to close and calls did_close.        *)

GiveUp(f) ==
  Become(f, reset(fiber[f])) /\ UNCHANGED net
Retry(f, r, out) == Become(f, r) /\ Post(out)

dial_timer_cb(f) ==
  LET r == fiber[f]
  IN /\ r.state_timer = "dial"
     /\ IF r.interval >= DialAbort THEN GiveUp(f)
        ELSE Retry(f, [r EXCEPT !.interval = @ + 1], Send(f, r, "DIAL"))
     /\ UNCHANGED <<nextId, bounded, handed>>

close_timer_cb(f) ==
  LET r == fiber[f]
  IN /\ r.state_timer = "close"
     /\ IF r.interval >= CloseAbort THEN GiveUp(f)
        ELSE Retry(f, [r EXCEPT !.interval = @ + 1], {})
     /\ UNCHANGED <<nextId, bounded, handed>>

flush_timer_cb(f) ==
  LET r == fiber[f]
  IN /\ r.flush_timer > 0
     /\ IF r.flush_timer >= StateAbort THEN GiveUp(f)
        ELSE Retry(f, [r EXCEPT !.flush_timer = @ + 1],
                   SendOffset(f, r, "FLUSHSTREAM", r.sent_offset))
     /\ UNCHANGED <<nextId, bounded, handed>>

skip_timer_cb(f) ==
  LET r == fiber[f]
  IN /\ r.skip_timer > 0
     /\ IF r.skip_timer >= StateAbort THEN GiveUp(f)
        ELSE Retry(f, [r EXCEPT !.skip_timer = @ + 1],
                   SendOffset(f, r, "SKIPSTREAM", SkipOffset(r)))
     /\ UNCHANGED <<nextId, bounded, handed>>

ack_timer_cb(f) ==
  /\ fiber[f].ack_timer
  /\ Retry(f, [fiber[f] EXCEPT !.ack_timer = FALSE], ACK(f, fiber[f]))
  /\ UNCHANGED <<nextId, bounded, handed>>

(* A round sends the first n of: the lost packets in order, then the bytes *)
(* not sent yet.  It may stop for the window, or for the pacing limit,     *)
(* which starts the timer again.                                           *)
Place(r, p) == Cardinality({q \in r.lost_packets : q.pn < p.pn})
Sends(r, place, offset, on) == [pn |-> r.next + place, offset |-> offset, on |-> on]
Backlog(r) ==
  {Sends(r, Place(r, p), p.offset, p.on) : p \in r.lost_packets}
    \cup {Sends(r, Cardinality(r.lost_packets) + o - r.sent_offset, o, r.data[o + 1]) :
            o \in r.sent_offset .. Len(r.data) - 1}
pacing_timer_cb(f) ==
  LET r == fiber[f]
      losses == Cardinality(r.lost_packets)
      work == losses + Len(r.data) - r.sent_offset
  IN /\ r.pacing
     /\ \E n \in 0 .. work, again \in BOOLEAN :
          LET out == {p \in Backlog(r) : p.pn < r.next + n}
          IN /\ r.next + n <= scenario.packets /\ (again => n < work)
             /\ Become(f, [r EXCEPT !.next = @ + n, !.sent_packets = @ \cup out,
                                    !.lost_packets = {p \in @ : Place(r, p) >= n},
                                    !.sent_offset = @ + Max({0, n - losses}),
                                    !.in_queue = @ /\ n < work, !.pacing = again])
             /\ Post(UNION {DATA(f, r, p) : p \in out})
     /\ UNCHANGED <<nextId, bounded, handed>>

tlp_timer_cb(f) ==
  LET r == fiber[f]
  IN /\ r.tlp > 0
     /\ CASE Idle(r) -> Retry(f, [r EXCEPT !.tlp = 0, !.tlp_interval = 1], {})
          [] ~Idle(r) /\ r.tlp_interval < TlpAbort ->
               Retry(f, [r EXCEPT !.lost_packets = @ \cup r.sent_packets, !.sent_packets = {},
                                  !.pacing = TRUE, !.tlp_interval = @ + 1,
                                  !.tlp = r.tlp_interval + 1], {})
          [] OTHER -> GiveUp(f)
     /\ UNCHANGED <<nextId, bounded, handed>>

-----------------------------------------------------------------------------
(* Datagrams of the handshake.  Next ids are drawn in Listen only.         *)

Answer(f, m, r, out) == Become(f, r) /\ Take(m, out) /\ UNCHANGED <<bounded, handed>>
Ignore(f, m) == Answer(f, m, fiber[f], {})
Refuse(f, m) == Answer(f, m, fiber[f], RST(f, m))
Establish(f, m, r, out) ==   \* state_timer runs only while dialling
  Answer(f, m, [r EXCEPT !.state = "Established"], out)

did_recv_DIAL(f, m) ==
  LET r == fiber[f]
      answered == [r EXCEPT !.state = "DialRcvd", !.dst = m.dst,
                            !.state_timer = "off", !.interval = 0]
      accepted == [answered EXCEPT !.src = nextId]
  IN /\ Receive(f, m, "DIAL")
     /\ \/ /\ r.state = "Listen" /\ m.src = 0
           /\ nextId <= scenario.ids /\ nextId' = nextId + 1
           /\ Answer(f, m, accepted, Send(f, accepted, "DIALCONF"))
        \/ /\ r.state = "DialSent" /\ m.src = 0
           /\ Answer(f, m, answered, Send(f, answered, "DIALCONF")) /\ UNCHANGED nextId
        \/ /\ r.state \in {"DialRcvd", "Established"}
           /\ Answer(f, m, r, Send(f, r, "DIALCONF")) /\ UNCHANGED nextId
        \/ /\ r.state = "Closing" \/ (m.src # 0 /\ r.state \in {"Listen", "DialSent"})
           /\ Ignore(f, m) /\ UNCHANGED nextId

did_recv_DIALCONF(f, m) ==
  LET r == fiber[f]
      met == [r EXCEPT !.dst = m.dst, !.state_timer = "off", !.interval = 0]
  IN /\ Receive(f, m, "DIALCONF")
     /\ CASE r.state = "DialSent" /\ m.src = r.src -> Establish(f, m, met, Send(f, met, "CONF"))
          [] r.state = "DialRcvd" /\ Matches(r, m) -> Establish(f, m, met, Send(f, met, "CONF"))
          [] r.state = "Established" /\ Matches(r, m) ->
               Answer(f, m, r, Send(f, r, "CONF"))
          [] r.state = "Closing" -> Ignore(f, m)
          [] OTHER -> Refuse(f, m)
     /\ UNCHANGED nextId

did_recv_CONF(f, m) ==
  LET r == fiber[f]
  IN /\ Receive(f, m, "CONF")
     /\ CASE r.state = "DialRcvd" /\ Matches(r, m) -> Establish(f, m, r, {})
          [] r.state = "Closing" \/ (r.state = "Established" /\ Matches(r, m)) ->
               Ignore(f, m)
          [] OTHER -> Refuse(f, m)
     /\ UNCHANGED nextId

did_recv_RST(f, m) ==
  /\ Receive(f, m, "RST")
  /\ IF Matches(fiber[f], m) \/ fiber[f].state = "Listen"
     THEN Answer(f, m, reset(fiber[f]), {})
     ELSE Ignore(f, m)
  /\ UNCHANGED nextId

-----------------------------------------------------------------------------
(* Datagrams of an open connection                                         *)

(* What lies behind read_offset without a gap is handed up with it.        *)
ReadTo(offset, queue) ==
  LET beyond == {q[1] : q \in queue}
  IN Min({o \in offset .. offset + Cardinality(queue) : o \notin beyond})
Received(r, offset, on) ==
  LET queue == IF offset \in Held(r) THEN r.recv_packets ELSE r.recv_packets \cup {<<offset, on>>}
  IN CASE offset < r.read_offset -> r
       [] offset = r.read_offset ->
            LET end == ReadTo(offset, queue)
            IN [r EXCEPT !.read_offset = end, !.recv_packets = {q \in queue : q[1] >= end}]
       [] OTHER -> [r EXCEPT !.recv_packets = queue]
HandedUp(r, new, offset, on) ==
  {<<q[2], r.dst>> : q \in {x \in r.recv_packets \cup {<<offset, on>>} :
                              r.read_offset <= x[1] /\ x[1] < new.read_offset}}
Taken(r, pn) ==
  [r EXCEPT !.ack_ranges = add_packet_number(@, pn), !.ack_timer = TRUE]

(* DATA establishes a connection whose CONF is late.                       *)
did_recv_DATA(f, m) ==
  LET r == [fiber[f] EXCEPT !.state = IF @ = "DialRcvd" THEN "Established" ELSE @]
      pn == m.body[1]  offset == m.body[2]  on == m.body[3]
      new == Received(Taken(r, pn), offset, on)
  IN /\ Receive(f, m, "DATA")
     /\ CASE ~Matches(r, m) -> Refuse(f, m)
          [] Matches(r, m) /\ (r.state # "Established" \/ r.wait_flush) ->
               /\ Answer(f, m, r, {})
          [] OTHER ->
               /\ Become(f, new) /\ Take(m, {})
               /\ handed' = [handed EXCEPT ![f] = @ \cup HandedUp(r, new, offset, on)]
               /\ UNCHANGED bounded
     /\ UNCHANGED nextId

AckedTo(r, acked) ==   \* acked_offset after the acks of these offsets
  LET known == acked \cup r.outstanding_acks
  IN Min({o \in r.acked_offset .. r.acked_offset + Cardinality(known) : o \notin known})
Acked(r, pns, gone) ==
  LET offsets == {p.offset : p \in {q \in r.sent_packets : q.pn \in pns}}
      end == AckedTo(r, offsets)
  IN [r EXCEPT !.acked_offset = end,
               !.outstanding_acks = {o \in @ \cup offsets : o > end},
               !.sent_packets = {p \in @ : p.pn \notin pns /\ p \notin gone},
               !.lost_packets = @ \cup gone,
               !.pacing = TRUE, !.tlp = 1, !.tlp_interval = 1]
(* A prefix of the packets sent before the largest acked one is lost.      *)
Lost(r, pns) ==
  {{p \in r.sent_packets : p.pn \notin pns /\ p.pn < limit} : limit \in 0 .. r.largest_acked}
did_recv_ACK(f, m) ==
  LET r == fiber[f]
      largest == m.body[1]
      seen == [r EXCEPT !.largest_acked =
                 IF largest > @ /\ largest \in {p.pn : p \in r.sent_packets} THEN largest ELSE @]
      pns == Seen([largest |-> largest, ranges |-> Tail(m.body)])
  IN /\ Receive(f, m, "ACK")
     /\ CASE r.state # "Established" -> Ignore(f, m)
          [] r.state = "Established" /\ ~Matches(r, m) -> Refuse(f, m)
          [] OTHER -> \E gone \in Lost(seen, pns) : Answer(f, m, Acked(seen, pns, gone), {})
     /\ UNCHANGED nextId

(* SKIPSTREAM, FLUSHSTREAM and FLUSHCONF look at the ids, then the state.  *)
Control(f, m, type, r, out) ==
  /\ Receive(f, m, type)
  /\ CASE ~Matches(fiber[f], m) -> Refuse(f, m)
       [] Matches(fiber[f], m) /\ fiber[f].state # "Established" -> Ignore(f, m)
       [] OTHER -> Answer(f, m, r, out)
  /\ UNCHANGED nextId

did_recv_SKIPSTREAM(f, m) ==
  LET r == fiber[f]
  IN IF m.type = "SKIPSTREAM" /\ m.body[1] < r.acked_offset
     THEN Control(f, m, "SKIPSTREAM", r, SendOffset(f, r, "FLUSHSTREAM", r.acked_offset))
     ELSE Control(f, m, "SKIPSTREAM", Flushed(r), SendOffset(f, r, "FLUSHSTREAM", r.sent_offset))
did_recv_FLUSHSTREAM(f, m) ==
  LET r == fiber[f]
  IN IF m.type = "FLUSHSTREAM" /\ r.read_offset >= m.body[1]
     THEN Control(f, m, "FLUSHSTREAM", r, {})
     ELSE Control(f, m, "FLUSHSTREAM",
                  [r EXCEPT !.read_offset = m.body[1], !.wait_flush = FALSE, !.skip_timer = 0],
                  Send(f, r, "FLUSHCONF"))
did_recv_FLUSHCONF(f, m) ==
  Control(f, m, "FLUSHCONF", [fiber[f] EXCEPT !.flush_timer = 0], {})

did_recv(f, m) ==
  \/ did_recv_DIAL(f, m) \/ did_recv_DIALCONF(f, m) \/ did_recv_CONF(f, m)
  \/ did_recv_RST(f, m)
  \/ did_recv_DATA(f, m) \/ did_recv_ACK(f, m)
  \/ did_recv_SKIPSTREAM(f, m) \/ did_recv_FLUSHSTREAM(f, m) \/ did_recv_FLUSHCONF(f, m)

Init ==
  /\ fiber = [f \in Fibers |-> Fresh] /\ net = {} /\ nextId = 1
  /\ scenario \in Scenarios /\ controls = 0
  /\ handed = [f \in Fibers |-> {}] /\ told = [f \in Fibers |-> 0]

Calls(f) == did_dial(f) \/ send(f) \/ close(f) \/ flush_stream(f) \/ skip_stream(f)
TimersFire(f) ==
  \/ dial_timer_cb(f) \/ close_timer_cb(f) \/ flush_timer_cb(f) \/ skip_timer_cb(f)
  \/ ack_timer_cb(f) \/ pacing_timer_cb(f) \/ tlp_timer_cb(f)
Next ==
  \/ \E f \in Fibers : Calls(f) \/ TimersFire(f) \/ \E m \in net : did_recv(f, m)

Spec == Init /\ [][Next]_vars

-----------------------------------------------------------------------------
TypeOK ==
  /\ \A f \in Fibers :
       /\ fiber[f].state \in {"Listen", "DialSent", "DialRcvd", "Established", "Closing"}
       /\ {fiber[f].src, fiber[f].dst} \subseteq 0 .. scenario.ids
       /\ fiber[f].sent_offset <= Len(fiber[f].data) /\ fiber[f].next <= scenario.packets
  /\ nextId \in 1 .. scenario.ids + 1

(* No byte of one connection is handed up on another: a fiber that is used *)
(* again neither sends what is left of its last connection nor takes what  *)
(* is under way of it (reset, and the ids did_recv_DATA compares).  Nor is *)
(* its application told of a connection that it did not dial, because it   *)
(* dialled the one before (dialled in did_recv_DIALCONF and did_recv_CONF).*)
NothingAcross ==
  \A f \in Fibers : told[f] >= 0 /\ \A h \in handed[f] : h[1] = h[2]

(* While two fibers hold the same connection, the sender counts as acked   *)
(* only what the receiver has, whatever the ranges, packet numbers and     *)
(* offsets of their earlier connections were.                              *)
SameConnection(f, g) ==
  /\ fiber[f].state = "Established" /\ fiber[g].state = "Established"
  /\ fiber[f].src = fiber[g].dst /\ fiber[f].dst = fiber[g].src
AckedIsHeld ==
  \A f, g \in Fibers : f # g /\ SameConnection(f, g) /\ controls = 0 =>
    \A o \in 0 .. scenario.bytes :
      o < fiber[f].acked_offset \/ o \in fiber[f].outstanding_acks =>
        o < fiber[g].read_offset \/ o \in Held(fiber[g])
=============================================================================
