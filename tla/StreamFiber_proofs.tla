------------------------- MODULE StreamFiber_proofs -------------------------
(***************************************************************************)
(* Theorems of StreamFiber: what one connection leaves behind does not     *)
(* reach the next one.                                                     *)
(*                                                                         *)
(* An end is untouched until its connection is established, and what it    *)
(* sends and keeps then carries the pair of ids it has.  Ids are fresh, so *)
(* nothing that bears the id of an end was sent before the end drew it.    *)
(*                                                                         *)
(* At the end, a theorem of Simulation, the simulator the fibers run on in *)
(* tests: the order of its queue is kept whatever is started, stopped and  *)
(* sent from within an event, and each timer and datagram is in it once.   *)
(***************************************************************************)
EXTENDS StreamFiber, Simulation, AckRanges_proofs, FiniteSetTheorems

-----------------------------------------------------------------------------
(* The invariant                                                           *)

(* The states of a fiber, those of a handshake, and the packets not acked. *)
States == {"Listen", "DialSent", "DialRcvd", "Established", "Closing"}
Dialling == {"DialSent", "DialRcvd"}
Packets(r) == r.sent_packets \cup r.lost_packets

(* A byte the end has as receiver.                                         *)
Has(r, o) == o < r.read_offset \/ o \in Held(r)

(* A byte it counts as acked as sender.                                    *)
Counts(r, o) == o < r.acked_offset \/ o \in r.outstanding_acks

(* The packet numbers an ACK reports.                                      *)
Reported(m) == Seen([largest |-> m.body[1], ranges |-> Tail(m.body)])

(* An end that has no connection yet, or none any more.                    *)
Untouched(r) ==
  /\ r.data = <<>> /\ r.sent_offset = 0 /\ r.acked_offset = 0 /\ r.outstanding_acks = {}
  /\ r.next = 0 /\ r.sent_packets = {} /\ r.lost_packets = {}
  /\ r.read_offset = 0 /\ r.recv_packets = {} /\ r.ack_ranges = NoneSeen
  /\ r.pacing = FALSE /\ r.ack_timer = FALSE
  /\ r.flush_timer = 0 /\ r.skip_timer = 0 /\ r.tlp = 0

(* A fiber is a record of these fields.                                    *)
Shaped(r) == DOMAIN r = DOMAIN Fresh /\ r = [x \in DOMAIN Fresh |-> r[x]]

(* What it sends was written on its connection.                            *)
SendOK(r) ==
  /\ r.data \in Seq({r.src}) /\ r.sent_offset \in 0 .. Len(r.data) /\ r.next \in Nat
  /\ IsFiniteSet(r.sent_packets) /\ IsFiniteSet(r.lost_packets)
  /\ \A p \in Packets(r) : p.pn \in 0 .. r.next - 1 /\ p.offset \in Nat /\ p.on = r.src
  /\ \A p, q \in Packets(r) : p.pn = q.pn => p = q
  /\ r.acked_offset \in Nat /\ r.outstanding_acks \subseteq Nat /\ IsFiniteSet(r.outstanding_acks)

(* What it keeps came on its connection.                                   *)
RecvOK(r) ==
  /\ r.read_offset \in Nat /\ r.recv_packets \subseteq Nat \X {r.dst} /\ IsFiniteSet(r.recv_packets)
  /\ WellFormed(r.ack_ranges)

(* A fiber that has no connection is untouched, and has dialled nothing    *)
(* once it is back in Listen.                                              *)
FiberOK(r) ==
  /\ Shaped(r) /\ r.state \in States /\ r.dialled \in BOOLEAN
  /\ SendOK(r) /\ RecvOK(r)
  /\ r.state # "Established" => Untouched(r)
  /\ r.state = "Listen" => r.dialled = FALSE

(* N is the next id.                                                       *)
HoldsIds(r, N) == r.src \in 0 .. N - 1 /\ r.dst \in 0 .. N - 1

(* A datagram bears ids that were drawn, and a byte the id of the          *)
(* connection it was written on.                                           *)
MessageOK(m, N) ==
  /\ m.to \in Fibers /\ m.src \in 0 .. N - 1 /\ m.dst \in 0 .. N - 1
  /\ m.type = "DATA" => m.body[1] \in Nat /\ m.body[2] \in Nat /\ m.body[3] = m.dst
  /\ m.type = "FLUSHSTREAM" => m.body[1] \in Nat

(* did_dial is owed to an end that dialled.                                *)
Owed(f) ==
  /\ told[f] \in Nat
  /\ fiber[f].dialled = TRUE /\ fiber[f].state \in Dialling => told[f] = 1

(* What holds of each end alone and of each datagram.                      *)
Base ==
  /\ scenario \in Scenarios /\ controls \in Nat
  /\ nextId \in 1 .. scenario.ids + 1
  /\ DOMAIN fiber = Fibers /\ DOMAIN told = Fibers /\ DOMAIN handed = Fibers
  /\ \A f \in Fibers : /\ FiberOK(fiber[f]) /\ HoldsIds(fiber[f], nextId)
                       /\ fiber[f].next <= scenario.packets
                       /\ Owed(f)
                       /\ \A h \in handed[f] : h[1] = h[2]
  /\ \A m \in net : MessageOK(m, nextId)

(* Until flush_stream or skip_stream is called.                            *)
Plain ==
  controls = 0 =>
    /\ \A f \in Fibers : fiber[f].flush_timer = 0 /\ fiber[f].skip_timer = 0
    /\ \A m \in net : m.type \notin {"FLUSHSTREAM", "SKIPSTREAM"}

(* What end f has from the other one, g, before and after they are         *)
(* connected.  An end that dials has sent nothing under its id, and        *)
(* nothing was taken from it or reported to it.                            *)
Unheard(f, g) ==
  fiber[f].state \in Dialling =>
    /\ \A m \in net : m.type \in {"DATA", "ACK"} /\ m.to = g => m.dst # fiber[f].src
    /\ fiber[g].dst = fiber[f].src => Seen(fiber[g].ack_ranges) = {}
    /\ \A m \in net : m.type = "ACK" /\ m.to = f /\ m.src = fiber[f].src => Reported(m) = {}
    /\ fiber[g].state = "Established" /\ fiber[g].dst = fiber[f].src /\ controls = 0 =>
         \A o \in Nat : ~Counts(fiber[g], o)

(* The packet with this number, if f still waits for it, has reached g.    *)
Reached(f, g, pn) ==
  /\ pn < fiber[f].next
  /\ \A p \in Packets(fiber[f]) : p.pn = pn => Has(fiber[g], p.offset)

(* DATA that bears the ids of an end says what the packet of that number   *)
(* carries.                                                                *)
DataTrue(f, g) ==
  fiber[f].state = "Established" =>
    \A m \in net :
      m.type = "DATA" /\ m.to = g /\ m.dst = fiber[f].src /\ m.src = fiber[f].dst =>
        /\ m.body[1] < fiber[f].next
        /\ \A p \in Packets(fiber[f]) : p.pn = m.body[1] => p.offset = m.body[2]

(* On the same connection, what one end has seen or reports of the other   *)
(* has reached it, and so has what the other counts as acked.              *)
AcksTrue(f, g) ==
  SameConnection(f, g) =>
    /\ \A pn \in Seen(fiber[g].ack_ranges) : Reached(f, g, pn)
    /\ \A m \in net : m.type = "ACK" /\ m.to = f /\ m.src = fiber[f].src /\ m.dst = fiber[f].dst =>
         \A pn \in Reported(m) : Reached(f, g, pn)
    /\ controls = 0 => \A o \in Nat : Counts(fiber[f], o) => Has(fiber[g], o)

(* What end f may rely on of the other end, g.                             *)
Linked(f, g) == Unheard(f, g) /\ DataTrue(f, g) /\ AcksTrue(f, g)

(* The inductive invariant.                                                *)
Inv == Base /\ Plain /\ \A f \in Fibers : Linked(f, Other(f))

-----------------------------------------------------------------------------
(* One end moves                                                           *)

(* What an end takes over and sends.  It sends nothing under old ids and   *)
(* every packet it makes has a number of its own.                          *)
Writes(r, n, out) ==
  /\ n.next >= r.next /\ \A p \in Packets(n) : p \in Packets(r) \/ p.pn >= r.next
  /\ \A m \in out : m.type = "DATA" =>
       /\ m.dst = n.src /\ m.src = n.dst
       /\ \E p \in Packets(n) : p.pn >= r.next /\ p.pn = m.body[1] /\ p.offset = m.body[2]

(* It reports packets only that it has seen.                               *)
Reports(n, out) ==
  \A m \in out : m.type = "ACK" =>
    m.dst = n.src /\ m.src = n.dst /\ Reported(m) \subseteq Seen(n.ack_ranges)

(* A datagram to end x with the ids that n has.                            *)
Addressed(m, x, n, type) == m.type = type /\ m.to = x /\ m.src = n.src /\ m.dst = n.dst

(* It comes to see the packets of DATA that bears its ids, and keeps what  *)
(* that carries.                                                           *)
Caught(x, r, n) ==
  /\ \A o \in Nat : Has(r, o) => Has(n, o)
  /\ \A pn \in Seen(n.ack_ranges) :
       \/ pn \in Seen(r.ack_ranges)
       \/ \E m \in net : Addressed(m, x, n, "DATA") /\ m.body[1] = pn /\ Has(n, m.body[2])

(* It counts as acked the bytes of packets that an ACK with its ids has.   *)
Credits(x, r, n) ==
  controls' = 0 =>
    \A o \in Nat : Counts(n, o) =>
      \/ Counts(r, o)
      \/ \E m \in net : /\ Addressed(m, x, n, "ACK")
                       /\ \E p \in Packets(r) : p.offset = o /\ p.pn \in Reported(m)

(* What is sent carries no byte and no ack.                                *)
Quiet(out) == \A m \in out : m.type \notin {"DATA", "ACK"}

(* A step leaves end x idle, in Listen or Closing,                         *)
Rests(n, out) == n.state \in {"Listen", "Closing"} /\ Quiet(out)

(* in a handshake with a new id or the one it has,                         *)
Dials(r, n, out) ==
  /\ n.state \in Dialling /\ Quiet(out)
  /\ \/ /\ r.state = "Listen" /\ n.src = nextId /\ nextId' = nextId + 1
        /\ n.state = "DialSent" \/ n.dialled = FALSE
     \/ r.state \in Dialling /\ n.src = r.src /\ n.dialled = r.dialled

(* or connected.                                                           *)
Runs(x, r, n, out) ==
  /\ r.state \in Dialling \cup {"Established"} /\ n.state = "Established"
  /\ n.src = r.src /\ n.dialled = r.dialled /\ (r.state # "DialSent" => n.dst = r.dst)
  /\ Writes(r, n, out) /\ Reports(n, out) /\ Caught(x, r, n) /\ Credits(x, r, n)

(* What every step of end x has in common: it becomes n and sends out.     *)
Good(x, n, out) ==
  /\ FiberOK(n) /\ HoldsIds(n, nextId') /\ n.next <= scenario.packets
  /\ \A m \in out : MessageOK(m, nextId') /\ m.to = Other(x)
  /\ controls' = 0 => /\ n.flush_timer = 0 /\ n.skip_timer = 0
                      /\ \A m \in out : m.type \notin {"FLUSHSTREAM", "SKIPSTREAM"}

(* A step of end x.                                                        *)
Moves(x, n, out) ==
  /\ Become(x, n) /\ net' \subseteq net \cup out
  /\ nextId' \in nextId .. scenario.ids + 1 /\ scenario' = scenario
  /\ controls' \in Nat /\ (controls' = 0 => controls = 0)
  /\ DOMAIN handed' = Fibers /\ \A f \in Fibers : \A h \in handed'[f] : h[1] = h[2]
  /\ Good(x, n, out)
  /\ Rests(n, out) \/ Dials(fiber[x], n, out) \/ Runs(x, fiber[x], n, out)

(* The fields of a fiber.                                                  *)
LEMMA Names ==
  DOMAIN Fresh =
    {"state", "src", "dst", "dialled", "state_timer", "interval", "data", "sent_offset",
     "acked_offset", "outstanding_acks", "flush_timer", "next", "sent_packets", "lost_packets",
     "largest_acked", "in_queue", "pacing", "tlp", "tlp_interval", "read_offset", "recv_packets",
     "wait_flush", "skip_timer", "ack_ranges", "ack_timer"}
BY DEF Fresh

(* The ends are two.                                                       *)
LEMMA Others ==
  ASSUME NEW f \in Fibers
  PROVE  /\ Other(f) \in Fibers /\ Other(f) # f /\ Other(Other(f)) = f
         /\ \A g \in Fibers : g = f \/ g = Other(f)
BY FibersAssumption DEF FibersAssumption, Other

(* Nothing is seen by an end that is untouched.                            *)
LEMMA NothingSeen ==
  /\ Seen(NoneSeen) = {} /\ WellFormed(NoneSeen)
<1>1. NoneSeen = [ranges |-> <<>>, largest |-> 0] /\ DOMAIN NoneSeen.ranges = {}
  BY DEF NoneSeen
<1>2. Seen(NoneSeen) = {}
  BY <1>1 DEF Seen
<1>3. NoneSeen \in [ranges : Seq(Nat \ {0}), largest : Nat]
  BY <1>1, EmptySeq
<1>. QED BY <1>1, <1>2, <1>3 DEF WellFormed

(* An untouched end has seen and sent nothing.                             *)
LEMMA UntouchedHas ==
  ASSUME NEW r, Untouched(r)
  PROVE  /\ Seen(r.ack_ranges) = {} /\ Packets(r) = {}
         /\ \A o \in Nat : ~Counts(r, o)
BY NothingSeen DEF Untouched, Packets, Counts

(* Only end x changes, and its fiber holds ids below the next one.         *)
LEMMA MovesFrame ==
  ASSUME Inv, NEW x \in Fibers, NEW n, NEW out, Moves(x, n, out)
  PROVE  /\ fiber'[x] = n /\ fiber'[Other(x)] = fiber[Other(x)]
         /\ DOMAIN fiber' = Fibers
         /\ net' \subseteq net \cup out
         /\ \A m \in out : m.to = Other(x)
         /\ controls' = 0 => controls = 0
         /\ nextId \in Nat /\ nextId' \in Nat /\ nextId' >= nextId
<1>1. fiber' = [fiber EXCEPT ![x] = n]
  BY DEF Moves, Become
<1>2. DOMAIN fiber = Fibers /\ Other(x) \in Fibers /\ Other(x) # x
  BY Others DEF Inv, Base
<1>3. nextId \in 1 .. scenario.ids + 1 /\ scenario.ids \in Nat
  BY FibersAssumption DEF FibersAssumption, Inv, Base
<1>4. nextId \in Nat /\ nextId' \in Nat /\ nextId' >= nextId
  BY <1>3 DEF Moves
<1>. QED BY <1>1, <1>2, <1>4 DEF Moves, Good

(* Dials are counted from the one that did_dial begins.                    *)
LEMMA MovesOwed ==
  ASSUME Inv, NEW x \in Fibers, NEW n, NEW out, Moves(x, n, out)
  PROVE  DOMAIN told' = Fibers /\ \A f \in Fibers : Owed(f)'
<1>. DEFINE r == fiber[x]
            dials == r.state = "Listen" /\ n.state = "DialSent"
            opens == r.state # "Established" /\ n.state = "Established" /\ n.dialled
<1>1. told' = [told EXCEPT ![x] = CASE n.state = "Listen" -> 0
                                    [] dials -> 1
                                    [] opens -> @ - 1
                                    [] OTHER -> @]
  BY DEF Moves, Become
<1>2. DOMAIN told = Fibers /\ \A f \in Fibers : Owed(f)
  BY DEF Inv, Base
<1>3. FiberOK(n) /\ FiberOK(r)
  BY DEF Inv, Base, Moves, Good
<1>4. /\ n.state \in States /\ n.dialled \in BOOLEAN /\ r.dialled \in BOOLEAN
      /\ n.state = "Listen" => n.dialled = FALSE
  BY <1>3 DEF FiberOK
<1>5. fiber'[x] = n /\ \A f \in Fibers : f # x => fiber'[f] = fiber[f] /\ told'[f] = told[f]
  BY <1>1, <1>2, MovesFrame, Others
<1>6. told[x] \in Nat /\ (r.dialled = TRUE /\ r.state \in Dialling => told[x] = 1)
  BY <1>2 DEF Owed
<1>7. told'[x] \in Nat /\ (n.dialled = TRUE /\ n.state \in Dialling => told'[x] = 1)
  <2>1. CASE n.state = "Listen"
    BY <1>1, <1>2, <2>1 DEF Dialling
  <2>2. CASE n.state # "Listen" /\ dials
    BY <1>1, <1>2, <2>2 DEF Dialling
  <2>3. CASE n.state # "Listen" /\ ~dials /\ opens
    <3>1. told'[x] = told[x] - 1
      BY <1>1, <1>2, <2>3
    <3>2. r.state \in Dialling /\ r.dialled = n.dialled
      BY <2>3 DEF Moves, Rests, Dials, Runs, Dialling
    <3>3. told[x] = 1
      BY <1>4, <1>6, <2>3, <3>2
    <3>. QED BY <2>3, <3>1, <3>3 DEF Dialling
  <2>4. CASE n.state # "Listen" /\ ~dials /\ ~opens
    <3>1. told'[x] = told[x]
      BY <1>1, <1>2, <2>4
    <3>2. ASSUME n.dialled = TRUE, n.state \in Dialling
          PROVE  r.dialled = TRUE /\ r.state \in Dialling
      BY <2>4, <3>2 DEF Moves, Rests, Dials, Runs, Dialling
    <3>. QED BY <1>6, <3>1, <3>2
  <2>. QED BY <2>1, <2>2, <2>3, <2>4
<1>8. ASSUME NEW f \in Fibers PROVE Owed(f)'
  <2>1. CASE f = x
    BY <1>5, <1>7, <2>1 DEF Owed
  <2>2. CASE f # x
    BY <1>2, <1>5, <2>2 DEF Owed
  <2>. QED BY <2>1, <2>2
<1>. QED BY <1>1, <1>2, <1>8

(* A step keeps what holds of each end alone.                              *)
LEMMA MovesBase ==
  ASSUME Inv, NEW x \in Fibers, NEW n, NEW out, Moves(x, n, out)
  PROVE  Base' /\ Plain'
<1>1. /\ fiber'[x] = n /\ fiber'[Other(x)] = fiber[Other(x)] /\ DOMAIN fiber' = Fibers
      /\ net' \subseteq net \cup out
      /\ controls' = 0 => controls = 0
      /\ nextId \in Nat /\ nextId' \in Nat /\ nextId' >= nextId
  BY MovesFrame
<1>2. DOMAIN told' = Fibers /\ \A f \in Fibers : Owed(f)'
  BY MovesOwed
<1>3. scenario' = scenario /\ scenario \in Scenarios /\ controls' \in Nat
  BY DEF Moves, Inv, Base
<1>4. nextId' \in 1 .. scenario.ids + 1
  BY FibersAssumption DEF FibersAssumption, Moves, Inv, Base
<1>5. ASSUME NEW f \in Fibers
      PROVE  FiberOK(fiber'[f]) /\ HoldsIds(fiber'[f], nextId') /\ fiber'[f].next <= scenario.packets
  <2>1. CASE f = x
    BY <1>1, <2>1 DEF Moves, Good
  <2>2. CASE f = Other(x)
    <3>1. FiberOK(fiber[f]) /\ HoldsIds(fiber[f], nextId) /\ fiber[f].next <= scenario.packets
      BY DEF Inv, Base
    <3>2. HoldsIds(fiber[f], nextId')
      BY <1>1, <3>1 DEF HoldsIds
    <3>. QED BY <1>1, <2>2, <3>1, <3>2
  <2>. QED BY <2>1, <2>2, Others
<1>6. ASSUME NEW m \in net' PROVE MessageOK(m, nextId')
  <2>1. CASE m \in out
    BY <2>1 DEF Moves, Good
  <2>2. CASE m \in net
    <3>1. MessageOK(m, nextId)
      BY <2>2 DEF Inv, Base
    <3>. QED BY <1>1, <3>1 DEF MessageOK
  <2>. QED BY <1>1, <2>1, <2>2
<1>7. DOMAIN handed' = Fibers /\ \A f \in Fibers : \A h \in handed'[f] : h[1] = h[2]
  BY DEF Moves
<1>8. Base'
  BY <1>1, <1>2, <1>3, <1>4, <1>5, <1>6, <1>7 DEF Base
<1>9. Plain'
  <2>1. SUFFICES ASSUME controls' = 0
                 PROVE  /\ \A f \in Fibers : fiber'[f].flush_timer = 0 /\ fiber'[f].skip_timer = 0
                        /\ \A m \in net' : m.type \notin {"FLUSHSTREAM", "SKIPSTREAM"}
    BY DEF Plain
  <2>2. /\ \A f \in Fibers : fiber[f].flush_timer = 0 /\ fiber[f].skip_timer = 0
        /\ \A m \in net : m.type \notin {"FLUSHSTREAM", "SKIPSTREAM"}
    BY <1>1, <2>1 DEF Inv, Plain
  <2>3. /\ n.flush_timer = 0 /\ n.skip_timer = 0
        /\ \A m \in out : m.type \notin {"FLUSHSTREAM", "SKIPSTREAM"}
    BY <2>1 DEF Moves, Good
  <2>. QED BY <1>1, <2>2, <2>3, Others
<1>. QED BY <1>8, <1>9

(* What was there of packet numbers, ids and states before the step.       *)
LEMMA Before ==
  ASSUME Inv, NEW x \in Fibers
  PROVE  /\ FiberOK(fiber[x]) /\ HoldsIds(fiber[x], nextId)
         /\ fiber[x].state # "Established" => Untouched(fiber[x])
         /\ fiber[x].next \in Nat /\ fiber[x].src \in Nat /\ fiber[x].src < nextId
         /\ fiber[x].dst \in Nat /\ fiber[x].dst < nextId
         /\ \A p \in Packets(fiber[x]) : p.pn \in Nat /\ p.pn < fiber[x].next /\ p.offset \in Nat
         /\ nextId \in Nat
<1>1. FiberOK(fiber[x]) /\ HoldsIds(fiber[x], nextId) /\ nextId \in 1 .. scenario.ids + 1
  BY DEF Inv, Base
<1>2. nextId \in Nat
  BY <1>1, FibersAssumption DEF FibersAssumption, Inv, Base
<1>. QED BY <1>1, <1>2 DEF FiberOK, HoldsIds, SendOK

(* The ids of what is under way were drawn before.                         *)
LEMMA MessagesBefore ==
  ASSUME Inv
  PROVE  \A m \in net : /\ m.src \in Nat /\ m.src < nextId /\ m.dst \in Nat /\ m.dst < nextId
                        /\ m.type = "DATA" => m.body[1] \in Nat /\ m.body[2] \in Nat
<1>1. nextId \in Nat
  BY FibersAssumption DEF FibersAssumption, Inv, Base
<1>. QED BY <1>1 DEF Inv, Base, MessageOK

(* The packets of the new fiber that the old one had, and the others.      *)
LEMMA Numbers ==
  ASSUME Inv, NEW x \in Fibers, NEW n, NEW out, FiberOK(n), Writes(fiber[x], n, out)
  PROVE  /\ n.next \in Nat /\ n.next >= fiber[x].next
         /\ \A p \in Packets(n) : p.pn < fiber[x].next => p \in Packets(fiber[x])
         /\ \A p \in Packets(n) : p.pn \in Nat /\ p.pn < n.next /\ p.offset \in Nat
         /\ \A p, q \in Packets(n) : p.pn = q.pn => p = q
<1>1. fiber[x].next \in Nat
  BY Before
<1>2. /\ n.next \in Nat
      /\ \A p \in Packets(n) : p.pn \in Nat /\ p.pn < n.next /\ p.offset \in Nat
      /\ \A p, q \in Packets(n) : p.pn = q.pn => p = q
  BY DEF FiberOK, SendOK
<1>. QED BY <1>1, <1>2 DEF Writes

(* What the end that moves may say of the other one.                       *)
LEMMA MovesFrom ==
  ASSUME Inv, NEW x \in Fibers, NEW n, NEW out, Moves(x, n, out)
  PROVE  Linked(x, Other(x))'
<1>. DEFINE r == fiber[x]  y == Other(x)  q == fiber[y]
<1>1. /\ fiber'[x] = n /\ fiber'[y] = q /\ net' \subseteq net \cup out
      /\ \A m \in out : m.to = y
      /\ controls' = 0 => controls = 0
  BY MovesFrame
<1>2. y \in Fibers /\ y # x
  BY Others
<1>3. Unheard(x, y) /\ DataTrue(x, y) /\ AcksTrue(x, y)
  BY DEF Inv, Linked
<1>4. FiberOK(n) /\ (Rests(n, out) \/ Dials(r, n, out) \/ Runs(x, r, n, out))
  BY DEF Moves, Good
<1>5. q.dst \in Nat /\ q.dst < nextId /\ nextId \in Nat
  BY <1>2, Before
<1>6. Unheard(x, y)'
  <2>1. SUFFICES ASSUME n.state \in Dialling
        PROVE  /\ \A m \in net' : m.type \in {"DATA", "ACK"} /\ m.to = y => m.dst # n.src
               /\ q.dst = n.src => Seen(q.ack_ranges) = {}
               /\ \A m \in net' : m.type = "ACK" /\ m.to = x /\ m.src = n.src => Reported(m) = {}
               /\ q.state = "Established" /\ q.dst = n.src /\ controls' = 0 =>
                    \A o \in Nat : ~Counts(q, o)
    BY <1>1 DEF Unheard, Reported
  <2>2. Dials(r, n, out)
    BY <1>4, <2>1 DEF Rests, Runs, Dialling
  <2>3. \A m \in net' : m.type \in {"DATA", "ACK"} => m \in net
    BY <1>1, <2>2 DEF Dials, Quiet
  <2>4. CASE n.src = nextId
    BY <1>5, <2>3, <2>4, MessagesBefore
  <2>5. CASE r.state \in Dialling /\ n.src = r.src
    <3>1. /\ \A m \in net : m.type \in {"DATA", "ACK"} /\ m.to = y => m.dst # n.src
          /\ q.dst = n.src => Seen(q.ack_ranges) = {}
          /\ \A m \in net : m.type = "ACK" /\ m.to = x /\ m.src = n.src => Reported(m) = {}
          /\ q.state = "Established" /\ q.dst = n.src /\ controls = 0 =>
               \A o \in Nat : ~Counts(q, o)
      BY <1>3, <2>5 DEF Unheard
    <3>. QED BY <1>1, <2>3, <3>1
  <2>. QED BY <2>2, <2>4, <2>5 DEF Dials
<1>7. ASSUME n.state = "Established"
      PROVE  /\ Runs(x, r, n, out)
             /\ n.src = r.src
             /\ r.state = "Established" \/ (r.state \in Dialling /\ Untouched(r))
             /\ r.state = "Established" => n.dst = r.dst
  <2>1. Runs(x, r, n, out)
    BY <1>4, <1>7 DEF Rests, Dials, Dialling
  <2>. QED BY <2>1, Before DEF Runs, Dialling
<1>8. ASSUME n.state = "Established"
      PROVE  /\ n.next \in Nat /\ n.next >= r.next /\ r.next \in Nat
             /\ \A p \in Packets(n) : p.pn < r.next => p \in Packets(r)
             /\ \A p \in Packets(n) : p.pn \in Nat /\ p.pn < n.next /\ p.offset \in Nat
             /\ \A p, s \in Packets(n) : p.pn = s.pn => p = s
  <2>1. Writes(r, n, out)
    BY <1>7, <1>8 DEF Runs
  <2>. QED BY <1>4, <2>1, Numbers, Before
<1>9. DataTrue(x, y)'
  <2>1. SUFFICES ASSUME n.state = "Established", NEW m \in net',
                        m.type = "DATA", m.to = y, m.dst = n.src, m.src = n.dst
        PROVE  /\ m.body[1] < n.next
               /\ \A p \in Packets(n) : p.pn = m.body[1] => p.offset = m.body[2]
    BY <1>1 DEF DataTrue, Packets
  <2>2. CASE m \in out
    <3>1. PICK s \in Packets(n) : s.pn = m.body[1] /\ s.offset = m.body[2]
      BY <1>7, <2>1, <2>2 DEF Runs, Writes
    <3>. QED BY <1>8, <2>1, <3>1
  <2>3. CASE m \in net
    <3>1. r.state = "Established" /\ n.src = r.src /\ n.dst = r.dst
      BY <1>3, <1>7, <2>1, <2>3 DEF Unheard
    <3>2. /\ m.body[1] < r.next /\ m.body[1] \in Nat
          /\ \A p \in Packets(r) : p.pn = m.body[1] => p.offset = m.body[2]
      BY <1>3, <2>1, <2>3, <3>1, MessagesBefore DEF DataTrue
    <3>. QED BY <1>8, <2>1, <3>2
  <2>. QED BY <1>1, <2>2, <2>3
<1>10. AcksTrue(x, y)'
  <2>1. SUFFICES ASSUME n.state = "Established", q.state = "Established",
                        n.src = q.dst, n.dst = q.src
        PROVE  /\ \A pn \in Seen(q.ack_ranges) :
                    /\ pn < n.next
                    /\ \A p \in Packets(n) : p.pn = pn => Has(q, p.offset)
               /\ \A m \in net' :
                    m.type = "ACK" /\ m.to = x /\ m.src = n.src /\ m.dst = n.dst =>
                    \A pn \in Reported(m) :
                      /\ pn < n.next
                      /\ \A p \in Packets(n) : p.pn = pn => Has(q, p.offset)
               /\ controls' = 0 => \A o \in Nat : Counts(n, o) => Has(q, o)
    BY <1>1 DEF AcksTrue, SameConnection, Reached, Has, Held, Counts, Packets, Reported
  <2>2. SameConnection(x, y) \/ (r.state \in Dialling /\ Untouched(r) /\ n.src = r.src)
    BY <1>7, <2>1 DEF SameConnection
  <2>3. ASSUME NEW pn \in Int, Reached(x, y, pn)
        PROVE  pn < n.next /\ \A p \in Packets(n) : p.pn = pn => Has(q, p.offset)
    BY <1>8, <2>1, <2>3 DEF Reached
  <2>4. ASSUME NEW pn \in Seen(q.ack_ranges)
        PROVE  Reached(x, y, pn) /\ pn \in Int
    <3>1. SameConnection(x, y)
      BY <1>3, <2>1, <2>2, <2>4 DEF Unheard
    <3>. QED BY <1>3, <2>4, <3>1 DEF AcksTrue, Seen
  <2>5. ASSUME NEW m \in net', m.type = "ACK", m.to = x, m.src = n.src, m.dst = n.dst,
               NEW pn \in Reported(m)
        PROVE  Reached(x, y, pn) /\ pn \in Int
    <3>1. m \in net
      BY <1>1, <1>2, <2>5
    <3>2. SameConnection(x, y)
      BY <1>3, <2>1, <2>2, <2>5, <3>1 DEF Unheard
    <3>3. n.src = r.src /\ n.dst = r.dst
      BY <1>7, <2>1, <3>2 DEF SameConnection
    <3>4. Reached(x, y, pn)
      BY <1>3, <2>5, <3>1, <3>2, <3>3 DEF AcksTrue
    <3>5. pn \in Int
      BY <2>5 DEF Reported, Seen
    <3>. QED BY <3>4, <3>5
  <2>6. ASSUME controls' = 0, NEW o \in Nat, Counts(n, o)
        PROVE  Has(q, o)
    <3>1. CASE Counts(r, o)
      <4>1. SameConnection(x, y)
        BY <2>2, <3>1, UntouchedHas
      <4>. QED BY <1>1, <1>3, <2>6, <3>1, <4>1 DEF AcksTrue
    <3>2. ASSUME NEW m \in net, Addressed(m, x, n, "ACK"),
                 NEW p \in Packets(r), p.offset = o, p.pn \in Reported(m)
          PROVE  Has(q, o)
      <4>1. SameConnection(x, y)
        BY <2>2, <3>2, UntouchedHas
      <4>2. n.src = r.src /\ n.dst = r.dst
        BY <1>7, <2>1, <4>1 DEF SameConnection
      <4>3. Reached(x, y, p.pn)
        BY <1>3, <3>2, <4>1, <4>2 DEF AcksTrue, Addressed
      <4>. QED BY <3>2, <4>3 DEF Reached
    <3>. QED BY <1>7, <2>1, <2>6, <3>1, <3>2 DEF Runs, Credits
  <2>. QED BY <2>3, <2>4, <2>5, <2>6
<1>. QED BY <1>6, <1>9, <1>10 DEF Linked

(* What the other end may say of the one that moves.                       *)
LEMMA MovesTo ==
  ASSUME Inv, NEW x \in Fibers, NEW n, NEW out, Moves(x, n, out)
  PROVE  Linked(Other(x), x)'
<1>. DEFINE r == fiber[x]  y == Other(x)  q == fiber[y]
<1>1. /\ fiber'[x] = n /\ fiber'[y] = q /\ net' \subseteq net \cup out
      /\ \A m \in out : m.to = y
      /\ controls' = 0 => controls = 0
  BY MovesFrame
<1>2. y \in Fibers /\ y # x /\ Other(y) = x
  BY Others
<1>3. Unheard(x, y) /\ Unheard(y, x) /\ DataTrue(y, x) /\ AcksTrue(y, x)
  <2>1. Linked(x, y) /\ Linked(y, Other(y))
    BY <1>2 DEF Inv
  <2>. QED BY <1>2, <2>1 DEF Linked
<1>4. FiberOK(n) /\ (Rests(n, out) \/ Dials(r, n, out) \/ Runs(x, r, n, out))
  BY DEF Moves, Good
<1>5. ASSUME n.state = "Established"
      PROVE  /\ Runs(x, r, n, out)
             /\ n.src = r.src
             /\ r.state = "Established" \/ (r.state \in Dialling /\ Untouched(r))
             /\ r.state = "Established" => n.dst = r.dst
  <2>1. Runs(x, r, n, out)
    BY <1>4, <1>5 DEF Rests, Dials, Dialling
  <2>. QED BY <2>1, Before DEF Runs, Dialling
<1>6. ASSUME n.state # "Established"
      PROVE  Untouched(n) /\ Quiet(out)
  BY <1>4, <1>6 DEF FiberOK, Rests, Dials, Runs
<1>7. Unheard(y, x)'
  <2>1. SUFFICES ASSUME q.state \in Dialling
        PROVE  /\ \A m \in net' : m.type \in {"DATA", "ACK"} /\ m.to = x => m.dst # q.src
               /\ n.dst = q.src => Seen(n.ack_ranges) = {}
               /\ \A m \in net' : m.type = "ACK" /\ m.to = y /\ m.src = q.src => Reported(m) = {}
               /\ n.state = "Established" /\ n.dst = q.src /\ controls' = 0 =>
                    \A o \in Nat : ~Counts(n, o)
    BY <1>1 DEF Unheard, Reported
  <2>2. /\ \A m \in net : m.type \in {"DATA", "ACK"} /\ m.to = x => m.dst # q.src
        /\ r.dst = q.src => Seen(r.ack_ranges) = {}
        /\ \A m \in net : m.type = "ACK" /\ m.to = y /\ m.src = q.src => Reported(m) = {}
        /\ r.state = "Established" /\ r.dst = q.src /\ controls = 0 =>
             \A o \in Nat : ~Counts(r, o)
    BY <1>3, <2>1 DEF Unheard
  <2>3. \A m \in net' : m.to = x => m \in net
    BY <1>1, <1>2
  <2>4. ASSUME n.dst = q.src PROVE Seen(n.ack_ranges) = {}
    <3>1. CASE n.state # "Established"
      BY <1>6, <3>1, UntouchedHas
    <3>2. CASE n.state = "Established"
      <4>1. Seen(r.ack_ranges) = {}
        BY <1>5, <2>2, <2>4, <3>2, UntouchedHas
      <4>2. \A m \in net : ~Addressed(m, x, n, "DATA")
        BY <2>2, <2>4 DEF Addressed
      <4>3. Caught(x, r, n)
        BY <1>5, <3>2 DEF Runs
      <4>. QED BY <4>1, <4>2, <4>3 DEF Caught
    <3>. QED BY <3>1, <3>2
  <2>5. ASSUME NEW m \in net', m.type = "ACK", m.to = y, m.src = q.src
        PROVE  Reported(m) = {}
    <3>1. CASE m \in net
      BY <2>2, <2>5, <3>1
    <3>2. CASE m \in out
      <4>1. n.state = "Established"
        BY <1>6, <2>5, <3>2 DEF Quiet
      <4>2. m.src = n.dst /\ Reported(m) \subseteq Seen(n.ack_ranges)
        BY <1>5, <2>5, <3>2, <4>1 DEF Runs, Reports
      <4>. QED BY <2>4, <2>5, <4>2
    <3>. QED BY <1>1, <3>1, <3>2
  <2>6. ASSUME n.state = "Established", n.dst = q.src, controls' = 0, NEW o \in Nat,
               Counts(n, o)
        PROVE  FALSE
    <3>1. ~Counts(r, o)
      BY <1>1, <1>5, <2>2, <2>6, UntouchedHas
    <3>2. \A m \in net : ~Addressed(m, x, n, "ACK")
      BY <2>2, <2>6 DEF Addressed
    <3>3. Credits(x, r, n)
      BY <1>5, <2>6 DEF Runs
    <3>. QED BY <2>6, <3>1, <3>2, <3>3 DEF Credits
  <2>. QED BY <2>2, <2>3, <2>4, <2>5, <2>6
<1>8. DataTrue(y, x)'
  <2>1. \A m \in net' : m.to = x => m \in net
    BY <1>1, <1>2
  <2>. QED BY <1>1, <1>3, <2>1 DEF DataTrue
<1>9. AcksTrue(y, x)'
  <2>1. SUFFICES ASSUME n.state = "Established", q.state = "Established",
                        q.src = n.dst, q.dst = n.src
        PROVE  /\ \A pn \in Seen(n.ack_ranges) :
                    /\ pn < q.next
                    /\ \A p \in Packets(q) : p.pn = pn => Has(n, p.offset)
               /\ \A m \in net' :
                    m.type = "ACK" /\ m.to = y /\ m.src = q.src /\ m.dst = q.dst =>
                    \A pn \in Reported(m) :
                      /\ pn < q.next
                      /\ \A p \in Packets(q) : p.pn = pn => Has(n, p.offset)
               /\ controls' = 0 => \A o \in Nat : Counts(q, o) => Has(n, o)
    BY <1>1 DEF AcksTrue, SameConnection, Reached, Has, Held, Counts, Packets, Reported
  <2>2. SameConnection(y, x) \/ (r.state \in Dialling /\ Untouched(r) /\ n.src = r.src)
    BY <1>5, <2>1 DEF SameConnection
  <2>3. Caught(x, r, n) /\ Reports(n, out)
    BY <1>5, <2>1 DEF Runs
  <2>4. \A p \in Packets(q) : p.offset \in Nat
    BY <1>2, Before
  <2>5. ASSUME NEW pn, Reached(y, x, pn)
        PROVE  pn < q.next /\ \A p \in Packets(q) : p.pn = pn => Has(n, p.offset)
    BY <2>3, <2>4, <2>5 DEF Reached, Caught
  <2>6. ASSUME NEW pn \in Seen(n.ack_ranges)
        PROVE  pn < q.next /\ \A p \in Packets(q) : p.pn = pn => Has(n, p.offset)
    <3>1. CASE pn \in Seen(r.ack_ranges)
      <4>1. SameConnection(y, x)
        BY <2>2, <3>1, UntouchedHas
      <4>. QED BY <1>3, <2>5, <3>1, <4>1 DEF AcksTrue
    <3>2. ASSUME NEW m \in net, Addressed(m, x, n, "DATA"), m.body[1] = pn, Has(n, m.body[2])
          PROVE  pn < q.next /\ \A p \in Packets(q) : p.pn = pn => Has(n, p.offset)
      BY <1>3, <2>1, <3>2 DEF DataTrue, Addressed
    <3>. QED BY <2>3, <2>6, <3>1, <3>2 DEF Caught
  <2>7. ASSUME NEW m \in net', m.type = "ACK", m.to = y, m.src = q.src, m.dst = q.dst,
               NEW pn \in Reported(m)
        PROVE  pn < q.next /\ \A p \in Packets(q) : p.pn = pn => Has(n, p.offset)
    <3>1. CASE m \in out
      BY <2>3, <2>6, <2>7, <3>1 DEF Reports
    <3>2. CASE m \in net
      <4>1. SameConnection(y, x)
        BY <1>3, <2>1, <2>2, <2>7, <3>2 DEF Unheard
      <4>. QED BY <1>3, <2>5, <2>7, <3>2, <4>1 DEF AcksTrue
    <3>. QED BY <1>1, <3>1, <3>2
  <2>8. ASSUME controls' = 0, NEW o \in Nat, Counts(q, o)
        PROVE  Has(n, o)
    <3>1. SameConnection(y, x)
      BY <1>1, <1>3, <2>1, <2>2, <2>8 DEF Unheard
    <3>2. Has(r, o)
      BY <1>1, <1>3, <2>8, <3>1 DEF AcksTrue
    <3>. QED BY <2>3, <3>2 DEF Caught
  <2>. QED BY <2>6, <2>7, <2>8
<1>. QED BY <1>7, <1>8, <1>9 DEF Linked

(* Every step keeps the invariant.                                         *)
LEMMA MovesInv ==
  ASSUME Inv, NEW x \in Fibers, NEW n, NEW out, Moves(x, n, out)
  PROVE  Inv'
<1>1. Base' /\ Plain'
  BY MovesBase
<1>2. Linked(x, Other(x))' /\ Linked(Other(x), x)'
  BY MovesFrom, MovesTo
<1>3. ASSUME NEW f \in Fibers PROVE Linked(f, Other(f))'
  <2>1. CASE f = x
    BY <1>2, <2>1
  <2>2. CASE f = Other(x)
    <3>1. Other(f) = x
      BY <2>2, Others
    <3>. QED BY <1>2, <2>2, <3>1
  <2>. QED BY <2>1, <2>2, Others
<1>. QED BY <1>1, <1>3 DEF Inv

-----------------------------------------------------------------------------
(* Kinds of steps                                                          *)

(* Two fibers that differ in nothing their sender goes by,                 *)
SameSender(r, n) ==
  /\ n.data = r.data /\ n.sent_offset = r.sent_offset /\ n.next = r.next
  /\ n.sent_packets = r.sent_packets /\ n.lost_packets = r.lost_packets
  /\ n.acked_offset = r.acked_offset /\ n.outstanding_acks = r.outstanding_acks

(* nothing their receiver,                                                 *)
SameReceiver(r, n) ==
  n.read_offset = r.read_offset /\ n.recv_packets = r.recv_packets /\ n.ack_ranges = r.ack_ranges

(* their handshake                                                         *)
SameIds(r, n) ==
  n.state = r.state /\ n.dialled = r.dialled /\ n.src = r.src /\ n.dst = r.dst

(* or the timers of a connection go by.                                    *)
SameTimers(r, n) ==
  /\ n.pacing = r.pacing /\ n.ack_timer = r.ack_timer /\ n.tlp = r.tlp
  /\ n.flush_timer = r.flush_timer /\ n.skip_timer = r.skip_timer

(* Datagrams that carry nothing but ids.                                   *)
Bare(x, out) ==
  \A m \in out : /\ MessageOK(m, nextId) /\ m.to = Other(x)
                 /\ m.type \notin {"DATA", "ACK", "FLUSHSTREAM", "SKIPSTREAM"}

(* A sender that is as it was says nothing new.                            *)
LEMMA SenderKept ==
  ASSUME NEW r, NEW n, SendOK(r), SameSender(r, n), n.src = r.src
  PROVE  /\ SendOK(n)
         /\ \A out : (\A m \in out : m.type # "DATA") => Writes(r, n, out)
         /\ \A x : Credits(x, r, n)
<1>1. Packets(n) = Packets(r) /\ r.next \in Nat /\ n.next = r.next
  BY DEF SameSender, Packets, SendOK
<1>2. SendOK(n)
  BY <1>1 DEF SendOK, SameSender
<1>3. \A out : (\A m \in out : m.type # "DATA") => Writes(r, n, out)
  BY <1>1 DEF Writes
<1>4. \A x : Credits(x, r, n)
  BY DEF Credits, Counts, SameSender
<1>. QED BY <1>2, <1>3, <1>4

(* Neither does such a receiver.                                           *)
LEMMA ReceiverKept ==
  ASSUME NEW r, NEW n, RecvOK(r), SameReceiver(r, n), n.dst = r.dst
  PROVE  RecvOK(n) /\ \A x : Caught(x, r, n)
<1>1. RecvOK(n)
  BY DEF RecvOK, SameReceiver
<1>2. \A x : Caught(x, r, n)
  BY DEF Caught, SameReceiver, Has, Held
<1>. QED BY <1>1, <1>2

(* An untouched fiber is in order whatever its ids are.                    *)
LEMMA UntouchedOK ==
  ASSUME NEW r, Shaped(r), r.state \in States, r.dialled \in BOOLEAN, Untouched(r),
         r.state = "Listen" => r.dialled = FALSE
  PROVE  FiberOK(r)
<1>1. SendOK(r)
  <2>1. Packets(r) = {} /\ Len(r.data) = 0 /\ r.data \in Seq({r.src})
    BY EmptySeq DEF Untouched, Packets
  <2>. QED BY <2>1, FS_EmptySet DEF SendOK, Untouched
<1>2. RecvOK(r)
  BY NothingSeen, FS_EmptySet DEF RecvOK, Untouched
<1>. QED BY <1>1, <1>2 DEF FiberOK

(* A datagram of the handshake is bare.                                    *)
LEMMA Bares ==
  ASSUME Inv, NEW x \in Fibers, NEW type, NEW src \in 0 .. nextId - 1, NEW dst \in 0 .. nextId - 1,
         type \notin {"DATA", "ACK", "FLUSHSTREAM", "SKIPSTREAM"}
  PROVE  Bare(x, Datagram(x, type, src, dst, <<>>))
BY Others DEF Bare, Datagram, MessageOK

(* A step that draws no id, hands nothing up and sends only bare messages. *)
LEMMA Calm ==
  ASSUME Inv, NEW x \in Fibers, NEW n, NEW out,
         Become(x, n), net' \subseteq net \cup out, UNCHANGED <<nextId, bounded, handed>>,
         Bare(x, out), FiberOK(n), HoldsIds(n, nextId), n.next <= scenario.packets,
         n.flush_timer = 0 \/ n.flush_timer = fiber[x].flush_timer,
         n.skip_timer = 0 \/ n.skip_timer = fiber[x].skip_timer,
         n.state \in {"Listen", "Closing"} \/ Dials(fiber[x], n, out) \/ Runs(x, fiber[x], n, out)
  PROVE  Inv'
<1>1. Good(x, n, out)
  <2>1. controls' = 0 => n.flush_timer = 0 /\ n.skip_timer = 0
    BY DEF bounded, Inv, Plain
  <2>. QED BY <2>1 DEF Good, Bare
<1>2. Quiet(out)
  BY DEF Quiet, Bare
<1>3. Rests(n, out) \/ Dials(fiber[x], n, out) \/ Runs(x, fiber[x], n, out)
  BY <1>2 DEF Rests
<1>4. /\ nextId' \in nextId .. scenario.ids + 1 /\ scenario' = scenario
      /\ controls' \in Nat /\ (controls' = 0 => controls = 0)
      /\ DOMAIN handed' = Fibers /\ \A f \in Fibers : \A h \in handed'[f] : h[1] = h[2]
  <2>1. nextId \in 1 .. scenario.ids + 1 /\ scenario.ids \in Nat
    BY FibersAssumption DEF FibersAssumption, Inv, Base
  <2>. QED BY <2>1 DEF bounded, Inv, Base
<1>5. Moves(x, n, out)
  BY <1>1, <1>3, <1>4 DEF Moves
<1>. QED BY <1>5, MovesInv

(* The connection is over: reset, or close.                                *)
LEMMA Ends ==
  ASSUME Inv, NEW x \in Fibers, NEW n, NEW out,
         Become(x, n), net' \subseteq net \cup out, UNCHANGED <<nextId, bounded, handed>>,
         Bare(x, out), Shaped(n), n.state \in {"Listen", "Closing"}, n.dialled = FALSE,
         Untouched(n), HoldsIds(n, nextId)
  PROVE  Inv'
<1>1. FiberOK(n)
  BY UntouchedOK DEF States
<1>2. n.next <= scenario.packets
  BY FibersAssumption DEF FibersAssumption, Untouched, Inv, Base
<1>3. n.flush_timer = 0 /\ n.skip_timer = 0
  BY DEF Untouched
<1>. QED BY <1>1, <1>2, <1>3, Calm

(* reset() puts the end back to Listen.                                    *)
LEMMA Resets ==
  ASSUME Inv, NEW x \in Fibers, Become(x, Fresh), net' \subseteq net,
         UNCHANGED <<nextId, bounded, handed>>
  PROVE  Inv'
<1>1. Shaped(Fresh) /\ Fresh.state = "Listen" /\ Fresh.dialled = FALSE /\ Untouched(Fresh)
  BY DEF Shaped, Fresh, Untouched
<1>2. HoldsIds(Fresh, nextId)
  <2>1. Fresh.src = 0 /\ Fresh.dst = 0 /\ nextId \in Nat /\ nextId >= 1
    BY Before DEF Fresh
  <2>. QED BY <2>1 DEF HoldsIds
<1>3. Bare(x, {}) /\ net' \subseteq net \cup {}
  BY DEF Bare
<1>. QED BY <1>1, <1>2, <1>3, Ends

(* Only timers change, or nothing does.                                    *)
LEMMA Stays ==
  ASSUME Inv, NEW x \in Fibers, NEW n, NEW out,
         Become(x, n), net' \subseteq net \cup out, UNCHANGED <<nextId, bounded, handed>>,
         Bare(x, out), Shaped(n), SameIds(fiber[x], n), SameSender(fiber[x], n),
         SameReceiver(fiber[x], n),
         SameTimers(fiber[x], n) \/ (/\ n.state = "Established"
                                    /\ n.flush_timer \in {0, fiber[x].flush_timer}
                                    /\ n.skip_timer \in {0, fiber[x].skip_timer})
  PROVE  Inv'
<1>. DEFINE r == fiber[x]
<1>1. FiberOK(r) /\ HoldsIds(r, nextId) /\ r.next <= scenario.packets
  BY DEF Inv, Base
<1>2. SendOK(n) /\ RecvOK(n) /\ Caught(x, r, n) /\ Credits(x, r, n)
  BY <1>1, SenderKept, ReceiverKept DEF FiberOK, SameIds
<1>3. n.state # "Established" => Untouched(n)
  BY <1>1 DEF FiberOK, SameIds, SameSender, SameReceiver, SameTimers, Untouched
<1>4. FiberOK(n)
  BY <1>1, <1>2, <1>3 DEF FiberOK, SameIds
<1>5. HoldsIds(n, nextId) /\ n.next <= scenario.packets
  BY <1>1 DEF HoldsIds, SameIds, SameSender
<1>6. \A m \in out : m.type \notin {"DATA", "ACK"}
  BY DEF Bare
<1>7. Writes(r, n, out)
  BY <1>1, <1>6, SenderKept DEF FiberOK, SameIds
<1>8. n.state \in {"Listen", "Closing"} \/ Dials(r, n, out) \/ Runs(x, r, n, out)
  <2>1. r.state \in States /\ n.state = r.state
    BY <1>1 DEF FiberOK, SameIds
  <2>2. CASE r.state \in Dialling
    BY <1>6, <2>1, <2>2 DEF Dials, Quiet, SameIds
  <2>3. CASE r.state = "Established"
    BY <1>2, <1>6, <1>7, <2>1, <2>3 DEF Runs, SameIds, Reports
  <2>. QED BY <2>1, <2>2, <2>3 DEF States, Dialling
<1>9. /\ n.flush_timer = 0 \/ n.flush_timer = r.flush_timer
      /\ n.skip_timer = 0 \/ n.skip_timer = r.skip_timer
  BY DEF SameTimers
<1>. QED BY <1>4, <1>5, <1>8, <1>9, Calm

(* The end stays as it is, and may answer.                                 *)
LEMMA Silent ==
  ASSUME Inv, NEW x \in Fibers, NEW out,
         Become(x, fiber[x]), net' \subseteq net \cup out, UNCHANGED <<nextId, bounded, handed>>,
         Bare(x, out)
  PROVE  Inv'
<1>1. Shaped(fiber[x])
  BY DEF Inv, Base, FiberOK
<1>2. /\ SameIds(fiber[x], fiber[x]) /\ SameSender(fiber[x], fiber[x])
      /\ SameReceiver(fiber[x], fiber[x]) /\ SameTimers(fiber[x], fiber[x])
  BY DEF SameIds, SameSender, SameReceiver, SameTimers
<1>. QED BY <1>1, <1>2, Stays

(* The handshake is over.                                                  *)
LEMMA Opens ==
  ASSUME Inv, NEW x \in Fibers, NEW n, NEW out,
         Become(x, n), net' \subseteq net \cup out, UNCHANGED <<nextId, bounded, handed>>,
         Bare(x, out), Shaped(n), Untouched(n), n.state = "Established",
         fiber[x].state \in Dialling, n.src = fiber[x].src, n.dialled = fiber[x].dialled,
         HoldsIds(n, nextId), fiber[x].state = "DialSent" \/ n.dst = fiber[x].dst
  PROVE  Inv'
<1>. DEFINE r == fiber[x]
<1>1. FiberOK(r) /\ Untouched(r)
  BY DEF Inv, Base, FiberOK, Dialling
<1>2. FiberOK(n)
  BY <1>1, UntouchedOK DEF States, FiberOK
<1>3. n.next <= scenario.packets /\ n.flush_timer = 0 /\ n.skip_timer = 0
  BY FibersAssumption DEF FibersAssumption, Untouched, Inv, Base
<1>4. SameSender(r, n) /\ n.read_offset = r.read_offset /\ n.recv_packets = r.recv_packets
  BY <1>1 DEF SameSender, Untouched
<1>5. \A m \in out : m.type \notin {"DATA", "ACK"}
  BY DEF Bare
<1>6. Writes(r, n, out) /\ Credits(x, r, n)
  BY <1>1, <1>4, <1>5, SenderKept DEF FiberOK
<1>7. Caught(x, r, n)
  BY <1>4, UntouchedHas DEF Caught, Has, Held
<1>8. Runs(x, r, n, out)
  BY <1>5, <1>6, <1>7 DEF Runs, Reports
<1>. QED BY <1>2, <1>3, <1>8, Calm

-----------------------------------------------------------------------------
(* The actions that leave what was sent and received alone                 *)

(* close() keeps the ids and nothing else.                                 *)
LEMMA ClosesInv ==
  ASSUME Inv, NEW x \in Fibers, close(x)
  PROVE  Inv'
<1>. DEFINE r == fiber[x]
            c == [Fresh EXCEPT !.src = r.src, !.dst = r.dst, !.state = "Closing",
                               !.state_timer = "close", !.interval = 1]
<1>1. Become(x, c) /\ UNCHANGED <<net, nextId, bounded, handed>>
  BY DEF close, reset
<1>2. Shaped(c) /\ c.state = "Closing" /\ c.dialled = FALSE /\ Untouched(c)
      /\ c.src = r.src /\ c.dst = r.dst
  <2>1. Shaped(Fresh) /\ Untouched(Fresh) /\ Fresh.dialled = FALSE
    BY DEF Shaped, Fresh, Untouched
  <2>2. /\ Shaped(c) /\ c.state = "Closing" /\ c.dialled = Fresh.dialled
        /\ c.src = r.src /\ c.dst = r.dst
        /\ SameSender(Fresh, c) /\ SameReceiver(Fresh, c) /\ SameTimers(Fresh, c)
    BY <2>1, Names DEF Shaped, SameSender, SameReceiver, SameTimers
  <2>. HIDE DEF c
  <2>. QED BY <2>1, <2>2 DEF Untouched, SameSender, SameReceiver, SameTimers
<1>3. HoldsIds(c, nextId)
  BY <1>2 DEF Inv, Base, HoldsIds
<1>4. Bare(x, {}) /\ net' \subseteq net \cup {}
  BY <1>1 DEF Bare
<1>. HIDE DEF c
<1>. QED BY <1>1, <1>2, <1>3, <1>4, Ends

(* did_dial() draws an id and dials.                                       *)
LEMMA DialsInv ==
  ASSUME Inv, NEW x \in Fibers, did_dial(x)
  PROVE  Inv'
<1>. DEFINE r == fiber[x]
            d == [r EXCEPT !.state = "DialSent", !.dialled = TRUE, !.src = nextId,
                           !.state_timer = "dial", !.interval = 1]
            out == Send(x, d, "DIAL")
<1>1. /\ r.state = "Listen" /\ nextId <= scenario.ids /\ nextId' = nextId + 1
      /\ Become(x, d) /\ net' = net \cup out /\ UNCHANGED <<bounded, handed>>
  BY DEF did_dial, Post
<1>2. FiberOK(r) /\ Untouched(r) /\ HoldsIds(r, nextId) /\ nextId \in Nat
  BY <1>1, Before
<1>3. Shaped(r)
  BY <1>2 DEF FiberOK
<1>4. /\ Shaped(d) /\ d.state = "DialSent" /\ d.dialled = TRUE /\ d.src = nextId /\ d.dst = r.dst
      /\ SameSender(r, d) /\ SameReceiver(r, d) /\ SameTimers(r, d)
  BY <1>3, Names DEF Shaped, SameSender, SameReceiver, SameTimers
<1>. HIDE DEF d
<1>5. Untouched(d)
  BY <1>2, <1>4 DEF Untouched, SameSender, SameReceiver, SameTimers
<1>6. FiberOK(d)
  BY <1>4, <1>5, UntouchedOK DEF States
<1>7. \A m \in out : MessageOK(m, nextId') /\ m.to = Other(x) /\ m.type = "DIAL"
  BY <1>1, <1>2, <1>4, Others DEF Send, Datagram, MessageOK, HoldsIds
<1>8. Good(x, d, out)
  <2>1. HoldsIds(d, nextId')
    BY <1>1, <1>2, <1>4 DEF HoldsIds
  <2>2. d.next <= scenario.packets /\ d.flush_timer = 0 /\ d.skip_timer = 0
    BY <1>5, FibersAssumption DEF FibersAssumption, Untouched, Inv, Base
  <2>. QED BY <1>6, <1>7, <2>1, <2>2 DEF Good
<1>9. Dials(r, d, out)
  BY <1>1, <1>4, <1>7 DEF Dials, Quiet, Dialling
<1>10. nextId' \in nextId .. scenario.ids + 1
  BY <1>1, <1>2, FibersAssumption DEF FibersAssumption, Inv, Base
<1>11. Moves(x, d, out)
  BY <1>1, <1>8, <1>9, <1>10 DEF Moves, bounded, Inv, Base
<1>. QED BY <1>11, MovesInv

(* The dial and close timers send again or give up.                        *)
LEMMA HandshakeTimersInv ==
  ASSUME Inv, NEW x \in Fibers, dial_timer_cb(x) \/ close_timer_cb(x)
  PROVE  Inv'
<1>. DEFINE r == fiber[x]
            n == [r EXCEPT !.interval = @ + 1]
<1>1. Shaped(r) /\ HoldsIds(r, nextId)
  BY DEF Inv, Base, FiberOK
<1>2. Shaped(n) /\ SameIds(r, n) /\ SameSender(r, n) /\ SameReceiver(r, n) /\ SameTimers(r, n)
  BY <1>1, Names DEF Shaped, SameIds, SameSender, SameReceiver, SameTimers
<1>3. Bare(x, Send(x, r, "DIAL"))
  BY <1>1, Bares DEF Send, HoldsIds
<1>4. Bare(x, {})
  BY DEF Bare
<1>5. CASE GiveUp(x) /\ UNCHANGED <<nextId, bounded, handed>>
  BY <1>5, Resets DEF GiveUp, reset
<1>6. ASSUME NEW out, Retry(x, n, out), Bare(x, out), UNCHANGED <<nextId, bounded, handed>>
      PROVE  Inv'
  <2>1. Become(x, n) /\ net' \subseteq net \cup out
    BY <1>6 DEF Retry, Post
  <2>. HIDE DEF n
  <2>. QED BY <1>2, <1>6, <2>1, Stays
<1>. QED BY <1>3, <1>4, <1>5, <1>6 DEF dial_timer_cb, close_timer_cb

(* A datagram that is ignored or answered by RST changes nothing.          *)
LEMMA RefuseInv ==
  ASSUME Inv, NEW x \in Fibers, NEW m \in net, UNCHANGED nextId, Ignore(x, m) \/ Refuse(x, m)
  PROVE  Inv'
<1>1. m.src \in 0 .. nextId - 1 /\ m.dst \in 0 .. nextId - 1
  BY MessagesBefore DEF Inv, Base, MessageOK
<1>2. Bare(x, RST(x, m)) /\ Bare(x, {})
  <2>1. Bare(x, Datagram(x, "RST", m.src, m.dst, <<>>))
    BY <1>1, Bares
  <2>. QED BY <2>1 DEF RST, Bare
<1>3. ASSUME NEW out, Bare(x, out), Answer(x, m, fiber[x], out) PROVE Inv'
  <2>1. Become(x, fiber[x]) /\ net' \subseteq net \cup out /\ UNCHANGED <<bounded, handed>>
    BY <1>3 DEF Answer, Take
  <2>. QED BY <1>3, <2>1, Silent
<1>. QED BY <1>2, <1>3 DEF Ignore, Refuse

(* DIAL: an end in Listen draws an id, one that dialled takes the id of    *)
(* the other; else the answer is repeated.                                 *)
LEMMA DIALInv ==
  ASSUME Inv, NEW x \in Fibers, NEW m \in net, did_recv_DIAL(x, m)
  PROVE  Inv'
<1>. DEFINE r == fiber[x]
            a == [r EXCEPT !.state = "DialRcvd", !.dst = m.dst,
                           !.state_timer = "off", !.interval = 0]
            b == [a EXCEPT !.src = nextId]
<1>1. FiberOK(r) /\ HoldsIds(r, nextId) /\ nextId \in Nat /\ Shaped(r)
  BY Before DEF FiberOK
<1>2. m.dst \in 0 .. nextId - 1
  BY MessagesBefore DEF Inv, Base, MessageOK
<1>3. /\ Shaped(a) /\ a.state = "DialRcvd" /\ a.dialled = r.dialled /\ a.src = r.src
      /\ a.dst = m.dst /\ SameSender(r, a) /\ SameReceiver(r, a) /\ SameTimers(r, a)
  BY <1>1, Names DEF Shaped, SameSender, SameReceiver, SameTimers
<1>. HIDE DEF a
<1>4. /\ Shaped(b) /\ b.state = "DialRcvd" /\ b.dialled = r.dialled /\ b.src = nextId
      /\ b.dst = m.dst /\ SameSender(r, b) /\ SameReceiver(r, b) /\ SameTimers(r, b)
  BY <1>3, Names DEF Shaped, SameSender, SameReceiver, SameTimers
<1>. HIDE DEF b
<1>5. ASSUME NEW n, Untouched(r), SameSender(r, n), SameReceiver(r, n), SameTimers(r, n)
      PROVE  /\ Untouched(n) /\ n.next <= scenario.packets
             /\ n.flush_timer = 0 /\ n.skip_timer = 0
  <2>1. Untouched(n)
    BY <1>5 DEF Untouched, SameSender, SameReceiver, SameTimers
  <2>. QED BY <2>1, FibersAssumption DEF FibersAssumption, Untouched, Inv, Base
<1>6. CASE /\ r.state = "Listen" /\ nextId <= scenario.ids /\ nextId' = nextId + 1
           /\ Answer(x, m, b, Send(x, b, "DIALCONF"))
  <2>. DEFINE out == Send(x, b, "DIALCONF")
  <2>1. Become(x, b) /\ net' \subseteq net \cup out /\ UNCHANGED <<bounded, handed>>
    BY <1>6 DEF Answer, Take
  <2>2. Untouched(r) /\ r.dialled = FALSE
    BY <1>1, <1>6 DEF FiberOK
  <2>3. Untouched(b) /\ b.next <= scenario.packets /\ b.flush_timer = 0 /\ b.skip_timer = 0
    BY <1>4, <1>5, <2>2
  <2>4. FiberOK(b)
    BY <1>4, <2>2, <2>3, UntouchedOK DEF States
  <2>5. \A s \in out : MessageOK(s, nextId') /\ s.to = Other(x) /\ s.type = "DIALCONF"
    BY <1>1, <1>2, <1>4, <1>6, Others DEF Send, Datagram, MessageOK
  <2>6. HoldsIds(b, nextId')
    BY <1>1, <1>2, <1>4, <1>6 DEF HoldsIds
  <2>7. Good(x, b, out)
    BY <2>3, <2>4, <2>5, <2>6 DEF Good
  <2>8. Dials(r, b, out)
    BY <1>4, <1>6, <2>2, <2>5 DEF Dials, Quiet, Dialling
  <2>9. nextId' \in nextId .. scenario.ids + 1
    BY <1>1, <1>6, FibersAssumption DEF FibersAssumption, Inv, Base
  <2>10. Moves(x, b, out)
    BY <2>1, <2>7, <2>8, <2>9 DEF Moves, bounded, Inv, Base
  <2>. QED BY <2>10, MovesInv
<1>7. CASE /\ r.state = "DialSent" /\ Answer(x, m, a, Send(x, a, "DIALCONF")) /\ UNCHANGED nextId
  <2>. DEFINE out == Send(x, a, "DIALCONF")
  <2>1. Become(x, a) /\ net' \subseteq net \cup out /\ UNCHANGED <<nextId, bounded, handed>>
    BY <1>7 DEF Answer, Take
  <2>2. Untouched(r) /\ r.dialled \in BOOLEAN
    BY <1>1, <1>7 DEF FiberOK
  <2>3. Untouched(a) /\ a.next <= scenario.packets /\ a.flush_timer = 0 /\ a.skip_timer = 0
    BY <1>3, <1>5, <2>2
  <2>4. FiberOK(a)
    BY <1>3, <2>2, <2>3, UntouchedOK DEF States
  <2>5. HoldsIds(a, nextId)
    BY <1>1, <1>2, <1>3 DEF HoldsIds
  <2>6. Bare(x, out)
    BY <2>5, Bares DEF Send, HoldsIds
  <2>7. Dials(r, a, out)
    BY <1>3, <1>7, <2>6 DEF Dials, Quiet, Bare, Dialling
  <2>. QED BY <2>1, <2>3, <2>4, <2>5, <2>6, <2>7, Calm
<1>8. CASE Answer(x, m, r, Send(x, r, "DIALCONF")) /\ UNCHANGED nextId
  <2>1. Become(x, r) /\ net' \subseteq net \cup Send(x, r, "DIALCONF") /\ UNCHANGED <<bounded, handed>>
    BY <1>8 DEF Answer, Take
  <2>2. Bare(x, Send(x, r, "DIALCONF"))
    BY <1>1, Bares DEF Send, HoldsIds
  <2>. QED BY <1>8, <2>1, <2>2, Silent
<1>9. CASE Ignore(x, m) /\ UNCHANGED nextId
  BY <1>9, RefuseInv
<1>. QED BY <1>6, <1>7, <1>8, <1>9 DEF did_recv_DIAL, a, b

(* The handshake ends with the ids it has agreed on.                       *)
LEMMA EstablishInv ==
  ASSUME Inv, NEW x \in Fibers, NEW m \in net, NEW d, NEW out, UNCHANGED nextId, Bare(x, out),
         fiber[x].state \in Dialling, Shaped(d), Untouched(d), d.src = fiber[x].src,
         d.dialled = fiber[x].dialled, HoldsIds(d, nextId),
         fiber[x].state = "DialSent" \/ d.dst = fiber[x].dst,
         Establish(x, m, d, out)
  PROVE  Inv'
<1>. DEFINE n == [d EXCEPT !.state = "Established"]
<1>1. Become(x, n) /\ net' \subseteq net \cup out /\ UNCHANGED <<bounded, handed>>
  BY DEF Establish, Answer, Take
<1>2. /\ Shaped(n) /\ n.state = "Established" /\ n.dialled = d.dialled /\ n.src = d.src
      /\ n.dst = d.dst /\ SameSender(d, n) /\ SameReceiver(d, n) /\ SameTimers(d, n)
  BY Names DEF Shaped, SameSender, SameReceiver, SameTimers
<1>. HIDE DEF n
<1>3. Untouched(n)
  BY <1>2 DEF Untouched, SameSender, SameReceiver, SameTimers
<1>4. HoldsIds(n, nextId)
  BY <1>2 DEF HoldsIds
<1>. QED BY <1>1, <1>2, <1>3, <1>4, Opens

(* DIALCONF establishes the connection of the end that dialled.            *)
LEMMA DIALCONFInv ==
  ASSUME Inv, NEW x \in Fibers, NEW m \in net, did_recv_DIALCONF(x, m)
  PROVE  Inv'
<1>. DEFINE r == fiber[x]
            d == [r EXCEPT !.dst = m.dst, !.state_timer = "off", !.interval = 0]
<1>1. FiberOK(r) /\ HoldsIds(r, nextId) /\ Shaped(r)
  BY Before DEF FiberOK
<1>2. m.dst \in 0 .. nextId - 1 /\ nextId' = nextId
  BY MessagesBefore DEF Inv, Base, MessageOK, did_recv_DIALCONF
<1>3. /\ Shaped(d) /\ d.state = r.state /\ d.dialled = r.dialled /\ d.src = r.src
      /\ d.dst = m.dst /\ SameSender(r, d) /\ SameReceiver(r, d) /\ SameTimers(r, d)
  BY <1>1, Names DEF Shaped, SameSender, SameReceiver, SameTimers
<1>4. \/ r.state = "DialSent" /\ Establish(x, m, d, Send(x, d, "CONF"))
      \/ r.state = "DialRcvd" /\ Matches(r, m) /\ Establish(x, m, d, Send(x, d, "CONF"))
      \/ Answer(x, m, r, Send(x, r, "CONF"))
      \/ Ignore(x, m) \/ Refuse(x, m)
  BY DEF did_recv_DIALCONF
<1>. HIDE DEF d
<1>5. CASE /\ Establish(x, m, d, Send(x, d, "CONF"))
           /\ r.state = "DialSent" \/ (r.state = "DialRcvd" /\ Matches(r, m))
  <2>1. r.state \in Dialling /\ Untouched(r)
    BY <1>1, <1>5 DEF Dialling, FiberOK
  <2>2. Untouched(d)
    BY <1>3, <2>1 DEF Untouched, SameSender, SameReceiver, SameTimers
  <2>3. HoldsIds(d, nextId)
    BY <1>1, <1>2, <1>3 DEF HoldsIds
  <2>4. Bare(x, Send(x, d, "CONF"))
    BY <2>3, Bares DEF Send, HoldsIds
  <2>5. r.state = "DialSent" \/ d.dst = r.dst
    BY <1>3, <1>5 DEF Matches
  <2>. QED BY <1>2, <1>3, <1>5, <2>1, <2>2, <2>3, <2>4, <2>5, EstablishInv
<1>6. CASE Answer(x, m, r, Send(x, r, "CONF"))
  <2>1. Become(x, r) /\ net' \subseteq net \cup Send(x, r, "CONF") /\ UNCHANGED <<bounded, handed>>
    BY <1>6 DEF Answer, Take
  <2>2. Bare(x, Send(x, r, "CONF"))
    BY <1>1, Bares DEF Send, HoldsIds
  <2>. QED BY <1>2, <2>1, <2>2, Silent
<1>7. CASE Ignore(x, m) \/ Refuse(x, m)
  BY <1>2, <1>7, RefuseInv
<1>. QED BY <1>4, <1>5, <1>6, <1>7

(* CONF establishes the connection of the end that accepted.               *)
LEMMA CONFInv ==
  ASSUME Inv, NEW x \in Fibers, NEW m \in net, did_recv_CONF(x, m)
  PROVE  Inv'
<1>. DEFINE r == fiber[x]
<1>1. FiberOK(r) /\ HoldsIds(r, nextId) /\ Shaped(r) /\ UNCHANGED nextId
  BY Before DEF FiberOK, did_recv_CONF
<1>2. \/ r.state = "DialRcvd" /\ Establish(x, m, r, {})
      \/ Ignore(x, m) \/ Refuse(x, m)
  BY DEF did_recv_CONF
<1>3. CASE r.state = "DialRcvd" /\ Establish(x, m, r, {})
  <2>1. r.state \in Dialling /\ Untouched(r) /\ Bare(x, {})
    BY <1>1, <1>3 DEF Dialling, FiberOK, Bare
  <2>. QED BY <1>1, <1>3, <2>1, EstablishInv
<1>4. CASE Ignore(x, m) \/ Refuse(x, m)
  BY <1>1, <1>4, RefuseInv
<1>. QED BY <1>2, <1>3, <1>4

(* RST resets an end with its ids, or in Listen.                           *)
LEMMA RSTInv ==
  ASSUME Inv, NEW x \in Fibers, NEW m \in net, did_recv_RST(x, m)
  PROVE  Inv'
<1>1. UNCHANGED nextId /\ (Answer(x, m, Fresh, {}) \/ Ignore(x, m))
  BY DEF did_recv_RST, reset
<1>2. CASE Answer(x, m, Fresh, {})
  <2>1. Become(x, Fresh) /\ net' \subseteq net /\ UNCHANGED <<bounded, handed>>
    BY <1>2 DEF Answer, Take
  <2>. QED BY <1>1, <2>1, Resets
<1>3. CASE Ignore(x, m)
  BY <1>1, <1>3, RefuseInv
<1>. QED BY <1>1, <1>2, <1>3

-----------------------------------------------------------------------------
(* Helpers of the streams                                                  *)

(* The least of some numbers.                                              *)
LEMMA LeastOf ==
  ASSUME NEW T \in SUBSET Nat, T # {}
  PROVE  Min(T) \in T /\ \A y \in T : Min(T) <= y
<1>1. \E z \in T : \A y \in T : z <= y
  BY LeastNumber
<1>. QED BY <1>1 DEF Min

(* As many values of a function as there are arguments, at most.           *)
LEMMA ValuesFinite ==
  ASSUME NEW S, IsFiniteSet(S), NEW f, DOMAIN f = S
  PROVE  /\ IsFiniteSet({f[z] : z \in S}) /\ Cardinality({f[z] : z \in S}) <= Cardinality(S)
<1>. DEFINE T == {f[z] : z \in S}  g == [z \in S |-> f[z]]
<1>1. g \in Surjection(S, T)
  BY DEF Surjection
<1>. QED BY <1>1, FS_Surjection

(* Among k + 1 numbers in a row one is missing from a set of k, and the    *)
(* least such is where a stream can be read or acked to.                   *)
LEMMA GapFound ==
  ASSUME NEW S, IsFiniteSet(S), NEW a \in Nat, NEW k \in Nat, Cardinality(S) <= k,
         NEW end, end = Min({o \in a .. a + k : o \notin S})
  PROVE  /\ end \in a .. a + k /\ end \notin S
         /\ \A o \in a .. end - 1 : o \in S
<1>. DEFINE T == {o \in a .. a + k : o \notin S}
<1>1. T # {}
  <2>1. SUFFICES ASSUME T = {} PROVE FALSE
    OBVIOUS
  <2>2. a .. a + k \in SUBSET S
    BY <2>1
  <2>3. Cardinality(a .. a + k) <= Cardinality(S)
    BY <2>2, FS_Subset
  <2>4. Cardinality(a .. a + k) = k + 1
    <3>1. Cardinality(a .. a + k) = IF a > a + k THEN 0 ELSE (a + k) - a + 1
      BY FS_Interval
    <3>. QED BY <3>1
  <2>5. Cardinality(S) \in Nat
    BY FS_CardinalityType
  <2>. QED BY <2>3, <2>4, <2>5
<1>2. T \in SUBSET Nat
  OBVIOUS
<1>3. end \in T /\ \A y \in T : end <= y
  BY <1>1, <1>2, LeastOf
<1>4. ASSUME NEW o \in a .. end - 1 PROVE o \in S
  BY <1>3
<1>. QED BY <1>3, <1>4

(* The offset after the bytes handed up: the first one not held.           *)
LEMMA ReadToIs ==
  ASSUME NEW offset \in Nat, NEW todo, IsFiniteSet(todo), \A q \in todo : q[1] \in Nat
  PROVE  /\ ReadTo(offset, todo) \in Nat /\ ReadTo(offset, todo) >= offset
         /\ ReadTo(offset, todo) \notin {q[1] : q \in todo}
<1>. DEFINE f == [q \in todo |-> q[1]]  B == {q[1] : q \in todo}
            k == Cardinality(todo)  end == ReadTo(offset, todo)
<1>1. {f[q] : q \in todo} = B
  OBVIOUS
<1>2. IsFiniteSet(B) /\ Cardinality(B) <= k /\ k \in Nat
  <2>1. IsFiniteSet({f[q] : q \in todo}) /\ Cardinality({f[q] : q \in todo}) <= k
    BY ValuesFinite
  <2>2. k \in Nat
    BY FS_CardinalityType
  <2>. QED BY <1>1, <2>1, <2>2
<1>3. end = Min({o \in offset .. offset + k : o \notin B})
  BY DEF ReadTo
<1>. HIDE DEF B, k, end
<1>4. end \in offset .. offset + k /\ end \notin B
  BY <1>2, <1>3, GapFound
<1>. QED BY <1>2, <1>4 DEF B, end

(* All before the new acked_offset was acked, now or earlier.              *)
LEMMA AckedToIs ==
  ASSUME NEW r, SendOK(r), NEW acked, IsFiniteSet(acked), acked \subseteq Nat
  PROVE  /\ AckedTo(r, acked) \in Nat /\ AckedTo(r, acked) >= r.acked_offset
         /\ \A o \in r.acked_offset .. AckedTo(r, acked) - 1 : o \in acked \/ o \in r.outstanding_acks
<1>. DEFINE S == acked \cup r.outstanding_acks  k == Cardinality(S)  a == r.acked_offset
            end == AckedTo(r, acked)
<1>1. IsFiniteSet(S) /\ a \in Nat
  BY FS_Union DEF SendOK
<1>2. k \in Nat /\ Cardinality(S) <= k
  <2>1. k \in Nat /\ k = Cardinality(S)
    BY <1>1, FS_CardinalityType
  <2>. QED BY <2>1
<1>3. end = Min({o \in a .. a + k : o \notin S})
  BY DEF AckedTo
<1>. HIDE DEF S, k, end, a
<1>4. end \in a .. a + k /\ \A o \in a .. end - 1 : o \in S
  BY <1>1, <1>2, <1>3, GapFound
<1>. QED BY <1>1, <1>2, <1>4 DEF S, end, a

(* What Received makes of a byte of the connection.                        *)
LEMMA ReceivedIs ==
  ASSUME NEW q, Shaped(q), RecvOK(q), NEW offset \in Nat,
         NEW n, n = Received(q, offset, q.dst)
  PROVE  /\ Shaped(n) /\ RecvOK(n)
         /\ SameIds(q, n) /\ SameSender(q, n) /\ SameTimers(q, n)
         /\ n.ack_ranges = q.ack_ranges
         /\ \A o \in Nat : Has(q, o) => Has(n, o)
         /\ Has(n, offset)
<1>. DEFINE todo == IF offset \in Held(q) THEN q.recv_packets
                     ELSE q.recv_packets \cup {<<offset, q.dst>>}
            end == ReadTo(offset, todo)
            kept == {p \in todo : p[1] >= end}
<1>1. /\ q.read_offset \in Nat /\ q.recv_packets \subseteq Nat \X {q.dst}
      /\ IsFiniteSet(q.recv_packets) /\ WellFormed(q.ack_ranges)
  BY DEF RecvOK
<1>2. /\ todo \subseteq Nat \X {q.dst} /\ IsFiniteSet(todo)
      /\ q.recv_packets \subseteq todo /\ \E p \in todo : p[1] = offset
  <2>1. IsFiniteSet(todo)
    BY <1>1, FS_AddElement
  <2>2. todo \subseteq Nat \X {q.dst} /\ q.recv_packets \subseteq todo
    BY <1>1
  <2>3. \E p \in todo : p[1] = offset
    <3>1. CASE offset \in Held(q)
      <4>1. PICK p \in q.recv_packets : p[1] = offset
        BY <3>1 DEF Held
      <4>. QED BY <2>2, <4>1
    <3>2. CASE offset \notin Held(q)
      <4>1. <<offset, q.dst>> \in todo /\ <<offset, q.dst>>[1] = offset
        BY <3>2
      <4>. QED BY <4>1
    <3>. QED BY <3>1, <3>2
  <2>. QED BY <2>1, <2>2, <2>3
<1>3. \A p \in todo : p[1] \in Nat
  BY <1>2
<1>. HIDE DEF todo
<1>4. /\ end \in Nat /\ end >= offset /\ end # offset
  <2>1. end \in Nat /\ end >= offset /\ end \notin {p[1] : p \in todo}
    BY <1>2, <1>3, ReadToIs
  <2>. QED BY <1>2, <2>1
<1>. HIDE DEF end
<1>5. CASE offset < q.read_offset
  <2>1. n = q
    BY <1>5 DEF Received
  <2>. QED BY <1>1, <1>5, <2>1 DEF SameIds, SameSender, SameTimers, Has
<1>6. CASE offset = q.read_offset
  <2>1. n = [q EXCEPT !.read_offset = end, !.recv_packets = kept]
    BY <1>6 DEF Received, todo, end
  <2>. HIDE DEF kept
  <2>2. /\ Shaped(n) /\ n.read_offset = end /\ n.recv_packets = kept /\ n.dst = q.dst
        /\ SameIds(q, n) /\ SameSender(q, n) /\ SameTimers(q, n) /\ n.ack_ranges = q.ack_ranges
    BY <2>1, Names DEF Shaped, SameIds, SameSender, SameTimers
  <2>3. kept \subseteq todo /\ IsFiniteSet(kept)
    BY <1>2, FS_Subset DEF kept
  <2>4. RecvOK(n)
    BY <1>1, <1>2, <1>4, <2>2, <2>3 DEF RecvOK
  <2>5. ASSUME NEW o \in Nat, Has(q, o) PROVE Has(n, o)
    <3>1. CASE o < end
      BY <2>2, <3>1 DEF Has
    <3>2. CASE ~(o < end)
      <4>1. ~(o < q.read_offset)
        BY <1>4, <1>6, <3>2
      <4>2. PICK p \in q.recv_packets : p[1] = o
        BY <2>5, <4>1 DEF Has, Held
      <4>3. p \in kept
        BY <1>2, <1>4, <3>2, <4>2 DEF kept
      <4>. QED BY <2>2, <4>2, <4>3 DEF Has, Held
    <3>. QED BY <3>1, <3>2
  <2>6. Has(n, offset)
    BY <1>4, <2>2 DEF Has
  <2>. QED BY <2>2, <2>4, <2>5, <2>6
<1>7. CASE offset > q.read_offset
  <2>1. n = [q EXCEPT !.recv_packets = todo]
    BY <1>1, <1>7 DEF Received, todo
  <2>2. /\ Shaped(n) /\ n.read_offset = q.read_offset /\ n.recv_packets = todo /\ n.dst = q.dst
        /\ SameIds(q, n) /\ SameSender(q, n) /\ SameTimers(q, n) /\ n.ack_ranges = q.ack_ranges
    BY <2>1, Names DEF Shaped, SameIds, SameSender, SameTimers
  <2>3. RecvOK(n)
    BY <1>1, <1>2, <2>2 DEF RecvOK
  <2>4. \A o \in Nat : Has(q, o) => Has(n, o)
    BY <1>2, <2>2 DEF Has, Held
  <2>5. Has(n, offset)
    BY <1>2, <2>2 DEF Has, Held
  <2>. QED BY <2>2, <2>3, <2>4, <2>5
<1>. QED BY <1>1, <1>5, <1>6, <1>7

-----------------------------------------------------------------------------
(* The actions of an open connection                                       *)

(* A step of a connected end, its ids as they were.                        *)
LEMMA Carries ==
  ASSUME Inv, NEW x \in Fibers, NEW n, NEW out,
         Become(x, n), net' \subseteq net \cup out, UNCHANGED <<nextId, scenario>>,
         controls' \in {controls, controls + 1},
         DOMAIN handed' = Fibers, \A f \in Fibers : \A h \in handed'[f] : h[1] = h[2],
         fiber[x].state \in {"DialRcvd", "Established"}, Shaped(n), n.state = "Established",
         n.dialled = fiber[x].dialled, n.src = fiber[x].src, n.dst = fiber[x].dst,
         SendOK(n), RecvOK(n), n.next <= scenario.packets,
         \A m \in out : MessageOK(m, nextId) /\ m.to = Other(x),
         controls' = 0 => /\ n.flush_timer = 0 /\ n.skip_timer = 0
                          /\ \A m \in out : m.type \notin {"FLUSHSTREAM", "SKIPSTREAM"},
         Writes(fiber[x], n, out), Reports(n, out), Caught(x, fiber[x], n), Credits(x, fiber[x], n)
  PROVE  Inv'
<1>1. FiberOK(fiber[x]) /\ HoldsIds(fiber[x], nextId)
  BY DEF Inv, Base
<1>2. FiberOK(n)
  BY <1>1 DEF FiberOK, States
<1>3. HoldsIds(n, nextId)
  BY <1>1 DEF HoldsIds
<1>4. Good(x, n, out)
  BY <1>2, <1>3 DEF Good
<1>5. Runs(x, fiber[x], n, out)
  BY DEF Runs, Dialling
<1>6. nextId' \in nextId .. scenario.ids + 1
  <2>1. nextId \in 1 .. scenario.ids + 1 /\ scenario.ids \in Nat
    BY FibersAssumption DEF FibersAssumption, Inv, Base
  <2>. QED BY <2>1
<1>7. controls' \in Nat /\ (controls' = 0 => controls = 0)
  BY DEF Inv, Base
<1>8. Moves(x, n, out)
  BY <1>4, <1>5, <1>6, <1>7 DEF Moves
<1>. QED BY <1>8, MovesInv

(* The history is not touched, nor the receiver.                           *)
LEMMA HandedKept ==
  ASSUME Inv, UNCHANGED handed
  PROVE  DOMAIN handed' = Fibers /\ \A f \in Fibers : \A h \in handed'[f] : h[1] = h[2]
BY DEF Inv, Base

(* send() queues a byte of this connection.                                *)
LEMMA SendsInv ==
  ASSUME Inv, NEW x \in Fibers, send(x)
  PROVE  Inv'
<1>. DEFINE r == fiber[x]
            n == [r EXCEPT !.data = Append(@, r.src), !.in_queue = TRUE, !.pacing = TRUE,
                           !.tlp = IF Idle(r) THEN r.tlp_interval ELSE @]
<1>1. FiberOK(r) /\ Shaped(r) /\ SendOK(r) /\ RecvOK(r) /\ r.next <= scenario.packets
  BY DEF FiberOK, Inv, Base
<1>2. r.state = "Established" /\ Become(x, n) /\ UNCHANGED <<net, nextId, bounded, handed>>
  BY DEF send
<1>3. /\ Shaped(n) /\ SameIds(r, n) /\ SameReceiver(r, n)
      /\ n.data = Append(r.data, r.src) /\ n.sent_offset = r.sent_offset /\ n.next = r.next
      /\ n.sent_packets = r.sent_packets /\ n.lost_packets = r.lost_packets
      /\ n.acked_offset = r.acked_offset /\ n.outstanding_acks = r.outstanding_acks
      /\ n.flush_timer = r.flush_timer /\ n.skip_timer = r.skip_timer
  BY <1>1, Names DEF Shaped, SameIds, SameReceiver
<1>. HIDE DEF n
<1>4. n.state = "Established" /\ n.dialled = r.dialled /\ n.src = r.src /\ n.dst = r.dst
  BY <1>2, <1>3 DEF SameIds
<1>5. Packets(n) = Packets(r) /\ r.next \in Nat
  BY <1>1, <1>3 DEF Packets, SendOK
<1>6. SendOK(n)
  <2>1. r.data \in Seq({r.src}) /\ r.sent_offset \in 0 .. Len(r.data)
    BY <1>1 DEF SendOK
  <2>2. n.data \in Seq({r.src}) /\ Len(n.data) = Len(r.data) + 1 /\ Len(r.data) \in Nat
    BY <1>3, <2>1, AppendProperties, LenProperties
  <2>3. n.sent_offset \in 0 .. Len(n.data)
    BY <1>3, <2>1, <2>2
  <2>. QED BY <1>1, <1>3, <1>4, <1>5, <2>2, <2>3 DEF SendOK
<1>7. RecvOK(n) /\ Caught(x, r, n)
  BY <1>1, <1>3, <1>4, ReceiverKept
<1>8. Writes(r, n, {}) /\ Reports(n, {}) /\ Credits(x, r, n)
  BY <1>3, <1>5 DEF Writes, Reports, Credits, Counts
<1>9. controls' = 0 => n.flush_timer = 0 /\ n.skip_timer = 0
  BY <1>2, <1>3 DEF bounded, Inv, Plain
<1>10. scenario' = scenario /\ controls' = controls /\ net' \subseteq net \cup {}
  BY <1>2 DEF bounded
<1>11. DOMAIN handed' = Fibers /\ \A f \in Fibers : \A h \in handed'[f] : h[1] = h[2]
  BY <1>2, HandedKept
<1>. QED BY <1>1, <1>2, <1>3, <1>4, <1>6, <1>7, <1>8, <1>9, <1>10, <1>11, Carries

(* A connected end flushes, skips or is told to: from then on controls is  *)
(* not 0.                                                                  *)
LEMMA Steers ==
  ASSUME Inv, NEW x \in Fibers, NEW n, NEW out, fiber[x].state = "Established",
         Become(x, n), net' \subseteq net \cup out, UNCHANGED <<nextId, scenario, handed>>,
         controls' \in {controls, controls + 1}, controls' # 0, Shaped(n), SameIds(fiber[x], n),
         SendOK(n), RecvOK(n), n.next = fiber[x].next, Packets(n) \subseteq Packets(fiber[x]),
         Caught(x, fiber[x], n),
         \A m \in out : /\ MessageOK(m, nextId) /\ m.to = Other(x)
                        /\ m.type \notin {"DATA", "ACK"}
  PROVE  Inv'
<1>1. n.state = "Established" /\ n.dialled = fiber[x].dialled
      /\ n.src = fiber[x].src /\ n.dst = fiber[x].dst
  BY DEF SameIds
<1>2. n.next <= scenario.packets /\ n.next >= fiber[x].next
  BY DEF Inv, Base, SendOK
<1>3. Writes(fiber[x], n, out) /\ Reports(n, out) /\ Credits(x, fiber[x], n)
  BY <1>2 DEF Writes, Reports, Credits
<1>4. DOMAIN handed' = Fibers /\ \A f \in Fibers : \A h \in handed'[f] : h[1] = h[2]
  BY HandedKept
<1>. QED BY <1>1, <1>2, <1>3, <1>4, Carries

(* A flush forgets all packets and nothing that was received.              *)
LEMMA FlushedIs ==
  ASSUME NEW r, FiberOK(r), r.state = "Established", NEW n, n = Flushed(r)
  PROVE  /\ Shaped(n) /\ SameIds(r, n) /\ SendOK(n) /\ RecvOK(n) /\ n.next = r.next
         /\ Packets(n) = {} /\ \A x : Caught(x, r, n)
<1>1. Shaped(r) /\ SendOK(r) /\ RecvOK(r)
  BY DEF FiberOK
<1>2. /\ Shaped(n) /\ SameIds(r, n) /\ SameReceiver(r, n)
      /\ n.data = SubSeq(r.data, 1, r.sent_offset) /\ n.sent_offset = r.sent_offset
      /\ n.next = r.next /\ n.sent_packets = {} /\ n.lost_packets = {}
      /\ n.acked_offset = r.sent_offset /\ n.outstanding_acks = {}
  BY <1>1, Names DEF Flushed, Shaped, SameIds, SameReceiver
<1>3. Packets(n) = {} /\ n.src = r.src /\ n.dst = r.dst
  BY <1>2 DEF Packets, SameIds
<1>4. SendOK(n)
  <2>1. r.data \in Seq({r.src}) /\ r.sent_offset \in 0 .. Len(r.data) /\ Len(r.data) \in Nat
    BY <1>1, LenProperties DEF SendOK
  <2>2. n.data \in Seq({r.src}) /\ Len(n.data) = r.sent_offset
    <3>1. \A i \in 1 .. r.sent_offset : r.data[i] \in {r.src}
      BY <2>1, ElementOfSeq
    <3>. QED BY <1>2, <2>1, <3>1, SubSeqProperties
  <2>. QED BY <1>1, <1>2, <1>3, <2>1, <2>2, FS_EmptySet DEF SendOK
<1>5. RecvOK(n) /\ \A x : Caught(x, r, n)
  BY <1>1, <1>2, <1>3, ReceiverKept
<1>. QED BY <1>2, <1>3, <1>4, <1>5

(* A datagram with the ids of the end and an offset.                       *)
LEMMA Offsets ==
  ASSUME Inv, NEW x \in Fibers, NEW offset, NEW type \in {"FLUSHSTREAM", "SKIPSTREAM"},
         type = "FLUSHSTREAM" => offset \in Nat
  PROVE  \A m \in SendOffset(x, fiber[x], type, offset) :
           /\ MessageOK(m, nextId) /\ m.to = Other(x) /\ m.type \notin {"DATA", "ACK"}
<1>1. HoldsIds(fiber[x], nextId)
  BY DEF Inv, Base
<1>. QED BY <1>1, Others DEF SendOffset, Datagram, MessageOK, HoldsIds

(* flush_stream() and skip_stream().                                       *)
LEMMA ControlsInv ==
  ASSUME Inv, NEW x \in Fibers, flush_stream(x) \/ skip_stream(x)
  PROVE  Inv'
<1>. DEFINE r == fiber[x]
<1>1. FiberOK(r) /\ SendOK(r) /\ RecvOK(r) /\ Shaped(r)
  BY DEF Inv, Base, FiberOK
<1>2. r.sent_offset \in Nat /\ r.next \in Nat
  <2>1. Len(r.data) \in Nat /\ r.sent_offset \in 0 .. Len(r.data)
    BY <1>1, LenProperties DEF SendOK
  <2>. QED BY <1>1, <2>1 DEF SendOK
<1>3. ASSUME controls' = controls + 1 PROVE controls' # 0
  BY <1>3 DEF Inv, Base
<1>4. CASE flush_stream(x)
  <2>. DEFINE n == Flushed(r)  out == SendOffset(x, r, "FLUSHSTREAM", r.sent_offset)
  <2>1. /\ r.state = "Established" /\ controls' = controls + 1 /\ Become(x, n)
        /\ net' \subseteq net \cup out /\ UNCHANGED <<nextId, scenario, handed>>
    BY <1>4 DEF flush_stream, Post
  <2>2. /\ Shaped(n) /\ SameIds(r, n) /\ SendOK(n) /\ RecvOK(n) /\ n.next = r.next
        /\ Packets(n) \subseteq Packets(r) /\ Caught(x, r, n)
    BY <1>1, <2>1, FlushedIs
  <2>3. \A m \in out : MessageOK(m, nextId) /\ m.to = Other(x) /\ m.type \notin {"DATA", "ACK"}
    BY <1>2, Offsets
  <2>. HIDE DEF n, out
  <2>. QED BY <1>3, <2>1, <2>2, <2>3, Steers
<1>5. CASE skip_stream(x)
  <2>. DEFINE n == [r EXCEPT !.wait_flush = TRUE, !.skip_timer = 1]
              out == SendOffset(x, r, "SKIPSTREAM", SkipOffset(r))
  <2>1. /\ r.state = "Established" /\ controls' = controls + 1 /\ Become(x, n)
        /\ net' \subseteq net \cup out /\ UNCHANGED <<nextId, scenario, handed>>
    BY <1>5 DEF skip_stream, Post
  <2>2. Shaped(n) /\ SameIds(r, n) /\ SameSender(r, n) /\ SameReceiver(r, n)
    BY <1>1, Names DEF Shaped, SameIds, SameSender, SameReceiver
  <2>3. \A m \in out : MessageOK(m, nextId) /\ m.to = Other(x) /\ m.type \notin {"DATA", "ACK"}
    BY Offsets
  <2>. HIDE DEF n, out
  <2>4. n.src = r.src /\ n.dst = r.dst /\ n.next = r.next /\ Packets(n) \subseteq Packets(r)
    BY <2>2 DEF SameIds, SameSender, Packets
  <2>5. SendOK(n) /\ RecvOK(n) /\ Caught(x, r, n)
    BY <1>1, <2>2, <2>4, SenderKept, ReceiverKept
  <2>. QED BY <1>3, <2>1, <2>2, <2>3, <2>4, <2>5, Steers
<1>. QED BY <1>4, <1>5

(* Their timers send again or give up.                                     *)
LEMMA ControlTimersInv ==
  ASSUME Inv, NEW x \in Fibers, flush_timer_cb(x) \/ skip_timer_cb(x)
  PROVE  Inv'
<1>. DEFINE r == fiber[x]
<1>1. FiberOK(r) /\ SendOK(r) /\ RecvOK(r) /\ Shaped(r)
  BY DEF Inv, Base, FiberOK
<1>2. r.flush_timer > 0 \/ r.skip_timer > 0
  BY DEF flush_timer_cb, skip_timer_cb
<1>3. r.state = "Established" /\ controls # 0
  <2>1. r.flush_timer # 0 \/ r.skip_timer # 0
    BY <1>2
  <2>. QED BY <1>1, <2>1 DEF FiberOK, Untouched, Inv, Plain
<1>4. r.sent_offset \in Nat
  BY <1>1, LenProperties DEF SendOK
<1>5. CASE GiveUp(x) /\ UNCHANGED <<nextId, bounded, handed>>
  BY <1>5, Resets DEF GiveUp, reset
<1>6. ASSUME NEW n, NEW out, Retry(x, n, out), UNCHANGED <<nextId, bounded, handed>>,
             Shaped(n), SameIds(r, n), SameSender(r, n), SameReceiver(r, n),
             \A m \in out : MessageOK(m, nextId) /\ m.to = Other(x) /\ m.type \notin {"DATA", "ACK"}
      PROVE  Inv'
  <2>1. n.src = r.src /\ n.dst = r.dst /\ n.next = r.next /\ Packets(n) \subseteq Packets(r)
    BY <1>6 DEF SameIds, SameSender, Packets
  <2>2. SendOK(n) /\ RecvOK(n) /\ Caught(x, r, n)
    BY <1>1, <1>6, <2>1, SenderKept, ReceiverKept
  <2>3. /\ Become(x, n) /\ net' \subseteq net \cup out /\ UNCHANGED <<nextId, scenario, handed>>
        /\ controls' = controls
    BY <1>6 DEF Retry, Post, bounded
  <2>. QED BY <1>3, <1>6, <2>1, <2>2, <2>3, Steers
<1>7. CASE flush_timer_cb(x)
  <2>. DEFINE n == [r EXCEPT !.flush_timer = @ + 1]
              out == SendOffset(x, r, "FLUSHSTREAM", r.sent_offset)
  <2>1. /\ GiveUp(x) \/ Retry(x, n, out)
        /\ UNCHANGED <<nextId, bounded, handed>>
    BY <1>7 DEF flush_timer_cb
  <2>2. Shaped(n) /\ SameIds(r, n) /\ SameSender(r, n) /\ SameReceiver(r, n)
    BY <1>1, Names DEF Shaped, SameIds, SameSender, SameReceiver
  <2>3. \A m \in out : MessageOK(m, nextId) /\ m.to = Other(x) /\ m.type \notin {"DATA", "ACK"}
    BY <1>4, Offsets
  <2>. HIDE DEF n, out
  <2>. QED BY <1>5, <1>6, <2>1, <2>2, <2>3
<1>8. CASE skip_timer_cb(x)
  <2>. DEFINE n == [r EXCEPT !.skip_timer = @ + 1]
              out == SendOffset(x, r, "SKIPSTREAM", SkipOffset(r))
  <2>1. /\ GiveUp(x) \/ Retry(x, n, out)
        /\ UNCHANGED <<nextId, bounded, handed>>
    BY <1>8 DEF skip_timer_cb
  <2>2. Shaped(n) /\ SameIds(r, n) /\ SameSender(r, n) /\ SameReceiver(r, n)
    BY <1>1, Names DEF Shaped, SameIds, SameSender, SameReceiver
  <2>3. \A m \in out : MessageOK(m, nextId) /\ m.to = Other(x) /\ m.type \notin {"DATA", "ACK"}
    BY Offsets
  <2>. HIDE DEF n, out
  <2>. QED BY <1>5, <1>6, <2>1, <2>2, <2>3
<1>. QED BY <1>7, <1>8

(* The ACK reports what was seen on this connection, or less.              *)
LEMMA AckTimerInv ==
  ASSUME Inv, NEW x \in Fibers, ack_timer_cb(x)
  PROVE  Inv'
<1>. DEFINE r == fiber[x]
            n == [r EXCEPT !.ack_timer = FALSE]
            out == ACK(x, r)
            ar == r.ack_ranges
<1>1. FiberOK(r) /\ SendOK(r) /\ RecvOK(r) /\ Shaped(r) /\ r.next <= scenario.packets
      /\ HoldsIds(r, nextId)
  BY DEF Inv, Base, FiberOK
<1>2. /\ r.ack_timer /\ Become(x, n) /\ net' \subseteq net \cup out
      /\ UNCHANGED <<nextId, scenario, controls, handed>>
  BY DEF ack_timer_cb, Retry, Post, bounded
<1>3. r.state = "Established"
  BY <1>1, <1>2 DEF FiberOK, Untouched
<1>4. /\ Shaped(n) /\ SameIds(r, n) /\ SameSender(r, n) /\ SameReceiver(r, n)
      /\ n.flush_timer = r.flush_timer /\ n.skip_timer = r.skip_timer
  BY <1>1, Names DEF Shaped, SameIds, SameSender, SameReceiver
<1>. HIDE DEF n
<1>5. /\ n.state = "Established" /\ n.dialled = r.dialled /\ n.src = r.src /\ n.dst = r.dst
      /\ n.next <= scenario.packets /\ n.ack_ranges = ar
  BY <1>1, <1>3, <1>4 DEF SameIds, SameSender, SameReceiver
<1>6. ASSUME NEW m \in out
      PROVE  /\ m.type = "ACK" /\ m.to = Other(x) /\ m.src = r.dst /\ m.dst = r.src
             /\ Reported(m) \subseteq Seen(ar)
  <2>1. m = [type |-> "ACK", to |-> Other(x), src |-> r.dst, dst |-> r.src,
             body |-> <<ar.largest>> \o Carried(ar).ranges]
    BY <1>6 DEF ACK, Datagram
  <2>2. /\ Carried(ar) \in [ranges : Seq(Nat \ {0}), largest : Nat]
        /\ Carried(ar).largest = ar.largest /\ Seen(Carried(ar)) \subseteq Seen(ar)
    BY <1>1, CarriedIsSeen DEF RecvOK
  <2>3. m.body[1] = ar.largest /\ Tail(m.body) = Carried(ar).ranges
    <3>1. \A a, s : s \in Seq(Nat \ {0}) => (<<a>> \o s)[1] = a /\ Tail(<<a>> \o s) = s
      OBVIOUS
    <3>. QED BY <2>1, <2>2, <3>1
  <2>4. [largest |-> m.body[1], ranges |-> Tail(m.body)] = Carried(ar)
    BY <2>2, <2>3
  <2>. QED BY <2>1, <2>2, <2>4 DEF Reported
<1>7. ASSUME NEW m \in out
      PROVE  /\ MessageOK(m, nextId) /\ m.to = Other(x)
             /\ m.type \notin {"FLUSHSTREAM", "SKIPSTREAM", "DATA"}
  BY <1>1, <1>6, Others DEF MessageOK, HoldsIds
<1>. HIDE DEF out
<1>8. SendOK(n) /\ RecvOK(n) /\ Caught(x, r, n) /\ Credits(x, r, n) /\ Writes(r, n, out)
  BY <1>1, <1>4, <1>5, <1>7, SenderKept, ReceiverKept
<1>9. Reports(n, out)
  BY <1>5, <1>6 DEF Reports
<1>10. controls' = 0 => n.flush_timer = 0 /\ n.skip_timer = 0
  BY <1>2, <1>4 DEF Inv, Plain
<1>11. DOMAIN handed' = Fibers /\ \A f \in Fibers : \A h \in handed'[f] : h[1] = h[2]
  BY <1>2, HandedKept
<1>. QED BY <1>2, <1>3, <1>4, <1>5, <1>7, <1>8, <1>9, <1>10, <1>11, Carries

(* The tail loss probe takes all packets for lost, or gives up.            *)
LEMMA TlpInv ==
  ASSUME Inv, NEW x \in Fibers, tlp_timer_cb(x)
  PROVE  Inv'
<1>. DEFINE r == fiber[x]
            a == [r EXCEPT !.tlp = 0, !.tlp_interval = 1]
            b == [r EXCEPT !.lost_packets = @ \cup r.sent_packets, !.sent_packets = {},
                           !.pacing = TRUE, !.tlp_interval = @ + 1, !.tlp = r.tlp_interval + 1]
<1>1. FiberOK(r) /\ SendOK(r) /\ RecvOK(r) /\ Shaped(r) /\ r.next <= scenario.packets
  BY DEF Inv, Base, FiberOK
<1>2. /\ r.tlp > 0 /\ UNCHANGED <<nextId, bounded, handed>>
      /\ Retry(x, a, {}) \/ Retry(x, b, {}) \/ GiveUp(x)
  BY DEF tlp_timer_cb
<1>3. r.state = "Established"
  BY <1>1, <1>2 DEF FiberOK, Untouched
<1>4. /\ Shaped(a) /\ SameIds(r, a) /\ SameSender(r, a) /\ SameReceiver(r, a)
      /\ a.flush_timer = r.flush_timer /\ a.skip_timer = r.skip_timer
  BY <1>1, Names DEF Shaped, SameIds, SameSender, SameReceiver
<1>5. /\ Shaped(b) /\ SameIds(r, b) /\ SameReceiver(r, b)
      /\ b.data = r.data /\ b.sent_offset = r.sent_offset /\ b.next = r.next
      /\ b.sent_packets = {} /\ b.lost_packets = r.lost_packets \cup r.sent_packets
      /\ b.acked_offset = r.acked_offset /\ b.outstanding_acks = r.outstanding_acks
      /\ b.flush_timer = r.flush_timer /\ b.skip_timer = r.skip_timer
  BY <1>1, Names DEF Shaped, SameIds, SameReceiver
<1>. HIDE DEF a, b
<1>6. CASE Retry(x, a, {})
  <2>1. Become(x, a) /\ net' \subseteq net \cup {} /\ Bare(x, {})
    BY <1>6 DEF Retry, Post, Bare
  <2>2. a.state = "Established" /\ a.flush_timer \in {0, r.flush_timer} /\ a.skip_timer \in {0, r.skip_timer}
    BY <1>3, <1>4 DEF SameIds
  <2>. QED BY <1>2, <1>4, <2>1, <2>2, Stays
<1>7. CASE Retry(x, b, {})
  <2>1. Become(x, b) /\ net' \subseteq net \cup {}
    BY <1>7 DEF Retry, Post
  <2>2. /\ b.state = "Established" /\ b.dialled = r.dialled /\ b.src = r.src /\ b.dst = r.dst
        /\ b.next <= scenario.packets
    BY <1>1, <1>3, <1>5 DEF SameIds
  <2>3. Packets(b) = Packets(r) /\ r.next \in Nat
    BY <1>1, <1>5 DEF Packets, SendOK
  <2>4. IsFiniteSet(b.sent_packets) /\ IsFiniteSet(b.lost_packets)
    <3>1. IsFiniteSet(r.lost_packets) /\ IsFiniteSet(r.sent_packets)
      BY <1>1 DEF SendOK
    <3>2. IsFiniteSet(r.lost_packets \cup r.sent_packets)
      BY <3>1, FS_Union
    <3>. QED BY <1>5, <3>2, FS_EmptySet
  <2>5. SendOK(b)
    BY <1>1, <1>5, <2>2, <2>3, <2>4 DEF SendOK
  <2>6. RecvOK(b) /\ Caught(x, r, b)
    BY <1>1, <1>5, <2>2, ReceiverKept
  <2>7. Writes(r, b, {}) /\ Reports(b, {}) /\ Credits(x, r, b)
    BY <1>5, <2>3 DEF Writes, Reports, Credits, Counts
  <2>8. controls' = 0 => b.flush_timer = 0 /\ b.skip_timer = 0
    BY <1>2, <1>5 DEF bounded, Inv, Plain
  <2>9. DOMAIN handed' = Fibers /\ \A f \in Fibers : \A h \in handed'[f] : h[1] = h[2]
    BY <1>2, HandedKept
  <2>10. UNCHANGED <<nextId, scenario>> /\ controls' = controls
    BY <1>2 DEF bounded
  <2>. QED BY <1>3, <1>5, <2>1, <2>2, <2>5, <2>6, <2>7, <2>8, <2>9, <2>10, Carries
<1>8. CASE GiveUp(x)
  BY <1>2, <1>8, Resets DEF GiveUp, reset
<1>. QED BY <1>2, <1>6, <1>7, <1>8

(* SKIPSTREAM, FLUSHSTREAM and FLUSHCONF.                                  *)
LEMMA AsksInv ==
  ASSUME Inv, NEW x \in Fibers, NEW m \in net, m.type \in {"FLUSHSTREAM", "SKIPSTREAM"},
         NEW type, NEW n, NEW out, Control(x, m, type, n, out),
         Shaped(n), SameIds(fiber[x], n), SendOK(n), RecvOK(n), n.next = fiber[x].next,
         Packets(n) \subseteq Packets(fiber[x]), Caught(x, fiber[x], n),
         \A s \in out : /\ MessageOK(s, nextId) /\ s.to = Other(x)
                        /\ s.type \notin {"DATA", "ACK"}
  PROVE  Inv'
<1>1. /\ UNCHANGED nextId
      /\ \/ Refuse(x, m) \/ Ignore(x, m)
         \/ fiber[x].state = "Established" /\ Answer(x, m, n, out)
  <2>1. FiberOK(fiber[x])
    BY DEF Inv, Base
  <2>. QED BY DEF Control
<1>2. CASE Refuse(x, m) \/ Ignore(x, m)
  BY <1>1, <1>2, RefuseInv
<1>3. CASE fiber[x].state = "Established" /\ Answer(x, m, n, out)
  <2>1. /\ Become(x, n) /\ net' \subseteq net \cup out /\ UNCHANGED <<nextId, scenario, handed>>
        /\ controls' = controls
    BY <1>1, <1>3 DEF Answer, Take, bounded
  <2>2. controls' # 0
    BY <2>1 DEF Inv, Plain
  <2>. QED BY <1>3, <2>1, <2>2, Steers
<1>. QED BY <1>1, <1>2, <1>3

(* SKIPSTREAM makes the sender flush.                                      *)
LEMMA SKIPSTREAMInv ==
  ASSUME Inv, NEW x \in Fibers, NEW m \in net, did_recv_SKIPSTREAM(x, m)
  PROVE  Inv'
<1>. DEFINE r == fiber[x]
<1>1. FiberOK(r) /\ SendOK(r) /\ RecvOK(r) /\ Shaped(r)
  BY DEF Inv, Base, FiberOK
<1>2. r.sent_offset \in Nat /\ r.acked_offset \in Nat
  BY <1>1, LenProperties DEF SendOK
<1>3. m.type = "SKIPSTREAM"
  BY DEF did_recv_SKIPSTREAM, Control, Receive
<1>4. ASSUME NEW offset \in Nat
      PROVE  \A s \in SendOffset(x, r, "FLUSHSTREAM", offset) :
               MessageOK(s, nextId) /\ s.to = Other(x) /\ s.type \notin {"DATA", "ACK"}
  BY Offsets
<1>5. SameIds(r, r) /\ SameReceiver(r, r) /\ Caught(x, r, r)
  BY <1>1, ReceiverKept DEF SameIds, SameReceiver
<1>6. CASE Control(x, m, "SKIPSTREAM", r, SendOffset(x, r, "FLUSHSTREAM", r.acked_offset))
  BY <1>1, <1>2, <1>3, <1>4, <1>5, <1>6, AsksInv
<1>7. CASE Control(x, m, "SKIPSTREAM", Flushed(r), SendOffset(x, r, "FLUSHSTREAM", r.sent_offset))
  <2>1. CASE r.state = "Established"
    <3>. DEFINE n == Flushed(r)
    <3>1. /\ Shaped(n) /\ SameIds(r, n) /\ SendOK(n) /\ RecvOK(n) /\ n.next = r.next
          /\ Packets(n) \subseteq Packets(r) /\ Caught(x, r, n)
      BY <1>1, <2>1, FlushedIs
    <3>. HIDE DEF n
    <3>2. Control(x, m, "SKIPSTREAM", n, SendOffset(x, r, "FLUSHSTREAM", r.sent_offset))
      BY <1>7 DEF n
    <3>. QED BY <1>2, <1>3, <1>4, <3>1, <3>2, AsksInv
  <2>2. CASE r.state # "Established"
    <3>1. UNCHANGED nextId /\ (Refuse(x, m) \/ Ignore(x, m))
      BY <1>7, <2>2 DEF Control
    <3>. QED BY <3>1, RefuseInv
  <2>. QED BY <2>1, <2>2
<1>. QED BY <1>6, <1>7 DEF did_recv_SKIPSTREAM

(* FLUSHSTREAM moves read_offset on: nothing the end has is lost.          *)
LEMMA FLUSHSTREAMInv ==
  ASSUME Inv, NEW x \in Fibers, NEW m \in net, did_recv_FLUSHSTREAM(x, m)
  PROVE  Inv'
<1>. DEFINE r == fiber[x]
            n == [r EXCEPT !.read_offset = m.body[1], !.wait_flush = FALSE, !.skip_timer = 0]
<1>1. FiberOK(r) /\ SendOK(r) /\ RecvOK(r) /\ Shaped(r) /\ HoldsIds(r, nextId)
  BY DEF Inv, Base, FiberOK
<1>2. m.type = "FLUSHSTREAM"
  BY DEF did_recv_FLUSHSTREAM, Control, Receive
<1>3. m.body[1] \in Nat /\ r.read_offset \in Nat
  BY <1>1, <1>2 DEF Inv, Base, MessageOK, RecvOK
<1>4. SameIds(r, r) /\ SameReceiver(r, r) /\ Caught(x, r, r)
  BY <1>1, ReceiverKept DEF SameIds, SameReceiver
<1>5. CASE Control(x, m, "FLUSHSTREAM", r, {})
  BY <1>1, <1>2, <1>4, <1>5, AsksInv
<1>6. CASE /\ ~(r.read_offset >= m.body[1])
           /\ Control(x, m, "FLUSHSTREAM", n, Send(x, r, "FLUSHCONF"))
  <2>. DEFINE out == Send(x, r, "FLUSHCONF")
  <2>1. /\ Shaped(n) /\ SameIds(r, n) /\ SameSender(r, n) /\ n.read_offset = m.body[1]
        /\ n.recv_packets = r.recv_packets /\ n.ack_ranges = r.ack_ranges
    BY <1>1, Names DEF Shaped, SameIds, SameSender
  <2>2. Bare(x, out)
    BY <1>1, Bares DEF Send, HoldsIds
  <2>3. \A s \in out : MessageOK(s, nextId) /\ s.to = Other(x) /\ s.type \notin {"DATA", "ACK"}
    BY <2>2 DEF Bare
  <2>. HIDE DEF n, out
  <2>4. n.src = r.src /\ n.dst = r.dst /\ n.next = r.next /\ Packets(n) \subseteq Packets(r)
    BY <2>1 DEF SameIds, SameSender, Packets
  <2>5. SendOK(n)
    BY <1>1, <2>1, <2>4, SenderKept
  <2>6. RecvOK(n)
    BY <1>1, <1>3, <2>1, <2>4 DEF RecvOK
  <2>7. Caught(x, r, n)
    BY <1>3, <1>6, <2>1 DEF Caught, Has, Held
  <2>8. Control(x, m, "FLUSHSTREAM", n, out)
    BY <1>6 DEF n, out
  <2>. QED BY <1>2, <2>1, <2>3, <2>4, <2>5, <2>6, <2>7, <2>8, AsksInv
<1>. QED BY <1>2, <1>5, <1>6 DEF did_recv_FLUSHSTREAM

(* FLUSHCONF stops the flush timer.                                        *)
LEMMA FLUSHCONFInv ==
  ASSUME Inv, NEW x \in Fibers, NEW m \in net, did_recv_FLUSHCONF(x, m)
  PROVE  Inv'
<1>. DEFINE r == fiber[x]
            n == [r EXCEPT !.flush_timer = 0]
<1>1. FiberOK(r) /\ Shaped(r)
  BY DEF Inv, Base, FiberOK
<1>2. /\ UNCHANGED nextId
      /\ \/ Refuse(x, m) \/ Ignore(x, m)
         \/ r.state = "Established" /\ Answer(x, m, n, {})
  BY DEF did_recv_FLUSHCONF, Control
<1>3. CASE Refuse(x, m) \/ Ignore(x, m)
  BY <1>2, <1>3, RefuseInv
<1>4. CASE r.state = "Established" /\ Answer(x, m, n, {})
  <2>1. Become(x, n) /\ net' \subseteq net \cup {} /\ UNCHANGED <<bounded, handed>> /\ Bare(x, {})
    BY <1>4 DEF Answer, Take, Bare
  <2>2. /\ Shaped(n) /\ SameIds(r, n) /\ SameSender(r, n) /\ SameReceiver(r, n)
        /\ n.flush_timer = 0 /\ n.skip_timer = r.skip_timer /\ n.state = r.state
    BY <1>1, Names DEF Shaped, SameIds, SameSender, SameReceiver
  <2>. HIDE DEF n
  <2>. QED BY <1>2, <1>4, <2>1, <2>2, Stays
<1>. QED BY <1>2, <1>3, <1>4

(* DATA with the ids of the end brings a byte of its connection; on a late *)
(* CONF it establishes it.                                                 *)
LEMMA DATAInv ==
  ASSUME Inv, NEW x \in Fibers, NEW m \in net, did_recv_DATA(x, m)
  PROVE  Inv'
<1>. DEFINE old == fiber[x]
            r == [old EXCEPT !.state = IF @ = "DialRcvd" THEN "Established" ELSE @]
            pn == m.body[1]  offset == m.body[2]  on == m.body[3]
            t == Taken(r, pn)
            n == Received(t, offset, on)
<1>1. /\ FiberOK(old) /\ SendOK(old) /\ RecvOK(old) /\ Shaped(old) /\ old.next <= scenario.packets
      /\ HoldsIds(old, nextId) /\ old.dialled \in BOOLEAN
  BY DEF Inv, Base, FiberOK
<1>2. m.type = "DATA" /\ m.to = x /\ UNCHANGED nextId
  BY DEF did_recv_DATA, Receive
<1>3. pn \in Nat /\ offset \in Nat /\ on = m.dst
  BY <1>2 DEF Inv, Base, MessageOK
<1>4. /\ Shaped(r) /\ r.dialled = old.dialled /\ r.src = old.src /\ r.dst = old.dst
      /\ r.state = (IF old.state = "DialRcvd" THEN "Established" ELSE old.state)
      /\ SameSender(old, r) /\ SameReceiver(old, r) /\ SameTimers(old, r)
  BY <1>1, Names DEF Shaped, SameSender, SameReceiver, SameTimers
<1>5. CASE Refuse(x, m)
  BY <1>2, <1>5, RefuseInv
<1>6. CASE Answer(x, m, r, {})
  <2>1. Become(x, r) /\ net' \subseteq net \cup {} /\ UNCHANGED <<bounded, handed>> /\ Bare(x, {})
    BY <1>6 DEF Answer, Take, Bare
  <2>2. CASE old.state = "DialRcvd"
    <3>1. Untouched(r)
      BY <1>1, <1>4, <2>2 DEF FiberOK, Untouched, SameSender, SameReceiver, SameTimers
    <3>2. HoldsIds(r, nextId) /\ old.state \in Dialling
      BY <1>1, <1>4, <2>2 DEF HoldsIds, Dialling
    <3>. HIDE DEF r
    <3>. QED BY <1>2, <1>4, <2>1, <2>2, <3>1, <3>2, Opens
  <2>3. CASE old.state # "DialRcvd"
    <3>1. SameIds(old, r)
      BY <1>4, <2>3 DEF SameIds
    <3>. HIDE DEF r
    <3>. QED BY <1>2, <1>4, <2>1, <3>1, Stays
  <2>. QED BY <2>2, <2>3
<1>7. CASE /\ Matches(r, m) /\ r.state = "Established"
           /\ Become(x, n) /\ Take(m, {}) /\ UNCHANGED bounded
           /\ handed' = [handed EXCEPT ![x] = @ \cup HandedUp(r, n, offset, on)]
  <2>1. old.state \in {"DialRcvd", "Established"} /\ on = r.dst /\ m.src = r.src /\ m.dst = r.dst
    BY <1>3, <1>4, <1>7 DEF Matches
  <2>2. RecvOK(r) /\ WellFormed(r.ack_ranges) /\ r.recv_packets \subseteq Nat \X {r.dst}
    BY <1>1, <1>4 DEF RecvOK, SameReceiver
  <2>. HIDE DEF r
  <2>3. /\ Shaped(t) /\ SameIds(r, t) /\ SameSender(r, t) /\ t.read_offset = r.read_offset
        /\ t.recv_packets = r.recv_packets /\ t.ack_ranges = add_packet_number(r.ack_ranges, pn)
        /\ t.flush_timer = r.flush_timer /\ t.skip_timer = r.skip_timer /\ t.dst = r.dst
    BY <1>4, Names DEF Taken, Shaped, SameIds, SameSender
  <2>4. WellFormed(t.ack_ranges) /\ Seen(t.ack_ranges) \subseteq Seen(r.ack_ranges) \cup {pn}
    BY <1>3, <2>2, <2>3, AddedExactly DEF Marked
  <2>5. RecvOK(t)
    BY <2>2, <2>3, <2>4 DEF RecvOK
  <2>. HIDE DEF t, pn, offset, on
  <2>6. n = Received(t, offset, t.dst)
    BY <2>1, <2>3
  <2>. HIDE DEF n
  <2>7. /\ Shaped(n) /\ RecvOK(n) /\ SameIds(t, n) /\ SameSender(t, n) /\ SameTimers(t, n)
        /\ n.ack_ranges = t.ack_ranges /\ Has(n, offset)
        /\ \A o \in Nat : Has(t, o) => Has(n, o)
    BY <1>3, <2>3, <2>5, <2>6, ReceivedIs
  <2>8. /\ n.state = "Established" /\ n.dialled = old.dialled /\ n.src = old.src /\ n.dst = old.dst
        /\ n.flush_timer = old.flush_timer /\ n.skip_timer = old.skip_timer
    BY <1>4, <1>7, <2>3, <2>7 DEF SameIds, SameTimers
  <2>9. SameSender(old, n)
    BY <1>4, <2>3, <2>7 DEF SameSender
  <2>10. SendOK(n) /\ Writes(old, n, {}) /\ Credits(x, old, n) /\ Reports(n, {})
    BY <1>1, <2>8, <2>9, SenderKept DEF Reports
  <2>11. Caught(x, old, n)
    <3>1. \A o \in Nat : Has(old, o) => Has(n, o)
      BY <1>4, <2>3, <2>7 DEF Has, Held, SameReceiver
    <3>2. ASSUME NEW q \in Seen(n.ack_ranges), q \notin Seen(old.ack_ranges)
          PROVE  /\ Addressed(m, x, n, "DATA") /\ m.body[1] = q /\ Has(n, m.body[2])
      <4>1. q = pn
        BY <1>4, <2>4, <2>7, <3>2 DEF SameReceiver
      <4>. QED BY <1>2, <1>4, <2>1, <2>7, <2>8, <4>1 DEF Addressed, pn, offset
    <3>. QED BY <3>1, <3>2 DEF Caught
  <2>12. n.next <= scenario.packets
    BY <1>1, <2>9 DEF SameSender
  <2>13. controls' = 0 => n.flush_timer = 0 /\ n.skip_timer = 0
    BY <1>7, <2>8 DEF bounded, Inv, Plain
  <2>14. DOMAIN handed' = Fibers /\ \A f \in Fibers : \A h \in handed'[f] : h[1] = h[2]
    <3>1. DOMAIN handed = Fibers /\ \A f \in Fibers : \A h \in handed[f] : h[1] = h[2]
      BY DEF Inv, Base
    <3>2. ASSUME NEW h \in HandedUp(r, n, offset, on) PROVE h[1] = h[2]
      <4>1. PICK q \in r.recv_packets \cup {<<offset, on>>} : h = <<q[2], r.dst>>
        BY <3>2 DEF HandedUp
      <4>2. q[2] = r.dst
        BY <2>1, <2>2, <4>1
      <4>. QED BY <4>1, <4>2
    <3>. QED BY <1>7, <3>1, <3>2
  <2>15. net' \subseteq net \cup {} /\ controls' = controls /\ UNCHANGED <<nextId, scenario>>
    BY <1>2, <1>7 DEF Take, bounded
  <2>. QED BY <1>7, <2>1, <2>7, <2>8, <2>10, <2>11, <2>12, <2>13, <2>14, <2>15, Carries
<1>. QED
  <2>1. \/ Refuse(x, m) \/ Answer(x, m, r, {})
        \/ /\ Matches(r, m) /\ r.state = "Established"
           /\ Become(x, n) /\ Take(m, {}) /\ UNCHANGED bounded
           /\ handed' = [handed EXCEPT ![x] = @ \cup HandedUp(r, n, offset, on)]
    BY DEF did_recv_DATA
  <2>. QED BY <1>5, <1>6, <1>7, <2>1

(* An ACK with the ids of the end credits the packets it reports.          *)
LEMMA ACKInv ==
  ASSUME Inv, NEW x \in Fibers, NEW m \in net, did_recv_ACK(x, m)
  PROVE  Inv'
<1>. DEFINE r == fiber[x]
            largest == m.body[1]
            seen == [r EXCEPT !.largest_acked =
                       IF largest > @ /\ largest \in {p.pn : p \in r.sent_packets} THEN largest ELSE @]
            pns == Seen([largest |-> largest, ranges |-> Tail(m.body)])
<1>1. FiberOK(r) /\ SendOK(r) /\ RecvOK(r) /\ Shaped(r) /\ r.next <= scenario.packets
  BY DEF Inv, Base, FiberOK
<1>2. m.type = "ACK" /\ m.to = x /\ UNCHANGED nextId
  BY DEF did_recv_ACK, Receive
<1>3. \/ Refuse(x, m) \/ Ignore(x, m)
      \/ /\ r.state = "Established" /\ Matches(r, m)
         /\ \E gone \in Lost(seen, pns) : Answer(x, m, Acked(seen, pns, gone), {})
  BY <1>2 DEF did_recv_ACK
<1>4. CASE Refuse(x, m) \/ Ignore(x, m)
  BY <1>2, <1>4, RefuseInv
<1>5. /\ Shaped(seen) /\ SameIds(r, seen) /\ SameSender(r, seen) /\ SameReceiver(r, seen)
      /\ seen.flush_timer = r.flush_timer /\ seen.skip_timer = r.skip_timer
  BY <1>1, Names DEF Shaped, SameIds, SameSender, SameReceiver
<1>6. pns = Reported(m)
  BY DEF Reported
<1>. HIDE DEF seen, pns, largest
<1>7. ASSUME r.state = "Established", Matches(r, m), NEW gone \in Lost(seen, pns),
             Answer(x, m, Acked(seen, pns, gone), {})
      PROVE  Inv'
  <2>. DEFINE offsets == {p.offset : p \in {q \in seen.sent_packets : q.pn \in pns}}
              end == AckedTo(seen, offsets)
              n == Acked(seen, pns, gone)
  <2>1. SendOK(seen) /\ RecvOK(seen) /\ seen.src = r.src /\ seen.dst = r.dst
    <3>1. seen.src = r.src /\ seen.dst = r.dst
      BY <1>5 DEF SameIds
    <3>. QED BY <1>1, <1>5, <3>1, SenderKept, ReceiverKept
  <2>2. gone \subseteq seen.sent_packets
    BY <1>7 DEF Lost
  <2>3. IsFiniteSet(offsets) /\ offsets \subseteq Nat
    <3>. DEFINE T == {q \in seen.sent_packets : q.pn \in pns}  f == [p \in T |-> p.offset]
    <3>1. IsFiniteSet(seen.sent_packets) /\ T \in SUBSET seen.sent_packets
      BY <2>1 DEF SendOK
    <3>2. IsFiniteSet(T)
      BY <3>1, FS_Subset
    <3>3. offsets = {f[p] : p \in T} /\ DOMAIN f = T
      OBVIOUS
    <3>4. offsets \subseteq Nat
      BY <2>1 DEF SendOK, Packets
    <3>. HIDE DEF T, f, offsets
    <3>. QED BY <3>2, <3>3, <3>4, ValuesFinite
  <2>4. /\ Shaped(n) /\ SameIds(seen, n) /\ SameReceiver(seen, n)
        /\ n.data = seen.data /\ n.sent_offset = seen.sent_offset /\ n.next = seen.next
        /\ n.acked_offset = end
        /\ n.outstanding_acks = {o \in seen.outstanding_acks \cup offsets : o > end}
        /\ n.sent_packets = {p \in seen.sent_packets : p.pn \notin pns /\ p \notin gone}
        /\ n.lost_packets = seen.lost_packets \cup gone
        /\ n.flush_timer = seen.flush_timer /\ n.skip_timer = seen.skip_timer
    BY <1>5, Names DEF Acked, Shaped, SameIds, SameReceiver
  <2>. HIDE DEF n, offsets, end
  <2>5. /\ end \in Nat /\ end >= seen.acked_offset
        /\ \A o \in seen.acked_offset .. end - 1 : o \in offsets \/ o \in seen.outstanding_acks
    BY <2>1, <2>3, AckedToIs DEF end
  <2>6. Packets(n) \subseteq Packets(seen) /\ Packets(seen) = Packets(r)
    BY <1>5, <2>2, <2>4 DEF Packets, SameSender
  <2>7. /\ n.state = "Established" /\ n.dialled = r.dialled /\ n.src = r.src /\ n.dst = r.dst
        /\ n.flush_timer = r.flush_timer /\ n.skip_timer = r.skip_timer /\ n.next = r.next
    BY <1>5, <1>7, <2>4 DEF SameIds, SameSender
  <2>8. SendOK(n)
    <3>1. /\ IsFiniteSet(seen.sent_packets) /\ IsFiniteSet(seen.lost_packets)
          /\ IsFiniteSet(seen.outstanding_acks)
      BY <2>1 DEF SendOK
    <3>2. IsFiniteSet(n.sent_packets)
      <4>1. n.sent_packets \in SUBSET seen.sent_packets
        BY <2>4
      <4>. QED BY <3>1, <4>1, FS_Subset
    <3>3. IsFiniteSet(n.lost_packets)
      <4>1. IsFiniteSet(gone)
        BY <2>2, <3>1, FS_Subset
      <4>2. IsFiniteSet(seen.lost_packets \cup gone)
        BY <3>1, <4>1, FS_Union
      <4>. QED BY <2>4, <4>2
    <3>4. IsFiniteSet(n.outstanding_acks) /\ n.outstanding_acks \subseteq Nat
      <4>1. IsFiniteSet(seen.outstanding_acks \cup offsets)
        BY <2>3, <3>1, FS_Union
      <4>2. n.outstanding_acks \in SUBSET (seen.outstanding_acks \cup offsets)
        BY <2>4
      <4>3. seen.outstanding_acks \subseteq Nat
        BY <2>1 DEF SendOK
      <4>. QED BY <2>3, <4>1, <4>2, <4>3, FS_Subset
    <3>5. n.src = seen.src
      BY <2>1, <2>7
    <3>. QED BY <2>1, <2>4, <2>5, <2>6, <3>2, <3>3, <3>4, <3>5 DEF SendOK
  <2>9. RecvOK(n) /\ Caught(x, r, n)
    <3>1. SameReceiver(r, n)
      BY <1>5, <2>4 DEF SameReceiver
    <3>. QED BY <1>1, <2>7, <3>1, ReceiverKept
  <2>10. Writes(r, n, {}) /\ Reports(n, {})
    <3>1. n.next >= r.next
      BY <1>1, <2>7 DEF SendOK
    <3>. QED BY <2>6, <3>1 DEF Writes, Reports
  <2>11. Credits(x, r, n)
    <3>1. SUFFICES ASSUME NEW o \in Nat, Counts(n, o), ~Counts(r, o)
          PROVE  /\ Addressed(m, x, n, "ACK")
                 /\ \E p \in Packets(r) : p.offset = o /\ p.pn \in Reported(m)
      BY DEF Credits
    <3>2. seen.acked_offset = r.acked_offset /\ seen.outstanding_acks = r.outstanding_acks
          /\ r.acked_offset \in Nat
      BY <1>1, <1>5 DEF SameSender, SendOK
    <3>3. o \in offsets
      <4>1. CASE o < end
        BY <2>5, <3>1, <3>2, <4>1 DEF Counts
      <4>2. CASE ~(o < end)
        BY <2>4, <3>1, <3>2, <4>2 DEF Counts
      <4>. QED BY <4>1, <4>2
    <3>4. PICK p \in seen.sent_packets : p.offset = o /\ p.pn \in pns
      BY <3>3 DEF offsets
    <3>5. p \in Packets(r)
      BY <2>6, <3>4 DEF Packets
    <3>6. Addressed(m, x, n, "ACK")
      BY <1>2, <1>7, <2>7 DEF Addressed, Matches
    <3>. QED BY <1>6, <3>4, <3>5, <3>6
  <2>12. /\ Become(x, n) /\ net' \subseteq net \cup {} /\ controls' = controls
         /\ UNCHANGED <<nextId, scenario, handed>>
    BY <1>2, <1>7 DEF Answer, Take, bounded, n
  <2>13. controls' = 0 => n.flush_timer = 0 /\ n.skip_timer = 0
    BY <2>7, <2>12 DEF Inv, Plain
  <2>14. DOMAIN handed' = Fibers /\ \A f \in Fibers : \A h \in handed'[f] : h[1] = h[2]
    BY <2>12, HandedKept
  <2>15. n.next <= scenario.packets
    BY <1>1, <2>7
  <2>. QED BY <1>7, <2>4, <2>7, <2>8, <2>9, <2>10, <2>11, <2>12, <2>13, <2>14, <2>15, Carries
<1>. QED BY <1>3, <1>4, <1>7

(* A lost packet is sent in the place its number gives it.                 *)
LEMMA Places ==
  ASSUME NEW r, SendOK(r), NEW p \in r.lost_packets
  PROVE  /\ Place(r, p) \in 0 .. Cardinality(r.lost_packets) - 1
         /\ \A q \in r.lost_packets : p.pn < q.pn => Place(r, p) < Place(r, q)
<1>. DEFINE Below(q) == {s \in r.lost_packets : s.pn < q.pn}
<1>1. IsFiniteSet(r.lost_packets) /\ \A q \in r.lost_packets : q.pn \in Int
  BY DEF SendOK, Packets
<1>2. Cardinality(r.lost_packets) \in Nat
  BY <1>1, FS_CardinalityType
<1>3. ASSUME NEW q \in r.lost_packets
      PROVE  /\ IsFiniteSet(Below(q)) /\ Cardinality(Below(q)) \in Nat
             /\ Cardinality(Below(q)) < Cardinality(r.lost_packets)
  <2>1. Below(q) \in SUBSET r.lost_packets /\ Below(q) # r.lost_packets
    BY <1>1, <1>3
  <2>2. /\ IsFiniteSet(Below(q)) /\ Cardinality(Below(q)) <= Cardinality(r.lost_packets)
        /\ Cardinality(Below(q)) # Cardinality(r.lost_packets)
    BY <1>1, <2>1, FS_Subset
  <2>3. Cardinality(Below(q)) \in Nat
    BY <2>2, FS_CardinalityType
  <2>. QED BY <1>2, <2>2, <2>3
<1>4. ASSUME NEW q \in r.lost_packets, p.pn < q.pn
      PROVE  Cardinality(Below(p)) < Cardinality(Below(q))
  <2>1. Below(p) \in SUBSET Below(q) /\ Below(p) # Below(q)
    BY <1>1, <1>4
  <2>2. IsFiniteSet(Below(q))
    BY <1>3
  <2>3. /\ Cardinality(Below(p)) <= Cardinality(Below(q))
        /\ Cardinality(Below(p)) # Cardinality(Below(q))
    BY <2>1, <2>2, FS_Subset
  <2>4. Cardinality(Below(p)) \in Nat /\ Cardinality(Below(q)) \in Nat
    BY <1>3
  <2>. QED BY <2>3, <2>4
<1>5. \A q : Place(r, q) = Cardinality(Below(q))
  BY DEF Place
<1>. HIDE DEF Below
<1>6. Place(r, p) \in Nat /\ Place(r, p) < Cardinality(r.lost_packets)
  BY <1>3, <1>5
<1>. QED BY <1>2, <1>4, <1>5, <1>6

(* What a round may send bears new numbers, each its own.                  *)
LEMMA BacklogIs ==
  ASSUME NEW r, SendOK(r)
  PROVE  /\ IsFiniteSet(Backlog(r))
         /\ \A b \in Backlog(r) : /\ b.pn \in Nat /\ b.pn >= r.next
                                  /\ b.offset \in Nat /\ b.on = r.src
         /\ \A b, c \in Backlog(r) : b.pn = c.pn => b = c
<1>. DEFINE losses == Cardinality(r.lost_packets)
            left == r.sent_offset .. Len(r.data) - 1
            again(p) == Sends(r, Place(r, p), p.offset, p.on)
            new(o) == Sends(r, losses + o - r.sent_offset, o, r.data[o + 1])
            A == {again(p) : p \in r.lost_packets}
            B == {new(o) : o \in left}
<1>1. Backlog(r) = A \cup B
  BY DEF Backlog
<1>2. /\ IsFiniteSet(r.lost_packets) /\ r.next \in Nat /\ r.data \in Seq({r.src})
      /\ r.sent_offset \in 0 .. Len(r.data) /\ Len(r.data) \in Nat
      /\ \A p \in r.lost_packets : p.pn \in Int /\ p.offset \in Nat /\ p.on = r.src
      /\ \A p, q \in r.lost_packets : p.pn = q.pn => p = q
  BY LenProperties DEF SendOK, Packets
<1>3. losses \in Nat
  BY <1>2, FS_CardinalityType
<1>4. \A p \in r.lost_packets :
        /\ Place(r, p) \in 0 .. losses - 1
        /\ \A q \in r.lost_packets : p.pn < q.pn => Place(r, p) < Place(r, q)
  BY Places
<1>5. IsFiniteSet(A) /\ IsFiniteSet(B)
  <2>. DEFINE f == [p \in r.lost_packets |-> again(p)]  g == [o \in left |-> new(o)]
  <2>1. A = {f[p] : p \in r.lost_packets} /\ DOMAIN f = r.lost_packets
    OBVIOUS
  <2>2. B = {g[o] : o \in left} /\ DOMAIN g = left
    OBVIOUS
  <2>3. IsFiniteSet(left)
    BY <1>2, FS_Interval
  <2>. HIDE DEF A, B, f, g, left
  <2>4. IsFiniteSet({f[p] : p \in r.lost_packets})
    BY <1>2, <2>1, ValuesFinite
  <2>5. IsFiniteSet({g[o] : o \in left})
    BY <2>2, <2>3, ValuesFinite
  <2>. QED BY <2>1, <2>2, <2>4, <2>5
<1>6. IsFiniteSet(Backlog(r))
  <2>. HIDE DEF A, B
  <2>1. IsFiniteSet(A \cup B)
    BY <1>5, FS_Union
  <2>. QED BY <1>1, <2>1
<1>7. ASSUME NEW p \in r.lost_packets
      PROVE  /\ again(p).pn = r.next + Place(r, p) /\ again(p).offset = p.offset
             /\ again(p).on = r.src /\ again(p).offset \in Nat
  BY <1>2 DEF Sends
<1>8. ASSUME NEW o \in left
      PROVE  /\ new(o).pn = r.next + (losses + (o - r.sent_offset)) /\ new(o).offset = o
             /\ new(o).on = r.src /\ o \in Nat
  <2>1. o + 1 \in 1 .. Len(r.data) /\ o \in Nat
    BY <1>2
  <2>2. r.data[o + 1] \in {r.src}
    BY <1>2, <2>1, ElementOfSeq
  <2>3. losses + o - r.sent_offset = losses + (o - r.sent_offset)
    BY <1>2, <1>3
  <2>. QED BY <2>1, <2>2, <2>3 DEF Sends
<1>. HIDE DEF again, new, losses
<1>9. ASSUME NEW b \in Backlog(r)
      PROVE  b.pn \in Nat /\ b.pn >= r.next /\ b.offset \in Nat /\ b.on = r.src
  <2>1. CASE b \in A
    <3>1. PICK p \in r.lost_packets : b = again(p)
      BY <2>1
    <3>2. Place(r, p) \in Nat
      BY <1>3, <1>4
    <3>. QED BY <1>2, <1>7, <3>1, <3>2
  <2>2. CASE b \in B
    <3>1. PICK o \in left : b = new(o)
      BY <2>2
    <3>2. o - r.sent_offset \in Nat
      <4>1. o \in Int /\ r.sent_offset <= o /\ r.sent_offset \in Int
        BY <1>2
      <4>. QED BY <4>1
    <3>3. /\ b.pn = r.next + (losses + (o - r.sent_offset)) /\ b.offset = o
          /\ b.on = r.src /\ o \in Nat
      BY <1>8, <3>1
    <3>. QED BY <1>2, <1>3, <3>2, <3>3
  <2>. QED BY <1>1, <2>1, <2>2
<1>10. ASSUME NEW p \in r.lost_packets, NEW o \in left PROVE again(p).pn # new(o).pn
  <2>1. Place(r, p) \in Int /\ Place(r, p) < losses
    BY <1>3, <1>4
  <2>2. o - r.sent_offset \in Nat
    BY <1>2
  <2>3. again(p).pn = r.next + Place(r, p)
    BY <1>7
  <2>4. new(o).pn = r.next + (losses + (o - r.sent_offset))
    BY <1>8
  <2>. QED BY <1>2, <1>3, <2>1, <2>2, <2>3, <2>4
<1>11. ASSUME NEW p \in r.lost_packets, NEW q \in r.lost_packets, again(p).pn = again(q).pn
       PROVE  p = q
  <2>1. Place(r, p) = Place(r, q)
    BY <1>2, <1>3, <1>4, <1>7, <1>11
  <2>2. Place(r, p) \in Int
    BY <1>3, <1>4
  <2>. QED BY <1>2, <1>4, <2>1, <2>2
<1>12. ASSUME NEW o \in left, NEW u \in left, new(o).pn = new(u).pn
       PROVE  o = u
  <2>1. o \in Int /\ u \in Int /\ r.sent_offset \in Int
    BY <1>2
  <2>2. r.next + (losses + (o - r.sent_offset)) = r.next + (losses + (u - r.sent_offset))
    BY <1>8, <1>12
  <2>. QED BY <1>2, <1>3, <2>1, <2>2
<1>13. ASSUME NEW b \in Backlog(r), NEW c \in Backlog(r), b.pn = c.pn
       PROVE  b = c
  <2>1. (\E p \in r.lost_packets : b = again(p)) \/ (\E o \in left : b = new(o))
    BY <1>1
  <2>2. (\E p \in r.lost_packets : c = again(p)) \/ (\E o \in left : c = new(o))
    BY <1>1
  <2>. HIDE DEF left
  <2>. QED BY <1>10, <1>11, <1>12, <1>13, <2>1, <2>2
<1>. QED BY <1>6, <1>9, <1>13

(* A round sends what was lost and what is new, under new numbers.         *)
LEMMA PacingInv ==
  ASSUME Inv, NEW x \in Fibers, pacing_timer_cb(x)
  PROVE  Inv'
<1>. DEFINE r == fiber[x]
            losses == Cardinality(r.lost_packets)
            work == losses + Len(r.data) - r.sent_offset
<1>1. FiberOK(r) /\ SendOK(r) /\ RecvOK(r) /\ Shaped(r) /\ HoldsIds(r, nextId)
  BY DEF Inv, Base, FiberOK
<1>2. r.pacing /\ UNCHANGED <<nextId, bounded, handed>>
  BY DEF pacing_timer_cb
<1>3. r.state = "Established"
  BY <1>1, <1>2 DEF FiberOK, Untouched
<1>4. losses \in Nat /\ Len(r.data) \in Nat /\ r.sent_offset \in 0 .. Len(r.data) /\ r.next \in Nat
  BY <1>1, FS_CardinalityType, LenProperties DEF SendOK
<1>5. PICK k \in 0 .. work, more \in BOOLEAN :
        LET out == {p \in Backlog(r) : p.pn < r.next + k}
        IN /\ r.next + k <= scenario.packets
           /\ Become(x, [r EXCEPT !.next = @ + k, !.sent_packets = @ \cup out,
                                  !.lost_packets = {p \in @ : Place(r, p) >= k},
                                  !.sent_offset = @ + Max({0, k - losses}),
                                  !.in_queue = @ /\ k < work, !.pacing = more])
           /\ Post(UNION {DATA(x, r, p) : p \in out})
  BY DEF pacing_timer_cb
<1>. DEFINE new == {p \in Backlog(r) : p.pn < r.next + k}
            n == [r EXCEPT !.next = @ + k, !.sent_packets = @ \cup new,
                           !.lost_packets = {p \in @ : Place(r, p) >= k},
                           !.sent_offset = @ + Max({0, k - losses}),
                           !.in_queue = @ /\ k < work, !.pacing = more]
            out == UNION {DATA(x, r, p) : p \in new}
<1>6. Become(x, n) /\ net' \subseteq net \cup out /\ r.next + k <= scenario.packets
  BY <1>5 DEF Post
<1>7. /\ Shaped(n) /\ SameIds(r, n) /\ SameReceiver(r, n)
      /\ n.data = r.data /\ n.next = r.next + k
      /\ n.sent_offset = r.sent_offset + Max({0, k - losses})
      /\ n.sent_packets = r.sent_packets \cup new
      /\ n.lost_packets = {p \in r.lost_packets : Place(r, p) >= k}
      /\ n.acked_offset = r.acked_offset /\ n.outstanding_acks = r.outstanding_acks
      /\ n.flush_timer = r.flush_timer /\ n.skip_timer = r.skip_timer
  BY <1>1, Names DEF Shaped, SameIds, SameReceiver
<1>8. k \in Nat /\ k <= losses + (Len(r.data) - r.sent_offset)
  BY <1>4
<1>9. n.sent_offset \in 0 .. Len(n.data)
  <2>1. Max({0, k - losses}) = IF 0 >= k - losses THEN 0 ELSE k - losses
    <3>. DEFINE a == k - losses
    <3>1. a \in Int
      BY <1>4, <1>8
    <3>. HIDE DEF a
    <3>2. Max({0, a}) = IF 0 >= a THEN 0 ELSE a
      BY <3>1 DEF Max
    <3>. QED BY <3>2 DEF a
  <2>. QED BY <1>4, <1>7, <1>8, <2>1
<1>. HIDE DEF n, losses, work
<1>10. /\ IsFiniteSet(new)
       /\ \A p \in new : /\ p.pn \in Nat /\ p.pn >= r.next /\ p.pn < r.next + k
                         /\ p.offset \in Nat /\ p.on = r.src
       /\ \A p, q \in new : p.pn = q.pn => p = q
  <2>1. new \in SUBSET Backlog(r)
    OBVIOUS
  <2>2. /\ IsFiniteSet(Backlog(r))
        /\ \A b \in Backlog(r) : b.pn \in Nat /\ b.pn >= r.next /\ b.offset \in Nat /\ b.on = r.src
        /\ \A b, c \in Backlog(r) : b.pn = c.pn => b = c
    BY <1>1, BacklogIs
  <2>3. IsFiniteSet(new)
    BY <2>1, <2>2, FS_Subset
  <2>. QED BY <2>1, <2>2, <2>3
<1>11. ASSUME NEW m \in out
       PROVE  \E p \in new : m = [type |-> "DATA", to |-> Other(x), src |-> r.dst, dst |-> r.src,
                                  body |-> <<p.pn, p.offset, p.on>>]
  BY DEF DATA, Datagram
<1>. HIDE DEF new, out
<1>12. /\ n.state = "Established" /\ n.dialled = r.dialled /\ n.src = r.src /\ n.dst = r.dst
       /\ n.next <= scenario.packets /\ n.next >= r.next /\ n.next \in Nat
  BY <1>3, <1>4, <1>6, <1>7, <1>8 DEF SameIds
<1>13. \A p \in Packets(n) : p \in Packets(r) \/ p \in new
  BY <1>7 DEF Packets
<1>14. SendOK(n)
  <2>1. IsFiniteSet(n.sent_packets) /\ IsFiniteSet(n.lost_packets)
    <3>1. IsFiniteSet(r.sent_packets) /\ IsFiniteSet(r.lost_packets)
      BY <1>1 DEF SendOK
    <3>2. IsFiniteSet(r.sent_packets \cup new)
      BY <1>10, <3>1, FS_Union
    <3>3. n.lost_packets \in SUBSET r.lost_packets
      BY <1>7
    <3>. QED BY <1>7, <3>1, <3>2, <3>3, FS_Subset
  <2>2. /\ \A p \in Packets(r) : p.pn \in 0 .. r.next - 1 /\ p.offset \in Nat /\ p.on = r.src
        /\ \A p, q \in Packets(r) : p.pn = q.pn => p = q
    BY <1>1 DEF SendOK
  <2>3. \A p \in Packets(n) : p.pn \in 0 .. n.next - 1 /\ p.offset \in Nat /\ p.on = n.src
    <3>1. ASSUME NEW p \in Packets(n) PROVE p.pn \in 0 .. n.next - 1 /\ p.offset \in Nat /\ p.on = n.src
      <4>1. CASE p \in Packets(r)
        BY <1>4, <1>7, <1>8, <1>12, <2>2, <4>1
      <4>2. CASE p \in new
        BY <1>4, <1>7, <1>8, <1>10, <1>12, <4>2
      <4>. QED BY <1>13, <4>1, <4>2
    <3>. QED BY <3>1
  <2>4. \A p, q \in Packets(n) : p.pn = q.pn => p = q
    <3>1. \A p \in Packets(r) : p.pn < r.next
      BY <1>4, <2>2
    <3>2. \A p \in Packets(r) : \A q \in new : p.pn # q.pn
      BY <1>4, <1>10, <2>2
    <3>. QED BY <1>10, <1>13, <2>2, <3>2
  <2>. QED BY <1>1, <1>7, <1>9, <1>12, <2>1, <2>3, <2>4 DEF SendOK
<1>15. RecvOK(n) /\ Caught(x, r, n)
  BY <1>1, <1>7, <1>12, ReceiverKept
<1>16. ASSUME NEW m \in out
       PROVE  /\ MessageOK(m, nextId) /\ m.to = Other(x) /\ m.type = "DATA"
              /\ m.dst = n.src /\ m.src = n.dst
              /\ \E p \in Packets(n) : p.pn >= r.next /\ p.pn = m.body[1] /\ p.offset = m.body[2]
  <2>1. PICK p \in new : m = [type |-> "DATA", to |-> Other(x), src |-> r.dst, dst |-> r.src,
                              body |-> <<p.pn, p.offset, p.on>>]
    BY <1>11
  <2>2. m.body[1] = p.pn /\ m.body[2] = p.offset /\ m.body[3] = p.on
    BY <2>1
  <2>3. p \in Packets(n)
    BY <1>7, <2>1 DEF Packets
  <2>4. p.pn \in Nat /\ p.pn >= r.next /\ p.offset \in Nat /\ p.on = r.src
    BY <1>10, <2>1
  <2>5. /\ m.to = Other(x) /\ Other(x) \in Fibers /\ m.type = "DATA" /\ m.src = r.dst /\ m.dst = r.src
        /\ r.src \in 0 .. nextId - 1 /\ r.dst \in 0 .. nextId - 1
    BY <1>1, <2>1, Others DEF HoldsIds
  <2>6. MessageOK(m, nextId)
    BY <2>2, <2>4, <2>5 DEF MessageOK
  <2>. QED BY <1>12, <2>2, <2>3, <2>4, <2>5, <2>6
<1>17. Writes(r, n, out) /\ Reports(n, out) /\ Credits(x, r, n)
  <2>1. Writes(r, n, out)
    BY <1>10, <1>12, <1>13, <1>16 DEF Writes
  <2>2. Reports(n, out)
    BY <1>16 DEF Reports
  <2>3. Credits(x, r, n)
    BY <1>7 DEF Credits, Counts
  <2>. QED BY <2>1, <2>2, <2>3
<1>18. controls' = 0 => /\ n.flush_timer = 0 /\ n.skip_timer = 0
                        /\ \A m \in out : m.type \notin {"FLUSHSTREAM", "SKIPSTREAM"}
  BY <1>2, <1>7, <1>16 DEF bounded, Inv, Plain
<1>19. DOMAIN handed' = Fibers /\ \A f \in Fibers : \A h \in handed'[f] : h[1] = h[2]
  BY <1>2, HandedKept
<1>20. UNCHANGED <<nextId, scenario>> /\ controls' = controls
  BY <1>2 DEF bounded
<1>. QED BY <1>3, <1>6, <1>7, <1>12, <1>14, <1>15, <1>16, <1>17, <1>18, <1>19, <1>20, Carries

-----------------------------------------------------------------------------
(* The theorems                                                            *)

(* Two fresh fibers and no datagram.                                       *)
LEMMA InvInit == Init => Inv
<1>. SUFFICES ASSUME Init PROVE Inv
  OBVIOUS
<1>1. /\ \A f \in Fibers : fiber[f] = Fresh /\ handed[f] = {} /\ told[f] = 0
      /\ DOMAIN fiber = Fibers /\ DOMAIN handed = Fibers /\ DOMAIN told = Fibers
      /\ net = {} /\ nextId = 1 /\ controls = 0 /\ scenario \in Scenarios
  BY DEF Init
<1>2. /\ Shaped(Fresh) /\ Fresh.state = "Listen" /\ Fresh.dialled = FALSE /\ Untouched(Fresh)
      /\ Fresh.src = 0 /\ Fresh.dst = 0
  BY DEF Shaped, Fresh, Untouched
<1>3. FiberOK(Fresh)
  BY <1>2, UntouchedOK DEF States
<1>4. scenario.ids \in Nat /\ scenario.packets \in Nat
  BY <1>1, FibersAssumption DEF FibersAssumption
<1>. HIDE DEF Init
<1>5. Base
  <2>1. \A f \in Fibers : Owed(f)
    BY <1>1, <1>2 DEF Owed
  <2>2. HoldsIds(Fresh, 1) /\ Fresh.next = 0
    BY <1>2 DEF HoldsIds, Untouched
  <2>3. nextId \in 1 .. scenario.ids + 1
    BY <1>1, <1>4
  <2>. QED BY <1>1, <1>3, <1>4, <2>1, <2>2, <2>3 DEF Base
<1>6. Plain
  BY <1>1, <1>2 DEF Plain, Untouched
<1>7. ASSUME NEW f \in Fibers PROVE Linked(f, Other(f))
  BY <1>1, <1>2, Others DEF Linked, Unheard, DataTrue, AcksTrue, SameConnection, Dialling
<1>. QED BY <1>5, <1>6, <1>7 DEF Inv

(* The invariant is inductive.                                             *)
LEMMA InvStep == Inv /\ [Next]_vars => Inv'
<1>. SUFFICES ASSUME Inv, [Next]_vars PROVE Inv'
  OBVIOUS
<1>1. ASSUME NEW f \in Fibers, Calls(f) PROVE Inv'
  BY <1>1, DialsInv, SendsInv, ClosesInv, ControlsInv DEF Calls
<1>2. ASSUME NEW f \in Fibers, TimersFire(f) PROVE Inv'
  BY <1>2, HandshakeTimersInv, ControlTimersInv, AckTimerInv, PacingInv, TlpInv DEF TimersFire
<1>3. ASSUME NEW f \in Fibers, NEW m \in net, did_recv(f, m) PROVE Inv'
  BY <1>3, DIALInv, DIALCONFInv, CONFInv, RSTInv, DATAInv, ACKInv, SKIPSTREAMInv,
     FLUSHSTREAMInv, FLUSHCONFInv DEF did_recv
<1>4. CASE UNCHANGED vars
  <2>1. /\ fiber' = fiber /\ net' = net /\ nextId' = nextId /\ scenario' = scenario
        /\ controls' = controls /\ handed' = handed /\ told' = told
    BY <1>4 DEF vars, bounded, history
  <2>. QED BY <2>1 DEF Inv, Base, Plain, Owed, Linked, Unheard, DataTrue, AcksTrue,
                       SameConnection, Reached
<1>. QED BY <1>1, <1>2, <1>3, <1>4 DEF Next

(* What holds of two fibers in every reachable state (reset, Become and    *)
(* the handlers of StreamFiber).                                           *)
THEOREM InvAlways == Spec => []Inv
BY InvInit, InvStep, PTL DEF Spec

(* The state of a fiber is one of those the code has, its ids were drawn,  *)
(* and it sends no more than was queued.                                   *)
THEOREM TypesAlways == Spec => []TypeOK
<1>1. Inv => TypeOK
  <2>. SUFFICES ASSUME Inv, NEW f \in Fibers
       PROVE  /\ fiber[f].state \in States
              /\ {fiber[f].src, fiber[f].dst} \subseteq 0 .. scenario.ids
              /\ fiber[f].sent_offset <= Len(fiber[f].data) /\ fiber[f].next <= scenario.packets
              /\ nextId \in 1 .. scenario.ids + 1
    BY DEF TypeOK, States, Inv, Base
  <2>1. FiberOK(fiber[f]) /\ HoldsIds(fiber[f], nextId) /\ fiber[f].next <= scenario.packets
        /\ nextId \in 1 .. scenario.ids + 1
    BY DEF Inv, Base
  <2>2. scenario.ids \in Nat
    BY FibersAssumption DEF FibersAssumption, Inv, Base
  <2>3. fiber[f].sent_offset <= Len(fiber[f].data)
    BY <2>1, LenProperties DEF FiberOK, SendOK
  <2>. QED BY <2>1, <2>2, <2>3 DEF FiberOK, HoldsIds
<1>. QED BY <1>1, InvAlways, PTL

(* No byte of one connection is handed up on another, and did_dial is      *)
(* called for no more than was dialled: however often the two fibers are   *)
(* reset and used again, and whatever is still under way.                  *)
THEOREM NothingAcrossAlways == Spec => []NothingAcross
<1>1. Inv => NothingAcross
  BY DEF Inv, Base, Owed, NothingAcross
<1>. QED BY <1>1, InvAlways, PTL

(* On one connection the sender counts as acked only bytes that the        *)
(* receiver has read or holds, although both fibers had packet numbers,    *)
(* ranges and offsets of other connections before.                         *)
THEOREM AckedIsHeldAlways == Spec => []AckedIsHeld
<1>1. Inv => AckedIsHeld
  <2>. SUFFICES ASSUME Inv, NEW f \in Fibers, NEW g \in Fibers, f # g, SameConnection(f, g),
                       controls = 0, NEW o \in 0 .. scenario.bytes, Counts(fiber[f], o)
       PROVE  Has(fiber[g], o)
    BY DEF AckedIsHeld, Counts, Has
  <2>1. g = Other(f)
    BY Others
  <2>2. AcksTrue(f, g)
    BY <2>1 DEF Inv, Linked
  <2>3. o \in Nat
    OBVIOUS
  <2>. QED BY <2>2, <2>3 DEF AcksTrue
<1>. QED BY <1>1, InvAlways, PTL

-----------------------------------------------------------------------------
(* The queue of the simulator                                              *)

(* An event, and a queue of them by tick in which every id is there once.  *)
Event == [id : Nat \ {0}, tick : Nat, kind : {"timer", "data"}, of : Timers \cup Nat, from : Hosts \cup {NoOne}]
Sorted(q) == \A j, k \in 1 .. Len(q) : j < k => q[j].tick <= q[k].tick
Distinct(q) == \A j, k \in 1 .. Len(q) : q[j].id = q[k].id => j = k
ByTick(q) == q \in Seq(Event) /\ Sorted(q) /\ Distinct(q)

(* r is q with e put in at p, or without its element at p.                 *)
PutIn(q, p, e, r) ==
  /\ p \in 1 .. Len(q) + 1 /\ r \in Seq(Event) /\ Len(r) = Len(q) + 1
  /\ \A k \in 1 .. Len(r) : r[k] = IF k < p THEN q[k] ELSE IF k = p THEN e ELSE q[k - 1]
Without(q, p, r) ==
  /\ p \in 1 .. Len(q) /\ r \in Seq(Event) /\ Len(r) = Len(q) - 1
  /\ \A k \in 1 .. Len(r) : r[k] = IF k < p THEN q[k] ELSE q[k + 1]

(* The place of UpperBound is there: before the first of the later events. *)
IsUpperBound(q, tick, i) ==
  i \in 1 .. Len(q) + 1 /\ \A k \in DOMAIN q : k < i <=> q[k].tick <= tick

LEMMA UpperBoundIs ==
  ASSUME NEW q, ByTick(q), NEW tick \in Nat
  PROVE  IsUpperBound(q, tick, UpperBound(q, tick))
<1> DEFINE T == {i \in 1 .. Len(q) + 1 : i = Len(q) + 1 \/ (i \in 1 .. Len(q) /\ q[i].tick > tick)}
<1>1. Len(q) \in Nat /\ DOMAIN q = 1 .. Len(q) /\ \A k \in 1 .. Len(q) : q[k].tick \in Nat
  <2>1. q \in Seq(Event)
    BY DEF ByTick
  <2>2. Len(q) \in Nat /\ DOMAIN q = 1 .. Len(q) /\ \A k \in 1 .. Len(q) : q[k] \in Event
    BY <2>1
  <2> QED BY <2>2 DEF Event
<1>2. T \in SUBSET Nat /\ T # {}
  BY <1>1
<1>3. PICK i \in T : \A j \in T : i <= j
  <2> HIDE DEF T
  <2> QED BY <1>2, LeastNumber
<1>4. i \in 1 .. Len(q) + 1
  BY <1>3
<1>5. ASSUME NEW k \in 1 .. Len(q) PROVE k < i <=> q[k].tick <= tick
  <2>1. CASE k < i
    BY <2>1, <1>1, <1>3
  <2>2. CASE k >= i
    <3>1. i \in 1 .. Len(q) /\ q[i].tick > tick
      BY <2>2, <1>1, <1>3
    <3>2. q[i].tick <= q[k].tick
      BY <2>2, <3>1, <1>1 DEF ByTick, Sorted
    <3> QED BY <2>2, <3>1, <3>2, <1>1, <1>4
  <2> QED BY <2>1, <2>2, <1>1, <1>4
<1>6. \E j \in 1 .. Len(q) + 1 : \A k \in DOMAIN q : k < j <=> q[k].tick <= tick
  BY <1>1, <1>4, <1>5
<1> QED BY <1>6 DEF UpperBound, IsUpperBound

(* An event goes behind those of its tick and before the later ones.       *)
LEMMA AddedBehind ==
  ASSUME NEW q, ByTick(q), NEW e \in Event, \A k \in 1 .. Len(q) : q[k].id # e.id
  PROVE  /\ PutIn(q, UpperBound(q, e.tick), e, add_event(q, e))
         /\ ByTick(add_event(q, e))
<1> DEFINE p == UpperBound(q, e.tick)
           r == add_event(q, e)
<1>1. q \in Seq(Event) /\ Len(q) \in Nat /\ DOMAIN q = 1 .. Len(q) /\ \A k \in 1 .. Len(q) : q[k] \in Event
  BY DEF ByTick
<1>2. e.tick \in Nat /\ \A k \in 1 .. Len(q) : q[k].tick \in Nat
  BY <1>1 DEF Event
<1>3. IsUpperBound(q, e.tick, p)
  BY <1>2, UpperBoundIs
<1>4. p \in 1 .. Len(q) + 1 /\ \A k \in 1 .. Len(q) : k < p <=> q[k].tick <= e.tick
  BY <1>1, <1>3 DEF IsUpperBound
<1>5. r = SubSeq(q, 1, p - 1) \o <<e>> \o SubSeq(q, p, Len(q))
  BY DEF add_event, InsertAt
<1> HIDE DEF p, r
<1>6. PutIn(q, p, e, r)
  <2>1. SubSeq(q, 1, p - 1) \in Seq(Event) /\ Len(SubSeq(q, 1, p - 1)) = p - 1
        /\ \A k \in 1 .. p - 1 : SubSeq(q, 1, p - 1)[k] = q[k]
    BY <1>1, <1>4
  <2>2. SubSeq(q, p, Len(q)) \in Seq(Event) /\ Len(SubSeq(q, p, Len(q))) = Len(q) - p + 1
        /\ \A k \in 1 .. Len(q) - p + 1 : SubSeq(q, p, Len(q))[k] = q[p + k - 1]
    BY <1>1, <1>4
  <2>3. <<e>> \in Seq(Event) /\ Len(<<e>>) = 1 /\ <<e>>[1] = e
    OBVIOUS
  <2> DEFINE a == SubSeq(q, 1, p - 1)
             b == <<e>>
             c == SubSeq(q, p, Len(q))
  <2> HIDE DEF a, b, c
  <2>6. a \in Seq(Event) /\ b \in Seq(Event) /\ c \in Seq(Event) /\ r = (a \o b) \o c
        /\ Len(a) = p - 1 /\ Len(b) = 1 /\ Len(c) = Len(q) - p + 1 /\ b[1] = e
        /\ (\A k \in 1 .. p - 1 : a[k] = q[k])
        /\ (\A k \in 1 .. Len(q) - p + 1 : c[k] = q[p + k - 1])
    BY <1>5, <2>1, <2>2, <2>3 DEF a, b, c
  <2>7. (a \o b) \in Seq(Event) /\ Len(a \o b) = p /\ (a \o b)[p] = e
        /\ \A k \in 1 .. p - 1 : (a \o b)[k] = q[k]
    <3>1. (a \o b) \in Seq(Event) /\ Len(a \o b) = Len(a) + Len(b)
          /\ \A k \in 1 .. Len(a) + Len(b) : (a \o b)[k] = IF k <= Len(a) THEN a[k] ELSE b[k - Len(a)]
      BY <2>6, ConcatProperties
    <3> QED BY <1>1, <1>4, <2>6, <3>1
  <2> DEFINE d == a \o b
  <2> HIDE DEF d
  <2>8. d \in Seq(Event) /\ Len(d) = p /\ d[p] = e /\ (\A k \in 1 .. p - 1 : d[k] = q[k]) /\ r = d \o c
    BY <2>6, <2>7 DEF d
  <2>4. r \in Seq(Event) /\ Len(r) = Len(q) + 1
    <3>1. (d \o c) \in Seq(Event) /\ Len(d \o c) = Len(d) + Len(c)
      BY <2>6, <2>8, ConcatProperties
    <3> QED BY <1>1, <1>4, <2>6, <2>8, <3>1
  <2>5. ASSUME NEW k \in 1 .. Len(r) PROVE r[k] = IF k < p THEN q[k] ELSE IF k = p THEN e ELSE q[k - 1]
    <3>1. r[k] = IF k <= Len(d) THEN d[k] ELSE c[k - Len(d)]
      BY <1>1, <1>4, <2>4, <2>6, <2>8, ConcatProperties
    <3> QED BY <1>1, <1>4, <2>4, <2>6, <2>8, <3>1
  <2> QED BY <1>4, <2>4, <2>5 DEF PutIn
<1>7. Sorted(r)
  <2> SUFFICES ASSUME NEW j \in 1 .. Len(r), NEW k \in 1 .. Len(r), j < k PROVE r[j].tick <= r[k].tick
    BY DEF Sorted
  <2>1. Len(r) = Len(q) + 1
        /\ r[j] = (IF j < p THEN q[j] ELSE IF j = p THEN e ELSE q[j - 1])
        /\ r[k] = (IF k < p THEN q[k] ELSE IF k = p THEN e ELSE q[k - 1])
    BY <1>6 DEF PutIn
  <2>2. \A m, n \in 1 .. Len(q) : m < n => q[m].tick <= q[n].tick
    BY DEF ByTick, Sorted
  <2>3. CASE k < p
    BY <1>1, <1>4, <2>1, <2>2, <2>3
  <2>4. CASE k = p
    BY <1>1, <1>4, <2>1, <2>4
  <2>5. CASE k > p
    <3>1. k - 1 \in 1 .. Len(q) /\ r[k] = q[k - 1] /\ ~(q[k - 1].tick <= e.tick)
      BY <1>1, <1>4, <2>1, <2>5
    <3>2. CASE j < p
      BY <1>1, <1>2, <1>4, <2>1, <2>2, <2>5, <3>1, <3>2
    <3>3. CASE j = p
      BY <1>1, <1>2, <2>1, <2>5, <3>1, <3>3
    <3>4. CASE j > p
      <4>1. j - 1 \in 1 .. Len(q) /\ r[j] = q[j - 1] /\ j - 1 < k - 1
        BY <1>1, <1>4, <2>1, <3>1, <3>4
      <4> QED BY <2>2, <3>1, <4>1
    <3> QED BY <1>1, <1>4, <2>1, <3>2, <3>3, <3>4
  <2> QED BY <1>1, <1>4, <2>1, <2>3, <2>4, <2>5
<1>8. Distinct(r)
  <2> SUFFICES ASSUME NEW j \in 1 .. Len(r), NEW k \in 1 .. Len(r), r[j].id = r[k].id PROVE j = k
    BY DEF Distinct
  <2>1. Len(r) = Len(q) + 1
        /\ r[j] = (IF j < p THEN q[j] ELSE IF j = p THEN e ELSE q[j - 1])
        /\ r[k] = (IF k < p THEN q[k] ELSE IF k = p THEN e ELSE q[k - 1])
    BY <1>6 DEF PutIn
  <2>2. \A m, n \in 1 .. Len(q) : q[m].id = q[n].id => m = n
    BY DEF ByTick, Distinct
  <2> QED BY <1>1, <1>4, <2>1, <2>2
<1>9. r \in Seq(Event)
  BY <1>6 DEF PutIn
<1> QED BY <1>6, <1>7, <1>8, <1>9 DEF p, r, ByTick

(* Without one of its events a queue is in order still.                    *)
LEMMA WithoutOne ==
  ASSUME NEW q, ByTick(q), NEW p, NEW r, Without(q, p, r)
  PROVE  ByTick(r)
<1>1. q \in Seq(Event) /\ Len(q) \in Nat /\ p \in 1 .. Len(q) /\ r \in Seq(Event) /\ Len(r) = Len(q) - 1
  BY DEF ByTick, Without
<1>2. \A k \in 1 .. Len(r) : r[k] = IF k < p THEN q[k] ELSE q[k + 1]
  BY DEF Without
<1>3. Sorted(r)
  <2> SUFFICES ASSUME NEW j \in 1 .. Len(r), NEW k \in 1 .. Len(r), j < k PROVE r[j].tick <= r[k].tick
    BY DEF Sorted
  <2>1. \A m, n \in 1 .. Len(q) : m < n => q[m].tick <= q[n].tick
    BY DEF ByTick, Sorted
  <2> QED BY <1>1, <1>2, <2>1
<1>4. Distinct(r)
  <2> SUFFICES ASSUME NEW j \in 1 .. Len(r), NEW k \in 1 .. Len(r), r[j].id = r[k].id PROVE j = k
    BY DEF Distinct
  <2>1. \A m, n \in 1 .. Len(q) : q[m].id = q[n].id => m = n
    BY DEF ByTick, Distinct
  <2> QED BY <1>1, <1>2, <2>1
<1> QED BY <1>1, <1>3, <1>4 DEF ByTick

(* An id that is nowhere in the queue is not removed; one that is, is.     *)
LEMMA RemovedNone ==
  ASSUME NEW q, ByTick(q), NEW i, \A k \in 1 .. Len(q) : q[k].id # i
  PROVE  remove_event(q, i) = q
  BY DEF remove_event, SelectInSeq

LEMMA RemovedOne ==
  ASSUME NEW q, ByTick(q), NEW p \in 1 .. Len(q)
  PROVE  Without(q, p, remove_event(q, q[p].id)) /\ ByTick(remove_event(q, q[p].id))
<1> DEFINE I == {k \in 1 .. Len(q) : q[k].id = q[p].id}
           r == remove_event(q, q[p].id)
<1>1. q \in Seq(Event) /\ Len(q) \in Nat
  BY DEF ByTick
<1>2. I = {p}
  BY DEF ByTick, Distinct
<1>3. Min(I) = p
  BY <1>2 DEF Min
<1>4. SelectInSeq(q, LAMBDA x : x.id = q[p].id) = p
  BY <1>2, <1>3 DEF SelectInSeq
<1>5. r = SubSeq(q, 1, p - 1) \o SubSeq(q, p + 1, Len(q))
  BY <1>4, p # 0 DEF remove_event, RemoveAt
<1> HIDE DEF r
<1>6. Without(q, p, r)
  <2>1. SubSeq(q, 1, p - 1) \in Seq(Event) /\ Len(SubSeq(q, 1, p - 1)) = p - 1
        /\ \A k \in 1 .. p - 1 : SubSeq(q, 1, p - 1)[k] = q[k]
    BY <1>1
  <2>2. SubSeq(q, p + 1, Len(q)) \in Seq(Event) /\ Len(SubSeq(q, p + 1, Len(q))) = Len(q) - p
        /\ \A k \in 1 .. Len(q) - p : SubSeq(q, p + 1, Len(q))[k] = q[p + k]
    BY <1>1
  <2> DEFINE a == SubSeq(q, 1, p - 1)
             b == SubSeq(q, p + 1, Len(q))
  <2> HIDE DEF a, b
  <2>5. a \in Seq(Event) /\ b \in Seq(Event) /\ r = a \o b
        /\ Len(a) = p - 1 /\ Len(b) = Len(q) - p
        /\ (\A k \in 1 .. p - 1 : a[k] = q[k]) /\ (\A k \in 1 .. Len(q) - p : b[k] = q[p + k])
    BY <1>5, <2>1, <2>2 DEF a, b
  <2>3. r \in Seq(Event) /\ Len(r) = Len(q) - 1
    <3>1. (a \o b) \in Seq(Event) /\ Len(a \o b) = Len(a) + Len(b)
      BY <2>5, ConcatProperties
    <3> QED BY <1>1, <2>5, <3>1
  <2>4. ASSUME NEW k \in 1 .. Len(r) PROVE r[k] = IF k < p THEN q[k] ELSE q[k + 1]
    <3>1. r[k] = IF k <= Len(a) THEN a[k] ELSE b[k - Len(a)]
      BY <1>1, <2>3, <2>5, ConcatProperties
    <3> QED BY <1>1, <2>3, <2>5, <3>1
  <2> QED BY <2>3, <2>4 DEF Without
<1> QED BY <1>6, WithoutOne DEF r

-----------------------------------------------------------------------------
(* The invariant of the simulator                                          *)

(* The ids of the queue are below n, and what runs is the first event.     *)
Numbered(q, n) == ByTick(q) /\ n \in Nat \ {0} /\ \A k \in 1 .. Len(q) : q[k].id < n
RunsFirst(q, e) == e = NoEvent \/ (Len(q) > 0 /\ e = q[1])

(* Every timer event but the one that runs is the event of its timer, at   *)
(* the time the timer was asked for; a timer that was asked for has one.   *)
TimersKept(q, e, tm, as) ==
  /\ \A t \in Timers :
       tm[t].next_event \in Nat /\ as[t] \in Nat \cup {Never} /\ (as[t] = Never <=> tm[t].next_event = 0)
  /\ \A k \in 1 .. Len(q) : q[k].kind = "timer" => q[k].of \in Timers
  /\ \A k \in 1 .. Len(q) : q[k].kind = "timer" /\ q[k].id # e.id =>
       tm[q[k].of].next_event = q[k].id /\ as[q[k].of] = q[k].tick
  /\ \A t \in Timers : as[t] # Never =>
       \E k \in 1 .. Len(q) : /\ q[k].kind = "timer" /\ q[k].of = t
                              /\ q[k].id = tm[t].next_event /\ q[k].id # e.id

(* The datagrams are in the queue in the order they were posted, none more *)
(* than a tick after its first event: the next one goes behind them.  What *)
(* has come was posted before all that is still to come.                   *)
Come(n, p, arr, un) == n \in Range(arr[p[n].to]) \/ n \in un
MailKept(q, e, p, arr, un) ==
  /\ p \in Seq([to : Hosts, at : Nat])
  /\ \A h \in Hosts : arr[h] \in Seq(1 .. Len(p))
  /\ un \subseteq 1 .. Len(p)
  /\ \A k \in 1 .. Len(q) : q[k].kind = "data" =>
       q[k].of \in 1 .. Len(p) /\ q[k].tick = p[q[k].of].at + 1 /\ q[k].tick <= q[1].tick + 1
  /\ \A j, k \in 1 .. Len(q) :
       j < k /\ q[j].kind = "data" /\ q[k].kind = "data" => q[j].of < q[k].of
  /\ \A n \in 1 .. Len(p) : ~Come(n, p, arr, un) <=>
       \E k \in 1 .. Len(q) : q[k].kind = "data" /\ q[k].of = n /\ q[k].id # e.id
  /\ \A m, n \in 1 .. Len(p) : m < n /\ Come(n, p, arr, un) => Come(m, p, arr, un)

SimulationInvariant ==
  /\ Numbered(queue, id_seq) /\ RunsFirst(queue, running)
  /\ running # NoEvent => clock = running.tick
  /\ sim_timer \in [Timers -> [next_event : Nat, repeat : Nat]]
  /\ asked \in [Timers -> Nat \cup {Never}]
  /\ arrived \in [Hosts -> Seq(Nat)]
  /\ TimersKept(queue, running, sim_timer, asked)
  /\ MailKept(queue, running, posted, arrived, unheard)

LEMMA QueueTypes ==
  ASSUME NEW q, ByTick(q)
  PROVE  /\ q \in Seq(Event) /\ Len(q) \in Nat /\ DOMAIN q = 1 .. Len(q)
         /\ \A k \in 1 .. Len(q) :
              /\ q[k] \in Event /\ q[k].id \in Nat \ {0} /\ q[k].tick \in Nat
              /\ q[k].kind \in {"timer", "data"}
         /\ Len(q) = 0 <=> q = <<>>
         /\ Len(q) > 0 => Head(q) = q[1]
<1>1. q \in Seq(Event)
  BY DEF ByTick
<1>2. Len(q) \in Nat /\ DOMAIN q = 1 .. Len(q) /\ (Len(q) = 0 <=> q = <<>>) /\ (Len(q) > 0 => Head(q) = q[1])
  BY <1>1
<1>3. \A k \in 1 .. Len(q) : q[k] \in Event
  BY <1>1
<1> QED BY <1>1, <1>2, <1>3 DEF Event

(* AsScheduled follows.                                                    *)
LEMMA InvariantSchedules ==
  ASSUME SimulationInvariant
  PROVE  AsScheduled
<1>1. ByTick(queue)
  BY DEF SimulationInvariant, Numbered
<1>2. DOMAIN queue = 1 .. Len(queue) /\ Len(queue) \in Nat
  BY <1>1, QueueTypes
<1>3. \A j, k \in DOMAIN queue : queue[j].id = queue[k].id => j = k
  BY <1>1, <1>2 DEF ByTick, Distinct
<1>4. \A j, k \in DOMAIN queue : j < k => queue[j].tick <= queue[k].tick
  BY <1>1, <1>2 DEF ByTick, Sorted
<1>5. ASSUME NEW t \in Timers
      PROVE  IF asked[t] = Never THEN Waiting("timer", t) = {} /\ sim_timer[t].next_event = 0
             ELSE \E k \in DOMAIN queue : /\ Waiting("timer", t) = {k}
                                          /\ queue[k].id = sim_timer[t].next_event /\ queue[k].tick = asked[t]
  <2>1. asked[t] = Never <=> sim_timer[t].next_event = 0
    BY DEF SimulationInvariant, TimersKept
  <2>2. \A k \in Waiting("timer", t) : queue[k].id = sim_timer[t].next_event /\ asked[t] = queue[k].tick
    BY <1>2, SMTT(30) DEF SimulationInvariant, TimersKept, Waiting
  <2>3. CASE asked[t] = Never
    <3>1. ASSUME NEW k \in Waiting("timer", t) PROVE FALSE
      <4>1. k \in 1 .. Len(queue)
        BY <1>2 DEF Waiting
      <4>2. queue[k].id # 0
        BY <1>1, <4>1, QueueTypes
      <4> QED BY <2>1, <2>2, <2>3, <4>2
    <3> QED BY <2>1, <2>3, <3>1
  <2>4. CASE asked[t] # Never
    <3>1. PICK k \in 1 .. Len(queue) : /\ queue[k].kind = "timer" /\ queue[k].of = t
                                       /\ queue[k].id = sim_timer[t].next_event /\ queue[k].id # running.id
      BY <2>4 DEF SimulationInvariant, TimersKept
    <3>2. k \in Waiting("timer", t)
      BY <1>2, <3>1 DEF Waiting
    <3>3. \A j \in Waiting("timer", t) : j = k
      BY <1>3, <2>2, <3>2 DEF Waiting
    <3>4. Waiting("timer", t) = {k}
      BY <3>2, <3>3
    <3> QED BY <1>2, <2>2, <2>4, <3>1, <3>2, <3>4
  <2> QED BY <2>3, <2>4
<1>6. ASSUME NEW n \in DOMAIN posted
      PROVE  LET come == n \in Range(arrived[posted[n].to]) \cup unheard
             IN /\ ~come <=> Waiting("data", n) # {}
                /\ \A k \in Waiting("data", n) : queue[k].tick = posted[n].at + 1
                /\ come => \A m \in 1 .. n - 1 : posted[m].to = posted[n].to => Waiting("data", m) = {}
  <2> DEFINE come == n \in Range(arrived[posted[n].to]) \cup unheard
  <2>1. posted \in Seq([to : Hosts, at : Nat])
    BY DEF SimulationInvariant, MailKept
  <2>2. DOMAIN posted = 1 .. Len(posted) /\ Len(posted) \in Nat /\ n \in 1 .. Len(posted)
    BY <2>1
  <2>3. come <=> Come(n, posted, arrived, unheard)
    BY DEF Come
  <2> HIDE DEF come
  <2>4. \A m \in 1 .. Len(posted) : ~Come(m, posted, arrived, unheard) <=> Waiting("data", m) # {}
    <3>1. \A m \in 1 .. Len(posted) : ~Come(m, posted, arrived, unheard) <=>
            \E k \in 1 .. Len(queue) : queue[k].kind = "data" /\ queue[k].of = m /\ queue[k].id # running.id
      BY DEF SimulationInvariant, MailKept
    <3> TAKE m \in 1 .. Len(posted)
    <3>2. \A k : k \in Waiting("data", m) <=>
            k \in 1 .. Len(queue) /\ queue[k].kind = "data" /\ queue[k].of = m /\ queue[k].id # running.id
      BY <1>2 DEF Waiting
    <3>3. Waiting("data", m) # {} <=> \E k : k \in Waiting("data", m)
      OBVIOUS
    <3>4. ~Come(m, posted, arrived, unheard) <=>
            \E k \in 1 .. Len(queue) : queue[k].kind = "data" /\ queue[k].of = m /\ queue[k].id # running.id
      BY <3>1
    <3> QED BY ONLY <3>2, <3>3, <3>4
  <2>5. \A k \in Waiting("data", n) : queue[k].tick = posted[n].at + 1
    <3>1. \A k \in 1 .. Len(queue) : queue[k].kind = "data" => queue[k].tick = posted[queue[k].of].at + 1
      BY DEF SimulationInvariant, MailKept
    <3> TAKE k \in Waiting("data", n)
    <3>2. k \in 1 .. Len(queue) /\ queue[k].kind = "data" /\ queue[k].of = n
      BY <1>2 DEF Waiting
    <3> QED BY <3>1, <3>2
  <2>6. ASSUME come, NEW m \in 1 .. n - 1 PROVE Waiting("data", m) = {}
    <3>1. m \in 1 .. Len(posted) /\ m < n
      BY <2>2
    <3>2. Come(m, posted, arrived, unheard)
      BY <2>2, <2>3, <2>6, <3>1 DEF SimulationInvariant, MailKept
    <3> QED BY <2>4, <3>1, <3>2
  <2> QED BY <2>2, <2>3, <2>4, <2>5, <2>6 DEF come
<1> QED BY <1>4, <1>5, <1>6 DEF AsScheduled

-----------------------------------------------------------------------------
(* What is added and removed keeps it                                      *)

(* A queue that lost an event, not the one that runs, or that one.         *)
LEMMA NumberedWithout ==
  ASSUME NEW q, NEW n, Numbered(q, n), NEW p, NEW r, Without(q, p, r)
  PROVE  Numbered(r, n)
<1>1. ByTick(r) /\ ByTick(q)
  BY WithoutOne DEF Numbered
<1>2. Len(q) \in Nat /\ Len(r) \in Nat /\ p \in 1 .. Len(q) /\ Len(r) = Len(q) - 1
  BY <1>1, QueueTypes DEF Without
<1>3. \A k \in 1 .. Len(r) : r[k].id < n
  BY <1>2 DEF Numbered, Without
<1> QED BY <1>1, <1>3 DEF Numbered

LEMMA RunsFirstWithout ==
  ASSUME NEW q, ByTick(q), NEW e, RunsFirst(q, e), NEW p, NEW r, Without(q, p, r), q[p].id # e.id
  PROVE  RunsFirst(r, e)
<1>1. Len(q) \in Nat /\ p \in 1 .. Len(q) /\ Len(r) = Len(q) - 1
  BY QueueTypes DEF Without
<1>2. CASE e # NoEvent
  <2>1. Len(q) > 0 /\ e = q[1]
    BY <1>2 DEF RunsFirst
  <2>2. p > 1 /\ Len(r) > 0
    BY <1>1, <2>1
  <2>3. r[1] = q[1]
    BY <1>1, <2>2 DEF Without
  <2> QED BY <2>1, <2>2, <2>3 DEF RunsFirst
<1> QED BY <1>2 DEF RunsFirst

(* The timers but one are as they were; r is q without the event i that was*)
(* not running, or q when there is none.                                   *)
SameBut(t, tm, as, tm2, as2) == \A u \in Timers \ {t} : tm2[u] = tm[u] /\ as2[u] = as[u]
Dropped(q, e, i, r) ==
  \/ i = 0 /\ r = q
  \/ \E p \in 1 .. Len(q) : /\ Without(q, p, r) /\ q[p].kind = "timer"
                            /\ q[p].id = i /\ q[p].id # e.id

(* A timer that has no event any more.                                     *)
LEMMA TimersStopped ==
  ASSUME NEW q, ByTick(q), NEW e, NEW tm, NEW as, TimersKept(q, e, tm, as),
         NEW t \in Timers, NEW tm2, NEW as2,
         SameBut(t, tm, as, tm2, as2), tm2[t].next_event = 0, as2[t] = Never,
         NEW r, Dropped(q, e, tm[t].next_event, r)
  PROVE  TimersKept(r, e, tm2, as2)
<1>0. \A u \in Timers \ {t} : tm2[u] = tm[u] /\ as2[u] = as[u]
  BY DEF SameBut
<1>1. Len(q) \in Nat /\ \A k \in 1 .. Len(q) : q[k].id \in Nat \ {0} /\ q[k].kind \in {"timer", "data"}
  BY QueueTypes
<1>2. \A j, k \in 1 .. Len(q) : q[j].id = q[k].id => j = k
  BY DEF ByTick, Distinct
<1>3. /\ Len(r) \in Nat
      /\ \A k \in 1 .. Len(r) : \E j \in 1 .. Len(q) : r[k] = q[j] /\ q[j].id # tm[t].next_event
      /\ \A j \in 1 .. Len(q) : q[j].id # tm[t].next_event => \E k \in 1 .. Len(r) : r[k] = q[j]
  <2>1. CASE tm[t].next_event = 0 /\ r = q
    BY <2>1, <1>1
  <2>2. CASE \E p \in 1 .. Len(q) : Without(q, p, r) /\ q[p].id = tm[t].next_event /\ q[p].id # e.id
    <3>1. PICK p \in 1 .. Len(q) : Without(q, p, r) /\ q[p].id = tm[t].next_event
      BY <2>2
    <3>2. Len(r) = Len(q) - 1 /\ \A k \in 1 .. Len(r) : r[k] = IF k < p THEN q[k] ELSE q[k + 1]
      BY <3>1 DEF Without
    <3>3. ASSUME NEW k \in 1 .. Len(r) PROVE \E j \in 1 .. Len(q) : r[k] = q[j] /\ q[j].id # tm[t].next_event
      <4> DEFINE j == IF k < p THEN k ELSE k + 1
      <4>1. j \in 1 .. Len(q) /\ j # p /\ r[k] = q[j]
        BY <1>1, <3>2
      <4> HIDE DEF j
      <4> QED BY <1>2, <3>1, <4>1
    <3>4. ASSUME NEW j \in 1 .. Len(q), q[j].id # tm[t].next_event PROVE \E k \in 1 .. Len(r) : r[k] = q[j]
      <4>1. j # p
        BY <3>1, <3>4
      <4>2. CASE j < p
        <5>1. j \in 1 .. Len(r) /\ r[j] = q[j]
          BY <1>1, <3>2, <4>2
        <5> QED BY <5>1
      <4>3. CASE j > p
        <5>1. j - 1 \in 1 .. Len(r) /\ r[j - 1] = q[j]
          BY <1>1, <3>2, <4>3
        <5> QED BY <5>1
      <4> QED BY <1>1, <4>1, <4>2, <4>3
    <3> QED BY <1>1, <3>2, <3>3, <3>4
  <2> QED BY <2>1, <2>2 DEF Dropped
<1>4. \A u \in Timers : tm2[u].next_event \in Nat /\ as2[u] \in Nat \cup {Never} /\ (as2[u] = Never <=> tm2[u].next_event = 0)
  <2>1. \A u \in Timers : tm[u].next_event \in Nat /\ as[u] \in Nat \cup {Never} /\ (as[u] = Never <=> tm[u].next_event = 0)
    BY DEF TimersKept
  <2> TAKE u \in Timers
  <2>2. CASE u = t
    BY <2>2
  <2>3. CASE u # t
    BY <1>0, <2>1, <2>3
  <2> QED BY <2>2, <2>3
<1>5. \A k \in 1 .. Len(r) : r[k].kind = "timer" => r[k].of \in Timers
  <2>1. \A k \in 1 .. Len(q) : q[k].kind = "timer" => q[k].of \in Timers
    BY DEF TimersKept
  <2> TAKE k \in 1 .. Len(r)
  <2>2. PICK j \in 1 .. Len(q) : r[k] = q[j]
    BY <1>3
  <2> QED BY <2>1, <2>2
<1>6. ASSUME NEW k \in 1 .. Len(r), r[k].kind = "timer", r[k].id # e.id
      PROVE  tm2[r[k].of].next_event = r[k].id /\ as2[r[k].of] = r[k].tick
  <2>1. PICK j \in 1 .. Len(q) : r[k] = q[j] /\ q[j].id # tm[t].next_event
    BY <1>3
  <2>2. tm[r[k].of].next_event = r[k].id /\ as[r[k].of] = r[k].tick /\ r[k].of \in Timers
    <3>1. q[j].kind = "timer" /\ q[j].id # e.id
      BY <2>1, <1>6
    <3>2. tm[q[j].of].next_event = q[j].id /\ as[q[j].of] = q[j].tick /\ q[j].of \in Timers
      BY <3>1 DEF TimersKept
    <3> QED BY <2>1, <3>2
  <2>3. r[k].of # t
    BY <2>1, <2>2
  <2> QED BY <1>0, <2>2, <2>3
<1>7. ASSUME NEW u \in Timers, as2[u] # Never
      PROVE  \E k \in 1 .. Len(r) : /\ r[k].kind = "timer" /\ r[k].of = u
                                    /\ r[k].id = tm2[u].next_event /\ r[k].id # e.id
  <2>1. u # t /\ tm2[u] = tm[u] /\ as[u] # Never
    BY <1>0, <1>7
  <2>2. PICK j \in 1 .. Len(q) : /\ q[j].kind = "timer" /\ q[j].of = u
                                 /\ q[j].id = tm[u].next_event /\ q[j].id # e.id
    BY <2>1 DEF TimersKept
  <2>3. q[j].id # tm[t].next_event
    <3> SUFFICES ASSUME q[j].id = tm[t].next_event PROVE FALSE
      OBVIOUS
    <3>1. tm[t].next_event # 0
      BY <1>1
    <3>2. as[t] # Never
      BY <3>1 DEF TimersKept
    <3>3. PICK i \in 1 .. Len(q) : q[i].of = t /\ q[i].id = tm[t].next_event
      BY <3>2 DEF TimersKept
    <3>4. i = j
      BY <1>2, <3>3
    <3> QED BY <2>1, <2>2, <3>3, <3>4
  <2>4. PICK k \in 1 .. Len(r) : r[k] = q[j]
    BY <1>3, <2>3
  <2> QED BY <2>1, <2>2, <2>4
<1> QED BY <1>4, <1>5, <1>6, <1>7 DEF TimersKept

(* A timer that is given a new event.                                      *)
LEMMA TimersStarted ==
  ASSUME NEW q, ByTick(q), NEW e, NEW tm, NEW as, TimersKept(q, e, tm, as),
         NEW t \in Timers, as[t] = Never, NEW tm2, NEW as2,
         SameBut(t, tm, as, tm2, as2),
         NEW x \in Event, NEW p, NEW r, PutIn(q, p, x, r),
         x.kind = "timer", x.of = t, x.id # e.id,
         tm2[t].next_event = x.id, as2[t] = x.tick
  PROVE  TimersKept(r, e, tm2, as2)
<1>0. \A u \in Timers \ {t} : tm2[u] = tm[u] /\ as2[u] = as[u]
  BY DEF SameBut
<1>1. Len(q) \in Nat /\ \A k \in 1 .. Len(q) : q[k].id \in Nat \ {0}
  BY QueueTypes
<1>2. x.id \in Nat \ {0} /\ x.tick \in Nat
  BY DEF Event
<1>3. /\ Len(r) = Len(q) + 1 /\ p \in 1 .. Len(q) + 1
      /\ \A k \in 1 .. Len(r) : r[k] = IF k < p THEN q[k] ELSE IF k = p THEN x ELSE q[k - 1]
  BY DEF PutIn
<1>4. \A k \in 1 .. Len(r) : r[k] = x \/ \E j \in 1 .. Len(q) : r[k] = q[j]
  <2> TAKE k \in 1 .. Len(r)
  <2>1. CASE k < p
    <3>1. k \in 1 .. Len(q)
      BY <1>1, <1>3, <2>1
    <3> QED BY <1>3, <2>1, <3>1
  <2>2. CASE k > p
    <3>1. k - 1 \in 1 .. Len(q) /\ r[k] = q[k - 1]
      BY <1>1, <1>3, <2>2
    <3> QED BY <3>1
  <2> QED BY <1>1, <1>3, <2>1, <2>2
<1>5. \A j \in 1 .. Len(q) : \E k \in 1 .. Len(r) : r[k] = q[j]
  <2> TAKE j \in 1 .. Len(q)
  <2>1. CASE j < p
    <3>1. j \in 1 .. Len(r) /\ r[j] = q[j]
      BY <1>1, <1>3, <2>1
    <3> QED BY <3>1
  <2>2. CASE j >= p
    <3>1. j + 1 \in 1 .. Len(r) /\ r[j + 1] = q[j]
      BY <1>1, <1>3, <2>2
    <3> QED BY <3>1
  <2> QED BY <1>1, <1>3, <2>1, <2>2
<1>6. p \in 1 .. Len(r) /\ r[p] = x
  BY <1>1, <1>3
<1>7. \A u \in Timers : tm2[u].next_event \in Nat /\ as2[u] \in Nat \cup {Never} /\ (as2[u] = Never <=> tm2[u].next_event = 0)
  <2>1. \A u \in Timers : tm[u].next_event \in Nat /\ as[u] \in Nat \cup {Never} /\ (as[u] = Never <=> tm[u].next_event = 0)
    BY DEF TimersKept
  <2> TAKE u \in Timers
  <2>2. CASE u = t
    BY <1>2, <2>2 DEF Never
  <2>3. CASE u # t
    BY <1>0, <2>1, <2>3
  <2> QED BY <2>2, <2>3
<1>8. \A k \in 1 .. Len(r) : r[k].kind = "timer" => r[k].of \in Timers
  BY <1>4 DEF TimersKept
<1>9. ASSUME NEW k \in 1 .. Len(r), r[k].kind = "timer", r[k].id # e.id
      PROVE  tm2[r[k].of].next_event = r[k].id /\ as2[r[k].of] = r[k].tick
  <2>1. CASE r[k] = x
    BY <2>1
  <2>2. ASSUME NEW j \in 1 .. Len(q), r[k] = q[j]
        PROVE  tm2[r[k].of].next_event = r[k].id /\ as2[r[k].of] = r[k].tick
    <3>1. tm[r[k].of].next_event = r[k].id /\ as[r[k].of] = r[k].tick /\ r[k].of \in Timers
      <4>1. q[j].kind = "timer" /\ q[j].id # e.id
        BY <1>9, <2>2
      <4>2. tm[q[j].of].next_event = q[j].id /\ as[q[j].of] = q[j].tick /\ q[j].of \in Timers
        BY <4>1 DEF TimersKept
      <4> QED BY <2>2, <4>2
    <3>2. r[k].id # 0 /\ tm[t].next_event = 0
      <4>1. tm[t].next_event = 0
        BY DEF TimersKept
      <4> QED BY <1>1, <2>2, <4>1
    <3> QED BY <1>0, <3>1, <3>2
  <2> QED BY <1>4, <2>1, <2>2
<1>10. ASSUME NEW u \in Timers, as2[u] # Never
       PROVE  \E k \in 1 .. Len(r) : /\ r[k].kind = "timer" /\ r[k].of = u
                                     /\ r[k].id = tm2[u].next_event /\ r[k].id # e.id
  <2>1. CASE u = t
    BY <1>6, <2>1
  <2>2. CASE u # t
    <3>1. PICK j \in 1 .. Len(q) : /\ q[j].kind = "timer" /\ q[j].of = u
                                   /\ q[j].id = tm[u].next_event /\ q[j].id # e.id
      BY <1>0, <1>10, <2>2 DEF TimersKept
    <3> QED BY <1>0, <1>5, <2>2, <3>1
  <2> QED BY <2>1, <2>2
<1> QED BY <1>7, <1>8, <1>9, <1>10 DEF TimersKept

(* The event that ran is removed.                                          *)
LEMMA TimersRan ==
  ASSUME NEW q, ByTick(q), NEW e, RunsFirst(q, e), e # NoEvent, NEW tm, NEW as, TimersKept(q, e, tm, as),
         NEW r, Without(q, 1, r)
  PROVE  TimersKept(r, NoEvent, tm, as)
<1>1. Len(q) \in Nat /\ (\A k \in 1 .. Len(q) : q[k].id \in Nat \ {0}) /\ Len(q) > 0 /\ e = q[1]
  BY QueueTypes DEF RunsFirst
<1>2. \A j, k \in 1 .. Len(q) : q[j].id = q[k].id => j = k
  BY DEF ByTick, Distinct
<1>3. Len(r) = Len(q) - 1 /\ \A k \in 1 .. Len(r) : r[k] = q[k + 1]
  BY <1>1 DEF Without
<1>4. \A k \in 1 .. Len(r) : k + 1 \in 1 .. Len(q) /\ r[k] = q[k + 1] /\ r[k].id # e.id
  BY <1>1, <1>2, <1>3
<1>5. \A j \in 1 .. Len(q) : q[j].id # e.id => j - 1 \in 1 .. Len(r) /\ r[j - 1] = q[j]
  BY <1>1, <1>3
<1>6. NoEvent.id = 0
  BY DEF NoEvent
<1>7. \A k \in 1 .. Len(r) : r[k].kind = "timer" =>
        r[k].of \in Timers /\ tm[r[k].of].next_event = r[k].id /\ as[r[k].of] = r[k].tick
  BY <1>4 DEF TimersKept
<1>8. \A t \in Timers : as[t] # Never =>
        \E k \in 1 .. Len(r) : /\ r[k].kind = "timer" /\ r[k].of = t
                               /\ r[k].id = tm[t].next_event /\ r[k].id # NoEvent.id
  <2> TAKE t \in Timers
  <2> HAVE as[t] # Never
  <2>1. PICK j \in 1 .. Len(q) : /\ q[j].kind = "timer" /\ q[j].of = t
                                 /\ q[j].id = tm[t].next_event /\ q[j].id # e.id
    BY DEF TimersKept
  <2> QED BY <1>1, <1>5, <1>6, <2>1
<1>9. \A t \in Timers : tm[t].next_event \in Nat /\ as[t] \in Nat \cup {Never} /\ (as[t] = Never <=> tm[t].next_event = 0)
  BY DEF TimersKept
<1> QED BY <1>7, <1>8, <1>9 DEF TimersKept

(* A queue without a timer event, or without the event that ran.           *)
LEMMA MailWithout ==
  ASSUME NEW q, ByTick(q), NEW e, NEW po, NEW arr, NEW un, MailKept(q, e, po, arr, un),
         NEW p, NEW r, Without(q, p, r), NEW e2,
         q[p].kind = "timer" \/ q[p].id = e.id,
         \A k \in 1 .. Len(q) : k # p => (q[k].id = e.id <=> q[k].id = e2.id)
  PROVE  MailKept(r, e2, po, arr, un)
<1>1. Len(q) \in Nat /\ p \in 1 .. Len(q) /\ \A k \in 1 .. Len(q) : q[k].tick \in Nat /\ q[k].kind \in {"timer", "data"}
  BY QueueTypes DEF Without
<1>2. Len(r) = Len(q) - 1 /\ \A k \in 1 .. Len(r) : r[k] = IF k < p THEN q[k] ELSE q[k + 1]
  BY DEF Without
<1> DEFINE at(k) == IF k < p THEN k ELSE k + 1
<1>3. ASSUME NEW k \in 1 .. Len(r) PROVE at(k) \in 1 .. Len(q) /\ at(k) # p /\ r[k] = q[at(k)]
  BY <1>1, <1>2
<1>4. ASSUME NEW j \in 1 .. Len(r), NEW k \in 1 .. Len(r), j < k PROVE at(j) < at(k)
  BY <1>1, <1>2, <1>4
<1>5. ASSUME NEW j \in 1 .. Len(q), j # p PROVE \E k \in 1 .. Len(r) : at(k) = j
  <2>1. CASE j < p
    <3>1. j \in 1 .. Len(r) /\ at(j) = j
      BY <1>1, <1>2, <2>1
    <3> QED BY <3>1
  <2>2. CASE j > p
    <3>1. j - 1 \in 1 .. Len(r) /\ at(j - 1) = j
      BY <1>1, <1>2, <2>2
    <3> QED BY <3>1
  <2> QED BY <1>1, <1>5, <2>1, <2>2
<1> HIDE DEF at
<1>6. ASSUME NEW k \in 1 .. Len(r), r[k].kind = "data"
      PROVE  r[k].of \in 1 .. Len(po) /\ r[k].tick = po[r[k].of].at + 1 /\ r[k].tick <= r[1].tick + 1
  <2>1. q[at(k)].of \in 1 .. Len(po) /\ q[at(k)].tick = po[q[at(k)].of].at + 1 /\ q[at(k)].tick <= q[1].tick + 1
    BY <1>3, <1>6 DEF MailKept
  <2>2. 1 \in 1 .. Len(r) /\ 1 \in 1 .. Len(q)
    BY <1>1, <1>2
  <2>3. q[1].tick <= q[at(1)].tick
    <3>1. at(1) = 1 \/ 1 < at(1)
      BY <1>1, <1>3, <2>2
    <3>2. \A m, n \in 1 .. Len(q) : m < n => q[m].tick <= q[n].tick
      BY DEF ByTick, Sorted
    <3> QED BY <1>1, <1>3, <2>2, <3>1, <3>2
  <2>4. r[1] = q[at(1)] /\ r[k] = q[at(k)] /\ q[at(1)].tick \in Nat /\ q[1].tick \in Nat /\ q[at(k)].tick \in Nat
    BY <1>1, <1>3, <2>2
  <2>5. q[at(k)].tick <= q[at(1)].tick + 1
    BY <2>1, <2>3, <2>4, SMTT(30)
  <2> QED BY <2>1, <2>4, <2>5
<1>7. ASSUME NEW j \in 1 .. Len(r), NEW k \in 1 .. Len(r), j < k, r[j].kind = "data", r[k].kind = "data"
      PROVE  r[j].of < r[k].of
  <2>1. at(j) \in 1 .. Len(q) /\ at(k) \in 1 .. Len(q) /\ at(j) < at(k) /\ r[j] = q[at(j)] /\ r[k] = q[at(k)]
    BY <1>3, <1>4, <1>7
  <2>2. q[at(j)].kind = "data" /\ q[at(k)].kind = "data"
    BY <1>7, <2>1
  <2>3. q[at(j)].of < q[at(k)].of
    BY <2>1, <2>2 DEF MailKept
  <2> QED BY <2>1, <2>3
<1>8. ASSUME NEW n \in 1 .. Len(po)
      PROVE  ~Come(n, po, arr, un) <=>
               \E k \in 1 .. Len(r) : r[k].kind = "data" /\ r[k].of = n /\ r[k].id # e2.id
  <2>1. ~Come(n, po, arr, un) <=> \E k \in 1 .. Len(q) : q[k].kind = "data" /\ q[k].of = n /\ q[k].id # e.id
    BY DEF MailKept
  <2>2. ASSUME NEW k \in 1 .. Len(q), q[k].kind = "data", q[k].of = n, q[k].id # e.id
        PROVE  \E j \in 1 .. Len(r) : r[j].kind = "data" /\ r[j].of = n /\ r[j].id # e2.id
    <3>1. k # p
      BY <2>2
    <3>2. PICK j \in 1 .. Len(r) : at(j) = k
      BY <1>5, <3>1
    <3>3. r[j] = q[k]
      BY <1>3, <3>2
    <3> QED BY <2>2, <3>1, <3>2, <3>3
  <2>3. ASSUME NEW j \in 1 .. Len(r), r[j].kind = "data", r[j].of = n, r[j].id # e2.id
        PROVE  \E k \in 1 .. Len(q) : q[k].kind = "data" /\ q[k].of = n /\ q[k].id # e.id
    <3>1. at(j) \in 1 .. Len(q) /\ at(j) # p /\ r[j] = q[at(j)]
      BY <1>3
    <3> QED BY <2>3, <3>1
  <2> QED BY <2>1, <2>2, <2>3
<1>9. /\ po \in Seq([to : Hosts, at : Nat]) /\ (\A h \in Hosts : arr[h] \in Seq(1 .. Len(po)))
      /\ un \subseteq 1 .. Len(po)
      /\ \A m, n \in 1 .. Len(po) : m < n /\ Come(n, po, arr, un) => Come(m, po, arr, un)
  BY DEF MailKept
<1> QED BY <1>6, <1>7, <1>8, <1>9 DEF MailKept

(* A queue with one more event: where the others are.                      *)
Behind(p, k) == IF k < p THEN k ELSE k + 1
Shifted(q, p, x, r) ==
  /\ p \in 1 .. Len(r) /\ r[p] = x
  /\ \A k \in 1 .. Len(r) : k = p \/ \E j \in 1 .. Len(q) : Behind(p, j) = k
  /\ \A j \in 1 .. Len(q) : Behind(p, j) \in 1 .. Len(r) /\ Behind(p, j) # p /\ r[Behind(p, j)] = q[j]
  /\ \A i, j \in 1 .. Len(q) : Behind(p, i) < Behind(p, j) <=> i < j
  /\ \A j \in 1 .. Len(q) : Behind(p, j) < p <=> j < p
LEMMA PutInAt ==
  ASSUME NEW q, ByTick(q), NEW p, NEW x \in Event, NEW r, PutIn(q, p, x, r)
  PROVE  Shifted(q, p, x, r)
<1>1. Len(q) \in Nat
  BY QueueTypes
<1>2. /\ Len(r) = Len(q) + 1 /\ p \in 1 .. Len(q) + 1
      /\ \A k \in 1 .. Len(r) : r[k] = IF k < p THEN q[k] ELSE IF k = p THEN x ELSE q[k - 1]
  BY DEF PutIn
<1>3. p \in 1 .. Len(r) /\ r[p] = x
  BY <1>1, <1>2
<1>4. ASSUME NEW k \in 1 .. Len(r), k # p PROVE \E j \in 1 .. Len(q) : Behind(p, j) = k
  <2>1. CASE k < p
    <3>1. k \in 1 .. Len(q) /\ Behind(p, k) = k
      BY <1>1, <1>2, <2>1 DEF Behind
    <3> QED BY <3>1
  <2>2. CASE k > p
    <3>1. k - 1 \in 1 .. Len(q) /\ Behind(p, k - 1) = k
      BY <1>1, <1>2, <2>2 DEF Behind
    <3> QED BY <3>1
  <2> QED BY <1>1, <1>2, <1>4, <2>1, <2>2
<1>5. \A j \in 1 .. Len(q) : Behind(p, j) \in 1 .. Len(r) /\ Behind(p, j) # p /\ r[Behind(p, j)] = q[j]
  BY <1>1, <1>2 DEF Behind
<1>6. \A i, j \in 1 .. Len(q) : Behind(p, i) < Behind(p, j) <=> i < j
  BY <1>1, <1>2 DEF Behind
<1>7. \A j \in 1 .. Len(q) : Behind(p, j) < p <=> j < p
  BY <1>1, <1>2 DEF Behind
<1> QED BY <1>3, <1>4, <1>5, <1>6, <1>7 DEF Shifted

(* A timer event, behind the first event.                                  *)
LEMMA MailTimerAdded ==
  ASSUME NEW q, ByTick(q), NEW e, NEW po, NEW arr, NEW un, MailKept(q, e, po, arr, un),
         NEW p, NEW x \in Event, NEW r, PutIn(q, p, x, r), x.kind = "timer", Len(q) = 0 \/ p > 1
  PROVE  MailKept(r, e, po, arr, un)
<1>1. Len(q) \in Nat
  BY QueueTypes
<1> DEFINE at(k) == Behind(p, k)
<1>2. /\ p \in 1 .. Len(r) /\ r[p] = x
      /\ \A k \in 1 .. Len(r) : k = p \/ \E j \in 1 .. Len(q) : at(j) = k
      /\ \A j \in 1 .. Len(q) : at(j) \in 1 .. Len(r) /\ at(j) # p /\ r[at(j)] = q[j]
      /\ \A i, j \in 1 .. Len(q) : at(i) < at(j) <=> i < j
  BY PutInAt DEF Shifted
<1>3. Len(q) # 0 => 1 \in 1 .. Len(q) /\ at(1) = 1
  BY <1>1, <1>2 DEF Behind
<1> HIDE DEF at
<1>4. x.kind # "data"
  OBVIOUS
<1>5. ASSUME NEW k \in 1 .. Len(r), r[k].kind = "data"
      PROVE  \E j \in 1 .. Len(q) : at(j) = k /\ q[j].kind = "data" /\ r[k] = q[j]
  <2>1. k # p
    BY <1>2, <1>4, <1>5
  <2>2. PICK j \in 1 .. Len(q) : at(j) = k
    BY <1>2, <2>1
  <2> QED BY <1>2, <1>5, <2>2
<1>6. ASSUME NEW k \in 1 .. Len(r), r[k].kind = "data"
      PROVE  r[k].of \in 1 .. Len(po) /\ r[k].tick = po[r[k].of].at + 1 /\ r[k].tick <= r[1].tick + 1
  <2>1. PICK j \in 1 .. Len(q) : at(j) = k /\ q[j].kind = "data" /\ r[k] = q[j]
    BY <1>5, <1>6
  <2>2. r[1] = q[1]
    BY <1>1, <1>2, <1>3
  <2> QED BY <2>1, <2>2 DEF MailKept
<1>7. ASSUME NEW j \in 1 .. Len(r), NEW k \in 1 .. Len(r), j < k, r[j].kind = "data", r[k].kind = "data"
      PROVE  r[j].of < r[k].of
  <2>1. PICK m \in 1 .. Len(q) : at(m) = j /\ q[m].kind = "data" /\ r[j] = q[m]
    BY <1>5, <1>7
  <2>2. PICK n \in 1 .. Len(q) : at(n) = k /\ q[n].kind = "data" /\ r[k] = q[n]
    BY <1>5, <1>7
  <2>3. m < n
    BY <1>2, <1>7, <2>1, <2>2
  <2> QED BY <2>1, <2>2, <2>3 DEF MailKept
<1>8. ASSUME NEW n \in 1 .. Len(po)
      PROVE  ~Come(n, po, arr, un) <=>
               \E k \in 1 .. Len(r) : r[k].kind = "data" /\ r[k].of = n /\ r[k].id # e.id
  <2>1. ~Come(n, po, arr, un) <=> \E k \in 1 .. Len(q) : q[k].kind = "data" /\ q[k].of = n /\ q[k].id # e.id
    BY DEF MailKept
  <2>2. ASSUME NEW k \in 1 .. Len(q), q[k].kind = "data", q[k].of = n, q[k].id # e.id
        PROVE  \E j \in 1 .. Len(r) : r[j].kind = "data" /\ r[j].of = n /\ r[j].id # e.id
    <3>1. at(k) \in 1 .. Len(r) /\ r[at(k)] = q[k]
      BY <1>2
    <3> QED BY <2>2, <3>1
  <2>3. ASSUME NEW j \in 1 .. Len(r), r[j].kind = "data", r[j].of = n, r[j].id # e.id
        PROVE  \E k \in 1 .. Len(q) : q[k].kind = "data" /\ q[k].of = n /\ q[k].id # e.id
    <3>1. PICK k \in 1 .. Len(q) : at(k) = j /\ q[k].kind = "data" /\ r[j] = q[k]
      BY <1>5, <2>3
    <3> QED BY <2>3, <3>1
  <2> QED BY <2>1, <2>2, <2>3
<1>9. /\ po \in Seq([to : Hosts, at : Nat]) /\ (\A h \in Hosts : arr[h] \in Seq(1 .. Len(po)))
      /\ un \subseteq 1 .. Len(po)
      /\ \A m, n \in 1 .. Len(po) : m < n /\ Come(n, po, arr, un) => Come(m, po, arr, un)
  BY DEF MailKept
<1> QED BY <1>6, <1>7, <1>8, <1>9 DEF MailKept

(* A datagram, a tick after the first event: behind all those before it.   *)
LEMMA MailPosted ==
  ASSUME NEW q, ByTick(q), NEW e, NEW po, NEW arr, NEW un, MailKept(q, e, po, arr, un),
         NEW p, NEW x \in Event, NEW r, PutIn(q, p, x, r), x.kind = "data", x.id # e.id,
         x.of = Len(po) + 1, x.tick = (IF Len(q) = 0 THEN 0 ELSE q[1].tick) + 1,
         \A k \in 1 .. Len(q) : k < p <=> q[k].tick <= x.tick,
         NEW m \in [to : Hosts, at : Nat], x.tick = m.at + 1
  PROVE  MailKept(r, e, Append(po, m), arr, un)
<1>1. Len(q) \in Nat /\ \A k \in 1 .. Len(q) : q[k].tick \in Nat
  BY QueueTypes
<1> DEFINE at(k) == Behind(p, k)
           pm == Append(po, m)
<1>2. /\ p \in 1 .. Len(r) /\ r[p] = x
      /\ \A k \in 1 .. Len(r) : k = p \/ \E j \in 1 .. Len(q) : at(j) = k
      /\ \A j \in 1 .. Len(q) : at(j) \in 1 .. Len(r) /\ at(j) # p /\ r[at(j)] = q[j]
      /\ \A i, j \in 1 .. Len(q) : at(i) < at(j) <=> i < j
      /\ \A j \in 1 .. Len(q) : at(j) < p <=> j < p
  BY PutInAt DEF Shifted
<1>3. Len(q) # 0 => 1 \in 1 .. Len(q) /\ p > 1 /\ at(1) = 1
  BY <1>1, <1>2 DEF Behind
<1> HIDE DEF at
<1>4. po \in Seq([to : Hosts, at : Nat]) /\ Len(po) \in Nat
  BY DEF MailKept
<1>5. /\ pm \in Seq([to : Hosts, at : Nat]) /\ Len(pm) = Len(po) + 1 /\ pm[Len(po) + 1] = m
      /\ \A n \in 1 .. Len(po) : pm[n] = po[n]
  BY <1>4
<1> HIDE DEF pm
<1>6. ASSUME NEW k \in 1 .. Len(r), r[k].kind = "data", k # p
      PROVE  \E j \in 1 .. Len(q) : at(j) = k /\ q[j].kind = "data" /\ r[k] = q[j]
  <2>1. PICK j \in 1 .. Len(q) : at(j) = k
    BY <1>2, <1>6
  <2> QED BY <1>2, <1>6, <2>1
<1>7. \A j \in 1 .. Len(q) : q[j].kind = "data" =>
        q[j].of \in 1 .. Len(po) /\ q[j].tick = po[q[j].of].at + 1 /\ q[j].tick <= q[1].tick + 1
  BY DEF MailKept
<1>8. \A j \in 1 .. Len(q) : q[j].kind = "data" => at(j) < p
  <2> TAKE j \in 1 .. Len(q)
  <2> HAVE q[j].kind = "data"
  <2>1. q[j].tick <= x.tick
    BY <1>1, <1>7
  <2> QED BY <1>1, <1>2, <2>1
<1>9. ASSUME NEW k \in 1 .. Len(r), r[k].kind = "data"
      PROVE  r[k].of \in 1 .. Len(pm) /\ r[k].tick = pm[r[k].of].at + 1 /\ r[k].tick <= r[1].tick + 1
  <2>1. CASE k = p
    <3>1. r[k] = x /\ x.of \in 1 .. Len(pm) /\ x.tick = pm[x.of].at + 1
      BY <1>2, <1>4, <1>5, <2>1
    <3>2. CASE Len(q) = 0
      <4>1. p = 1
        BY <1>1, <1>2, <3>2 DEF PutIn
      <4> QED BY <1>2, <2>1, <3>1, <4>1 DEF Event
    <3>3. CASE Len(q) # 0
      <4>1. r[1] = q[1] /\ x.tick = q[1].tick + 1 /\ x.tick \in Nat
        BY <1>1, <1>2, <1>3, <3>3 DEF Event
      <4> QED BY <3>1, <4>1
    <3> QED BY <3>2, <3>3
  <2>2. CASE k # p
    <3>1. PICK j \in 1 .. Len(q) : at(j) = k /\ q[j].kind = "data" /\ r[k] = q[j]
      BY <1>6, <1>9, <2>2
    <3>2. r[1] = q[1]
      BY <1>1, <1>2, <1>3
    <3>3. r[k].of \in 1 .. Len(po) /\ r[k].tick = po[r[k].of].at + 1 /\ r[k].tick <= q[1].tick + 1
      BY <1>7, <3>1
    <3> QED BY <1>4, <1>5, <3>2, <3>3, SMTT(30)
  <2> QED BY <2>1, <2>2
<1>10. ASSUME NEW j \in 1 .. Len(r), NEW k \in 1 .. Len(r), j < k, r[j].kind = "data", r[k].kind = "data"
       PROVE  r[j].of < r[k].of
  <2>1. j # p
    <3> SUFFICES ASSUME j = p PROVE FALSE
      OBVIOUS
    <3>1. PICK i \in 1 .. Len(q) : at(i) = k /\ q[i].kind = "data"
      BY <1>6, <1>10
    <3>2. k < p
      BY <1>8, <3>1
    <3> QED BY <1>10, <3>2
  <2>2. PICK i \in 1 .. Len(q) : at(i) = j /\ q[i].kind = "data" /\ r[j] = q[i]
    BY <1>6, <1>10, <2>1
  <2>3. CASE k = p
    BY <1>2, <1>4, <1>7, <2>2, <2>3
  <2>4. CASE k # p
    <3>1. PICK n \in 1 .. Len(q) : at(n) = k /\ q[n].kind = "data" /\ r[k] = q[n]
      BY <1>6, <1>10, <2>4
    <3>2. i < n
      BY <1>2, <1>10, <2>2, <3>1
    <3> QED BY <2>2, <3>1, <3>2 DEF MailKept
  <2> QED BY <2>3, <2>4
<1>11. (\A h \in Hosts : arr[h] \in Seq(1 .. Len(po))) /\ un \subseteq 1 .. Len(po)
  BY DEF MailKept
<1>12. (\A h \in Hosts : arr[h] \in Seq(1 .. Len(pm))) /\ un \subseteq 1 .. Len(pm)
  <2> DEFINE A == 1 .. Len(po)
             B == 1 .. Len(pm)
  <2>1. A \subseteq B
    BY <1>4, <1>5
  <2>2. (\A h \in Hosts : arr[h] \in Seq(A)) /\ un \subseteq A
    BY <1>11
  <2> HIDE DEF A, B
  <2>3. \A s \in Seq(A) : s \in Seq(B)
    BY <2>1
  <2>4. (\A h \in Hosts : arr[h] \in Seq(B)) /\ un \subseteq B
    BY <2>1, <2>2, <2>3
  <2> QED BY <2>4 DEF B
<1>13. \A n \in 1 .. Len(po) : Come(n, pm, arr, un) <=> Come(n, po, arr, un)
  BY <1>5 DEF Come
<1>14. ~Come(Len(po) + 1, pm, arr, un)
  <2>1. pm[Len(po) + 1].to \in Hosts
    BY <1>5
  <2>2. \A h \in Hosts : Len(po) + 1 \notin Range(arr[h])
    <3> SUFFICES ASSUME NEW h \in Hosts, Len(po) + 1 \in Range(arr[h]) PROVE FALSE
      OBVIOUS
    <3>1. arr[h] \in Seq(1 .. Len(po))
      BY <1>11
    <3>2. \A i \in DOMAIN arr[h] : arr[h][i] \in 1 .. Len(po)
      BY <3>1
    <3> QED BY <1>4, <3>2 DEF Range
  <2>3. Len(po) + 1 \notin un
    BY <1>4, <1>11
  <2> QED BY <2>1, <2>2, <2>3 DEF Come
<1>15. ASSUME NEW n \in 1 .. Len(pm)
       PROVE  ~Come(n, pm, arr, un) <=>
                \E k \in 1 .. Len(r) : r[k].kind = "data" /\ r[k].of = n /\ r[k].id # e.id
  <2>1. CASE n = Len(po) + 1
    BY <1>2, <1>14, <2>1
  <2>2. CASE n # Len(po) + 1
    <3>1. n \in 1 .. Len(po)
      BY <1>4, <1>5, <2>2
    <3>2. ~Come(n, pm, arr, un) <=> \E k \in 1 .. Len(q) : q[k].kind = "data" /\ q[k].of = n /\ q[k].id # e.id
      BY <1>13, <3>1 DEF MailKept
    <3>3. ASSUME NEW k \in 1 .. Len(q), q[k].kind = "data", q[k].of = n, q[k].id # e.id
          PROVE  \E j \in 1 .. Len(r) : r[j].kind = "data" /\ r[j].of = n /\ r[j].id # e.id
      <4>1. at(k) \in 1 .. Len(r) /\ r[at(k)] = q[k]
        BY <1>2
      <4> QED BY <3>3, <4>1
    <3>4. ASSUME NEW j \in 1 .. Len(r), r[j].kind = "data", r[j].of = n, r[j].id # e.id
          PROVE  \E k \in 1 .. Len(q) : q[k].kind = "data" /\ q[k].of = n /\ q[k].id # e.id
      <4>1. j # p
        BY <1>2, <2>2, <3>4
      <4>2. PICK k \in 1 .. Len(q) : at(k) = j /\ q[k].kind = "data" /\ r[j] = q[k]
        BY <1>6, <3>4, <4>1
      <4> QED BY <3>4, <4>2
    <3> QED BY <3>2, <3>3, <3>4
  <2> QED BY <2>1, <2>2
<1>16. ASSUME NEW i \in 1 .. Len(pm), NEW n \in 1 .. Len(pm), i < n, Come(n, pm, arr, un)
       PROVE  Come(i, pm, arr, un)
  <2>1. n # Len(po) + 1
    BY <1>14, <1>16
  <2>2. n \in 1 .. Len(po)
    BY <1>4, <1>5, <2>1
  <2>3. i \in 1 .. Len(po)
    BY <1>4, <1>16, <2>2
  <2> QED BY <1>13, <1>16, <2>2, <2>3 DEF MailKept
<1>17. MailKept(r, e, pm, arr, un)
  BY <1>5, <1>9, <1>10, <1>12, <1>15, <1>16 DEF MailKept
<1> QED BY <1>17 DEF pm

-----------------------------------------------------------------------------
(* Every action keeps it                                                   *)

LEMMA FirstTick ==
  ASSUME NEW q, ByTick(q)
  PROVE  current_tick(q) \in Nat /\ current_tick(q) = (IF Len(q) = 0 THEN 0 ELSE q[1].tick)
  BY QueueTypes DEF current_tick

LEMMA InvariantTypes ==
  ASSUME SimulationInvariant
  PROVE  /\ ByTick(queue) /\ Len(queue) \in Nat /\ id_seq \in Nat \ {0}
         /\ \A k \in 1 .. Len(queue) : queue[k].id \in Nat \ {0} /\ queue[k].id < id_seq
         /\ running.id \in Nat /\ running.id < id_seq
         /\ \A j, k \in 1 .. Len(queue) : queue[j].id = queue[k].id => j = k
<1>1. ByTick(queue) /\ id_seq \in Nat \ {0} /\ \A k \in 1 .. Len(queue) : queue[k].id < id_seq
  BY DEF SimulationInvariant, Numbered
<1>2. Len(queue) \in Nat /\ \A k \in 1 .. Len(queue) : queue[k].id \in Nat \ {0}
  BY <1>1, QueueTypes
<1>3. running.id \in Nat /\ running.id < id_seq
  <2>1. CASE running = NoEvent
    BY <1>1, <2>1 DEF NoEvent
  <2>2. CASE running # NoEvent
    <3>1. 1 \in 1 .. Len(queue) /\ running = queue[1]
      BY <1>2, <2>2 DEF SimulationInvariant, RunsFirst
    <3> QED BY <1>1, <1>2, <3>1
  <2> QED BY <2>1, <2>2
<1> QED BY <1>1, <1>2, <1>3 DEF ByTick, Distinct

(* A timer that has an event has it in the queue, and it is not running.   *)
LEMMA StoppedQueue ==
  ASSUME SimulationInvariant, NEW t \in Timers
  PROVE  /\ Dropped(queue, running, sim_timer[t].next_event, Stopped(t))
         /\ Numbered(Stopped(t), id_seq) /\ RunsFirst(Stopped(t), running)
         /\ MailKept(Stopped(t), running, posted, arrived, unheard)
<1>1. CASE sim_timer[t].next_event = 0
  <2>1. Stopped(t) = queue
    BY <1>1 DEF Stopped
  <2> QED BY <1>1, <2>1 DEF Dropped, SimulationInvariant
<1>2. CASE sim_timer[t].next_event # 0
  <2>1. asked[t] # Never
    BY <1>2 DEF SimulationInvariant, TimersKept
  <2>2. PICK p \in 1 .. Len(queue) : /\ queue[p].kind = "timer"
                                     /\ queue[p].id = sim_timer[t].next_event /\ queue[p].id # running.id
    BY <2>1 DEF SimulationInvariant, TimersKept
  <2>3. Stopped(t) = remove_event(queue, queue[p].id)
    BY <1>2, <2>2 DEF Stopped
  <2> DEFINE r == Stopped(t)
  <2>4. Without(queue, p, r) /\ ByTick(queue)
    BY <2>3, InvariantTypes, RemovedOne
  <2> HIDE DEF r
  <2>5. Numbered(r, id_seq)
    BY <2>4, NumberedWithout DEF SimulationInvariant
  <2>6. RunsFirst(r, running)
    BY <2>2, <2>4, RunsFirstWithout DEF SimulationInvariant
  <2>7. MailKept(queue, running, posted, arrived, unheard)
    BY DEF SimulationInvariant
  <2>8. MailKept(r, running, posted, arrived, unheard)
    BY <2>2, <2>4, <2>7, MailWithout
  <2> QED BY <2>2, <2>4, <2>5, <2>6, <2>8 DEF r, Dropped
<1> QED BY <1>1, <1>2

LEMMA StopKeeps ==
  ASSUME SimulationInvariant, NEW t \in Timers, timer_stop(t)
  PROVE  SimulationInvariant'
<1>1. /\ queue' = Stopped(t) /\ sim_timer' = [sim_timer EXCEPT ![t] = [next_event |-> 0, repeat |-> 0]]
      /\ asked' = [asked EXCEPT ![t] = Never]
      /\ UNCHANGED <<running, id_seq, clock, posted, arrived, unheard>>
  BY DEF timer_stop, simNet, simMail
<1>2. sim_timer \in [Timers -> [next_event : Nat, repeat : Nat]] /\ asked \in [Timers -> Nat \cup {Never}]
  BY DEF SimulationInvariant
<1>3. sim_timer' \in [Timers -> [next_event : Nat, repeat : Nat]] /\ asked' \in [Timers -> Nat \cup {Never}]
  BY <1>1, <1>2
<1>4. SameBut(t, sim_timer, asked, sim_timer', asked') /\ sim_timer'[t].next_event = 0 /\ asked'[t] = Never
  BY <1>1, <1>2 DEF SameBut
<1>5. Dropped(queue, running, sim_timer[t].next_event, queue') /\ Numbered(queue', id_seq) /\ RunsFirst(queue', running)
      /\ MailKept(queue', running, posted, arrived, unheard)
  BY <1>1, StoppedQueue
<1>6. ByTick(queue) /\ TimersKept(queue, running, sim_timer, asked)
  BY DEF SimulationInvariant, Numbered
<1>7. TimersKept(queue', running, sim_timer', asked')
  BY <1>4, <1>5, <1>6, TimersStopped
<1> QED BY <1>1, <1>3, <1>5, <1>7 DEF SimulationInvariant

(* A timer that is started has its event behind what is running.           *)
StartedIn(r) ==
  /\ Numbered(r, id_seq') /\ RunsFirst(r, running)
  /\ TimersKept(r, running, sim_timer', asked')
  /\ MailKept(r, running, posted, arrived, unheard)
LEMMA StartKeeps ==
  ASSUME SimulationInvariant, NEW t \in Timers, NEW n \in Nat, NEW m \in Nat, NEW done, Started(t, n, m, done)
  PROVE  /\ \E r : queue' = remove_event(r, done) /\ StartedIn(r)
         /\ sim_timer' \in [Timers -> [next_event : Nat, repeat : Nat]]
         /\ asked' \in [Timers -> Nat \cup {Never}]
<1> DEFINE rest == Stopped(t)
           x == [id |-> id_seq, tick |-> current_tick(rest) + n, kind |-> "timer", of |-> t, from |-> NoOne]
           r == add_event(rest, x)
           p == UpperBound(rest, x.tick)
<1>1. /\ id_seq' = id_seq + 1 /\ queue' = remove_event(r, done)
      /\ sim_timer' = [sim_timer EXCEPT ![t] = [next_event |-> id_seq, repeat |-> m]]
      /\ asked' = [asked EXCEPT ![t] = Time(rest) + n]
  BY DEF Started
<1>2. /\ Dropped(queue, running, sim_timer[t].next_event, rest) /\ Numbered(rest, id_seq) /\ RunsFirst(rest, running)
      /\ MailKept(rest, running, posted, arrived, unheard)
  BY StoppedQueue
<1> HIDE DEF rest
<1>3. ByTick(rest) /\ Len(rest) \in Nat /\ \A k \in 1 .. Len(rest) : rest[k].id < id_seq
  BY <1>2, QueueTypes DEF Numbered
<1>4. id_seq \in Nat \ {0} /\ running.id < id_seq /\ running.id \in Nat
  BY InvariantTypes
<1>5. current_tick(rest) \in Nat /\ current_tick(rest) = (IF Len(rest) = 0 THEN 0 ELSE rest[1].tick)
  BY <1>3, FirstTick
<1>6. Time(rest) = current_tick(rest)
  BY <1>2, <1>5 DEF Time, RunsFirst, SimulationInvariant
<1>7. x \in Event /\ x.id = id_seq /\ x.tick = current_tick(rest) + n /\ x.kind = "timer" /\ x.of = t /\ x.tick \in Nat
  BY <1>4, <1>5 DEF Event
<1>8. sim_timer \in [Timers -> [next_event : Nat, repeat : Nat]] /\ asked \in [Timers -> Nat \cup {Never}]
  BY DEF SimulationInvariant
<1>9. sim_timer' \in [Timers -> [next_event : Nat, repeat : Nat]] /\ asked' \in [Timers -> Nat \cup {Never}]
  BY <1>1, <1>4, <1>5, <1>6, <1>8
<1>10. /\ SameBut(t, sim_timer, asked, sim_timer', asked')
       /\ sim_timer'[t].next_event = x.id /\ asked'[t] = x.tick
  BY <1>1, <1>6, <1>7, <1>8 DEF SameBut
<1> HIDE DEF x
<1>11. \A k \in 1 .. Len(rest) : rest[k].id # x.id
  <2>1. \A k \in 1 .. Len(rest) : rest[k].id \in Nat
    BY <1>3, QueueTypes
  <2> QED BY <1>3, <1>4, <1>7, <2>1
<1>12. PutIn(rest, p, x, r) /\ ByTick(r)
  BY <1>3, <1>7, <1>11, AddedBehind
<1>13. IsUpperBound(rest, x.tick, p)
  BY <1>3, <1>7, UpperBoundIs
<1> HIDE DEF p, r
<1>14. Len(rest) = 0 \/ p > 1
  <2> SUFFICES ASSUME Len(rest) # 0 PROVE p > 1
    OBVIOUS
  <2>1. 1 \in DOMAIN rest /\ rest[1].tick \in Nat
    BY <1>3, QueueTypes
  <2>2. rest[1].tick <= x.tick
    BY <1>5, <1>7, <2>1
  <2> QED BY <1>13, <2>1, <2>2 DEF IsUpperBound
<1>15. Numbered(r, id_seq')
  <2>1. \A k \in 1 .. Len(r) : r[k].id < id_seq + 1
    <3> TAKE k \in 1 .. Len(r)
    <3>1. \A j \in 1 .. Len(rest) : rest[j].id \in Nat
      BY <1>3, QueueTypes
    <3>2. Shifted(rest, p, x, r)
      BY <1>3, <1>7, <1>12, PutInAt
    <3>3. r[p] = x /\ (k = p \/ \E j \in 1 .. Len(rest) : r[k] = rest[j])
      BY <3>2 DEF Shifted
    <3> QED BY <1>3, <1>4, <1>7, <3>1, <3>2, <3>3
  <2> QED BY <1>1, <1>4, <1>12, <2>1 DEF Numbered
<1>16. RunsFirst(r, running)
  <2>1. CASE running # NoEvent
    <3>1. Len(rest) > 0 /\ running = rest[1] /\ p > 1
      BY <1>2, <1>14, <2>1 DEF RunsFirst
    <3>2. Len(r) > 0 /\ r[1] = rest[1]
      BY <1>3, <1>12, <3>1 DEF PutIn
    <3> QED BY <3>1, <3>2 DEF RunsFirst
  <2> QED BY <2>1 DEF RunsFirst
<1>17. MailKept(r, running, posted, arrived, unheard)
  BY <1>2, <1>3, <1>7, <1>12, <1>14, MailTimerAdded
<1>18. TimersKept(r, running, sim_timer', asked')
  <2> DEFINE tm == [u \in Timers |-> IF u = t THEN [next_event |-> 0, repeat |-> 0] ELSE sim_timer[u]]
             as == [u \in Timers |-> IF u = t THEN Never ELSE asked[u]]
  <2>1. SameBut(t, sim_timer, asked, tm, as) /\ tm[t].next_event = 0 /\ as[t] = Never
    BY DEF SameBut
  <2> HIDE DEF tm, as
  <2>2. ByTick(queue) /\ TimersKept(queue, running, sim_timer, asked)
    BY DEF SimulationInvariant, Numbered
  <2>3. TimersKept(rest, running, tm, as)
    BY <1>2, <2>1, <2>2, TimersStopped
  <2>4. SameBut(t, tm, as, sim_timer', asked')
    BY <1>10, <2>1 DEF SameBut
  <2>5. x.id # running.id
    BY <1>4, <1>7
  <2> QED BY <1>3, <1>7, <1>10, <1>12, <2>1, <2>3, <2>4, <2>5, TimersStarted
<1>19. StartedIn(r)
  BY <1>15, <1>16, <1>17, <1>18 DEF StartedIn
<1> QED BY <1>1, <1>9, <1>19

LEMMA TimerStartKeeps ==
  ASSUME SimulationInvariant, NEW t \in Timers, NEW n \in Nat, NEW m \in Nat, timer_start(t, n, m)
  PROVE  SimulationInvariant'
<1>1. Started(t, n, m, 0) /\ UNCHANGED <<running, clock, posted, arrived, unheard>>
  BY DEF timer_start, simNet, simMail
<1>2. PICK r : queue' = remove_event(r, 0) /\ StartedIn(r)
  BY <1>1, StartKeeps
<1>3. queue' = r
  <2>1. ByTick(r)
    BY <1>2 DEF StartedIn, Numbered
  <2>2. \A k \in 1 .. Len(r) : r[k].id # 0
    BY <2>1, QueueTypes
  <2> QED BY <1>2, <2>1, <2>2, RemovedNone
<1>4. /\ sim_timer' \in [Timers -> [next_event : Nat, repeat : Nat]]
      /\ asked' \in [Timers -> Nat \cup {Never}]
  BY <1>1, StartKeeps
<1> QED BY <1>1, <1>2, <1>3, <1>4 DEF SimulationInvariant, StartedIn

(* The event that ran leaves the queue it is on top of.                    *)
LEMMA RanKeeps ==
  ASSUME NEW r, NEW n, Numbered(r, n), RunsFirst(r, running), running # NoEvent, NEW tm, NEW as,
         TimersKept(r, running, tm, as), MailKept(r, running, posted, arrived, unheard)
  PROVE  /\ Numbered(remove_event(r, running.id), n)
         /\ TimersKept(remove_event(r, running.id), NoEvent, tm, as)
         /\ MailKept(remove_event(r, running.id), NoEvent, posted, arrived, unheard)
<1>1. ByTick(r) /\ Len(r) > 0 /\ running = r[1]
  BY DEF Numbered, RunsFirst
<1>2. Len(r) \in Nat /\ 1 \in 1 .. Len(r) /\ \A k \in 1 .. Len(r) : r[k].id # 0
  BY <1>1, QueueTypes
<1>3. Without(r, 1, remove_event(r, running.id))
  BY <1>1, <1>2, RemovedOne
<1> DEFINE q == remove_event(r, running.id)
<1> HIDE DEF q
<1>4. Without(r, 1, q)
  BY <1>3 DEF q
<1>5. Numbered(q, n)
  BY <1>4, NumberedWithout
<1>6. TimersKept(q, NoEvent, tm, as)
  BY <1>1, <1>4, TimersRan
<1>7. \A k \in 1 .. Len(r) : k # 1 => (r[k].id = running.id <=> r[k].id = NoEvent.id)
  BY <1>1, <1>2 DEF ByTick, Distinct, NoEvent
<1>8. MailKept(q, NoEvent, posted, arrived, unheard)
  BY <1>1, <1>4, <1>7, MailWithout
<1> QED BY <1>5, <1>6, <1>8 DEF q

LEMMA EventDoneKeeps ==
  ASSUME SimulationInvariant, SimulationAssumption, event_done
  PROVE  SimulationInvariant'
<1>1. running # NoEvent /\ running' = NoEvent /\ UNCHANGED <<clock, posted, arrived, unheard>>
  BY DEF event_done, simNet, simMail
<1>2. RunsFirst(queue', running')
  BY <1>1 DEF RunsFirst
<1>3. CASE running.kind = "timer" /\ sim_timer[running.of].repeat > 0
  <2> DEFINE m == sim_timer[running.of].repeat
  <2>1. Len(queue) > 0 /\ running = queue[1] /\ Len(queue) \in Nat
    BY <1>1, InvariantTypes DEF SimulationInvariant, RunsFirst
  <2>2. running.of \in Timers
    BY <1>3, <2>1 DEF SimulationInvariant, TimersKept
  <2>3. m \in Nat
    BY <2>2 DEF SimulationInvariant
  <2>4. Started(running.of, m, m, running.id)
    BY <1>3 DEF event_done
  <2>5. /\ \E r : queue' = remove_event(r, running.id) /\ StartedIn(r)
        /\ sim_timer' \in [Timers -> [next_event : Nat, repeat : Nat]]
        /\ asked' \in [Timers -> Nat \cup {Never}]
    BY <2>2, <2>3, <2>4, StartKeeps
  <2>6. PICK r : queue' = remove_event(r, running.id) /\ StartedIn(r)
    BY <2>5
  <2>7. /\ Numbered(queue', id_seq') /\ TimersKept(queue', NoEvent, sim_timer', asked')
        /\ MailKept(queue', NoEvent, posted, arrived, unheard)
    BY <1>1, <2>6, RanKeeps DEF StartedIn
  <2> QED BY <1>1, <1>2, <2>5, <2>7 DEF SimulationInvariant
<1>4. CASE ~(running.kind = "timer" /\ sim_timer[running.of].repeat > 0)
  <2>1. queue' = remove_event(queue, running.id) /\ UNCHANGED <<id_seq, sim_timer, asked>>
    BY <1>4 DEF event_done, simTimers
  <2>2. /\ Numbered(queue', id_seq) /\ TimersKept(queue', NoEvent, sim_timer, asked)
        /\ MailKept(queue', NoEvent, posted, arrived, unheard)
    BY <1>1, <2>1, RanKeeps DEF SimulationInvariant
  <2> QED BY <1>1, <1>2, <2>1, <2>2 DEF SimulationInvariant
<1> QED BY <1>3, <1>4

LEMMA SendKeeps ==
  ASSUME SimulationInvariant, SimulationAssumption, NEW e \in Endpoints, NEW h \in Peers(e), sim_send(e, h)
  PROVE  SimulationInvariant'
<1>1. UNCHANGED <<running, clock, arrived, unheard, sim_timer, asked>>
  BY DEF sim_send, simTimers, simNet
<1>2. CASE h \notin Network
  BY <1>1, <1>2 DEF sim_send, SimulationInvariant
<1>3. CASE h \in Network
  <2> DEFINE x == [id |-> id_seq, tick |-> current_tick(queue) + 1, kind |-> "data",
                   of |-> Len(posted) + 1, from |-> Home[e]]
             m == [to |-> h, at |-> Time(queue)]
             p == UpperBound(queue, x.tick)
             r == add_event(queue, x)
  <2>1. id_seq' = id_seq + 1 /\ queue' = r /\ posted' = Append(posted, m)
    BY <1>3 DEF sim_send
  <2>2. /\ ByTick(queue) /\ Len(queue) \in Nat /\ id_seq \in Nat \ {0}
        /\ \A k \in 1 .. Len(queue) : queue[k].id \in Nat \ {0} /\ queue[k].id < id_seq
        /\ running.id \in Nat /\ running.id < id_seq
    BY InvariantTypes
  <2>3. current_tick(queue) \in Nat /\ current_tick(queue) = (IF Len(queue) = 0 THEN 0 ELSE queue[1].tick)
    BY <2>2, FirstTick
  <2>4. Time(queue) = current_tick(queue)
    BY <2>2, <2>3 DEF Time, RunsFirst, SimulationInvariant
  <2>5. posted \in Seq([to : Hosts, at : Nat]) /\ Len(posted) \in Nat
    BY DEF SimulationInvariant, MailKept
  <2>6. h \in Hosts /\ Home[e] \in Hosts
    BY DEF SimulationAssumption, Peers
  <2>7. /\ x \in Event /\ x.id = id_seq /\ x.tick = current_tick(queue) + 1 /\ x.kind = "data"
        /\ x.of = Len(posted) + 1 /\ x.tick \in Nat
    BY <2>2, <2>3, <2>5, <2>6 DEF Event
  <2>8. m \in [to : Hosts, at : Nat] /\ x.tick = m.at + 1
    BY <2>3, <2>4, <2>6, <2>7
  <2> HIDE DEF x, m
  <2>9. \A k \in 1 .. Len(queue) : queue[k].id # x.id
    BY <2>2, <2>7
  <2>10. PutIn(queue, p, x, r) /\ ByTick(r)
    BY <2>2, <2>7, <2>9, AddedBehind
  <2>11. IsUpperBound(queue, x.tick, p)
    BY <2>2, <2>7, UpperBoundIs
  <2> HIDE DEF p, r
  <2>12. \A k \in 1 .. Len(queue) : k < p <=> queue[k].tick <= x.tick
    BY <2>2, <2>11, QueueTypes DEF IsUpperBound
  <2>13. Shifted(queue, p, x, r)
    BY <2>2, <2>7, <2>10, PutInAt
  <2>14. Numbered(r, id_seq + 1)
    <3>1. ASSUME NEW k \in 1 .. Len(r) PROVE r[k].id < id_seq + 1
      <4>1. r[p] = x /\ (k = p \/ \E j \in 1 .. Len(queue) : r[k] = queue[j])
        BY <2>13 DEF Shifted
      <4> QED BY <2>2, <2>7, <4>1
    <3> QED BY <2>2, <2>10, <3>1 DEF Numbered
  <2>15. RunsFirst(r, running)
    <3>1. CASE running # NoEvent
      <4>1. 1 \in 1 .. Len(queue) /\ running = queue[1] /\ queue[1].tick \in Nat
        BY <2>2, <3>1, QueueTypes DEF SimulationInvariant, RunsFirst
      <4>2. p > 1
        BY <2>2, <2>3, <2>7, <2>12, <4>1
      <4>3. Len(r) > 0 /\ r[1] = queue[1]
        BY <2>2, <2>10, <4>1, <4>2 DEF PutIn
      <4> QED BY <4>1, <4>3 DEF RunsFirst
    <3> QED BY <3>1 DEF RunsFirst
  <2>16. x.id # running.id /\ x.tick = (IF Len(queue) = 0 THEN 0 ELSE queue[1].tick) + 1
    BY <2>2, <2>3, <2>7
  <2>17. MailKept(queue, running, posted, arrived, unheard) /\ TimersKept(queue, running, sim_timer, asked)
    BY DEF SimulationInvariant
  <2>18. MailKept(r, running, Append(posted, m), arrived, unheard)
    BY <2>2, <2>7, <2>8, <2>10, <2>12, <2>16, <2>17, MailPosted
  <2>19. TimersKept(r, running, sim_timer, asked)
    <3>1. \A k \in 1 .. Len(r) : r[k].kind = "timer" => \E j \in 1 .. Len(queue) : r[k] = queue[j]
      BY <2>7, <2>13 DEF Shifted
    <3>2. \A j \in 1 .. Len(queue) : \E k \in 1 .. Len(r) : r[k] = queue[j]
      BY <2>13 DEF Shifted
    <3>3. ASSUME NEW k \in 1 .. Len(r), r[k].kind = "timer"
          PROVE  /\ r[k].of \in Timers
                 /\ r[k].id # running.id =>
                      sim_timer[r[k].of].next_event = r[k].id /\ asked[r[k].of] = r[k].tick
      <4>1. PICK j \in 1 .. Len(queue) : r[k] = queue[j]
        BY <3>1, <3>3
      <4> QED BY <2>17, <3>3, <4>1 DEF TimersKept
    <3>4. ASSUME NEW t \in Timers, asked[t] # Never
          PROVE  \E k \in 1 .. Len(r) : /\ r[k].kind = "timer" /\ r[k].of = t
                                        /\ r[k].id = sim_timer[t].next_event /\ r[k].id # running.id
      <4>1. PICK j \in 1 .. Len(queue) : /\ queue[j].kind = "timer" /\ queue[j].of = t
                                         /\ queue[j].id = sim_timer[t].next_event /\ queue[j].id # running.id
        BY <2>17, <3>4 DEF TimersKept
      <4>2. PICK k \in 1 .. Len(r) : r[k] = queue[j]
        BY <3>2
      <4> QED BY <4>1, <4>2
    <3>5. \A t \in Timers : /\ sim_timer[t].next_event \in Nat /\ asked[t] \in Nat \cup {Never}
                            /\ asked[t] = Never <=> sim_timer[t].next_event = 0
      BY <2>17 DEF TimersKept
    <3> QED BY <3>3, <3>4, <3>5 DEF TimersKept
  <2> QED BY <1>1, <2>1, <2>14, <2>15, <2>18, <2>19 DEF SimulationInvariant
<1> QED BY <1>2, <1>3

(* The first event runs: a timer has none any more, a datagram has come.   *)
LEMMA NextEventKeeps ==
  ASSUME SimulationInvariant, next_event
  PROVE  SimulationInvariant'
<1> DEFINE x == queue[1]
<1>1. /\ ByTick(queue) /\ Len(queue) \in Nat
      /\ \A k \in 1 .. Len(queue) : queue[k].id \in Nat \ {0} /\ queue[k].id < id_seq
      /\ \A j, k \in 1 .. Len(queue) : queue[j].id = queue[k].id => j = k
  BY InvariantTypes
<1>2. /\ running = NoEvent /\ running' = Head(queue) /\ queue # <<>> /\ clock' = Head(queue).tick
      /\ UNCHANGED <<queue, id_seq, posted>>
  BY DEF next_event
<1>3. Len(queue) > 0 /\ Head(queue) = x /\ 1 \in 1 .. Len(queue)
  BY <1>1, <1>2, QueueTypes
<1>4. x.kind \in {"timer", "data"}
  BY <1>1, <1>3, QueueTypes
<1>5. RunsFirst(queue, x) /\ x # NoEvent /\ x.id # 0
  BY <1>1, <1>3 DEF RunsFirst, NoEvent
<1>6. /\ TimersKept(queue, running, sim_timer, asked) /\ MailKept(queue, running, posted, arrived, unheard)
      /\ Numbered(queue, id_seq) /\ sim_timer \in [Timers -> [next_event : Nat, repeat : Nat]]
      /\ asked \in [Timers -> Nat \cup {Never}] /\ arrived \in [Hosts -> Seq(Nat)]
  BY DEF SimulationInvariant
<1>7. running.id = 0
  BY <1>2 DEF NoEvent
<1>8. \A k \in 1 .. Len(queue) : queue[k].id # running.id /\ (queue[k].id = x.id <=> k = 1)
  BY <1>1, <1>3, <1>7
<1> HIDE DEF x
<1>9. /\ TimersKept(queue, x, sim_timer', asked')
      /\ sim_timer' \in [Timers -> [next_event : Nat, repeat : Nat]]
      /\ asked' \in [Timers -> Nat \cup {Never}]
  <2>1. CASE x.kind = "timer"
    <3>1. /\ sim_timer' = [sim_timer EXCEPT ![x.of].next_event = 0]
          /\ asked' = [asked EXCEPT ![x.of] = Never]
      BY <1>3, <2>1 DEF next_event, TimerEvent
    <3>2. x.of \in Timers /\ sim_timer[x.of].next_event = x.id
      BY <1>3, <1>6, <1>8, <2>1 DEF TimersKept, x
    <3>3. /\ sim_timer' \in [Timers -> [next_event : Nat, repeat : Nat]]
          /\ asked' \in [Timers -> Nat \cup {Never}]
          /\ sim_timer'[x.of].next_event = 0 /\ asked'[x.of] = Never
          /\ \A t \in Timers \ {x.of} : sim_timer'[t] = sim_timer[t] /\ asked'[t] = asked[t]
      BY <1>6, <3>1, <3>2
    <3>4. ASSUME NEW k \in 1 .. Len(queue), queue[k].kind = "timer"
          PROVE  /\ queue[k].of \in Timers
                 /\ queue[k].id # x.id => /\ sim_timer'[queue[k].of].next_event = queue[k].id
                                          /\ asked'[queue[k].of] = queue[k].tick
      <4>1. /\ queue[k].of \in Timers
            /\ sim_timer[queue[k].of].next_event = queue[k].id /\ asked[queue[k].of] = queue[k].tick
        BY <1>6, <1>8, <3>4 DEF TimersKept
      <4> QED BY <3>2, <3>3, <4>1
    <3>5. ASSUME NEW t \in Timers, asked'[t] # Never
          PROVE  \E k \in 1 .. Len(queue) : /\ queue[k].kind = "timer" /\ queue[k].of = t
                                            /\ queue[k].id = sim_timer'[t].next_event /\ queue[k].id # x.id
      <4>1. t # x.of /\ sim_timer'[t] = sim_timer[t] /\ asked[t] # Never
        BY <3>3, <3>5
      <4>2. PICK k \in 1 .. Len(queue) : /\ queue[k].kind = "timer" /\ queue[k].of = t
                                         /\ queue[k].id = sim_timer[t].next_event
        BY <1>6, <4>1 DEF TimersKept
      <4>3. k # 1
        BY <4>1, <4>2 DEF x
      <4> QED BY <1>8, <4>1, <4>2, <4>3
    <3>6. \A t \in Timers : /\ sim_timer'[t].next_event \in Nat /\ asked'[t] \in Nat \cup {Never}
                            /\ asked'[t] = Never <=> sim_timer'[t].next_event = 0
      <4> TAKE t \in Timers
      <4>1. CASE t = x.of
        BY <3>3, <4>1
      <4>2. CASE t # x.of
        BY <1>6, <3>3, <4>2 DEF TimersKept
      <4> QED BY <4>1, <4>2
    <3> QED BY <3>3, <3>4, <3>5, <3>6 DEF TimersKept
  <2>2. CASE x.kind = "data"
    <3>1. sim_timer' = sim_timer /\ asked' = asked
      BY <1>3, <2>2 DEF next_event, DataOnInterfaceEvent, simTimers
    <3>2. \A k \in 1 .. Len(queue) : queue[k].kind = "timer" => queue[k].id # x.id
      BY <1>8, <2>2 DEF x
    <3>3. TimersKept(queue, x, sim_timer, asked)
      BY <1>6, <1>8, <3>2 DEF TimersKept
    <3> QED BY <1>6, <3>1, <3>3
  <2> QED BY <1>4, <2>1, <2>2
<1>10. MailKept(queue, x, posted, arrived', unheard') /\ arrived' \in [Hosts -> Seq(Nat)]
  <2>1. CASE x.kind = "timer"
    <3>1. arrived' = arrived /\ unheard' = unheard
      BY <1>3, <2>1 DEF next_event, TimerEvent
    <3>2. \A k \in 1 .. Len(queue) : queue[k].kind = "data" => queue[k].id # x.id
      BY <1>8, <2>1 DEF x
    <3>3. MailKept(queue, x, posted, arrived, unheard)
      BY <1>6, <1>8, <3>2 DEF MailKept
    <3> QED BY <1>6, <3>1, <3>3
  <2>2. CASE x.kind = "data"
    <3> DEFINE n == x.of
               h == posted[n].to
    <3>1. n \in 1 .. Len(posted) /\ Len(posted) \in Nat /\ posted \in Seq([to : Hosts, at : Nat])
      BY <1>3, <1>6, <2>2 DEF MailKept, x
    <3>11. \A m \in 1 .. Len(posted) : posted[m].to \in Hosts
      <4> DEFINE R == [to : Hosts, at : Nat]
      <4>1. posted \in Seq(R) /\ \A y \in R : y.to \in Hosts
        BY <3>1
      <4> HIDE DEF R
      <4>2. \A m \in 1 .. Len(posted) : posted[m] \in R
        BY <4>1
      <4> QED BY <4>1, <4>2
    <3>2. h \in Hosts
      BY <3>1, <3>11
    <3>3. \/ arrived' = [arrived EXCEPT ![h] = Append(@, n)] /\ unheard' = unheard
          \/ arrived' = arrived /\ unheard' = unheard \cup {n}
      BY <1>3, <2>2 DEF next_event, DataOnInterfaceEvent
    <3>4. \A g \in Hosts : arrived[g] \in Seq(1 .. Len(posted)) /\ arrived[g] \in Seq(Nat)
      BY <1>6 DEF MailKept
    <3> HIDE DEF n, h
    <3>5. /\ arrived' \in [Hosts -> Seq(Nat)] /\ \A g \in Hosts : arrived'[g] \in Seq(1 .. Len(posted))
          /\ unheard' \subseteq 1 .. Len(posted)
      <4>1. unheard \subseteq 1 .. Len(posted)
        BY <1>6 DEF MailKept
      <4>2. Append(arrived[h], n) \in Seq(1 .. Len(posted)) /\ Append(arrived[h], n) \in Seq(Nat)
        BY <3>1, <3>2, <3>4
      <4> QED BY <1>6, <3>1, <3>2, <3>3, <3>4, <4>1, <4>2
    <3>6. \A m \in 1 .. Len(posted) :
            Come(m, posted, arrived', unheard') <=> Come(m, posted, arrived, unheard) \/ m = n
      <4>1. Range(Append(arrived[h], n)) = Range(arrived[h]) \cup {n}
        <5>1. arrived[h] \in Seq(Nat) /\ Len(arrived[h]) \in Nat
          BY <3>2, <3>4
        <5>2. /\ DOMAIN Append(arrived[h], n) = 1 .. Len(arrived[h]) + 1 /\ DOMAIN arrived[h] = 1 .. Len(arrived[h])
              /\ \A k \in 1 .. Len(arrived[h]) : Append(arrived[h], n)[k] = arrived[h][k]
              /\ Append(arrived[h], n)[Len(arrived[h]) + 1] = n
          BY <5>1
        <5>3. Len(arrived[h]) + 1 \in 1 .. Len(arrived[h]) + 1
              /\ 1 .. Len(arrived[h]) + 1 = (1 .. Len(arrived[h])) \cup {Len(arrived[h]) + 1}
          BY <5>1
        <5> QED BY <5>2, <5>3 DEF Range
      <4> TAKE m \in 1 .. Len(posted)
      <4>2. posted[m].to \in Hosts
        BY <3>11
      <4>3. Come(n, posted, arrived', unheard')
        <5>1. CASE arrived' = [arrived EXCEPT ![h] = Append(@, n)]
          <6>1. arrived'[h] = Append(arrived[h], n)
            BY <1>6, <3>2, <5>1
          <6> QED BY <4>1, <6>1 DEF Come, h
        <5>2. CASE unheard' = unheard \cup {n}
          BY <5>2 DEF Come
        <5> QED BY <3>3, <5>1, <5>2
      <4>4. CASE m # n
        <5>1. CASE arrived' = [arrived EXCEPT ![h] = Append(@, n)] /\ unheard' = unheard
          <6>1. m \in Range(arrived'[posted[m].to]) <=> m \in Range(arrived[posted[m].to])
            BY <1>6, <3>2, <4>1, <4>2, <4>4, <5>1
          <6> QED BY <4>4, <5>1, <6>1 DEF Come
        <5>2. CASE arrived' = arrived /\ unheard' = unheard \cup {n}
          BY <4>4, <5>2 DEF Come
        <5> QED BY <3>3, <5>1, <5>2
      <4> QED BY <4>3, <4>4
    <3>7. \A k \in 1 .. Len(queue) : queue[k].kind = "data" /\ k # 1 => queue[k].of > n /\ queue[k].of # n
      <4> TAKE k \in 1 .. Len(queue)
      <4> HAVE queue[k].kind = "data" /\ k # 1
      <4>1. queue[1].of < queue[k].of
        BY <1>1, <1>3, <1>6, <2>2 DEF MailKept, x
      <4>2. queue[k].of \in Nat
        <5>1. queue[k].of \in 1 .. Len(posted)
          BY <1>6 DEF MailKept
        <5> QED BY <3>1, <5>1
      <4> QED BY <3>1, <4>1, <4>2 DEF n, x
    <3>8. ASSUME NEW m \in 1 .. Len(posted)
          PROVE  ~Come(m, posted, arrived', unheard') <=>
                   \E k \in 1 .. Len(queue) : queue[k].kind = "data" /\ queue[k].of = m /\ queue[k].id # x.id
      <4>1. ~Come(m, posted, arrived, unheard) <=>
              \E k \in 1 .. Len(queue) : queue[k].kind = "data" /\ queue[k].of = m
        BY <1>6, <1>8 DEF MailKept
      <4>2. CASE m = n
        BY <1>8, <3>6, <3>7, <4>2
      <4>3. CASE m # n
        <5>1. \A k \in 1 .. Len(queue) : queue[k].of = m => queue[k].id # x.id
          BY <1>8, <4>3 DEF n, x
        <5> QED BY <3>6, <4>1, <4>3, <5>1
      <4> QED BY <4>2, <4>3
    <3>9. ASSUME NEW i \in 1 .. Len(posted), NEW m \in 1 .. Len(posted), i < m, Come(m, posted, arrived', unheard')
          PROVE  Come(i, posted, arrived', unheard')
      <4>1. CASE m # n
        <5>1. Come(m, posted, arrived, unheard)
          BY <3>6, <3>9, <4>1
        <5> QED BY <1>6, <3>6, <3>9, <5>1 DEF MailKept
      <4>2. CASE m = n
        <5> SUFFICES ASSUME ~Come(i, posted, arrived', unheard') PROVE FALSE
          OBVIOUS
        <5>1. PICK k \in 1 .. Len(queue) : queue[k].kind = "data" /\ queue[k].of = i /\ queue[k].id # x.id
          BY <3>8
        <5>2. k # 1
          BY <1>8, <5>1
        <5>3. queue[k].of > n
          BY <3>7, <5>1, <5>2
        <5> QED BY <3>1, <3>9, <4>2, <5>1, <5>3
      <4> QED BY <4>1, <4>2
    <3>10. /\ \A k \in 1 .. Len(queue) : queue[k].kind = "data" =>
                /\ queue[k].of \in 1 .. Len(posted) /\ queue[k].tick = posted[queue[k].of].at + 1
                /\ queue[k].tick <= queue[1].tick + 1
           /\ \A j, k \in 1 .. Len(queue) :
                j < k /\ queue[j].kind = "data" /\ queue[k].kind = "data" => queue[j].of < queue[k].of
      BY <1>6 DEF MailKept
    <3> QED BY <3>1, <3>5, <3>8, <3>9, <3>10 DEF MailKept
  <2> QED BY <1>4, <2>1, <2>2
<1> QED BY <1>2, <1>3, <1>5, <1>6, <1>9, <1>10 DEF SimulationInvariant

LEMMA SimulationInitially ==
  ASSUME SimulationAssumption, SimulationInit
  PROVE  SimulationInvariant
<1>1. Len(queue) = 0 /\ queue \in Seq(Event) /\ running = NoEvent /\ id_seq = 1
  BY DEF SimulationInit
<1>2. Numbered(queue, id_seq) /\ RunsFirst(queue, running)
  BY <1>1 DEF Numbered, RunsFirst, ByTick, Sorted, Distinct
<1>3. sim_timer \in [Timers -> [next_event : Nat, repeat : Nat]] /\ asked \in [Timers -> Nat \cup {Never}]
      /\ arrived \in [Hosts -> Seq(Nat)]
  BY DEF SimulationInit
<1>4. TimersKept(queue, running, sim_timer, asked)
  BY <1>1 DEF SimulationInit, TimersKept
<1>5. MailKept(queue, running, posted, arrived, unheard)
  <2>1. posted = <<>> /\ Len(posted) = 0 /\ posted \in Seq([to : Hosts, at : Nat]) /\ unheard = {}
    BY DEF SimulationInit
  <2>2. \A h \in Hosts : arrived[h] \in Seq(1 .. Len(posted))
    BY DEF SimulationInit
  <2> QED BY <1>1, <2>1, <2>2 DEF MailKept
<1> QED BY <1>1, <1>2, <1>3, <1>4, <1>5 DEF SimulationInvariant

LEMMA SimulationStep ==
  ASSUME SimulationAssumption, SimulationInvariant, [SimulationNext]_simVars
  PROVE  SimulationInvariant'
<1>1. ASSUME UNCHANGED <<queue, running, id_seq, clock, sim_timer, asked, posted, arrived, unheard>>
      PROVE  SimulationInvariant'
  BY <1>1 DEF SimulationInvariant
<1>2. ASSUME NEW t \in Timers, timer_stop(t) PROVE SimulationInvariant'
  BY <1>2, StopKeeps
<1>3. ASSUME NEW t \in Timers, NEW n \in Timeouts, NEW m \in Repeats, timer_start(t, n, m)
      PROVE  SimulationInvariant'
  BY <1>3, TimerStartKeeps DEF SimulationAssumption
<1>4. ASSUME NEW e \in Endpoints, sim_listen(e) PROVE SimulationInvariant'
  BY <1>1, <1>4 DEF sim_listen, simLoop, simTimers, simMail
<1>5. ASSUME NEW e \in Endpoints, NEW h \in Peers(e), sim_dial(e, h) PROVE SimulationInvariant'
  BY <1>1, <1>5 DEF sim_dial, simLoop, simTimers, simMail
<1>6. ASSUME NEW e \in Endpoints, NEW h \in Peers(e), sim_send(e, h) PROVE SimulationInvariant'
  BY <1>6, SendKeeps
<1>7. ASSUME NEW e \in Endpoints, NEW h \in Peers(e), sim_close(e, h) PROVE SimulationInvariant'
  BY <1>1, <1>7 DEF sim_close, simLoop, simTimers, simMail
<1>8. ASSUME NEW h \in Hosts, close_interface(h) PROVE SimulationInvariant'
  BY <1>1, <1>8 DEF close_interface, simLoop, simTimers, simMail
<1>9. CASE sim_run
  BY <1>1, <1>9 DEF sim_run, simTimers, simMail
<1>10. CASE next_event
  BY <1>10, NextEventKeeps
<1>11. CASE event_done
  BY <1>11, EventDoneKeeps
<1>12. CASE run_ends
  BY <1>1, <1>12 DEF run_ends, simTimers, simMail
<1>13. CASE UNCHANGED simVars
  BY <1>1, <1>13 DEF simVars, simLoop, simTimers, simMail
<1> QED BY <1>2, <1>3, <1>4, <1>5, <1>6, <1>7, <1>8, <1>9, <1>10, <1>11, <1>12, <1>13 DEF SimulationNext

(* The simulator runs what was asked of it, when it was asked, in order:   *)
(* whatever timers and datagrams of one tick do to each other.             *)
THEOREM AsScheduledAlways == SimulationSpec => []AsScheduled
<1>1. SimulationInit => SimulationInvariant
  BY SimulationAssumption, SimulationInitially
<1>2. SimulationInvariant /\ [SimulationNext]_simVars => SimulationInvariant'
  BY SimulationAssumption, SimulationStep
<1>3. SimulationInvariant => AsScheduled
  BY InvariantSchedules
<1> QED BY <1>1, <1>2, <1>3, PTL DEF SimulationSpec
=============================================================================
