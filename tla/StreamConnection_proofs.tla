----------------------- MODULE StreamConnection_proofs -----------------------
(***************************************************************************)
(* Proofs of the safety of StreamConnection, for every number of           *)
(* connection ids and losses, any roles of the peers and any timer         *)
(* settings.                                                               *)
(*                                                                         *)
(* The argument rests on the history of id pairs.  Ids are fresh, so what  *)
(* a peer pairs an id with is settled once; a message that confirms a      *)
(* connection was sent by a peer that held its ids; and a pair a peer held *)
(* before its present id is made of older ids only.                        *)
(***************************************************************************)
EXTENDS StreamConnection, TLAPS

(* The ids peer p holds and has held.                                      *)
IdInv(p) ==
  LET c == conn[p]
  IN /\ c.src_conn_id < nextId /\ c.dst_conn_id < nextId
     /\ c.dst_conn_id # 0 => <<c.src_conn_id, c.dst_conn_id>> \in paired[p]
     /\ \A i, j \in ConnId : <<i, j>> \in paired[p] =>
          /\ i # 0 /\ j # 0 /\ i < nextId /\ j < nextId
          /\ c.dst_conn_id = 0 => i # c.src_conn_id
          /\ c.src_conn_id # 0 => i <= c.src_conn_id
          /\ i < c.src_conn_id => j < c.src_conn_id
     /\ \A i, j, k \in ConnId :
          <<i, j>> \in paired[p] /\ <<i, k>> \in paired[p] => j = k

(* The state of peer p's transport.                                        *)
StateInv(p) ==
  LET c == conn[p]
  IN /\ c.state \in {"None", "Listen"} => c.src_conn_id = 0 /\ c.dst_conn_id = 0
     /\ c.state = "DialSent" => c.src_conn_id # 0 /\ c.dst_conn_id = 0
     /\ c.state \in {"DialRcvd", "Established"} => c.src_conn_id # 0 /\ c.dst_conn_id # 0
     /\ c.state = "Established" =>
          <<c.dst_conn_id, c.src_conn_id>> \in paired[Other(p)]
     /\ c.timer = "dial" <=> c.state = "DialSent"
     /\ c.timer = "close" <=> c.state = "Closing"

Confirming == {"DIALCONF", "CONF", "DATA", "ACK", "STREAM"}

(* What a message in flight tells its receiver.                            *)
MsgInv(m) ==
  LET q == Other(m.to)
  IN /\ m.src_conn_id < nextId /\ m.dst_conn_id < nextId
     /\ m.type \in {"DIAL", "RST"} => m.dst_conn_id # 0
     /\ m.type \in Confirming =>
          /\ m.src_conn_id # 0 /\ m.dst_conn_id # 0
          /\ <<m.dst_conn_id, m.src_conn_id>> \in paired[q]
     /\ m.type \in Confirming \ {"DIALCONF"} =>
          <<m.src_conn_id, m.dst_conn_id>> \in paired[m.to]
     /\ m.type = "RST" /\ conn[q].src_conn_id = m.dst_conn_id =>
          conn[q].dst_conn_id \notin {0, m.src_conn_id}

(* The inductive invariant.                                                *)
IInv ==
  /\ TypeOK
  /\ \A p \in Peers : IdInv(p)
  /\ \A p \in Peers : StateInv(p)
  /\ \A m \in net : MsgInv(m)

(* How a step changes the ids of a transport: not at all, it drops them,   *)
(* it takes a fresh one, or it learns the other side's.                    *)
IdChange(p, c) ==
  \/ /\ c.src_conn_id = conn[p].src_conn_id
     /\ c.dst_conn_id = conn[p].dst_conn_id
  \/ c.src_conn_id = 0 /\ c.dst_conn_id = 0
  \/ /\ c.src_conn_id = nextId /\ c.dst_conn_id < nextId
     /\ nextId' = nextId + 1
  \/ /\ c.src_conn_id = conn[p].src_conn_id /\ c.src_conn_id # 0
     /\ conn[p].dst_conn_id = 0
     /\ c.dst_conn_id # 0 /\ c.dst_conn_id < nextId

-----------------------------------------------------------------------------
(* There are two peers, each the other's other.                            *)
LEMMA OtherPeer ==
  ASSUME NEW p \in Peers
  PROVE  /\ Other(p) \in Peers /\ Other(p) # p /\ Other(Other(p)) = p
         /\ Peers = {p, Other(p)}
<1>1. PICK x, y \in Peers : x # y /\ Peers = {x, y}
  BY PeersAssumption
<1>2. \A z \in Peers : Other(z) \in Peers /\ Other(z) # z
  <2>1. SUFFICES ASSUME NEW z \in Peers
                 PROVE  Other(z) \in Peers /\ Other(z) # z
    OBVIOUS
  <2>2. \E w \in Peers : w # z
    BY <1>1
  <2>. QED BY <2>2 DEF Other
<1>. QED BY <1>1, <1>2

(* A transport that changes its ids in one of these ways keeps the id      *)
(* history of both peers, and what the messages in flight say stays true.  *)
LEMMA IdStep ==
  ASSUME IInv, NEW p \in Peers, NEW c \in Transports, Become(p, c),
         nextId' \in nextId .. MaxId + 1, IdChange(p, c)
  PROVE  /\ conn' \in [Peers -> Transports]
         /\ paired' \in [Peers -> SUBSET (ConnId \X ConnId)]
         /\ \A q \in Peers : paired[q] \subseteq paired'[q]
         /\ \A q \in Peers : IdInv(q)'
         /\ \A m \in net : MsgInv(m)'
<1>. DEFINE q == Other(p)
<1>0. q \in Peers /\ q # p /\ Other(q) = p /\ Peers = {p, q}
  BY OtherPeer
<1>. HIDE DEF q
<1>1. /\ conn \in [Peers -> Transports] /\ net \subseteq Message
      /\ nextId \in 1 .. MaxId + 1 /\ MaxId \in Nat
      /\ paired \in [Peers -> SUBSET (ConnId \X ConnId)]
  BY BoundsAssumption DEF IInv, TypeOK
<1>2. c.src_conn_id \in ConnId /\ c.dst_conn_id \in ConnId
  BY DEF Transports
<1>3. conn'[p] = c /\ conn'[q] = conn[q] /\ paired'[q] = paired[q]
  BY <1>0, <1>1 DEF Become
<1>4. /\ conn' \in [Peers -> Transports]
      /\ paired' \in [Peers -> SUBSET (ConnId \X ConnId)]
  BY <1>1, <1>2 DEF Become
<1>5. \A i, j \in ConnId : <<i, j>> \in paired'[p] <=>
        \/ <<i, j>> \in paired[p]
        \/ i = c.src_conn_id /\ j = c.dst_conn_id /\ j # 0
  BY <1>1, <1>2 DEF Become
<1>6. \A r \in Peers : paired[r] \subseteq paired'[r]
  BY <1>1 DEF Become
<1>7. IdInv(q)'
  <2>1. IdInv(q)
    BY <1>0 DEF IInv
  <2>2. conn[q].src_conn_id \in ConnId /\ conn[q].dst_conn_id \in ConnId
    BY <1>0, <1>1 DEF Transports
  <2>3. nextId <= nextId' /\ nextId' \in Nat
    BY <1>1
  <2>4. /\ conn[q].src_conn_id < nextId' /\ conn[q].dst_conn_id < nextId'
        /\ \A i, j \in ConnId : <<i, j>> \in paired[q] => i < nextId' /\ j < nextId'
    BY <1>1, <2>1, <2>2, <2>3 DEF IdInv, ConnId
  <2>. QED BY <1>3, <2>1, <2>4 DEF IdInv
<1>8. IdInv(p)'
  <2>1. IdInv(p)
    BY DEF IInv
  <2>2. conn[p].src_conn_id \in ConnId /\ conn[p].dst_conn_id \in ConnId
    BY <1>1 DEF Transports
  <2>3. /\ c.src_conn_id < nextId' /\ c.dst_conn_id < nextId'
        /\ c.dst_conn_id # 0 => c.src_conn_id # 0
    BY <1>1, <1>2, <2>1, <2>2 DEF IdInv, IdChange, ConnId
  <2>4. c.dst_conn_id # 0 => <<c.src_conn_id, c.dst_conn_id>> \in paired'[p]
    BY <1>2, <1>5
  <2>5. ASSUME NEW i \in ConnId, NEW j \in ConnId, <<i, j>> \in paired'[p]
        PROVE  /\ i # 0 /\ j # 0 /\ i < nextId' /\ j < nextId'
               /\ c.dst_conn_id = 0 => i # c.src_conn_id
               /\ c.src_conn_id # 0 => i <= c.src_conn_id
               /\ i < c.src_conn_id => j < c.src_conn_id
    BY <1>1, <1>2, <1>5, <2>1, <2>2, <2>3, <2>5 DEF IdInv, IdChange, ConnId
  <2>6. ASSUME NEW i \in ConnId, NEW j \in ConnId, NEW k \in ConnId,
               <<i, j>> \in paired'[p], <<i, k>> \in paired'[p]
        PROVE  j = k
    BY <1>1, <1>2, <1>5, <2>1, <2>2, <2>6 DEF IdInv, IdChange, ConnId
  <2>. QED BY <1>3, <2>3, <2>4, <2>5, <2>6 DEF IdInv
<1>9. ASSUME NEW m \in net
      PROVE  MsgInv(m)'
  <2>1. MsgInv(m) /\ m \in Message /\ m.to \in {p, q}
    BY <1>0, <1>1 DEF IInv, Message
  <2>2. IdInv(p)
    BY DEF IInv
  <2>3. /\ m.src_conn_id \in ConnId /\ m.dst_conn_id \in ConnId
        /\ conn[p].src_conn_id \in ConnId /\ conn[p].dst_conn_id \in ConnId
    BY <1>1, <2>1 DEF Message, Transports
  <2>4. CASE m.to = p
    <3>1. Other(m.to) = q
      BY <2>4 DEF q
    <3>. QED BY <1>0, <1>1, <1>3, <1>6, <2>1, <2>3, <2>4, <3>1 DEF MsgInv, ConnId
  <2>5. CASE m.to = q
    <3>1. Other(m.to) = p
      BY <1>0, <2>5
    <3>2. m.type = "RST" /\ c.src_conn_id = m.dst_conn_id =>
            c.dst_conn_id \notin {0, m.src_conn_id}
      BY <1>1, <1>2, <2>1, <2>2, <2>3, <3>1 DEF MsgInv, IdChange, ConnId
    <3>. QED BY <1>0, <1>1, <1>3, <1>6, <2>1, <2>3, <2>5, <3>1, <3>2 DEF MsgInv, ConnId
  <2>. QED BY <2>1, <2>4, <2>5
<1>. QED BY <1>0, <1>4, <1>6, <1>7, <1>8, <1>9

(* A step of one peer that leaves its own transport and the messages it    *)
(* sends in order preserves the invariant.                                 *)
LEMMA PeerStep ==
  ASSUME IInv, NEW p \in Peers, NEW c \in Transports, Become(p, c),
         nextId' \in nextId .. MaxId + 1, IdChange(p, c), lost' = lost,
         StateInv(p)',
         NEW out \in SUBSET Message, net' \subseteq net \cup out,
         \A m \in out : MsgInv(m)'
  PROVE  IInv'
<1>1. /\ conn' \in [Peers -> Transports]
      /\ paired' \in [Peers -> SUBSET (ConnId \X ConnId)]
      /\ \A q \in Peers : paired[q] \subseteq paired'[q]
      /\ \A q \in Peers : IdInv(q)'
      /\ \A m \in net : MsgInv(m)'
  BY IdStep
<1>2. TypeOK'
  BY <1>1, BoundsAssumption DEF IInv, TypeOK
<1>3. ASSUME NEW q \in Peers PROVE StateInv(q)'
  <2>1. CASE q = p
    BY <2>1
  <2>2. CASE q # p
    <3>1. conn'[q] = conn[q] /\ Other(q) \in Peers
      BY <2>2, OtherPeer DEF Become, IInv, TypeOK
    <3>2. StateInv(q)
      BY DEF IInv
    <3>. QED BY <1>1, <3>1, <3>2 DEF StateInv
  <2>. QED BY <2>1, <2>2
<1>. QED BY <1>1, <1>2, <1>3 DEF IInv

(* What a transport sends in the state that sends it is in order.          *)
LEMMA Sent ==
  ASSUME NEW p \in Peers, NEW c \in Transports, conn'[p] = c,
         IdInv(p)', StateInv(p)', NEW type,
         \/ type = "CLOSE"
         \/ type = "DIAL" /\ c.state = "DialSent"
         \/ type = "DIALCONF" /\ c.state \in {"DialRcvd", "Established"}
         \/ type \in {"CONF", "DATA", "ACK", "STREAM"} /\ c.state = "Established"
  PROVE  /\ Send(type, p, c) \in SUBSET Message
         /\ \A m \in Send(type, p, c) : MsgInv(m)'
<1>1. Other(p) \in Peers /\ Other(Other(p)) = p
  BY OtherPeer
<1>2. c.src_conn_id \in ConnId /\ c.dst_conn_id \in ConnId
  BY DEF Transports
<1>3. Send(type, p, c) \in SUBSET Message
  BY <1>1, <1>2 DEF Send, Dgram, Message, Types
<1>4. ASSUME NEW m \in Send(type, p, c) PROVE MsgInv(m)'
  <2>1. /\ m.type = type /\ m.to = Other(p)
        /\ m.src_conn_id = c.dst_conn_id /\ m.dst_conn_id = c.src_conn_id
    BY DEF Send, Dgram
  <2>. QED BY <1>1, <1>2, <2>1 DEF MsgInv, IdInv, StateInv, Confirming
<1>. QED BY <1>3, <1>4

(* The transport a message or a dial reaches is the one kept for the other *)
(* peer, or a fresh one.                                                   *)
LEMMA Reached ==
  ASSUME IInv, NEW p \in Peers
  PROVE  /\ Transport(p) \in Transports
         /\ Transport(p).state # "None"
         /\ Transport(p).src_conn_id = conn[p].src_conn_id
         /\ Transport(p).dst_conn_id = conn[p].dst_conn_id
         /\ Transport(p).state = "Listen" =>
              Transport(p).src_conn_id = 0 /\ Transport(p).dst_conn_id = 0
         /\ Transport(p).state # "Listen" => Transport(p) = conn[p]
         /\ Transport(p).timer = "dial" <=> Transport(p).state = "DialSent"
         /\ Transport(p).timer = "close" <=> Transport(p).state = "Closing"
<1>1. conn[p] \in Transports /\ StateInv(p)
  BY DEF IInv, TypeOK
<1>2. Fresh("Listen") \in Transports
  BY BoundsAssumption DEF Fresh, Transports, States, Timers, Intervals, ConnId
<1>. QED BY <1>1, <1>2 DEF Transport, Fresh, StateInv, Transports

(* A transport is refused an RST on the ids it holds itself.               *)
LEMMA Refused ==
  ASSUME IInv, NEW p \in Peers, NEW m \in net, m.to = p,
         Become(p, Transport(p)), nextId' = nextId,
         \/ m.type = "DIALCONF" /\ ~Answers(Transport(p), m)
              /\ Transport(p).state # "Closing"
         \/ m.type = "CONF" /\ Transport(p).state # "Closing"
              /\ ~(/\ Transport(p).state \in {"DialRcvd", "Established"}
                   /\ Matches(Transport(p), m))
         \/ m.type \in {"DATA", "ACK", "STREAM"} /\ ~Matches(Transport(p), m)
  PROVE  /\ SendRST(p, m) \in SUBSET Message
         /\ \A r \in SendRST(p, m) : MsgInv(r)'
<1>. DEFINE c == Transport(p)
<1>1. Other(p) \in Peers /\ Other(Other(p)) = p
  BY OtherPeer
<1>2. m \in Message /\ MsgInv(m) /\ IdInv(p) /\ StateInv(p)
  BY DEF IInv, TypeOK
<1>3. /\ c.src_conn_id = conn[p].src_conn_id /\ c.dst_conn_id = conn[p].dst_conn_id
      /\ c \in Transports
      /\ c.state # "Listen" => c = conn[p]
      /\ c.state = "Listen" => c.src_conn_id = 0
  BY Reached
<1>4. conn'[p] = c
  BY DEF Become, IInv, TypeOK
<1>5. m.src_conn_id # 0 /\ m.src_conn_id \in ConnId /\ m.dst_conn_id \in ConnId
  BY <1>2 DEF MsgInv, Confirming, Message
<1>6. c.src_conn_id = m.src_conn_id => c.dst_conn_id \notin {0, m.dst_conn_id}
  <2>1. SUFFICES ASSUME c.src_conn_id = m.src_conn_id
                 PROVE  c.dst_conn_id \notin {0, m.dst_conn_id}
    OBVIOUS
  <2>2. c.state # "Listen" /\ c = conn[p]
    BY <1>3, <1>5, <2>1
  <2>3. CASE m.type = "DIALCONF"
    BY <1>2, <1>3, <2>1, <2>2, <2>3, Reached
       DEF Answers, Matches, StateInv, Transports, States
  <2>4. CASE m.type \in Confirming \ {"DIALCONF"}
    <3>1. <<m.src_conn_id, m.dst_conn_id>> \in paired[p]
      BY <1>2, <2>4 DEF MsgInv
    <3>2. c.dst_conn_id # 0 /\ c.dst_conn_id = m.dst_conn_id
      BY <1>2, <1>3, <1>5, <2>1, <3>1 DEF IdInv, Transports
    <3>3. c.state \in {"DialRcvd", "Established", "Closing"}
      BY <1>2, <1>3, <2>2, <3>2, Reached DEF StateInv, Transports, States
    <3>. QED BY <2>1, <2>4, <3>2, <3>3 DEF Matches, Confirming
  <2>. QED BY <2>3, <2>4 DEF Confirming
<1>7. SendRST(p, m) \in SUBSET Message
  BY <1>1, <1>5 DEF SendRST, Dgram, Message, Types
<1>8. ASSUME NEW r \in SendRST(p, m) PROVE MsgInv(r)'
  <2>1. /\ r.type = "RST" /\ r.to = Other(p)
        /\ r.src_conn_id = m.dst_conn_id /\ r.dst_conn_id = m.src_conn_id
    BY DEF SendRST, Dgram
  <2>. QED BY <1>1, <1>2, <1>4, <1>5, <1>6, <2>1 DEF MsgInv, Confirming
<1>. QED BY <1>7, <1>8

-----------------------------------------------------------------------------
(* The actions, one by one.                                                *)

(* A step that keeps the transport, or creates it, and sends nothing.      *)
LEMMA Ignored ==
  ASSUME IInv, NEW p \in Peers, Become(p, Transport(p)), nextId' = nextId,
         lost' = lost, NEW out \in SUBSET Message, net' \subseteq net \cup out,
         IdInv(p)' /\ StateInv(p)' => \A m \in out : MsgInv(m)'
  PROVE  IInv'
<1>. DEFINE c == Transport(p)
<1>1. /\ c \in Transports /\ c.state # "None"
      /\ c.src_conn_id = conn[p].src_conn_id /\ c.dst_conn_id = conn[p].dst_conn_id
      /\ c.state = "Listen" => c.src_conn_id = 0 /\ c.dst_conn_id = 0
      /\ c.state # "Listen" => c = conn[p]
      /\ c.timer = "dial" <=> c.state = "DialSent"
      /\ c.timer = "close" <=> c.state = "Closing"
  BY Reached
<1>2. nextId' \in nextId .. MaxId + 1 /\ IdChange(p, c)
  BY <1>1, BoundsAssumption DEF IInv, TypeOK, IdChange
<1>3. conn'[p] = c /\ \A q \in Peers : paired[q] \subseteq paired'[q]
  BY <1>1, <1>2, IdStep DEF Become, IInv, TypeOK
<1>4. IdInv(p)'
  BY <1>1, <1>2, IdStep
<1>5. StateInv(p)'
  <2>1. StateInv(p) /\ Other(p) \in Peers
    BY OtherPeer DEF IInv
  <2>. QED BY <1>1, <1>3, <2>1 DEF StateInv
<1>. QED BY <1>1, <1>2, <1>4, <1>5, PeerStep

(* A step that takes messages off the network and changes nothing else.    *)
LEMMA Dropped ==
  ASSUME IInv, NEW p \in Peers, Become(p, Transport(p)), nextId' = nextId,
         lost' = lost, net' \subseteq net
  PROVE  IInv'
<1>1. {} \in SUBSET Message /\ net' \subseteq net \cup {} /\ \A m \in {} : MsgInv(m)'
  OBVIOUS
<1>. QED BY <1>1, Ignored

(* A transport that goes away.                                             *)
LEMMA Left ==
  ASSUME IInv, NEW p \in Peers, Become(p, Gone), nextId' = nextId,
         lost' = lost, net' \subseteq net
  PROVE  IInv'
<1>1. Gone \in Transports
  BY BoundsAssumption DEF Gone, Fresh, Transports, States, Timers, Intervals, ConnId
<1>2. nextId' \in nextId .. MaxId + 1 /\ IdChange(p, Gone)
  BY BoundsAssumption DEF IInv, TypeOK, IdChange, Gone, Fresh
<1>3. conn'[p] = Gone
  BY DEF Become, IInv, TypeOK
<1>4. StateInv(p)'
  BY <1>3 DEF StateInv, Gone, Fresh
<1>5. {} \in SUBSET Message /\ net' \subseteq net \cup {} /\ \A m \in {} : MsgInv(m)'
  OBVIOUS
<1>. QED BY <1>1, <1>2, <1>4, <1>5, PeerStep

(* dial by the application.                                                *)
LEMMA DidDial ==
  ASSUME IInv, NEW p \in Peers, did_dial(p)
  PROVE  IInv'
<1>. DEFINE c == Transport(p)
            d == [c EXCEPT !.state = "DialSent", !.dialled = TRUE,
                           !.src_conn_id = nextId,
                           !.timer = "dial", !.interval = DialInitial]
<1>1. /\ c.state = "Listen" /\ nextId <= MaxId /\ nextId' = nextId + 1
      /\ Become(p, d) /\ net' = net \cup Send("DIAL", p, d) /\ lost' = lost
  BY DEF did_dial
<1>2. c \in Transports /\ c.src_conn_id = 0 /\ c.dst_conn_id = 0
  BY <1>1, Reached
<1>3. nextId \in 1 .. MaxId + 1 /\ MaxId \in Nat
  BY BoundsAssumption DEF IInv, TypeOK
<1>. HIDE DEF c
<1>4. d \in Transports
  <2>1. nextId \in ConnId /\ DialInitial \in Intervals
    BY <1>1, <1>3 DEF ConnId, Intervals
  <2>. QED BY <1>2, <2>1 DEF Transports, States, Timers
<1>5. /\ d.state = "DialSent" /\ d.src_conn_id = nextId /\ d.dst_conn_id = 0
      /\ d.timer = "dial"
  BY <1>2 DEF Transports
<1>. HIDE DEF d
<1>6. nextId' \in nextId .. MaxId + 1 /\ IdChange(p, d)
  BY <1>1, <1>3, <1>5 DEF IdChange
<1>7. conn'[p] = d /\ IdInv(p)'
  BY <1>1, <1>4, <1>6, IdStep DEF Become, IInv, TypeOK
<1>8. StateInv(p)'
  BY <1>3, <1>5, <1>7 DEF StateInv
<1>9. /\ Send("DIAL", p, d) \in SUBSET Message
      /\ \A m \in Send("DIAL", p, d) : MsgInv(m)'
  BY <1>4, <1>5, <1>7, <1>8, Sent
<1>. QED BY <1>1, <1>4, <1>6, <1>8, <1>9, PeerStep

(* close by the application.                                               *)
LEMMA Close ==
  ASSUME IInv, NEW p \in Peers, close(p)
  PROVE  IInv'
<1>. DEFINE c == [Fresh("Closing") EXCEPT
                    !.src_conn_id = conn[p].src_conn_id,
                    !.dst_conn_id = conn[p].dst_conn_id,
                    !.timer = "close", !.interval = CloseInitial]
<1>1. /\ Become(p, c) /\ net' = net \cup Send("CLOSE", p, c)
      /\ lost' = lost /\ nextId' = nextId
  BY DEF close, SendOnly
<1>2. conn[p] \in Transports
  BY DEF IInv, TypeOK
<1>3. /\ c \in Transports /\ c.state = "Closing" /\ c.timer = "close"
      /\ c.src_conn_id = conn[p].src_conn_id /\ c.dst_conn_id = conn[p].dst_conn_id
  BY <1>2 DEF Fresh, Transports, States, Timers, Intervals
<1>. HIDE DEF c
<1>4. nextId' \in nextId .. MaxId + 1 /\ IdChange(p, c)
  BY <1>1, <1>3, BoundsAssumption DEF IInv, TypeOK, IdChange
<1>5. conn'[p] = c /\ IdInv(p)'
  BY <1>1, <1>3, <1>4, IdStep DEF Become, IInv, TypeOK
<1>6. StateInv(p)'
  BY <1>3, <1>5 DEF StateInv
<1>7. /\ Send("CLOSE", p, c) \in SUBSET Message
      /\ \A m \in Send("CLOSE", p, c) : MsgInv(m)'
  BY <1>3, <1>5, <1>6, Sent
<1>. QED BY <1>1, <1>3, <1>4, <1>6, <1>7, PeerStep

(* A message of an established connection is sent.                         *)
LEMMA SendData ==
  ASSUME IInv, NEW p \in Peers, send(p)
  PROVE  IInv'
<1>1. PICK type \in {"DATA", "ACK", "STREAM"} :
        /\ net' = net \cup Send(type, p, conn[p])
        /\ lost' = lost /\ nextId' = nextId
  BY DEF send, SendOnly
<1>2. conn' = conn /\ paired' = paired /\ conn[p].state = "Established"
  BY DEF send
<1>3. conn[p] \in Transports /\ IdInv(p) /\ StateInv(p)
  BY DEF IInv, TypeOK
<1>4. Become(p, conn[p])
  BY <1>2, <1>3 DEF Become, IInv, TypeOK, IdInv
<1>5. nextId' \in nextId .. MaxId + 1 /\ IdChange(p, conn[p])
  BY <1>1, BoundsAssumption DEF IInv, TypeOK, IdChange
<1>6. IdInv(p)' /\ StateInv(p)'
  BY <1>1, <1>2, <1>3 DEF IdInv, StateInv
<1>7. /\ Send(type, p, conn[p]) \in SUBSET Message
      /\ \A m \in Send(type, p, conn[p]) : MsgInv(m)'
  BY <1>2, <1>3, <1>6, Sent
<1>. QED BY <1>1, <1>3, <1>4, <1>5, <1>6, <1>7, PeerStep

(* A timer either gives up or sends again and waits twice as long.         *)
LEMMA DialTimer ==
  ASSUME IInv, NEW p \in Peers, dial_timer_cb(p)
  PROVE  IInv'
<1>. DEFINE c == conn[p]
            d == [c EXCEPT !.interval = 2 * @]
<1>1. c \in Transports /\ StateInv(p) /\ c.timer = "dial"
  BY DEF IInv, TypeOK, dial_timer_cb
<1>2. lost' = lost /\ nextId' = nextId
  BY DEF dial_timer_cb, SendOnly
<1>3. CASE Become(p, Gone) /\ SendOnly({})
  BY <1>2, <1>3, Left DEF SendOnly
<1>4. CASE c.interval < DialAbort /\ Become(p, d) /\ SendOnly(Send("DIAL", p, c))
  <2>. HIDE DEF c
  <2>0. Become(p, d) /\ net' = net \cup Send("DIAL", p, c)
    BY <1>4 DEF SendOnly
  <2>1. 2 * c.interval \in Intervals
    BY <1>1, <1>4, TimersAssumption DEF Transports, Intervals
  <2>2. /\ d \in Transports /\ d.state = c.state /\ d.timer = c.timer
        /\ d.src_conn_id = c.src_conn_id /\ d.dst_conn_id = c.dst_conn_id
    BY <1>1, <2>1 DEF Transports
  <2>. HIDE DEF d
  <2>3. nextId' \in nextId .. MaxId + 1 /\ IdChange(p, d)
    BY <1>2, <2>2, BoundsAssumption DEF c, IInv, TypeOK, IdChange
  <2>4. conn'[p] = d /\ IdInv(p)'
    BY <2>0, <2>2, <2>3, IdStep DEF Become, IInv, TypeOK
  <2>5. StateInv(p)' /\ d.state = "DialSent"
    BY <1>1, <2>2, <2>4 DEF StateInv, c
  <2>6. Send("DIAL", p, c) = Send("DIAL", p, d)
    BY <2>2 DEF Send
  <2>7. /\ Send("DIAL", p, c) \in SUBSET Message
        /\ \A m \in Send("DIAL", p, c) : MsgInv(m)'
    BY <2>2, <2>4, <2>5, <2>6, Sent
  <2>. QED BY <1>2, <2>0, <2>2, <2>3, <2>5, <2>7, PeerStep
<1>. QED BY <1>3, <1>4 DEF dial_timer_cb

(* close_timer_cb: CLOSE is sent again, or the transport is deleted.       *)
LEMMA CloseTimer ==
  ASSUME IInv, NEW p \in Peers, close_timer_cb(p)
  PROVE  IInv'
<1>. DEFINE c == conn[p]
            d == [c EXCEPT !.interval = 2 * @]
<1>1. c \in Transports /\ StateInv(p) /\ c.timer = "close"
  BY DEF IInv, TypeOK, close_timer_cb
<1>2. lost' = lost /\ nextId' = nextId
  BY DEF close_timer_cb, SendOnly
<1>3. CASE Become(p, Gone) /\ SendOnly({})
  BY <1>2, <1>3, Left DEF SendOnly
<1>4. CASE c.interval < CloseAbort /\ Become(p, d) /\ SendOnly(Send("CLOSE", p, c))
  <2>. HIDE DEF c
  <2>0. Become(p, d) /\ net' = net \cup Send("CLOSE", p, c)
    BY <1>4 DEF SendOnly
  <2>1. 2 * c.interval \in Intervals
    BY <1>1, <1>4, TimersAssumption DEF Transports, Intervals
  <2>2. /\ d \in Transports /\ d.state = c.state /\ d.timer = c.timer
        /\ d.src_conn_id = c.src_conn_id /\ d.dst_conn_id = c.dst_conn_id
    BY <1>1, <2>1 DEF Transports
  <2>. HIDE DEF d
  <2>3. nextId' \in nextId .. MaxId + 1 /\ IdChange(p, d)
    BY <1>2, <2>2, BoundsAssumption DEF c, IInv, TypeOK, IdChange
  <2>4. conn'[p] = d /\ IdInv(p)'
    BY <2>0, <2>2, <2>3, IdStep DEF Become, IInv, TypeOK
  <2>5. StateInv(p)'
    BY <1>1, <2>2, <2>4 DEF StateInv, c
  <2>6. Send("CLOSE", p, c) = Send("CLOSE", p, d)
    BY <2>2 DEF Send
  <2>7. /\ Send("CLOSE", p, c) \in SUBSET Message
        /\ \A m \in Send("CLOSE", p, c) : MsgInv(m)'
    BY <2>2, <2>4, <2>5, <2>6, Sent
  <2>. QED BY <1>2, <2>0, <2>2, <2>3, <2>5, <2>7, PeerStep
<1>. QED BY <1>3, <1>4 DEF close_timer_cb

(* A transport that is deleted.                                            *)
LEMMA Aborted ==
  ASSUME IInv, NEW p \in Peers, Abort(p)
  PROVE  IInv'
BY Left DEF Abort, SendOnly

(* A handler that ends in a transport d and answers with a message of type *)
(* type, or with none.                                                     *)
LEMMA Answered ==
  ASSUME IInv, NEW p \in Peers, NEW d \in Transports, Become(p, d),
         nextId' \in nextId .. MaxId + 1, IdChange(p, d), lost' = lost,
         StateInv(p)', NEW type, net' \subseteq net \cup Send(type, p, d),
         \/ type = "DIALCONF" /\ d.state \in {"DialRcvd", "Established"}
         \/ type \in {"CONF", "DATA"} /\ d.state = "Established"
  PROVE  IInv'
<1>1. conn'[p] = d /\ IdInv(p)'
  BY IdStep DEF Become, IInv, TypeOK
<1>2. /\ Send(type, p, d) \in SUBSET Message
      /\ \A m \in Send(type, p, d) : MsgInv(m)'
  BY <1>1, Sent
<1>. QED BY <1>2, PeerStep

(* Facts every handler starts from.                                        *)
LEMMA Received ==
  ASSUME IInv, NEW p \in Peers, NEW m \in net, m.to = p
  PROVE  /\ m.src_conn_id \in ConnId /\ m.dst_conn_id \in ConnId
         /\ m.src_conn_id < nextId /\ m.dst_conn_id < nextId
         /\ MsgInv(m)
         /\ nextId \in 1 .. MaxId + 1 /\ MaxId \in Nat
         /\ conn[p] \in Transports /\ StateInv(p) /\ IdInv(p)
         /\ Other(p) \in Peers /\ Other(Other(p)) = p
BY OtherPeer, BoundsAssumption DEF IInv, TypeOK, Message, MsgInv

(* DIAL received.                                                          *)
LEMMA RecvDIAL ==
  ASSUME IInv, NEW p \in Peers, NEW m \in net, m.to = p, did_recv_DIAL(p, m)
  PROVE  IInv'
<1>. DEFINE c == Transport(p)
            answered == [StopTimer(c) EXCEPT !.state = "DialRcvd",
                                             !.dst_conn_id = m.dst_conn_id]
            accepted == [answered EXCEPT !.src_conn_id = nextId]
<1>1. /\ m.src_conn_id \in ConnId /\ m.dst_conn_id \in ConnId
      /\ m.dst_conn_id # 0 /\ m.dst_conn_id < nextId
      /\ nextId \in 1 .. MaxId + 1 /\ MaxId \in Nat
      /\ StateInv(p) /\ m.type = "DIAL" /\ lost' = lost
  BY Received DEF MsgInv, did_recv_DIAL, Reply
<1>2. /\ c \in Transports /\ c.state # "None"
      /\ c.src_conn_id = conn[p].src_conn_id /\ c.dst_conn_id = conn[p].dst_conn_id
      /\ c.state = "Listen" => c.src_conn_id = 0 /\ c.dst_conn_id = 0
      /\ c.state # "Listen" => c = conn[p]
  BY Reached
<1>3. /\ c.state = "Listen" => accepted \in Transports \/ nextId > MaxId
      /\ accepted.state = "DialRcvd" /\ accepted.timer = "off"
      /\ accepted.src_conn_id = nextId /\ accepted.dst_conn_id = m.dst_conn_id
      /\ answered \in Transports
      /\ answered.state = "DialRcvd" /\ answered.timer = "off"
      /\ answered.src_conn_id = c.src_conn_id /\ answered.dst_conn_id = m.dst_conn_id
  <2>. HIDE DEF c
  <2>1. nextId > MaxId \/ nextId \in ConnId
    BY <1>1 DEF ConnId
  <2>2. answered \in Transports
    BY <1>1, <1>2 DEF StopTimer, Transports, States, Timers, Intervals
  <2>. QED BY <1>2, <2>1, <2>2 DEF StopTimer, Transports
<1>4. CASE /\ c.state = "Listen" /\ nextId <= MaxId /\ nextId' = nextId + 1
           /\ Become(p, accepted) /\ Reply(m, Send("DIALCONF", p, accepted))
  <2>. HIDE DEF c, accepted, answered
  <2>1. accepted \in Transports
    BY <1>1, <1>3, <1>4
  <2>2. nextId' \in nextId .. MaxId + 1 /\ IdChange(p, accepted)
    BY <1>1, <1>3, <1>4 DEF IdChange
  <2>3. conn'[p] = accepted
    BY <1>4 DEF Become, IInv, TypeOK
  <2>4. StateInv(p)'
    BY <1>1, <1>3, <2>3 DEF StateInv
  <2>5. net' \subseteq net \cup Send("DIALCONF", p, accepted)
    BY <1>4 DEF Reply
  <2>. QED BY <1>1, <1>3, <1>4, <2>1, <2>2, <2>4, <2>5, Answered
<1>5. CASE /\ c.state = "DialSent" /\ nextId' = nextId
           /\ Become(p, answered) /\ Reply(m, Send("DIALCONF", p, answered))
  <2>1. c.src_conn_id # 0 /\ c.dst_conn_id = 0
    BY <1>1, <1>2, <1>5 DEF StateInv
  <2>. HIDE DEF c, answered
  <2>2. nextId' \in nextId .. MaxId + 1 /\ IdChange(p, answered)
    BY <1>1, <1>2, <1>3, <1>5, <2>1 DEF IdChange
  <2>3. conn'[p] = answered
    BY <1>5 DEF Become, IInv, TypeOK
  <2>4. StateInv(p)'
    BY <1>1, <1>3, <2>1, <2>3 DEF StateInv
  <2>5. net' \subseteq net \cup Send("DIALCONF", p, answered)
    BY <1>5 DEF Reply
  <2>. QED BY <1>1, <1>3, <1>5, <2>2, <2>4, <2>5, Answered
<1>6. CASE /\ c.state \in {"DialRcvd", "Established"} /\ nextId' = nextId
           /\ Become(p, c) /\ Reply(m, Send("DIALCONF", p, c))
  <2>1. Send("DIALCONF", p, c) \in SUBSET Message
    BY <1>2, OtherPeer DEF Send, Dgram, Message, Types, Transports
  <2>2. conn'[p] = c
    BY <1>6 DEF Become, IInv, TypeOK
  <2>3. IdInv(p)' /\ StateInv(p)' => \A r \in Send("DIALCONF", p, c) : MsgInv(r)'
    BY <1>2, <1>6, <2>2, Sent
  <2>. QED BY <1>1, <1>6, <2>1, <2>3, Ignored DEF Reply
<1>7. CASE Become(p, c) /\ Reply(m, {}) /\ nextId' = nextId
  BY <1>1, <1>7, Dropped DEF Reply
<1>. QED BY <1>4, <1>5, <1>6, <1>7 DEF did_recv_DIAL

(* DIALCONF received.                                                      *)
LEMMA RecvDIALCONF ==
  ASSUME IInv, NEW p \in Peers, NEW m \in net, m.to = p, did_recv_DIALCONF(p, m)
  PROVE  IInv'
<1>. DEFINE c == Transport(p)
            d == [StopTimer(c) EXCEPT !.state = "Established",
                                      !.dst_conn_id = m.dst_conn_id]
<1>1. /\ m.src_conn_id \in ConnId /\ m.dst_conn_id \in ConnId
      /\ m.src_conn_id # 0 /\ m.dst_conn_id # 0 /\ m.dst_conn_id < nextId
      /\ <<m.dst_conn_id, m.src_conn_id>> \in paired[Other(p)]
      /\ nextId \in 1 .. MaxId + 1 /\ MaxId \in Nat
      /\ StateInv(p) /\ m.type = "DIALCONF" /\ lost' = lost /\ nextId' = nextId
      /\ Other(p) \in Peers
  BY Received DEF MsgInv, Confirming, did_recv_DIALCONF, Reply
<1>2. /\ c \in Transports
      /\ c.src_conn_id = conn[p].src_conn_id /\ c.dst_conn_id = conn[p].dst_conn_id
      /\ c.state # "Listen" => c = conn[p]
  BY Reached
<1>3. CASE Answers(c, m) /\ Become(p, d) /\ Reply(m, Send("CONF", p, d))
  <2>1. /\ c.src_conn_id = m.src_conn_id
        /\ c.dst_conn_id = 0 \/ c.dst_conn_id = m.dst_conn_id
    BY <1>1, <1>2, <1>3 DEF Answers, Matches, StateInv
  <2>. HIDE DEF c
  <2>2. /\ d \in Transports /\ d.state = "Established" /\ d.timer = "off"
        /\ d.src_conn_id = m.src_conn_id /\ d.dst_conn_id = m.dst_conn_id
    BY <1>1, <1>2, <2>1 DEF StopTimer, Transports, States, Timers, Intervals
  <2>. HIDE DEF d
  <2>3. nextId' \in nextId .. MaxId + 1 /\ IdChange(p, d)
    BY <1>1, <1>2, <2>1, <2>2 DEF IdChange
  <2>4. conn'[p] = d /\ paired[Other(p)] \subseteq paired'[Other(p)]
    BY <1>1, <1>3, <2>2, <2>3, IdStep DEF Become, IInv, TypeOK
  <2>5. StateInv(p)'
    BY <1>1, <2>2, <2>4 DEF StateInv
  <2>6. net' \subseteq net \cup Send("CONF", p, d)
    BY <1>3 DEF Reply
  <2>. QED BY <1>1, <1>3, <2>2, <2>3, <2>5, <2>6, Answered
<1>4. CASE /\ ~Answers(c, m) /\ c.state # "Closing"
           /\ Become(p, c) /\ Reply(m, SendRST(p, m))
  <2>1. /\ SendRST(p, m) \in SUBSET Message
        /\ \A r \in SendRST(p, m) : MsgInv(r)'
    BY <1>1, <1>4, Refused
  <2>. QED BY <1>1, <1>4, <2>1, Ignored DEF Reply
<1>5. CASE Become(p, c) /\ Reply(m, {})
  BY <1>1, <1>5, Dropped DEF Reply
<1>. QED BY <1>3, <1>4, <1>5 DEF did_recv_DIALCONF

(* CONF and DATA both move DialRcvd to Established on the ids the peers    *)
(* share.                                                                  *)
LEMMA Confirmed ==
  ASSUME IInv, NEW p \in Peers, NEW m \in net, m.to = p,
         m.type \in {"CONF", "DATA"}, Matches(Transport(p), m),
         Transport(p).state \in {"DialRcvd", "Established"},
         Become(p, [Transport(p) EXCEPT !.state = "Established"]),
         Reply(m, {}), nextId' = nextId
  PROVE  IInv'
<1>. DEFINE c == Transport(p)
            d == [c EXCEPT !.state = "Established"]
<1>1. /\ <<m.dst_conn_id, m.src_conn_id>> \in paired[Other(p)]
      /\ m.src_conn_id # 0 /\ m.dst_conn_id # 0
      /\ nextId \in 1 .. MaxId + 1 /\ MaxId \in Nat
      /\ StateInv(p) /\ Other(p) \in Peers
  BY Received DEF MsgInv, Confirming
<1>2. c \in Transports /\ c = conn[p]
  BY Reached
<1>3. /\ d \in Transports /\ d.state = "Established" /\ d.timer = "off"
      /\ d.src_conn_id = m.src_conn_id /\ d.dst_conn_id = m.dst_conn_id
  <2>1. /\ c.src_conn_id = m.src_conn_id /\ c.dst_conn_id = m.dst_conn_id
        /\ c.state \notin {"DialSent", "Closing"}
    BY DEF Matches
  <2>2. c.timer = "off"
    BY <1>1, <1>2, <2>1 DEF StateInv, Transports, Timers
  <2>. HIDE DEF c
  <2>. QED BY <1>2, <2>1, <2>2 DEF Transports, States
<1>4. Become(p, d)
  OBVIOUS
<1>5. IdChange(p, d)
  BY <1>2, <1>3 DEF IdChange, Matches
<1>. HIDE DEF d
<1>6. nextId' \in nextId .. MaxId + 1 /\ net' \subseteq net /\ lost' = lost
  BY <1>1 DEF Reply
<1>7. conn'[p] = d /\ paired[Other(p)] \subseteq paired'[Other(p)]
  BY <1>1, <1>3, <1>4, <1>5, <1>6, IdStep DEF Become, IInv, TypeOK
<1>8. StateInv(p)'
  BY <1>1, <1>3, <1>7 DEF StateInv
<1>9. {} \in SUBSET Message /\ net' \subseteq net \cup {} /\ \A r \in {} : MsgInv(r)'
  BY <1>6
<1>. QED BY <1>3, <1>4, <1>5, <1>6, <1>8, <1>9, PeerStep

(* CONF received.                                                          *)
LEMMA RecvCONF ==
  ASSUME IInv, NEW p \in Peers, NEW m \in net, m.to = p, did_recv_CONF(p, m)
  PROVE  IInv'
<1>. DEFINE c == Transport(p)
            known == c.state \in {"DialRcvd", "Established"} /\ Matches(c, m)
<1>1. m.type = "CONF" /\ lost' = lost /\ nextId' = nextId
  BY DEF did_recv_CONF, Reply
<1>2. CASE known /\ Become(p, [c EXCEPT !.state = "Established"]) /\ Reply(m, {})
  BY <1>1, <1>2, Confirmed
<1>3. CASE ~known /\ c.state # "Closing" /\ Become(p, c) /\ Reply(m, SendRST(p, m))
  <2>1. /\ SendRST(p, m) \in SUBSET Message
        /\ \A r \in SendRST(p, m) : MsgInv(r)'
    BY <1>1, <1>3, Refused
  <2>. QED BY <1>1, <1>3, <2>1, Ignored DEF Reply
<1>4. CASE Become(p, c) /\ Reply(m, {})
  BY <1>1, <1>4, Dropped DEF Reply
<1>. QED BY <1>2, <1>3, <1>4 DEF did_recv_CONF

(* RST received.                                                           *)
LEMMA RecvRST ==
  ASSUME IInv, NEW p \in Peers, NEW m \in net, m.to = p, did_recv_RST(p, m)
  PROVE  IInv'
<1>1. net' \subseteq net /\ lost' = lost /\ nextId' = nextId
  BY DEF did_recv_RST, Reply
<1>2. Become(p, Gone) \/ Become(p, Transport(p))
  BY DEF did_recv_RST
<1>. QED BY <1>1, <1>2, Left, Dropped

(* DATA received.                                                          *)
LEMMA RecvDATA ==
  ASSUME IInv, NEW p \in Peers, NEW m \in net, m.to = p, did_recv_DATA(p, m)
  PROVE  IInv'
<1>. DEFINE c == Transport(p)
<1>1. m.type = "DATA" /\ lost' = lost /\ nextId' = nextId
  BY DEF did_recv_DATA, Reply
<1>2. CASE ~Matches(c, m) /\ Become(p, c) /\ Reply(m, SendRST(p, m))
  <2>1. /\ SendRST(p, m) \in SUBSET Message
        /\ \A r \in SendRST(p, m) : MsgInv(r)'
    BY <1>1, <1>2, Refused
  <2>. QED BY <1>1, <1>2, <2>1, Ignored DEF Reply
<1>3. CASE /\ Matches(c, m) /\ c.state = "DialRcvd" /\ Reply(m, {})
           /\ Become(p, [c EXCEPT !.state = "Established"])
  BY <1>1, <1>3, Confirmed
<1>4. CASE Become(p, c) /\ Reply(m, {})
  BY <1>1, <1>4, Dropped DEF Reply
<1>. QED BY <1>2, <1>3, <1>4 DEF did_recv_DATA

(* A message about a stream received.                                      *)
LEMMA RecvControl ==
  ASSUME IInv, NEW p \in Peers, NEW m \in net, m.to = p, did_recv_control(p, m)
  PROVE  IInv'
<1>1. /\ m.type \in {"ACK", "STREAM"} /\ lost' = lost /\ nextId' = nextId
      /\ Become(p, Transport(p))
  BY DEF did_recv_control, Reply
<1>2. CASE ~Matches(Transport(p), m) /\ Reply(m, SendRST(p, m))
  <2>1. /\ SendRST(p, m) \in SUBSET Message
        /\ \A r \in SendRST(p, m) : MsgInv(r)'
    BY <1>1, <1>2, Refused
  <2>. QED BY <1>1, <1>2, <2>1, Ignored DEF Reply
<1>3. CASE Reply(m, {})
  BY <1>1, <1>3, Dropped DEF Reply
<1>. QED BY <1>2, <1>3 DEF did_recv_control

(* A message of no connection received.                                    *)
LEMMA RecvUnknown ==
  ASSUME IInv, NEW p \in Peers, NEW m \in net, m.to = p, did_recv_unknown(p, m)
  PROVE  IInv'
BY Dropped DEF did_recv_unknown, Reply

-----------------------------------------------------------------------------
(* The invariant is inductive.                                             *)
LEMMA Initially == Init => IInv
<1>1. SUFFICES ASSUME Init PROVE IInv
  OBVIOUS
<1>2. Gone \in Transports
  BY BoundsAssumption DEF Gone, Fresh, Transports, States, Timers, Intervals, ConnId
<1>3. TypeOK
  BY <1>1, <1>2, BoundsAssumption DEF Init, TypeOK, ConnId
<1>4. ASSUME NEW p \in Peers PROVE IdInv(p) /\ StateInv(p)
  BY <1>1 DEF Init, IdInv, StateInv, Gone, Fresh
<1>. QED BY <1>1, <1>3, <1>4 DEF Init, IInv

(* Every step keeps the invariant.                                         *)
LEMMA Inductive == IInv /\ [Next]_vars => IInv'
<1>1. SUFFICES ASSUME IInv, [Next]_vars PROVE IInv'
  OBVIOUS
<1>. USE <1>1
<1>2. ASSUME NEW p \in Peers,
             \/ did_dial(p) \/ close(p) \/ send(p)
             \/ dial_timer_cb(p) \/ close_timer_cb(p) \/ Abort(p)
      PROVE  IInv'
  BY <1>2, DidDial, Close, SendData, DialTimer, CloseTimer, Aborted
<1>3. ASSUME NEW p \in Peers, NEW m \in net, did_recv(p, m)
      PROVE  IInv'
  BY <1>3, RecvDIAL, RecvDIALCONF, RecvCONF, RecvRST, RecvDATA, RecvControl,
     RecvUnknown DEF did_recv
<1>4. ASSUME NEW m \in net, Lose(m)
      PROVE  IInv'
  <2>1. /\ conn' = conn /\ paired' = paired /\ nextId' = nextId
        /\ net' \subseteq net /\ lost' = lost + 1 /\ lost < MaxLosses
    BY <1>4 DEF Lose
  <2>2. TypeOK'
    BY <2>1, BoundsAssumption DEF IInv, TypeOK
  <2>3. \A q \in Peers : IdInv(q)' /\ StateInv(q)'
    BY <2>1 DEF IInv, IdInv, StateInv
  <2>4. \A r \in net' : MsgInv(r)'
    BY <2>1 DEF IInv, MsgInv
  <2>. QED BY <2>2, <2>3, <2>4 DEF IInv
<1>5. CASE UNCHANGED vars
  <2>1. TypeOK'
    BY <1>5 DEF vars, IInv, TypeOK
  <2>2. \A q \in Peers : IdInv(q)' /\ StateInv(q)'
    BY <1>5 DEF vars, IInv, IdInv, StateInv
  <2>3. \A r \in net' : MsgInv(r)'
    BY <1>5 DEF vars, IInv, MsgInv
  <2>. QED BY <2>1, <2>2, <2>3 DEF IInv
<1>. QED BY <1>2, <1>3, <1>4, <1>5 DEF Next, Receive

(* The invariant holds of every behaviour.                                 *)
LEMMA Invariant == Spec => []IInv
BY Initially, Inductive, PTL DEF Spec

-----------------------------------------------------------------------------
(* The theorems.                                                           *)

(* Every reachable state of the two transports, the network and the        *)
(* history is of the declared type: ids stay within those generated, and   *)
(* no retry interval is doubled past the one that aborts.                  *)
THEOREM TypeCorrect == Spec => []TypeOK
<1>1. IInv => TypeOK
  BY DEF IInv
<1>. QED BY <1>1, Invariant, PTL

(* A connection is established only with a peer that itself held the       *)
(* mirrored ids: did_recv_DIALCONF, did_recv_CONF and did_recv_DATA accept *)
(* no message of a connection the other side never took part in.           *)
THEOREM EstablishedOnlyMutually == Spec => []EstablishedIsMutual
<1>1. IInv => EstablishedIsMutual
  BY DEF IInv, StateInv, EstablishedIsMutual
<1>. QED BY <1>1, Invariant, PTL

(* A connection id is paired with one id of the other side, ever.          *)
THEOREM PairedOnce == Spec => []PairingIsFunctional
<1>1. IInv => PairingIsFunctional
  <2>1. SUFFICES ASSUME IInv, NEW p \in Peers, NEW a \in paired[p], NEW b \in paired[p],
                        a[1] = b[1]
                 PROVE  a[2] = b[2]
    BY DEF PairingIsFunctional
  <2>2. paired[p] \subseteq ConnId \X ConnId /\ IdInv(p)
    BY <2>1 DEF IInv, TypeOK
  <2>3. /\ a[1] \in ConnId /\ a[2] \in ConnId /\ b[2] \in ConnId
        /\ a = <<a[1], a[2]>> /\ b = <<a[1], b[2]>>
    BY <2>1, <2>2
  <2>. QED BY <2>2, <2>3 DEF IdInv
<1>. QED BY <1>1, Invariant, PTL

(* The shared state timer runs exactly in the states that own it.          *)
THEOREM TimersFit == Spec => []TimerFitsState
<1>1. IInv => TimerFitsState
  BY DEF IInv, StateInv, TimerFitsState
<1>. QED BY <1>1, Invariant, PTL

(* Two established peers are established on the same connection: of two    *)
(* different pairs, the one with the older ids cannot be held by one side  *)
(* while the other has moved on to the newer.                              *)
THEOREM EstablishedAgree == Spec => []BothEstablishedAgree
<1>1. ASSUME IInv, NEW p \in Peers, NEW q \in Peers, p # q,
             conn[p].state = "Established", conn[q].state = "Established"
      PROVE  /\ conn[p].src_conn_id = conn[q].dst_conn_id
             /\ conn[p].dst_conn_id = conn[q].src_conn_id
  <2>. DEFINE sp == conn[p].src_conn_id
              dp == conn[p].dst_conn_id
              sq == conn[q].src_conn_id
              dq == conn[q].dst_conn_id
  <2>1. q = Other(p) /\ p = Other(q)
    BY <1>1, OtherPeer
  <2>2. sp \in ConnId /\ dp \in ConnId /\ sq \in ConnId /\ dq \in ConnId
    BY <1>1 DEF IInv, TypeOK, Transports
  <2>3. IdInv(p) /\ IdInv(q) /\ StateInv(p) /\ StateInv(q)
    BY <1>1 DEF IInv
  <2>4. /\ sp # 0 /\ dp # 0 /\ sq # 0 /\ dq # 0
        /\ <<dp, sp>> \in paired[q] /\ <<dq, sq>> \in paired[p]
        /\ <<sp, dp>> \in paired[p] /\ <<sq, dq>> \in paired[q]
    BY <1>1, <2>1, <2>3 DEF StateInv, IdInv
  <2>5. dq <= sp /\ dp <= sq
    BY <2>2, <2>3, <2>4 DEF IdInv
  <2>6. ~(dq < sp /\ dp < sq)
    BY <2>2, <2>3, <2>4, BoundsAssumption DEF IdInv, ConnId
  <2>7. dq = sp \/ dp = sq
    BY <2>2, <2>5, <2>6, BoundsAssumption DEF ConnId
  <2>. QED BY <2>2, <2>3, <2>4, <2>7 DEF IdInv
<1>2. IInv => BothEstablishedAgree
  BY <1>1 DEF BothEstablishedAgree
<1>. QED BY <1>2, Invariant, PTL

(* An RST that would tear an established connection down is in flight only *)
(* once the other side has left that connection.                           *)
THEOREM LiveNotReset == Spec => []LiveConnectionNotReset
<1>1. ASSUME IInv, NEW p \in Peers, NEW m \in net, m.type = "RST", m.to = p,
             conn[p].state = "Established", Matches(conn[p], m)
      PROVE  conn[Other(p)].src_conn_id # conn[p].dst_conn_id
  <2>. DEFINE q == Other(p)
  <2>1. q \in Peers
    BY OtherPeer
  <2>2. IdInv(q) /\ StateInv(p) /\ MsgInv(m)
    BY <1>1, <2>1 DEF IInv
  <2>3. /\ conn[p].src_conn_id \in ConnId /\ conn[p].dst_conn_id \in ConnId
        /\ conn[q].src_conn_id \in ConnId /\ conn[q].dst_conn_id \in ConnId
    BY <1>1, <2>1 DEF IInv, TypeOK, Transports
  <2>4. /\ m.src_conn_id = conn[p].src_conn_id /\ m.dst_conn_id = conn[p].dst_conn_id
        /\ <<conn[p].dst_conn_id, conn[p].src_conn_id>> \in paired[q]
    BY <1>1, <2>2 DEF Matches, StateInv
  <2>. QED BY <1>1, <2>2, <2>3, <2>4 DEF IdInv, MsgInv
<1>2. IInv => LiveConnectionNotReset
  BY <1>1 DEF LiveConnectionNotReset
<1>. QED BY <1>2, Invariant, PTL
=============================================================================
