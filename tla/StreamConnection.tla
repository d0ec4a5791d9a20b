-------------------------- MODULE StreamConnection --------------------------
(***************************************************************************)
(* Connection control of StreamTransport                                   *)
(* (stream/include/marlin/stream/StreamTransport.hpp): the                 *)
(* DIAL / DIALCONF / CONF handshake, RST, close, the retry timers, and the *)
(* creation and removal of transports by UdpTransportFactory and           *)
(* UdpTransport underneath.                                                *)
(*                                                                         *)
(* Two peers talk over UDP.  Each peer keeps at most one transport for the *)
(* other, "None" when its transport manager has no entry.  Connection ids  *)
(* come from std::random_device; here they are fresh numbers, 0 being the  *)
(* unset id.  Key exchange and encryption are left out: is_encrypted is    *)
(* false and the sealed payloads open for the peer they are meant for.     *)
(***************************************************************************)
EXTENDS Naturals, FiniteSets

CONSTANTS
  Peers,         \* the two endpoints
  Diallers,      \* the peers whose application calls dial()
  Closers,       \* the peers whose application calls close()
  Senders,       \* the peers whose application sends data
  MaxId,         \* bound: connection ids generated in a behaviour
  DialInitial, DialAbort,    \* 1000 and 64000 in the code, here in seconds
  CloseInitial, CloseAbort,  \* 1000 and 8000 in the code, here in seconds
  Duplicates,    \* TRUE: UDP may deliver any datagram again, at any time
  MaxLosses      \* bound: datagrams the network drops in a behaviour

ASSUME PeersAssumption == \E p, q \in Peers : p # q /\ Peers = {p, q}
ASSUME RolesAssumption == Diallers \cup Closers \cup Senders \subseteq Peers
ASSUME BoundsAssumption == MaxId \in Nat /\ MaxLosses \in Nat
ASSUME TimersAssumption ==
  /\ DialInitial \in Nat \ {0} /\ DialAbort \in Nat
  /\ CloseInitial \in Nat \ {0} /\ CloseAbort \in Nat
ASSUME DuplicatesAssumption == Duplicates \in BOOLEAN

VARIABLES
  conn,    \* conn[p]: the transport peer p keeps for the other peer
  net,     \* datagrams in flight
  nextId,  \* the next fresh connection id
  lost,    \* number of datagrams dropped so far
  paired   \* history: the (src, dst) id pairs each peer has ever held

vars == <<conn, net, nextId, lost, paired>>

Other(p) == CHOOSE q \in Peers : q # p

ConnId == 0 .. MaxId
States == {"None", "Listen", "DialSent", "DialRcvd", "Established", "Closing"}
Types  == {"DATA", "ACK", "DIAL", "DIALCONF", "CONF", "RST", "STREAM", "CLOSE"}

\* Conn ids as their receiver reads them: a sender's dst is the receiver's src.
Message == [type : Types, to : Peers, src_conn_id : ConnId, dst_conn_id : ConnId]

Timers == {"off", "dial", "close"}
\* An interval is doubled only while it is below the one that aborts.
Intervals == {0, DialInitial, CloseInitial}
               \cup 0 .. 2 * DialAbort \cup 0 .. 2 * CloseAbort
Transports == [state : States, src_conn_id : ConnId, dst_conn_id : ConnId,
               dialled : BOOLEAN, timer : Timers, interval : Intervals]

TypeOK ==
  /\ conn \in [Peers -> Transports]
  /\ net \subseteq Message
  /\ nextId \in 1 .. MaxId + 1
  /\ lost \in 0 .. MaxLosses
  /\ paired \in [Peers -> SUBSET (ConnId \X ConnId)]

-----------------------------------------------------------------------------
(* State after construction and after reset().                             *)
Fresh(state) == [state |-> state, src_conn_id |-> 0, dst_conn_id |-> 0,
                 dialled |-> FALSE, timer |-> "off", interval |-> 0]

(* reset(); transport.close(): did_close() runs up the stack and every     *)
(* transport manager forgets the transport.                                *)
Gone == Fresh("None")

(* The transport a datagram or a dial reaches, created when there is none. *)
Transport(p) == IF conn[p].state = "None" THEN Fresh("Listen") ELSE conn[p]

Dgram(type, from, src, dst) ==
  [type |-> type, to |-> Other(from), src_conn_id |-> dst, dst_conn_id |-> src]

\* A datagram of transport c of peer p, carrying the ids of c.
Send(type, p, c) == {Dgram(type, p, c.src_conn_id, c.dst_conn_id)}

\* send_RST(m.src_conn_id(), m.dst_conn_id())
SendRST_Own(p, m) ==   \* slip: the ids of the transport, not of the message
  {Dgram("RST", p, conn[p].src_conn_id, conn[p].dst_conn_id)}
SendRST(p, m) == {Dgram("RST", p, m.src_conn_id, m.dst_conn_id)}

Matches_Src(c, m) == m.src_conn_id = c.src_conn_id   \* slip
Matches(c, m) == m.src_conn_id = c.src_conn_id /\ m.dst_conn_id = c.dst_conn_id

Become(p, c) ==
  /\ conn' = [conn EXCEPT ![p] = c]
  /\ paired' = IF c.dst_conn_id = 0 THEN paired
               ELSE [paired EXCEPT ![p] = @ \cup {<<c.src_conn_id, c.dst_conn_id>>}]

Reply(m, out) ==
  /\ net' = (IF Duplicates THEN net ELSE net \ {m}) \cup out
  /\ UNCHANGED lost

SendOnly(out) == net' = net \cup out /\ UNCHANGED <<lost, nextId>>

StopTimer_Never(c) == c   \* slip
StopTimer(c) == [c EXCEPT !.timer = "off", !.interval = 0]

-----------------------------------------------------------------------------
(* Calls of the application                                                *)

(* UdpTransportFactory::dial gets or creates the transport and calls       *)
(* did_dial, which does nothing unless it listens.                         *)
did_dial(p) ==
  LET c == Transport(p)
      d == [c EXCEPT !.state = "DialSent", !.dialled = TRUE,
                     !.src_conn_id = nextId,
                     !.timer = "dial", !.interval = DialInitial]
  IN /\ p \in Diallers
     /\ c.state = "Listen"
     /\ nextId <= MaxId
     /\ nextId' = nextId + 1
     /\ Become(p, d)
     /\ net' = net \cup Send("DIAL", p, d)
     /\ UNCHANGED lost

(* close() keeps the conn ids so that its retries carry them.              *)
close(p) ==
  LET c == [Fresh("Closing") EXCEPT
              !.src_conn_id = conn[p].src_conn_id,
              !.dst_conn_id = conn[p].dst_conn_id,
              !.timer = "close", !.interval = CloseInitial]
  IN /\ p \in Closers
     /\ conn[p].state \in {"DialSent", "DialRcvd", "Established"}
     /\ Become(p, c)
     /\ SendOnly(Send("CLOSE", p, c))

(* What an established transport sends while it moves data: DATA, and the  *)
(* ACK, SKIPSTREAM, FLUSHSTREAM and FLUSHCONF of the other modules.        *)
send(p) ==
  /\ p \in Senders
  /\ conn[p].state = "Established"
  /\ \E type \in {"DATA", "ACK", "STREAM"} : SendOnly(Send(type, p, conn[p]))
  /\ UNCHANGED <<conn, paired>>

-----------------------------------------------------------------------------
(* Timers                                                                  *)

dial_timer_cb_Once(p) ==   \* slip: the timer is not started again
  LET c == conn[p]
  IN /\ c.timer = "dial"
     /\ \/ c.interval >= DialAbort /\ Become(p, Gone) /\ SendOnly({})
        \/ /\ c.interval < DialAbort
           /\ Become(p, StopTimer(c))
           /\ SendOnly(Send("DIAL", p, c))
dial_timer_cb(p) ==
  LET c == conn[p]
  IN /\ c.timer = "dial"
     /\ \/ /\ c.interval >= DialAbort
           /\ Become(p, Gone)
           /\ SendOnly({})
        \/ /\ c.interval < DialAbort
           /\ Become(p, [c EXCEPT !.interval = 2 * @])
           /\ SendOnly(Send("DIAL", p, c))

close_timer_cb_Once(p) ==   \* slip: the timer is not started again
  LET c == conn[p]
  IN /\ c.timer = "close"
     /\ \/ c.interval >= CloseAbort /\ Become(p, Gone) /\ SendOnly({})
        \/ /\ c.interval < CloseAbort
           /\ Become(p, StopTimer(c))
           /\ SendOnly(Send("CLOSE", p, c))
close_timer_cb(p) ==
  LET c == conn[p]
  IN /\ c.timer = "close"
     /\ \/ /\ c.interval >= CloseAbort
           /\ Become(p, Gone)
           /\ SendOnly({})
        \/ /\ c.interval < CloseAbort
           /\ Become(p, [c EXCEPT !.interval = 2 * @])
           /\ SendOnly(Send("CLOSE", p, c))

(* An established transport whose data, skip or flush timer ran out of     *)
(* retries resets itself and goes away without telling its peer.           *)
Abort(p) ==
  /\ conn[p].state = "Established"
  /\ Become(p, Gone)
  /\ SendOnly({})

-----------------------------------------------------------------------------
(* Datagram handlers: peer p receives m on transport c == Transport(p).    *)

did_recv_DIAL(p, m) ==
  LET c == Transport(p)
      answered == [StopTimer(c) EXCEPT !.state = "DialRcvd",
                                       !.dst_conn_id = m.dst_conn_id]
      accepted == [answered EXCEPT !.src_conn_id = nextId]
  IN /\ m.type = "DIAL"
     /\ \/ /\ c.state = "Listen" /\ m.src_conn_id = 0
           /\ nextId <= MaxId
           /\ nextId' = nextId + 1
           /\ Become(p, accepted)
           /\ Reply(m, Send("DIALCONF", p, accepted))
        \/ /\ c.state = "DialSent" /\ m.src_conn_id = 0
           /\ Become(p, answered)
           /\ Reply(m, Send("DIALCONF", p, answered))
           /\ UNCHANGED nextId
        \/ /\ c.state \in {"DialRcvd", "Established"}
           /\ Become(p, c)
           /\ Reply(m, Send("DIALCONF", p, c))
           /\ UNCHANGED nextId
        \/ /\ c.state = "Closing" \/ (m.src_conn_id # 0
                                      /\ c.state \in {"Listen", "DialSent"})
           /\ Become(p, c)
           /\ Reply(m, {})
           /\ UNCHANGED nextId

Answers_Any(c, m) ==   \* slip: a dialling transport takes any DIALCONF
  \/ c.state = "DialSent"
  \/ c.state \in {"DialRcvd", "Established"} /\ Matches(c, m)
(* The DIALCONF belongs to the dial in progress or to this connection.     *)
Answers(c, m) ==
  \/ c.state = "DialSent" /\ m.src_conn_id = c.src_conn_id
  \/ c.state \in {"DialRcvd", "Established"} /\ Matches(c, m)

did_recv_DIALCONF(p, m) ==
  LET c == Transport(p)
      d == [StopTimer(c) EXCEPT !.state = "Established",
                                !.dst_conn_id = m.dst_conn_id]
  IN /\ m.type = "DIALCONF"
     /\ \/ Answers(c, m) /\ Become(p, d) /\ Reply(m, Send("CONF", p, d))
        \/ /\ ~Answers(c, m) /\ c.state # "Closing"
           /\ Become(p, c) /\ Reply(m, SendRST(p, m))
        \/ c.state = "Closing" /\ Become(p, c) /\ Reply(m, {})
     /\ UNCHANGED nextId

did_recv_CONF(p, m) ==
  LET c == Transport(p)
      known == c.state \in {"DialRcvd", "Established"} /\ Matches(c, m)
  IN /\ m.type = "CONF"
     /\ \/ /\ known
           /\ Become(p, [c EXCEPT !.state = "Established"])
           /\ Reply(m, {})
        \/ /\ ~known /\ c.state # "Closing"
           /\ Become(p, c) /\ Reply(m, SendRST(p, m))
        \/ c.state = "Closing" /\ Become(p, c) /\ Reply(m, {})
     /\ UNCHANGED nextId

did_recv_RST(p, m) ==
  LET c == Transport(p)
  IN /\ m.type = "RST"
     /\ Become(p, IF Matches(c, m) \/ c.state = "Listen" THEN Gone ELSE c)
     /\ Reply(m, {})
     /\ UNCHANGED nextId

(* Only the part of did_recv_DATA before the streams are touched.          *)
did_recv_DATA(p, m) ==
  LET c == Transport(p)
  IN /\ m.type = "DATA"
     /\ \/ /\ ~Matches(c, m)
           /\ Become(p, c) /\ Reply(m, SendRST(p, m))
        \/ /\ Matches(c, m)
           /\ Become(p, IF c.state = "DialRcvd"
                        THEN [c EXCEPT !.state = "Established"] ELSE c)
           /\ Reply(m, {})
     /\ UNCHANGED nextId

(* did_recv_ACK looks at the state before the ids; did_recv_SKIPSTREAM,    *)
(* did_recv_FLUSHSTREAM and did_recv_FLUSHCONF look at the ids first.      *)
did_recv_control(p, m) ==
  LET c == Transport(p)
      refused == ~Matches(c, m) /\ (m.type = "STREAM" \/ c.state = "Established")
  IN /\ m.type \in {"ACK", "STREAM"}
     /\ Become(p, c)
     /\ Reply(m, IF refused THEN SendRST(p, m) ELSE {})
     /\ UNCHANGED nextId

(* did_recv switches on the type byte and has no case for CLOSE (12).      *)
did_recv_unknown(p, m) ==
  /\ m.type = "CLOSE"
  /\ Become(p, Transport(p))
  /\ Reply(m, {})
  /\ UNCHANGED nextId

did_recv(p, m) ==
  /\ m.to = p
  /\ \/ did_recv_DIAL(p, m)
     \/ did_recv_DIALCONF(p, m)
     \/ did_recv_CONF(p, m)
     \/ did_recv_RST(p, m)
     \/ did_recv_DATA(p, m)
     \/ did_recv_control(p, m)
     \/ did_recv_unknown(p, m)

(* The network drops a datagram.                                           *)
Lose(m) ==
  /\ lost < MaxLosses
  /\ lost' = lost + 1
  /\ net' = net \ {m}
  /\ UNCHANGED <<conn, nextId, paired>>

-----------------------------------------------------------------------------
Init ==
  /\ conn = [p \in Peers |-> Gone]
  /\ net = {}
  /\ nextId = 1
  /\ lost = 0
  /\ paired = [p \in Peers |-> {}]

Receive(p) == \E m \in net : did_recv(p, m)

Next ==
  \/ \E p \in Peers : \/ did_dial(p) \/ close(p) \/ send(p)
                      \/ dial_timer_cb(p) \/ close_timer_cb(p) \/ Abort(p)
                      \/ Receive(p)
  \/ \E m \in net : Lose(m)

Spec == Init /\ [][Next]_vars

(* The event loop keeps firing due timers and reading the socket.          *)
Fairness == \A p \in Peers : /\ WF_vars(dial_timer_cb(p))
                             /\ WF_vars(close_timer_cb(p))
                             /\ WF_vars(Receive(p))

FairSpec == Spec /\ Fairness

-----------------------------------------------------------------------------
(* A connection is established only with a peer that has itself held the   *)
(* mirrored pair of ids: neither a stale or duplicated DIAL, nor a         *)
(* simultaneous open, nor early DATA establishes a connection the other    *)
(* side never took part in (did_recv_DIALCONF, did_recv_CONF,              *)
(* did_recv_DATA).                                                         *)
EstablishedIsMutual ==
  \A p \in Peers : conn[p].state = "Established" =>
    <<conn[p].dst_conn_id, conn[p].src_conn_id>> \in paired[Other(p)]

(* When both peers are established they are established on the same        *)
(* connection, whatever earlier connections left in the network.           *)
BothEstablishedAgree ==
  \A p, q \in Peers :
    p # q /\ conn[p].state = "Established" /\ conn[q].state = "Established" =>
      /\ conn[p].src_conn_id = conn[q].dst_conn_id
      /\ conn[p].dst_conn_id = conn[q].src_conn_id

(* An RST that would tear down p's established connection is only in       *)
(* flight once the other side has left that connection: duplicated and     *)
(* reordered handshake packets never make did_recv_* reset a connection    *)
(* both sides still hold.                                                  *)
LiveConnectionNotReset ==
  \A p \in Peers, m \in net :
    (m.type = "RST" /\ m.to = p /\ conn[p].state = "Established"
     /\ Matches(conn[p], m)) =>
      conn[Other(p)].src_conn_id # conn[p].dst_conn_id

(* Only a dialling transport can be waiting on the dial timer, and only a  *)
(* closing one on the close timer: the one state_timer is shared.          *)
TimerFitsState ==
  \A p \in Peers :
    /\ conn[p].timer = "dial" <=> conn[p].state = "DialSent"
    /\ conn[p].timer = "close" <=> conn[p].state = "Closing"

(* A connection id names one attempt: once a peer has paired its own id    *)
(* with an id of the other side, it never pairs it with another.           *)
PairingIsFunctional ==
  \A p \in Peers : \A a, b \in paired[p] : a[1] = b[1] => a[2] = b[2]

(* Every transport an application dialled is resolved: it becomes          *)
(* established or it is removed (and did_close told the application).      *)
DialResolves ==
  \A p \in Peers : (conn[p].dialled ~>
                      conn[p].state \in {"Established", "None"})

(* A closing transport is eventually removed.                              *)
CloseResolves ==
  \A p \in Peers : conn[p].state = "Closing" ~> conn[p].state # "Closing"
=============================================================================
