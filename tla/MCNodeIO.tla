------------------------------ MODULE MCNodeIO ------------------------------
(* A behaviour is one of an LPF buffer, one of a client, one of the        *)
(* sockets or one of an onramp: the others have nothing to do.             *)
EXTENDS LpfBuffer, Rpc, Sockets, Onramp, TLC
CONSTANTS m1, m2, m3, e1, i1, a1, a2, b1, b2
ChainBlockSymmetry == Permutations(ChainBlocks)

NodeIOInit ==
  /\ BufferInit /\ RpcInit /\ SocketsInit /\ OnrampInit
  /\ client = "none" \/ mode = "none"
  /\ client # "none" \/ mode # "none" => sent = <<>> /\ kind = "store"

StreamStep == UNCHANGED <<rpcVars, socketVars, onrampVars>>
ClientStep == UNCHANGED <<bufferVars, socketVars, onrampVars>>
SocketStep == ~aborted /\ UNCHANGED <<bufferVars, rpcVars, onrampVars>>
OnrampStep ==
  /\ client = "none" /\ mode = "none" /\ sent = <<>> /\ kind = "store" /\ ~crashed
  /\ UNCHANGED <<bufferVars, rpcVars, socketVars>>

NodeIONext ==
  \/ did_recv /\ StreamStep
  \/ PartialLength /\ StreamStep
  \/ FullLength /\ StreamStep
  \/ PartialMessage /\ StreamStep
  \/ FullMessage /\ StreamStep
  \/ Refused /\ StreamStep
  \/ did_recv_flush_stream /\ StreamStep
  \/ \E c \in Links : Answers(c) /\ ClientStep
  \/ \E c \in Links : AnswersUnsized(c) /\ ClientStep
  \/ \E c \in Links : Ends(c) /\ ClientStep
  \/ \E c \in Links : did_close(c) /\ ClientStep
  \/ \E c \in Links : recv_cb(c) /\ ClientStep
  \/ \E c \in Links : recv_cb_end(c) /\ ClientStep
  \/ \E c \in Links : fiber_recv_cb_end(c) /\ ClientStep
  \/ \E c \in Links : recv_cb_error(c) /\ ClientStep
  \/ \E c \in Links, ok \in BOOLEAN : dial_cb(c, ok) /\ ClientStep
  \/ connect_timer_cb /\ ClientStep
  \/ \E ok \in BOOLEAN : connect_cb(ok) /\ ClientStep
  \/ \E m \in Blocks, p \in Externals \cup Internals : did_recv_MESSAGE(m, p) /\ ClientStep
  \/ \E p \in Externals \cup Internals : PeerLeaves(p) /\ ClientStep
  \/ query /\ ClientStep
  \/ dns_cb /\ ClientStep
  \/ stakes_timer /\ ClientStep
  \/ \E a \in Addrs : udp_dial(a) /\ SocketStep
  \/ \E a \in Addrs : udp_recv_cb(a) /\ SocketStep
  \/ \E a \in Addrs, taken \in BOOLEAN : udp_send(a, taken) /\ SocketStep
  \/ udp_send_cb /\ SocketStep
  \/ \E a \in Addrs : udp_close(a) /\ SocketStep
  \/ \E a \in Addrs : tcp_dial(a) /\ SocketStep
  \/ \E h \in Handles, ok \in BOOLEAN : tcp_dial_cb(h, ok) /\ SocketStep
  \/ \E a \in Addrs, yes \in BOOLEAN : tcp_connection_cb(a, yes) /\ SocketStep
  \/ \E a \in Addrs : tcp_send(a) /\ SocketStep
  \/ \E h \in Handles : tcp_send_cb(h) /\ SocketStep
  \/ \E a \in Addrs : ClosedByOwner(a) /\ SocketStep
  \/ \E h \in Handles : tcp_recv_cb(h) /\ SocketStep
  \/ \E h \in Handles : fiber_recv_cb(h) /\ SocketStep
  \/ \E a \in Addrs : fiber_send(a) /\ SocketStep
  \/ \E h \in Handles : tcp_close_cb(h) /\ SocketStep
  \/ \E a \in Addrs : server_connection_cb(a) /\ SocketStep
  \/ \E old \in BOOLEAN : did_create_transport(old) /\ OnrampStep
  \/ \E t \in ChainNodes : \E size \in 1 .. Len(rlpx[t].unread) : \E junk \in Decoded(t) :
       did_recv_rlpx(t, size, junk) /\ OnrampStep
  \/ \E t \in ChainNodes, error \in BOOLEAN : node_left(t, error) /\ OnrampStep
  \/ \E t \in ChainNodes : did_close_rlpx(t) /\ OnrampStep
  \/ \E t \in ChainNodes : NodeHello(t) /\ OnrampStep
  \/ \E t \in ChainNodes : NodeSays(t) /\ OnrampStep
  \/ \E t \in ChainNodes : NodeAnswers(t) /\ OnrampStep
  \/ did_recv_multicast /\ OnrampStep
  \/ did_analyze_block_onramp /\ OnrampStep
  \/ did_connect_abci /\ OnrampStep

NodeIOSpec == NodeIOInit /\ [][NodeIONext]_<<bufferVars, rpcVars, socketVars, onrampVars>>
=============================================================================
