-------------------------------- MODULE Onramp --------------------------------
(***************************************************************************)
(* An onramp: a multicast client to which a node of a chain (bor, geth)    *)
(* connects as to one of its peers.  OnRamp, of integrations/matic, over   *)
(* RlpxTransport.                                                          *)
(*                                                                         *)
(* The node authenticates itself, in a message that begins with its length *)
(* or in an old one of a fixed size without; the onramp answers, and from  *)
(* then on both sides write frames, each behind a sealed header with its   *)
(* length.  A unit stands for some bytes of one of these; libuv hands over *)
(* any prefix of what has arrived.  Which bytes a unit stands for is for   *)
(* the crypto only, which accepts what is whole and the next of its chain. *)
(***************************************************************************)
EXTENDS Integers, Sequences

CONSTANTS
  ChainBlocks,    \* blocks of the chain
  MaxNodes,       \* bound: connections of the node
  MaxFrames, MaxChecks,   \* bounds: frames of the node but its hello and answers; blocks being checked
  AuthSize, OldSize,     \* units of the two forms of its first message (OldSize: 307 bytes)
  Junk            \* lengths that other bytes than a length may decode to

ASSUME OnrampAssumption ==
  {MaxNodes, MaxFrames, MaxChecks, AuthSize, OldSize} \subseteq Nat /\ 1 < OldSize /\ OldSize < AuthSize /\ Junk \subseteq Nat \ {0}

VARIABLES
  rlpx,          \* rlpx[t]: RlpxTransport t and the TcpTransport below it
  rlpxt,         \* OnRamp: the transport that the network's blocks go to (0: nullptr)
  header,        \* OnRamp: the headers message of the last BlockHeaders
  is_connected, checking,   \* of the chain node's Abci; the blocks it has to answer for
  written,       \* bound: frames written
  published,     \* what went to channel 0: [header, covers, body]
  overlapped,    \* history: the node connected while a connection of its was open
  crashed        \* unbounded recursion, or a handle closed twice

onrampVars == <<rlpx, rlpxt, header, is_connected, checking, written, published, overlapped, crashed>>

ChainNodes == 1 .. MaxNodes
HeaderSize == 2   \* 32 bytes
None == "none"

-----------------------------------------------------------------------------
(* What the node writes.  n counts its units, nth its sealed headers and   *)
(* frames; a header says how long its frame is.                            *)
Message(kind, block) == [kind |-> kind, block |-> block]
Size(m) == IF m.kind = "BlockBodies" THEN 2 ELSE 1
Units(part, nth, size, m) == [n \in 1 .. size |-> [part |-> part, nth |-> nth, n |-> n, of |-> size, m |-> m]]
Auth(old) == IF old THEN Units("old", 0, OldSize, Message("auth", None))
                    ELSE Units("auth", 0, AuthSize, Message("auth", None))
Sealed(nth, m) == Units("header", 2 * nth + 1, HeaderSize, m) \o Units("frame", 2 * nth + 2, Size(m), m)

-----------------------------------------------------------------------------
(* RlpxCrypto.  What is not whole is refused; so is a header or a frame    *)
(* that is not the next one in the chain of MACs.                          *)
IsWhole(buf, part) ==
  \E u \in {buf[1]} : u.part = part /\ Len(buf) = u.of
                      /\ \A n \in DOMAIN buf : buf[n] = [u EXCEPT !.n = n]
ecies_decrypt(buf) == IsWhole(buf, "auth")
ecies_decrypt_old(buf) == IsWhole(buf, "old")
header_decrypt(r) ==
  Len(r.buf) >= HeaderSize /\ IsWhole(SubSeq(r.buf, 1, HeaderSize), "header") /\ r.buf[1].nth = r.ingress_mac + 1
frame_decrypt(r) == IsWhole(r.buf, "frame") /\ r.buf[1].nth = r.ingress_mac + 1

(* Both ends start their chains from secrets that compute_secrets() takes  *)
(* out of the first messages.  What the onramp seals before that is not in *)
(* the node's chain, and all it seals afterwards is lost on the node.      *)
compute_secrets(r) == [r EXCEPT !.keyed = TRUE]
seal(r) == IF r.keyed THEN r ELSE [r EXCEPT !.unkeyed = TRUE]

-----------------------------------------------------------------------------
(* The state machine of RlpxTransport.                                     *)
NewRlpx == [tcp |-> "none", state |-> "Idle", buf |-> <<>>, bytes_remaining |-> 0,
            keyed |-> FALSE, unkeyed |-> FALSE, ingress_mac |-> 0,
            unread |-> <<>>, sealed |-> 0, asked |-> <<>>, got |-> 0,
            guessed |-> FALSE, failed |-> FALSE]

(* The effect of a read on the onramp.                                     *)
RlpxRead(r, junk) ==
  [r |-> r, header |-> header, published |-> published, crashed |-> FALSE, junk |-> junk]

Goes(x, state, bytes_remaining) ==
  [x EXCEPT !.r.state = state, !.r.bytes_remaining = bytes_remaining, !.r.buf = <<>>]

(* transport.close(); the state stays, and nothing remains to be read: a   *)
(* byte more in this chunk does not get any further.                       *)
VerificationFailed(x) == [x EXCEPT !.r.tcp = "closing", !.r.failed = TRUE]

(* buf is not emptied from Idle to AuthWait: the length is a part of it.   *)
LengthRead(x) ==
  [x EXCEPT !.r.state = "AuthWait",
            !.r.bytes_remaining = IF x.r.buf[1].part = "auth" THEN AuthSize - 1 ELSE x.junk]
Authenticated(x) ==
  IF \/ Len(x.r.buf) = OldSize /\ ecies_decrypt_old(x.r.buf)
     \/ Len(x.r.buf) # OldSize /\ ecies_decrypt(x.r.buf)
  THEN [Goes(x, "HelloHeaderWait", HeaderSize) EXCEPT !.r = seal(compute_secrets(@))]
  ELSE VerificationFailed(x)

HeaderRead(x, next) ==
  IF header_decrypt(x.r)
  THEN [Goes(x, next, Size(x.r.buf[1].m)) EXCEPT !.r.ingress_mac = @ + 1]
  ELSE VerificationFailed(x)
HelloRead(x) ==
  IF frame_decrypt(x.r)
  THEN [Goes(x, "RecvHeaderWait", HeaderSize) EXCEPT !.r.ingress_mac = @ + 1]
  ELSE VerificationFailed(x)

-----------------------------------------------------------------------------
(* OnRamp::did_recv for a message of the node.  "other" stands for what is *)
(* answered from the message itself (Status, GetBlockHeaders,              *)
(* GetBlockBodies, GetNodeData) and for what is ignored.                   *)
Publish(x, h, covers, body) ==
  [x EXCEPT !.published = @ \cup {[header |-> h, covers |-> covers, body |-> body]}]
NewBlockHashes_BodyFirst(x, b) ==   \* slip: the body is asked for before the header
  [x EXCEPT !.r.asked = @ \o <<Message("BlockBodies", b), Message("BlockHeaders", b)>>]
NewBlockHashes(x, b) ==
  [x EXCEPT !.r.asked = @ \o <<Message("BlockHeaders", b), Message("BlockBodies", b)>>]
BlockHeaders(x, b) == [x EXCEPT !.header = [block |-> b, covers |-> 0]]
(* header is a reference to the member: its prefix is cut off in place,    *)
(* and once more if the next body comes without a header.                  *)
BlockBodies(x, b) ==
  [Publish(x, x.header.block, x.header.covers + 1, b) EXCEPT !.header.covers = 1]
OnrampRecv(x, m) ==
  CASE m.kind = "NewBlockHashes" -> NewBlockHashes(x, m.block)
    [] m.kind = "BlockHeaders" -> BlockHeaders(x, m.block)
    [] m.kind = "BlockBodies" -> BlockBodies(x, m.block)
    [] m.kind = "NewBlock" -> Publish(x, m.block, 1, m.block)
    [] OTHER -> x

(* A ping is answered by the transport itself.                             *)
FrameRead_Gathered(x, m) ==   \* slip: buf_size is not put back to 0 after a frame
  [(IF m.kind = "ping" THEN x ELSE OnrampRecv(x, m)) EXCEPT
     !.r.state = "RecvHeaderWait", !.r.bytes_remaining = HeaderSize,
     !.r.ingress_mac = @ + 1, !.r.got = @ + 1]
FrameRead(x, m) ==
  [Goes(IF m.kind = "ping" THEN x ELSE OnrampRecv(x, m), "RecvHeaderWait", HeaderSize) EXCEPT
     !.r.ingress_mac = @ + 1, !.r.got = @ + 1]

Full(x) ==
  CASE x.r.state = "LengthWait" -> LengthRead(x)
    [] x.r.state = "AuthWait" -> Authenticated(x)
    [] x.r.state = "HelloHeaderWait" -> HeaderRead(x, "HelloFrameWait")
    [] x.r.state = "HelloFrameWait" -> HelloRead(x)
    [] x.r.state = "RecvHeaderWait" -> HeaderRead(x, "RecvFrameWait")
    [] OTHER -> IF frame_decrypt(x.r) THEN FrameRead(x, x.r.buf[1].m) ELSE VerificationFailed(x)

(* RlpxTransport::did_recv, unit by unit.  The size of the first chunk of  *)
(* all decides how the first message is read.                              *)
TakeUnit(x, u) ==
  LET y == [x EXCEPT !.r.buf = Append(@, u), !.r.bytes_remaining = @ - 1]
  IN IF x.r.failed THEN [x EXCEPT !.crashed = TRUE]
     ELSE IF y.r.bytes_remaining > 0 THEN y ELSE Full(y)
Idle(x, size) ==
  IF x.r.state # "Idle" THEN x
  ELSE [x EXCEPT !.r.state = IF size = OldSize THEN "AuthWait" ELSE "LengthWait",
                 !.r.bytes_remaining = IF size = OldSize THEN OldSize ELSE 1,
                 !.r.guessed = (size = OldSize) # (x.r.unread[1].part = "old")]
Decoded(t) ==   \* what the length is taken for, where none was written
  IF rlpx[t].state = "Idle" /\ Head(rlpx[t].unread).part # "auth" THEN Junk ELSE {0}
did_recv_rlpx(t, size, junk) ==
  LET taken[n \in 0 .. size] ==
        IF n = 0 THEN Idle(RlpxRead(rlpx[t], junk), size) ELSE TakeUnit(taken[n - 1], rlpx[t].unread[n])
      x == taken[size]
  IN /\ rlpx[t].tcp = "open"
     /\ rlpx' = [rlpx EXCEPT ![t] = [x.r EXCEPT !.unread = SubSeq(@, size + 1, Len(@))]]
     /\ header' = x.header /\ published' = x.published /\ crashed' = x.crashed
     /\ UNCHANGED <<rlpxt, is_connected, checking, written, overlapped>>

-----------------------------------------------------------------------------
(* The connections of the node.                                            *)
Present == {t \in ChainNodes : rlpx[t].tcp \in {"open", "closing"}}
did_create_transport(old) ==
  /\ \E t \in ChainNodes :
       /\ rlpx[t].tcp = "none" /\ \A s \in 1 .. t - 1 : rlpx[s].tcp # "none"
       /\ rlpx' = [rlpx EXCEPT ![t] = [NewRlpx EXCEPT !.tcp = "open", !.unread = Auth(old)]]
       /\ rlpxt' = t
  /\ overlapped' = (overlapped \/ Present # {})
  /\ UNCHANGED <<header, is_connected, checking, written, published, crashed>>

(* The stream ended; what the node had not sent off is lost.  An error is  *)
(* only logged: the transport stays, and hears nothing any more.  What     *)
(* either had read is not looked at again.                                 *)
node_left(t, error) ==
  /\ rlpx[t].tcp = "open"
  /\ rlpx' = [rlpx EXCEPT ![t] = [NewRlpx EXCEPT !.tcp = IF error THEN "broken" ELSE "closing"]]
  /\ UNCHANGED <<rlpxt, header, is_connected, checking, written, published, overlapped, crashed>>

did_close_rlpx_Kept(t) ==   \* slip: rlpxt is not put back to nullptr
  /\ rlpx[t].tcp = "closing"
  /\ rlpx' = [rlpx EXCEPT ![t] = [NewRlpx EXCEPT !.tcp = "closed"]]
  /\ UNCHANGED <<rlpxt, header, is_connected, checking, written, published, overlapped, crashed>>
did_close_rlpx(t) ==
  /\ rlpx[t].tcp = "closing"
  /\ rlpx' = [rlpx EXCEPT ![t] = [NewRlpx EXCEPT !.tcp = "closed"]]
  /\ rlpxt' = 0
  /\ UNCHANGED <<header, is_connected, checking, written, published, overlapped, crashed>>

(* The node writes its hello when it can read the onramp's, and then what  *)
(* it likes, and the answers to what it was asked, in order.               *)
NodeWrites(t, m) ==
  rlpx' = [rlpx EXCEPT ![t].unread = @ \o Sealed(rlpx[t].sealed, m), ![t].sealed = @ + 1]
NodeHello(t) ==
  /\ rlpx[t].tcp = "open" /\ rlpx[t].keyed /\ ~rlpx[t].unkeyed /\ rlpx[t].sealed = 0
  /\ NodeWrites(t, Message("hello", None))
  /\ UNCHANGED <<rlpxt, header, is_connected, checking, written, published, overlapped, crashed>>
NodeSays(t) ==
  /\ rlpx[t].tcp = "open" /\ rlpx[t].sealed > 0 /\ written < MaxFrames
  /\ \/ \E kind \in {"ping", "other"} : NodeWrites(t, Message(kind, None))
     \/ \E kind \in {"NewBlock", "NewBlockHashes"}, b \in ChainBlocks : NodeWrites(t, Message(kind, b))
  /\ written' = written + 1
  /\ UNCHANGED <<rlpxt, header, is_connected, checking, published, overlapped, crashed>>
NodeAnswers(t) ==
  LET m == Head(rlpx[t].asked)
  IN /\ rlpx[t].tcp = "open" /\ rlpx[t].asked # <<>>
     /\ rlpx' = [rlpx EXCEPT ![t].unread = @ \o Sealed(rlpx[t].sealed, m), ![t].sealed = @ + 1,
                             ![t].asked = Tail(@)]
     /\ UNCHANGED <<rlpxt, header, is_connected, checking, written, published, overlapped, crashed>>

-----------------------------------------------------------------------------
(* A block from the network goes to the node, by way of the chain node     *)
(* that checks it when there is one.  Before the handshake is over it is   *)
(* sealed with secrets that are not there yet: anything may happen.        *)
SendToNode ==
  IF rlpxt = 0 \/ rlpx[rlpxt].tcp # "open" THEN UNCHANGED <<rlpx, crashed>>
  ELSE /\ rlpx' = [rlpx EXCEPT ![rlpxt] = seal(@)]
       /\ crashed' \in IF rlpx[rlpxt].keyed THEN {FALSE} ELSE BOOLEAN
did_recv_multicast ==
  /\ IF rlpxt # 0 /\ is_connected
     THEN checking < MaxChecks /\ checking' = checking + 1 /\ UNCHANGED <<rlpx, crashed>>
     ELSE SendToNode /\ UNCHANGED checking
  /\ UNCHANGED <<rlpxt, header, is_connected, written, published, overlapped>>
did_analyze_block_onramp ==
  /\ checking > 0 /\ checking' = checking - 1
  /\ SendToNode
  /\ UNCHANGED <<rlpxt, header, is_connected, written, published, overlapped>>
did_connect_abci ==   \* and did_disconnect
  /\ is_connected' = ~is_connected
  /\ UNCHANGED <<rlpx, rlpxt, header, checking, written, published, overlapped, crashed>>

-----------------------------------------------------------------------------
OnrampInit ==
  /\ rlpx = [t \in ChainNodes |-> NewRlpx] /\ rlpxt = 0
  /\ header = [block |-> None, covers |-> 0]
  /\ is_connected = FALSE /\ checking = 0
  /\ written = 0 /\ published = {} /\ overlapped = FALSE /\ crashed = FALSE

OnrampNext ==
  /\ ~crashed
  /\ \/ \E t \in ChainNodes : \E size \in 1 .. Len(rlpx[t].unread) : \E junk \in Decoded(t) : did_recv_rlpx(t, size, junk)
     \/ \E old \in BOOLEAN : did_create_transport(old)
     \/ \E t \in ChainNodes, error \in BOOLEAN : node_left(t, error)
     \/ \E t \in ChainNodes : did_close_rlpx(t) \/ NodeHello(t) \/ NodeSays(t) \/ NodeAnswers(t)
     \/ did_recv_multicast \/ did_analyze_block_onramp \/ did_connect_abci
OnrampSpec == OnrampInit /\ [][OnrampNext]_onrampVars

-----------------------------------------------------------------------------
(* However the stream is cut into chunks, every frame of the node is read  *)
(* and none is refused - unless the first chunk happened to have the size  *)
(* of the old first message and was not it, or was a part of it only       *)
(* (bytes.size() == 307 in RlpxTransport::did_recv).                       *)
FramesAsSent ==
  \A t \in ChainNodes : ~rlpx[t].guessed =>
    /\ ~rlpx[t].failed
    /\ rlpx[t].tcp = "open" /\ rlpx[t].unread = <<>> /\ rlpx[t].sealed > 0 =>
         rlpx[t].got = rlpx[t].sealed - 1

(* The transport that blocks are sent to still has its TcpTransport, and   *)
(* it is the node's only connection when the node has never had two at a   *)
(* time: any transport that closes resets rlpxt (OnRamp::did_close).       *)
NodePointerLive ==
  /\ rlpxt # 0 => rlpx[rlpxt].tcp \in {"open", "closing", "broken"}
  /\ ~overlapped => \A t \in ChainNodes : rlpx[t].tcp = "open" => rlpxt = t

(* A block put together from a headers and a bodies message is of one      *)
(* block, and its header was stripped of its prefix once: whatever was     *)
(* announced meanwhile, and wherever an earlier connection ended - unless  *)
(* the node had two at a time (OnRamp::header).                            *)
BlocksWhole ==
  ~overlapped => \A p \in published : p.header = p.body /\ p.covers = 1
=============================================================================
