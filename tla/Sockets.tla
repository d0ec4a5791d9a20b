------------------------------ MODULE Sockets ------------------------------
(***************************************************************************)
(* The transports that own the sockets of libuv, and the callbacks that    *)
(* find their owner through a raw pointer.  Three ways to use them:        *)
(*                                                                         *)
(* "udp"     UdpTransportFactory: one socket, a UdpTransport per address;  *)
(*           close() erases the transport at once, with sends under way.   *)
(* "tcp"     TcpTransportFactory: a socket per TcpTransport; close() lets  *)
(*           libuv finish, the close callback erases the transport.        *)
(* "server"  TcpServerFiber over a MappingFiber of TcpInFibers: a fiber    *)
(*           per address, never erased, that takes over any new socket.    *)
(*                                                                         *)
(* libuv calls back one at a time.  It sends and writes in order; on close *)
(* it first hands back the writes that were not done, then the handle.     *)
(***************************************************************************)
EXTENDS Integers, Sequences, SequencesExt

CONSTANTS
  Modes,          \* the uses to look at ("none": none of them)
  Addrs,          \* addresses of peers
  MaxHandles, MaxSends, MaxMade   \* bounds: TCP handles, sends, transports made

ASSUME SocketsAssumption ==
  Modes \subseteq {"udp", "tcp", "server", "none"} /\ {MaxHandles, MaxSends, MaxMade} \subseteq Nat

VARIABLES
  mode,
  transport,   \* transport_map, or fibers of MappingFiber: by address
  handle,      \* handle[h]: a uv_tcp_t and its data
  writes,      \* the uv_udp_send_t under way, oldest first; of handle h, writes[h]
  made, sends, \* transports constructed and sends so far; both name what they count
  again,       \* history: a peer connected again over a connection of its own
  aborted      \* a handle was closed twice, or something freed was used: all ends

socketVars == <<mode, transport, handle, writes, made, sends, again, aborted>>

Handles == 1 .. MaxHandles
Udp == 0    \* the one socket of a UdpTransportFactory
NoTransport == [n |-> 0, socket |-> 0, pending_req |-> <<>>, refused |-> FALSE]
NoHandle == [st |-> "none", data |-> 0, addr |-> 0]
Live == {a \in Addrs : transport[a].n # 0}
Owners == {transport[a].n : a \in Live}
OwnerAt(n) == CHOOSE a \in Live : transport[a].n = n
Fresh == {h \in Handles : handle[h].st = "none" /\ \A g \in 1 .. h - 1 : handle[g].st # "none"}

(* TransportManager::get_or_create.                                        *)
get_or_create(a, socket) ==
  IF transport[a].n # 0 THEN UNCHANGED <<transport, made>>
  ELSE /\ made < MaxMade
       /\ made' = made + 1
       /\ transport' = [transport EXCEPT ![a] = [NoTransport EXCEPT !.n = made + 1, !.socket = socket]]
erase(a) == transport' = [transport EXCEPT ![a] = NoTransport]

-----------------------------------------------------------------------------
(* UDP.  dial() and recv_cb() find or create the transport; a datagram that*)
(* should_accept() refuses is dropped: nothing changes.                    *)
udp_dial(a) ==
  /\ mode = "udp" /\ transport[a].n = 0
  /\ get_or_create(a, Udp)
  /\ UNCHANGED <<mode, handle, writes, sends, again, aborted>>
udp_recv_cb(a) ==
  /\ mode = "udp" /\ transport[a].n = 0
  /\ get_or_create(a, Udp)
  /\ UNCHANGED <<mode, handle, writes, sends, again, aborted>>

(* The request is noted before libuv takes it, or refuses it.              *)
udp_send_Late(a, taken) ==   \* slip: a request is noted only when libuv calls back
  /\ mode = "udp" /\ transport[a].n # 0 /\ sends < MaxSends
  /\ sends' = sends + 1
  /\ transport' = [transport EXCEPT ![a].refused = @ \/ ~taken]
  /\ writes' = IF taken THEN [writes EXCEPT ![Udp] = Append(@, [id |-> sends + 1, owner |-> transport[a].n])]
                        ELSE writes
  /\ UNCHANGED <<mode, handle, made, again, aborted>>
udp_send(a, taken) ==
  /\ mode = "udp" /\ transport[a].n # 0 /\ sends < MaxSends
  /\ sends' = sends + 1
  /\ LET t == transport[a]
     IN transport' = [transport EXCEPT ![a] =
          [t EXCEPT !.pending_req = Append(t.pending_req, sends + 1), !.refused = t.refused \/ ~taken]]
  /\ writes' = IF taken THEN [writes EXCEPT ![Udp] = Append(@, [id |-> sends + 1, owner |-> transport[a].n])]
                        ELSE writes
  /\ UNCHANGED <<mode, handle, made, again, aborted>>

(* A send is done: its transport takes the first request off its list.     *)
udp_send_cb ==
  /\ mode = "udp" /\ writes[Udp] # <<>>
  /\ writes' = [writes EXCEPT ![Udp] = Tail(@)]
  /\ LET owner == Head(writes[Udp]).owner
     IN CASE owner = 0 -> UNCHANGED <<transport, aborted>>
          [] owner \in Owners ->
               /\ transport' = [transport EXCEPT ![OwnerAt(owner)].pending_req = Tail(@)]
               /\ UNCHANGED aborted
          [] OTHER -> aborted' = TRUE /\ UNCHANGED transport
  /\ UNCHANGED <<mode, handle, made, sends, again>>

udp_close(a) ==
  /\ mode = "udp" /\ transport[a].n # 0
  /\ writes' = [writes EXCEPT ![Udp] = [n \in DOMAIN @ |->
                  IF @[n].id \in {transport[a].pending_req[k] : k \in DOMAIN transport[a].pending_req}
                  THEN [@[n] EXCEPT !.owner = 0] ELSE @[n]]]
  /\ erase(a)
  /\ UNCHANGED <<mode, handle, made, sends, again, aborted>>

-----------------------------------------------------------------------------
(* TCP.  dial() connects the factory's socket and makes itself another.    *)
tcp_dial(a) ==
  /\ mode = "tcp"
  /\ \E h \in Fresh : handle' = [handle EXCEPT ![h] = [st |-> "dialing", data |-> 0, addr |-> a]]
  /\ UNCHANGED <<mode, transport, writes, made, sends, again, aborted>>

(* did_create_transport calls setup(): the socket of the transport, which  *)
(* is not always the one that just connected, points to it and is read.    *)
setup(a, h) ==
  LET socket == IF transport[a].n = 0 THEN h ELSE transport[a].socket
      n == IF transport[a].n = 0 THEN made + 1 ELSE transport[a].n
  IN [handle EXCEPT ![h].st = "open", ![h].addr = a, ![socket].data = n]

(* A dial that failed keeps its socket; one to an address that has a       *)
(* transport leaves its socket open and unread.                            *)
tcp_dial_cb(h, ok) ==
  LET a == handle[h].addr
  IN /\ mode = "tcp" /\ handle[h].st = "dialing"
     /\ IF ~ok THEN handle' = [handle EXCEPT ![h].st = "failed"] /\ UNCHANGED <<transport, made>>
        ELSE /\ get_or_create(a, h)
             /\ handle' = IF transport[a].n = 0 THEN setup(a, h) ELSE [handle EXCEPT ![h].st = "open"]
     /\ UNCHANGED <<mode, writes, sends, again, aborted>>

tcp_connection_cb(a, should_accept) ==
  /\ mode = "tcp"
  /\ \E h \in Fresh :
       IF should_accept THEN get_or_create(a, h) /\ handle' = setup(a, h)
       ELSE /\ handle' = [handle EXCEPT ![h] = [st |-> "closing", data |-> 0, addr |-> a]]
            /\ UNCHANGED <<transport, made>>
  /\ UNCHANGED <<mode, writes, sends, again, aborted>>

(* On a handle that is closing send() only returns the error.              *)
tcp_send(a) ==
  LET h == transport[a].socket
  IN /\ mode = "tcp" /\ transport[a].n # 0 /\ sends < MaxSends /\ handle[h].st = "open"
     /\ writes' = [writes EXCEPT ![h] = Append(@, [id |-> sends + 1, owner |-> transport[a].n])]
     /\ sends' = sends + 1
     /\ UNCHANGED <<mode, transport, handle, made, again, aborted>>
tcp_send_cb(h) ==   \* of the transport, and of the fiber
  /\ mode \in {"tcp", "server"} /\ writes[h] # <<>>
  /\ writes' = [writes EXCEPT ![h] = Tail(@)]
  /\ aborted' = (Head(writes[h]).owner \notin Owners)
  /\ UNCHANGED <<mode, transport, handle, made, sends, again>>

(* uv_close; a handle that is closing or gone aborts.                      *)
tcp_close_AtOnce(h) ==   \* slip: the transport is erased at once, as in UdpTransport::close
  /\ handle' = [handle EXCEPT ![h].st = "closing"]
  /\ aborted' = (handle[h].st # "open")
  /\ IF mode = "tcp" THEN erase(handle[h].addr) ELSE UNCHANGED transport
tcp_close(h) ==
  /\ handle' = [handle EXCEPT ![h].st = "closing"]
  /\ aborted' = (handle[h].st # "open")
  /\ UNCHANGED transport

(* The owner closes once.  The end of a stream closes the handle of the    *)
(* owner that the stream's handle points to; an error is only logged.      *)
ClosedByOwner(a) ==
  /\ mode \in {"tcp", "server"} /\ transport[a].n # 0 /\ handle[transport[a].socket].st = "open"
  /\ tcp_close(transport[a].socket)
  /\ UNCHANGED <<mode, writes, made, sends, again>>
CloseOwnerOf(h) ==
  /\ handle[h].st = "open" /\ handle[h].data \in Owners
  /\ tcp_close(transport[OwnerAt(handle[h].data)].socket)
tcp_recv_cb(h) ==
  /\ mode = "tcp" /\ CloseOwnerOf(h)
  /\ UNCHANGED <<mode, writes, made, sends, again>>
tcp_close_cb(h) ==
  /\ handle[h].st = "closing" /\ writes[h] = <<>>
  /\ handle' = [handle EXCEPT ![h].st = "closed"]
  /\ IF mode = "tcp" /\ handle[h].data # 0
     THEN IF handle[h].data \in Owners THEN erase(OwnerAt(handle[h].data)) /\ UNCHANGED aborted
                                       ELSE aborted' = TRUE /\ UNCHANGED transport
     ELSE UNCHANGED <<transport, aborted>>
  /\ UNCHANGED <<mode, writes, made, sends, again>>

-----------------------------------------------------------------------------
(* TcpServerFiber hands a connection to MappingFiber, which finds or makes *)
(* the TcpInFiber of the address: that takes the new handle for its own.   *)
Fiber(a) == IF transport[a].n = 0 THEN made + 1 ELSE transport[a].n
fiber_did_dial(a, h) ==
  /\ handle' = [handle EXCEPT ![h] = [st |-> "open", data |-> Fiber(a), addr |-> a]]
  /\ transport' = [transport EXCEPT ![a].n = Fiber(a), ![a].socket = h]
server_connection_cb(a) ==
  /\ mode = "server" /\ Fiber(a) <= MaxMade
  /\ \E h \in Fresh : fiber_did_dial(a, h)
  /\ made' = IF Fiber(a) > made THEN Fiber(a) ELSE made
  /\ again' = IF \E h \in Handles : handle[h].addr = a /\ handle[h].st \in {"open", "closing"}
              THEN again \cup {a} ELSE again
  /\ UNCHANGED <<mode, writes, sends, aborted>>

(* A send that libuv refuses, and the end of a stream or an error on it,   *)
(* close the fiber's handle.                                               *)
fiber_send(a) ==
  LET h == transport[a].socket
  IN /\ mode = "server" /\ transport[a].n # 0 /\ sends < MaxSends
     /\ \/ /\ handle[h].st = "open"
           /\ writes' = [writes EXCEPT ![h] = Append(@, [id |-> sends + 1, owner |-> transport[a].n])]
           /\ sends' = sends + 1
           /\ UNCHANGED <<transport, handle, aborted>>
        \/ handle[h].st # "open" /\ tcp_close(h) /\ UNCHANGED <<writes, sends>>
     /\ UNCHANGED <<mode, made, again>>
fiber_recv_cb(h) ==
  /\ mode = "server" /\ CloseOwnerOf(h)
  /\ UNCHANGED <<mode, writes, made, sends, again>>

-----------------------------------------------------------------------------
SocketsInit ==
  /\ mode \in Modes
  /\ transport = [a \in Addrs |-> NoTransport]
  /\ handle = [h \in Handles |-> NoHandle]
  /\ writes = [h \in {Udp} \cup Handles |-> <<>>]
  /\ made = 0 /\ sends = 0 /\ again = {} /\ aborted = FALSE

SocketsNext ==
  /\ ~aborted
  /\ \/ \E a \in Addrs : \/ udp_dial(a) \/ udp_recv_cb(a) \/ udp_close(a) \/ tcp_dial(a) \/ tcp_send(a)
                         \/ ClosedByOwner(a) \/ server_connection_cb(a) \/ fiber_send(a)
     \/ \E a \in Addrs, yes \in BOOLEAN : udp_send(a, yes) \/ tcp_connection_cb(a, yes)
     \/ udp_send_cb
     \/ \E h \in Handles : \/ tcp_send_cb(h) \/ tcp_close_cb(h) \/ tcp_recv_cb(h) \/ fiber_recv_cb(h)
                           \/ \E ok \in BOOLEAN : tcp_dial_cb(h, ok)
SocketsSpec == SocketsInit /\ [][SocketsNext]_socketVars

-----------------------------------------------------------------------------
(* A UDP request that libuv still holds names a transport that exists, or  *)
(* none; and a transport that closes looks only at requests that libuv has *)
(* not yet freed, each once and in the order they were sent, unless libuv  *)
(* ever refused it one.                                                    *)
SendsOwned ==
  mode = "udp" =>
    /\ ~aborted
    /\ \A k \in DOMAIN writes[Udp] : writes[Udp][k].owner \in Owners \cup {0}
    /\ \A a \in Live :
         LET pending == transport[a].pending_req
             held == {k \in DOMAIN writes[Udp] : writes[Udp][k].owner = transport[a].n}
         IN \/ transport[a].refused
            \/ /\ {pending[i] : i \in DOMAIN pending} = {writes[Udp][k].id : k \in held}
               /\ \A i, j \in DOMAIN pending : i < j => pending[i] < pending[j]

(* A TCP handle that libuv may still call back for, and every write under  *)
(* way on it, leads to a transport that exists and has that very handle -  *)
(* for a fiber, unless its peer connected again over a connection that was *)
(* still there - and no transport is left with a handle that is gone.      *)
CallbacksFindOwner ==
  mode \in {"tcp", "server"} =>
    /\ \A h \in Handles :
         LET named == {writes[h][k].owner : k \in DOMAIN writes[h]} \cup
                      (IF handle[h].st \in {"open", "closing"} THEN {handle[h].data} \ {0} ELSE {})
         IN \A n \in named : /\ n \in Owners
                             /\ transport[OwnerAt(n)].socket = h \/ handle[h].addr \in again
    /\ mode = "tcp" => /\ ~aborted
                       /\ \A a \in Live : handle[transport[a].socket].st \in {"open", "closing"}
=============================================================================
