# OpenWeaver in TLA+

TLA+ models of OpenWeaver (`src/`), the TLC runs that check them on small
instances and the theorems TLAPS proves about them.  `PROJECT.json` maps every
definition to the lines it models, lists the runs, and for every checked
property a mutant: a plausible slip in the code (the operators marked `slip`)
that makes the property fail.

Run in this directory:

    tlc -workers 2 -config ConnSafety.cfg MCStreamConnection
    tlapm StreamData_proofs.tla

## 1. The system

OpenWeaver relays blocks and messages between nodes of blockchain networks.  A
node is one single-threaded libuv event loop; all concurrency is between the
nodes, the bytes and datagrams between them, the timers, and the callbacks libuv
still owes.  The parts, bottom up:

| part | source | state it keeps | operations |
|---|---|---|---|
| UDP, TCP, pipes, timers | `asyncio/` | transports per socket or per address, pending sends, handles and the pointers in them | `dial`, `listen`, `send`, `close`, `recv_cb`, `send_cb`, `close_cb`, `dial_cb`; reconnecting with back-off |
| core | `core/` | buffers, addresses, transport maps, framing fibers | byte access, `get_or_create`, `erase`, framing by length, line or prefix |
| stream transport | `stream/` | connection state and ids, timers, send and receive streams, sent and lost packets, window, ack ranges | `did_dial`, `send`, `close`, `skip_stream`, `flush_stream`, `did_recv_*`, `*_timer_cb` |
| stream fiber | `stream/` | the same, in one object that outlives its connections | the same, and `reset` |
| lpf | `lpf/` | one length-prefix buffer per stream, ids of cut-through messages | `send`, `cut_through_send_*`, `did_recv`, flush and skip |
| pubsub | `pubsub/` | channels, solicited and unsolicited connections, potential peers, blacklist, seen message ids, cut-through maps | `subscribe`, `send_message_on_channel`, `did_recv`, `cut_through_recv_*`, `did_close`, periodic timers |
| attesters, witnessers | `pubsub/.../attestation`, `witness` | keys, stake cache | `attest`, `verify`, `witness`, `contains` |
| beacon | `beacon/` | registered peers with expiry times, clusters | `DISCPROTO`, `LISTPROTO`, `DISCPEER`, `LISTPEER`, `HEARTBEAT`, `REG` |
| chain adapters | `abci/`, `integrations/` | request ids, blocks asked about, parser state | `connect`, `analyze_block`, `did_recv`, `did_disconnect` |
| RLPx and onramps | `rlpx/`, `integrations/` | handshake state, chains of MACs, headers of the last block | `did_recv`, `send`, blocks from the network to the node and back |
| relay, multicast client | `relay/`, `multicastsdk/` | peer selection | `manage_subscriptions` |
| simulator | `simulator/` | event queue, timers, simulated network | `run`, `start`, `stop`, `dial`, `send`, `did_recv` |

They are stacked by templates: a datagram handed up by `UdpTransportFactory`
goes through `StreamTransport` (its delegate), `LpfTransport` and `PubSubNode`;
calls go down the same way, and `did_close` runs up the stack and makes every
layer's transport manager forget the transport.  The newer fibers are stacked the
same way (`TcpOutFiber`, `LengthBufferFiber`, ...).  A node finds its peers through
the beacons, and asks a chain node whether to relay what they send.

What is hard: datagrams are lost, duplicated and reordered; byte streams are cut
anywhere; both sides may dial or close at once; one state timer serves several
states; retransmissions, skips and flushes race acks that are still on their way;
answers come back after whoever asked has gone; counters and clocks are unsigned;
callbacks find their owner through a raw pointer.  `PROJECT.json` lists each such
hazard at its line, with the properties that cover it.

What makes the parts correct:

- connection control: an established connection is mutual, both ends agree on
  its ids, stale packets do not disturb it; dials and closes come to an end;
- data plane: bytes arrive in order, none is missed that was not flushed, what
  is acked was received, books of bytes and packets stay exact, everything queued
  is delivered unless the connection is given up;
- stream fiber: nothing of one connection reaches the next one;
- simulator: what happens is what was scheduled, at its time and in order;
- LPF: message boundaries survive; a cut-through id belongs to one message;
- PubSub: a message is begun once to every subscriber, ends of a connection agree
  on who publishes, closed transports vanish from every list;
- discovery: who is listed has been heard of in time and who lives is listed, and
  a relay is announced under its cluster and its key;
- requests: an answer is taken for the request it answers, and only what was
  accepted is relayed;
- sockets: a callback finds the transport its handle belongs to;
- onramps: what is sealed is read as it was sent, and a block is published whole.

## 2. The modules

Connections and streams.

`StreamConnection` - connection control of `StreamTransport` at two peers.
`conn[p]` is the transport peer `p` keeps for the other one: the code's
`conn_state`, `src_conn_id`, `dst_conn_id`, `dialled` and the state timer with its
interval; `"None"` means that the transport manager has no entry.  Every
handler (`did_recv_DIAL`, `did_recv_DIALCONF`, `did_recv_CONF`, `did_recv_RST`,
the part of `did_recv_DATA` before the streams, and the common checks of the ack,
skip and flush handlers), every timer callback (`dial_timer_cb`,
`close_timer_cb`) and every call (`did_dial`, `close`, `send`) is one action.
`Transport(p)` is the `get_or_create` of `UdpTransportFactory`; `Gone` is
`reset(); transport.close()` with the `did_close` chain behind it.  `Abort` stands
for the resets of the data timers, at any time in Established.  Ids are fresh
numbers where the code draws 32 random bits: collisions are not modelled.  The
network is a set of datagrams; `Duplicates` keeps a received datagram in it.
`paired` is a history variable, read by no action.  CLOSE falls into the default
case of `did_recv` as it does in the code: `did_recv_CLOSE` and
`did_recv_CLOSECONF` are never called.

`StreamData` - the data plane on one established connection: the sender's half
of one peer, the receiver's half of the other.  Bytes are offsets in their
stream.  `log` records what each packet number carried, so a `DATA` datagram is
its number; `sent_packets` and `lost_packets` are the keys of the code's maps.
`send`, `pacing_timer_cb`, `tlp_timer_cb`, `ack_timer_cb`, `flush_stream`,
`flush_timer_cb`, `skip_stream`, `skip_timer_cb` and the five `did_recv_*` handlers
are one action each, with everything they call: a pacing round is
`send_lost_data` and `send_new_data` on every queued stream up to the first packet
the pacing limit or the window stops.  Choices the code makes by the clock are
free: which prefix of the packets sent before the largest acked one is lost
(`LostPrefixes`), and where in `Cwnds` the window moves, but down only on a
loss and up only on an ack.  `done_queueing` is never set by the code, so no
packet is a FIN.  A delegate that refuses bytes (`did_recv` below 0) does so after
it closed the transport, which ends the behaviour; that path is left out.
Buffers of size 0 are not sent.

`AckRanges` - the run-length list of seen and unseen packet numbers
(`add_packet_number`), its limit, the head of it that an ACK carries and what the
range walk of `did_recv_ACK` reads out of it (`Seen`).  `StreamData` and
`StreamFiber` keep such a list as their `ack_ranges`; `AckRangesExact` compares it
with the history of what arrived.

`ReliableStream` - what the data plane promises, per stream: bytes are written,
flushed, handed over in order or skipped, and only flushed bytes are skipped.
`StreamData!ImplementsReliableStream` is the refinement.

`StreamFiber` - the second copy of the transport, in the fiber style: handshake,
streams, acks, loss, flush and skip, close, and `reset` in one module, at two ends,
because what it adds is what happens across connections: a `MappingFiber` keeps the
object, `reset` puts it back to Listen, and the next connection runs on it while
datagrams of the earlier one are under way.  A packet carries one byte whose content
is the connection it was written on; where pacing and the window stop a round is
free (`StreamData` has the arithmetic).

`Simulation` - the simulator the transports run on in tests and examples, in the place
of libuv: `queue` holds the events by tick, `next_event` is the body of `run()` up to the
callbacks and `event_done` what follows them, and while `running` names an event the
application may start and stop timers, dial, send and close.  The event that runs is still in the queue: it is
the clock.  `AsScheduled` is about what the code gets from that order.

Byte streams, sockets and the node's clients.

`LpfBuffer` - length-prefix framing on one stream, under either buffer of
`LpfTransport`: `StoreThenForwardBuffer` and `CutThroughBuffer` have the same
structure, so one module stands for both; `kind` says which.  One recursive call of
the buffers' `did_recv` is one action: part of a prefix, a prefix that becomes
complete, part of a message, a message that becomes complete, a message the
delegate refuses.  Bytes are positions in what was written, so that what is handed
over can be compared with it.  `did_recv_flush_stream` erases the buffer.

`Sockets` - who owns libuv's handles, in three uses: `UdpTransportFactory` (one
socket, `close` erases the transport while sends are under way),
`TcpTransportFactory` (a socket per transport, erased by the close callback), and
`TcpServerFiber` with a `MappingFiber` of `TcpInFiber`s (a fiber per address that takes
over any new socket).  `transport` is the map by address, `handle[h]` a `uv_tcp_t`
with its `data` pointer, `writes` the requests under way.  `aborted` marks the
uses after free and double closes the code runs into; a behaviour ends there.

`Rpc` - the node as a client.  A chain adapter, `Abci` of eth (bsc is the same code),
cosmos or matic, over the reconnecting `PipeTransport`, `RcTcpTransport` or
`RcTcpOutFiber`: `did_recv_MESSAGE` remembers a block and asks about it, answers come
back in pieces, `connect_timer_cb` and `connect_cb` reconnect with back-off, and
`PeerLeaves` takes away whom the block came from.  `StakeRequester` and `Grapher`
make an HTTP query each time their timer fires (`query`, `dns_cb`, `dial_cb`), each
on a `TcpOutFiber` of its own but with one parser state for all.  The framing fibers
(`LengthBufferFiber`, `SentinelBufferFiber`, ...) are part of it.  Tokens stand for
bytes; `recv_cb` takes any prefix of what has arrived.

`Onramp` - `OnRamp` of matic over `RlpxTransport`: the accepting side of the
handshake, the reading of sealed headers and frames chunk by chunk (`did_recv_rlpx`),
and the way of blocks from the multicast network to the node and from the node's
announcements to the network.  Of `RlpxCrypto` only what it accepts: a message that
is whole and the next in its chain of MACs.  A length read out of other bytes is any
of `Junk`.

PubSub and discovery.

`CutThrough` - one `PubSubNode` that relays large messages over its
`LpfTransport`s.  `reserve` and `used` are `cut_through_reserve_ids` and
`cut_through_used_ids` of each transport, `relays` is `cut_through_map` with
`cut_through_header_recv`; `message_id_set`, `message_id_events` and
`message_id_idx` are the code's.  `Header` is the first call of
`cut_through_recv_bytes` for a message (known, not verifiable, or to be relayed),
`Bytes` a later one with the `cut_through_recv_end` that follows the last; besides,
`cut_through_recv_start`, `cut_through_recv_flush`, `did_recv_flush_conf`, the
publication of an own message, `close`, `did_close` and `message_id_timer_cb`.  The
length-prefix buffer below is abstracted to the number of pieces still missing,
the stream to what its reader is in the middle of (`stream`): what `ReliableStream`
and `LpfBuffer` promise.  The verdict of the attester and the peers a witness
names are constants.  `age` and `copies` are history variables.

`PubSubConns` - who publishes to whom: `conn_map`, `unsol_conns` and `blacklist_addr`
of several `PubSubNode`s, with `subscribe`, `did_dial`, `did_recv_SUBSCRIBE`,
`did_recv_UNSUBSCRIBE`, `did_close`, the two timers, and `manage_subscriptions` of
`Relay`.  Which peer has the best and the worst round trip time is a free choice.
A connection is two ends (`link`): the handshake is one step (it is
`StreamConnection`'s subject), the end of it is one step at each node, because no
CLOSE is heard: a node learns of it by an RST or by silence.  Hence the reason that
`close(1)` gives never reaches `did_close`, and `blacklist_addr` stays empty; the
code for it is in the model all the same.  `dangling` counts the pointers in
`unsol_conns` whose transport was deleted.

`Discovery` - `DiscoveryServer` (beacon), `DiscoveryClient` and `ClusterDiscoverer`
over UDP.  A signed `REG` carries the sender's clock, a `HEARTBEAT` does not; a beacon's timer
drops who was not heard of in time; `LISTPEER` and `LISTPROTO` come in pages; a beacon
may be registered with another one, under a client key.  `now` counts heartbeat
intervals; clocks are skewed and wrap at `Word`.

Instances and composition.  `MCStreamConnection`, `MCStreamData`,
`MCPubSubConns`, `MCCutThrough` and `MCDiscovery` are the instances of one module each.
`MCStreamFiber` is that of `StreamFiber`, and of `Simulation` in the scenario without a
stream.
`MCNodeIO` puts `LpfBuffer`, `Rpc`, `Sockets` and `Onramp` side by side: a behaviour
is one of them while the others rest, since these parts of a node share no state.
The theorems are in modules of their own, named after the component:
`StreamConnection_proofs`, `AckRanges_proofs`, `StreamData_proofs`, `CutThrough_proofs`,
`StreamFiber_proofs` (about `StreamFiber` and `Simulation`), `Discovery_proofs`,
`Rpc_proofs` and `Node_proofs` (about `PubSubConns`, `Sockets`, `LpfBuffer` and
`Onramp`).

How they fit together: `StreamConnection` gives a connection, `StreamData` with
`AckRanges` implements `ReliableStream` on it; `Sockets` is what is under both;
`LpfBuffer` finds messages in the bytes; `CutThrough` moves pieces of messages between
such streams; `PubSubConns` decides which streams there are, among the peers
`Discovery` finds; `Rpc` and `Onramp` are where blocks enter and leave.

## 3. The runs

| run | question | bounds |
|---|---|---|
| `conn_safety` | are connections mutual, agreed, unharmed by stale packets? | both peers dial, close and send; 3 ids; every datagram may arrive any number of times, in any order |
| `conn_liveness` | do dials and closes come to an end? | one peer dials and closes; 4 ids; a loss |
| `data_safety` | are the books exact and is the stream reliable, without flushes? | 2 streams, buffers of 2 and 3 bytes, 3 bytes at most on each, fragments of 2, 5 packets, two window sizes, duplicates and reordering |
| `data_flush_safety` | do the books survive a flush and a skip? | one of each, 2 bytes, 4 packets, duplicates and reordering |
| `data_liveness` | is everything delivered? | 3 bytes, 10 packets, two losses |
| `flush_in_flight` (violated) | is `bytes_in_flight` exact after a flush? | no loss, one flush |
| `stream_fiber` | does anything of one connection reach the next? does the simulator do what was scheduled? | seven scenarios (`MCScenarios`): two connections with a byte sent again, with two bytes, with bytes both ways, with both ends dialling; one connection with two bytes sent again, with a flush or a skip; duplicates and reordering. Or the simulator: a transport factory and a fiber on an interface each, two timers of one or two ticks that repeat or not, 3 events |
| `node_io` | is what the node reads what was written, and do callbacks find their owner? | see below |
| `pubsub_conns` | do nodes know whom they publish to? | 4 nodes of which two pairs solicit each other and one node serves two; room for one peer in each list; one close or failure, any number of refusals |
| `cut_through` | do ids, framing and deduplication survive relaying? | 2 peers, one subscribed and one that also sends; 2 stream ids, 3 messages of 2 pieces, one not verifiable; 2 slots and ticks, a flush, an own message |
| `discovery_registry` | is who stopped forgotten, whatever the clocks? | a root beacon, a beacon and a relay; delays of up to 3 intervals, duplicates, clocks ahead and behind, a word of 8; 5 intervals; one stop or loss |
| `discovery_clusters` | is what is announced right, and is who lives announced? | root, two cluster beacons, two relays, one cluster discoverer; pages of 1 entry; prompt network; 3 intervals; one stop or loss |

`node_io` looks at one of these in a behaviour:

- LPF: up to 3 messages of 0 to 3 bytes, one of them too long; a prefix of 2 bytes of
  base 2; any cut, any flush, both buffers (`HandedIsSent`);
- a chain adapter of each kind: 3 blocks, one refused by the chain node, an external
  and an internal peer, ids of 2 digits of base 2, two connections; or 3 queries of
  either HTTP client, room for 3 bytes in a header line (`OnlyAcceptedRelayed`,
  `BooksExact`, `OneAttempt`, `StakesFollow`);
- each use of sockets: 2 addresses, 3 handles, 4 sends, 3 transports (`SendsOwned`,
  `CallbacksFindOwner`);
- an onramp: 2 blocks, 2 connections of the node, 2 frames besides its hello and its
  answers, first messages of 4 units in the new form and 3 in the old one, lengths of 1
  and 4 out of other bytes (`FramesAsSent`, `NodePointerLive`, `BlocksWhole`).

Why these bounds are enough to be of interest.  Three ids allow an old
connection, its successor and a stale third attempt; timers fire twice before
they abort, so both the retry and the abort happen.  Buffers that are not a
multiple of the fragment give a short last fragment; five packets allow the
fragments of both streams to be lost, sent again and acked late, under numbers the
streams share.  `MaxAckRanges` 3 makes the cut of the ack ranges happen, `MaxRanges` 3
(in `data_safety`) the forgetting of old ones.  `Word` 16 is the width of the unsigned
counter: large enough to tell a wrapped value from any honest one.
In `pubsub_conns` lists of one peer are full at once, so that refusals, demotions and
the reserve happen all the time; the pairs make both nodes dial.  `MaxQueue` only
holds back the timer of peer selection while messages pile up.  In `cut_through` two
ids allow two messages on one subscriber and the exhaustion of ids; two slots make an
id return after it was forgotten.  There only subscribers close, and a peer whose message does not verify; item 3 below
says what happens otherwise.  In the registry the expiry time is shorter
than the delay, so datagrams arrive from who is long gone; the word is small enough
for the clocks to wrap within the run.  Among the clusters a page of one entry makes
every list of two a list of two datagrams.  In `node_io` two connections let the
remains of one meet the next, three handles let a peer come back while its old socket
closes and another one is open.
`CHECK_DEADLOCK FALSE`: a system whose bounds are used up, or that gave up, stops.

`PromptNetwork` restricts `data_liveness` to networks where what is in flight arrives
before a retry timer (1 s and more) fires, which makes the retry limit meaningful.

Fairness.  `FairSpec` is weakly fair to the timer callbacks and to the reading of
the socket, at each peer: the event loop runs for ever, fires due timers and
polls the socket.  Nothing is assumed of the application or of losses, which
are only bounded.

What contradicts the source's own comments or intent.

1. `flush_in_flight`: `flush_stream` subtracts lost packets from `bytes_in_flight`
   again; the counter wraps and the window stays shut.
2. `PubSubListsLive.cfg` (with `MCPubSubConns`) refutes `ListsAreLive`:
   `PubSubNode::did_close` takes a transport out of `unsol_conns` inside its loop over
   `conn_map`, so a node that has solicited nobody keeps the pointer.
3. `CutThroughClose.cfg` (with `MCCutThrough`, where the sender closes) refutes
   `ClosedAreFlushed`: `PubSubNode::did_close` looks for the messages to flush under the
   ids used towards the peer, not those the peer sends on; the subscribers stay in the
   middle of the message.  `CutThroughStale.cfg` (a peer that has relayed a message
   closes) refutes `WellFramed`: nothing takes the entry of a message that ended out of
   `cut_through_map`, so the same lookup may find an old entry and flush its streams,
   which carry other messages by now.

The configurations of the last two are to run by hand; no run of the list depends on them.

Limits of the code met while modelling.  The models have them, except where it
says otherwise, and the properties say what holds in spite of them.

- Stream: `did_recv` has no case for CLOSE and CLOSECONF; after a simultaneous open
  nothing is retried from DialRcvd, so `DialResolves` is checked with one dialling
  peer.  A repeated FLUSHSTREAM carries the present `sent_offset`, is not confirmed
  when the receiver is already past it, and leaves data waiting in `recv_packets`; so
  `LosslessStaysUp`, `AllDelivered` and the refinement are checked without flushes.
- LPF and PubSub: `cut_through_send_start` keeps an id when the length cannot be queued
  (not modelled); two nodes that solicit each other may forget one of the two
  subscriptions, or publish to each other twice.
- Chain adapters: cosmos' parser is not reset by an error or a disconnect and stops
  understanding answers; matic cut off inside a body takes the next headers for the
  rest of it; eth and bsc take each chunk for a whole document.  A request without an
  answer stays in `block_store` for ever.  A block that arrives while the chain node is
  away is remembered and dropped, and refused when it comes again.  eth and cosmos pass
  libuv a buffer that is freed when `send` returns: the request may be lost.
  `RcTcpTransport` and `PipeTransport` initialise an open handle again.  A read error, or an
  answer without a length, closes an adapter for good.
- HTTP clients: `Grapher` and `StakeRequester` keep one parser state for all their
  queries, so a query cut off in the middle leaves it to the next.
- Sockets: `send_cb` takes the oldest request whichever it is called for, so a send that
  libuv refused stays in `pending_req` and is touched after it was freed (`SendsOwned`
  leaves such transports out).  A failed dial leaves the socket open and the delegate
  uninformed; a dial to an address that has a transport leaves a socket unread; a read
  error is only logged.  `TcpInFiber::send` on a closing handle closes it twice, and the
  end of an old connection closes the new one of a peer that came back from the same
  address.
- Onramps: a first chunk of exactly 307 bytes decides the form of the handshake; a message
  that fails verification with bytes behind it makes `did_recv` call itself for ever
  (`crashed`); blocks sent before the handshake is over are sealed without keys and
  spoil the chain of MACs (`unkeyed`); the close of any transport resets `rlpxt`; with two
  connections of a node (`overlapped`) a body may be put behind the headers of the other.
- Discovery: a relay that sends its heartbeats to several beacons is announced under the
  one whose list came last (`beacon_map` has one entry for an address), and a beacon whose
  clock is off by more than the window of `did_recv_REG` is not listed, so
  `AnnouncedInTime` speaks of relays with one beacon and of clocks that agree (`HeardBy`,
  `ClocksAgree`).  A seeker restarted between LISTPEER and LISTPROTO announces a relay with a zero
  key; nothing but examples sends DISCCLUSTER and DISCADDR; the two-vector
  `start_discovery` of `ClusterDiscoverer` names members that do not exist.

## 4. The proofs

TLAPS checks the theorems below for every value of the constants that the
assumptions allow; the bounds of section 3 are TLC's only.  All have one shape: an
inductive invariant, a lemma for each action (or group of actions) that keeps it, and
the property as a consequence.  None of the properties is inductive as it stands; what
had to be added says why the code is right.

**Connection control** (`StreamConnection_proofs`), for any number of ids and losses,
any roles and timer settings, with and without duplicates: `TypeCorrect`,
`EstablishedOnlyMutually`, `PairedOnce`, `TimersFit`, `EstablishedAgree`,
`LiveNotReset`.  Assumed: there are two peers (`PeersAssumption`), which is no
restriction, as the code keeps one transport per remote address; the roles are
subsets of them, the bounds are numbers, the first timeouts are positive.  `IInv` adds

- `IdInv`: the ids a peer holds are older than `nextId`; the pair it holds is in
  its history; an id it has not yet paired is in no pair of its history; pairs
  older than its present id are made of older ids; an id has one partner;
- `StateInv`: which ids are set in which state, which timer runs;
- `MsgInv`: a DIALCONF, CONF, DATA or ACK in flight carries a pair its sender has
  held; all but a DIALCONF also one its receiver has held; an RST in flight is
  not about the pair its sender holds.

A step changes a transport's ids in one of four ways (`IdChange`): not at all, it
drops them, it takes a fresh one, or it learns the other side's.  `EstablishedAgree`
follows from the history: each end's pair is in the other's history, so each id is
the newest of its side.

**Ack ranges** (`AckRanges_proofs`), for any limits: `AddedExactly` says of every
well-formed list of runs what `add_packet_number` makes of it, and `CarriedIsSeen` what
an ACK may carry.  Assumed: `MaxRanges` is odd (1001 in the code; an even limit would
leave a gap at the end) and an ACK has room for a run.  Each case of
`add_packet_number` replaces a few runs in the middle of the list; the lemmas on sums show that the
runs below stay where they were.

**Data plane** (`StreamData_proofs`), for any streams, sizes, windows, limits and
numbers of packets, losses, flushes and skips: `TypeCorrect`, `AcksExact`,
`ArmedWhileWaiting`, `AckedAlwaysReceived`.  Assumed: sizes, the fragment and the pacing
limit are positive, each window holds a fragment (`SizesAssumption`), and the counter's
word is wider than all the bytes of the behaviour (`BoundsAssumption`: 64 bits in the
code).  `Base` is the invariant: the log only grows, packets lie within `sent_offset`
and are determined by their stream and offset, items are queued in order
(`InPlace`), a message in flight says what is or once was so, and what arrived was
handed over, skipped or kept.  A pacing round is the hard step: the lemmas on
`InOrder`, `Fragments` and `Unsent` show that the backlog is the lost packets, oldest
first, and then each stream's fragments in order, so that any number of them leaves
`sent_offset` between two fragments.

Three theorems are about behaviours without flushes, as their runs are:
`CounterExact`, `NothingHeldBack` and `KeepsThePromise`.  They are false with one
(`flush_in_flight` shows the counter; a late FLUSHSTREAM moves the receiver past data it
keeps).  `Calm` says what is so until the first flush, and is inductive with `Base`.
`KeepsThePromise` is the refinement, step by step: `send` is the write of
`ReliableStream`, `did_recv_DATA` its delivery (or nothing), giving up its reset, and
every other step is not seen by the two applications (`StepMaps`).

`LosslessAlwaysUp` is about behaviours that also lose and skip nothing, on a prompt
network, for any streams, windows and sizes, as long as `TlpAbort` is more than two
intervals (25 in the code; the property fails without the prompt network, where a late
ack is as good as lost).  `Steady` is its invariant: the probe's interval is 1, or it is 2
and an answer is coming (`AnswerComing`: a round that is due and has something to send, or a
packet or ack in flight, or the ack timer).  The probe fires only when no answer is coming, so it
fires once at most between two acks and never reaches the limit.  What it declares
lost must then really be sent: `FirstFits` shows that with nothing in flight the
counter is 0 and the first packet fits the window, and `HeadHasData` that the queue has
no stream in front with nothing to send.

**The sender's books** (`StreamData_proofs`), with flushes and skips:
`NothingForgotten` and `NothingDangles`.  Their invariant, `Books`, has for each stream
`Tiled` (what is in flight, lost or acked out of order does not overlap and covers
everything between `acked_offset` and `sent_offset`) and `Queue` (the queued items
hold all that is not acked, `sent_offset` is a boundary of fragments, and each packet
lies in an item).  The counting in `TrackedOnce` follows from the tiling.  A
retransmission takes the place of the packet it repeats; an ACK turns packets into
ranges and then moves `acked_offset` over those that touch it, which cannot cut a packet
since none overlaps.

**Stream fiber** (`StreamFiber_proofs`), for any scenario (which ends dial, close and
write, how many ids, bytes and packets), any timer settings, with and without
duplicates: `NothingAcrossAlways`, `AckedIsHeldAlways`, `TypesAlways`.  Assumed: there
are two ends, and `MaxRanges` is odd as above.  That ids are fresh is part of the model
(random 32-bit numbers in the code).  `Inv` has three layers.  `Base` is about each end
and each datagram alone: an end that is not established is `Untouched`, and whatever an
established one queues, keeps and sends bears its pair of ids.  This already gives
`NothingAcross`; `reset` is what makes it inductive.  `Plain` says that nothing is
skipped or flushed until the application calls for it.  `Linked` ties the two ends, and
`AckedIsHeld` needs all of it: while an end dials, nothing under its id is under way,
was taken or reported by the other end (`Unheard`), so that a new connection starts
from nothing although packet numbers start again at 0; DATA under its ids says
what the packet of that number carries (`DataTrue`); and what the other end has seen or
reports has reached it (`AcksTrue`).  `Moves` sums up what a step may do to one end (it
rests, dials or runs), `MovesInv` shows once that such a step keeps `Inv`, and a lemma
for each action shows that it is such a step.  As in the run, `AckedIsHeld` speaks of
behaviours without flush and skip, which count as acked what was given up.

**Simulator** (`StreamFiber_proofs`), for any timers, endpoints and numbers of events:
`AsScheduledAlways`.  `SimulationInvariant` says of the queue that it is in the order of
the ticks and that no two events have the same number; of what runs, that it is the
first event; of the timers, that each one asked for has the one event that names it, at
its time, and no other timer event is left; of the datagrams, that they are in the order
they were posted in and none is more than a tick after the first event, so that the
next one posted goes behind all of them.

**Cut-through relaying** (`CutThrough_proofs`), for any finite set of peers, any ids,
messages, pieces, slots, witnesses and verdicts: `IdsAlwaysConserved`,
`MessagesRelayedOnce`, `StreamsWellFramed` and `UsedAlwaysOwned`.  The first needs that a message coming in has its entry in
`cut_through_map` (`Coming`); the second that `message_id_events` files each remembered
message under the slot that was filled when it came (`Remembered`), so that it is
forgotten exactly `Slots` ticks later, and that nothing is counted for a message that is
forgotten (`Counted`).  A peer in both lists may be begun a message twice, by the code
as by `RelayedOnce`; the theorem covers that case, which no run has.

The last two have a hypothesis, `SendersStay`: a peer whose connection ends, because
an end closes it or because it sends what does not verify, sends nothing that is relayed.
Item 3 of section 3 shows that they are false without it; the runs satisfy it.
`StreamsInv` is their invariant: a stream of a live connection is free, or waits for the
confirmation of one flush, or is listed by exactly one message that is coming in, of which
the subscriber has read just what the node has (`StreamsOK`); and an entry has no
subscribers before its header was read (`SendersOK`).  A lemma for each action shows which
of the three a stream goes to (`StreamMoves`) or that it stays (`StreamKept`).
`UsedAlwaysOwned` also assumes that no peer is in both lists of the node: it may be on the
list of a message twice, `did_close` takes it off once, and the rest of the message is
owed to a transport that was deleted.  `ListsOK` says that this is the only way.

**Who publishes to whom** (`Node_proofs`, about `PubSubConns`), for any finite set of
nodes, client keys, beacons, acceptors, limits and numbers of channels:
`SubscribersServedAlways`, `SolicitedLive` and `ConnsTyped`, all from `ConnsInvariant`.
Assumed: a beacon leaves a node out of the list it sends to that node (`Listing` of
`Discovery`), and a node has at least one channel.  `ConnsInv` says of one node that its lists
keep to their limits, are apart, and have a peer only in the cluster it was discovered
in (`ListsOK`); and of two nodes, in each state of the ends of their connection, what
each may list (`PairOK`).  An end that is gone or still dialling is in no list of
solicited or standby peers, and with both ends up they agree (`Agreed`): if a message is
under way the last one is the standing the sender has given the reader, and if none is,
the reader knows it.  That the last message is the true one is what the lists have to
guarantee, through demotions and promotions of peers that the round trip times choose:
`Told` says it of one turn of `manage_subscriptions`, `Turned` of a handler's turn of
one cluster, `Handled` of its loop over all of them.  `did_close` and the timer loop over
the clusters in the order of a hash map.  The turn of a cluster reads and writes its own
lists and only takes from or adds to the shared ones, and no peer is in the lists of two, so
`AllClusters` puts the turns together without an order.

**Discovery** (`Discovery_proofs`), for any beacons, relays and seekers, clocks, delays
and expiry times: `PeersKeepTheirKeys`, `RelaysKeepTheirClusters`,
`StoppedNodesAreForgotten`, `LiveRelaysListed` and `AnnouncedInTimeAlways`.  Assumed: a
node has one role, the window of
`did_recv_REG` is less than half the clock's word, and no delay or skew is long enough
for the 64-bit clock to come round (`ClockAssumption`).  `Base` says what the datagrams
under way say of their senders; `KeysKnown` that LISTPROTO is only ever asked for after
the key is known; `ClustersTrue` that each link of the chain from a relay to the key it
is announced under was a fact when it was sent; `ListsFresh` that an entry was heard of
no later than `Allowance` after its node was last alive, and that the timer of a server
leaves none that is older than the expiry time.

`LiveRelaysListed` and `AnnouncedInTimeAlways` say that something happens in time, as
invariants over `now`: time does not pass while a timer is due or a datagram is as old as
the network allows (`Tick`).  They hold on networks without delay and duplicates on which the
losses so far leave a heartbeat within the expiry time (`Survivable`), for relays,
beacons and discoverers that never stopped (`failed` is `Off`); each loss grants one
more period.  Four invariants lead there, one on the other.  `TimersRun`: a node that
never stopped has each of its timers due within a period.  `AllRefreshed`: whoever
registers with a server is there already or gets there before its deadline, since its
timer fires before it or a datagram of it is under way now; a loss of that datagram
moves the deadline by a period.  `SourcesTrue`: the key a list or a page has for a beacon
is the beacon's own, and a relay is only in the lists of beacons it sends heartbeats
to.  `AllOnTime`: a discoverer has
announced the relay, or asks again before the limit, or has asked now, and then one link
of the chain DISCCLUSTER2, LISTCLUSTER2, DISCPEER, LISTPEER, DISCPROTO, LISTPROTO is under way
(`Pending`), each of which its handler turns into the next.  Who is not in a list yet is
within its first periods of the heartbeat, which are no longer than those of the query
(`PeriodsAssumption`: 10 and 60 seconds in the code).

**Sockets** (`Node_proofs`), for any addresses and numbers of handles, sends and
transports: `RequestsOwned` and `OwnersFound`.  Transports are numbered as they are
made, so that a number in a handle, a write or a request stands for a pointer;
`SocketsInv` ties them together for each of the three uses.

**LpfBuffer** (`Node_proofs`), for any messages, base, prefix and limit:
`HandedIsSentAlways`.  `End(i)` is a sum over the messages, so first come its recursion
(`Ends`) and what follows for the places of bytes: every byte is of one message.  With
`Current` the message after those handed over and flushed, `FramesInv` says that the
place read is in it, that the buffer holds as many leading digits of its length as there
are bytes of the prefix (`AtPrefix`) or its length and its first bytes (`InMessage`),
that all those handed over are whole and in order, and that no byte of an ended message
is left.

**Chain adapters and queries** (`Rpc_proofs`), for any blocks, peers, base of the ids, room for a
header line, intervals and numbers of connections and queries: `OneAttemptAlways`,
`OnlyAcceptedRelayedAlways`, `BooksExactAlways` and `StakesFollowAlways`.  Assumed: no peer is external and
internal, a header line has room for three bytes, the intervals are positive.  `RpcBase`
has the types and who carries what; a request or answer about a block that is stored
says whether that block is spam.  This gives `OnlyAcceptedRelayed` for eth and matic,
where a document is taken as a whole or not at all.  For cosmos and for the books,
`InStep` says that what was read of the current answer, followed by what is unread, is
the answers to the requests, in order, from one place on; so a read that ends anywhere
leaves the client at a place of the same kind.  `Counted` says that ids are given out
once and in order, `Matched` that each one given out is stored, answered or garbled.  A
chunk is a recursion over its frames: one step is shown to keep `InStep`, and the number
of steps to be enough for the bytes there are.  The queries share one parser, so their
invariant, `Queried`, is about the last one begun: unless it was disturbed it is the only
one under way, and what it reads is either straight (`Straight`: fibers and parser are
where its answer is) or astray (`Astray`: the one before it left the parser inside a body,
so that its first header line is taken for the rest of it); both ways the parser is back
at the headers when the query is over.

**Onramp** (`Node_proofs`), for any blocks, numbers of connections and frames, sizes of
the two first messages and lengths that other bytes may decode to: `FramesAsSentAlways`,
`NodePointerLiveAlways` and `BlocksWholeAlways`, all from `OnrampInv`.  It looks at what
is buffered followed by what is unread.  That is the node's first message, and what
remains to be read is what its form asks for (`Authenticating`); or it is a chain of
sealed headers and frames (`Chain`) from the one after `ingress_mac` to the last one
sealed, cut between two at the right kind (`InFrames`).  So no cut can put the onramp out
of step, except in a first chunk that it takes for what it is not (`guessed`).  For the blocks `Paired` says
that there is a header for each unit to come, the one that `OnRamp::header` will hold
then: bodies come when it is of their block and unstripped, and what is still to be
answered can be answered (`Answerable`).  The node has one connection, `rlpxt`, or it has
had two at a time.  A chunk is a recursion over its units: `TakeSettled` is its step, by
the state of the transport, `ReachedAll` its induction.

## 5. What is only model-checked, and what is not modelled

Liveness (`DialResolves`, `CloseResolves`, `AllDelivered`) stays with TLC: fairness is
out of reach of the installed provers.  Every safety property of the runs is proved,
under the conditions section 4 names with each.

Not modelled:

- keys, encryption and key exchange of the streams; id collisions; the values of the
  congestion window and of the round trip estimate;
- send queues that are full (20 MB); `cut_through_recv_skip`, which no receiver
  requests; short messages on stream 0 and their analysis by a separate process;
  `PubSubNode::unsubscribe`, which nothing calls; a peer in both lists of subscribers;
  the expiry of `message_id_set` in `Rpc` (`CutThrough` has it);
- attesters: signatures; the stake allocator and the checks of `StakeAttester`, whose
  `used_stake` is never written, whose overlap check sees only the ends of an interval
  and whose cache keeps pointers into a vector that moves;
- `UdpFiber` and the event loop itself; dialling with a TCP factory that listens;
- RLPx as the dialling side (a TODO in the source), RLP encoding, the near onramp,
  contract calls, command lines, the bindings to other languages;
- buffers, addresses, message classes, keystore, compression (pure data); transport
  scaffolds (forwarding without state); the test fixtures.

`PROJECT.json`, "components", gives the reason for each.

## 6. Plan

The model is as wide as the code's own logic; what is left is mostly to prove.

1. The stake allocator of `StakeAttester`, and an abstract
   `Multicast` that `CutThrough` implements.
2. How many losses in a row a connection survives: `LosslessStaysUp` with the latest
   time of each retry, as `Discovery_proofs` has it for heartbeats.
