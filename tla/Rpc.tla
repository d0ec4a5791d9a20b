-------------------------------- MODULE Rpc --------------------------------
(***************************************************************************)
(* The node as a client of other programs, over byte streams of libuv.     *)
(*                                                                         *)
(* Abci, once per chain: a relay hands each block it hears of to a chain   *)
(* node and relays it when the answer says so.  "eth" (and bsc, the same   *)
(* code) speaks JSON over PipeTransport, "cosmos" an id and a byte over    *)
(* RcTcpTransport, "matic" HTTP over RcTcpOutFiber.  The transport is      *)
(* reconnected for ever, with back-off.                                    *)
(*                                                                         *)
(* "stakes" (StakeRequester) and "grapher" (Grapher): an HTTP query from a *)
(* timer, each on a TcpOutFiber of its own, with one parser state for all. *)
(*                                                                         *)
(* A stream is a sequence of tokens that stand for bytes; libuv hands over *)
(* any prefix of what has arrived.  What a token belongs to (of, ok, last) *)
(* is for the properties and for the content of a JSON document only.      *)
(***************************************************************************)
EXTENDS Integers, Sequences, FiniteSets, FiniteSetsExt, SequencesExt

CONSTANTS
  Clients,              \* the clients to look at, one per behaviour ("none": none of them)
  Blocks, Spam,        \* blocks, and those the chain node answers with an error
  Externals, Internals,   \* peers of the node: is_internal() is trusted
  Base,               \* an id is two digits (8 bytes in the code) of this base
  LineLimit,           \* 1000: room for a header line
  FirstInterval, LongestInterval,   \* 1000 and 64000 ms
  MaxConnects, MaxQueries           \* bounds

Chains == {"eth", "cosmos", "matic"}
Queries == {"stakes", "grapher"}

ASSUME RpcAssumption ==
  /\ Clients \subseteq Chains \cup Queries \cup {"none"} /\ Spam \subseteq Blocks /\ IsFiniteSet(Blocks)
  /\ Base \in Nat /\ Base > 1 /\ LineLimit \in Nat /\ LineLimit > 2
  /\ FirstInterval \in Nat /\ LongestInterval \in Nat /\ 0 < FirstInterval /\ FirstInterval <= LongestInterval
  /\ Externals \cap Internals = {} /\ MaxQueries \in Nat \ {0}

VARIABLES
  client,           \* which of them this is
  link,             \* link[c]: handle c, what the other end still has to answer, what it
                    \* wrote that was not read yet, and the framing fibers on it.
                    \* A chain adapter has link 1 only, the q-th query has link q
  timer, interval,  \* connect_timer (0: stopped) and connect_timer_interval
  id, block_store,  \* of Abci
  parser,           \* state and length of Abci (matic), StakeRequester and Grapher
  partial,          \* cosmos: the bytes in resp_id, of which counter says how many
  is_abci_active, message_id_set, up, relayed,   \* of PubSubNode; up: its peers
  dst,              \* a query knows the address of its server
  dead,             \* the process threw, or libuv aborted it
  connects,         \* bound: connections tried
  answered, parsed, \* history: answers read in full; query answers understood
  due,              \* history: what was accepted while its sender was connected
  garbled           \* history: requests and queries of which the answer may be lost

bookVars == <<id, block_store, message_id_set, relayed>>
chainVars == <<timer, interval, is_abci_active, connects>>
readVars == <<parser, partial, answered, parsed, due, garbled>>
rpcVars == <<client, link, bookVars, chainVars, readVars, up, dst, dead>>

Links == 1 .. MaxQueries
-----------------------------------------------------------------------------
(* What the other end writes.                                              *)
Token(k, of, val, ok, last) == [k |-> k, of |-> of, val |-> val, ok |-> ok, last |-> last]
BodyLength == 2
Body(i, ok) == [n \in 1 .. BodyLength |-> Token("body", i, n, ok, n = BodyLength)]
Header(i, names) == [n \in DOMAIN names |-> Token(names[n], i, 0, TRUE, FALSE)]
Answer(i, ok) ==
  CASE client = "eth" -> Body(i, ok)
    [] client = "cosmos" -> <<Token("byte", i, i \div Base, ok, FALSE),
                            Token("byte", i, i % Base, ok, FALSE),
                            Token("byte", i, IF ok THEN 1 ELSE 0, ok, TRUE)>>
    [] OTHER -> Header(i, <<"length", "\n", "\r", "\n">>) \o Body(i, ok)
Unsized(i, ok) == Header(i, <<"\r", "\n">>) \o Body(i, ok)   \* no Content-Length

(* rapidjson: a text is a document only as a whole.                        *)
Document(text) ==
  IF \E n \in DOMAIN text : text = Body(text[n].of, text[n].ok)
  THEN [valid |-> TRUE, id |-> text[1].of, ok |-> text[1].ok]
  ELSE [valid |-> FALSE, id |-> 0, ok |-> FALSE]

-----------------------------------------------------------------------------
(* The framing fibers: DynamicFramingFiber holds a SentinelFramingFiber    *)
(* over a SentinelBufferFiber, or a LengthFramingFiber over a              *)
(* LengthBufferFiber.  room is what its buffer can still take of a line,   *)
(* left what is missing of a body.                                         *)
Lines == [framing |-> "lines", buf |-> <<>>, room |-> 0, left |-> 0]
Sized == [Lines EXCEPT !.framing = "sized"]
reset(f, n) ==
  IF f.framing = "lines" THEN [f EXCEPT !.buf = <<>>, !.room = n]
                         ELSE [f EXCEPT !.buf = <<>>, !.left = n]

(* SentinelBufferFiber::did_recv.                                          *)
HasRoom(f, text) == Len(text) <= f.room
Buffered(f, text) == [f EXCEPT !.buf = @ \o text, !.room = @ - Len(text)]

(* What a client takes out of its stream: the fibers and parser it ends up *)
(* with, the blocks reported and the documents read on the way, and how    *)
(* often it closed the connection.                                         *)
Reading(f) == [f |-> f, parser |-> parser, partial |-> partial, store |-> block_store,
               reports |-> {}, documents |-> {}, closes |-> 0]

(* The end of did_recv of every Abci.                                      *)
Verdict(r, d) ==
  LET request == {b \in r.store : b.id = d.id}
  IN [r EXCEPT !.store = @ \ request, !.reports = IF d.ok THEN @ \cup request ELSE @]

(* did_recv of Grapher, StakeRequester and Abci (matic): a header line, or *)
(* a body.                                                                 *)
Headers(r, line) ==
  IF Len(line) = 2 /\ line[1].k = "\r"
  THEN IF r.parser.length = 0
       THEN [r EXCEPT !.closes = @ + 1]
       ELSE [r EXCEPT !.parser.state = 1, !.f = reset(Sized, r.parser.length)]
  ELSE [r EXCEPT !.parser.length = IF line # <<>> /\ line[1].k = "length" THEN BodyLength ELSE @,
                 !.f = reset(@, LineLimit)]
Documents(r, d) == IF d.valid THEN r.documents \cup {d.id} ELSE r.documents
GraphParsed(r, text) ==
  [r EXCEPT !.documents = Documents(r, Document(text)), !.parser.state = 0, !.closes = @ + 1]
StakesParsed_KeepState(r, text) ==   \* slip: the parser is not put back to headers
  [r EXCEPT !.documents = Documents(r, Document(text))]
StakesParsed(r, text) ==
  [r EXCEPT !.documents = Documents(r, Document(text)), !.parser = [state |-> 0, length |-> 0]]
BlockParsed(r, text) ==
  LET next == [r EXCEPT !.parser = [state |-> 0, length |-> 0], !.f = reset(Lines, LineLimit)]
  IN IF Document(text).valid THEN Verdict(next, Document(text)) ELSE next
Handed(r, text) ==
  IF r.parser.state = 0 THEN Headers(r, text)
  ELSE CASE client = "grapher" -> GraphParsed(r, text)
         [] client = "stakes" -> StakesParsed(r, text)
         [] OTHER -> BlockParsed(r, text)

(* One frame out of bytes: a line up to its '\n', or what a body misses.   *)
(* frame is FALSE when there is none yet, or the line did not fit, and then*)
(* the rest is dropped as well; a frame takes the buffer along.            *)
Frame(frame, f, text, rest) == [frame |-> frame, f |-> f, text |-> text, rest |-> rest]
NextLine(f, bytes) ==
  LET ends == {n \in DOMAIN bytes : bytes[n].k = "\n"}
      size == IF ends = {} THEN Len(bytes) ELSE Min(ends)
      text == SubSeq(bytes, 1, size)
  IN CASE ~HasRoom(f, text) -> Frame(FALSE, f, <<>>, <<>>)
       [] HasRoom(f, text) /\ ends = {} -> Frame(FALSE, Buffered(f, text), <<>>, <<>>)
       [] OTHER -> Frame(TRUE, Lines, f.buf \o text, SubSeq(bytes, size + 1, Len(bytes)))
NextBody(f, bytes) ==
  IF Len(bytes) < f.left
  THEN Frame(FALSE, [f EXCEPT !.buf = @ \o bytes, !.left = @ - Len(bytes)], <<>>, <<>>)
  ELSE Frame(TRUE, Sized, f.buf \o SubSeq(bytes, 1, f.left), SubSeq(bytes, f.left + 1, Len(bytes)))

(* did_recv and leftover of DynamicFramingFiber: frame after frame, as long*)
(* as bytes are left.  What the client answers to a frame (-1 for a closed *)
(* connection) does not stop the next one; no more than one in two frames  *)
(* is empty.                                                               *)
ReadFrame(s) ==
  LET t == IF s.r.f.framing = "lines" THEN NextLine(s.r.f, s.rest) ELSE NextBody(s.r.f, s.rest)
      r == [s.r EXCEPT !.f = t.f]
  IN IF s.rest = <<>> THEN s ELSE [r |-> IF t.frame THEN Handed(r, t.text) ELSE r, rest |-> t.rest]
ReadFrames(r, bytes) ==
  LET most == 2 * Len(bytes)
      read[n \in 0 .. most] == IF n = 0 THEN [r |-> r, rest |-> bytes] ELSE ReadFrame(read[n - 1])
  IN read[most].r

(* did_recv of Abci (cosmos).  After an error, or an answer to no request, *)
(* counter and resp_id stay as they are and the rest is dropped.           *)
SplitOne(s) ==
  LET r == s.r
      bytes == s.rest
      need == 2 - Len(r.partial)
      digits == r.partial \o SubSeq(bytes, 1, IF need < Len(bytes) THEN need ELSE Len(bytes))
      d == [id |-> digits[1].val * Base + digits[2].val, ok |-> bytes[need + 1].val > 0]
      known == \E b \in r.store : b.id = d.id
      next == Verdict([r EXCEPT !.partial = digits], d)
  IN CASE bytes = <<>> -> s
       [] bytes # <<>> /\ Len(bytes) <= need -> [r |-> [r EXCEPT !.partial = digits], rest |-> <<>>]
       [] Len(bytes) > need /\ (~d.ok \/ ~known) -> [r |-> next, rest |-> <<>>]
       [] OTHER -> [r |-> [next EXCEPT !.partial = <<>>], rest |-> SubSeq(bytes, need + 2, Len(bytes))]
Split(r, bytes) ==
  LET read[n \in 0 .. Len(bytes)] == IF n = 0 THEN [r |-> r, rest |-> bytes] ELSE SplitOne(read[n - 1])
  IN read[Len(bytes)].r

(* did_recv of Abci (eth, bsc): each read is parsed by itself.             *)
Whole(r, bytes) == IF Document(bytes).valid THEN Verdict(r, Document(bytes)) ELSE r

ReadBy(r, bytes) ==
  CASE client = "eth" -> Whole(r, bytes)
    [] client = "cosmos" -> Split(r, bytes)
    [] OTHER -> ReadFrames(r, bytes)

-----------------------------------------------------------------------------
(* The other end.  It answers in order; it closes when it likes, and what  *)
(* it had not sent by then is lost.  (What is lost of a stream that was    *)
(* partly read is all of the rest, or nothing: the read may come first.)   *)
Ids == 0 .. Cardinality(Blocks) + MaxQueries
NoLink == [st |-> "idle", requests |-> <<>>, stream |-> <<>>, f |-> Lines]

Writes(c, answer) ==
  /\ link[c].st = "open" /\ link[c].requests # <<>>
  /\ link' = [link EXCEPT ![c].requests = Tail(@), ![c].stream = @ \o answer]
Answers(c) ==
  LET request == Head(link[c].requests)
  IN /\ Writes(c, Answer(request.id, request.ok))
     /\ UNCHANGED <<client, bookVars, chainVars, readVars, up, dst, dead>>
AnswersUnsized(c) ==
  /\ client \notin {"eth", "cosmos"}
  /\ Writes(c, Unsized(Head(link[c].requests).id, Head(link[c].requests).ok))
  /\ garbled' = IF client = "matic" THEN Ids ELSE garbled \cup {c}
  /\ UNCHANGED <<client, bookVars, chainVars, parser, partial, answered, parsed, due, up, dst, dead>>

(* An answer is split by the end of a connection: what was read of it is   *)
(* still in the parser.                                                    *)
Splits(lost) ==
  lost # <<>> /\ Cardinality({n \in DOMAIN lost : lost[n].of = lost[1].of}) < Len(Answer(lost[1].of, TRUE))
Ends(c) == \E n \in {0, Len(link[c].stream)} :
  LET lost == SubSeq(link[c].stream, n + 1, Len(link[c].stream))
  IN /\ link[c].st = "open"
     /\ link' = [link EXCEPT ![c].st = "ended", ![c].requests = <<>>,
                             ![c].stream = SubSeq(@, 1, n)]
     /\ garbled' = CASE client \in Queries -> IF lost # <<>> \/ link[c].requests # <<>>
                                            THEN garbled \cup {c} ELSE garbled
                     [] client \in {"cosmos", "matic"} /\ Splits(lost) -> Ids
                     [] OTHER -> garbled
     /\ UNCHANGED <<client, bookVars, chainVars, parser, partial, answered, parsed, due, up, dst, dead>>

-----------------------------------------------------------------------------
(* Closing a handle for good.  The transports of eth and cosmos report it  *)
(* at once and PubSubNode throws; a fiber's handle reports it when libuv   *)
(* has closed it.  A second close aborts.                                  *)
Closed(l, times) == IF times = 0 THEN l ELSE [l EXCEPT !.st = "closing", !.stream = <<>>, !.requests = <<>>]
Kills(times) == times > 1 \/ (times = 1 /\ client \in {"eth", "cosmos"})
did_close(c) ==
  /\ link[c].st = "closing" /\ ~dead
  /\ dead' = (client \in Chains)   \* PubSubNode::did_close(AbciType &): throw
  /\ link' = [link EXCEPT ![c] = [NoLink EXCEPT !.st = "closed"]]   \* delete &fiber
  /\ UNCHANGED <<client, bookVars, chainVars, readVars, up, dst>>

(* Abci::did_disconnect: back off, and tell PubSubNode of a connection that*)
(* was up.                                                                 *)
did_disconnect(reason) ==
  /\ timer' = interval
  /\ interval' = IF 2 * interval > LongestInterval THEN LongestInterval ELSE 2 * interval
  /\ is_abci_active' = (is_abci_active /\ reason # 0)

connect == link' = [link EXCEPT ![1].st = "connecting"] /\ connects' = connects + 1
connect_timer_cb_Repeats ==   \* slip: the timer was started to repeat
  /\ client \in Chains /\ ~dead /\ timer # 0 /\ connects < MaxConnects
  /\ timer' = timer
  /\ connect
  /\ UNCHANGED <<client, interval, is_abci_active, bookVars, readVars, up, dst, dead>>
connect_timer_cb ==
  /\ client \in Chains /\ ~dead /\ timer # 0 /\ connects < MaxConnects
  /\ timer' = 0
  /\ connect
  /\ UNCHANGED <<client, interval, is_abci_active, bookVars, readVars, up, dst, dead>>

(* connect_cb of the transports, dial_cb of RcTcpOutFiber.                 *)
did_connect == interval' = FirstInterval /\ is_abci_active' = TRUE /\ UNCHANGED timer
connect_cb(ok) ==
  /\ client \in Chains /\ ~dead /\ link[1].st = "connecting"
  /\ link' = [link EXCEPT ![1] = [NoLink EXCEPT !.st = IF ok THEN "open" ELSE "idle",
                                  !.f = IF ok THEN reset(link[1].f, LineLimit) ELSE link[1].f]]
  /\ IF ok THEN did_connect ELSE did_disconnect(1)
  /\ UNCHANGED <<client, connects, bookVars, readVars, up, dst, dead>>

(* A sender that has left since is not looked for any further.             *)
did_analyze_block(reports) ==
  relayed' = relayed \cup {[m |-> b.m, from |-> b.from] : b \in {b \in reports : b.from \in up}}

(* recv_cb: n bytes, the end of the stream, or an error.                   *)
recv_cb(c) == \E n \in 1 .. Len(link[c].stream) :
  LET bytes == SubSeq(link[c].stream, 1, n)
      rest == SubSeq(link[c].stream, n + 1, Len(link[c].stream))
      r == ReadBy(Reading(link[c].f), bytes)
      whole == {t.of : t \in {bytes[k] : k \in {k \in 1 .. n : bytes[k].last}}}
      bad == CASE client = "eth" /\ ~Document(bytes).valid -> {bytes[k].of : k \in 1 .. n}
               [] client = "cosmos" /\ \E k \in 1 .. n : bytes[k].last /\ ~bytes[k].ok -> Ids
               [] OTHER -> {}
      accepted == {b \in block_store : b.id \in whole /\ b.from \in up /\
                     \A k \in 1 .. n : bytes[k].of = b.id => bytes[k].ok}
  IN /\ ~dead /\ link[c].st \in {"open", "ended"}
     /\ link' = [link EXCEPT ![c] =
                   Closed([@ EXCEPT !.f = r.f, !.stream = rest], r.closes)]
     /\ dead' = Kills(r.closes)
     /\ parser' = r.parser /\ partial' = r.partial /\ block_store' = r.store
     /\ parsed' = parsed \cup r.documents
     /\ did_analyze_block(r.reports)
     /\ answered' = answered \cup whole
     /\ garbled' = garbled \cup bad
     /\ due' = due \cup {[m |-> b.m, from |-> b.from, id |-> b.id] : b \in accepted}
     /\ UNCHANGED <<client, id, message_id_set, chainVars, up, dst>>

recv_cb_end(c) ==
  /\ client \in Chains /\ ~dead /\ link[c].st = "ended" /\ link[c].stream = <<>>
  /\ link' = [link EXCEPT ![c].st = "idle"]
  /\ did_disconnect(0)
  /\ UNCHANGED <<client, bookVars, connects, readVars, up, dst, dead>>
fiber_recv_cb_end(c) ==
  /\ client \in Queries /\ ~dead /\ link[c].st = "ended" /\ link[c].stream = <<>>
  /\ link' = [link EXCEPT ![c] = Closed(@, 1)]
  /\ UNCHANGED <<client, bookVars, chainVars, readVars, up, dst, dead>>
recv_cb_error(c) ==
  /\ ~dead /\ link[c].st \in {"open", "ended"}
  /\ link' = [link EXCEPT ![c] = Closed(@, 1)]
  /\ dead' = Kills(1)
  /\ garbled' = IF client \in Queries THEN garbled \cup {c} ELSE garbled
  /\ UNCHANGED <<client, bookVars, chainVars, parser, partial, answered, parsed, due, up, dst>>

-----------------------------------------------------------------------------
(* PubSubNode.  A block of an internal peer is relayed at once, that of an *)
(* external one goes to the chain node, or nowhere when none is there: in  *)
(* message_id_set it is either way.  eth and cosmos hand libuv bytes that  *)
(* are freed on return: a write that could not be done at once is lost.    *)
Sent(request) ==
  link' = [link EXCEPT ![1].requests = IF link[1].st = "open" THEN Append(@, request) ELSE @]
send(request) ==
  \/ Sent(request)
  \/ client # "matic" /\ UNCHANGED link
analyze_block_Reuse(m, from) ==   \* slip: the id is not counted up
  /\ send([id |-> id, ok |-> m \notin Spam])
  /\ block_store' = block_store \cup {[id |-> id, m |-> m, from |-> from]}
  /\ UNCHANGED id
analyze_block(m, from) ==
  /\ send([id |-> id, ok |-> m \notin Spam])
  /\ block_store' = block_store \cup {[id |-> id, m |-> m, from |-> from]}
  /\ id' = id + 1

did_recv_MESSAGE_Trusting(m, from) ==   \* slip: without a chain node the block is relayed unseen
  /\ client \in Chains /\ ~dead /\ from \in up /\ m \notin message_id_set
  /\ message_id_set' = message_id_set \cup {m}
  /\ IF from \in Externals /\ is_abci_active
     THEN analyze_block(m, from) /\ dead' = (link[1].st = "closing") /\ UNCHANGED relayed
     ELSE relayed' = relayed \cup {[m |-> m, from |-> from]} /\ UNCHANGED <<link, id, block_store, dead>>
  /\ UNCHANGED <<client, chainVars, readVars, up, dst>>
did_recv_MESSAGE(m, from) ==
  /\ client \in Chains /\ ~dead /\ from \in up /\ m \notin message_id_set
  /\ message_id_set' = message_id_set \cup {m}
  /\ CASE from \in Internals ->
            relayed' = relayed \cup {[m |-> m, from |-> from]} /\ UNCHANGED <<link, id, block_store, dead>>
       [] from \in Externals /\ is_abci_active ->
            /\ analyze_block(m, from) /\ UNCHANGED relayed
            /\ dead' = (link[1].st = "closing")   \* EBADF, and close() again
       [] OTHER -> UNCHANGED <<link, id, block_store, relayed, dead>>
  /\ UNCHANGED <<client, chainVars, readVars, up, dst>>
PeerLeaves(p) ==
  /\ client \in Chains /\ p \in up
  /\ up' = up \ {p}
  /\ UNCHANGED <<client, link, bookVars, chainVars, readVars, dst, dead>>

-----------------------------------------------------------------------------
(* Queries: the DNS answer, the timer, and TcpOutFiber::dial_cb.  Grapher  *)
(* asks whenever the DNS answers, StakeRequester when its own timer fires. *)
Begun == {q \in Links : link[q].st # "idle"}
Unfinished == {q \in Links : link[q].st \in {"connecting", "open", "ended"}}
query_cb ==
  LET q == Cardinality(Begun) + 1
  IN /\ q <= MaxQueries
     /\ link' = [link EXCEPT ![q].st = "connecting"]
     /\ garbled' = IF Unfinished = {} THEN garbled ELSE garbled \cup Unfinished \cup {q}
query ==
  /\ client = "grapher" /\ ~dead
  /\ dst' = TRUE
  /\ query_cb
  /\ UNCHANGED <<client, bookVars, chainVars, parser, partial, answered, parsed, due, up, dead>>
dns_cb ==
  /\ client = "stakes" /\ ~dead /\ ~dst
  /\ dst' = TRUE
  /\ UNCHANGED <<client, link, bookVars, chainVars, readVars, up, dead>>
stakes_timer ==
  /\ client = "stakes" /\ ~dead /\ dst
  /\ query_cb
  /\ UNCHANGED <<client, bookVars, chainVars, parser, partial, answered, parsed, due, up, dst, dead>>
did_dial(l, q) ==
  [l EXCEPT !.st = "open", !.f = reset(@, LineLimit), !.requests = <<[id |-> q, ok |-> TRUE]>>]
dial_cb(q, ok) ==
  /\ client \in Queries /\ ~dead /\ link[q].st = "connecting"
  /\ link' = [link EXCEPT ![q] = IF ok THEN did_dial(@, q) ELSE Closed(@, 1)]
  /\ garbled' = IF ok THEN garbled ELSE garbled \cup {q}
  /\ UNCHANGED <<client, bookVars, chainVars, parser, partial, answered, parsed, due, up, dst, dead>>

-----------------------------------------------------------------------------
RpcInit ==
  /\ client \in Clients
  /\ link = [c \in Links |-> IF client \in Chains /\ c = 1 THEN [NoLink EXCEPT !.st = "connecting"] ELSE NoLink]
  /\ timer = 0 /\ interval = FirstInterval /\ connects = 1
  /\ id = 0 /\ block_store = {} /\ partial = <<>> /\ parser = [state |-> 0, length |-> 0]
  /\ is_abci_active = FALSE /\ message_id_set = {} /\ up = Externals \cup Internals
  /\ relayed = {} /\ dst = FALSE /\ dead = FALSE
  /\ answered = {} /\ parsed = {} /\ due = {} /\ garbled = {}

RpcNext ==
  \/ \E c \in Links : Answers(c) \/ AnswersUnsized(c) \/ Ends(c) \/ did_close(c)
                       \/ recv_cb(c) \/ recv_cb_end(c) \/ fiber_recv_cb_end(c) \/ recv_cb_error(c)
                       \/ dial_cb(c, TRUE) \/ dial_cb(c, FALSE)
  \/ connect_timer_cb \/ connect_cb(TRUE) \/ connect_cb(FALSE)
  \/ \E m \in Blocks, p \in Externals \cup Internals : did_recv_MESSAGE(m, p)
  \/ \E p \in Externals \cup Internals : PeerLeaves(p)
  \/ query \/ dns_cb \/ stakes_timer
RpcSpec == RpcInit /\ [][RpcNext]_rpcVars

-----------------------------------------------------------------------------
(* What an external peer sent is relayed only when the chain node took it  *)
(* for no spam: whatever was cut off, misread or answered meanwhile.  (Not *)
(* so for cosmos once its id bytes are out of step.)                       *)
OnlyAcceptedRelayed ==
  (client = "cosmos" => garbled = {}) =>
    \A r \in relayed : r.from \in Externals => r.m \notin Spam

(* Every answer is taken for the request it answers and no other: what is  *)
(* still stored is exactly what was not answered, and all that was         *)
(* accepted while its sender was connected has been relayed.               *)
BooksExact ==
  client \in Chains /\ ~dead =>
    /\ {b.id : b \in block_store} \ garbled = (0 .. id - 1) \ (answered \cup garbled)
    /\ \A d \in due : d.id \in garbled \/ [m |-> d.m, from |-> d.from] \in relayed

(* The timer is armed exactly while nothing is connected or connecting: no *)
(* attempt is made over another, and the adapter never stops trying.       *)
OneAttempt ==
  client \in Chains /\ ~dead => (timer # 0 <=> link[1].st = "idle")

(* A query that was answered in full is understood, unless it or the one   *)
(* before it was disturbed: one bad answer costs one more, not all.        *)
StakesFollow ==
  client \in Queries => \A q \in answered \ garbled : q - 1 \notin garbled => q \in parsed
=============================================================================
