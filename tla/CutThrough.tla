------------------------------ MODULE CutThrough ------------------------------
(***************************************************************************)
(* Cut-through relaying in one PubSubNode over its LpfTransports.  A large *)
(* message arrives in pieces on one of the streams 10..19 of a peer.  With *)
(* the first piece the node drops it when it knows its id; otherwise it    *)
(* opens a stream to each of its subscribers, taken from the free ids of   *)
(* that transport (cut_through_reserve_ids), and passes every piece on.    *)
(* At the end, or when a flush is confirmed, the id is free again.         *)
(* The bytes on a stream obey ReliableStream and are framed by LpfBuffer:  *)
(* here a piece is a unit, and stream[p][id] is the frame the subscriber p *)
(* is in the middle of when it has read what was written to it.            *)
(* sol_conns and unsol_conns only lose peers here; see PubSubConns.        *)
(***************************************************************************)
EXTENDS Integers, Sequences, FiniteSets, SequencesExt

CONSTANTS
  Peers,
  Solicited, Unsolicited,   \* the node's subscribers
  Sends,            \* Sends[p]: the messages p may send
  Closers,          \* peers whose connection may close
  ReserveIds,       \* the stream ids, in the order they are first taken
  Messages,         \* message ids
  Bad,              \* messages whose attestation does not verify
  Witness,          \* Witness[m]: peers the witness of m names
  Pieces,           \* pieces of a message
  Slots,            \* 256: message_id_events
  MaxTicks, MaxFlushes, MaxPublished   \* bounds

CutThroughAssumption ==
  /\ IsFiniteSet(Peers) /\ Solicited \subseteq Peers /\ Unsolicited \subseteq Peers
  /\ ReserveIds \in Seq(Nat) /\ IsInjective(ReserveIds)
  /\ Sends \in [Peers -> SUBSET Messages] /\ Closers \subseteq Peers /\ Bad \subseteq Messages
  /\ Witness \in [Messages -> SUBSET Peers]
  /\ "none" \notin Messages /\ "garbled" \notin Messages
  /\ Pieces \in Nat \ {0} /\ Slots \in Nat \ {0}
  /\ MaxTicks \in Nat /\ MaxFlushes \in Nat /\ MaxPublished \in Nat
ASSUME CutThroughAssumption

Ids == ToSet(ReserveIds)
None == [message |-> "none", left |-> 0]
Frames == [message : Messages \cup {"none", "garbled"}, left : 0 .. Pieces]
Frame(m) == [message |-> m, left |-> Pieces]
Relays == [subscribers : Seq(Peers \X Ids), header_recv : BOOLEAN]

VARIABLES
  up,           \* up[p]: "Up", "Closing" or "None"
  sol_conns, unsol_conns,
  reserve,      \* cut_through_reserve_ids of each transport
  used,         \* cut_through_used_ids of each transport
  received,     \* received[p][id]: the frame the node is in the middle of
  relays,       \* cut_through_map and cut_through_header_recv, by <<p, id>>
  message_id_set, message_id_events, message_id_idx,
  stream,       \* what the subscribers are in the middle of
  flushing,     \* flushing[p][id]: flushes of a stream not confirmed
  age,          \* age[m]: ticks since the node took m, below Slots (history)
  copies,       \* copies[p][m]: times m was begun to p since then (history)
  spent         \* what the bounds count

ids == <<reserve, used>>
dedup == <<message_id_set, message_id_events, message_id_idx, age>>
vars == <<up, sol_conns, unsol_conns, ids, received, relays, dedup, stream,
          flushing, copies, spent>>

Forgotten == -1
TypeOK ==
  /\ up \in [Peers -> {"Up", "Closing", "None"}]
  /\ sol_conns \subseteq Solicited /\ unsol_conns \subseteq Unsolicited
  /\ reserve \in [Peers -> Seq(Ids)] /\ used \in [Peers -> SUBSET Ids]
  /\ received \in [Peers -> [Ids -> Frames]]
  /\ DOMAIN relays \subseteq Peers \X Ids /\ relays \in [DOMAIN relays -> Relays]
  /\ message_id_set \subseteq Messages
  /\ message_id_events \in [0 .. Slots - 1 -> SUBSET Messages]
  /\ message_id_idx \in 0 .. Slots - 1
  /\ stream \in [Peers -> [Ids -> Frames]]
  /\ flushing \in [Peers -> [Ids -> Nat]]

Init ==
  /\ up = [p \in Peers |-> "Up"]
  /\ sol_conns = Solicited /\ unsol_conns = Unsolicited
  /\ reserve = [p \in Peers |-> ReserveIds] /\ used = [p \in Peers |-> {}]
  /\ received = [p \in Peers |-> [id \in Ids |-> None]]
  /\ relays = [r \in {} |-> [subscribers |-> <<>>, header_recv |-> FALSE]]
  /\ message_id_set = {} /\ message_id_idx = 0
  /\ message_id_events = [i \in 0 .. Slots - 1 |-> {}]
  /\ stream = [p \in Peers |-> [id \in Ids |-> None]]
  /\ flushing = [p \in Peers |-> [id \in Ids |-> 0]]
  /\ age = [m \in Messages |-> Forgotten]
  /\ copies = [p \in Peers |-> [m \in Messages |-> 0]]
  /\ spent = [ticks |-> 0, flushes |-> 0, published |-> 0]

-----------------------------------------------------------------------------
(* Writing to subscribers                                                  *)

(* What a subscriber makes of the next length prefix or piece.             *)
Begun(f, m) == IF f.left = 0 THEN Frame(m) ELSE [f EXCEPT !.message = "garbled"]
Continued(f, m) ==
  CASE f.message # m -> [f EXCEPT !.message = "garbled"]
    [] f.message = m /\ f.left > 1 -> [f EXCEPT !.left = @ - 1]
    [] OTHER -> None

Whole(f, m) ==   \* all the pieces
  IF f = Frame(m) THEN None ELSE [f EXCEPT !.message = "garbled"]

Listed(r) == ToSet(relays[r].subscribers)   \* pairs <<peer, id>>
OnStreams(s, pairs, F(_)) ==
  [p \in Peers |-> [id \in Ids |-> IF <<p, id>> \in pairs THEN F(s[p][id]) ELSE s[p][id]]]

(* cut_through_send_start to each of some peers: the first free id is      *)
(* taken, and stays taken when the prefix cannot be sent.                  *)
Starts_KeepFirst(c, targets, m) ==   \* slip: the id is not taken off the list
  LET pairs == {<<p, Head(c.reserve[p])>> : p \in {p \in targets : c.reserve[p] # <<>>}}
  IN [c EXCEPT !.used = [p \in Peers |-> @[p] \cup {pair[2] : pair \in {q \in pairs : q[1] = p}}],
               !.stream = OnStreams(@, pairs, LAMBDA f : Begun(f, m)),
               !.pairs = @ \o SetToSeq(pairs)]
Starts(c, targets, m) ==
  LET able == {p \in targets : c.reserve[p] # <<>>}
      pairs == {<<p, Head(c.reserve[p])>> : p \in able}
      sent == {pair \in pairs : up[pair[1]] = "Up"}
  IN [reserve |-> [p \in Peers |-> IF p \in able THEN Tail(c.reserve[p]) ELSE c.reserve[p]],
      used |-> [p \in Peers |-> IF p \in able THEN c.used[p] \cup {Head(c.reserve[p])}
                                ELSE c.used[p]],
      stream |-> OnStreams(c.stream, sent, LAMBDA f : Begun(f, m)),
      pairs |-> c.pairs \o SetToSeq(sent)]
Now == [reserve |-> reserve, used |-> used, stream |-> stream, pairs |-> <<>>]

(* cut_through_send_end of each of some streams: ids in use go to the back *)
(* of the list.                                                            *)
Ended_Kept(c, pairs) ==   \* slip: they stay in use
  LET Mine(p) == {pair[2] : pair \in {q \in pairs : q[1] = p}} \cap c.used[p]
  IN [c EXCEPT !.reserve = [p \in Peers |-> @[p] \o SetToSeq(Mine(p))]]
Ended(c, pairs) ==
  LET Mine(p) == {pair[2] : pair \in {q \in pairs : q[1] = p}} \cap c.used[p]
  IN [c EXCEPT !.used = [p \in Peers |-> @[p] \ Mine(p)],
               !.reserve = [p \in Peers |-> @[p] \o SetToSeq(Mine(p))]]

SetIds(c) == reserve' = c.reserve /\ used' = c.used /\ stream' = c.stream

(* cut_through_send_flush of each of some streams: the subscriber drops    *)
(* what it has of the frame.                                               *)
FlushAll(pairs) ==
  /\ stream' = OnStreams(stream, pairs, LAMBDA f : None)
  /\ flushing' = OnStreams(flushing, pairs, LAMBDA n : n + 1)

(* A piece that cannot be sent closes the subscriber's transport.          *)
PassOn(c, pairs, m) ==
  [c EXCEPT !.stream = OnStreams(@, {pair \in pairs : up[pair[1]] = "Up"},
                                 LAMBDA f : Continued(f, m))]

-----------------------------------------------------------------------------
(* Deduplication                                                           *)

Remember(m) ==
  /\ message_id_set' = message_id_set \cup {m}
  /\ message_id_events' = [message_id_events EXCEPT ![message_id_idx] = @ \cup {m}]
  /\ age' = [age EXCEPT ![m] = 0]
  /\ UNCHANGED message_id_idx

(* Ten seconds on: the slot about to be filled again is forgotten.         *)
NextSlot_Stay(i) == i   \* slip: the slot just filled is forgotten
NextSlot(i) == (i + 1) % Slots
message_id_timer_cb ==
  LET gone == message_id_events[NextSlot(message_id_idx)]
  IN /\ spent.ticks < MaxTicks /\ spent' = [spent EXCEPT !.ticks = @ + 1]
     /\ message_id_idx' = (message_id_idx + 1) % Slots
     /\ message_id_set' = message_id_set \ gone
     /\ message_id_events' = [message_id_events EXCEPT ![NextSlot(message_id_idx)] = {}]
     /\ age' = [m \in Messages |-> IF age[m] \in {Forgotten, Slots - 1} THEN Forgotten
                                   ELSE age[m] + 1]
     /\ copies' = [p \in Peers |-> [m \in Messages |-> IF age[m] = Slots - 1 THEN 0
                                                       ELSE copies[p][m]]]
     /\ UNCHANGED <<up, sol_conns, unsol_conns, ids, received, relays, stream, flushing>>

-----------------------------------------------------------------------------
(* Receiving from p on stream id                                           *)

cut_through_recv_start(p, id, m) ==
  /\ m \in Sends[p] /\ up[p] = "Up" /\ received[p][id].left = 0
  /\ received' = [received EXCEPT ![p][id] = Frame(m)]
  /\ relays' = [r \in DOMAIN relays \cup {<<p, id>>} |->
                  IF r = <<p, id>> THEN [subscribers |-> <<>>, header_recv |-> FALSE]
                  ELSE relays[r]]
  /\ UNCHANGED <<up, sol_conns, unsol_conns, ids, dedup, stream, flushing, copies, spent>>

(* The subscribers m is relayed to: not the sender, nor one its witness    *)
(* names.                                                                  *)
Targets(conns, p, m) == conns \ ({p} \cup Witness[m])

Known(m) == m \in message_id_set

(* A piece is counted by the LpfBuffer; the last one ends the message.     *)
Advance(p, id) ==
  received' = [received EXCEPT ![p][id] = Continued(@, @.message)]
IsLast_Never(p, id) == FALSE   \* slip: the end is not passed on
IsLast(p, id) == received[p][id].left = 1
Finish(p, id, c) ==
  SetIds(IF IsLast(p, id) THEN Ended(c, ToSet(c.pairs)) ELSE c)
CloseFailed(pairs) ==
  up' = [p \in Peers |-> IF \E pair \in pairs : pair[1] = p /\ up[p] # "Up"
                         THEN "Closing" ELSE up[p]]

(* The first piece holds the header.                                       *)
Header(p, id) ==
  LET m == received[p][id].message
      entry == [relays[<<p, id>>] EXCEPT !.header_recv = TRUE]
  IN /\ up[p] = "Up" /\ received[p][id].left > 0
     /\ ~relays[<<p, id>>].header_recv
     /\ \/ /\ Known(m)
           /\ relays' = [relays EXCEPT ![<<p, id>>] = entry]
           /\ Advance(p, id)
           /\ UNCHANGED <<up, ids, stream, dedup, copies>>
        \/ /\ ~Known(m) /\ m \in Bad   \* close, and drop the rest
           /\ Remember(m)
           /\ relays' = [relays EXCEPT ![<<p, id>>] = entry]
           /\ up' = [up EXCEPT ![p] = "Closing"]
           /\ UNCHANGED <<received, ids, stream, copies>>
        \/ /\ ~Known(m) /\ m \notin Bad
           /\ Remember(m)
           /\ LET begun == Starts(Starts(Now, Targets(sol_conns, p, m), m),
                                  Targets(unsol_conns, p, m), m)
                  pairs == ToSet(begun.pairs)
              IN /\ relays' = [relays EXCEPT ![<<p, id>>] =
                                 [entry EXCEPT !.subscribers = @ \o begun.pairs]]
                 /\ Finish(p, id, PassOn(begun, pairs, m))
                 /\ copies' = [s \in Peers |-> [copies[s] EXCEPT ![m] =
                                 @ + Cardinality({q \in pairs : q[1] = s})]]
           /\ Advance(p, id)
           /\ UNCHANGED up
     /\ UNCHANGED <<sol_conns, unsol_conns, flushing, spent>>

(* Later pieces, and cut_through_recv_end with the last one.               *)
Bytes(p, id) ==
  LET m == received[p][id].message
      pairs == Listed(<<p, id>>)
  IN /\ up[p] = "Up" /\ received[p][id].left > 0
     /\ relays[<<p, id>>].header_recv
     /\ Finish(p, id, [PassOn(Now, pairs, m) EXCEPT !.pairs = relays[<<p, id>>].subscribers])
     /\ CloseFailed(pairs)
     /\ Advance(p, id)
     /\ UNCHANGED <<sol_conns, unsol_conns, relays, dedup, flushing, copies, spent>>

(* The peer gave up the message: its subscribers are flushed in turn.      *)
cut_through_recv_flush(p, id) ==
  /\ up[p] = "Up" /\ received[p][id].left > 0
  /\ spent.flushes < MaxFlushes /\ spent' = [spent EXCEPT !.flushes = @ + 1]
  /\ received' = [received EXCEPT ![p][id] = None]
  /\ FlushAll(Listed(<<p, id>>))
  /\ UNCHANGED <<up, sol_conns, unsol_conns, ids, relays, dedup, copies>>

did_recv_flush_conf(p, id) ==
  /\ up[p] = "Up" /\ flushing[p][id] > 0
  /\ flushing' = [flushing EXCEPT ![p][id] = @ - 1]
  /\ SetIds(Ended(Now, {<<p, id>>}))
  /\ UNCHANGED <<up, sol_conns, unsol_conns, received, relays, dedup, copies, spent>>

(* A large message of the node's own is opened, written and ended at once  *)
(* with each subscriber (cut_through_send), or goes to stream 0 when no id *)
(* is free.                                                                *)
send_message_on_channel(m) ==
  LET begun == Starts(Starts(Now, sol_conns, m), unsol_conns, m)
      pairs == ToSet(begun.pairs)
      written == [begun EXCEPT !.stream = OnStreams(@, pairs, LAMBDA f : Whole(f, m))]
  IN /\ spent.published < MaxPublished /\ spent' = [spent EXCEPT !.published = @ + 1]
     /\ m \notin Bad /\ ~Known(m) /\ Remember(m)
     /\ SetIds(Ended(written, pairs))
     /\ copies' = [s \in Peers |-> [copies[s] EXCEPT ![m] =
                     @ + (IF s \in sol_conns THEN 1 ELSE 0)
                       + (IF s \in unsol_conns THEN 1 ELSE 0)]]
     /\ UNCHANGED <<up, sol_conns, unsol_conns, received, relays, flushing>>

-----------------------------------------------------------------------------
close(p) ==   \* at either end
  /\ p \in Closers /\ up[p] = "Up"
  /\ up' = [up EXCEPT ![p] = "Closing"]
  /\ UNCHANGED <<sol_conns, unsol_conns, ids, received, relays, dedup, stream,
                 flushing, copies, spent>>

(* did_close: p leaves the lists; the relays of its messages are flushed,  *)
(* but only on ids on which the node sends to p; then p is taken out of    *)
(* the lists of subscribers, once of each.                                 *)
Without(list, p) ==
  LET first == SelectInSeq(list, LAMBDA pair : pair[1] = p)
  IN IF first = 0 THEN list ELSE RemoveAt(list, first)
did_close(p) ==
  LET flushed == {r \in DOMAIN relays : r[1] = p /\ r[2] \in used[p]}
      kept == DOMAIN relays \ flushed
  IN /\ up[p] = "Closing"
     /\ up' = [up EXCEPT ![p] = "None"]
     /\ sol_conns' = sol_conns \ {p} /\ unsol_conns' = unsol_conns \ {p}
     /\ FlushAll(UNION {Listed(r) : r \in flushed})
     /\ relays' = [r \in kept |-> [relays[r] EXCEPT !.subscribers = Without(@, p)]]
     /\ received' = [received EXCEPT ![p] = [id \in Ids |-> None]]
     /\ UNCHANGED <<ids, dedup, copies, spent>>

Next ==
  \/ \E p \in Peers, id \in Ids :
       \/ \E m \in Messages : cut_through_recv_start(p, id, m)
       \/ Header(p, id) \/ Bytes(p, id)
       \/ cut_through_recv_flush(p, id) \/ did_recv_flush_conf(p, id)
  \/ \E m \in Messages : send_message_on_channel(m)
  \/ \E p \in Peers : close(p) \/ did_close(p)
  \/ message_id_timer_cb

Spec == Init /\ [][Next]_vars

-----------------------------------------------------------------------------
(* An id is free or in use, never both, never twice in the list.           *)
IdsConserved ==
  \A p \in Peers : /\ ToSet(reserve[p]) \cap used[p] = {}
                   /\ ToSet(reserve[p]) \cup used[p] = Ids
                   /\ IsInjective(reserve[p])

(* Every subscriber reads whole messages, one at a time on a stream.       *)
WellFramed ==
  \A p \in Peers, id \in Ids :
    up[p] # "None" => stream[p][id].message # "garbled"

(* The messages being relayed.                                             *)
Running == {r \in DOMAIN relays : received[r[1]][r[2]].left > 0}

(* A stream in use carries a message that is still coming in, to be ended  *)
(* or flushed with it, or waits for the confirmation of a flush: no id is  *)
(* lost, and none is shared by two messages.  And no message that is still *)
(* coming in is owed to a transport that was deleted.                      *)
UsedIsOwned ==
  /\ \A p \in Peers, id \in Ids : up[p] = "Up" /\ id \in used[p] =>
       Cardinality({r \in Running : <<p, id>> \in Listed(r)}) + flushing[p][id] = 1
  /\ \A r \in Running : \A pair \in Listed(r) : up[pair[1]] # "None"

(* For Slots ticks of the timer after the node took a message, a subscriber*)
(* is begun the same message once, whoever else sends it; twice when it is *)
(* in both lists: a peer the node solicited may subscribe to it as well    *)
(* (add_unsol_conn does not look at sol_conns).                            *)
ListsWith(p) == (IF p \in Solicited THEN 1 ELSE 0) + (IF p \in Unsolicited THEN 1 ELSE 0)
RelayedOnce ==
  \A p \in Peers, m \in Messages : age[m] # Forgotten => copies[p][m] <= ListsWith(p)

(* A transport that is gone leaves none of its messages half relayed: the  *)
(* subscribers were flushed ("Flush subscribers", did_close).              *)
ClosedAreFlushed ==
  \A r \in DOMAIN relays : up[r[1]] = "None" =>
    \A pair \in Listed(r) : stream[pair[1]][pair[2]].left = 0
=============================================================================
