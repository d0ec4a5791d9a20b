----------------------------- MODULE PubSubConns -----------------------------
(***************************************************************************)
(* The connections of PubSubNode: which peers a node publishes to.  A node *)
(* keeps, per cluster of the peers it discovered, the peers it solicited   *)
(* (sol_conns) and those in reserve (sol_standby_conns); besides, the      *)
(* peers that subscribed to it (unsol_conns) and the addresses that turned *)
(* it down (blacklist_addr).  SUBSCRIBE and UNSUBSCRIBE travel in order on *)
(* stream 0 of the connection of two nodes; connections are dialled, and   *)
(* end at each node on its own: no CLOSE is heard (see StreamConnection).  *)
(* The delegate is Relay, whose manage_subscriptions replaces the worst    *)
(* peer by the best one in reserve: which one that is depends on measured  *)
(* round trip times, here any.                                             *)
(***************************************************************************)
EXTENDS Integers, Sequences, FiniteSets

CONSTANTS
  Nodes,
  Discovers,     \* pairs <<n, m>>: the beacon tells n of m
  ClientKeys, ClientKey,  \* the key of the cluster a node is discovered in
  ZeroKey,       \* the default key
  Acceptors,     \* nodes built with accept_unsol_conn
  MaxSol, MaxUnsol,       \* max_sol_conns, max_unsol_conns of a node
  Channels,      \* number of the delegate's channels
  MaxQueue,      \* bound: messages in flight on a connection when a timer fires
  MaxCloses      \* bound: closes and give-ups that no handler here asks for

ConnsAssumption ==
  /\ Discovers \subseteq Nodes \X Nodes /\ \A n \in Nodes : <<n, n>> \notin Discovers
  /\ IsFiniteSet(Nodes) /\ Acceptors \subseteq Nodes
  /\ ClientKey \in [Nodes -> ClientKeys] /\ ZeroKey \in ClientKeys
  /\ MaxSol \in [Nodes -> Nat] /\ MaxUnsol \in [Nodes -> Nat]
  /\ Channels \in Nat \ {0} /\ MaxQueue \in Nat /\ MaxCloses \in Nat
ASSUME ConnsAssumption

VARIABLES
  conns,    \* conns[n]: the lists of node n
  link,     \* link[n][m]: n's end of the connection to m
  queue,    \* queue[n][m]: what n sent to m on stream 0
  closes    \* how many closes happened on their own

vars == <<conns, link, queue, closes>>

LinkStates == {"None", "Dialing", "Up", "Closing"}
Connections(n) ==
  [sol_conns : {sol \in SUBSET Nodes : Cardinality(sol) <= MaxSol[n]},
   sol_standby_conns : SUBSET Nodes]

Unsol(c) == Cardinality(c.unsol_conns) + c.dangling   \* unsol_conns.size()

(* The types, with the limits on solicited and unsolicited peers.          *)
TypeOK ==
  /\ \A n \in Nodes :
       /\ DOMAIN conns[n].conn_map \subseteq ClientKeys
       /\ \A key \in DOMAIN conns[n].conn_map : conns[n].conn_map[key] \in Connections(n)
       /\ conns[n].unsol_conns \subseteq Nodes /\ conns[n].dangling \in Nat
       /\ Unsol(conns[n]) <= MaxUnsol[n]
       /\ conns[n].blacklist_addr \subseteq Nodes
  /\ link \in [Nodes -> [Nodes -> LinkStates]]
  /\ \A n, m \in Nodes : queue[n][m] \in Seq({"SUBSCRIBE", "UNSUBSCRIBE"})
  /\ closes \in 0 .. MaxCloses

Init ==
  /\ conns = [n \in Nodes |->
                [conn_map |-> [key \in {} |-> [sol_conns |-> {}, sol_standby_conns |-> {}]],
                 unsol_conns |-> {}, dangling |-> 0, blacklist_addr |-> {}]]
  /\ link = [n \in Nodes |-> [m \in Nodes |-> "None"]]
  /\ queue = [n \in Nodes |-> [m \in Nodes |-> <<>>]]
  /\ closes = 0

-----------------------------------------------------------------------------
(* The lists of one node, c, and what a change of them makes it send:      *)
(* [conns |-> the new lists, sent |-> what is sent to each peer].          *)

Outcome(c, sent) == [conns |-> c, sent |-> sent]
Silence == [p \in Nodes |-> <<>>]
OnEveryChannel(m, type) == [Silence EXCEPT ![m] = [i \in 1 .. Channels |-> type]]
FollowedBy(sent, more) == [p \in Nodes |-> sent[p] \o more[p]]

Conns(c, key) ==   \* conn_map[key], which operator[] makes when it is missing
  IF key \in DOMAIN c.conn_map THEN c.conn_map[key]
  ELSE [sol_conns |-> {}, sol_standby_conns |-> {}]
WithConns(c, key, value) ==
  [c EXCEPT !.conn_map = [k \in DOMAIN @ \cup {key} |-> IF k = key THEN value ELSE @[k]]]

add_sol_standby_conn(c, key, m) ==
  LET old == Conns(c, key)
      new == IF m \in old.sol_conns THEN old
             ELSE [old EXCEPT !.sol_standby_conns = @ \cup {m}]
  IN [WithConns(c, key, new) EXCEPT !.unsol_conns = @ \ {m}]

(* The peer is solicited, or put in reserve when there are enough.         *)
add_sol_conn(n, c, key, m) ==
  LET old == Conns(c, key)
      new == [sol_conns |-> old.sol_conns \cup {m},
              sol_standby_conns |-> old.sol_standby_conns \ {m}]
  IN IF Cardinality(old.sol_conns) >= MaxSol[n]
     THEN Outcome(add_sol_standby_conn(c, key, m), Silence)
     ELSE Outcome([WithConns(c, key, new) EXCEPT !.unsol_conns = @ \ {m}],
                  IF m \in old.sol_conns THEN Silence ELSE OnEveryChannel(m, "SUBSCRIBE"))

add_unsol_conn(n, c, m) ==
  IF Unsol(c) >= MaxUnsol[n] THEN c
  ELSE [c EXCEPT !.unsol_conns = @ \cup {m}]

(* manage_subscriptions: some solicited peer goes to the reserve when      *)
(* there are enough of them, and one in reserve, perhaps the same, takes   *)
(* the room.                                                               *)
Dismissal_Silent(m) == Silence   \* slip: the peer is not told
Dismissal(m) == OnEveryChannel(m, "UNSUBSCRIBE")
Demoted(n, c, key) ==
  LET old == Conns(c, key)
      ToStandby(m) ==
        add_sol_standby_conn(WithConns(c, key, [old EXCEPT !.sol_conns = @ \ {m}]), key, m)
  IN IF Cardinality(old.sol_conns) >= MaxSol[n] /\ old.sol_conns # {}
     THEN {Outcome(ToStandby(m), Dismissal(m)) : m \in old.sol_conns}
     ELSE {Outcome(c, Silence)}

Promoted(n, o, key) ==
  LET now == Conns(o.conns, key)
      Solicit(m) == LET p == add_sol_conn(n, o.conns, key, m)
                    IN Outcome(p.conns, FollowedBy(o.sent, p.sent))
  IN IF Cardinality(now.sol_conns) < MaxSol[n] /\ now.sol_standby_conns # {}
     THEN {Solicit(m) : m \in now.sol_standby_conns}
     ELSE {o}

manage_subscriptions(n, c, key) ==
  UNION {Promoted(n, o, key) : o \in Demoted(n, c, key)}

(* did_close(m): m leaves every list; when it was solicited and turned us  *)
(* down it is blacklisted, and its cluster is rebalanced.  The loop runs   *)
(* over conn_map: without an entry there, unsol_conns is not looked at,    *)
(* and the pointer m leaves there dangles.                                 *)
Removed_NoStandby(c, key, m) ==   \* slip: the reserve is not looked at
  [WithConns(c, key, [c.conn_map[key] EXCEPT !.sol_conns = @ \ {m}])
     EXCEPT !.unsol_conns = @ \ {m}]
Removed(c, key, m) ==
  [WithConns(c, key, [sol_conns |-> c.conn_map[key].sol_conns \ {m},
                      sol_standby_conns |-> c.conn_map[key].sol_standby_conns \ {m}])
     EXCEPT !.unsol_conns = @ \ {m}]
IsSol(c, key, m) ==
  m \in c.conn_map[key].sol_conns \cup c.conn_map[key].sol_standby_conns

Blacklisted(c, m, why) ==
  IF why = 1 THEN [c EXCEPT !.blacklist_addr = @ \cup {m}] ELSE c

(* A loop over conn_map, of which step[key] is the turn of a cluster: each *)
(* turn sees the lists of its own cluster.  A peer is in the lists of the  *)
(* cluster it was discovered in, so that is the turn that sends to it.     *)
AllClusters(c, step) ==
  Outcome([c EXCEPT
             !.conn_map = [key \in DOMAIN @ |-> step[key].conns.conn_map[key]],
             !.unsol_conns = {p \in @ : \A key \in DOMAIN c.conn_map : p \in step[key].conns.unsol_conns},
             !.blacklist_addr = @ \cup UNION {step[key].conns.blacklist_addr : key \in DOMAIN c.conn_map}],
          [p \in Nodes |-> IF ClientKey[p] \in DOMAIN c.conn_map THEN step[ClientKey[p]].sent[p] ELSE <<>>])
EachCluster(c, turns) ==   \* turns[key]: what the turn of key may come to
  {AllClusters(c, step) : step \in {s \in [DOMAIN turns -> UNION {turns[key] : key \in DOMAIN turns}] :
                                      \A key \in DOMAIN turns : s[key] \in turns[key]}}

did_close(n, c, m, why) ==
  LET Turn(key) ==
        LET rest == Removed(c, key, m)
        IN IF IsSol(c, key, m) THEN manage_subscriptions(n, Blacklisted(rest, m, why), key)
           ELSE {Outcome(rest, Silence)}
      Deleted(o) ==
        IF m \in o.conns.unsol_conns
        THEN [o EXCEPT !.conns.unsol_conns = @ \ {m}, !.conns.dangling = @ + 1] ELSE o
  IN {Deleted(o) : o \in EachCluster(c, [key \in DOMAIN c.conn_map |-> Turn(key)])}

-----------------------------------------------------------------------------
(* Messages go out on connections that are established; the end of a       *)
(* connection takes what is in flight with it.                             *)

SendAll(q, ends, n, sent) ==
  [q EXCEPT ![n] = [m \in Nodes |-> IF ends[n][m] = "Up" THEN @[m] \o sent[m] ELSE @[m]]]
Emptied(q, n, m) == [q EXCEPT ![n][m] = <<>>, ![m][n] = <<>>]

Take(n, o) ==   \* node n's lists and messages after a handler
  /\ conns' = [conns EXCEPT ![n] = o.conns]
  /\ queue' = SendAll(queue, link, n, o.sent)

Quiet == \A n, m \in Nodes : Len(queue[n][m]) <= MaxQueue

(* subscribe: the beacon named m.                                          *)
subscribe(n, m) ==
  /\ <<n, m>> \in Discovers /\ m \notin conns[n].blacklist_addr
  /\ \/ /\ link[n][m] = "None"
        /\ link' = [link EXCEPT ![n][m] = "Dialing"]
        /\ UNCHANGED <<conns, queue>>
     \/ /\ link[n][m] = "Up"
        /\ Take(n, add_sol_conn(n, conns[n], ClientKey[m], m))
        /\ UNCHANGED link
  /\ UNCHANGED closes

(* The handshake of StreamConnection.  n's DIAL makes the end of m, which  *)
(* must not exist, and n is told; when both dialled, both are told.        *)
did_dial(n, m) ==
  LET Added(p, q) == add_sol_conn(p, conns[p], ClientKey[q], q)
  IN /\ link[n][m] = "Dialing"
     /\ link' = [link EXCEPT ![n][m] = "Up", ![m][n] = "Up"]
     /\ \/ /\ link[m][n] = "None" /\ m \in Acceptors
           /\ conns' = [conns EXCEPT ![n] = Added(n, m).conns]
           /\ queue' = SendAll(Emptied(queue, n, m), link', n, Added(n, m).sent)
        \/ /\ link[m][n] = "Dialing"
           /\ conns' = [conns EXCEPT ![n] = Added(n, m).conns, ![m] = Added(m, n).conns]
           /\ queue' = SendAll(SendAll(Emptied(queue, n, m), link', n, Added(n, m).sent),
                               link', m, Added(m, n).sent)
     /\ UNCHANGED closes

(* m receives n's next message, unless it closed its end.                  *)
Received(n, m, type) ==
  /\ link[m][n] = "Up" /\ queue[n][m] # <<>> /\ Head(queue[n][m]) = type

(* A blacklisted peer that subscribes is solicited after all; any other is *)
(* added to unsol_conns, and turned down when there is no room.            *)
Refuses_Forgiving(m, c, n) == FALSE   \* slip: a peer without room is kept connected
Refuses(m, c, n) == n \notin c.unsol_conns

did_recv_SUBSCRIBE(n, m) ==
  LET c == conns[m]
      listed == n \in c.blacklist_addr
      o == IF listed
           THEN add_sol_conn(m, [c EXCEPT !.blacklist_addr = @ \ {n}], ZeroKey, n)
           ELSE Outcome(add_unsol_conn(m, c, n), Silence)
      rest == [queue EXCEPT ![n][m] = Tail(@)]
  IN /\ Received(n, m, "SUBSCRIBE")
     /\ \/ /\ m \in Acceptors
           /\ conns' = [conns EXCEPT ![m] = o.conns]
           /\ queue' = SendAll(rest, link, m, o.sent)
           /\ link' = IF ~listed /\ Refuses(m, o.conns, n)
                      THEN [link EXCEPT ![m][n] = "Closing"] ELSE link
        \/ /\ m \notin Acceptors /\ queue' = rest
           /\ UNCHANGED <<conns, link>>
     /\ UNCHANGED closes

did_recv_UNSUBSCRIBE(n, m) ==
  /\ Received(n, m, "UNSUBSCRIBE")
  /\ conns' = [conns EXCEPT ![m].unsol_conns = @ \ {n}]
  /\ queue' = [queue EXCEPT ![n][m] = Tail(@)]
  /\ UNCHANGED <<link, closes>>

(* The end of n goes, and the lists are told.  The reason would come with  *)
(* the CLOSE of the other side, which nothing handles: it is 0.            *)
Gone(n, m) ==
  /\ link' = [link EXCEPT ![n][m] = "None"]
  /\ \E o \in did_close(n, conns[n], m, 0) :
       /\ conns' = [conns EXCEPT ![n] = o.conns]
       /\ queue' = SendAll(Emptied(queue, n, m), link', n, o.sent)

(* n closed, and repeated its CLOSE long enough.                           *)
close_timer_cb(n, m) == link[n][m] = "Closing" /\ Gone(n, m) /\ UNCHANGED closes

(* A dial is not answered, the other end is gone and answers with RST or   *)
(* does not acknowledge, or, MaxCloses times, the network fails.           *)
GiveUp(n, m) ==
  /\ \/ link[n][m] = "Dialing" /\ UNCHANGED closes
     \/ link[n][m] = "Up" /\ link[m][n] # "Up" /\ UNCHANGED closes
     \/ link[n][m] = "Up" /\ closes < MaxCloses /\ closes' = closes + 1
  /\ Gone(n, m)

(* A malformed or unverifiable message makes a node close.                 *)
close(n, m) ==
  /\ link[n][m] = "Up" /\ closes < MaxCloses /\ closes' = closes + 1
  /\ link' = [link EXCEPT ![n][m] = "Closing"]
  /\ UNCHANGED <<conns, queue>>

peer_selection_timer_cb(n) ==
  /\ Quiet
  /\ LET c == conns[n]
     IN \E o \in EachCluster(c, [key \in DOMAIN c.conn_map |-> manage_subscriptions(n, c, key)]) :
          Take(n, o)
  /\ UNCHANGED <<link, closes>>

blacklist_timer_cb(n) ==
  /\ conns' = [conns EXCEPT ![n].blacklist_addr = {}]
  /\ UNCHANGED <<link, queue, closes>>

Next ==
  \/ \E n, m \in Nodes :
       \/ subscribe(n, m) \/ did_dial(n, m)
       \/ did_recv_SUBSCRIBE(n, m) \/ did_recv_UNSUBSCRIBE(n, m)
       \/ GiveUp(n, m) \/ close(n, m) \/ close_timer_cb(n, m)
  \/ \E n \in Nodes : peer_selection_timer_cb(n) \/ blacklist_timer_cb(n)

Spec == Init /\ [][Next]_vars

-----------------------------------------------------------------------------
SolConns(n) == UNION {conns[n].conn_map[key].sol_conns : key \in DOMAIN conns[n].conn_map}
StandbyConns(n) ==
  UNION {conns[n].conn_map[key].sol_standby_conns : key \in DOMAIN conns[n].conn_map}

(* Both ends of a connection are up and nothing is on its way.             *)
Settled(n, m) ==
  /\ link[n][m] = "Up" /\ link[m][n] = "Up"
  /\ queue[n][m] = <<>> /\ queue[m][n] = <<>>

(* A node publishes to every peer that solicited it: once the messages     *)
(* between them have arrived, a peer that holds the node in sol_conns is   *)
(* in one of the lists send_message_on_channel goes through.  Said of      *)
(* nodes that do not solicit the peer in turn: those put it in reserve and *)
(* forget its subscription (add_sol_standby_conn takes it off unsol_conns).*)
(* And to no peer that gave it up: an entry of unsol_conns is a peer that  *)
(* still solicits the node (UNSUBSCRIBE is sent with every demotion).      *)
(* That is said while no connection was lost: see ListsAreLive.            *)
SubscribersServed ==
  \A n, m \in Nodes : Settled(n, m) =>
    /\ <<m, n>> \notin Discovers /\ m \in SolConns(n) => n \in conns[m].unsol_conns \cup SolConns(m)
    /\ closes = 0 /\ n \in conns[m].unsol_conns => m \in SolConns(n)

(* The sets hold pointers to transports: none outlives its transport.      *)
SolicitedAreLive ==
  \A n \in Nodes : \A m \in SolConns(n) \cup StandbyConns(n) : link[n][m] # "None"
ListsAreLive == \A n \in Nodes : conns[n].dangling = 0

(* A peer is solicited or in reserve, never both: else a demoted peer is   *)
(* still published to.                                                     *)
SolicitedOrStandby ==
  \A n \in Nodes : \A key \in DOMAIN conns[n].conn_map :
    conns[n].conn_map[key].sol_conns \cap conns[n].conn_map[key].sol_standby_conns = {}
=============================================================================
