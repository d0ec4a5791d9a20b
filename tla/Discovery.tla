------------------------------ MODULE Discovery ------------------------------
(***************************************************************************)
(* How relays are found: DiscoveryServer (a beacon), DiscoveryClient (a    *)
(* node that is discoverable, or looks for peers, or both) and             *)
(* ClusterDiscoverer, over UDP.  A beacon may itself be registered with    *)
(* another one (its raddr) under a client key; a ClusterDiscoverer asks    *)
(* that one for beacons, the beacons for relays, the relays for protocols, *)
(* and announces a relay under the cluster its beacon belongs to.          *)
(* now counts units of the heartbeat interval of 10 s.  A datagram may be  *)
(* lost, repeated and overtaken, and lives for at most MaxDelay.           *)
(***************************************************************************)
EXTENDS Integers, FiniteSets

CONSTANTS
  Servers, Clients, Discoverers,
  RAddr,            \* RAddr[s]: where a server registers, or NoAddr
  ServerKeys,       \* ServerKeys[s]: the client keys s may be started with
  Skew,             \* Skew[s]: how far the wall clock of s is ahead
  HeartbeatAddrs,   \* HeartbeatAddrs[n]: pairs <<server, fiber>>
  DiscoveryAddrs,   \* DiscoveryAddrs[n]: servers
  Protocols,        \* Protocols[n]: what get_protocols of a client returns
  Stoppable,        \* nodes that may stop or be closed
  Keys,             \* client keys the subgraph knows a cluster of
  NoAddr, ZeroKey, Off,
  HeartbeatPeriod, BeaconPeriod,   \* 10 s and 60 s
  PeerTimeout, MapTimeout,         \* 60 s and 120 s
  Window,           \* 60 s: how far the time of a REG may be off
  Word,             \* 2^64: clocks wrap
  PageSize,         \* entries of a LISTPEER
  Duplicates, MaxDelay, MaxMishaps, MaxTime   \* losses and stops share a bound

Nodes == Servers \cup Clients \cup Discoverers
Seekers == Clients \cup Discoverers
DiscoveryAssumption ==
  /\ {HeartbeatPeriod, BeaconPeriod, PeerTimeout, MapTimeout, PageSize} \subseteq Nat \ {0}
  /\ RAddr \in [Servers -> Servers \cup {NoAddr}] /\ ZeroKey \notin Keys
  /\ ServerKeys \in [Servers -> SUBSET (Keys \cup {ZeroKey})] /\ Skew \in [Servers -> Int]
  /\ HeartbeatAddrs \in [Clients -> SUBSET (Servers \X {"fiber", "h_fiber"})]
  /\ DiscoveryAddrs \in [Seekers -> SUBSET Servers]
  /\ Duplicates \in BOOLEAN /\ {MaxDelay, MaxMishaps, MaxTime} \subseteq Nat
WindowAssumption == Word \in Nat \ {0} /\ Window \in Nat /\ 2 * Window < Word
(* A node has one role; NoAddr and Off are nothing else.                   *)
RolesAssumption ==
  /\ Servers \cap Clients = {} /\ Servers \cap Discoverers = {} /\ Clients \cap Discoverers = {}
  /\ NoAddr \notin Nodes /\ Off \notin Int
(* No datagram is so old, and no clock so far ahead, that 64 bits wrap.    *)
ClockAssumption == \A s, p \in Servers : MaxDelay + Window + Skew[s] - Skew[p] < Word
PeriodsAssumption == HeartbeatPeriod <= BeaconPeriod
ASSUME DiscoveryAssumption
ASSUME PeriodsAssumption
ASSUME WindowAssumption
ASSUME RolesAssumption
ASSUME ClockAssumption

VARIABLES
  now,
  up,              \* nodes that run
  due,             \* due[<<n, t>>]: when timer t of n fires next, or Off
  skey,            \* the client key a server was started with
  peers,           \* DiscoveryServer::peers
  node_key_map, cluster_map, beacon_map,
  learned,         \* when clientkey_id_map was filled, or Off
  announced,       \* what new_peer_protocol was called with
  net,             \* datagrams under way
  lost, faults,    \* what the bounds count
  listed,          \* <<server, peer>> pairs a LISTPEER has carried (history)
  registered,      \* <<server, key>> pairs a REG has carried (history)
  failed           \* failed[n]: when n last stopped, or Off (history)

maps == <<node_key_map, cluster_map, beacon_map, announced>>
history == <<listed, registered, failed>>
vars == <<now, up, due, skey, peers, maps, learned, net, lost, faults, history>>

Timers == Nodes \X {"heartbeat", "beacon"}
NoEntry == [x \in {} |-> x]
NewPeer == [last_seen |-> 0, key |-> ZeroKey, address |-> ZeroKey]
At(map, x) == IF x \in DOMAIN map THEN map[x] ELSE NewPeer   \* operator[]
Put(map, x, v) == [y \in DOMAIN map \cup {x} |-> IF y = x THEN v ELSE map[y]]
PutAll(map, new) == [y \in DOMAIN map \cup DOMAIN new |-> IF y \in DOMAIN new THEN new[y] ELSE map[y]]
Only(map, S) == [x \in S |-> map[x]]

MapOf(S, V) == UNION {[D -> V] : D \in SUBSET S}
PeerEntry == [last_seen : Nat, key : Clients \cup {ZeroKey}, address : Keys \cup {ZeroKey}]
BeaconEntry == [via : Servers \cup {NoAddr}, last_seen : Nat]
AllProtocols == UNION {Protocols[c] : c \in Clients}
Announcement == [peer : Nodes, protocol : AllProtocols, key : Clients \cup {ZeroKey},
                 cluster : Keys \cup {NoAddr}]
TypeOK ==
  /\ now \in 0 .. MaxTime /\ up \subseteq Nodes
  /\ due \in [Timers -> Nat \cup {Off}]
  /\ skey \in [Servers -> Keys \cup {ZeroKey}] /\ \A s \in Servers : skey[s] \in ServerKeys[s]
  /\ peers \in [Servers -> MapOf(Nodes, PeerEntry)]
  /\ node_key_map \in [Seekers -> MapOf(Nodes, Clients \cup {ZeroKey})]
  /\ cluster_map \in [Discoverers -> MapOf(Nodes \cup {NoAddr}, PeerEntry)]
  /\ beacon_map \in [Discoverers -> MapOf(Nodes, BeaconEntry)]
  /\ announced \in [Seekers -> SUBSET Announcement]
  /\ learned \in Nat \cup {Off} /\ lost \in Nat /\ faults \in Nat
  /\ \A m \in net : m.dst \in Nodes /\ m.at \in 0 .. now /\ now <= m.at + MaxDelay
  /\ listed \subseteq Servers \X Nodes /\ registered \subseteq Servers \X (Keys \cup {ZeroKey})
  /\ failed \in [Nodes -> Nat \cup {Off}]

-----------------------------------------------------------------------------
(* Datagrams                                                               *)

Message(type, src, dst, body) == [type |-> type, src |-> src, dst |-> dst, body |-> body, at |-> now]

Take(m, out) ==
  /\ \E kept \in IF Duplicates THEN {{}, {m}} ELSE {{}} : net' = (net \ {m}) \cup kept \cup out
Post(out) == net' = net \cup out

Receive(type, n, m) == m \in net /\ m.type = type /\ m.dst = n /\ n \in up
(* Datagrams to a node that is down are lost without counting; so are they *)
(* all on a network that repeats them, where one may be a mere copy.       *)
Counted(m) == m.dst \in up /\ ~Duplicates
Lose ==
  \E m \in net : /\ Counted(m) => lost + faults < MaxMishaps
                 /\ lost' = IF Counted(m) THEN lost + 1 ELSE lost
                 /\ net' = net \ {m}
                 /\ UNCHANGED <<now, up, due, skey, peers, maps, learned, faults, history>>

-----------------------------------------------------------------------------
(* DiscoveryServer                                                         *)

Minus(a, b) == IF a >= b THEN a - b ELSE a - b + Word   \* uint64_t
WallClock(s) == (now + Skew[s] + Word) % Word
(* A REG whose time is too old or too far in the future.                   *)
TimeError_Never(cur_time, p_time) == FALSE   \* slip
TimeError(cur_time, p_time) ==
  Minus(cur_time, p_time) > Window /\ Minus(p_time, cur_time) > Window

Stale_Peers_Period(s) ==   \* slip: a heartbeat is missed
  {p \in DOMAIN peers[s] : now - peers[s][p].last_seen > HeartbeatPeriod}
Stale_Peers(s) == {p \in DOMAIN peers[s] : now - peers[s][p].last_seen > PeerTimeout}
REG(s) ==
  IF RAddr[s] = NoAddr THEN {}
  ELSE {Message("REG", s, RAddr[s], [fiber |-> "h_fiber", key |-> skey[s], time |-> WallClock(s)])}
server_timer_cb(s) ==
  /\ s \in up /\ due[<<s, "heartbeat">>] = now
  /\ due' = [due EXCEPT ![<<s, "heartbeat">>] = now + HeartbeatPeriod]
  /\ peers' = [peers EXCEPT ![s] = Only(@, DOMAIN @ \ Stale_Peers(s))]
  /\ Post(REG(s))
  /\ UNCHANGED <<now, up, skey, maps, learned, lost, faults, history>>

(* Only what arrives on h_fiber is registered.                             *)
Heard_NoKey(m, entry) == [entry EXCEPT !.last_seen = now]   \* slip
Heard(m, entry) == [entry EXCEPT !.last_seen = now, !.key = m.body.key]
did_recv_HEARTBEAT(s, m) ==
  /\ Receive("HEARTBEAT", s, m)
  /\ peers' = IF m.body.fiber # "h_fiber" THEN peers
              ELSE [peers EXCEPT ![s] = Put(@, m.src, Heard(m, At(@, m.src)))]
  /\ Take(m, {})
  /\ UNCHANGED <<now, up, due, skey, maps, learned, lost, faults, history>>

Registration(s, m, entry) ==   \* an unsigned REG leaves the address alone
  [entry EXCEPT !.last_seen = now,
                !.address = IF m.body.key = ZeroKey THEN @ ELSE m.body.key]
Rejected(s, m) ==
  \/ m.body.fiber # "h_fiber"
  \/ m.body.key # ZeroKey /\ TimeError(WallClock(s), m.body.time)
did_recv_REG(s, m) ==
  /\ Receive("REG", s, m)
  /\ IF Rejected(s, m) THEN UNCHANGED <<peers, registered>>
     ELSE /\ peers' = [peers EXCEPT ![s] = Put(@, m.src, Registration(s, m, At(@, m.src)))]
          /\ registered' = registered \cup {<<m.src, m.body.key>>}
  /\ Take(m, {})
  /\ UNCHANGED <<now, up, due, skey, maps, learned, lost, faults, listed, failed>>

(* All but the asker, on pages; the order is that of an unordered_map.     *)
Listing(s, asker) == DOMAIN peers[s] \ {asker}
Pages(S) ==
  {P \in SUBSET (SUBSET S \ {{}}) :
     /\ UNION P = S /\ \A p, q \in P : p = q \/ p \cap q = {}
     /\ \A p \in P : Cardinality(p) <= PageSize
     /\ Cardinality({p \in P : Cardinality(p) < PageSize}) <= 1}
did_recv_DISCPEER(s, m) ==
  /\ Receive("DISCPEER", s, m)
  /\ \E P \in Pages({<<p, peers[s][p].key>> : p \in Listing(s, m.src)}) :
       Take(m, {Message("LISTPEER", s, m.src, page) : page \in P})
  /\ listed' = listed \cup {<<s, p>> : p \in Listing(s, m.src)}
  /\ UNCHANGED <<now, up, due, skey, peers, maps, learned, lost, faults, registered, failed>>

LISTCLUSTER2(s, asker) ==   \* one page of 150 entries, none when there is nothing to list
  LET all == {<<p, peers[s][p].address>> : p \in Listing(s, asker)}
  IN IF all = {} THEN {} ELSE {Message("LISTCLUSTER2", s, asker, all)}
did_recv_DISCCLUSTER2(s, m) ==
  /\ Receive("DISCCLUSTER2", s, m)
  /\ Take(m, LISTCLUSTER2(s, m.src))
  /\ UNCHANGED <<now, up, due, skey, peers, maps, learned, lost, faults, history>>

(* DiscoveryServer has no protocols, and a server is never asked for any   *)
(* by a ClusterDiscoverer.                                                 *)
LISTPROTO(n, asker) == Message("LISTPROTO", n, asker, IF n \in Clients THEN Protocols[n] ELSE {})
did_recv_DISCPROTO(n, m) ==
  /\ Receive("DISCPROTO", n, m)
  /\ Take(m, {LISTPROTO(n, m.src)})
  /\ UNCHANGED <<now, up, due, skey, peers, maps, learned, lost, faults, history>>

-----------------------------------------------------------------------------
(* DiscoveryClient and ClusterDiscoverer                                   *)

HEARTBEAT(n, h) == Message("HEARTBEAT", n, h[1], [fiber |-> h[2], key |-> n])
heartbeat_timer_cb(n) ==
  /\ n \in up /\ due[<<n, "heartbeat">>] = now
  /\ due' = [due EXCEPT ![<<n, "heartbeat">>] = now + HeartbeatPeriod]
  /\ Post({HEARTBEAT(n, h) : h \in HeartbeatAddrs[n]})
  /\ UNCHANGED <<now, up, skey, peers, maps, learned, lost, faults, history>>

Query(n) == IF n \in Clients THEN "DISCPEER" ELSE "DISCCLUSTER2"
Old(entry) == entry.last_seen + MapTimeout < now
Pruned(map) == Only(map, {x \in DOMAIN map : ~Old(map[x])})
beacon_timer_cb(n) ==
  /\ n \in up /\ due[<<n, "beacon">>] = now
  /\ due' = [due EXCEPT ![<<n, "beacon">>] = now + BeaconPeriod]
  /\ Post({Message(Query(n), n, s, {}) : s \in DiscoveryAddrs[n]})
  /\ cluster_map' = [cluster_map EXCEPT ![n] = Pruned(@)]
  /\ beacon_map' = [beacon_map EXCEPT ![n] = Pruned(@)]
  /\ UNCHANGED <<now, up, skey, peers, node_key_map, announced, learned, lost, faults, history>>

did_recv_LISTCLUSTER2(d, m) ==
  /\ Receive("LISTCLUSTER2", d, m)
  /\ LET seen == {e[1] : e \in m.body}
         fresh == [c \in seen |-> [last_seen |-> now, key |-> ZeroKey,
                                   address |-> (CHOOSE e \in m.body : e[1] = c)[2]]]
     IN /\ cluster_map' = [cluster_map EXCEPT ![d] = PutAll(@, fresh)]
        /\ Take(m, {Message("DISCPEER", d, c, {}) : c \in seen})
  /\ UNCHANGED <<now, up, due, skey, peers, node_key_map, beacon_map, announced, learned,
                 lost, faults, history>>

did_recv_LISTPEER(n, m) ==
  /\ Receive("LISTPEER", n, m)
  /\ LET seen == {e[1] : e \in m.body}
     IN /\ node_key_map' = [node_key_map EXCEPT ![n] =
                              PutAll(@, [p \in seen |-> (CHOOSE e \in m.body : e[1] = p)[2]])]
        /\ beacon_map' = IF n \in Clients THEN beacon_map
                         ELSE [beacon_map EXCEPT ![n] =
                                PutAll(@, [p \in seen |-> [via |-> m.src, last_seen |-> now]])]
        /\ Take(m, {Message("DISCPROTO", n, p, {}) : p \in seen})
  /\ UNCHANGED <<now, up, due, skey, peers, cluster_map, announced, learned, lost, faults, history>>

(* node_key_map, beacon_map and cluster_map are read with operator[]: what *)
(* they do not have is created.                                            *)
KeyOf(n, p) == IF p \in DOMAIN node_key_map[n] THEN node_key_map[n][p] ELSE ZeroKey
Via(d, p) == IF p \in DOMAIN beacon_map[d] THEN beacon_map[d][p] ELSE [via |-> NoAddr, last_seen |-> 0]
Announcements(n, m, cluster) ==
  {[peer |-> m.src, protocol |-> x, key |-> KeyOf(n, m.src), cluster |-> cluster] : x \in m.body}
ClusterKey_Any(d, p) ==   \* slip: the relay is taken to belong to some beacon
  IF DOMAIN cluster_map[d] = {} THEN ZeroKey
  ELSE LET c == CHOOSE c \in DOMAIN cluster_map[d] : TRUE IN cluster_map[d][c].address
ClusterKey_Direct(d, p) == At(cluster_map[d], p).address   \* slip
ClusterKey(d, p) == At(cluster_map[d], Via(d, p).via).address

did_recv_LISTPROTO(n, m) ==
  /\ Receive("LISTPROTO", n, m)
  /\ Take(m, {})
  /\ IF m.body = {} THEN UNCHANGED maps
     ELSE /\ node_key_map' = [node_key_map EXCEPT ![n] = Put(@, m.src, KeyOf(n, m.src))]
          /\ IF n \in Clients
             THEN /\ announced' = [announced EXCEPT ![n] = @ \cup Announcements(n, m, NoAddr)]
                  /\ UNCHANGED <<cluster_map, beacon_map>>
             ELSE LET via == Via(n, m.src)  key == ClusterKey(n, m.src)
                  IN /\ beacon_map' = [beacon_map EXCEPT ![n] = Put(@, m.src, via)]
                     /\ cluster_map' = [cluster_map EXCEPT ![n] = Put(@, via.via, At(@, via.via))]
                     /\ announced' = IF key \notin Keys \/ learned = Off THEN announced
                                     ELSE [announced EXCEPT ![n] = @ \cup Announcements(n, m, key)]
  /\ UNCHANGED <<now, up, due, skey, peers, learned, lost, faults, history>>

(* The answer of the subgraph reaches Grapher::clientkey_id_map.           *)
Learn ==
  /\ up \cap Discoverers # {} /\ learned = Off /\ learned' = now
  /\ UNCHANGED <<now, up, due, skey, peers, maps, net, lost, faults, history>>

-----------------------------------------------------------------------------
(* Nodes stop and start; time passes                                       *)

StartOf(n) ==   \* the timers a node starts, all at once, but for those that do nothing
  {"heartbeat" : x \in {y \in {n} : n \in Servers \/ (n \in Clients /\ HeartbeatAddrs[n] # {})}}
  \cup {"beacon" : x \in {y \in {n} \cap Seekers : n \in Discoverers \/ DiscoveryAddrs[n] # {}}}
Timing(n, t) == [tm \in Timers |-> IF tm[1] # n THEN due[tm]
                                   ELSE IF tm[2] \in StartOf(n) THEN t ELSE Off]
Stop(n) ==
  /\ n \in up \cap Stoppable /\ lost + faults < MaxMishaps /\ faults' = faults + 1
  /\ up' = up \ {n} /\ failed' = [failed EXCEPT ![n] = now]
  /\ due' = Timing(n, Off)
  /\ peers' = IF n \in Servers THEN [peers EXCEPT ![n] = NoEntry] ELSE peers
  /\ node_key_map' = IF n \in Seekers THEN [node_key_map EXCEPT ![n] = NoEntry] ELSE node_key_map
  /\ cluster_map' = IF n \in Discoverers THEN [cluster_map EXCEPT ![n] = NoEntry] ELSE cluster_map
  /\ beacon_map' = IF n \in Discoverers THEN [beacon_map EXCEPT ![n] = NoEntry] ELSE beacon_map
  /\ UNCHANGED <<now, skey, announced, learned, net, lost, listed, registered>>

Start(n) ==
  /\ n \notin up /\ up' = up \cup {n} /\ due' = Timing(n, now)
  /\ \E k \in IF n \in Servers THEN ServerKeys[n] ELSE {ZeroKey} :
       skey' = IF n \in Servers THEN [skey EXCEPT ![n] = k] ELSE skey
  /\ UNCHANGED <<now, peers, maps, learned, net, lost, faults, history>>

close(n) ==   \* the node still answers
  /\ n \in up \cap Stoppable /\ lost + faults < MaxMishaps /\ faults' = faults + 1
  /\ due' = Timing(n, Off) /\ failed' = [failed EXCEPT ![n] = now]
  /\ UNCHANGED <<now, up, skey, peers, maps, learned, net, lost, listed, registered>>

Tick ==
  /\ now < MaxTime /\ now' = now + 1
  /\ \A tm \in Timers : due[tm] # now
  /\ \A m \in net : now < m.at + MaxDelay
  /\ UNCHANGED <<up, due, skey, peers, maps, learned, net, lost, faults, history>>

Init ==
  /\ now = 0 /\ up = Nodes /\ net = {} /\ lost = 0 /\ faults = 0
  /\ due = [tm \in Timers |-> IF tm[2] \in StartOf(tm[1]) THEN 0 ELSE Off]
  /\ skey \in [Servers -> Keys \cup {ZeroKey}] /\ \A s \in Servers : skey[s] \in ServerKeys[s]
  /\ peers = [s \in Servers |-> NoEntry]
  /\ node_key_map = [n \in Seekers |-> NoEntry]
  /\ cluster_map = [d \in Discoverers |-> NoEntry] /\ beacon_map = [d \in Discoverers |-> NoEntry]
  /\ learned = Off /\ announced = [n \in Seekers |-> {}]
  /\ listed = {} /\ registered = {} /\ failed = [n \in Nodes |-> Off]

ServerStep(s) ==
  \/ server_timer_cb(s)
  \/ \E m \in net : \/ did_recv_HEARTBEAT(s, m) \/ did_recv_REG(s, m)
                    \/ did_recv_DISCPEER(s, m) \/ did_recv_DISCCLUSTER2(s, m)
SeekerStep(n) ==
  \/ beacon_timer_cb(n)
  \/ \E m \in net : did_recv_LISTPEER(n, m) \/ did_recv_LISTPROTO(n, m)
Next ==
  \/ \E s \in Servers : ServerStep(s)
  \/ \E n \in Seekers : SeekerStep(n) \/ close(n)
  \/ \E n \in Clients : heartbeat_timer_cb(n)
  \/ \E d \in Discoverers, m \in net : did_recv_LISTCLUSTER2(d, m)
  \/ \E n \in Servers \cup Clients, m \in net : did_recv_DISCPROTO(n, m)
  \/ \E n \in Nodes : Stop(n) \/ Start(n)
  \/ Learn \/ Lose \/ Tick

Spec == Init /\ [][Next]_vars

-----------------------------------------------------------------------------
(* Properties                                                              *)

(* A beacon that stopped disappears from the one it registered with, even  *)
(* when the network delays or repeats its REGs for longer than the window: *)
(* their signed time gives them away.  A HEARTBEAT has no time: a relay    *)
(* disappears once the network has delivered its last one.                 *)
Least(a, b) == IF a <= b THEN a ELSE b
Signs(n) == n \in Servers /\ ZeroKey \notin ServerKeys[n]
LastRefresh(s, n) ==
  failed[n] + IF Signs(n) THEN Least(MaxDelay, Window + Skew[n] - Skew[s]) ELSE MaxDelay
StoppedIsForgotten ==
  \A s \in up \cap Servers, n \in Nodes \ up :
    now > LastRefresh(s, n) + PeerTimeout + HeartbeatPeriod => n \notin DOMAIN peers[s]

(* A relay is announced under the client key of a beacon that listed it:   *)
(* not of another one, and not when the beacon is not known any more       *)
(* (cluster_map[beacon_map[addr].first] in did_recv_LISTPROTO).            *)
AnnouncedUnderItsCluster ==
  \A d \in Discoverers : \A a \in announced[d] :
    \E c \in Servers : <<c, a.peer>> \in listed /\ <<c, a.cluster>> \in registered

(* The key a peer is announced with is the one it put in its heartbeats,   *)
(* though it travels by another datagram than the protocols, from another  *)
(* node (node_key_map), unless the seeker itself was restarted in between. *)
AnnouncedWithItsKey ==
  \A n \in Seekers : failed[n] = Off => \A a \in announced[n] : a.key = a.peer

(* On a network without delay a running relay is in the lists of its       *)
(* beacons from its first heartbeat that arrives on, and a few losses do   *)
(* not throw it out.                                                       *)
Survivable == MaxDelay = 0 /\ ~Duplicates /\ (lost + 1) * HeartbeatPeriod <= PeerTimeout
LiveRelayListed ==
  Survivable /\ now > lost * HeartbeatPeriod =>
    \A c \in Clients : \A h \in HeartbeatAddrs[c] :
      h[2] = "h_fiber" /\ failed[c] = Off /\ failed[h[1]] = Off => c \in DOMAIN peers[h[1]]

(* From beacon to beacon, page to page and answer to answer, a discoverer  *)
(* announces each running relay of a cluster it knows within a period of   *)
(* its timer, and one more for each loss.  A relay that registers with     *)
(* several beacons is announced under the one that listed it last, and a   *)
(* beacon whose clock is off by more than the window is not listed.        *)
HeardBy(c) == {s \in Servers : <<s, "h_fiber">> \in HeartbeatAddrs[c]}
ClocksAgree(s, r) == Skew[s] - Skew[r] \in -Window .. Window
AnnouncedInTime ==
  \A d \in Discoverers, s \in Servers, c \in Clients :
    LET k == skey[s]
    IN /\ Survivable /\ HeardBy(c) = {s} /\ RAddr[s] \in DiscoveryAddrs[d]
       /\ k \in Keys /\ ClocksAgree(s, RAddr[s]) /\ learned # Off
       /\ \A n \in {d, s, c, RAddr[s]} : failed[n] = Off
       /\ now > learned + (lost + 1) * BeaconPeriod
       => \A x \in Protocols[c] :
            [peer |-> c, protocol |-> x, key |-> c, cluster |-> k] \in announced[d]
=============================================================================
