-------------------------- MODULE Discovery_proofs --------------------------
(***************************************************************************)
(* Proofs about Discovery: what is listed and announced is true, whatever  *)
(* the network repeats or reorders; who stops is forgotten in time; who    *)
(* runs is listed and announced in time, however the network loses.        *)
(***************************************************************************)
EXTENDS Discovery, TLAPS

(* A datagram says what its sender is and knows: its key, its time; a page *)
(* of relays names each with the key of that relay.                        *)
MessageOK(m) ==
  /\ m.src \in Nodes /\ m.dst \in Nodes /\ m.at \in Nat
  /\ m.type = "HEARTBEAT" => m.src \in Clients /\ m.body.key = m.src
  /\ m.type = "REG" => /\ m.src \in Servers
                       /\ m.body.key \in ServerKeys[m.src]
                       /\ m.body.time = (m.at + Skew[m.src] + Word) % Word
  /\ m.type = "DISCPROTO" => m.src \in Seekers
  /\ m.type = "LISTPROTO" => m.body \subseteq AllProtocols /\ (m.body # {} => m.src \in Clients)
  /\ m.type = "LISTPEER" =>
       /\ m.src \in Servers
       /\ \A e \in m.body : /\ e[1] \in Nodes /\ e[2] \in Clients \cup {ZeroKey}
                            /\ e[1] \in Clients => e[2] = e[1]
  /\ m.type = "LISTCLUSTER2" => \A e \in m.body : e[1] \in Nodes /\ e[2] \in Keys \cup {ZeroKey}
MessagesOK == \A m \in net : MessageOK(m)
(* A server has each relay under the key of that relay.                    *)
KeysHeard == \A s \in Servers : \A c \in DOMAIN peers[s] \cap Clients : peers[s][c].key = c
(* What every other argument about discovery rests on.                     *)
Base == TypeOK /\ MessagesOK /\ KeysHeard

-----------------------------------------------------------------------------
(* Maps                                                                    *)

(* A map with keys in S and values in V is a function on some of S.        *)
LEMMA MapParts ==
  ASSUME NEW S, NEW V, NEW f \in MapOf(S, V)
  PROVE  DOMAIN f \subseteq S /\ f \in [DOMAIN f -> V] /\ \A x \in DOMAIN f : f[x] \in V
<1>1. PICK D \in SUBSET S : f \in [D -> V]  BY DEF MapOf
<1> QED BY <1>1

(* And such a function is one.                                             *)
LEMMA MapMade ==
  ASSUME NEW S, NEW V, NEW D \in SUBSET S, NEW f \in [D -> V]
  PROVE  f \in MapOf(S, V)
BY DEF MapOf

(* operator[] on the left of an assignment.                                *)
LEMMA PutMap ==
  ASSUME NEW S, NEW V, NEW f \in MapOf(S, V), NEW x \in S, NEW v \in V
  PROVE  /\ Put(f, x, v) \in MapOf(S, V)
         /\ DOMAIN Put(f, x, v) = DOMAIN f \cup {x}
         /\ Put(f, x, v)[x] = v
         /\ \A y \in DOMAIN f : y # x => Put(f, x, v)[y] = f[y]
<1>1. DOMAIN f \subseteq S /\ \A y \in DOMAIN f : f[y] \in V  BY MapParts
<1> DEFINE g == [y \in DOMAIN f \cup {x} |-> IF y = x THEN v ELSE f[y]]
<1>2. g \in [DOMAIN f \cup {x} -> V] /\ DOMAIN f \cup {x} \in SUBSET S  BY <1>1
<1>3. g \in MapOf(S, V)  BY <1>2, MapMade
<1>4. Put(f, x, v) = g  BY DEF Put
<1> QED BY <1>3, <1>4

(* What a page lists replaces what the map has of it.                      *)
LEMMA PutAllMap ==
  ASSUME NEW S, NEW V, NEW f \in MapOf(S, V), NEW D \in SUBSET S, NEW new \in [D -> V]
  PROVE  /\ PutAll(f, new) \in MapOf(S, V)
         /\ DOMAIN PutAll(f, new) = DOMAIN f \cup D
         /\ \A y \in D : PutAll(f, new)[y] = new[y]
         /\ \A y \in DOMAIN f : y \notin D => PutAll(f, new)[y] = f[y]
<1>1. DOMAIN f \subseteq S /\ \A y \in DOMAIN f : f[y] \in V  BY MapParts
<1> DEFINE g == [y \in DOMAIN f \cup D |-> IF y \in D THEN new[y] ELSE f[y]]
<1>2. g \in [DOMAIN f \cup D -> V] /\ DOMAIN f \cup D \in SUBSET S  BY <1>1
<1>3. g \in MapOf(S, V)  BY <1>2, MapMade
<1>4. DOMAIN new = D  OBVIOUS
<1>5. PutAll(f, new) = g  BY <1>4 DEF PutAll
<1> QED BY <1>3, <1>5

(* A map cut down to some of its keys.                                     *)
LEMMA OnlyMap ==
  ASSUME NEW S, NEW V, NEW f \in MapOf(S, V), NEW D \in SUBSET DOMAIN f
  PROVE  /\ Only(f, D) \in MapOf(S, V)
         /\ DOMAIN Only(f, D) = D /\ \A y \in D : Only(f, D)[y] = f[y]
<1>1. DOMAIN f \subseteq S /\ \A y \in DOMAIN f : f[y] \in V  BY MapParts
<1> DEFINE g == [y \in D |-> f[y]]
<1>2. g \in [D -> V] /\ D \in SUBSET S  BY <1>1
<1>3. g \in MapOf(S, V)  BY <1>2, MapMade
<1>4. Only(f, D) = g  BY DEF Only
<1> QED BY <1>3, <1>4

(* The empty map is one.                                                   *)
LEMMA NoEntryMap == ASSUME NEW S, NEW V PROVE NoEntry \in MapOf(S, V) /\ DOMAIN NoEntry = {}
<1> DEFINE g == [x \in {} |-> x]
<1>1. g \in [{} -> V]  OBVIOUS
<1>2. g \in MapOf(S, V)  BY <1>1, MapMade
<1> QED BY <1>2 DEF NoEntry

(* What operator[] finds in a list of peers, or makes.                     *)
LEMMA AtEntry ==
  ASSUME NEW S, NEW f \in MapOf(S, PeerEntry), NEW x
  PROVE  At(f, x) \in PeerEntry /\ (x \in DOMAIN f => At(f, x) = f[x])
                                /\ (x \notin DOMAIN f => At(f, x).address = ZeroKey)
<1>1. NewPeer \in PeerEntry /\ NewPeer.address = ZeroKey  BY DEF NewPeer, PeerEntry
<1>2. \A y \in DOMAIN f : f[y] \in PeerEntry  BY MapParts
<1> QED BY <1>1, <1>2 DEF At

-----------------------------------------------------------------------------
(* Datagrams and entries                                                   *)

(* The fields of a datagram.                                               *)
LEMMA MessageParts ==
  ASSUME NEW type, NEW src, NEW dst, NEW body
  PROVE  LET m == Message(type, src, dst, body)
         IN m.type = type /\ m.src = src /\ m.dst = dst /\ m.body = body /\ m.at = now
BY DEF Message

(* A handler takes one datagram and sends others; nothing else is lost.    *)
LEMMA Taken ==
  ASSUME NEW m \in net, NEW out, Take(m, out)
  PROVE  net' \subseteq net \cup out /\ net \ {m} \subseteq net' /\ out \subseteq net'
<1>1. PICK kept \in IF Duplicates THEN {{}, {m}} ELSE {{}} : net' = (net \ {m}) \cup kept \cup out  BY DEF Take
<1>2. kept = {} \/ kept = {m}  OBVIOUS
<1> QED BY <1>1, <1>2

(* A step that sends well-made datagrams, at the time it runs, leaves      *)
(* the network well made.                                                  *)
LEMMA NetStep ==
  ASSUME NEW out, TypeOK, MessagesOK, net' \subseteq net \cup out, now' = now,
         \A o \in out : MessageOK(o) /\ o.at = now
  PROVE  MessagesOK' /\ \A m \in net' : m.dst \in Nodes /\ m.at \in 0 .. now' /\ now' <= m.at + MaxDelay
<1>1. now \in Nat /\ MaxDelay \in Nat /\ MaxTime \in Nat  BY DiscoveryAssumption DEF TypeOK, DiscoveryAssumption
<1>2. ASSUME NEW m \in net'
      PROVE  MessageOK(m) /\ m.dst \in Nodes /\ m.at \in 0 .. now' /\ now' <= m.at + MaxDelay
  <2>1. CASE m \in net  BY <2>1, <1>1 DEF TypeOK, MessagesOK
  <2>2. CASE m \in out
    <3>1. MessageOK(m) /\ m.at = now  BY <2>2
    <3>2. m.dst \in Nodes  BY <3>1 DEF MessageOK
    <3> QED BY <3>1, <3>2, <1>1
  <2> QED BY <1>2, <2>1, <2>2
<1>3. \A m \in net' : MessageOK(m)  BY <1>2
<1>4. MessagesOK'  BY <1>3 DEF MessagesOK
<1> QED BY <1>2, <1>4

(* So does one that sends none.                                            *)
LEMMA NetTaken ==
  ASSUME TypeOK, MessagesOK, net' \subseteq net, now' = now
  PROVE  MessagesOK' /\ \A m \in net' : m.dst \in Nodes /\ m.at \in 0 .. now' /\ now' <= m.at + MaxDelay
BY DEF TypeOK, MessagesOK

(* And one that sends a single answer.                                     *)
LEMMA NetAnswered ==
  ASSUME NEW o, TypeOK, MessagesOK, net' \subseteq net \cup {o}, now' = now, MessageOK(o), o.at = now
  PROVE  MessagesOK' /\ \A m \in net' : m.dst \in Nodes /\ m.at \in 0 .. now' /\ now' <= m.at + MaxDelay
<1> DEFINE out == {o}
<1>1. net' \subseteq net \cup out /\ \A x \in out : MessageOK(x) /\ x.at = now  OBVIOUS
<1> HIDE DEF out
<1> QED BY <1>1, NetStep

(* What a heartbeat leaves in the list of a server.                        *)
LEMMA HeardEntry ==
  ASSUME NEW entry \in PeerEntry, NEW m, m.body.key \in Clients \cup {ZeroKey}, now \in Nat
  PROVE  /\ Heard(m, entry) \in PeerEntry /\ Heard(m, entry).last_seen = now
         /\ Heard(m, entry).key = m.body.key /\ Heard(m, entry).address = entry.address
BY Zenon DEF Heard, PeerEntry

(* What a registration leaves there.                                       *)
LEMMA RegisteredEntry ==
  ASSUME NEW entry \in PeerEntry, NEW s, NEW m, m.body.key \in Keys \cup {ZeroKey}, now \in Nat
  PROVE  LET r == Registration(s, m, entry)
         IN /\ r \in PeerEntry /\ r.last_seen = now /\ r.key = entry.key
            /\ r.address = IF m.body.key = ZeroKey THEN entry.address ELSE m.body.key
<1> DEFINE a == IF m.body.key = ZeroKey THEN entry.address ELSE m.body.key
           r == [entry EXCEPT !.last_seen = now, !.address = a]
<1>1. a \in Keys \cup {ZeroKey}  BY DEF PeerEntry
<1>2. Registration(s, m, entry) = r  BY Zenon DEF Registration
<1> HIDE DEF a
<1>3. r \in PeerEntry /\ r.last_seen = now /\ r.key = entry.key /\ r.address = a  BY <1>1, Zenon DEF PeerEntry
<1> QED BY <1>2, <1>3 DEF a

-----------------------------------------------------------------------------
(* Base is inductive                                                       *)

(* A server refreshes one entry of its list.                               *)
LEMMA PeersPut ==
  ASSUME TypeOK, NEW s \in Servers, NEW p \in Nodes, NEW e \in PeerEntry,
         peers' = [peers EXCEPT ![s] = Put(@, p, e)]
  PROVE  /\ peers' \in [Servers -> MapOf(Nodes, PeerEntry)]
         /\ \A q \in Servers : q # s => peers'[q] = peers[q]
         /\ DOMAIN peers'[s] = DOMAIN peers[s] \cup {p} /\ peers'[s][p] = e
         /\ \A x \in DOMAIN peers[s] : x # p => peers'[s][x] = peers[s][x]
<1>1. peers \in [Servers -> MapOf(Nodes, PeerEntry)]  BY DEF TypeOK
<1> DEFINE l == peers[s]  f == Put(l, p, e)
<1>2. l \in MapOf(Nodes, PeerEntry)  BY <1>1
<1>3. /\ f \in MapOf(Nodes, PeerEntry) /\ DOMAIN f = DOMAIN l \cup {p} /\ f[p] = e
      /\ \A x \in DOMAIN l : x # p => f[x] = l[x]
  <2> HIDE DEF l
  <2>1. f \in MapOf(Nodes, PeerEntry)  BY <1>2, PutMap
  <2>2. DOMAIN f = DOMAIN l \cup {p} /\ f[p] = e  BY DEF Put
  <2>3. \A x \in DOMAIN l : x # p => f[x] = l[x]  BY DEF Put
  <2> QED BY <2>1, <2>2, <2>3
<1>4. peers' = [peers EXCEPT ![s] = f]  OBVIOUS
<1> HIDE DEF f
<1>5. peers' \in [Servers -> MapOf(Nodes, PeerEntry)] /\ peers'[s] = f
      /\ \A q \in Servers : q # s => peers'[q] = peers[q]
  BY <1>1, <1>3, <1>4
<1> QED BY <1>3, <1>5

(* A server drops entries of its list.                                     *)
LEMMA PeersOnly ==
  ASSUME TypeOK, NEW s \in Servers, NEW D \in SUBSET DOMAIN peers[s],
         peers' = [peers EXCEPT ![s] = Only(@, D)]
  PROVE  /\ peers' \in [Servers -> MapOf(Nodes, PeerEntry)]
         /\ \A q \in Servers : q # s => peers'[q] = peers[q]
         /\ DOMAIN peers'[s] = D /\ \A x \in D : peers'[s][x] = peers[s][x]
<1>1. peers \in [Servers -> MapOf(Nodes, PeerEntry)]  BY DEF TypeOK
<1>2. peers[s] \in MapOf(Nodes, PeerEntry)  BY <1>1
<1> DEFINE f == Only(peers[s], D)
<1>3. f \in MapOf(Nodes, PeerEntry) /\ DOMAIN f = D /\ \A x \in D : f[x] = peers[s][x]
  BY <1>2, OnlyMap
<1>4. peers' = [peers EXCEPT ![s] = f]  OBVIOUS
<1> HIDE DEF f
<1>5. peers' \in [Servers -> MapOf(Nodes, PeerEntry)] /\ peers'[s] = f
      /\ \A q \in Servers : q # s => peers'[q] = peers[q]
  BY <1>1, <1>3, <1>4
<1> QED BY <1>3, <1>5

(* The constants have their types, and the roles are of nodes.             *)
LEMMA Constants ==
  /\ HeartbeatPeriod \in Nat /\ BeaconPeriod \in Nat /\ PeerTimeout \in Nat /\ MaxDelay \in Nat /\ MaxTime \in Nat
  /\ \A s \in Servers : RAddr[s] \in Servers \cup {NoAddr} /\ ServerKeys[s] \subseteq Keys \cup {ZeroKey} /\ Skew[s] \in Int
  /\ \A c \in Clients : \A h \in HeartbeatAddrs[c] : h[1] \in Servers
  /\ \A n \in Seekers : DiscoveryAddrs[n] \subseteq Servers
  /\ Servers \subseteq Nodes /\ Clients \subseteq Nodes /\ Discoverers \subseteq Nodes /\ Seekers \subseteq Nodes
  /\ \A n \in Seekers : n \notin Servers
<1>1. \A c \in Clients : HeartbeatAddrs[c] \subseteq Servers \X {"fiber", "h_fiber"}  BY DiscoveryAssumption DEF DiscoveryAssumption
<1>2. \A c \in Clients : \A h \in HeartbeatAddrs[c] : h[1] \in Servers  BY <1>1
<1>3. \A n \in Seekers : n \notin Servers  BY RolesAssumption DEF RolesAssumption, Seekers
<1> QED BY <1>2, <1>3, DiscoveryAssumption DEF DiscoveryAssumption, Nodes, Seekers

(* Nothing is in flight and nothing is known at the start.                 *)
LEMMA BaseInit == Init => Base
<1> SUFFICES ASSUME Init PROVE Base  OBVIOUS
<1>1. \A S, V : NoEntry \in MapOf(S, V) /\ DOMAIN NoEntry = {}  BY NoEntryMap
<1>2. TypeOK  BY <1>1, Constants DEF Init, TypeOK
<1>3. MessagesOK /\ KeysHeard  BY <1>1 DEF Init, MessagesOK, KeysHeard
<1> QED BY <1>2, <1>3 DEF Base

(* The list of a server changes only for the better.                       *)
LEMMA BaseServerTimer ==
  ASSUME Base, NEW s \in Servers, server_timer_cb(s)
  PROVE  Base'
<1> USE DEF Base
<1>1. now \in Nat  BY Constants DEF TypeOK
<1>2. peers' \in [Servers -> MapOf(Nodes, PeerEntry)] /\ KeysHeard'
  <2>1. peers' = [peers EXCEPT ![s] = Only(@, DOMAIN peers[s] \ Stale_Peers(s))]
    BY DEF server_timer_cb, TypeOK
  <2>2. DOMAIN peers[s] \ Stale_Peers(s) \in SUBSET DOMAIN peers[s]  OBVIOUS
  <2>3. /\ peers' \in [Servers -> MapOf(Nodes, PeerEntry)]
        /\ \A q \in Servers : q # s => peers'[q] = peers[q]
        /\ DOMAIN peers'[s] = DOMAIN peers[s] \ Stale_Peers(s)
        /\ \A x \in DOMAIN peers[s] \ Stale_Peers(s) : peers'[s][x] = peers[s][x]
    BY <2>1, <2>2, PeersOnly
  <2> QED BY <2>3 DEF KeysHeard
<1>3. \A o \in REG(s) : MessageOK(o) /\ o.at = now
  <2>1. CASE RAddr[s] = NoAddr  BY <2>1 DEF REG
  <2>2. CASE RAddr[s] # NoAddr
    <3> DEFINE b == [fiber |-> "h_fiber", key |-> skey[s], time |-> WallClock(s)]
               o == Message("REG", s, RAddr[s], b)
    <3>1. REG(s) = {o}  BY <2>2 DEF REG
    <3>2. o.type = "REG" /\ o.src = s /\ o.dst = RAddr[s] /\ o.body = b /\ o.at = now  BY MessageParts
    <3>3. b.key \in ServerKeys[s] /\ b.time = (now + Skew[s] + Word) % Word  BY DEF TypeOK, WallClock
    <3> HIDE DEF o, b
    <3> QED BY <3>1, <3>2, <3>3, <2>2, <1>1, Constants DEF MessageOK
  <2> QED BY <2>1, <2>2
<1>4. net' \subseteq net \cup REG(s) /\ now' = now  BY DEF server_timer_cb, Post
<1>5. MessagesOK' /\ \A m \in net' : m.dst \in Nodes /\ m.at \in 0 .. now' /\ now' <= m.at + MaxDelay
  BY <1>3, <1>4, NetStep
<1>6. due' \in [Timers -> Nat \cup {Off}]
  <2>1. now + HeartbeatPeriod \in Nat  BY <1>1, Constants
  <2> QED BY <2>1 DEF server_timer_cb, TypeOK
<1>7. TypeOK'  BY <1>2, <1>5, <1>6 DEF TypeOK, server_timer_cb, maps, history
<1> QED BY <1>2, <1>5, <1>7

(* What a server has of a peer.                                            *)
LEMMA PeersParts ==
  ASSUME TypeOK, NEW s \in Servers
  PROVE  /\ peers[s] \in MapOf(Nodes, PeerEntry) /\ DOMAIN peers[s] \subseteq Nodes
         /\ \A p \in DOMAIN peers[s] :
              /\ peers[s][p] \in PeerEntry /\ peers[s][p].last_seen \in Nat
              /\ peers[s][p].key \in Clients \cup {ZeroKey} /\ peers[s][p].address \in Keys \cup {ZeroKey}
<1>1. peers[s] \in MapOf(Nodes, PeerEntry)  BY DEF TypeOK
<1> DEFINE l == peers[s]
<1>2. l \in MapOf(Nodes, PeerEntry)  BY <1>1
<1>3. DOMAIN l \subseteq Nodes /\ \A p \in DOMAIN l : l[p] \in PeerEntry
  <2> HIDE DEF l
  <2> QED BY <1>2, MapParts
<1>4. ASSUME NEW r \in PeerEntry
      PROVE  /\ r.last_seen \in Nat
             /\ r.key \in Clients \cup {ZeroKey} /\ r.address \in Keys \cup {ZeroKey}
  BY DEF PeerEntry
<1> QED BY <1>1, <1>3, <1>4

(* The datagram a handler has in its hands.                                *)
LEMMA InHand ==
  ASSUME Base, NEW type, NEW n, NEW m, Receive(type, n, m)
  PROVE  /\ m \in net /\ m.type = type /\ m.dst = n /\ n \in up /\ MessageOK(m) /\ m.src \in Nodes
         /\ m.at \in 0 .. now /\ now <= m.at + MaxDelay /\ now \in Nat
<1>1. m \in net /\ m.type = type /\ m.dst = n /\ n \in up  BY DEF Receive
<1>2. MessageOK(m)  BY <1>1 DEF Base, MessagesOK
<1>3. m.at \in 0 .. now /\ now <= m.at + MaxDelay /\ now \in Nat  BY <1>1, Constants DEF Base, TypeOK
<1> QED BY <1>1, <1>2, <1>3 DEF MessageOK

(* HEARTBEAT: the server takes the sender's key under the sender's         *)
(* address.                                                                *)
LEMMA BaseHeartbeat ==
  ASSUME Base, NEW s \in Servers, NEW m, did_recv_HEARTBEAT(s, m)
  PROVE  Base'
<1> USE DEF Base
<1>1. Receive("HEARTBEAT", s, m)  BY DEF did_recv_HEARTBEAT
<1>2. m \in net /\ m.type = "HEARTBEAT" /\ MessageOK(m) /\ m.src \in Nodes /\ now \in Nat  BY <1>1, InHand
<1>3. m.src \in Clients /\ m.body.key = m.src  BY <1>2 DEF MessageOK
<1>4. peers' \in [Servers -> MapOf(Nodes, PeerEntry)] /\ KeysHeard'
  <2>1. CASE m.body.fiber # "h_fiber"
    BY <2>1 DEF did_recv_HEARTBEAT, TypeOK, KeysHeard
  <2>2. CASE m.body.fiber = "h_fiber"
    <3> DEFINE e == Heard(m, At(peers[s], m.src))
    <3>1. peers' = [peers EXCEPT ![s] = Put(@, m.src, e)]  BY <2>2 DEF did_recv_HEARTBEAT, TypeOK
    <3>2. peers[s] \in MapOf(Nodes, PeerEntry)  BY PeersParts
    <3>3. At(peers[s], m.src) \in PeerEntry  BY <3>2, AtEntry
    <3>4. e \in PeerEntry /\ e.key = m.src  BY <3>3, <1>2, <1>3, HeardEntry
    <3> HIDE DEF e
    <3>5. /\ peers' \in [Servers -> MapOf(Nodes, PeerEntry)]
          /\ \A q \in Servers : q # s => peers'[q] = peers[q]
          /\ DOMAIN peers'[s] = DOMAIN peers[s] \cup {m.src} /\ peers'[s][m.src] = e
          /\ \A x \in DOMAIN peers[s] : x # m.src => peers'[s][x] = peers[s][x]
      BY ZenonT(150), <3>1, <3>4, <1>2, PeersPut
    <3>6. ASSUME NEW q \in Servers, NEW c \in DOMAIN peers'[q] \cap Clients
          PROVE  peers'[q][c].key = c
      <4>1. CASE q # s  BY <4>1, <3>5 DEF KeysHeard
      <4>2. CASE q = s /\ c = m.src  BY <4>2, <3>4, <3>5
      <4>3. CASE q = s /\ c # m.src  BY <4>3, <3>5 DEF KeysHeard
      <4> QED BY <4>1, <4>2, <4>3
    <3> QED BY <3>5, <3>6 DEF KeysHeard
  <2> QED BY <2>1, <2>2
<1>5. net' \subseteq net /\ now' = now
  BY <1>2, Taken DEF did_recv_HEARTBEAT
<1>6. MessagesOK' /\ \A o \in net' : o.dst \in Nodes /\ o.at \in 0 .. now' /\ now' <= o.at + MaxDelay
  BY <1>5, NetTaken
<1>7. TypeOK'  BY <1>4, <1>6 DEF TypeOK, did_recv_HEARTBEAT, maps, history
<1> QED BY <1>4, <1>6, <1>7

(* REG: another server's key and time are taken.                           *)
LEMMA BaseRegister ==
  ASSUME Base, NEW s \in Servers, NEW m, did_recv_REG(s, m)
  PROVE  Base'
<1> USE DEF Base
<1>1. Receive("REG", s, m)  BY DEF did_recv_REG
<1>2. m \in net /\ m.type = "REG" /\ MessageOK(m) /\ m.src \in Nodes /\ now \in Nat  BY <1>1, InHand
<1>3. m.src \in Servers /\ m.body.key \in Keys \cup {ZeroKey}  BY <1>2, Constants DEF MessageOK
<1>4. peers' \in [Servers -> MapOf(Nodes, PeerEntry)] /\ KeysHeard'
  <2>1. CASE Rejected(s, m)
    BY <2>1 DEF did_recv_REG, TypeOK, KeysHeard
  <2>2. CASE ~Rejected(s, m)
    <3> DEFINE old == At(peers[s], m.src)  e == Registration(s, m, old)
    <3>1. peers' = [peers EXCEPT ![s] = Put(@, m.src, e)]  BY <2>2 DEF did_recv_REG, TypeOK
    <3>2. peers[s] \in MapOf(Nodes, PeerEntry)  BY PeersParts
    <3>3. old \in PeerEntry  BY <3>2, AtEntry
    <3>4. e \in PeerEntry
      <4> HIDE DEF old
      <4> QED BY <3>3, <1>2, <1>3, RegisteredEntry
    <3> HIDE DEF e
    <3>5. /\ peers' \in [Servers -> MapOf(Nodes, PeerEntry)]
          /\ \A q \in Servers : q # s => peers'[q] = peers[q]
          /\ DOMAIN peers'[s] = DOMAIN peers[s] \cup {m.src} /\ peers'[s][m.src] = e
          /\ \A x \in DOMAIN peers[s] : x # m.src => peers'[s][x] = peers[s][x]
      BY ZenonT(150), <3>1, <3>4, <1>2, PeersPut
    <3>6. m.src \notin Clients  BY <1>3, RolesAssumption DEF RolesAssumption
    <3>7. ASSUME NEW q \in Servers, NEW c \in DOMAIN peers'[q] \cap Clients
          PROVE  peers'[q][c].key = c
      <4>1. CASE q # s  BY <4>1, <3>5 DEF KeysHeard
      <4>2. CASE q = s  BY <4>2, <3>5, <3>6 DEF KeysHeard
      <4> QED BY <4>1, <4>2
    <3> QED BY <3>5, <3>7 DEF KeysHeard
  <2> QED BY <2>1, <2>2
<1>5. net' \subseteq net /\ now' = now
  BY <1>2, Taken DEF did_recv_REG
<1>6. MessagesOK' /\ \A o \in net' : o.dst \in Nodes /\ o.at \in 0 .. now' /\ now' <= o.at + MaxDelay
  BY <1>5, NetTaken
<1>7. registered' \subseteq Servers \X (Keys \cup {ZeroKey})  BY <1>3 DEF did_recv_REG, TypeOK
<1>8. TypeOK'  BY <1>4, <1>6, <1>7 DEF TypeOK, did_recv_REG, maps, history
<1> QED BY <1>4, <1>6, <1>8

(* A page lists peers with the keys they are known under.                  *)
LEMMA PagesOf ==
  ASSUME NEW S, NEW P \in Pages(S), NEW page \in P
  PROVE  page \subseteq S
BY DEF Pages

(* DISCPEER: the server answers with the relays it lists, and their        *)
(* keys.                                                                   *)
LEMMA BaseListPeers ==
  ASSUME Base, NEW s \in Servers, NEW m, did_recv_DISCPEER(s, m)
  PROVE  Base'
<1> USE DEF Base
<1>1. Receive("DISCPEER", s, m)  BY DEF did_recv_DISCPEER
<1>2. m \in net /\ m.src \in Nodes /\ now \in Nat  BY <1>1, InHand
<1> DEFINE L == {<<p, peers[s][p].key>> : p \in Listing(s, m.src)}
<1>3. PICK P \in Pages(L) : Take(m, {Message("LISTPEER", s, m.src, page) : page \in P})
  BY DEF did_recv_DISCPEER
<1> DEFINE out == {Message("LISTPEER", s, m.src, page) : page \in P}
<1>4. ASSUME NEW e \in L
      PROVE  e[1] \in Nodes /\ e[2] \in Clients \cup {ZeroKey} /\ (e[1] \in Clients => e[2] = e[1])
  <2>1. PICK p \in Listing(s, m.src) : e = <<p, peers[s][p].key>>  OBVIOUS
  <2>2. p \in DOMAIN peers[s]  BY DEF Listing
  <2> QED BY <2>1, <2>2, PeersParts DEF KeysHeard
<1>5. ASSUME NEW o \in out
      PROVE  MessageOK(o) /\ o.at = now
  <2>1. PICK page \in P : o = Message("LISTPEER", s, m.src, page)  OBVIOUS
  <2>2. o.type = "LISTPEER" /\ o.src = s /\ o.dst = m.src /\ o.body = page /\ o.at = now
    BY <2>1, MessageParts
  <2> HIDE DEF L
  <2>3. page \subseteq L  BY PagesOf
  <2>4. \A e \in o.body : /\ e[1] \in Nodes /\ e[2] \in Clients \cup {ZeroKey}
                          /\ e[1] \in Clients => e[2] = e[1]
    BY <1>4, <2>2, <2>3
  <2> QED BY <2>2, <2>4, <1>2, Constants DEF MessageOK
<1>6. net' \subseteq net \cup out /\ now' = now
  BY <1>2, <1>3, Taken DEF did_recv_DISCPEER
<1> HIDE DEF out, L
<1>7. MessagesOK' /\ \A o \in net' : o.dst \in Nodes /\ o.at \in 0 .. now' /\ now' <= o.at + MaxDelay
  BY <1>5, <1>6, NetStep
<1>8. listed' \subseteq Servers \X Nodes
  <2>1. Listing(s, m.src) \subseteq Nodes  BY PeersParts DEF Listing
  <2>2. {<<s, p>> : p \in Listing(s, m.src)} \subseteq Servers \X Nodes  BY <2>1
  <2> QED BY <2>2 DEF did_recv_DISCPEER, TypeOK
<1>9. TypeOK'  BY <1>7, <1>8 DEF TypeOK, did_recv_DISCPEER, maps, history
<1>10. KeysHeard'  BY DEF KeysHeard, did_recv_DISCPEER
<1> QED BY <1>7, <1>9, <1>10

(* DISCCLUSTER2: it answers with the servers it lists, and their keys.     *)
LEMMA BaseListClusters ==
  ASSUME Base, NEW s \in Servers, NEW m, did_recv_DISCCLUSTER2(s, m)
  PROVE  Base'
<1> USE DEF Base
<1>1. Receive("DISCCLUSTER2", s, m)  BY DEF did_recv_DISCCLUSTER2
<1>2. m \in net /\ m.src \in Nodes /\ now \in Nat  BY <1>1, InHand
<1> DEFINE L == {<<p, peers[s][p].address>> : p \in Listing(s, m.src)}
           o == Message("LISTCLUSTER2", s, m.src, L)
<1>3. \A e \in L : e[1] \in Nodes /\ e[2] \in Keys \cup {ZeroKey}
  <2>1. ASSUME NEW e \in L  PROVE  e[1] \in Nodes /\ e[2] \in Keys \cup {ZeroKey}
    <3>1. PICK p \in Listing(s, m.src) : e = <<p, peers[s][p].address>>  OBVIOUS
    <3>2. p \in DOMAIN peers[s]  BY DEF Listing
    <3> QED BY <3>1, <3>2, PeersParts
  <2> QED BY <2>1
<1>4. LISTCLUSTER2(s, m.src) \subseteq {o}  BY DEF LISTCLUSTER2
<1>5. o.type = "LISTCLUSTER2" /\ o.src = s /\ o.dst = m.src /\ o.body = L /\ o.at = now  BY MessageParts
<1>6. net' \subseteq net \cup {o} /\ now' = now
  <2>1. net' \subseteq net \cup LISTCLUSTER2(s, m.src) /\ now' = now
    BY <1>2, Taken DEF did_recv_DISCCLUSTER2
  <2> HIDE DEF o
  <2> QED BY <1>4, <2>1
<1> HIDE DEF L, o
<1>7. MessageOK(o) /\ o.at = now  BY <1>2, <1>3, <1>5, Constants DEF MessageOK
<1>8. MessagesOK' /\ \A x \in net' : x.dst \in Nodes /\ x.at \in 0 .. now' /\ now' <= x.at + MaxDelay
  BY <1>6, <1>7, NetAnswered
<1>9. TypeOK'  BY <1>8 DEF TypeOK, did_recv_DISCCLUSTER2, maps, history
<1>10. KeysHeard'  BY DEF KeysHeard, did_recv_DISCCLUSTER2
<1> QED BY <1>8, <1>9, <1>10

(* DISCPROTO: a node answers with its protocols.                           *)
LEMMA BaseAnswerProtocols ==
  ASSUME Base, NEW n \in Servers \cup Clients, NEW m, did_recv_DISCPROTO(n, m)
  PROVE  Base'
<1> USE DEF Base
<1>1. Receive("DISCPROTO", n, m)  BY DEF did_recv_DISCPROTO
<1>2. m \in net /\ m.src \in Nodes /\ now \in Nat  BY <1>1, InHand
<1> DEFINE b == IF n \in Clients THEN Protocols[n] ELSE {}
           o == Message("LISTPROTO", n, m.src, b)
<1>3. b \subseteq AllProtocols /\ (b # {} => n \in Clients)  BY DEF AllProtocols
<1>4. o.type = "LISTPROTO" /\ o.src = n /\ o.dst = m.src /\ o.body = b /\ o.at = now  BY MessageParts
<1>5. o = LISTPROTO(n, m.src)  BY DEF LISTPROTO
<1>6. net' \subseteq net \cup {o} /\ now' = now
  <2>1. net' \subseteq net \cup {LISTPROTO(n, m.src)} /\ now' = now
    BY <1>2, Taken DEF did_recv_DISCPROTO
  <2> HIDE DEF o
  <2> QED BY <1>5, <2>1
<1> HIDE DEF b, o
<1>7. MessageOK(o) /\ o.at = now  BY <1>2, <1>3, <1>4, Constants DEF MessageOK
<1>8. MessagesOK' /\ \A x \in net' : x.dst \in Nodes /\ x.at \in 0 .. now' /\ now' <= x.at + MaxDelay
  BY <1>6, <1>7, NetAnswered
<1>9. TypeOK'  BY <1>8 DEF TypeOK, did_recv_DISCPROTO, maps, history
<1>10. KeysHeard'  BY DEF KeysHeard, did_recv_DISCPROTO
<1> QED BY <1>8, <1>9, <1>10

(* The timer of a relay's client sends its heartbeats.                     *)
LEMMA BaseClientTimer ==
  ASSUME Base, NEW n \in Clients, heartbeat_timer_cb(n)
  PROVE  Base'
<1> USE DEF Base
<1>1. now \in Nat  BY Constants DEF TypeOK
<1> DEFINE out == {HEARTBEAT(n, h) : h \in HeartbeatAddrs[n]}
<1>2. ASSUME NEW o \in out
      PROVE  MessageOK(o) /\ o.at = now
  <2>1. PICK h \in HeartbeatAddrs[n] : o = Message("HEARTBEAT", n, h[1], [fiber |-> h[2], key |-> n])
    BY DEF HEARTBEAT
  <2> DEFINE b == [fiber |-> h[2], key |-> n]
  <2>2. o.type = "HEARTBEAT" /\ o.src = n /\ o.dst = h[1] /\ o.body = b /\ o.at = now
    BY <2>1, MessageParts
  <2>3. b.key = n  OBVIOUS
  <2>4. h[1] \in Servers  BY Constants
  <2> HIDE DEF b
  <2> QED BY <2>2, <2>3, <2>4, <1>1, Constants DEF MessageOK
<1>3. net' \subseteq net \cup out /\ now' = now  BY DEF heartbeat_timer_cb, Post
<1> HIDE DEF out
<1>4. MessagesOK' /\ \A o \in net' : o.dst \in Nodes /\ o.at \in 0 .. now' /\ now' <= o.at + MaxDelay
  BY <1>2, <1>3, NetStep
<1>5. due' \in [Timers -> Nat \cup {Off}]
  <2>1. now + HeartbeatPeriod \in Nat  BY <1>1, Constants
  <2> QED BY <2>1 DEF heartbeat_timer_cb, TypeOK
<1>6. TypeOK'  BY <1>4, <1>5 DEF TypeOK, heartbeat_timer_cb, maps, history
<1>7. KeysHeard'  BY DEF KeysHeard, heartbeat_timer_cb
<1> QED BY <1>4, <1>6, <1>7

(* What is too old is pruned from a map.                                   *)
LEMMA PrunedMap ==
  ASSUME NEW S, NEW V, NEW f \in MapOf(S, V)
  PROVE  /\ Pruned(f) \in MapOf(S, V) /\ DOMAIN Pruned(f) \subseteq DOMAIN f
         /\ \A x \in DOMAIN Pruned(f) : Pruned(f)[x] = f[x]
<1> DEFINE D == {x \in DOMAIN f : ~Old(f[x])}
<1>1. D \in SUBSET DOMAIN f  OBVIOUS
<1> HIDE DEF D
<1>2. Only(f, D) \in MapOf(S, V) /\ DOMAIN Only(f, D) = D /\ \A y \in D : Only(f, D)[y] = f[y]
  BY <1>1, OnlyMap
<1>3. Pruned(f) = Only(f, D)  BY DEF Pruned, D
<1> QED BY <1>1, <1>2, <1>3

(* The timer of a node that seeks asks the servers it knows.               *)
LEMMA BaseBeaconTimer ==
  ASSUME Base, NEW n \in Seekers, beacon_timer_cb(n)
  PROVE  Base'
<1> USE DEF Base
<1>1. now \in Nat  BY Constants DEF TypeOK
<1> DEFINE out == {Message(Query(n), n, s, {}) : s \in DiscoveryAddrs[n]}
<1>2. ASSUME NEW o \in out
      PROVE  MessageOK(o) /\ o.at = now
  <2>1. PICK s \in DiscoveryAddrs[n] : o = Message(Query(n), n, s, {})  OBVIOUS
  <2>2. o.type = Query(n) /\ o.src = n /\ o.dst = s /\ o.at = now  BY <2>1, MessageParts
  <2>3. o.type \in {"DISCPEER", "DISCCLUSTER2"}  BY <2>2 DEF Query
  <2> QED BY <2>2, <2>3, <1>1, Constants DEF MessageOK
<1>3. net' \subseteq net \cup out /\ now' = now  BY DEF beacon_timer_cb, Post
<1> HIDE DEF out
<1>4. MessagesOK' /\ \A o \in net' : o.dst \in Nodes /\ o.at \in 0 .. now' /\ now' <= o.at + MaxDelay
  BY <1>2, <1>3, NetStep
<1>5. due' \in [Timers -> Nat \cup {Off}]
  <2>1. now + BeaconPeriod \in Nat  BY <1>1, Constants
  <2> QED BY <2>1 DEF beacon_timer_cb, TypeOK
<1>6. cluster_map' \in [Discoverers -> MapOf(Nodes \cup {NoAddr}, PeerEntry)]
  <2>1. cluster_map' = [cluster_map EXCEPT ![n] = Pruned(cluster_map[n])]  BY DEF beacon_timer_cb
  <2>2. n \in Discoverers => Pruned(cluster_map[n]) \in MapOf(Nodes \cup {NoAddr}, PeerEntry)
    BY PrunedMap DEF TypeOK
  <2> QED BY <2>1, <2>2 DEF TypeOK
<1>7. beacon_map' \in [Discoverers -> MapOf(Nodes, BeaconEntry)]
  <2>1. beacon_map' = [beacon_map EXCEPT ![n] = Pruned(beacon_map[n])]  BY DEF beacon_timer_cb
  <2>2. n \in Discoverers => Pruned(beacon_map[n]) \in MapOf(Nodes, BeaconEntry)
    BY PrunedMap DEF TypeOK
  <2> QED BY <2>1, <2>2 DEF TypeOK
<1>8. TypeOK'  BY <1>4, <1>5, <1>6, <1>7 DEF TypeOK, beacon_timer_cb, history
<1>9. KeysHeard'  BY DEF KeysHeard, beacon_timer_cb
<1> QED BY <1>4, <1>8, <1>9

(* What a page says of a node it lists.                                    *)
LEMMA Picked ==
  ASSUME NEW B, NEW c \in {e[1] : e \in B}
  PROVE  LET e == CHOOSE e \in B : e[1] = c IN e \in B /\ e[1] = c
<1>1. \E e \in B : e[1] = c  OBVIOUS
<1> QED BY <1>1

(* A page of beacons: what it leaves in cluster_map.                       *)
LEMMA ClustersHeard ==
  ASSUME Base, NEW d \in Discoverers, NEW m, did_recv_LISTCLUSTER2(d, m)
  PROVE  LET seen == {e[1] : e \in m.body}
         IN /\ m \in net /\ m.type = "LISTCLUSTER2" /\ seen \subseteq Nodes
            /\ cluster_map' \in [Discoverers -> MapOf(Nodes \cup {NoAddr}, PeerEntry)]
            /\ \A x \in Discoverers : x # d => cluster_map'[x] = cluster_map[x]
            /\ DOMAIN cluster_map'[d] = DOMAIN cluster_map[d] \cup seen
            /\ \A c \in seen : \E e \in m.body : e[1] = c /\ cluster_map'[d][c].address = e[2]
            /\ \A c \in DOMAIN cluster_map[d] : c \notin seen => cluster_map'[d][c] = cluster_map[d][c]
<1> USE DEF Base
<1>1. Receive("LISTCLUSTER2", d, m)  BY DEF did_recv_LISTCLUSTER2
<1>2. m \in net /\ m.type = "LISTCLUSTER2" /\ MessageOK(m) /\ now \in Nat  BY <1>1, InHand
<1>3. \A e \in m.body : e[1] \in Nodes /\ e[2] \in Keys \cup {ZeroKey}  BY <1>2 DEF MessageOK
<1> DEFINE seen == {e[1] : e \in m.body}
           The(c) == CHOOSE e \in m.body : e[1] = c
           fresh == [c \in seen |-> [last_seen |-> now, key |-> ZeroKey, address |-> The(c)[2]]]
           old == cluster_map[d]  map == PutAll(old, fresh)  S == Nodes \cup {NoAddr}
<1>4. seen \subseteq Nodes  BY <1>3
<1>5. \A c \in seen : The(c) \in m.body /\ The(c)[1] = c  OBVIOUS
<1>6. cluster_map' = [cluster_map EXCEPT ![d] = map]  BY DEF did_recv_LISTCLUSTER2
<1> HIDE DEF The
<1>7. fresh \in [seen -> PeerEntry] /\ \A c \in seen : fresh[c].address = The(c)[2]
  BY <1>2, <1>3, <1>5 DEF PeerEntry
<1>8. old \in MapOf(S, PeerEntry) /\ seen \in SUBSET S  BY <1>4 DEF TypeOK
<1> HIDE DEF seen, fresh, old, S
<1>9. /\ map \in MapOf(S, PeerEntry) /\ DOMAIN map = DOMAIN old \cup seen
      /\ \A y \in seen : map[y] = fresh[y]
      /\ \A y \in DOMAIN old : y \notin seen => map[y] = old[y]
  <2>1. map \in MapOf(S, PeerEntry)  BY <1>7, <1>8, PutAllMap
  <2>2. DOMAIN fresh = seen  BY <1>7
  <2>3. DOMAIN map = DOMAIN old \cup seen  BY <2>2 DEF PutAll
  <2>4. \A y \in seen : map[y] = fresh[y]  BY <2>2 DEF PutAll
  <2>5. \A y \in DOMAIN old : y \notin seen => map[y] = old[y]  BY <2>2 DEF PutAll
  <2> QED BY <2>1, <2>3, <2>4, <2>5
<1> HIDE DEF map
<1>10. \A c \in seen : \E e \in m.body : e[1] = c /\ map[c].address = e[2]  BY <1>5, <1>7, <1>9
<1>11. /\ cluster_map' \in [Discoverers -> MapOf(S, PeerEntry)] /\ cluster_map'[d] = map
       /\ \A x \in Discoverers : x # d => cluster_map'[x] = cluster_map[x]
  BY <1>6, <1>9 DEF TypeOK, S
<1> QED BY <1>2, <1>4, <1>9, <1>10, <1>11 DEF seen, old, S

(* LISTCLUSTER2: the client learns servers and their keys, and asks each   *)
(* for its relays.                                                         *)
LEMMA BaseClusters ==
  ASSUME Base, NEW d \in Discoverers, NEW m, did_recv_LISTCLUSTER2(d, m)
  PROVE  Base'
<1> USE DEF Base
<1> DEFINE seen == {e[1] : e \in m.body}
           out == {Message("DISCPEER", d, c, {}) : c \in seen}
<1>1. m \in net /\ seen \subseteq Nodes
      /\ cluster_map' \in [Discoverers -> MapOf(Nodes \cup {NoAddr}, PeerEntry)]
  BY ClustersHeard
<1>2. now \in Nat  BY Constants DEF TypeOK
<1>3. ASSUME NEW o \in out
      PROVE  MessageOK(o) /\ o.at = now
  <2>1. PICK c \in seen : o = Message("DISCPEER", d, c, {})  OBVIOUS
  <2>2. o.type = "DISCPEER" /\ o.src = d /\ o.dst = c /\ o.at = now  BY <2>1, MessageParts
  <2> QED BY <1>1, <1>2, <2>2, Constants DEF MessageOK
<1>4. net' \subseteq net \cup out /\ now' = now  BY <1>1, Taken DEF did_recv_LISTCLUSTER2
<1> HIDE DEF out
<1>5. MessagesOK' /\ \A o \in net' : o.dst \in Nodes /\ o.at \in 0 .. now' /\ now' <= o.at + MaxDelay
  BY <1>3, <1>4, NetStep
<1>6. TypeOK'  BY <1>1, <1>5 DEF TypeOK, did_recv_LISTCLUSTER2, history
<1>7. KeysHeard'  BY DEF KeysHeard, did_recv_LISTCLUSTER2
<1> QED BY <1>5, <1>6, <1>7

(* A page of relays: the keys it leaves in node_key_map, and where in      *)
(* beacon_map it says they were heard of.                                  *)
LEMMA PeersHeard ==
  ASSUME Base, NEW n \in Seekers, NEW m, did_recv_LISTPEER(n, m)
  PROVE  LET seen == {e[1] : e \in m.body}
         IN /\ m \in net /\ m.type = "LISTPEER" /\ MessageOK(m) /\ seen \subseteq Nodes
            /\ node_key_map' \in [Seekers -> MapOf(Nodes, Clients \cup {ZeroKey})]
            /\ \A x \in Seekers : x # n => node_key_map'[x] = node_key_map[x]
            /\ DOMAIN node_key_map'[n] = DOMAIN node_key_map[n] \cup seen
            /\ \A c \in seen : \E e \in m.body : e[1] = c /\ node_key_map'[n][c] = e[2]
            /\ \A c \in DOMAIN node_key_map[n] : c \notin seen => node_key_map'[n][c] = node_key_map[n][c]
<1> USE DEF Base
<1>1. Receive("LISTPEER", n, m)  BY DEF did_recv_LISTPEER
<1>2. m \in net /\ m.type = "LISTPEER" /\ MessageOK(m) /\ now \in Nat  BY <1>1, InHand
<1>3. \A e \in m.body : e[1] \in Nodes /\ e[2] \in Clients \cup {ZeroKey}  BY <1>2 DEF MessageOK
<1> DEFINE seen == {e[1] : e \in m.body}
           The(c) == CHOOSE e \in m.body : e[1] = c
           keys == [c \in seen |-> The(c)[2]]
           old == node_key_map[n]  map == PutAll(old, keys)  V == Clients \cup {ZeroKey}
<1>4. seen \subseteq Nodes  BY <1>3
<1>5. \A c \in seen : The(c) \in m.body /\ The(c)[1] = c  OBVIOUS
<1>6. node_key_map' = [node_key_map EXCEPT ![n] = map]  BY DEF did_recv_LISTPEER
<1> HIDE DEF The
<1>7. keys \in [seen -> V] /\ \A c \in seen : keys[c] = The(c)[2]  BY <1>3, <1>5
<1>8. old \in MapOf(Nodes, V) /\ seen \in SUBSET Nodes  BY <1>4 DEF TypeOK
<1> HIDE DEF seen, keys, old, V
<1>9. /\ map \in MapOf(Nodes, V) /\ DOMAIN map = DOMAIN old \cup seen
      /\ \A y \in seen : map[y] = keys[y]
      /\ \A y \in DOMAIN old : y \notin seen => map[y] = old[y]
  <2>1. map \in MapOf(Nodes, V)  BY <1>7, <1>8, PutAllMap
  <2>2. DOMAIN keys = seen  BY <1>7
  <2>3. DOMAIN map = DOMAIN old \cup seen  BY <2>2 DEF PutAll
  <2>4. \A y \in seen : map[y] = keys[y]  BY <2>2 DEF PutAll
  <2>5. \A y \in DOMAIN old : y \notin seen => map[y] = old[y]  BY <2>2 DEF PutAll
  <2> QED BY <2>1, <2>3, <2>4, <2>5
<1> HIDE DEF map
<1>10. \A c \in seen : \E e \in m.body : e[1] = c /\ map[c] = e[2]  BY <1>5, <1>7, <1>9
<1>11. /\ node_key_map' \in [Seekers -> MapOf(Nodes, V)] /\ node_key_map'[n] = map
       /\ \A x \in Seekers : x # n => node_key_map'[x] = node_key_map[x]
  BY <1>6, <1>9 DEF TypeOK, V
<1> QED BY <1>2, <1>4, <1>9, <1>10, <1>11 DEF seen, old, V

(* The relays a client has just heard of are in its list, from that        *)
(* server.                                                                 *)
LEMMA BeaconsHeard ==
  ASSUME Base, NEW n \in Discoverers, NEW m, did_recv_LISTPEER(n, m)
  PROVE  LET seen == {e[1] : e \in m.body}
         IN /\ beacon_map' \in [Discoverers -> MapOf(Nodes, BeaconEntry)]
            /\ \A x \in Discoverers : x # n => beacon_map'[x] = beacon_map[x]
            /\ DOMAIN beacon_map'[n] = DOMAIN beacon_map[n] \cup seen
            /\ \A p \in seen : beacon_map'[n][p].via = m.src
            /\ \A p \in DOMAIN beacon_map[n] : p \notin seen => beacon_map'[n][p] = beacon_map[n][p]
<1> USE DEF Base
<1>1. Receive("LISTPEER", n, m)  BY DEF did_recv_LISTPEER
<1>2. m.type = "LISTPEER" /\ MessageOK(m) /\ now \in Nat  BY <1>1, InHand
<1>3. m.src \in Servers /\ \A e \in m.body : e[1] \in Nodes  BY <1>2 DEF MessageOK
<1> DEFINE seen == {e[1] : e \in m.body}
           vias == [p \in seen |-> [via |-> m.src, last_seen |-> now]]
           old == beacon_map[n]  map == PutAll(old, vias)
<1>4. n \notin Clients  BY RolesAssumption DEF RolesAssumption
<1>5. beacon_map' = [beacon_map EXCEPT ![n] = map]  BY <1>4 DEF did_recv_LISTPEER
<1>6. vias \in [seen -> BeaconEntry] /\ \A p \in seen : vias[p].via = m.src
  BY <1>2, <1>3 DEF BeaconEntry
<1>7. old \in MapOf(Nodes, BeaconEntry) /\ seen \in SUBSET Nodes  BY <1>3 DEF TypeOK
<1> HIDE DEF seen, vias, old
<1>8. /\ map \in MapOf(Nodes, BeaconEntry) /\ DOMAIN map = DOMAIN old \cup seen
      /\ \A y \in seen : map[y] = vias[y]
      /\ \A y \in DOMAIN old : y \notin seen => map[y] = old[y]
  <2>1. map \in MapOf(Nodes, BeaconEntry)  BY <1>6, <1>7, PutAllMap
  <2>2. DOMAIN vias = seen  BY <1>6
  <2>3. DOMAIN map = DOMAIN old \cup seen  BY <2>2 DEF PutAll
  <2>4. \A y \in seen : map[y] = vias[y]  BY <2>2 DEF PutAll
  <2>5. \A y \in DOMAIN old : y \notin seen => map[y] = old[y]  BY <2>2 DEF PutAll
  <2> QED BY <2>1, <2>3, <2>4, <2>5
<1> HIDE DEF map
<1>9. /\ beacon_map' \in [Discoverers -> MapOf(Nodes, BeaconEntry)] /\ beacon_map'[n] = map
      /\ \A x \in Discoverers : x # n => beacon_map'[x] = beacon_map[x]
  BY <1>5, <1>8 DEF TypeOK
<1> QED BY <1>6, <1>8, <1>9 DEF seen, old

(* LISTPEER: the node learns relays and their keys, and asks each for      *)
(* its protocols.                                                          *)
LEMMA BasePeers ==
  ASSUME Base, NEW n \in Seekers, NEW m, did_recv_LISTPEER(n, m)
  PROVE  Base'
<1> USE DEF Base
<1> DEFINE seen == {e[1] : e \in m.body}
           out == {Message("DISCPROTO", n, p, {}) : p \in seen}
<1>1. m \in net /\ seen \subseteq Nodes /\ node_key_map' \in [Seekers -> MapOf(Nodes, Clients \cup {ZeroKey})]
  BY PeersHeard
<1>2. now \in Nat  BY Constants DEF TypeOK
<1>3. ASSUME NEW o \in out
      PROVE  MessageOK(o) /\ o.at = now
  <2>1. PICK p \in seen : o = Message("DISCPROTO", n, p, {})  OBVIOUS
  <2>2. o.type = "DISCPROTO" /\ o.src = n /\ o.dst = p /\ o.at = now  BY <2>1, MessageParts
  <2> QED BY <1>1, <1>2, <2>2, Constants DEF MessageOK
<1>4. net' \subseteq net \cup out /\ now' = now  BY <1>1, Taken DEF did_recv_LISTPEER
<1> HIDE DEF out
<1>5. MessagesOK' /\ \A o \in net' : o.dst \in Nodes /\ o.at \in 0 .. now' /\ now' <= o.at + MaxDelay
  BY <1>3, <1>4, NetStep
<1>6. beacon_map' \in [Discoverers -> MapOf(Nodes, BeaconEntry)]
  <2>1. CASE n \in Clients  BY <2>1 DEF did_recv_LISTPEER, TypeOK
  <2>2. CASE n \in Discoverers  BY <2>2, BeaconsHeard
  <2> QED BY <2>1, <2>2 DEF Seekers
<1>7. TypeOK'  BY <1>1, <1>5, <1>6 DEF TypeOK, did_recv_LISTPEER, history
<1>8. KeysHeard'  BY DEF KeysHeard, did_recv_LISTPEER
<1> QED BY <1>5, <1>7, <1>8

(* What a node knows of a peer, or makes up.                               *)
LEMMA KeyOfPeer ==
  ASSUME TypeOK, NEW n \in Seekers, NEW p
  PROVE  KeyOf(n, p) \in Clients \cup {ZeroKey} /\ (p \in DOMAIN node_key_map[n] => KeyOf(n, p) = node_key_map[n][p])
<1> DEFINE l == node_key_map[n]  V == Clients \cup {ZeroKey}
<1>1. l \in MapOf(Nodes, V)  BY DEF TypeOK
<1>2. \A x \in DOMAIN l : l[x] \in V
  <2> HIDE DEF l, V
  <2> QED BY <1>1, MapParts
<1> QED BY <1>2 DEF KeyOf

(* The server a client heard of a relay from, if any.                      *)
LEMMA ViaPeer ==
  ASSUME TypeOK, NEW d \in Discoverers, NEW p
  PROVE  /\ Via(d, p) \in BeaconEntry /\ Via(d, p).via \in Servers \cup {NoAddr}
         /\ p \in DOMAIN beacon_map[d] => Via(d, p) = beacon_map[d][p]
         /\ p \notin DOMAIN beacon_map[d] => Via(d, p).via = NoAddr
<1> DEFINE l == beacon_map[d]
<1>1. l \in MapOf(Nodes, BeaconEntry)  BY DEF TypeOK
<1>2. \A x \in DOMAIN l : l[x] \in BeaconEntry
  <2> HIDE DEF l
  <2> QED BY <1>1, MapParts
<1>3. [via |-> NoAddr, last_seen |-> 0] \in BeaconEntry  BY DEF BeaconEntry
<1>4. Via(d, p) \in BeaconEntry  BY <1>2, <1>3 DEF Via
<1>5. Via(d, p).via \in Servers \cup {NoAddr}  BY <1>4 DEF BeaconEntry
<1> QED BY <1>4, <1>5 DEF Via

(* An answer that names protocols: the maps of the node it reaches.        *)
LEMMA ProtocolsKeys ==
  ASSUME Base, NEW n \in Seekers, NEW m, did_recv_LISTPROTO(n, m), m.body # {}
  PROVE  /\ node_key_map' \in [Seekers -> MapOf(Nodes, Clients \cup {ZeroKey})]
         /\ \A x \in Seekers : x # n => node_key_map'[x] = node_key_map[x]
         /\ DOMAIN node_key_map'[n] = DOMAIN node_key_map[n] \cup {m.src}
         /\ node_key_map'[n][m.src] = KeyOf(n, m.src)
         /\ \A c \in DOMAIN node_key_map[n] : node_key_map'[n][c] = node_key_map[n][c]
<1> USE DEF Base
<1>1. Receive("LISTPROTO", n, m)  BY DEF did_recv_LISTPROTO
<1>2. m.src \in Nodes  BY <1>1, InHand
<1> DEFINE V == Clients \cup {ZeroKey}
           old == node_key_map[n]  k == KeyOf(n, m.src)  map == Put(old, m.src, k)
<1>3. k \in V /\ (m.src \in DOMAIN old => k = old[m.src])  BY KeyOfPeer
<1>4. old \in MapOf(Nodes, V)  BY DEF TypeOK
<1>5. node_key_map' = [node_key_map EXCEPT ![n] = map]  BY DEF did_recv_LISTPROTO
<1> HIDE DEF V, old, k
<1>6. map \in MapOf(Nodes, V)  BY <1>2, <1>3, <1>4, PutMap
<1>7. DOMAIN map = DOMAIN old \cup {m.src} /\ map[m.src] = k  BY DEF Put
<1>8. \A c \in DOMAIN old : map[c] = old[c]  BY <1>3 DEF Put
<1> HIDE DEF map
<1>9. /\ node_key_map' \in [Seekers -> MapOf(Nodes, V)] /\ node_key_map'[n] = map
      /\ \A x \in Seekers : x # n => node_key_map'[x] = node_key_map[x]
  BY <1>5, <1>6 DEF TypeOK, V
<1> QED BY <1>7, <1>8, <1>9 DEF V, old, k

(* A client that learns what a relay offers looks it up in its maps,       *)
(* which may make an entry for nobody.                                     *)
LEMMA ProtocolsMaps ==
  ASSUME Base, NEW n \in Discoverers, NEW m, did_recv_LISTPROTO(n, m), m.body # {}
  PROVE  /\ beacon_map' \in [Discoverers -> MapOf(Nodes, BeaconEntry)]
         /\ cluster_map' \in [Discoverers -> MapOf(Nodes \cup {NoAddr}, PeerEntry)]
         /\ \A d \in Discoverers : \A p \in DOMAIN beacon_map'[d] :
              \/ p \in DOMAIN beacon_map[d] /\ beacon_map'[d][p] = beacon_map[d][p]
              \/ beacon_map'[d][p].via = NoAddr
         /\ \A d \in Discoverers : \A c \in DOMAIN cluster_map'[d] :
              \/ c \in DOMAIN cluster_map[d] /\ cluster_map'[d][c] = cluster_map[d][c]
              \/ cluster_map'[d][c].address = ZeroKey
<1> USE DEF Base
<1>1. Receive("LISTPROTO", n, m)  BY DEF did_recv_LISTPROTO
<1>2. m.src \in Nodes  BY <1>1, InHand
<1>3. n \notin Clients /\ n \in Seekers  BY RolesAssumption DEF RolesAssumption, Seekers
<1> DEFINE b == beacon_map[n]  via == Via(n, m.src)  bmap == Put(b, m.src, via)
           S == Nodes \cup {NoAddr}
           c == cluster_map[n]  at == At(c, via.via)  cmap == Put(c, via.via, at)
<1>4. beacon_map' = [beacon_map EXCEPT ![n] = bmap] /\ cluster_map' = [cluster_map EXCEPT ![n] = cmap]
  BY <1>3 DEF did_recv_LISTPROTO
<1>5. /\ via \in BeaconEntry /\ via.via \in S
      /\ m.src \in DOMAIN b => via = b[m.src]
      /\ m.src \notin DOMAIN b => via.via = NoAddr
  BY ViaPeer, Constants
<1>6. b \in MapOf(Nodes, BeaconEntry) /\ c \in MapOf(S, PeerEntry)  BY DEF TypeOK
<1> HIDE DEF b, c, S, via
<1>7. /\ at \in PeerEntry
      /\ via.via \in DOMAIN c => at = c[via.via]
      /\ via.via \notin DOMAIN c => at.address = ZeroKey
  BY <1>6, AtEntry
<1> HIDE DEF at
<1>8. bmap \in MapOf(Nodes, BeaconEntry)  BY <1>2, <1>5, <1>6, PutMap
<1>9. cmap \in MapOf(S, PeerEntry)  BY <1>5, <1>6, <1>7, PutMap
<1>10. \A p \in DOMAIN bmap : (p \in DOMAIN b /\ bmap[p] = b[p]) \/ bmap[p].via = NoAddr
  BY <1>5 DEF Put
<1>11. \A x \in DOMAIN cmap : (x \in DOMAIN c /\ cmap[x] = c[x]) \/ cmap[x].address = ZeroKey
  BY <1>7 DEF Put
<1> HIDE DEF bmap, cmap
<1>12. /\ beacon_map' \in [Discoverers -> MapOf(Nodes, BeaconEntry)] /\ beacon_map'[n] = bmap
       /\ \A d \in Discoverers : d # n => beacon_map'[d] = beacon_map[d]
  BY <1>4, <1>8 DEF TypeOK
<1>13. /\ cluster_map' \in [Discoverers -> MapOf(S, PeerEntry)] /\ cluster_map'[n] = cmap
       /\ \A d \in Discoverers : d # n => cluster_map'[d] = cluster_map[d]
  BY <1>4, <1>9 DEF TypeOK, S
<1>14. ASSUME NEW d \in Discoverers, NEW p \in DOMAIN beacon_map'[d]
       PROVE  \/ p \in DOMAIN beacon_map[d] /\ beacon_map'[d][p] = beacon_map[d][p]
              \/ beacon_map'[d][p].via = NoAddr
  BY <1>10, <1>12 DEF b
<1>15. ASSUME NEW d \in Discoverers, NEW x \in DOMAIN cluster_map'[d]
       PROVE  \/ x \in DOMAIN cluster_map[d] /\ cluster_map'[d][x] = cluster_map[d][x]
              \/ cluster_map'[d][x].address = ZeroKey
  BY <1>11, <1>13 DEF c
<1> QED BY <1>12, <1>13, <1>14, <1>15 DEF S

(* What it makes a node announce.                                          *)
LEMMA Announced ==
  ASSUME Base, NEW n \in Seekers, NEW m, did_recv_LISTPROTO(n, m), m.body # {}
  PROVE  /\ announced' \in [Seekers -> SUBSET Announcement]
         /\ \A x \in Seekers : x # n => announced'[x] = announced[x]
         /\ \A a \in announced'[n] :
              \/ a \in announced[n]
              \/ /\ a.peer = m.src /\ a.key = KeyOf(n, m.src)
                 /\ n \in Discoverers => a.cluster = ClusterKey(n, m.src) /\ a.cluster \in Keys
<1> USE DEF Base
<1>1. Receive("LISTPROTO", n, m)  BY DEF did_recv_LISTPROTO
<1>2. m.src \in Nodes /\ m.type = "LISTPROTO" /\ MessageOK(m)  BY <1>1, InHand
<1>3. m.body \subseteq AllProtocols  BY <1>2 DEF MessageOK
<1>4. KeyOf(n, m.src) \in Clients \cup {ZeroKey}  BY KeyOfPeer
<1> DEFINE k == KeyOf(n, m.src)
           A(c) == {[peer |-> m.src, protocol |-> x, key |-> k, cluster |-> c] : x \in m.body}
<1>5. ASSUME NEW c \in Keys \cup {NoAddr}
      PROVE  A(c) \subseteq Announcement /\ \A a \in A(c) : a.peer = m.src /\ a.key = k /\ a.cluster = c
  BY <1>2, <1>3, <1>4 DEF Announcement
<1>6. \A c : Announcements(n, m, c) = A(c)  BY DEF Announcements
<1>7. announced \in [Seekers -> SUBSET Announcement]  BY DEF TypeOK
<1>8. CASE n \in Clients
  <2>1. n \notin Discoverers  BY <1>8, RolesAssumption DEF RolesAssumption
  <2> DEFINE s == announced[n] \cup A(NoAddr)
  <2>2. announced' = [announced EXCEPT ![n] = s]  BY <1>6, <1>8 DEF did_recv_LISTPROTO
  <2>3. /\ s \in SUBSET Announcement
        /\ \A a \in s : a \in announced[n] \/ (a.peer = m.src /\ a.key = k)
    <3> HIDE DEF A, k
    <3> QED BY <1>5, <1>7
  <2> HIDE DEF s
  <2> QED BY <2>1, <2>2, <2>3, <1>7
<1>9. CASE n \in Discoverers
  <2>1. n \notin Clients  BY <1>9, RolesAssumption DEF RolesAssumption
  <2> DEFINE q == ClusterKey(n, m.src)
  <2>2. CASE q \notin Keys \/ learned = Off
    <3>1. announced' = announced  BY <2>1, <2>2 DEF did_recv_LISTPROTO
    <3> QED BY <3>1, <1>7
  <2>3. CASE ~(q \notin Keys \/ learned = Off)
    <3> DEFINE s == announced[n] \cup A(q)
    <3>1. announced' = [announced EXCEPT ![n] = s]  BY <1>6, <2>1, <2>3 DEF did_recv_LISTPROTO
    <3>2. /\ s \in SUBSET Announcement
          /\ \A a \in s : a \in announced[n] \/ (a.peer = m.src /\ a.key = k /\ a.cluster = q)
      <4> HIDE DEF A, k, q
      <4> QED BY <1>5, <1>7, <2>3
    <3> HIDE DEF s
    <3> QED BY <3>1, <3>2, <2>3, <1>7
  <2> QED BY <2>2, <2>3
<1> QED BY <1>8, <1>9 DEF Seekers

(* LISTPROTO: the node learns what a relay offers and announces it.        *)
LEMMA BaseProtocols ==
  ASSUME Base, NEW n \in Seekers, NEW m, did_recv_LISTPROTO(n, m)
  PROVE  Base'
<1> USE DEF Base
<1>1. Receive("LISTPROTO", n, m)  BY DEF did_recv_LISTPROTO
<1>2. m \in net  BY <1>1, InHand
<1>3. net' \subseteq net /\ now' = now  BY <1>2, Taken DEF did_recv_LISTPROTO
<1>4. MessagesOK' /\ \A o \in net' : o.dst \in Nodes /\ o.at \in 0 .. now' /\ now' <= o.at + MaxDelay
  BY <1>3, NetTaken
<1>5. /\ node_key_map' \in [Seekers -> MapOf(Nodes, Clients \cup {ZeroKey})]
      /\ beacon_map' \in [Discoverers -> MapOf(Nodes, BeaconEntry)]
      /\ cluster_map' \in [Discoverers -> MapOf(Nodes \cup {NoAddr}, PeerEntry)]
      /\ announced' \in [Seekers -> SUBSET Announcement]
  <2>1. CASE m.body = {}  BY <2>1 DEF did_recv_LISTPROTO, maps, TypeOK
  <2>2. CASE m.body # {} /\ n \in Clients
    <3>1. beacon_map' = beacon_map /\ cluster_map' = cluster_map  BY <2>2 DEF did_recv_LISTPROTO
    <3> QED BY <2>2, <3>1, ProtocolsKeys, Announced DEF TypeOK
  <2>3. CASE m.body # {} /\ n \in Discoverers
    BY <2>3, ProtocolsKeys, ProtocolsMaps, Announced
  <2> QED BY <2>1, <2>2, <2>3 DEF Seekers
<1>6. TypeOK'  BY <1>4, <1>5 DEF TypeOK, did_recv_LISTPROTO, history
<1>7. KeysHeard'  BY DEF KeysHeard, did_recv_LISTPROTO
<1> QED BY <1>4, <1>6, <1>7

(* Losses, and the passing of time.                                        *)
LEMMA BaseNetwork ==
  ASSUME Base, Learn \/ Lose \/ Tick \/ UNCHANGED vars
  PROVE  Base'
<1> USE DEF Base
<1>1. now \in Nat /\ lost \in Nat  BY Constants DEF TypeOK
<1>2. CASE Learn
  <2>1. learned' \in Nat \cup {Off}  BY <1>1, <1>2 DEF Learn
  <2>2. TypeOK'  BY <1>2, <2>1 DEF Learn, TypeOK, maps, history
  <2> QED BY <1>2, <2>2 DEF Learn, MessagesOK, KeysHeard
<1>3. CASE Lose
  <2>1. lost' \in Nat  BY <1>1, <1>3 DEF Lose
  <2>2. net' \subseteq net /\ now' = now  BY <1>3 DEF Lose
  <2>3. MessagesOK' /\ \A o \in net' : o.dst \in Nodes /\ o.at \in 0 .. now' /\ now' <= o.at + MaxDelay
    BY <2>2, NetTaken
  <2>4. TypeOK'  BY <1>3, <2>1, <2>3 DEF Lose, TypeOK, maps, history
  <2> QED BY <1>3, <2>3, <2>4 DEF Lose, KeysHeard
<1>4. CASE Tick
  <2>1. now' = now + 1 /\ now' \in 0 .. MaxTime  BY <1>1, <1>4, Constants DEF Tick, TypeOK
  <2>2. ASSUME NEW m \in net' PROVE m.dst \in Nodes /\ m.at \in 0 .. now' /\ now' <= m.at + MaxDelay
    <3>1. m \in net /\ now < m.at + MaxDelay  BY <1>4 DEF Tick
    <3>2. m.dst \in Nodes /\ m.at \in 0 .. now  BY <3>1 DEF TypeOK
    <3> QED BY <1>1, <2>1, <3>1, <3>2, Constants
  <2>3. TypeOK'  BY <1>4, <2>1, <2>2 DEF Tick, TypeOK, maps, history
  <2> QED BY <1>4, <2>3 DEF Tick, MessagesOK, KeysHeard
<1>5. CASE UNCHANGED vars
  BY <1>5 DEF vars, TypeOK, maps, history, MessagesOK, KeysHeard
<1> QED BY <1>2, <1>3, <1>4, <1>5

(* The timers of a node that stops, starts or is closed.                   *)
LEMMA TimingType ==
  ASSUME TypeOK, NEW n, NEW t \in Nat \cup {Off}
  PROVE  Timing(n, t) \in [Timers -> Nat \cup {Off}]
BY DEF TypeOK, Timing

(* A node stops.                                                           *)
LEMMA BaseStop ==
  ASSUME Base, NEW n \in Nodes, Stop(n)
  PROVE  Base'
<1> USE DEF Base
<1>1. now \in Nat /\ faults \in Nat /\ now' = now /\ net' = net  BY Constants DEF TypeOK, Stop
<1>2. \A S, V : NoEntry \in MapOf(S, V) /\ DOMAIN NoEntry = {}  BY NoEntryMap
<1>3. due' \in [Timers -> Nat \cup {Off}]  BY TimingType DEF Stop
<1>4. peers' \in [Servers -> MapOf(Nodes, PeerEntry)]  BY <1>2 DEF Stop, TypeOK
<1>5. node_key_map' \in [Seekers -> MapOf(Nodes, Clients \cup {ZeroKey})]  BY <1>2 DEF Stop, TypeOK
<1>6. cluster_map' \in [Discoverers -> MapOf(Nodes \cup {NoAddr}, PeerEntry)]  BY <1>2 DEF Stop, TypeOK
<1>7. beacon_map' \in [Discoverers -> MapOf(Nodes, BeaconEntry)]  BY <1>2 DEF Stop, TypeOK
<1>8. failed' \in [Nodes -> Nat \cup {Off}]  BY <1>1 DEF Stop, TypeOK
<1>9. /\ up' \subseteq Nodes /\ faults' \in Nat /\ skey' = skey /\ announced' = announced /\ learned' = learned
      /\ lost' = lost /\ listed' = listed /\ registered' = registered
  BY <1>1 DEF Stop, TypeOK
<1>10. TypeOK'  BY <1>1, <1>3, <1>4, <1>5, <1>6, <1>7, <1>8, <1>9 DEF TypeOK
<1>11. MessagesOK'  BY <1>1 DEF MessagesOK
<1>12. \A s \in Servers : peers'[s] = peers[s] \/ DOMAIN peers'[s] = {}  BY <1>2 DEF Stop, TypeOK
<1>13. KeysHeard'  BY <1>12 DEF KeysHeard
<1> QED BY <1>10, <1>11, <1>13

(* A node starts again, knowing nothing.                                   *)
LEMMA BaseStart ==
  ASSUME Base, NEW n \in Nodes, Start(n)
  PROVE  Base'
<1> USE DEF Base
<1>1. now \in Nat  BY Constants DEF TypeOK
<1>2. due' \in [Timers -> Nat \cup {Off}]  BY <1>1, TimingType DEF Start
<1>3. up' \subseteq Nodes  BY DEF Start, TypeOK
<1>4. skey' \in [Servers -> Keys \cup {ZeroKey}] /\ \A s \in Servers : skey'[s] \in ServerKeys[s]
  <2>1. CASE n \in Servers
    <3>1. PICK k \in ServerKeys[n] : skey' = [skey EXCEPT ![n] = k]  BY <2>1 DEF Start
    <3> QED BY <2>1, <3>1, Constants DEF TypeOK
  <2>2. CASE n \notin Servers  BY <2>2 DEF Start, TypeOK
  <2> QED BY <2>1, <2>2
<1>5. TypeOK'  BY <1>2, <1>3, <1>4 DEF Start, TypeOK, maps, history
<1> QED BY <1>5 DEF Start, MessagesOK, KeysHeard

(* A client closes: it forgets the relays and the rest.                    *)
LEMMA BaseClose ==
  ASSUME Base, NEW n \in Seekers, close(n)
  PROVE  Base'
<1> USE DEF Base
<1>1. now \in Nat /\ faults \in Nat  BY Constants DEF TypeOK
<1>2. due' \in [Timers -> Nat \cup {Off}]  BY TimingType DEF close
<1>3. failed' \in [Nodes -> Nat \cup {Off}]  BY <1>1 DEF close, TypeOK
<1>4. faults' \in Nat  BY <1>1 DEF close
<1>5. TypeOK'  BY <1>2, <1>3, <1>4 DEF close, TypeOK, maps
<1> QED BY <1>5 DEF close, MessagesOK, KeysHeard

(* Every step keeps types, and what is listed and under way true.          *)
LEMMA BaseInductive == Base /\ [Next]_vars => Base'
<1> SUFFICES ASSUME Base, [Next]_vars PROVE Base'  OBVIOUS
<1>1. ASSUME NEW s \in Servers, ServerStep(s) PROVE Base'
  BY <1>1, BaseServerTimer, BaseHeartbeat, BaseRegister, BaseListPeers, BaseListClusters DEF ServerStep
<1>2. ASSUME NEW n \in Seekers, SeekerStep(n) \/ close(n) PROVE Base'
  BY <1>2, BaseBeaconTimer, BasePeers, BaseProtocols, BaseClose DEF SeekerStep
<1>3. ASSUME NEW n \in Clients, heartbeat_timer_cb(n) PROVE Base'
  BY <1>3, BaseClientTimer
<1>4. ASSUME NEW d \in Discoverers, NEW m \in net, did_recv_LISTCLUSTER2(d, m) PROVE Base'
  BY <1>4, BaseClusters
<1>5. ASSUME NEW n \in Servers \cup Clients, NEW m \in net, did_recv_DISCPROTO(n, m) PROVE Base'
  BY <1>5, BaseAnswerProtocols
<1>6. ASSUME NEW n \in Nodes, Stop(n) \/ Start(n) PROVE Base'
  BY <1>6, BaseStop, BaseStart
<1>7. ASSUME Learn \/ Lose \/ Tick \/ UNCHANGED vars PROVE Base'
  BY <1>7, BaseNetwork
<1> QED BY <1>1, <1>2, <1>3, <1>4, <1>5, <1>6, <1>7 DEF Next

(* What the handlers keep has its type; every datagram, page and list says *)
(* what its sender is and knows.                                           *)
THEOREM BaseAlways == Spec => []Base
<1> QED BY BaseInit, BaseInductive, PTL DEF Spec

-----------------------------------------------------------------------------
(* What each step adds to the datagrams under way                          *)

(* The timer of a beacon sends at most its own REG.                        *)
LEMMA ServerTimerSends ==
  ASSUME Base, NEW s \in Servers, server_timer_cb(s), NEW o \in net'
  PROVE  o \in net \/ (o.type = "REG" /\ o.src = s /\ o.at = now /\ s \in up /\ o.body.key = skey[s])
<1> DEFINE b == [fiber |-> "h_fiber", key |-> skey[s], time |-> WallClock(s)]
           r == Message("REG", s, RAddr[s], b)
<1>1. o \in net \/ o \in REG(s)  BY DEF server_timer_cb, Post
<1>2. o \in net \/ o = r  BY <1>1 DEF REG
<1>3. r.type = "REG" /\ r.src = s /\ r.at = now /\ r.body.key = skey[s]  BY MessageParts
<1>4. s \in up  BY DEF server_timer_cb
<1> HIDE DEF r
<1> QED BY <1>2, <1>3, <1>4

(* What the answer to LISTPEER2 says.                                      *)
LEMMA ListPeersSends ==
  ASSUME Base, NEW s \in Servers, NEW m, did_recv_DISCPEER(s, m), NEW o \in net'
  PROVE  o \in net \/ (/\ o.type = "LISTPEER" /\ o.src = s /\ o.at = now /\ s \in up
                       /\ \A e \in o.body : e[1] \in Listing(s, m.src))
<1>1. Receive("DISCPEER", s, m)  BY DEF did_recv_DISCPEER
<1>2. m \in net /\ s \in up  BY <1>1 DEF Receive
<1> DEFINE L == {<<p, peers[s][p].key>> : p \in Listing(s, m.src)}
<1>3. PICK P \in Pages(L) : Take(m, {Message("LISTPEER", s, m.src, page) : page \in P})
  BY DEF did_recv_DISCPEER
<1> DEFINE out == {Message("LISTPEER", s, m.src, page) : page \in P}
<1>4. net' \subseteq net \cup out  BY <1>2, <1>3, Taken
<1>5. \A e \in L : e[1] \in Listing(s, m.src)  OBVIOUS
<1>6. CASE o \in out
  <2>1. PICK page \in P : o = Message("LISTPEER", s, m.src, page)  BY <1>6
  <2>2. o.type = "LISTPEER" /\ o.src = s /\ o.dst = m.src /\ o.body = page /\ o.at = now
    BY <2>1, MessageParts
  <2> HIDE DEF L
  <2>3. page \subseteq L  BY PagesOf
  <2> QED BY <1>2, <1>5, <2>2, <2>3
<1> QED BY <1>4, <1>6

(* What the answer to LISTCLUSTER says.                                    *)
LEMMA ListClustersSends ==
  ASSUME Base, NEW s \in Servers, NEW m, did_recv_DISCCLUSTER2(s, m), NEW o \in net'
  PROVE  o \in net \/ (/\ o.type = "LISTCLUSTER2" /\ o.src = s /\ o.at = now /\ s \in up
                       /\ \A e \in o.body : \E p \in DOMAIN peers[s] : e = <<p, peers[s][p].address>>)
<1>1. Receive("DISCCLUSTER2", s, m)  BY DEF did_recv_DISCCLUSTER2
<1>2. m \in net /\ s \in up  BY <1>1 DEF Receive
<1> DEFINE L == {<<p, peers[s][p].address>> : p \in Listing(s, m.src)}
           r == Message("LISTCLUSTER2", s, m.src, L)
<1>3. net' \subseteq net \cup LISTCLUSTER2(s, m.src)  BY <1>2, Taken DEF did_recv_DISCCLUSTER2
<1>4. LISTCLUSTER2(s, m.src) \subseteq {r}  BY DEF LISTCLUSTER2
<1>5. r.type = "LISTCLUSTER2" /\ r.src = s /\ r.body = L /\ r.at = now  BY MessageParts
<1>6. \A e \in L : \E p \in DOMAIN peers[s] : e = <<p, peers[s][p].address>>  BY DEF Listing
<1> HIDE DEF r, L
<1> QED BY <1>2, <1>3, <1>4, <1>5, <1>6

(* What the answer to DISCPROTO says.                                      *)
LEMMA AnswerSends ==
  ASSUME Base, NEW n \in Servers \cup Clients, NEW m, did_recv_DISCPROTO(n, m), NEW o \in net'
  PROVE  /\ m \in net /\ m.type = "DISCPROTO" /\ m.dst = n
         /\ o \in net \/ (o.type = "LISTPROTO" /\ o.src = n /\ o.dst = m.src /\ o.at = now /\ n \in up)
<1>1. Receive("DISCPROTO", n, m)  BY DEF did_recv_DISCPROTO
<1>2. m \in net /\ m.type = "DISCPROTO" /\ m.dst = n /\ n \in up  BY <1>1 DEF Receive
<1> DEFINE b == IF n \in Clients THEN Protocols[n] ELSE {}
           r == Message("LISTPROTO", n, m.src, b)
<1>3. LISTPROTO(n, m.src) = r  BY DEF LISTPROTO
<1>4. r.type = "LISTPROTO" /\ r.src = n /\ r.dst = m.src /\ r.at = now  BY MessageParts
<1> HIDE DEF r
<1>5. net' \subseteq net \cup {r}  BY <1>2, <1>3, Taken DEF did_recv_DISCPROTO
<1> QED BY <1>2, <1>4, <1>5

(* What the timer of a relay's client sends.                               *)
LEMMA ClientTimerSends ==
  ASSUME Base, NEW n \in Clients, heartbeat_timer_cb(n), NEW o \in net'
  PROVE  o \in net \/ (/\ o.type = "HEARTBEAT" /\ o.src = n /\ o.at = now /\ n \in up
                       /\ <<o.dst, o.body.fiber>> \in HeartbeatAddrs[n])
<1>1. n \in up /\ net' = net \cup {HEARTBEAT(n, h) : h \in HeartbeatAddrs[n]}
  BY DEF heartbeat_timer_cb, Post
<1>2. CASE o \in {HEARTBEAT(n, h) : h \in HeartbeatAddrs[n]}
  <2>1. PICK h \in HeartbeatAddrs[n] : o = Message("HEARTBEAT", n, h[1], [fiber |-> h[2], key |-> n])
    BY <1>2 DEF HEARTBEAT
  <2> DEFINE b == [fiber |-> h[2], key |-> n]
  <2>2. o.type = "HEARTBEAT" /\ o.src = n /\ o.at = now /\ o.dst = h[1] /\ o.body = b
    BY <2>1, MessageParts
  <2>3. HeartbeatAddrs[n] \subseteq Servers \X {"fiber", "h_fiber"}  BY DiscoveryAssumption DEF DiscoveryAssumption
  <2>4. h = <<h[1], h[2]>> /\ b.fiber = h[2]  BY <2>3
  <2> QED BY <1>1, <2>2, <2>4
<1> QED BY <1>1, <1>2

(* What the timer of a node that seeks sends.                              *)
LEMMA BeaconTimerSends ==
  ASSUME Base, NEW n \in Seekers, beacon_timer_cb(n), NEW o \in net'
  PROVE  o \in net \/ (o.type \in {"DISCPEER", "DISCCLUSTER2"} /\ o.src = n /\ o.at = now /\ n \in up)
<1>1. n \in up /\ net' = net \cup {Message(Query(n), n, s, {}) : s \in DiscoveryAddrs[n]}
  BY DEF beacon_timer_cb, Post
<1>2. CASE o \in {Message(Query(n), n, s, {}) : s \in DiscoveryAddrs[n]}
  <2>1. PICK s \in DiscoveryAddrs[n] : o = Message(Query(n), n, s, {})  BY <1>2
  <2>2. o.type = Query(n) /\ o.src = n /\ o.at = now  BY <2>1, MessageParts
  <2> QED BY <1>1, <2>2 DEF Query
<1> QED BY <1>1, <1>2

(* What a client asks of the relays of a cluster it learned.               *)
LEMMA ClustersSends ==
  ASSUME Base, NEW d \in Discoverers, NEW m, did_recv_LISTCLUSTER2(d, m), NEW o \in net'
  PROVE  o \in net \/ (o.type = "DISCPEER" /\ o.src = d /\ o.at = now /\ d \in up)
<1>1. Receive("LISTCLUSTER2", d, m)  BY DEF did_recv_LISTCLUSTER2
<1>2. m \in net /\ d \in up  BY <1>1 DEF Receive
<1> DEFINE seen == {e[1] : e \in m.body}
           out == {Message("DISCPEER", d, c, {}) : c \in seen}
<1>3. net' \subseteq net \cup out  BY <1>2, Taken DEF did_recv_LISTCLUSTER2
<1>4. CASE o \in out
  <2>1. PICK c \in seen : o = Message("DISCPEER", d, c, {})  BY <1>4
  <2>2. o.type = "DISCPEER" /\ o.src = d /\ o.at = now  BY <2>1, MessageParts
  <2> QED BY <1>2, <2>2
<1> QED BY <1>3, <1>4

(* What a client asks of the relays it learned.                            *)
LEMMA PeersSends ==
  ASSUME Base, NEW n \in Seekers, NEW m, did_recv_LISTPEER(n, m), NEW o \in net'
  PROVE  o \in net \/ (/\ o.type = "DISCPROTO" /\ o.src = n /\ o.at = now /\ n \in up
                       /\ o.dst \in {e[1] : e \in m.body})
<1>1. Receive("LISTPEER", n, m)  BY DEF did_recv_LISTPEER
<1>2. m \in net /\ n \in up  BY <1>1 DEF Receive
<1> DEFINE seen == {e[1] : e \in m.body}
           out == {Message("DISCPROTO", n, p, {}) : p \in seen}
<1>3. net' \subseteq net \cup out  BY <1>2, Taken DEF did_recv_LISTPEER
<1>4. CASE o \in out
  <2>1. PICK p \in seen : o = Message("DISCPROTO", n, p, {})  BY <1>4
  <2>2. o.type = "DISCPROTO" /\ o.src = n /\ o.dst = p /\ o.at = now  BY <2>1, MessageParts
  <2> QED BY <1>2, <2>1, <2>2
<1> QED BY <1>3, <1>4

(* The other steps send nothing.                                           *)
LEMMA NothingSent ==
  ASSUME Base, NEW n, NEW m,
         \/ did_recv_HEARTBEAT(n, m) \/ did_recv_REG(n, m) \/ did_recv_LISTPROTO(n, m)
         \/ Stop(n) \/ Start(n) \/ close(n) \/ Learn \/ Lose \/ Tick \/ UNCHANGED vars
  PROVE  net' \subseteq net
<1>1. ASSUME m \in net, Take(m, {})  PROVE net' \subseteq net
  BY <1>1, Taken
<1> QED BY <1>1 DEF did_recv_HEARTBEAT, did_recv_REG, did_recv_LISTPROTO, Receive, Stop, Start, close,
                  Learn, Lose, Tick, vars

-----------------------------------------------------------------------------
(* AnnouncedWithItsKey                                                     *)

(* Protocols are asked for, and answered, after the key is known: the two  *)
(* travel by different datagrams, but in this order.                       *)
KeyKnown(n) ==
  failed[n] = Off =>
    /\ \A c \in DOMAIN node_key_map[n] \cap Clients : node_key_map[n][c] = c
    /\ \A m \in net : /\ m.type = "DISCPROTO" /\ m.src = n => m.dst \in DOMAIN node_key_map[n]
                      /\ m.type = "LISTPROTO" /\ m.dst = n /\ m.body # {} => m.src \in DOMAIN node_key_map[n]
    /\ \A a \in announced[n] : a.key = a.peer
KeysKnown == \A n \in Seekers : KeyKnown(n)

(* Most steps change nothing a seeker knows.                               *)
LEMMA KeysKept ==
  ASSUME KeysKnown, node_key_map' = node_key_map, announced' = announced, failed' = failed,
         \A o \in net' : o \in net \/ o.type \notin {"DISCPROTO", "LISTPROTO"}
  PROVE  KeysKnown'
BY DEF KeysKnown, KeyKnown

(* The keys a client learns from a page are those of the relays.           *)
LEMMA KeysPeers ==
  ASSUME Base, KeysKnown, NEW n \in Seekers, NEW m, did_recv_LISTPEER(n, m)
  PROVE  KeysKnown'
<1> DEFINE seen == {e[1] : e \in m.body}
<1>1. /\ m \in net /\ m.type = "LISTPEER" /\ MessageOK(m)
      /\ \A x \in Seekers : x # n => node_key_map'[x] = node_key_map[x]
      /\ DOMAIN node_key_map'[n] = DOMAIN node_key_map[n] \cup seen
      /\ \A c \in seen : \E e \in m.body : e[1] = c /\ node_key_map'[n][c] = e[2]
      /\ \A c \in DOMAIN node_key_map[n] : c \notin seen => node_key_map'[n][c] = node_key_map[n][c]
  BY PeersHeard
<1>2. \A e \in m.body : e[1] \in Clients => e[2] = e[1]  BY <1>1 DEF MessageOK
<1>3. announced' = announced /\ failed' = failed  BY DEF did_recv_LISTPEER, history
<1>4. \A o \in net' : o \in net \/ (o.type = "DISCPROTO" /\ o.src = n /\ o.dst \in seen)
  BY PeersSends
<1> HIDE DEF seen
<1>5. ASSUME NEW x \in Seekers, x # n PROVE KeyKnown(x)'
  BY <1>1, <1>3, <1>4, <1>5 DEF KeysKnown, KeyKnown
<1>6. KeyKnown(n)'
  <2> SUFFICES ASSUME failed[n] = Off PROVE KeyKnown(n)'  BY <1>3 DEF KeyKnown
  <2>1. KeyKnown(n)  BY DEF KeysKnown
  <2>2. ASSUME NEW c \in DOMAIN node_key_map'[n] \cap Clients  PROVE node_key_map'[n][c] = c
    BY <1>1, <1>2, <2>1 DEF KeyKnown
  <2>3. ASSUME NEW o \in net'
        PROVE  /\ o.type = "DISCPROTO" /\ o.src = n => o.dst \in DOMAIN node_key_map'[n]
               /\ o.type = "LISTPROTO" /\ o.dst = n /\ o.body # {} => o.src \in DOMAIN node_key_map'[n]
    BY <1>1, <1>4, <2>1 DEF KeyKnown
  <2> QED BY <1>3, <2>1, <2>2, <2>3 DEF KeyKnown
<1> QED BY <1>5, <1>6 DEF KeysKnown

(* What it announces of a relay has the relay's key.                       *)
LEMMA KeysProtocols ==
  ASSUME Base, KeysKnown, NEW n \in Seekers, NEW m, did_recv_LISTPROTO(n, m)
  PROVE  KeysKnown'
<1>1. Receive("LISTPROTO", n, m)  BY DEF did_recv_LISTPROTO
<1>2. m \in net /\ m.type = "LISTPROTO" /\ m.dst = n /\ MessageOK(m)  BY <1>1, InHand
<1>3. net' \subseteq net  BY NothingSent
<1>4. failed' = failed  BY DEF did_recv_LISTPROTO, history
<1>5. CASE m.body = {}
  BY <1>3, <1>4, <1>5, KeysKept DEF did_recv_LISTPROTO, maps
<1>6. CASE m.body # {}
  <2>1. m.src \in Clients  BY <1>2, <1>6 DEF MessageOK
  <2>2. /\ \A x \in Seekers : x # n => node_key_map'[x] = node_key_map[x]
        /\ DOMAIN node_key_map'[n] = DOMAIN node_key_map[n] \cup {m.src}
        /\ \A c \in DOMAIN node_key_map[n] : node_key_map'[n][c] = node_key_map[n][c]
    BY <1>6, ProtocolsKeys
  <2>3. /\ \A x \in Seekers : x # n => announced'[x] = announced[x]
        /\ \A a \in announced'[n] : a \in announced[n] \/ (a.peer = m.src /\ a.key = KeyOf(n, m.src))
    BY <1>6, Announced
  <2>4. ASSUME NEW x \in Seekers, x # n PROVE KeyKnown(x)'
    BY <1>3, <1>4, <2>2, <2>3, <2>4 DEF KeysKnown, KeyKnown
  <2>5. KeyKnown(n)'
    <3> SUFFICES ASSUME failed[n] = Off PROVE KeyKnown(n)'  BY <1>4 DEF KeyKnown
    <3>1. KeyKnown(n)  BY DEF KeysKnown
    <3>2. m.src \in DOMAIN node_key_map[n]  BY <1>2, <1>6, <3>1 DEF KeyKnown
    <3>3. KeyOf(n, m.src) = m.src  BY <2>1, <3>1, <3>2 DEF KeyKnown, KeyOf
    <3>4. \A a \in announced'[n] : a.key = a.peer  BY <2>3, <3>1, <3>3 DEF KeyKnown
    <3>5. DOMAIN node_key_map'[n] = DOMAIN node_key_map[n]  BY <2>2, <3>2
    <3> QED BY <1>3, <2>2, <3>1, <3>4, <3>5 DEF KeyKnown
  <2> QED BY <2>4, <2>5 DEF KeysKnown
<1> QED BY <1>5, <1>6

(* A node that answers learns nothing.                                     *)
LEMMA KeysAnswer ==
  ASSUME Base, KeysKnown, NEW n \in Servers \cup Clients, NEW m, did_recv_DISCPROTO(n, m)
  PROVE  KeysKnown'
<1>1. node_key_map' = node_key_map /\ announced' = announced /\ failed' = failed
  BY DEF did_recv_DISCPROTO, maps, history
<1>2. \A o \in net' : o \in net \/ (o.type = "LISTPROTO" /\ o.src = n /\ o.dst = m.src)
  BY AnswerSends
<1>3. \A o \in net' : m \in net /\ m.type = "DISCPROTO" /\ m.dst = n  BY AnswerSends
<1> QED BY <1>1, <1>2, <1>3 DEF KeysKnown, KeyKnown

(* Nor does one that stops, starts or closes.                              *)
LEMMA KeysStop ==
  ASSUME Base, KeysKnown, NEW n \in Nodes, Stop(n) \/ Start(n) \/ close(n)
  PROVE  KeysKnown'
<1>1. now # Off /\ failed \in [Nodes -> Nat \cup {Off}]
  BY RolesAssumption, Constants DEF RolesAssumption, Base, TypeOK
<1>2. net' \subseteq net  BY NothingSent
<1>3. ASSUME NEW x \in Seekers
      PROVE  failed'[x] = Off => failed[x] = Off /\ node_key_map'[x] = node_key_map[x]
  <2>1. node_key_map \in [Seekers -> MapOf(Nodes, Clients \cup {ZeroKey})]  BY DEF Base, TypeOK
  <2> QED BY <1>1, <2>1, Constants DEF Stop, Start, close, maps, history
<1>4. announced' = announced  BY DEF Stop, Start, close, maps
<1> QED BY <1>2, <1>3, <1>4 DEF KeysKnown, KeyKnown

(* Every step keeps the keys.                                              *)
LEMMA KeysInductive == Base /\ KeysKnown /\ [Next]_vars => KeysKnown'
<1> SUFFICES ASSUME Base, KeysKnown, [Next]_vars PROVE KeysKnown'  OBVIOUS
<1>1. ASSUME NEW s \in Servers, ServerStep(s) PROVE KeysKnown'
  <2>1. node_key_map' = node_key_map /\ announced' = announced /\ failed' = failed
    BY <1>1 DEF ServerStep, server_timer_cb, did_recv_HEARTBEAT, did_recv_REG, did_recv_DISCPEER,
                did_recv_DISCCLUSTER2, maps, history
  <2>2. ASSUME NEW o \in net' PROVE o \in net \/ o.type \notin {"DISCPROTO", "LISTPROTO"}
    <3>1. CASE server_timer_cb(s)  BY <3>1, ServerTimerSends
    <3>2. ASSUME NEW m, did_recv_HEARTBEAT(s, m) \/ did_recv_REG(s, m) PROVE o \in net
      BY <3>2, NothingSent
    <3>3. ASSUME NEW m, did_recv_DISCPEER(s, m) PROVE o \in net \/ o.type = "LISTPEER"
      BY <3>3, ListPeersSends
    <3>4. ASSUME NEW m, did_recv_DISCCLUSTER2(s, m) PROVE o \in net \/ o.type = "LISTCLUSTER2"
      BY <3>4, ListClustersSends
    <3> QED BY <1>1, <3>1, <3>2, <3>3, <3>4 DEF ServerStep
  <2> QED BY <2>1, <2>2, KeysKept
<1>2. ASSUME NEW n \in Seekers, SeekerStep(n) \/ close(n) PROVE KeysKnown'
  <2>1. CASE beacon_timer_cb(n)
    <3>1. \A o \in net' : o \in net \/ o.type \notin {"DISCPROTO", "LISTPROTO"}  BY <2>1, BeaconTimerSends
    <3> QED BY <2>1, <3>1, KeysKept DEF beacon_timer_cb, history
  <2>2. n \in Nodes  BY Constants
  <2> QED BY <1>2, <2>1, <2>2, KeysPeers, KeysProtocols, KeysStop DEF SeekerStep
<1>3. ASSUME NEW n \in Clients, heartbeat_timer_cb(n) PROVE KeysKnown'
  <2>1. \A o \in net' : o \in net \/ o.type \notin {"DISCPROTO", "LISTPROTO"}  BY <1>3, ClientTimerSends
  <2> QED BY <1>3, <2>1, KeysKept DEF heartbeat_timer_cb, maps, history
<1>4. ASSUME NEW d \in Discoverers, NEW m \in net, did_recv_LISTCLUSTER2(d, m) PROVE KeysKnown'
  <2>1. \A o \in net' : o \in net \/ o.type \notin {"DISCPROTO", "LISTPROTO"}  BY <1>4, ClustersSends
  <2> QED BY <1>4, <2>1, KeysKept DEF did_recv_LISTCLUSTER2, history
<1>5. ASSUME NEW n \in Servers \cup Clients, NEW m \in net, did_recv_DISCPROTO(n, m) PROVE KeysKnown'
  BY <1>5, KeysAnswer
<1>6. ASSUME NEW n \in Nodes, Stop(n) \/ Start(n) PROVE KeysKnown'
  BY <1>6, KeysStop
<1>7. ASSUME Learn \/ Lose \/ Tick \/ UNCHANGED vars PROVE KeysKnown'
  <2>1. net' \subseteq net  BY <1>7, NothingSent
  <2> QED BY <1>7, <2>1, KeysKept DEF Learn, Lose, Tick, vars, maps, history
<1> QED BY <1>1, <1>2, <1>3, <1>4, <1>5, <1>6, <1>7 DEF Next

(* No key is known at the start.                                           *)
LEMMA KeysInit == Init => KeysKnown
<1> SUFFICES ASSUME Init PROVE KeysKnown  OBVIOUS
<1>1. \A S, V : DOMAIN NoEntry = {}  BY NoEntryMap
<1> QED BY <1>1 DEF Init, KeysKnown, KeyKnown

(* A peer is announced with the key it put in its heartbeats.              *)
THEOREM PeersKeepTheirKeys == Spec => []AnnouncedWithItsKey
<1>1. KeysKnown => AnnouncedWithItsKey  BY DEF KeysKnown, KeyKnown, AnnouncedWithItsKey
<1> QED BY <1>1, BaseInit, BaseInductive, KeysInit, KeysInductive, PTL DEF Spec

-----------------------------------------------------------------------------
(* AnnouncedUnderItsCluster                                                *)

(* Each link from a relay to the key it is announced under was a fact when *)
(* it was sent, and is kept: the relay was listed by the beacon, and the   *)
(* beacon registered with the key.                                         *)
Registered(p, key) == key # ZeroKey => p \in Servers /\ <<p, key>> \in registered
ListsTrue == \A s \in Servers : \A p \in DOMAIN peers[s] : Registered(p, peers[s][p].address)
PagesTrue ==
  \A m \in net : /\ m.type = "LISTPEER" => \A e \in m.body : <<m.src, e[1]>> \in listed
                 /\ m.type = "LISTCLUSTER2" => \A e \in m.body : Registered(e[1], e[2])
MapsTrue ==
  \A d \in Discoverers :
    /\ \A c \in DOMAIN cluster_map[d] : Registered(c, cluster_map[d][c].address)
    /\ \A p \in DOMAIN beacon_map[d] :
         beacon_map[d][p].via # NoAddr => <<beacon_map[d][p].via, p>> \in listed
ClustersTrue == ListsTrue /\ PagesTrue /\ MapsTrue /\ AnnouncedUnderItsCluster

(* Facts are not taken back.                                               *)
Recorded == listed \subseteq listed' /\ registered \subseteq registered'
(* What is recorded only grows, so what was registered stays so.           *)
LEMMA RecordedRegistered ==
  ASSUME Recorded, NEW p, NEW key, Registered(p, key)
  PROVE  Registered(p, key)'
BY DEF Recorded, Registered

(* The lists of the servers stay true when they lose entries.              *)
LEMMA ListsKept ==
  ASSUME ListsTrue, Recorded,
         \A s \in Servers : \A p \in DOMAIN peers'[s] : p \in DOMAIN peers[s] /\ peers'[s][p] = peers[s][p]
  PROVE  ListsTrue'
BY RecordedRegistered DEF ListsTrue

(* So do the pages in flight.                                              *)
LEMMA PagesKept ==
  ASSUME PagesTrue, Recorded,
         \A o \in net' : o \in net \/ o.type \notin {"LISTPEER", "LISTCLUSTER2"}
  PROVE  PagesTrue'
<1>1. ASSUME NEW o \in net', o.type = "LISTPEER", NEW e \in o.body  PROVE <<o.src, e[1]>> \in listed'
  <2>1. o \in net  BY <1>1
  <2>2. \A x \in o.body : <<o.src, x[1]>> \in listed  BY <1>1, <2>1 DEF PagesTrue
  <2>3. <<o.src, e[1]>> \in listed  BY <2>2
  <2> QED BY <2>3 DEF Recorded
<1>2. ASSUME NEW o \in net', o.type = "LISTCLUSTER2", NEW e \in o.body  PROVE Registered(e[1], e[2])'
  <2>1. o \in net  BY <1>2
  <2>2. Registered(e[1], e[2])  BY <1>2, <2>1 DEF PagesTrue
  <2> QED BY <2>2, RecordedRegistered
<1> QED BY <1>1, <1>2 DEF PagesTrue

(* So do the maps of the clients when they lose entries.                   *)
LEMMA MapsKept ==
  ASSUME MapsTrue, Recorded,
         \A d \in Discoverers :
           /\ \A c \in DOMAIN cluster_map'[d] : c \in DOMAIN cluster_map[d] /\ cluster_map'[d][c] = cluster_map[d][c]
           /\ \A p \in DOMAIN beacon_map'[d] : p \in DOMAIN beacon_map[d] /\ beacon_map'[d][p] = beacon_map[d][p]
  PROVE  MapsTrue'
<1>1. ASSUME NEW d \in Discoverers, NEW c \in DOMAIN cluster_map'[d]
      PROVE  Registered(c, cluster_map[d][c].address)' 
  <2>1. c \in DOMAIN cluster_map[d] /\ cluster_map'[d][c] = cluster_map[d][c]  OBVIOUS
  <2>2. Registered(c, cluster_map[d][c].address)  BY <2>1 DEF MapsTrue
  <2> QED BY <2>1, <2>2 DEF Registered, Recorded
<1>2. ASSUME NEW d \in Discoverers, NEW p \in DOMAIN beacon_map'[d], beacon_map'[d][p].via # NoAddr
      PROVE  <<beacon_map'[d][p].via, p>> \in listed'
  BY <1>2 DEF MapsTrue, Recorded
<1> QED BY <1>1, <1>2 DEF MapsTrue

(* So does what was announced.                                             *)
LEMMA AnnouncedKept ==
  ASSUME AnnouncedUnderItsCluster, Recorded, \A d \in Discoverers : announced'[d] = announced[d]
  PROVE  AnnouncedUnderItsCluster'
BY DEF AnnouncedUnderItsCluster, Recorded

(* The steps that change none of it.                                       *)
LEMMA ClustersKept ==
  ASSUME ClustersTrue, peers' = peers, cluster_map' = cluster_map, beacon_map' = beacon_map,
         announced' = announced, listed' = listed, registered' = registered,
         \A o \in net' : o \in net \/ o.type \notin {"LISTPEER", "LISTCLUSTER2"}
  PROVE  ClustersTrue'
<1>1. Recorded  BY DEF Recorded
<1> QED BY <1>1, ListsKept, PagesKept, MapsKept, AnnouncedKept DEF ClustersTrue

(* The server's timer only removes.                                        *)
LEMMA ClustersServerTimer ==
  ASSUME Base, ClustersTrue, NEW s \in Servers, server_timer_cb(s)
  PROVE  ClustersTrue'
<1> USE DEF Base
<1>1. Recorded  BY DEF server_timer_cb, history, Recorded
<1>2. \A q \in Servers : \A p \in DOMAIN peers'[q] : p \in DOMAIN peers[q] /\ peers'[q][p] = peers[q][p]
  <2>1. peers' = [peers EXCEPT ![s] = Only(@, DOMAIN peers[s] \ Stale_Peers(s))]
    BY DEF server_timer_cb, TypeOK
  <2>2. DOMAIN peers[s] \ Stale_Peers(s) \in SUBSET DOMAIN peers[s]  OBVIOUS
  <2>3. /\ \A q \in Servers : q # s => peers'[q] = peers[q]
        /\ DOMAIN peers'[s] = DOMAIN peers[s] \ Stale_Peers(s)
        /\ \A x \in DOMAIN peers[s] \ Stale_Peers(s) : peers'[s][x] = peers[s][x]
    BY <2>1, <2>2, PeersOnly
  <2> QED BY <2>3
<1>3. \A o \in net' : o \in net \/ o.type \notin {"LISTPEER", "LISTCLUSTER2"}  BY ServerTimerSends
<1>4. ListsTrue'  BY <1>1, <1>2, ListsKept DEF ClustersTrue
<1>5. PagesTrue'  BY <1>1, <1>3, PagesKept DEF ClustersTrue
<1>6. MapsTrue'  BY <1>1, MapsKept DEF ClustersTrue, server_timer_cb, maps
<1>7. AnnouncedUnderItsCluster'  BY <1>1, AnnouncedKept DEF ClustersTrue, server_timer_cb, maps
<1> QED BY <1>4, <1>5, <1>6, <1>7 DEF ClustersTrue

(* HEARTBEAT lists a relay where it was heard.                             *)
LEMMA ClustersHeartbeat ==
  ASSUME Base, ClustersTrue, NEW s \in Servers, NEW m, did_recv_HEARTBEAT(s, m)
  PROVE  ClustersTrue'
<1> USE DEF Base
<1>1. Recorded  BY DEF did_recv_HEARTBEAT, history, Recorded
<1>2. Receive("HEARTBEAT", s, m)  BY DEF did_recv_HEARTBEAT
<1>3. m.type = "HEARTBEAT" /\ MessageOK(m) /\ m.src \in Nodes /\ now \in Nat  BY <1>2, InHand
<1>4. m.body.key \in Clients \cup {ZeroKey}  BY <1>3 DEF MessageOK
<1>5. ListsTrue'
  <2>1. CASE m.body.fiber # "h_fiber"
    BY <1>1, <2>1, ListsKept DEF did_recv_HEARTBEAT, ClustersTrue
  <2>2. CASE m.body.fiber = "h_fiber"
    <3> DEFINE old == At(peers[s], m.src)  e == Heard(m, old)
    <3>1. peers' = [peers EXCEPT ![s] = Put(@, m.src, e)]  BY <2>2 DEF did_recv_HEARTBEAT, TypeOK
    <3>2. peers[s] \in MapOf(Nodes, PeerEntry)  BY PeersParts
    <3>3. /\ old \in PeerEntry
          /\ m.src \in DOMAIN peers[s] => old = peers[s][m.src]
          /\ m.src \notin DOMAIN peers[s] => old.address = ZeroKey
      BY <3>2, AtEntry
    <3>4. Registered(m.src, old.address)  BY <3>3 DEF ClustersTrue, ListsTrue, Registered
    <3> HIDE DEF old
    <3>5. e \in PeerEntry /\ e.address = old.address  BY <3>3, <1>3, <1>4, HeardEntry
    <3> HIDE DEF e
    <3>6. /\ peers' \in [Servers -> MapOf(Nodes, PeerEntry)]
          /\ \A q \in Servers : q # s => peers'[q] = peers[q]
          /\ DOMAIN peers'[s] = DOMAIN peers[s] \cup {m.src} /\ peers'[s][m.src] = e
          /\ \A x \in DOMAIN peers[s] : x # m.src => peers'[s][x] = peers[s][x]
      <4>1. m.src \in Nodes /\ e \in PeerEntry  BY <3>5, <1>3
      <4> QED BY ZenonT(150), <3>1, <4>1, PeersPut
    <3>7. ASSUME NEW q \in Servers, NEW p \in DOMAIN peers'[q]
          PROVE  Registered(p, peers[q][p].address)'
      <4>1. CASE q = s /\ p = m.src  BY <4>1, <3>4, <3>5, <3>6, <1>1 DEF Registered, Recorded
      <4>2. CASE ~(q = s /\ p = m.src)
        <5>1. p \in DOMAIN peers[q] /\ peers'[q][p] = peers[q][p]  BY <4>2, <3>6
        <5>2. Registered(p, peers[q][p].address)  BY <5>1 DEF ClustersTrue, ListsTrue
        <5> QED BY <5>1, <5>2, <1>1 DEF Registered, Recorded
      <4> QED BY <4>1, <4>2
    <3> QED BY <3>7 DEF ListsTrue
  <2> QED BY <2>1, <2>2
<1>6. net' \subseteq net  BY NothingSent
<1>7. PagesTrue'  BY <1>1, <1>6, PagesKept DEF ClustersTrue
<1>8. MapsTrue'  BY <1>1, MapsKept DEF ClustersTrue, did_recv_HEARTBEAT, maps
<1>9. AnnouncedUnderItsCluster'  BY <1>1, AnnouncedKept DEF ClustersTrue, did_recv_HEARTBEAT, maps
<1> QED BY <1>5, <1>7, <1>8, <1>9 DEF ClustersTrue

(* REG records a server where it registered.                               *)
LEMMA ClustersRegister ==
  ASSUME Base, ClustersTrue, NEW s \in Servers, NEW m, did_recv_REG(s, m)
  PROVE  ClustersTrue'
<1> USE DEF Base
<1>1. Recorded  BY DEF did_recv_REG, Recorded
<1>2. Receive("REG", s, m)  BY DEF did_recv_REG
<1>3. m.type = "REG" /\ MessageOK(m) /\ m.src \in Nodes /\ now \in Nat  BY <1>2, InHand
<1>4. m.src \in Servers /\ m.body.key \in Keys \cup {ZeroKey}  BY <1>3, Constants DEF MessageOK
<1>5. ListsTrue'
  <2>1. CASE Rejected(s, m)
    BY <1>1, <2>1, ListsKept DEF did_recv_REG, ClustersTrue
  <2>2. CASE ~Rejected(s, m)
    <3> DEFINE old == At(peers[s], m.src)  e == Registration(s, m, old)
    <3>1. peers' = [peers EXCEPT ![s] = Put(@, m.src, e)]  BY <2>2 DEF did_recv_REG, TypeOK
    <3>2. peers[s] \in MapOf(Nodes, PeerEntry)  BY PeersParts
    <3>3. /\ old \in PeerEntry
          /\ m.src \in DOMAIN peers[s] => old = peers[s][m.src]
          /\ m.src \notin DOMAIN peers[s] => old.address = ZeroKey
      BY <3>2, AtEntry
    <3>4. Registered(m.src, old.address)  BY <3>3 DEF ClustersTrue, ListsTrue, Registered
    <3> HIDE DEF old
    <3>5. e \in PeerEntry /\ e.address = IF m.body.key = ZeroKey THEN old.address ELSE m.body.key
      BY <3>3, <1>3, <1>4, RegisteredEntry
    <3> HIDE DEF e
    <3>6. /\ peers' \in [Servers -> MapOf(Nodes, PeerEntry)]
          /\ \A q \in Servers : q # s => peers'[q] = peers[q]
          /\ DOMAIN peers'[s] = DOMAIN peers[s] \cup {m.src} /\ peers'[s][m.src] = e
          /\ \A x \in DOMAIN peers[s] : x # m.src => peers'[s][x] = peers[s][x]
      BY ZenonT(150), <3>1, <3>5, <1>3, PeersPut
    <3>7. <<m.src, m.body.key>> \in registered'  BY <2>2 DEF did_recv_REG
    <3>8. ASSUME NEW q \in Servers, NEW p \in DOMAIN peers'[q]
          PROVE  Registered(p, peers[q][p].address)'
      <4>1. CASE q = s /\ p = m.src
        BY <4>1, <1>1, <1>4, <3>4, <3>5, <3>6, <3>7 DEF Registered, Recorded
      <4>2. CASE ~(q = s /\ p = m.src)
        <5>1. p \in DOMAIN peers[q] /\ peers'[q][p] = peers[q][p]  BY <4>2, <3>6
        <5>2. Registered(p, peers[q][p].address)  BY <5>1 DEF ClustersTrue, ListsTrue
        <5> QED BY <5>1, <5>2, <1>1 DEF Registered, Recorded
      <4> QED BY <4>1, <4>2
    <3> QED BY <3>8 DEF ListsTrue
  <2> QED BY <2>1, <2>2
<1>6. net' \subseteq net  BY NothingSent
<1>7. PagesTrue'  BY <1>1, <1>6, PagesKept DEF ClustersTrue
<1>8. MapsTrue'  BY <1>1, MapsKept DEF ClustersTrue, did_recv_REG, maps
<1>9. AnnouncedUnderItsCluster'  BY <1>1, AnnouncedKept DEF ClustersTrue, did_recv_REG, maps
<1> QED BY <1>5, <1>7, <1>8, <1>9 DEF ClustersTrue

(* A page of relays lists what the server lists.                           *)
LEMMA ClustersListPeers ==
  ASSUME Base, ClustersTrue, NEW s \in Servers, NEW m, did_recv_DISCPEER(s, m)
  PROVE  ClustersTrue'
<1>1. Recorded  BY DEF did_recv_DISCPEER, Recorded
<1>2. PagesTrue'
  <2>1. ASSUME NEW o \in net', o.type = "LISTPEER", NEW e \in o.body  PROVE <<o.src, e[1]>> \in listed'
    <3>1. CASE o \in net
      <4>1. \A x \in o.body : <<o.src, x[1]>> \in listed  BY <2>1, <3>1 DEF ClustersTrue, PagesTrue
      <4> QED BY <4>1, <1>1 DEF Recorded
    <3>2. CASE o \notin net
      <4>1. o.src = s /\ \A x \in o.body : x[1] \in Listing(s, m.src)  BY <3>2, ListPeersSends
      <4>2. listed' = listed \cup {<<s, p>> : p \in Listing(s, m.src)}  BY DEF did_recv_DISCPEER
      <4> QED BY <4>1, <4>2
    <3> QED BY <3>1, <3>2
  <2>2. ASSUME NEW o \in net', o.type = "LISTCLUSTER2", NEW e \in o.body  PROVE Registered(e[1], e[2])'
    <3>1. o \in net  BY <2>2, ListPeersSends
    <3>2. Registered(e[1], e[2])  BY <2>2, <3>1 DEF ClustersTrue, PagesTrue
    <3> QED BY <3>2, <1>1, RecordedRegistered
  <2> QED BY <2>1, <2>2 DEF PagesTrue
<1>3. ListsTrue'  BY <1>1, ListsKept DEF ClustersTrue, did_recv_DISCPEER
<1>4. MapsTrue'  BY <1>1, MapsKept DEF ClustersTrue, did_recv_DISCPEER, maps
<1>5. AnnouncedUnderItsCluster'  BY <1>1, AnnouncedKept DEF ClustersTrue, did_recv_DISCPEER, maps
<1> QED BY <1>2, <1>3, <1>4, <1>5 DEF ClustersTrue

(* A page of servers lists what the server registered.                     *)
LEMMA ClustersListClusters ==
  ASSUME Base, ClustersTrue, NEW s \in Servers, NEW m, did_recv_DISCCLUSTER2(s, m)
  PROVE  ClustersTrue'
<1>1. Recorded  BY DEF did_recv_DISCCLUSTER2, history, Recorded
<1>2. PagesTrue'
  <2>1. ASSUME NEW o \in net', o.type = "LISTPEER", NEW e \in o.body  PROVE <<o.src, e[1]>> \in listed'
    <3>1. o \in net  BY <2>1, ListClustersSends
    <3>2. \A x \in o.body : <<o.src, x[1]>> \in listed  BY <2>1, <3>1 DEF ClustersTrue, PagesTrue
    <3> QED BY <3>2, <1>1 DEF Recorded
  <2>2. ASSUME NEW o \in net', o.type = "LISTCLUSTER2", NEW e \in o.body  PROVE Registered(e[1], e[2])'
    <3>1. Registered(e[1], e[2])
      <4>1. CASE o \in net  BY <2>2, <4>1 DEF ClustersTrue, PagesTrue
      <4>2. CASE o \notin net
        <5>1. PICK p \in DOMAIN peers[s] : e = <<p, peers[s][p].address>>  BY <4>2, ListClustersSends
        <5>2. Registered(p, peers[s][p].address)  BY DEF ClustersTrue, ListsTrue
        <5> QED BY <5>1, <5>2
      <4> QED BY <4>1, <4>2
    <3> QED BY <3>1, <1>1, RecordedRegistered
  <2> QED BY <2>1, <2>2 DEF PagesTrue
<1>3. ListsTrue'  BY <1>1, ListsKept DEF ClustersTrue, did_recv_DISCCLUSTER2
<1>4. MapsTrue'  BY <1>1, MapsKept DEF ClustersTrue, did_recv_DISCCLUSTER2, maps
<1>5. AnnouncedUnderItsCluster'  BY <1>1, AnnouncedKept DEF ClustersTrue, did_recv_DISCCLUSTER2, maps
<1> QED BY <1>2, <1>3, <1>4, <1>5 DEF ClustersTrue

(* A client's servers are those of a page.                                 *)
LEMMA ClustersClusters ==
  ASSUME Base, ClustersTrue, NEW d \in Discoverers, NEW m, did_recv_LISTCLUSTER2(d, m)
  PROVE  ClustersTrue'
<1>1. Recorded /\ registered' = registered /\ listed' = listed  BY DEF did_recv_LISTCLUSTER2, history, Recorded
<1> DEFINE seen == {e[1] : e \in m.body}
<1>2. /\ m \in net /\ m.type = "LISTCLUSTER2"
      /\ \A x \in Discoverers : x # d => cluster_map'[x] = cluster_map[x]
      /\ DOMAIN cluster_map'[d] = DOMAIN cluster_map[d] \cup seen
      /\ \A c \in seen : \E e \in m.body : e[1] = c /\ cluster_map'[d][c].address = e[2]
      /\ \A c \in DOMAIN cluster_map[d] : c \notin seen => cluster_map'[d][c] = cluster_map[d][c]
  BY ClustersHeard
<1>3. \A e \in m.body : Registered(e[1], e[2])  BY <1>2 DEF ClustersTrue, PagesTrue
<1>4. beacon_map' = beacon_map  BY DEF did_recv_LISTCLUSTER2
<1> HIDE DEF seen
<1>5. ASSUME NEW x \in Discoverers, NEW c \in DOMAIN cluster_map'[x]
      PROVE  Registered(c, cluster_map'[x][c].address)
  <2>1. CASE x = d /\ c \in seen
    <3>1. PICK e \in m.body : e[1] = c /\ cluster_map'[d][c].address = e[2]  BY <1>2, <2>1
    <3> QED BY <1>3, <2>1, <3>1
  <2>2. CASE ~(x = d /\ c \in seen)
    <3>1. c \in DOMAIN cluster_map[x] /\ cluster_map'[x][c] = cluster_map[x][c]  BY <1>2, <2>2
    <3> QED BY <3>1 DEF ClustersTrue, MapsTrue
  <2> QED BY <2>1, <2>2
<1>6. MapsTrue'  BY <1>1, <1>4, <1>5 DEF ClustersTrue, MapsTrue, Registered
<1>7. \A o \in net' : o \in net \/ o.type \notin {"LISTPEER", "LISTCLUSTER2"}  BY ClustersSends
<1>8. PagesTrue'  BY <1>1, <1>7, PagesKept DEF ClustersTrue
<1>9. ListsTrue'  BY <1>1, ListsKept DEF ClustersTrue, did_recv_LISTCLUSTER2
<1>10. AnnouncedUnderItsCluster'  BY <1>1, AnnouncedKept DEF ClustersTrue, did_recv_LISTCLUSTER2
<1> QED BY <1>6, <1>8, <1>9, <1>10 DEF ClustersTrue

(* A client's relays are those of a page of the cluster.                   *)
LEMMA ClustersPeers ==
  ASSUME Base, ClustersTrue, NEW n \in Seekers, NEW m, did_recv_LISTPEER(n, m)
  PROVE  ClustersTrue'
<1>1. Recorded /\ listed' = listed /\ registered' = registered  BY DEF did_recv_LISTPEER, history, Recorded
<1>2. m \in net /\ m.type = "LISTPEER"
  <2>1. Receive("LISTPEER", n, m)  BY DEF did_recv_LISTPEER
  <2> QED BY <2>1 DEF Receive
<1>3. \A e \in m.body : <<m.src, e[1]>> \in listed  BY <1>2 DEF ClustersTrue, PagesTrue
<1>4. cluster_map' = cluster_map  BY DEF did_recv_LISTPEER
<1>5. MapsTrue'
  <2>1. CASE n \in Clients
    <3>1. beacon_map' = beacon_map  BY <2>1 DEF did_recv_LISTPEER
    <3> QED BY <1>1, <1>4, <3>1, MapsKept DEF ClustersTrue
  <2>2. CASE n \in Discoverers
    <3> DEFINE seen == {e[1] : e \in m.body}
    <3>1. /\ \A x \in Discoverers : x # n => beacon_map'[x] = beacon_map[x]
          /\ DOMAIN beacon_map'[n] = DOMAIN beacon_map[n] \cup seen
          /\ \A p \in seen : beacon_map'[n][p].via = m.src
          /\ \A p \in DOMAIN beacon_map[n] : p \notin seen => beacon_map'[n][p] = beacon_map[n][p]
      BY <2>2, BeaconsHeard
    <3>2. \A p \in seen : <<m.src, p>> \in listed  BY <1>3
    <3> HIDE DEF seen
    <3>3. ASSUME NEW x \in Discoverers, NEW p \in DOMAIN beacon_map'[x], beacon_map'[x][p].via # NoAddr
          PROVE  <<beacon_map'[x][p].via, p>> \in listed
      <4>1. CASE x = n /\ p \in seen  BY <3>1, <3>2, <4>1
      <4>2. CASE ~(x = n /\ p \in seen)
        <5>1. p \in DOMAIN beacon_map[x] /\ beacon_map'[x][p] = beacon_map[x][p]  BY <3>1, <4>2
        <5> QED BY <3>3, <5>1 DEF ClustersTrue, MapsTrue
      <4> QED BY <4>1, <4>2
    <3>4. ASSUME NEW x \in Discoverers, NEW c \in DOMAIN cluster_map'[x]
          PROVE  Registered(c, cluster_map[x][c].address)
      BY <1>4 DEF ClustersTrue, MapsTrue
    <3> QED BY <1>1, <1>4, <3>3, <3>4 DEF MapsTrue, Registered
  <2> QED BY <2>1, <2>2 DEF Seekers
<1>6. \A o \in net' : o \in net \/ o.type \notin {"LISTPEER", "LISTCLUSTER2"}  BY PeersSends
<1>7. PagesTrue'  BY <1>1, <1>6, PagesKept DEF ClustersTrue
<1>8. ListsTrue'  BY <1>1, ListsKept DEF ClustersTrue, did_recv_LISTPEER
<1>9. AnnouncedUnderItsCluster'  BY <1>1, AnnouncedKept DEF ClustersTrue, did_recv_LISTPEER
<1> QED BY <1>5, <1>7, <1>8, <1>9 DEF ClustersTrue

(* A relay is announced under the cluster it was listed in.                *)
LEMMA ClustersProtocols ==
  ASSUME Base, ClustersTrue, NEW n \in Seekers, NEW m, did_recv_LISTPROTO(n, m)
  PROVE  ClustersTrue'
<1> USE DEF Base
<1>1. Recorded /\ listed' = listed /\ registered' = registered  BY DEF did_recv_LISTPROTO, history, Recorded
<1>2. net' \subseteq net  BY NothingSent
<1>3. PagesTrue'  BY <1>1, <1>2, PagesKept DEF ClustersTrue
<1>4. ListsTrue'  BY <1>1, ListsKept DEF ClustersTrue, did_recv_LISTPROTO
<1>5. MapsTrue' /\ AnnouncedUnderItsCluster'
  <2>1. CASE m.body = {}
    BY <1>1, <2>1, MapsKept, AnnouncedKept DEF ClustersTrue, did_recv_LISTPROTO, maps
  <2>2. CASE m.body # {} /\ n \in Clients
    <3>1. beacon_map' = beacon_map /\ cluster_map' = cluster_map  BY <2>2 DEF did_recv_LISTPROTO
    <3>2. \A x \in Seekers : x # n => announced'[x] = announced[x]  BY <2>2, Announced
    <3>3. \A d \in Discoverers : d \in Seekers /\ d # n
      BY <2>2, RolesAssumption DEF RolesAssumption, Seekers
    <3> QED BY <1>1, <3>1, <3>2, <3>3, MapsKept, AnnouncedKept DEF ClustersTrue
  <2>3. CASE m.body # {} /\ n \in Discoverers
    <3>1. /\ \A d \in Discoverers : \A p \in DOMAIN beacon_map'[d] :
               \/ p \in DOMAIN beacon_map[d] /\ beacon_map'[d][p] = beacon_map[d][p]
               \/ beacon_map'[d][p].via = NoAddr
          /\ \A d \in Discoverers : \A c \in DOMAIN cluster_map'[d] :
               \/ c \in DOMAIN cluster_map[d] /\ cluster_map'[d][c] = cluster_map[d][c]
               \/ cluster_map'[d][c].address = ZeroKey
      BY <2>3, ProtocolsMaps
    <3>2. ASSUME NEW d \in Discoverers, NEW c \in DOMAIN cluster_map'[d]
          PROVE  Registered(c, cluster_map'[d][c].address)
      <4>1. CASE cluster_map'[d][c].address = ZeroKey  BY <4>1 DEF Registered
      <4>2. CASE cluster_map'[d][c].address # ZeroKey
        <5>1. c \in DOMAIN cluster_map[d] /\ cluster_map'[d][c] = cluster_map[d][c]  BY <3>1, <4>2
        <5> QED BY <5>1 DEF ClustersTrue, MapsTrue
      <4> QED BY <4>1, <4>2
    <3>3. ASSUME NEW d \in Discoverers, NEW p \in DOMAIN beacon_map'[d], beacon_map'[d][p].via # NoAddr
          PROVE  <<beacon_map'[d][p].via, p>> \in listed
      <4>1. p \in DOMAIN beacon_map[d] /\ beacon_map'[d][p] = beacon_map[d][p]  BY <3>1, <3>3
      <4> QED BY <3>3, <4>1 DEF ClustersTrue, MapsTrue
    <3>4. MapsTrue'  BY <1>1, <3>2, <3>3 DEF MapsTrue, Registered
    <3>5. /\ \A x \in Seekers : x # n => announced'[x] = announced[x]
          /\ \A a \in announced'[n] :
               \/ a \in announced[n]
               \/ a.peer = m.src /\ a.cluster = ClusterKey(n, m.src) /\ a.cluster \in Keys
      BY <2>3, Announced
    <3> DEFINE via == Via(n, m.src)  key == ClusterKey(n, m.src)
    <3>6. ASSUME key \in Keys
          PROVE  via.via \in Servers /\ <<via.via, m.src>> \in listed /\ <<via.via, key>> \in registered
      <4>1. /\ via.via \in Servers \cup {NoAddr}
            /\ m.src \in DOMAIN beacon_map[n] => via = beacon_map[n][m.src]
            /\ m.src \notin DOMAIN beacon_map[n] => via.via = NoAddr
        BY <2>3, ViaPeer
      <4>2. key = At(cluster_map[n], via.via).address  BY DEF ClusterKey
      <4>3. cluster_map[n] \in MapOf(Nodes \cup {NoAddr}, PeerEntry)  BY <2>3 DEF TypeOK
      <4>4. key # ZeroKey  BY <3>6, DiscoveryAssumption DEF DiscoveryAssumption
      <4> HIDE DEF via, key
      <4>5. via.via \in DOMAIN cluster_map[n] /\ key = cluster_map[n][via.via].address
        BY <4>2, <4>3, <4>4, AtEntry
      <4>6. Registered(via.via, key)  BY <2>3, <4>5 DEF ClustersTrue, MapsTrue
      <4>7. via.via \in Servers /\ <<via.via, key>> \in registered  BY <4>4, <4>6 DEF Registered
      <4>8. via.via # NoAddr  BY <4>7, RolesAssumption DEF RolesAssumption, Nodes
      <4>9. m.src \in DOMAIN beacon_map[n] /\ via = beacon_map[n][m.src]  BY <4>1, <4>8
      <4>10. <<via.via, m.src>> \in listed  BY <2>3, <4>8, <4>9 DEF ClustersTrue, MapsTrue
      <4> QED BY <4>7, <4>10
    <3>7. AnnouncedUnderItsCluster'
      <4>1. ASSUME NEW d \in Discoverers, NEW a \in announced'[d]
            PROVE  \E c \in Servers : <<c, a.peer>> \in listed /\ <<c, a.cluster>> \in registered
        <5>1. CASE a \in announced[d]  BY <5>1 DEF ClustersTrue, AnnouncedUnderItsCluster
        <5>2. CASE a \notin announced[d]
          <6>1. d = n  BY <3>5, <5>2 DEF Seekers
          <6>2. a.peer = m.src /\ a.cluster = key /\ key \in Keys  BY <3>5, <5>2, <6>1
          <6> QED BY <3>6, <6>2
        <5> QED BY <5>1, <5>2
      <4> QED BY <1>1, <4>1 DEF AnnouncedUnderItsCluster
    <3> QED BY <3>4, <3>7
  <2> QED BY <2>1, <2>2, <2>3 DEF Seekers
<1> QED BY <1>3, <1>4, <1>5 DEF ClustersTrue

(* The timer of a node that seeks learns nothing.                          *)
LEMMA ClustersBeaconTimer ==
  ASSUME Base, ClustersTrue, NEW n \in Seekers, beacon_timer_cb(n)
  PROVE  ClustersTrue'
<1> USE DEF Base
<1>1. Recorded  BY DEF beacon_timer_cb, history, Recorded
<1>2. \A o \in net' : o \in net \/ o.type \notin {"LISTPEER", "LISTCLUSTER2"}  BY BeaconTimerSends
<1>3. ASSUME NEW d \in Discoverers, NEW c \in DOMAIN cluster_map'[d]
      PROVE  c \in DOMAIN cluster_map[d] /\ cluster_map'[d][c] = cluster_map[d][c]
  <2>1. cluster_map[d] \in MapOf(Nodes \cup {NoAddr}, PeerEntry)  BY DEF TypeOK
  <2>2. cluster_map'[d] = cluster_map[d] \/ cluster_map'[d] = Pruned(cluster_map[d])
    BY DEF beacon_timer_cb, TypeOK
  <2> QED BY <2>1, <2>2, PrunedMap
<1>4. ASSUME NEW d \in Discoverers, NEW c \in DOMAIN beacon_map'[d]
      PROVE  c \in DOMAIN beacon_map[d] /\ beacon_map'[d][c] = beacon_map[d][c]
  <2>1. beacon_map[d] \in MapOf(Nodes, BeaconEntry)  BY DEF TypeOK
  <2>2. beacon_map'[d] = beacon_map[d] \/ beacon_map'[d] = Pruned(beacon_map[d])
    BY DEF beacon_timer_cb, TypeOK
  <2> QED BY <2>1, <2>2, PrunedMap
<1>5. MapsTrue'  BY <1>1, <1>3, <1>4, MapsKept DEF ClustersTrue
<1>6. PagesTrue'  BY <1>1, <1>2, PagesKept DEF ClustersTrue
<1>7. ListsTrue'  BY <1>1, ListsKept DEF ClustersTrue, beacon_timer_cb
<1>8. AnnouncedUnderItsCluster'  BY <1>1, AnnouncedKept DEF ClustersTrue, beacon_timer_cb
<1> QED BY <1>5, <1>6, <1>7, <1>8 DEF ClustersTrue

(* Nor does a node that stops.                                             *)
LEMMA ClustersStop ==
  ASSUME Base, ClustersTrue, NEW n \in Nodes, Stop(n)
  PROVE  ClustersTrue'
<1> USE DEF Base
<1>1. Recorded  BY DEF Stop, Recorded
<1>2. \A S, V : DOMAIN NoEntry = {}  BY NoEntryMap
<1>3. net' \subseteq net  BY NothingSent
<1>4. \A s \in Servers : peers'[s] = peers[s] \/ DOMAIN peers'[s] = {}  BY <1>2 DEF Stop, TypeOK
<1>5. \A d \in Discoverers : cluster_map'[d] = cluster_map[d] \/ DOMAIN cluster_map'[d] = {}
  BY <1>2 DEF Stop, TypeOK
<1>6. \A d \in Discoverers : beacon_map'[d] = beacon_map[d] \/ DOMAIN beacon_map'[d] = {}
  BY <1>2 DEF Stop, TypeOK
<1>7. ListsTrue'  BY <1>1, <1>4, ListsKept DEF ClustersTrue
<1>8. MapsTrue'  BY <1>1, <1>5, <1>6, MapsKept DEF ClustersTrue
<1>9. PagesTrue'  BY <1>1, <1>3, PagesKept DEF ClustersTrue
<1>10. AnnouncedUnderItsCluster'  BY <1>1, AnnouncedKept DEF ClustersTrue, Stop
<1> QED BY <1>7, <1>8, <1>9, <1>10 DEF ClustersTrue

(* Every step keeps the clusters true.                                     *)
LEMMA ClustersInductive == Base /\ ClustersTrue /\ [Next]_vars => ClustersTrue'
<1> SUFFICES ASSUME Base, ClustersTrue, [Next]_vars PROVE ClustersTrue'  OBVIOUS
<1>1. ASSUME NEW s \in Servers, ServerStep(s) PROVE ClustersTrue'
  BY <1>1, ClustersServerTimer, ClustersHeartbeat, ClustersRegister, ClustersListPeers,
     ClustersListClusters DEF ServerStep
<1>2. ASSUME NEW n \in Seekers, SeekerStep(n) PROVE ClustersTrue'
  BY <1>2, ClustersBeaconTimer, ClustersPeers, ClustersProtocols DEF SeekerStep
<1>3. ASSUME NEW n \in Clients, heartbeat_timer_cb(n) PROVE ClustersTrue'
  <2>1. \A o \in net' : o \in net \/ o.type \notin {"LISTPEER", "LISTCLUSTER2"}  BY <1>3, ClientTimerSends
  <2> QED BY <1>3, <2>1, ClustersKept DEF heartbeat_timer_cb, maps, history
<1>4. ASSUME NEW d \in Discoverers, NEW m \in net, did_recv_LISTCLUSTER2(d, m) PROVE ClustersTrue'
  BY <1>4, ClustersClusters
<1>5. ASSUME NEW n \in Servers \cup Clients, NEW m \in net, did_recv_DISCPROTO(n, m) PROVE ClustersTrue'
  <2>1. \A o \in net' : o \in net \/ o.type \notin {"LISTPEER", "LISTCLUSTER2"}  BY <1>5, AnswerSends
  <2> QED BY <1>5, <2>1, ClustersKept DEF did_recv_DISCPROTO, maps, history
<1>6. ASSUME NEW n \in Nodes, Stop(n) PROVE ClustersTrue'
  BY <1>6, ClustersStop
<1>7. ASSUME NEW n, Start(n) \/ close(n) PROVE ClustersTrue'
  <2>1. net' \subseteq net  BY <1>7, NothingSent
  <2> QED BY <1>7, <2>1, ClustersKept DEF Start, close, maps, history
<1>8. ASSUME Learn \/ Lose \/ Tick \/ UNCHANGED vars PROVE ClustersTrue'
  <2>1. net' \subseteq net  BY <1>8, NothingSent
  <2> QED BY <1>8, <2>1, ClustersKept DEF Learn, Lose, Tick, vars, maps, history
<1> QED BY <1>1, <1>2, <1>3, <1>4, <1>5, <1>6, <1>7, <1>8 DEF Next

(* Nothing is listed at the start.                                         *)
LEMMA ClustersInit == Init => ClustersTrue
<1> SUFFICES ASSUME Init PROVE ClustersTrue  OBVIOUS
<1>1. \A S, V : DOMAIN NoEntry = {}  BY NoEntryMap
<1>2. \A d \in Discoverers : announced[d] = {}  BY DEF Init, Seekers
<1> QED BY <1>1, <1>2 DEF Init, ClustersTrue, ListsTrue, PagesTrue, MapsTrue, AnnouncedUnderItsCluster

(* A relay is announced under the client key of a beacon that listed it.   *)
THEOREM RelaysKeepTheirClusters == Spec => []AnnouncedUnderItsCluster
<1>1. ClustersTrue => AnnouncedUnderItsCluster  BY DEF ClustersTrue
<1> QED BY <1>1, BaseInit, BaseInductive, ClustersInit, ClustersInductive, PTL DEF Spec

-----------------------------------------------------------------------------
(* Clocks that wrap                                                        *)

(* What % leaves.                                                          *)
LEMMA Division ==
  ASSUME NEW a \in Int, NEW w \in Nat \ {0}
  PROVE  a % w \in 0 .. w - 1 /\ a \div w \in Int /\ a % w = a - w * (a \div w)
<1>1. a % w \in 0 .. w - 1  OBVIOUS
<1>2. a \div w \in Int  OBVIOUS
<1>3. a % w = a - w * (a \div w)  OBVIOUS
<1> QED BY <1>1, <1>2, <1>3

(* A multiple of w by 2 or more, or by less than 0.                        *)
LEMMA Multiple ==
  ASSUME NEW k \in Int, NEW w \in Nat \ {0}
  PROVE  w * k \in Int /\ (k >= 2 => w * k >= 2 * w) /\ (k <= -1 => w * k <= -w)
<1>1. w * k \in Int  OBVIOUS
<1>2. ASSUME k >= 2 PROVE w * k >= 2 * w
  <2>1. k - 2 \in Nat /\ w \in Nat  BY <1>2
  <2>2. w * (k - 2) >= 0  BY <2>1
  <2>3. w * (k - 2) = w * k - 2 * w  BY <2>1
  <2> QED BY <1>1, <2>2, <2>3
<1>3. ASSUME k <= -1 PROVE w * k <= -w
  <2>1. -1 - k \in Nat /\ w \in Nat  BY <1>3
  <2>2. w * (-1 - k) >= 0  BY <2>1
  <2>3. w * (-1 - k) = -w - w * k  BY <2>1
  <2> QED BY <1>1, <2>2, <2>3
<1> QED BY <1>1, <1>2, <1>3

(* Two clocks that wrap, the real times a and b being less than a turn     *)
(* apart: what they show differs by as much, or by a turn less.            *)
LEMMA Clocks ==
  ASSUME NEW a \in Int, NEW b \in Int, NEW w \in Nat \ {0}, NEW v \in Nat,
         a - b > v, a - b + v < w
  PROVE  LET x == (a + w) % w  y == (b + w) % w
         IN /\ x \in 0 .. w - 1 /\ y \in 0 .. w - 1
            /\ (x >= y /\ x - y = a - b) \/ (x < y /\ x - y + w = a - b)
<1> DEFINE c == a + w  d == b + w
           x == c % w  y == d % w  qx == c \div w  qy == d \div w
<1>1. c \in Int /\ d \in Int /\ c = a + w /\ d = b + w  OBVIOUS
<1> HIDE DEF c, d
<1>2. x \in 0 .. w - 1 /\ qx \in Int /\ x = c - w * qx  BY <1>1, Division
<1>3. y \in 0 .. w - 1 /\ qy \in Int /\ y = d - w * qy  BY <1>1, Division
<1> HIDE DEF qx, qy, x, y
<1> DEFINE k == qx - qy
<1>4. k \in Int  BY <1>2, <1>3
<1>5. w * k = w * qx - w * qy  BY <1>2, <1>3
<1>6. w * qx \in Int /\ w * qy \in Int  BY <1>2, <1>3
<1>7. x - y = a - b - w * k
  <2> HIDE DEF k
  <2> QED BY <1>1, <1>2, <1>3, <1>5, <1>6
<1>8. w * k \in Int /\ (k >= 2 => w * k >= 2 * w) /\ (k <= -1 => w * k <= -w)  BY <1>4, Multiple
<1> HIDE DEF k
<1>9. x - y < w /\ y - x < w  BY <1>2, <1>3
<1>10. k = 0 \/ k = 1
  <2> DEFINE p == w * k
  <2>1. x \in Int /\ y \in Int /\ p \in Int /\ x - y = a - b - p  BY <1>2, <1>3, <1>7, <1>8
  <2>2. (k >= 2 => p >= 2 * w) /\ (k <= -1 => p <= -w)  BY <1>8
  <2> HIDE DEF p
  <2>3. ~(k >= 2)
    <3> SUFFICES ASSUME p >= 2 * w PROVE FALSE  BY <2>2
    <3> QED BY <1>9, <2>1
  <2>4. ~(k <= -1)
    <3> SUFFICES ASSUME p <= -w PROVE FALSE  BY <2>2
    <3> QED BY <1>9, <2>1
  <2> QED BY <1>4, <2>3, <2>4
<1>11. w * 0 = 0 /\ w * 1 = w  OBVIOUS
<1>12. x - y = a - b \/ x - y = a - b - w  BY <1>7, <1>10, <1>11
<1> QED BY <1>2, <1>3, <1>9, <1>12 DEF c, d, x, y

(* A REG whose time is accepted is no older than the window, as the two    *)
(* clocks have it: a datagram so old that the clock has wrapped since, and *)
(* looks new, is what ClockAssumption rules out.                           *)
LEMMA WithinWindow ==
  ASSUME NEW s \in Servers, NEW p \in Servers, now \in Nat, NEW at \in Nat, now <= at + MaxDelay,
         ~TimeError(WallClock(s), (at + Skew[p] + Word) % Word)
  PROVE  now - at + Skew[s] - Skew[p] <= Window
<1> DEFINE a == now + Skew[s]  b == at + Skew[p]
           x == (a + Word) % Word  y == (b + Word) % Word
<1>1. Skew[s] \in Int /\ Skew[p] \in Int /\ MaxDelay \in Nat  BY Constants
<1>2. Word \in Nat \ {0} /\ Window \in Nat  BY WindowAssumption DEF WindowAssumption
<1>3. a \in Int /\ b \in Int  BY <1>1
<1>4. MaxDelay + Window + Skew[s] - Skew[p] < Word  BY ClockAssumption DEF ClockAssumption
<1>5. a - b + Window < Word  BY <1>1, <1>2, <1>4
<1>6. SUFFICES ASSUME a - b > Window PROVE FALSE  BY <1>1, <1>2, <1>3
<1>7. x = WallClock(s) /\ y = (at + Skew[p] + Word) % Word  BY <1>1 DEF WallClock
<1> HIDE DEF a, b
<1>8. /\ x \in 0 .. Word - 1 /\ y \in 0 .. Word - 1
      /\ (x >= y /\ x - y = a - b) \/ (x < y /\ x - y + Word = a - b)
  BY <1>2, <1>3, <1>5, <1>6, Clocks
<1> HIDE DEF x, y
<1>9. Minus(x, y) > Window /\ Minus(y, x) > Window
  BY <1>2, <1>3, <1>5, <1>6, <1>8 DEF Minus
<1> QED BY <1>7, <1>9 DEF TimeError

-----------------------------------------------------------------------------
(* StoppedIsForgotten                                                      *)

(* A node is heard of, at the latest, Allowance after it was last alive;   *)
(* the timer of a server fires every period, and leaves no entry older     *)
(* than PeerTimeout.                                                       *)
LastAlive(n) == IF n \in up THEN now ELSE failed[n]
Allowance(s, n) == IF Signs(n) THEN Least(MaxDelay, Window + Skew[n] - Skew[s]) ELSE MaxDelay
SentAlive ==
  /\ \A n \in Nodes \ up : failed[n] \in 0 .. now
  /\ \A m \in net : m.at <= LastAlive(m.src)
NextCheck(s) == due[<<s, "heartbeat">>]
ListFresh(s) ==
  /\ s \notin up => DOMAIN peers[s] = {}
  /\ s \in up => NextCheck(s) \in now .. now + HeartbeatPeriod
  /\ \A p \in DOMAIN peers[s] :
       /\ NextCheck(s) <= peers[s][p].last_seen + PeerTimeout + HeartbeatPeriod
       /\ peers[s][p].last_seen <= LastAlive(p) + Allowance(s, p)
ListsFresh == \A s \in Servers : ListFresh(s)

(* The time an entry may still be listed is a number.                      *)
LEMMA AllowanceInt ==
  ASSUME NEW s \in Servers, NEW n \in Nodes
  PROVE  Allowance(s, n) \in Int /\ Allowance(s, n) <= MaxDelay
<1>1. MaxDelay \in Int /\ Window \in Int /\ \A x \in Servers : Skew[x] \in Int
  BY Constants, WindowAssumption DEF WindowAssumption
<1>2. CASE Signs(n)
  <2>1. n \in Servers  BY <1>2 DEF Signs
  <2> DEFINE d == Window + Skew[n] - Skew[s]
  <2>2. d \in Int  BY <1>1, <2>1
  <2>3. Allowance(s, n) = Least(MaxDelay, d)  BY <1>2 DEF Allowance
  <2> HIDE DEF d
  <2> QED BY <1>1, <2>2, <2>3 DEF Least
<1>3. CASE ~Signs(n)  BY <1>1, <1>3 DEF Allowance
<1> QED BY <1>2, <1>3

(* Whoever was alive at some time still was: nobody gets younger.          *)
LEMMA AliveGrows ==
  ASSUME Base, SentAlive, [Next]_vars
  PROVE  /\ now' \in Nat /\ now <= now'
         /\ \A n \in Nodes : LastAlive(n) \in 0 .. now /\ LastAlive(n)' \in 0 .. now' /\ LastAlive(n) <= LastAlive(n)'
<1>1. now \in Nat /\ \A n \in Nodes : LastAlive(n) \in 0 .. now
  BY Constants DEF Base, TypeOK, SentAlive, LastAlive
<1>2. failed \in [Nodes -> Nat \cup {Off}]  BY DEF Base, TypeOK
<1>3. CASE Tick
  <2>1. now' = now + 1 /\ up' = up /\ failed' = failed  BY <1>3 DEF Tick, history
  <2> QED BY <1>1, <2>1 DEF LastAlive
<1>4. ASSUME NEW n \in Nodes, Stop(n)
      PROVE  now' = now /\ \A x \in Nodes : LastAlive(x)' = LastAlive(x)
  BY <1>2, <1>4 DEF Stop, LastAlive
<1>5. ASSUME NEW n \in Nodes, Start(n)
      PROVE  now' = now /\ \A x \in Nodes : LastAlive(x)' = LastAlive(x) \/ LastAlive(x)' = now
  BY <1>5 DEF Start, LastAlive, history
<1>6. ASSUME NEW n \in Nodes, close(n)
      PROVE  now' = now /\ \A x \in Nodes : LastAlive(x)' = LastAlive(x)
  BY <1>2, <1>6 DEF close, LastAlive
<1>7. ASSUME now' = now, up' = up, failed' = failed
      PROVE  \A x \in Nodes : LastAlive(x)' = LastAlive(x)
  BY <1>7 DEF LastAlive
<1>8. \/ Tick \/ (\E n \in Nodes : Stop(n) \/ Start(n) \/ close(n))
      \/ (now' = now /\ up' = up /\ failed' = failed)
  BY ZenonT(60), Constants DEF Next, ServerStep, SeekerStep, vars, history, maps, server_timer_cb, did_recv_HEARTBEAT,
     did_recv_REG, did_recv_DISCPEER, did_recv_DISCCLUSTER2, beacon_timer_cb, did_recv_LISTPEER,
     did_recv_LISTPROTO, heartbeat_timer_cb, did_recv_LISTCLUSTER2, did_recv_DISCPROTO, Learn, Lose
<1> QED BY <1>1, <1>3, <1>4, <1>5, <1>6, <1>7, <1>8

(* A datagram is stamped with the time it is sent at, by a running node.   *)
LEMMA SentNow ==
  ASSUME Base, [Next]_vars, NEW o \in net'
  PROVE  o \in net \/ (o.at = now /\ o.src \in up /\ now' = now /\ up' = up)
<1>1. ASSUME NEW s \in Servers, server_timer_cb(s)
      PROVE  o \in net \/ (o.at = now /\ o.src \in up /\ now' = now /\ up' = up)
  <2>1. now' = now /\ up' = up  BY <1>1 DEF server_timer_cb
  <2> QED BY <1>1, <2>1, ServerTimerSends
<1>2. ASSUME NEW s \in Servers, NEW m, did_recv_DISCPEER(s, m)
      PROVE  o \in net \/ (o.at = now /\ o.src \in up /\ now' = now /\ up' = up)
  <2>1. now' = now /\ up' = up  BY <1>2 DEF did_recv_DISCPEER
  <2> QED BY <1>2, <2>1, ListPeersSends
<1>3. ASSUME NEW s \in Servers, NEW m, did_recv_DISCCLUSTER2(s, m)
      PROVE  o \in net \/ (o.at = now /\ o.src \in up /\ now' = now /\ up' = up)
  <2>1. now' = now /\ up' = up  BY <1>3 DEF did_recv_DISCCLUSTER2
  <2> QED BY <1>3, <2>1, ListClustersSends
<1>4. ASSUME NEW n \in Servers \cup Clients, NEW m, did_recv_DISCPROTO(n, m)
      PROVE  o \in net \/ (o.at = now /\ o.src \in up /\ now' = now /\ up' = up)
  <2>1. now' = now /\ up' = up  BY <1>4 DEF did_recv_DISCPROTO
  <2> QED BY <1>4, <2>1, AnswerSends
<1>5. ASSUME NEW n \in Clients, heartbeat_timer_cb(n)
      PROVE  o \in net \/ (o.at = now /\ o.src \in up /\ now' = now /\ up' = up)
  <2>1. now' = now /\ up' = up  BY <1>5 DEF heartbeat_timer_cb
  <2> QED BY <1>5, <2>1, ClientTimerSends
<1>6. ASSUME NEW n \in Seekers, beacon_timer_cb(n)
      PROVE  o \in net \/ (o.at = now /\ o.src \in up /\ now' = now /\ up' = up)
  <2>1. now' = now /\ up' = up  BY <1>6 DEF beacon_timer_cb
  <2> QED BY <1>6, <2>1, BeaconTimerSends
<1>7. ASSUME NEW d \in Discoverers, NEW m, did_recv_LISTCLUSTER2(d, m)
      PROVE  o \in net \/ (o.at = now /\ o.src \in up /\ now' = now /\ up' = up)
  <2>1. now' = now /\ up' = up  BY <1>7 DEF did_recv_LISTCLUSTER2
  <2> QED BY <1>7, <2>1, ClustersSends
<1>8. ASSUME NEW n \in Seekers, NEW m, did_recv_LISTPEER(n, m)
      PROVE  o \in net \/ (o.at = now /\ o.src \in up /\ now' = now /\ up' = up)
  <2>1. now' = now /\ up' = up  BY <1>8 DEF did_recv_LISTPEER
  <2> QED BY <1>8, <2>1, PeersSends
<1>9. ASSUME NEW n, NEW m,
             \/ did_recv_HEARTBEAT(n, m) \/ did_recv_REG(n, m) \/ did_recv_LISTPROTO(n, m)
             \/ Stop(n) \/ Start(n) \/ close(n) \/ Learn \/ Lose \/ Tick \/ UNCHANGED vars
      PROVE  o \in net
  BY <1>9, NothingSent
<1> QED BY <1>1, <1>2, <1>3, <1>4, <1>5, <1>6, <1>7, <1>8, <1>9 DEF Next, ServerStep, SeekerStep

(* Whoever sent a datagram was up when it was sent.                        *)
LEMMA SentInductive == Base /\ SentAlive /\ [Next]_vars => SentAlive'
<1> SUFFICES ASSUME Base, SentAlive, [Next]_vars PROVE SentAlive'  OBVIOUS
<1>1. /\ now \in Nat /\ now' \in Nat /\ now <= now'
      /\ \A n \in Nodes : LastAlive(n) \in 0 .. now /\ LastAlive(n)' \in 0 .. now' /\ LastAlive(n) <= LastAlive(n)'
  <2>1. now \in Nat  BY Constants DEF Base, TypeOK
  <2> QED BY <2>1, AliveGrows
<1>2. ASSUME NEW n \in Nodes, n \notin up'  PROVE failed'[n] \in 0 .. now'
  BY <1>1, <1>2 DEF LastAlive
<1>3. ASSUME NEW o \in net'  PROVE o.at <= LastAlive(o.src)'
  <2>1. o.src \in Nodes /\ o.at \in Nat
    <3>1. MessagesOK'  BY BaseInductive DEF Base
    <3> QED BY <3>1 DEF MessagesOK, MessageOK
  <2>2. CASE o \in net
    <3>1. o.at <= LastAlive(o.src)  BY <2>2 DEF SentAlive
    <3>2. LastAlive(o.src) \in 0 .. now /\ LastAlive(o.src)' \in 0 .. now' /\ LastAlive(o.src) <= LastAlive(o.src)'
      BY <1>1, <2>1
    <3> QED BY <1>1, <2>1, <3>1, <3>2
  <2>3. CASE o \notin net
    <3>1. o.at = now /\ o.src \in up' /\ now' = now  BY <2>3, SentNow
    <3> QED BY <1>1, <3>1 DEF LastAlive
  <2> QED BY <2>2, <2>3
<1> QED BY <1>2, <1>3 DEF SentAlive

(* The timer of a server.                                                  *)
LEMMA TimingOf ==
  ASSUME NEW s \in Servers, NEW n, NEW t
  PROVE  Timing(n, t)[<<s, "heartbeat">>] = IF n = s THEN t ELSE due[<<s, "heartbeat">>]
<1>1. <<s, "heartbeat">> \in Timers  BY Constants DEF Timers
<1>2. "heartbeat" \in StartOf(s)  BY DEF StartOf
<1> QED BY <1>1, <1>2 DEF Timing

(* A list that only lost entries is as fresh as it was.                    *)
LEMMA FreshKept ==
  ASSUME Base, SentAlive, [Next]_vars, NEW s \in Servers, ListFresh(s), now' = now,
         s \in up <=> s \in up', NextCheck(s)' = NextCheck(s),
         \A p \in DOMAIN peers'[s] : p \in DOMAIN peers[s] /\ peers'[s][p] = peers[s][p]
  PROVE  ListFresh(s)'
<1>1. \A n \in Nodes : LastAlive(n) \in Nat /\ LastAlive(n)' \in Nat /\ LastAlive(n) <= LastAlive(n)'
  <2>1. now \in Nat  BY Constants DEF Base, TypeOK
  <2>2. /\ now' \in Nat
        /\ \A n \in Nodes : LastAlive(n) \in 0 .. now /\ LastAlive(n)' \in 0 .. now' /\ LastAlive(n) <= LastAlive(n)'
    BY AliveGrows
  <2> QED BY <2>1, <2>2
<1>2. ASSUME NEW p \in DOMAIN peers'[s]
      PROVE  /\ NextCheck(s) <= peers'[s][p].last_seen + PeerTimeout + HeartbeatPeriod
             /\ peers'[s][p].last_seen <= LastAlive(p)' + Allowance(s, p)
  <2>1. p \in DOMAIN peers[s] /\ peers'[s][p] = peers[s][p]  OBVIOUS
  <2>2. p \in Nodes /\ peers[s][p].last_seen \in Nat  BY <2>1, PeersParts DEF Base
  <2>3. /\ NextCheck(s) <= peers[s][p].last_seen + PeerTimeout + HeartbeatPeriod
        /\ peers[s][p].last_seen <= LastAlive(p) + Allowance(s, p)
    BY <2>1 DEF ListFresh
  <2>4. Allowance(s, p) \in Int  BY <2>2, AllowanceInt
  <2> DEFINE l == peers[s][p].last_seen  a == LastAlive(p)  b == LastAlive(p)'
  <2>5. a \in Nat /\ b \in Nat /\ a <= b  BY <1>1, <2>2
  <2>6. l \in Nat /\ l <= a + Allowance(s, p)  BY <2>2, <2>3
  <2> HIDE DEF l, a, b
  <2>7. l <= b + Allowance(s, p)  BY <2>4, <2>5, <2>6
  <2> QED BY <2>1, <2>3, <2>7 DEF l, b
<1>3. \A p : Allowance(s, p)' = Allowance(s, p)  BY DEF Allowance, Signs, Least
<1> QED BY <1>2, <1>3 DEF ListFresh

(* So is one with an entry refreshed while its owner is known to be alive. *)
LEMMA FreshPut ==
  ASSUME Base, SentAlive, [Next]_vars, NEW s \in Servers, ListFresh(s), s \in up, now' = now, up' = up, due' = due,
         NEW p \in Nodes, NEW e \in PeerEntry, e.last_seen = now, now <= LastAlive(p) + Allowance(s, p),
         peers' = [peers EXCEPT ![s] = Put(@, p, e)], failed' = failed
  PROVE  ListFresh(s)'
<1>1. now \in Nat /\ HeartbeatPeriod \in Nat /\ PeerTimeout \in Nat  BY Constants DEF Base, TypeOK
<1>2. \A x : LastAlive(x)' = LastAlive(x) /\ Allowance(s, x)' = Allowance(s, x) /\ NextCheck(s)' = NextCheck(s)
  BY DEF LastAlive, Allowance, Signs, Least, NextCheck
<1>3. NextCheck(s) \in now .. now + HeartbeatPeriod  BY DEF ListFresh
<1>4. /\ peers' \in [Servers -> MapOf(Nodes, PeerEntry)]
      /\ \A q \in Servers : q # s => peers'[q] = peers[q]
      /\ DOMAIN peers'[s] = DOMAIN peers[s] \cup {p} /\ peers'[s][p] = e
      /\ \A x \in DOMAIN peers[s] : x # p => peers'[s][x] = peers[s][x]
  BY ZenonT(150), PeersPut DEF Base
<1>5. ASSUME NEW x \in DOMAIN peers'[s]
      PROVE  /\ NextCheck(s) <= peers'[s][x].last_seen + PeerTimeout + HeartbeatPeriod
             /\ peers'[s][x].last_seen <= LastAlive(x) + Allowance(s, x)
  <2>1. CASE x = p
    <3>1. peers'[s][x].last_seen = now  BY <1>4, <2>1
    <3>2. NextCheck(s) <= now + PeerTimeout + HeartbeatPeriod  BY <1>1, <1>3
    <3> QED BY <2>1, <3>1, <3>2
  <2>2. CASE x # p  BY <1>4, <2>2 DEF ListFresh
  <2> QED BY <2>1, <2>2
<1> QED BY <1>2, <1>3, <1>5 DEF ListFresh

(* The timer removes what was not heard of for too long.                   *)
LEMMA FreshTimer ==
  ASSUME Base, SentAlive, [Next]_vars, NEW s \in Servers, ListFresh(s), server_timer_cb(s)
  PROVE  ListFresh(s)'
<1>1. now \in Nat /\ HeartbeatPeriod \in Nat /\ PeerTimeout \in Nat  BY Constants DEF Base, TypeOK
<1>2. now' = now /\ up' = up /\ failed' = failed /\ s \in up  BY DEF server_timer_cb, history
<1>3. \A x : LastAlive(x)' = LastAlive(x) /\ Allowance(s, x)' = Allowance(s, x)
  BY <1>2 DEF LastAlive, Allowance, Signs, Least
<1>4. NextCheck(s)' = now + HeartbeatPeriod
  <2>1. <<s, "heartbeat">> \in Timers  BY Constants DEF Timers
  <2> QED BY <2>1 DEF NextCheck, server_timer_cb, Base, TypeOK
<1>5. /\ DOMAIN peers'[s] = DOMAIN peers[s] \ Stale_Peers(s)
      /\ \A x \in DOMAIN peers[s] \ Stale_Peers(s) : peers'[s][x] = peers[s][x]
  <2>1. peers' = [peers EXCEPT ![s] = Only(@, DOMAIN peers[s] \ Stale_Peers(s))]
    BY DEF server_timer_cb, Base, TypeOK
  <2>2. DOMAIN peers[s] \ Stale_Peers(s) \in SUBSET DOMAIN peers[s]  OBVIOUS
  <2> QED BY <2>1, <2>2, PeersOnly DEF Base
<1>6. ASSUME NEW x \in DOMAIN peers'[s]
      PROVE  /\ now + HeartbeatPeriod <= peers'[s][x].last_seen + PeerTimeout + HeartbeatPeriod
             /\ peers'[s][x].last_seen <= LastAlive(x) + Allowance(s, x)
  <2>1. x \in DOMAIN peers[s] /\ x \notin Stale_Peers(s) /\ peers'[s][x] = peers[s][x]  BY <1>5
  <2>2. peers[s][x].last_seen \in Nat  BY <2>1, PeersParts DEF Base
  <2>3. ~(now - peers[s][x].last_seen > PeerTimeout)  BY <2>1 DEF Stale_Peers
  <2>4. peers[s][x].last_seen <= LastAlive(x) + Allowance(s, x)  BY <2>1 DEF ListFresh
  <2> DEFINE l == peers[s][x].last_seen
  <2>5. l \in Nat /\ ~(now - l > PeerTimeout)  BY <2>2, <2>3
  <2> HIDE DEF l
  <2>6. now + HeartbeatPeriod <= l + PeerTimeout + HeartbeatPeriod  BY <1>1, <2>5
  <2> QED BY <2>1, <2>4, <2>6 DEF l
<1>7. NextCheck(s)' \in now .. now + HeartbeatPeriod  BY <1>1, <1>4
<1> QED BY <1>2, <1>3, <1>4, <1>6, <1>7 DEF ListFresh

(* A heartbeat is no older than the datagram may be delayed.               *)
LEMMA FreshHeartbeat ==
  ASSUME Base, SentAlive, [Next]_vars, NEW s \in Servers, ListFresh(s), NEW m, did_recv_HEARTBEAT(s, m)
  PROVE  ListFresh(s)'
<1>1. Receive("HEARTBEAT", s, m)  BY DEF did_recv_HEARTBEAT
<1>2. /\ m \in net /\ m.type = "HEARTBEAT" /\ s \in up /\ MessageOK(m) /\ m.src \in Nodes
      /\ m.at \in 0 .. now /\ now <= m.at + MaxDelay /\ now \in Nat
  BY <1>1, InHand
<1>3. m.src \in Clients /\ m.body.key = m.src  BY <1>2 DEF MessageOK
<1>4. now' = now /\ up' = up /\ due' = due /\ failed' = failed  BY DEF did_recv_HEARTBEAT, history
<1>5. CASE m.body.fiber # "h_fiber"
  <2>1. peers' = peers  BY <1>5 DEF did_recv_HEARTBEAT
  <2> QED BY <1>4, <2>1, FreshKept DEF NextCheck
<1>6. CASE m.body.fiber = "h_fiber"
  <2> DEFINE old == At(peers[s], m.src)  e == Heard(m, old)
  <2>1. peers' = [peers EXCEPT ![s] = Put(@, m.src, e)]  BY <1>6 DEF did_recv_HEARTBEAT, Base, TypeOK
  <2>2. peers[s] \in MapOf(Nodes, PeerEntry)  BY PeersParts DEF Base
  <2>3. old \in PeerEntry  BY <2>2, AtEntry
  <2> HIDE DEF old
  <2>4. e \in PeerEntry /\ e.last_seen = now  BY <1>2, <1>3, <2>3, HeardEntry
  <2> HIDE DEF e
  <2>5. m.at <= LastAlive(m.src) /\ LastAlive(m.src) \in 0 .. now
    <3>1. m.at <= LastAlive(m.src)  BY <1>2 DEF SentAlive
    <3>2. LastAlive(m.src) \in 0 .. now  BY <1>2, AliveGrows
    <3> QED BY <3>1, <3>2
  <2>6. Allowance(s, m.src) = MaxDelay
    <3>1. m.src \notin Servers  BY <1>3, RolesAssumption DEF RolesAssumption
    <3> QED BY <3>1 DEF Allowance, Signs
  <2>7. now <= LastAlive(m.src) + Allowance(s, m.src)
    <3> DEFINE a == LastAlive(m.src)
    <3>1. a \in 0 .. now /\ m.at <= a /\ m.at \in 0 .. now /\ now <= m.at + MaxDelay /\ now \in Nat  BY <1>2, <2>5
    <3> HIDE DEF a
    <3>2. now <= a + MaxDelay  BY <3>1, Constants
    <3> QED BY <2>6, <3>2 DEF a
  <2> QED BY <1>2, <1>4, <2>1, <2>4, <2>7, FreshPut
<1> QED BY <1>5, <1>6

(* A registration tells by the sender's clock when it was sent.            *)
LEMMA FreshRegister ==
  ASSUME Base, SentAlive, [Next]_vars, NEW s \in Servers, ListFresh(s), NEW m, did_recv_REG(s, m)
  PROVE  ListFresh(s)'
<1>1. Receive("REG", s, m)  BY DEF did_recv_REG
<1>2. /\ m \in net /\ m.type = "REG" /\ s \in up /\ MessageOK(m) /\ m.src \in Nodes
      /\ m.at \in 0 .. now /\ now <= m.at + MaxDelay /\ now \in Nat
  BY <1>1, InHand
<1>3. /\ m.src \in Servers /\ m.body.key \in ServerKeys[m.src] /\ m.body.key \in Keys \cup {ZeroKey}
      /\ m.body.time = (m.at + Skew[m.src] + Word) % Word
  BY <1>2, Constants DEF MessageOK
<1>4. now' = now /\ up' = up /\ due' = due /\ failed' = failed  BY DEF did_recv_REG
<1>5. CASE Rejected(s, m)
  <2>1. peers' = peers  BY <1>5 DEF did_recv_REG
  <2> QED BY <1>4, <2>1, FreshKept DEF NextCheck
<1>6. CASE ~Rejected(s, m)
  <2> DEFINE old == At(peers[s], m.src)  e == Registration(s, m, old)
  <2>1. peers' = [peers EXCEPT ![s] = Put(@, m.src, e)]  BY <1>6 DEF did_recv_REG, Base, TypeOK
  <2>2. peers[s] \in MapOf(Nodes, PeerEntry)  BY PeersParts DEF Base
  <2>3. old \in PeerEntry  BY <2>2, AtEntry
  <2> HIDE DEF old
  <2>4. e \in PeerEntry /\ e.last_seen = now  BY <1>2, <1>3, <2>3, RegisteredEntry
  <2> HIDE DEF e
  <2> DEFINE a == LastAlive(m.src)
  <2>5. m.at <= a /\ a \in 0 .. now
    <3>1. m.at <= LastAlive(m.src)  BY <1>2 DEF SentAlive
    <3>2. LastAlive(m.src) \in 0 .. now  BY <1>2, AliveGrows
    <3> QED BY <3>1, <3>2
  <2> HIDE DEF a
  <2>6. MaxDelay \in Nat /\ now <= a + MaxDelay  BY <1>2, <2>5, Constants
  <2>7. now <= a + Allowance(s, m.src)
    <3>1. CASE ~Signs(m.src)  BY <2>6, <3>1 DEF Allowance
    <3>2. CASE Signs(m.src)
      <4>1. m.body.key # ZeroKey  BY <1>3, <3>2 DEF Signs
      <4>2. ~TimeError(WallClock(s), m.body.time)  BY <1>6, <4>1 DEF Rejected
      <4>3. now - m.at + Skew[s] - Skew[m.src] <= Window
        <5>1. m.at \in Nat  BY <1>2
        <5>2. ~TimeError(WallClock(s), (m.at + Skew[m.src] + Word) % Word)  BY <1>3, <4>2
        <5> QED BY <1>2, <1>3, <5>1, <5>2, WithinWindow
      <4>4. Skew[s] \in Int /\ Skew[m.src] \in Int /\ Window \in Nat
        BY <1>3, Constants, WindowAssumption DEF WindowAssumption
      <4> DEFINE d == Window + Skew[m.src] - Skew[s]
      <4>5. d \in Int /\ now <= a + d  BY <1>2, <2>5, <4>3, <4>4
      <4>6. Allowance(s, m.src) = Least(MaxDelay, d)  BY <3>2 DEF Allowance
      <4> HIDE DEF d
      <4> QED BY <2>6, <4>5, <4>6 DEF Least
    <3> QED BY <3>1, <3>2
  <2> QED BY <1>2, <1>4, <2>1, <2>4, <2>7, FreshPut DEF a
<1> QED BY <1>5, <1>6

(* While time passes every node that is late takes its timer first.        *)
LEMMA FreshTick ==
  ASSUME Base, SentAlive, [Next]_vars, NEW s \in Servers, ListFresh(s), Tick
  PROVE  ListFresh(s)'
<1>1. now \in Nat /\ HeartbeatPeriod \in Nat  BY Constants DEF Base, TypeOK
<1>2. now' = now + 1 /\ up' = up /\ due' = due /\ failed' = failed /\ peers' = peers  BY DEF Tick, history
<1>3. s \in up => NextCheck(s) \in now' .. now' + HeartbeatPeriod
  <2>1. <<s, "heartbeat">> \in Timers  BY Constants DEF Timers
  <2>2. NextCheck(s) # now  BY <2>1 DEF Tick, NextCheck
  <2>3. s \in up => NextCheck(s) \in now .. now + HeartbeatPeriod  BY DEF ListFresh
  <2> QED BY <1>1, <1>2, <2>2, <2>3
<1>4. ASSUME NEW p \in DOMAIN peers[s]
      PROVE  peers[s][p].last_seen <= LastAlive(p)' + Allowance(s, p)
  <2>1. p \in Nodes /\ peers[s][p].last_seen \in Nat  BY PeersParts DEF Base
  <2>2. Allowance(s, p) \in Int  BY <2>1, AllowanceInt
  <2>3. now' \in Nat /\ LastAlive(p) \in 0 .. now /\ LastAlive(p)' \in 0 .. now' /\ LastAlive(p) <= LastAlive(p)'
    BY <2>1, AliveGrows
  <2>4. peers[s][p].last_seen <= LastAlive(p) + Allowance(s, p)  BY DEF ListFresh
  <2> DEFINE l == peers[s][p].last_seen  a == LastAlive(p)  b == LastAlive(p)'
  <2>5. a \in Nat /\ b \in Nat /\ a <= b  BY <1>1, <2>3
  <2>6. l \in Nat /\ l <= a + Allowance(s, p)  BY <2>1, <2>4
  <2> HIDE DEF l, a, b
  <2>7. l <= b + Allowance(s, p)  BY <2>2, <2>5, <2>6
  <2> QED BY <2>7 DEF l, b
<1>5. \A p : Allowance(s, p)' = Allowance(s, p) /\ NextCheck(s)' = NextCheck(s)
  BY <1>2 DEF Allowance, Signs, Least, NextCheck
<1> QED BY <1>2, <1>3, <1>4, <1>5 DEF ListFresh

(* From the time a node stops its entry has as long as ListsFresh says.    *)
LEMMA FreshStop ==
  ASSUME Base, SentAlive, [Next]_vars, NEW s \in Servers, ListFresh(s),
         NEW n \in Nodes, Stop(n) \/ Start(n) \/ (n \in Seekers /\ close(n))
  PROVE  ListFresh(s)'
<1>1. now \in Nat /\ HeartbeatPeriod \in Nat /\ now' = now
  BY Constants DEF Base, TypeOK, Stop, Start, close
<1>2. CASE n # s
  <2>1. NextCheck(s)' = NextCheck(s)  BY <1>2, TimingOf DEF NextCheck, Stop, Start, close
  <2>2. peers'[s] = peers[s]  BY <1>2 DEF Base, TypeOK, Stop, Start, close
  <2>3. s \in up <=> s \in up'  BY <1>2 DEF Stop, Start, close
  <2> QED BY <1>1, <2>1, <2>2, <2>3, FreshKept
<1>3. CASE n = s /\ Stop(n)
  <2>1. DOMAIN peers'[s] = {}  BY <1>3, NoEntryMap DEF Base, TypeOK, Stop
  <2>2. s \notin up'  BY <1>3 DEF Stop
  <2> QED BY <2>1, <2>2 DEF ListFresh
<1>4. CASE n = s /\ Start(n)
  <2>1. DOMAIN peers'[s] = {}  BY <1>4 DEF Start, ListFresh
  <2>2. NextCheck(s)' = now  BY <1>4, TimingOf DEF NextCheck, Start
  <2>3. NextCheck(s)' \in now .. now + HeartbeatPeriod  BY <1>1, <2>2
  <2>4. s \in up'  BY <1>4 DEF Start
  <2> QED BY <1>1, <2>1, <2>3, <2>4 DEF ListFresh
<1>5. n # s \/ ~(n \in Seekers)  BY Constants
<1> QED BY <1>2, <1>3, <1>4, <1>5

(* The steps of other nodes, and those that change no list.                *)
LEMMA FreshOther ==
  ASSUME Base, SentAlive, [Next]_vars, NEW s \in Servers, ListFresh(s), now' = now, up' = up,
         peers'[s] = peers[s], NextCheck(s)' = NextCheck(s)
  PROVE  ListFresh(s)'
BY FreshKept

(* The other steps of a server leave its entries.                          *)
LEMMA FreshServer ==
  ASSUME Base, SentAlive, [Next]_vars, NEW s \in Servers, ListFresh(s), NEW q \in Servers, ServerStep(q)
  PROVE  ListFresh(s)'
<1>1. CASE server_timer_cb(q)
  <2>1. CASE q = s  BY <1>1, <2>1, FreshTimer
  <2>2. CASE q # s
    <3>1. NextCheck(s)' = NextCheck(s)  BY <1>1, <2>2 DEF server_timer_cb, NextCheck, Base, TypeOK
    <3>2. peers'[s] = peers[s] /\ now' = now /\ up' = up  BY <1>1, <2>2 DEF server_timer_cb, Base, TypeOK
    <3> QED BY <3>1, <3>2, FreshOther
  <2> QED BY <2>1, <2>2
<1>2. ASSUME NEW m, did_recv_HEARTBEAT(q, m)  PROVE ListFresh(s)'
  <2>1. CASE q = s  BY <1>2, <2>1, FreshHeartbeat
  <2>2. CASE q # s
    <3>1. now' = now /\ up' = up /\ NextCheck(s)' = NextCheck(s)  BY <1>2 DEF did_recv_HEARTBEAT, NextCheck
    <3>2. peers'[s] = peers[s]  BY <1>2, <2>2 DEF did_recv_HEARTBEAT, Base, TypeOK
    <3> QED BY <3>1, <3>2, FreshOther
  <2> QED BY <2>1, <2>2
<1>3. ASSUME NEW m, did_recv_REG(q, m)  PROVE ListFresh(s)'
  <2>1. CASE q = s  BY <1>3, <2>1, FreshRegister
  <2>2. CASE q # s
    <3>1. now' = now /\ up' = up /\ NextCheck(s)' = NextCheck(s)  BY <1>3 DEF did_recv_REG, NextCheck
    <3>2. peers'[s] = peers[s]  BY <1>3, <2>2 DEF did_recv_REG, Base, TypeOK
    <3> QED BY <3>1, <3>2, FreshOther
  <2> QED BY <2>1, <2>2
<1>4. ASSUME NEW m, did_recv_DISCPEER(q, m) \/ did_recv_DISCCLUSTER2(q, m)  PROVE ListFresh(s)'
  BY <1>4, FreshOther DEF did_recv_DISCPEER, did_recv_DISCCLUSTER2, NextCheck
<1> QED BY <1>1, <1>2, <1>3, <1>4 DEF ServerStep

(* Every step keeps the lists fresh.                                       *)
LEMMA FreshInductive == Base /\ SentAlive /\ ListsFresh /\ [Next]_vars => ListsFresh'
<1> SUFFICES ASSUME Base, SentAlive, ListsFresh, [Next]_vars, NEW s \in Servers PROVE ListFresh(s)'
  BY DEF ListsFresh
<1>1. ListFresh(s)  BY DEF ListsFresh
<1>2. ASSUME NEW q \in Servers, ServerStep(q) PROVE ListFresh(s)'
  BY <1>1, <1>2, FreshServer
<1>3. ASSUME NEW n \in Seekers, beacon_timer_cb(n) PROVE ListFresh(s)'
  <2>1. NextCheck(s)' = NextCheck(s)  BY <1>3 DEF beacon_timer_cb, NextCheck, Base, TypeOK
  <2> QED BY <1>1, <1>3, <2>1, FreshOther DEF beacon_timer_cb
<1>4. ASSUME NEW n \in Clients, heartbeat_timer_cb(n) PROVE ListFresh(s)'
  <2>1. n # s  BY RolesAssumption DEF RolesAssumption
  <2>2. NextCheck(s)' = NextCheck(s)  BY <1>4, <2>1 DEF heartbeat_timer_cb, NextCheck, Base, TypeOK
  <2> QED BY <1>1, <1>4, <2>2, FreshOther DEF heartbeat_timer_cb
<1>5. ASSUME NEW n, NEW m, \/ did_recv_LISTPEER(n, m) \/ did_recv_LISTPROTO(n, m)
                           \/ did_recv_LISTCLUSTER2(n, m) \/ did_recv_DISCPROTO(n, m)
      PROVE  ListFresh(s)'
  <2>1. now' = now /\ up' = up /\ peers' = peers /\ due' = due
    BY <1>5 DEF did_recv_LISTPEER, did_recv_LISTPROTO, did_recv_LISTCLUSTER2, did_recv_DISCPROTO
  <2> QED BY <1>1, <2>1, FreshOther DEF NextCheck
<1>6. ASSUME NEW n \in Nodes, Stop(n) \/ Start(n) \/ (n \in Seekers /\ close(n)) PROVE ListFresh(s)'
  BY <1>1, <1>6, FreshStop
<1>7. CASE Learn \/ Lose \/ UNCHANGED vars
  <2>1. now' = now /\ up' = up /\ peers' = peers /\ due' = due  BY <1>7 DEF Learn, Lose, vars
  <2> QED BY <1>1, <2>1, FreshOther DEF NextCheck
<1>8. CASE Tick  BY <1>1, <1>8, FreshTick
<1>9. ASSUME NEW n \in Seekers, SeekerStep(n) \/ close(n) PROVE ListFresh(s)'
  <2>1. n \in Nodes  BY Constants
  <2> QED BY <1>3, <1>5, <1>6, <1>9, <2>1 DEF SeekerStep
<1> QED BY <1>2, <1>4, <1>5, <1>6, <1>7, <1>8, <1>9 DEF Next

(* They are fresh at the start.                                            *)
LEMMA FreshInit == Init => SentAlive /\ ListsFresh
<1> SUFFICES ASSUME Init PROVE SentAlive /\ ListsFresh  OBVIOUS
<1>1. SentAlive  BY DEF Init, SentAlive
<1>2. ASSUME NEW s \in Servers  PROVE ListFresh(s)
  <2>1. DOMAIN peers[s] = {}  BY NoEntryMap DEF Init
  <2>2. <<s, "heartbeat">> \in Timers /\ "heartbeat" \in StartOf(s)  BY Constants DEF Timers, StartOf
  <2>3. NextCheck(s) = 0 /\ now = 0 /\ s \in up  BY <2>2, Constants DEF Init, NextCheck
  <2> QED BY <2>1, <2>3, Constants DEF ListFresh
<1> QED BY <1>1, <1>2 DEF ListsFresh

(* A fresh list has nobody who stopped long ago.                           *)
LEMMA FreshForgets == ASSUME Base, SentAlive, ListsFresh PROVE StoppedIsForgotten
<1> SUFFICES ASSUME NEW s \in up \cap Servers, NEW n \in Nodes \ up, n \in DOMAIN peers[s]
             PROVE  ~(now > LastRefresh(s, n) + PeerTimeout + HeartbeatPeriod)
  BY DEF StoppedIsForgotten
<1>1. /\ NextCheck(s) \in now .. now + HeartbeatPeriod
      /\ NextCheck(s) <= peers[s][n].last_seen + PeerTimeout + HeartbeatPeriod
      /\ peers[s][n].last_seen <= LastAlive(n) + Allowance(s, n)
  BY DEF ListsFresh, ListFresh
<1>2. LastAlive(n) = failed[n] /\ failed[n] \in 0 .. now  BY DEF LastAlive, SentAlive
<1>3. LastRefresh(s, n) = failed[n] + Allowance(s, n)  BY DEF LastRefresh, Allowance
<1>4. Allowance(s, n) \in Int  BY AllowanceInt
<1>5. now \in Nat /\ HeartbeatPeriod \in Nat /\ PeerTimeout \in Nat  BY Constants DEF Base, TypeOK
<1>6. peers[s][n].last_seen \in Nat  BY PeersParts DEF Base
<1> DEFINE c == NextCheck(s)  l == peers[s][n].last_seen  f == failed[n]  a == Allowance(s, n)
<1>7. /\ c \in now .. now + HeartbeatPeriod /\ c <= l + PeerTimeout + HeartbeatPeriod /\ l <= f + a
      /\ l \in Nat /\ f \in 0 .. now /\ a \in Int
  BY <1>1, <1>2, <1>4, <1>6
<1> HIDE DEF c, l, f, a
<1>8. now <= f + a + PeerTimeout + HeartbeatPeriod  BY <1>5, <1>7
<1>9. LastRefresh(s, n) = f + a  BY <1>3 DEF f, a
<1> QED BY <1>5, <1>7, <1>8, <1>9

(* A node that stopped is forgotten by the servers it was registered with, *)
(* however long the network keeps, repeats and reorders its datagrams.     *)
THEOREM StoppedNodesAreForgotten == Spec => []StoppedIsForgotten
<1> QED BY BaseInit, BaseInductive, FreshInit, SentInductive, FreshInductive, FreshForgets, PTL DEF Spec

-----------------------------------------------------------------------------
(* A relay that runs is listed, and announced in time.                     *)

(* The timers of a node that never stopped fire every period.              *)
Period(t) == IF t = "heartbeat" THEN HeartbeatPeriod ELSE BeaconPeriod
Runs(n) ==
  failed[n] = Off => n \in up /\ \A t \in StartOf(n) : due[<<n, t>>] \in now .. now + Period(t)
TimersRun == \A n \in Nodes : Runs(n)

(* Who registers where; its datagrams under way; when it was last heard.   *)
Registers(x, s) ==
  \/ x \in Clients /\ <<s, "h_fiber">> \in HeartbeatAddrs[x]
  \/ x \in Servers /\ s = RAddr[x] /\ ClocksAgree(x, s)
Beats(x, s) ==
  {m \in net : m.src = x /\ m.dst = s /\ m.type \in {"HEARTBEAT", "REG"} /\ m.body.fiber = "h_fiber"}
LastSeen(x, s) == IF x \in DOMAIN peers[s] THEN peers[s][x].last_seen ELSE -HeartbeatPeriod
Deadline(x, s) == LastSeen(x, s) + (lost + 1) * HeartbeatPeriod

(* It fires again before the deadline, or has fired by then and a datagram *)
(* is on its way.                                                          *)
NextBeat(x) == due[<<x, "heartbeat">>]
Refreshed(x, s) ==
  \/ NextBeat(x) <= Deadline(x, s)
  \/ Beats(x, s) # {} /\ NextBeat(x) = now + HeartbeatPeriod /\ now <= Deadline(x, s)
Linked(x, s) == Registers(x, s) /\ failed[x] = Off /\ failed[s] = Off
AllRefreshed == Survivable => \A x \in Nodes, s \in Servers : Linked(x, s) => Refreshed(x, s)

(* What a node starts are timers.                                          *)
LEMMA StartedTimers ==
  ASSUME NEW n \in Nodes, NEW t \in StartOf(n)
  PROVE  <<n, t>> \in Timers /\ t \in {"heartbeat", "beacon"} /\ Period(t) \in Nat
<1>1. t \in {"heartbeat", "beacon"}  BY DEF StartOf
<1> QED BY <1>1, Constants DEF Timers, Period

(* Time passes by Tick alone, a loss is counted by Lose alone.             *)
LEMMA Counters ==
  ASSUME Base, [Next]_vars
  PROVE  /\ now' = now \/ Tick
         /\ lost' = lost \/ (Lose /\ lost' = lost + 1)
         /\ learned' = learned \/ Learn
<1>1. now' = now \/ Tick
  BY ZenonT(60), Constants DEF Next, ServerStep, SeekerStep, vars, server_timer_cb, did_recv_HEARTBEAT,
     did_recv_REG, did_recv_DISCPEER, did_recv_DISCCLUSTER2, beacon_timer_cb, did_recv_LISTPEER,
     did_recv_LISTPROTO, heartbeat_timer_cb, did_recv_LISTCLUSTER2, did_recv_DISCPROTO, Learn, Lose,
     Stop, Start, close
<1>2. lost' = lost \/ (Lose /\ lost' = lost + 1)
  <2>1. Lose => lost' = lost \/ lost' = lost + 1  BY DEF Lose
  <2>2. Lose \/ lost' = lost
    BY ZenonT(60), Constants DEF Next, ServerStep, SeekerStep, vars, server_timer_cb, did_recv_HEARTBEAT,
       did_recv_REG, did_recv_DISCPEER, did_recv_DISCCLUSTER2, beacon_timer_cb, did_recv_LISTPEER,
       did_recv_LISTPROTO, heartbeat_timer_cb, did_recv_LISTCLUSTER2, did_recv_DISCPROTO, Learn, Tick,
       Stop, Start, close
  <2> QED BY <2>1, <2>2
<1>3. learned' = learned \/ Learn
  BY ZenonT(60), Constants DEF Next, ServerStep, SeekerStep, vars, server_timer_cb, did_recv_HEARTBEAT,
     did_recv_REG, did_recv_DISCPEER, did_recv_DISCCLUSTER2, beacon_timer_cb, did_recv_LISTPEER,
     did_recv_LISTPROTO, heartbeat_timer_cb, did_recv_LISTCLUSTER2, did_recv_DISCPROTO, Tick, Lose,
     Stop, Start, close
<1> QED BY <1>1, <1>2, <1>3

(* What a step does to a node that never stopped: at most a timer of it    *)
(* fires.                                                                  *)
LEMMA Unfailed ==
  ASSUME Base, TimersRun, [Next]_vars, NEW n \in Nodes, failed'[n] = Off
  PROVE  /\ failed[n] = Off /\ n \in up /\ n \in up' /\ (n \in Servers => skey'[n] = skey[n])
         /\ \A t \in StartOf(n) : \/ due'[<<n, t>>] = due[<<n, t>>]
                                  \/ /\ due[<<n, t>>] = now /\ now' = now
                                     /\ due'[<<n, t>>] = now + Period(t)
<1>1. /\ failed \in [Nodes -> Nat \cup {Off}] /\ due \in [Timers -> Nat \cup {Off}] /\ now \in Nat
      /\ skey \in [Servers -> Keys \cup {ZeroKey}] /\ now # Off
  BY RolesAssumption, Constants DEF Base, TypeOK, RolesAssumption
<1>2. failed[n] = Off => n \in up  BY DEF TimersRun, Runs
<1> DEFINE Kept == /\ failed[n] = Off /\ n \in up' /\ (n \in Servers => skey'[n] = skey[n])
                   /\ \A t \in StartOf(n) : due'[<<n, t>>] = due[<<n, t>>]
           Fired == /\ failed[n] = Off /\ n \in up' /\ (n \in Servers => skey'[n] = skey[n])
                    /\ \A t \in StartOf(n) : \/ due'[<<n, t>>] = due[<<n, t>>]
                                             \/ /\ due[<<n, t>>] = now /\ now' = now
                                                /\ due'[<<n, t>>] = now + Period(t)
<1>3. SUFFICES Fired  BY <1>2
<1>4. CASE UNCHANGED <<failed, up, skey, due>>  BY <1>2, <1>4
<1>5. ASSUME NEW q, NEW k \in {"heartbeat", "beacon"}, due[<<q, k>>] = now, now' = now,
             due' = [due EXCEPT ![<<q, k>>] = now + Period(k)],
             UNCHANGED <<failed, up, skey>>
      PROVE  Fired
  <2>1. \A t \in StartOf(n) : <<n, t>> \in Timers  BY StartedTimers
  <2>2. ASSUME NEW t \in StartOf(n)
        PROVE  \/ due'[<<n, t>>] = due[<<n, t>>]
               \/ due[<<n, t>>] = now /\ due'[<<n, t>>] = now + Period(t)
    BY <1>1, <1>5, <2>1
  <2> QED BY <1>2, <1>5, <2>2
<1>6. ASSUME NEW q \in Nodes, Stop(q) \/ Start(q) \/ close(q)  PROVE Fired
  <2>1. q # n
    <3>1. CASE Stop(q) \/ close(q)
      <4>1. failed' = [failed EXCEPT ![q] = now]  BY <3>1 DEF Stop, close
      <4> QED BY <1>1, <4>1
    <3>2. CASE Start(q)  BY <1>2, <3>2 DEF Start, history
    <3> QED BY <1>6, <3>1, <3>2
  <2>2. failed'[n] = failed[n] /\ (n \in up => n \in up')  BY <1>1, <1>6, <2>1 DEF Stop, Start, close, history
  <2>3. n \in Servers => skey'[n] = skey[n]  BY <1>1, <1>6, <2>1 DEF Stop, Start, close
  <2>4. ASSUME NEW t \in StartOf(n)  PROVE due'[<<n, t>>] = due[<<n, t>>]
    <3>1. <<n, t>> \in Timers  BY StartedTimers
    <3>2. PICK k : due' = Timing(q, k)  BY <1>6 DEF Stop, Start, close
    <3> QED BY <2>1, <3>1, <3>2 DEF Timing
  <2> QED BY <1>2, <2>2, <2>3, <2>4
<1>7. ASSUME NEW q \in Servers, server_timer_cb(q)  PROVE Fired
  BY <1>5, <1>7 DEF server_timer_cb, history, Period
<1>8. ASSUME NEW q \in Clients, heartbeat_timer_cb(q)  PROVE Fired
  BY <1>5, <1>8 DEF heartbeat_timer_cb, history, Period
<1>9. ASSUME NEW q \in Seekers, beacon_timer_cb(q)  PROVE Fired
  <2>1. Period("beacon") = BeaconPeriod  BY DEF Period
  <2> QED BY <1>5, <1>9, <2>1 DEF beacon_timer_cb, history
<1> HIDE DEF Fired
<1>10. ASSUME NEW q, NEW m, \/ did_recv_HEARTBEAT(q, m) \/ did_recv_REG(q, m) \/ did_recv_DISCPEER(q, m)
                            \/ did_recv_DISCCLUSTER2(q, m) \/ did_recv_LISTPEER(q, m) \/ did_recv_LISTPROTO(q, m)
                            \/ did_recv_LISTCLUSTER2(q, m) \/ did_recv_DISCPROTO(q, m)
       PROVE  Fired
  BY <1>4, <1>10 DEF did_recv_HEARTBEAT, did_recv_REG, did_recv_DISCPEER, did_recv_DISCCLUSTER2,
     did_recv_LISTPEER, did_recv_LISTPROTO, did_recv_LISTCLUSTER2, did_recv_DISCPROTO, history
<1>11. ASSUME Learn \/ Lose \/ Tick \/ UNCHANGED vars  PROVE Fired
  BY <1>4, <1>11 DEF Learn, Lose, Tick, vars, history
<1>12. ASSUME NEW q \in Servers, ServerStep(q)  PROVE Fired  BY <1>7, <1>10, <1>12 DEF ServerStep
<1>13. ASSUME NEW q \in Seekers, SeekerStep(q) \/ close(q)  PROVE Fired
  <2>1. q \in Nodes  BY Constants
  <2> QED BY <1>6, <1>9, <1>10, <1>13, <2>1 DEF SeekerStep
<1> QED BY <1>6, <1>8, <1>10, <1>11, <1>12, <1>13 DEF Next

(* Every step keeps the timers running.                                    *)
LEMMA TimersInductive == Base /\ TimersRun /\ [Next]_vars => TimersRun'
<1> SUFFICES ASSUME Base, TimersRun, [Next]_vars, NEW n \in Nodes, failed'[n] = Off
             PROVE  n \in up' /\ \A t \in StartOf(n) : due'[<<n, t>>] \in now' .. now' + Period(t)
  BY DEF TimersRun, Runs, StartOf, Period
<1>1. now \in Nat  BY Constants DEF Base, TypeOK
<1>2. /\ failed[n] = Off /\ n \in up'
      /\ \A t \in StartOf(n) : \/ due'[<<n, t>>] = due[<<n, t>>]
                               \/ /\ due[<<n, t>>] = now /\ now' = now
                                  /\ due'[<<n, t>>] = now + Period(t)
  BY Unfailed
<1>3. ASSUME NEW t \in StartOf(n)  PROVE due'[<<n, t>>] \in now' .. now' + Period(t)
  <2>1. due[<<n, t>>] \in now .. now + Period(t)  BY <1>2 DEF TimersRun, Runs
  <2>2. <<n, t>> \in Timers /\ Period(t) \in Nat  BY StartedTimers
  <2> DEFINE u == due[<<n, t>>]  v == due'[<<n, t>>]  p == Period(t)
  <2>3. u \in now .. now + p /\ p \in Nat /\ (v = u \/ (u = now /\ now' = now /\ v = now + p))
    BY <1>2, <2>1, <2>2
  <2>4. (u # now /\ now' = now + 1) \/ now' = now  BY <2>2, Counters DEF Tick
  <2> HIDE DEF u, v, p
  <2>5. v \in now' .. now' + p
    <3>1. CASE u # now /\ now' = now + 1  BY <1>1, <2>3, <3>1
    <3>2. CASE now' = now  BY <1>1, <2>3, <3>2
    <3> QED BY <2>4, <3>1, <3>2
  <2> QED BY <2>5 DEF v, p
<1> QED BY <1>2, <1>3

(* They run from the start.                                                *)
LEMMA TimersInit == Init => TimersRun
<1> SUFFICES ASSUME Init, NEW n \in Nodes
             PROVE  n \in up /\ \A t \in StartOf(n) : due[<<n, t>>] \in now .. now + Period(t)
  BY DEF TimersRun, Runs
<1>1. ASSUME NEW t \in StartOf(n)  PROVE due[<<n, t>>] \in now .. now + Period(t)
  <2>1. <<n, t>> \in Timers /\ Period(t) \in Nat  BY StartedTimers
  <2>2. due[<<n, t>>] = 0 /\ now = 0  BY <2>1 DEF Init
  <2> QED BY <2>1, <2>2
<1> QED BY <1>1 DEF Init

(* What registers somewhere has a timer for it.                            *)
LEMMA Linking ==
  ASSUME Base, TimersRun, NEW x \in Nodes, NEW s \in Servers, Linked(x, s)
  PROVE  /\ "heartbeat" \in StartOf(x) /\ NextBeat(x) \in now .. now + HeartbeatPeriod
         /\ x \in up /\ s \in up /\ now \in Nat /\ HeartbeatPeriod \in Nat \ {0} /\ NextBeat(x) \in Nat
<1>1. "heartbeat" \in StartOf(x)  BY DEF Linked, Registers, StartOf
<1>2. failed[x] = Off /\ failed[s] = Off /\ s \in Nodes  BY Constants DEF Linked
<1>3. x \in up /\ s \in up  BY <1>2 DEF TimersRun, Runs
<1>4. NextBeat(x) \in now .. now + Period("heartbeat")  BY <1>1, <1>2 DEF TimersRun, Runs, NextBeat
<1>5. now \in Nat /\ HeartbeatPeriod \in Nat \ {0}
  BY Constants, DiscoveryAssumption DEF Base, TypeOK, DiscoveryAssumption
<1>6. Period("heartbeat") = HeartbeatPeriod  BY DEF Period
<1> QED BY <1>1, <1>3, <1>4, <1>5, <1>6

(* What so many losses take.                                               *)
LEMMA Delays ==
  ASSUME NEW n \in Nat, NEW p \in Nat, NEW q \in Nat, p <= q
  PROVE  /\ n * p \in Nat /\ n * q \in Nat /\ n * p <= n * q /\ p <= (n + 1) * p
         /\ (n + 1) * p = n * p + p /\ (n + 1) * p \in Nat
         /\ (n + 1 + 1) * p = (n + 1) * p + p
<1>1. n * p \in Nat /\ n * q \in Nat /\ (n + 1) * p = n * p + p /\ (n + 1 + 1) * p = (n + 1) * p + p  OBVIOUS
<1>2. PICK k \in Nat : q = p + k
  <2>1. q - p \in Nat /\ q = p + (q - p)  OBVIOUS
  <2> QED BY <2>1
<1>3. n * q = n * p + n * k /\ n * k \in Nat  BY <1>2
<1> QED BY <1>1, <1>3

(* The deadline is a number; time has not passed it.                       *)
LEMMA InTime ==
  ASSUME Base, TimersRun, NEW x \in Nodes, NEW s \in Servers, Linked(x, s)
  PROVE  /\ LastSeen(x, s) \in Int /\ (lost + 1) * HeartbeatPeriod \in Nat /\ Deadline(x, s) \in Int
         /\ Refreshed(x, s) => now <= Deadline(x, s)
<1>1. now \in Nat /\ HeartbeatPeriod \in Nat /\ NextBeat(x) \in now .. now + HeartbeatPeriod  BY Linking
<1>2. lost \in Nat  BY DEF Base, TypeOK
<1>3. (lost + 1) * HeartbeatPeriod \in Nat  BY <1>1, <1>2, Delays
<1>4. LastSeen(x, s) \in Int
  <2>1. CASE x \in DOMAIN peers[s]
    <3>1. peers[s][x].last_seen \in Nat  BY <2>1, PeersParts DEF Base
    <3> QED BY <2>1, <3>1 DEF LastSeen
  <2>2. CASE x \notin DOMAIN peers[s]  BY <1>1, <2>2 DEF LastSeen
  <2> QED BY <2>1, <2>2
<1> DEFINE k == (lost + 1) * HeartbeatPeriod  D == Deadline(x, s)  b == NextBeat(x)
<1>5. k \in Nat /\ D = LastSeen(x, s) + k  BY <1>3 DEF Deadline
<1> HIDE DEF k
<1>6. D \in Int  BY <1>4, <1>5
<1> HIDE DEF D
<1>7. Refreshed(x, s) => b <= D \/ now <= D  BY DEF Refreshed, D
<1>8. b \in now .. now + HeartbeatPeriod  BY <1>1
<1> HIDE DEF b
<1>9. Refreshed(x, s) => now <= D  BY <1>1, <1>6, <1>7, <1>8
<1> QED BY <1>3, <1>4, <1>6, <1>9 DEF D

(* So it is listed, or that can still be the fault of the losses.          *)
LEMMA ListedOrEarly ==
  ASSUME Base, TimersRun, NEW x \in Nodes, NEW s \in Servers, Linked(x, s), Refreshed(x, s)
  PROVE  x \in DOMAIN peers[s] \/ now <= lost * HeartbeatPeriod
<1> SUFFICES ASSUME x \notin DOMAIN peers[s] PROVE now <= lost * HeartbeatPeriod  OBVIOUS
<1>1. now \in Nat /\ HeartbeatPeriod \in Nat /\ now <= Deadline(x, s)  BY Linking, InTime
<1>2. Deadline(x, s) = -HeartbeatPeriod + (lost + 1) * HeartbeatPeriod  BY DEF Deadline, LastSeen
<1>3. lost \in Nat  BY DEF Base, TypeOK
<1>4. (lost + 1) * HeartbeatPeriod = lost * HeartbeatPeriod + HeartbeatPeriod /\ lost * HeartbeatPeriod \in Nat
  BY <1>1, <1>3, Delays
<1> DEFINE a == lost * HeartbeatPeriod  b == (lost + 1) * HeartbeatPeriod
<1>5. b = a + HeartbeatPeriod /\ a \in Nat /\ now <= -HeartbeatPeriod + b  BY <1>1, <1>2, <1>4
<1> HIDE DEF a, b
<1>6. now <= a  BY <1>1, <1>5
<1> QED BY <1>6 DEF a

(* Nor is it stale as long as a few losses do not matter.                  *)
LEMMA NotStale ==
  ASSUME Base, TimersRun, Survivable, NEW x \in Nodes, NEW s \in Servers, Linked(x, s), Refreshed(x, s)
  PROVE  x \notin Stale_Peers(s)
<1> SUFFICES ASSUME x \in DOMAIN peers[s], now - peers[s][x].last_seen > PeerTimeout PROVE FALSE
  BY DEF Stale_Peers
<1>1. now \in Nat /\ now <= Deadline(x, s) /\ (lost + 1) * HeartbeatPeriod \in Nat  BY Linking, InTime
<1>2. peers[s][x].last_seen \in Nat  BY PeersParts DEF Base
<1>3. Deadline(x, s) = peers[s][x].last_seen + (lost + 1) * HeartbeatPeriod  BY DEF Deadline, LastSeen
<1>4. (lost + 1) * HeartbeatPeriod <= PeerTimeout /\ PeerTimeout \in Nat  BY Constants DEF Survivable
<1> DEFINE k == (lost + 1) * HeartbeatPeriod  l == peers[s][x].last_seen
<1>5. /\ k \in Nat /\ l \in Nat /\ k <= PeerTimeout /\ PeerTimeout \in Nat /\ now \in Nat
      /\ now <= l + k /\ now - l > PeerTimeout
  BY <1>1, <1>2, <1>3, <1>4
<1> HIDE DEF k, l
<1> QED BY <1>5

(* A step that leaves the node's timer, its entry and its datagrams alone. *)
LEMMA RefreshedKept ==
  ASSUME NEW x, NEW s, Refreshed(x, s), now' = now, lost' = lost, NextBeat(x)' = NextBeat(x),
         LastSeen(x, s)' = LastSeen(x, s), Beats(x, s) \subseteq net'
  PROVE  Refreshed(x, s)'
<1>1. Deadline(x, s)' = Deadline(x, s)  BY DEF Deadline
<1>2. Beats(x, s) \subseteq Beats(x, s)'  BY DEF Beats
<1> QED BY <1>1, <1>2 DEF Refreshed

(* The timer of a server drops nobody who registers with it, and sends its *)
(* own registration.                                                       *)
LEMMA RefreshedServerTimer ==
  ASSUME Base, TimersRun, Survivable, NEW x \in Nodes, NEW s \in Servers, Linked(x, s), Refreshed(x, s),
         NEW q \in Servers, server_timer_cb(q)
  PROVE  Refreshed(x, s)'
<1>1. LastSeen(x, s)' = LastSeen(x, s)
  <2>1. x \notin Stale_Peers(s)  BY NotStale
  <2>2. peers' = [peers EXCEPT ![q] = Only(@, DOMAIN peers[q] \ Stale_Peers(q))]
    BY DEF server_timer_cb, Base, TypeOK
  <2>3. DOMAIN peers[q] \ Stale_Peers(q) \in SUBSET DOMAIN peers[q]  OBVIOUS
  <2>4. /\ \A p \in Servers : p # q => peers'[p] = peers[p]
        /\ DOMAIN peers'[q] = DOMAIN peers[q] \ Stale_Peers(q)
        /\ \A y \in DOMAIN peers[q] \ Stale_Peers(q) : peers'[q][y] = peers[q][y]
    BY <2>2, <2>3, PeersOnly DEF Base
  <2> QED BY <2>1, <2>4 DEF LastSeen
<1>2. now' = now /\ lost' = lost /\ net \subseteq net'  BY DEF server_timer_cb, Post
<1>3. Beats(x, s) \subseteq net'  BY <1>2 DEF Beats
<1>4. CASE x # q
  <2>1. NextBeat(x)' = NextBeat(x)  BY <1>4 DEF server_timer_cb, NextBeat, Base, TypeOK
  <2> QED BY <1>1, <1>2, <1>3, <2>1, RefreshedKept
<1>5. CASE x = q
  <2>1. s = RAddr[x] /\ s # NoAddr /\ x \in Servers
    BY <1>5, RolesAssumption, Constants DEF Linked, Registers, RolesAssumption
  <2> DEFINE b == [fiber |-> "h_fiber", key |-> skey[x], time |-> WallClock(x)]
             r == Message("REG", x, s, b)
  <2>2. r.type = "REG" /\ r.src = x /\ r.dst = s /\ r.body = b  BY MessageParts
  <2>3. REG(x) = {r}  BY <2>1 DEF REG
  <2> HIDE DEF r
  <2>4. r \in net'  BY <1>5, <2>3 DEF server_timer_cb, Post
  <2>5. r \in Beats(x, s)'  BY <2>2, <2>4 DEF Beats
  <2>6. <<x, "heartbeat">> \in Timers  BY Constants DEF Timers
  <2>7. NextBeat(x)' = now + HeartbeatPeriod
    BY <1>5, <2>6 DEF server_timer_cb, NextBeat, Base, TypeOK
  <2>8. now <= Deadline(x, s)  BY InTime
  <2>9. Deadline(x, s)' = Deadline(x, s)  BY <1>1, <1>2 DEF Deadline
  <2> QED BY <1>2, <2>5, <2>7, <2>8, <2>9 DEF Refreshed
<1> QED BY <1>4, <1>5

(* That of a relay sends its heartbeats.                                   *)
LEMMA RefreshedClientTimer ==
  ASSUME Base, TimersRun, NEW x \in Nodes, NEW s \in Servers, Linked(x, s), Refreshed(x, s),
         NEW q \in Clients, heartbeat_timer_cb(q)
  PROVE  Refreshed(x, s)'
<1>1. LastSeen(x, s)' = LastSeen(x, s)  BY DEF LastSeen, heartbeat_timer_cb
<1>2. now' = now /\ lost' = lost /\ net \subseteq net'  BY DEF heartbeat_timer_cb, Post
<1>3. Beats(x, s) \subseteq net'  BY <1>2 DEF Beats
<1>4. CASE x # q
  <2>1. NextBeat(x)' = NextBeat(x)  BY <1>4 DEF heartbeat_timer_cb, NextBeat, Base, TypeOK
  <2> QED BY <1>1, <1>2, <1>3, <2>1, RefreshedKept
<1>5. CASE x = q
  <2>1. x \notin Servers  BY <1>5, RolesAssumption DEF RolesAssumption
  <2> DEFINE h == <<s, "h_fiber">>  b == [fiber |-> h[2], key |-> x]  r == Message("HEARTBEAT", x, h[1], b)
  <2>2. h \in HeartbeatAddrs[x]  BY <2>1 DEF Linked, Registers
  <2>3. r.type = "HEARTBEAT" /\ r.src = x /\ r.dst = s /\ r.body = b /\ b.fiber = "h_fiber"  BY MessageParts
  <2>4. HEARTBEAT(x, h) = r  BY DEF HEARTBEAT
  <2> HIDE DEF r, b, h
  <2>5. r \in net'  BY <1>5, <2>2, <2>4 DEF heartbeat_timer_cb, Post
  <2>6. r \in Beats(x, s)'  BY <2>3, <2>5 DEF Beats
  <2>7. <<x, "heartbeat">> \in Timers  BY Constants DEF Timers
  <2>8. NextBeat(x)' = now + HeartbeatPeriod
    BY <1>5, <2>7 DEF heartbeat_timer_cb, NextBeat, Base, TypeOK
  <2>9. now <= Deadline(x, s)  BY InTime
  <2>10. Deadline(x, s)' = Deadline(x, s)  BY <1>1, <1>2 DEF Deadline
  <2> QED BY <1>2, <2>6, <2>8, <2>9, <2>10 DEF Refreshed
<1> QED BY <1>4, <1>5

(* A datagram that arrives gives another period, and one for each loss.    *)
LEMMA RefreshedPut ==
  ASSUME Base, TimersRun, NEW x \in Nodes, NEW s \in Servers, Linked(x, s), NEW e \in PeerEntry,
         e.last_seen = now, peers' = [peers EXCEPT ![s] = Put(@, x, e)],
         now' = now, lost' = lost, due' = due
  PROVE  Refreshed(x, s)'
<1>1. DOMAIN peers'[s] = DOMAIN peers[s] \cup {x} /\ peers'[s][x] = e  BY ZenonT(150), PeersPut DEF Base
<1>2. LastSeen(x, s)' = now  BY <1>1 DEF LastSeen
<1>3. lost \in Nat /\ now \in Nat /\ HeartbeatPeriod \in Nat /\ NextBeat(x) \in now .. now + HeartbeatPeriod
  BY Linking DEF Base, TypeOK
<1>4. HeartbeatPeriod <= (lost + 1) * HeartbeatPeriod /\ (lost + 1) * HeartbeatPeriod \in Nat  BY <1>3, Delays
<1>5. Deadline(x, s)' = now + (lost + 1) * HeartbeatPeriod /\ NextBeat(x)' = NextBeat(x)
  BY <1>2 DEF Deadline, NextBeat
<1> DEFINE k == (lost + 1) * HeartbeatPeriod  b == NextBeat(x)
<1>6. k \in Nat /\ HeartbeatPeriod <= k /\ b \in now .. now + HeartbeatPeriod  BY <1>3, <1>4
<1> HIDE DEF k, b
<1>7. b <= now + k  BY <1>3, <1>6
<1> QED BY <1>5, <1>7 DEF Refreshed, b, k

(* A datagram without delay finds a clock that agrees within the window.   *)
LEMMA AgreeingClocks ==
  ASSUME NEW s \in Servers, NEW p \in Servers, ClocksAgree(p, s), now \in Nat
  PROVE  ~TimeError(WallClock(s), (now + Skew[p] + Word) % Word)
<1> DEFINE a == now + Skew[s]  b == now + Skew[p]
           x == (a + Word) % Word  y == (b + Word) % Word
<1>1. Skew[s] \in Int /\ Skew[p] \in Int  BY Constants
<1>2. Word \in Nat \ {0} /\ Window \in Nat /\ 2 * Window < Word  BY WindowAssumption DEF WindowAssumption
<1>3. a \in Int /\ b \in Int /\ a - b <= Window /\ b - a <= Window  BY <1>1, <1>2 DEF ClocksAgree
<1>4. x = WallClock(s) /\ y = (now + Skew[p] + Word) % Word  BY <1>1 DEF WallClock
<1> HIDE DEF a, b
<1>5. x \in 0 .. Word - 1 /\ y \in 0 .. Word - 1  BY <1>2, <1>3, Division
<1>6. Minus(x, y) <= Window \/ Minus(y, x) <= Window
  <2>1. CASE a - b > 0
    <3>1. a - b + 0 < Word  BY <1>2, <1>3
    <3>2. (x >= y /\ x - y = a - b) \/ (x < y /\ x - y + Word = a - b)
      BY <1>2, <1>3, <2>1, <3>1, Clocks
    <3> HIDE DEF x, y
    <3> QED BY <1>2, <1>3, <1>5, <3>2 DEF Minus
  <2>2. CASE b - a > 0
    <3>1. b - a + 0 < Word  BY <1>2, <1>3
    <3>2. (y >= x /\ y - x = b - a) \/ (y < x /\ y - x + Word = b - a)
      BY <1>2, <1>3, <2>2, <3>1, Clocks
    <3> HIDE DEF x, y
    <3> QED BY <1>2, <1>3, <1>5, <3>2 DEF Minus
  <2>3. CASE a = b
    <3>1. x = y  BY <2>3
    <3> HIDE DEF x, y
    <3> QED BY <1>2, <1>5, <3>1 DEF Minus
  <2> QED BY <1>3, <2>1, <2>2, <2>3
<1> HIDE DEF x, y
<1>7. Minus(x, y) \in Int /\ Minus(y, x) \in Int  BY <1>2, <1>5 DEF Minus
<1>8. ~(Minus(x, y) > Window /\ Minus(y, x) > Window)  BY <1>2, <1>6, <1>7
<1> QED BY <1>4, <1>8 DEF TimeError

(* A heartbeat of the relay refreshes its entry, another leaves it.        *)
LEMMA RefreshedHeartbeat ==
  ASSUME Base, TimersRun, NEW x \in Nodes, NEW s \in Servers, Linked(x, s), Refreshed(x, s),
         NEW q \in Servers, NEW m, did_recv_HEARTBEAT(q, m)
  PROVE  Refreshed(x, s)'
<1>1. Receive("HEARTBEAT", q, m)  BY DEF did_recv_HEARTBEAT
<1>2. /\ m \in net /\ m.type = "HEARTBEAT" /\ m.dst = q /\ MessageOK(m) /\ m.src \in Nodes /\ now \in Nat
  BY <1>1, InHand
<1>3. m.src \in Clients /\ m.body.key = m.src  BY <1>2 DEF MessageOK
<1>4. now' = now /\ lost' = lost /\ due' = due /\ net \ {m} \subseteq net'
  BY <1>2, Taken DEF did_recv_HEARTBEAT
<1> DEFINE old == At(peers[q], m.src)  e == Heard(m, old)
<1>5. m.body.fiber = "h_fiber" => peers' = [peers EXCEPT ![q] = Put(@, m.src, e)]
  BY DEF did_recv_HEARTBEAT, Base, TypeOK
<1>6. peers[q] \in MapOf(Nodes, PeerEntry)  BY PeersParts DEF Base
<1>7. old \in PeerEntry  BY <1>6, AtEntry
<1> HIDE DEF old
<1>8. e \in PeerEntry /\ e.last_seen = now  BY <1>2, <1>3, <1>7, HeardEntry
<1> HIDE DEF e
<1>9. CASE m.body.fiber = "h_fiber" /\ q = s /\ m.src = x
  <2>1. peers' = [peers EXCEPT ![s] = Put(@, x, e)]  BY <1>5, <1>9
  <2> QED BY <1>4, <1>8, <2>1, RefreshedPut
<1>10. CASE ~(m.body.fiber = "h_fiber" /\ q = s /\ m.src = x)
  <2>1. LastSeen(x, s)' = LastSeen(x, s)
    <3>1. CASE m.body.fiber # "h_fiber"
      <4>1. peers' = peers  BY <3>1 DEF did_recv_HEARTBEAT
      <4> QED BY <4>1 DEF LastSeen
    <3>2. CASE m.body.fiber = "h_fiber"
      <4>0. peers' = [peers EXCEPT ![q] = Put(@, m.src, e)]  BY <1>5, <3>2
      <4>1. /\ peers' \in [Servers -> MapOf(Nodes, PeerEntry)]
            /\ \A p \in Servers : p # q => peers'[p] = peers[p]
            /\ DOMAIN peers'[q] = DOMAIN peers[q] \cup {m.src} /\ peers'[q][m.src] = e
            /\ \A y \in DOMAIN peers[q] : y # m.src => peers'[q][y] = peers[q][y]
        <5>1. TypeOK /\ m.src \in Nodes /\ e \in PeerEntry  BY <1>2, <1>8 DEF Base
        <5> QED BY ZenonT(150), <4>0, <5>1, PeersPut
      <4> QED BY <1>10, <3>2, <4>1 DEF LastSeen
    <3> QED BY <3>1, <3>2
  <2>2. m \notin Beats(x, s)  BY <1>2, <1>10 DEF Beats
  <2>3. Beats(x, s) \subseteq net'  BY <1>4, <2>2 DEF Beats
  <2> QED BY <1>4, <2>1, <2>3, RefreshedKept DEF NextBeat
<1> QED BY <1>9, <1>10

(* A registration that arrives is accepted when the clocks agree.          *)
LEMMA RefreshedRegister ==
  ASSUME Base, TimersRun, Survivable, NEW x \in Nodes, NEW s \in Servers, Linked(x, s), Refreshed(x, s),
         NEW q \in Servers, NEW m, did_recv_REG(q, m)
  PROVE  Refreshed(x, s)'
<1>1. Receive("REG", q, m)  BY DEF did_recv_REG
<1>2. /\ m \in net /\ m.type = "REG" /\ m.dst = q /\ MessageOK(m) /\ m.src \in Nodes /\ now \in Nat
      /\ m.at \in 0 .. now /\ now <= m.at + MaxDelay
  BY <1>1, InHand
<1>3. /\ m.src \in Servers /\ m.body.key \in Keys \cup {ZeroKey}
      /\ m.body.time = (m.at + Skew[m.src] + Word) % Word
  BY <1>2, Constants DEF MessageOK
<1>4. now' = now /\ lost' = lost /\ due' = due /\ net \ {m} \subseteq net'
  BY <1>2, Taken DEF did_recv_REG
<1> DEFINE old == At(peers[q], m.src)  e == Registration(q, m, old)
<1>5. ~Rejected(q, m) => peers' = [peers EXCEPT ![q] = Put(@, m.src, e)]
  BY DEF did_recv_REG, Base, TypeOK
<1>6. peers[q] \in MapOf(Nodes, PeerEntry)  BY PeersParts DEF Base
<1>7. old \in PeerEntry  BY <1>6, AtEntry
<1> HIDE DEF old
<1>8. e \in PeerEntry /\ e.last_seen = now  BY <1>2, <1>3, <1>7, RegisteredEntry
<1> HIDE DEF e
<1>9. CASE m.body.fiber = "h_fiber" /\ q = s /\ m.src = x
  <2>1. ClocksAgree(x, s) /\ x \in Servers
    BY <1>3, <1>9, RolesAssumption DEF Linked, Registers, RolesAssumption
  <2>2. m.at = now  BY <1>2 DEF Survivable
  <2>3. ~TimeError(WallClock(s), m.body.time)  BY <1>2, <1>3, <1>9, <2>1, <2>2, AgreeingClocks
  <2>4. ~Rejected(q, m)  BY <1>9, <2>3 DEF Rejected
  <2>5. peers' = [peers EXCEPT ![s] = Put(@, x, e)]  BY <1>5, <1>9, <2>4
  <2> QED BY <1>4, <1>8, <2>5, RefreshedPut
<1>10. CASE ~(m.body.fiber = "h_fiber" /\ q = s /\ m.src = x)
  <2>1. LastSeen(x, s)' = LastSeen(x, s)
    <3>1. CASE Rejected(q, m)
      <4>1. peers' = peers  BY <3>1 DEF did_recv_REG
      <4> QED BY <4>1 DEF LastSeen
    <3>2. CASE ~Rejected(q, m)
      <4>0. peers' = [peers EXCEPT ![q] = Put(@, m.src, e)]  BY <1>5, <3>2
      <4>1. /\ peers' \in [Servers -> MapOf(Nodes, PeerEntry)]
            /\ \A p \in Servers : p # q => peers'[p] = peers[p]
            /\ DOMAIN peers'[q] = DOMAIN peers[q] \cup {m.src} /\ peers'[q][m.src] = e
            /\ \A y \in DOMAIN peers[q] : y # m.src => peers'[q][y] = peers[q][y]
        <5>1. TypeOK /\ m.src \in Nodes /\ e \in PeerEntry  BY <1>2, <1>8 DEF Base
        <5> QED BY ZenonT(150), <4>0, <5>1, PeersPut
      <4>2. m.body.fiber = "h_fiber"  BY <3>2 DEF Rejected
      <4> QED BY <1>10, <4>1, <4>2 DEF LastSeen
    <3> QED BY <3>1, <3>2
  <2>2. m \notin Beats(x, s)  BY <1>2, <1>10 DEF Beats
  <2>3. Beats(x, s) \subseteq net'  BY <1>4, <2>2 DEF Beats
  <2> QED BY <1>4, <2>1, <2>3, RefreshedKept DEF NextBeat
<1> QED BY <1>9, <1>10

(* The other handlers take other datagrams.                                *)
OtherHandler(q, m) ==
  \/ did_recv_DISCPEER(q, m) \/ did_recv_DISCCLUSTER2(q, m) \/ did_recv_LISTPEER(q, m)
  \/ did_recv_LISTPROTO(q, m) \/ did_recv_LISTCLUSTER2(q, m) \/ did_recv_DISCPROTO(q, m)

(* The handlers of neither registration nor heartbeat leave timers, lists  *)
(* and those two kinds of datagrams alone.                                 *)
LEMMA OtherHandlers ==
  ASSUME NEW q, NEW m, OtherHandler(q, m)
  PROVE  /\ m \in net /\ m.dst = q /\ m.type \notin {"HEARTBEAT", "REG"} /\ net \ {m} \subseteq net'
         /\ now' = now /\ lost' = lost /\ learned' = learned /\ due' = due /\ peers' = peers /\ skey' = skey
         /\ failed' = failed
<1>1. m \in net /\ m.dst = q /\ m.type \notin {"HEARTBEAT", "REG"}
  BY DEF OtherHandler, Receive, did_recv_DISCPEER, did_recv_DISCCLUSTER2, did_recv_LISTPEER, did_recv_LISTPROTO,
         did_recv_LISTCLUSTER2, did_recv_DISCPROTO
<1>2. \E out : Take(m, out)
  BY DEF OtherHandler, did_recv_DISCPEER, did_recv_DISCCLUSTER2, did_recv_LISTPEER, did_recv_LISTPROTO,
         did_recv_LISTCLUSTER2, did_recv_DISCPROTO
<1>3. net \ {m} \subseteq net'  BY <1>1, <1>2, Taken
<1> QED BY <1>1, <1>3 DEF OtherHandler, did_recv_DISCPEER, did_recv_DISCCLUSTER2, did_recv_LISTPEER,
         did_recv_LISTPROTO, did_recv_LISTCLUSTER2, did_recv_DISCPROTO, history

(* Each kind of step keeps a registration refreshed: another handler,      *)
LEMMA RefreshedOther ==
  ASSUME NEW x \in Nodes, NEW s \in Servers, Refreshed(x, s), NEW q, NEW m, OtherHandler(q, m)
  PROVE  Refreshed(x, s)'
<1>1. /\ m.type \notin {"HEARTBEAT", "REG"} /\ net \ {m} \subseteq net'
      /\ now' = now /\ lost' = lost /\ due' = due /\ peers' = peers
  BY OtherHandlers
<1>2. Beats(x, s) \subseteq net'  BY <1>1 DEF Beats
<1> QED BY <1>1, <1>2, RefreshedKept DEF NextBeat, LastSeen

(* A datagram that is lost gives the node another period.                  *)
LEMMA RefreshedLose ==
  ASSUME Base, TimersRun, Survivable, NEW x \in Nodes, NEW s \in Servers, Linked(x, s), Refreshed(x, s), Lose
  PROVE  Refreshed(x, s)'
<1>1. PICK m \in net : lost' = (IF Counted(m) THEN lost + 1 ELSE lost) /\ net' = net \ {m}
  BY DEF Lose
<1>2. now' = now /\ due' = due /\ peers' = peers  BY DEF Lose
<1>3. LastSeen(x, s)' = LastSeen(x, s) /\ NextBeat(x)' = NextBeat(x)  BY <1>2 DEF LastSeen, NextBeat
<1>4. /\ now \in Nat /\ s \in up /\ HeartbeatPeriod \in Nat /\ NextBeat(x) \in now .. now + HeartbeatPeriod
      /\ lost \in Nat /\ Deadline(x, s) \in Int /\ LastSeen(x, s) \in Int /\ now <= Deadline(x, s)
  BY Linking, InTime DEF Base, TypeOK
<1>5. CASE Counted(m)
  <2> DEFINE k == (lost + 1) * HeartbeatPeriod  j == (lost + 1 + 1) * HeartbeatPeriod
             D == Deadline(x, s)  b == NextBeat(x)
  <2>1. k \in Nat /\ j = k + HeartbeatPeriod  BY <1>4, Delays
  <2>2. Deadline(x, s)' = LastSeen(x, s) + j /\ D = LastSeen(x, s) + k  BY <1>1, <1>3, <1>5 DEF Deadline
  <2>3. b \in now .. now + HeartbeatPeriod /\ now <= D  BY <1>4
  <2> HIDE DEF k, j, D, b
  <2>4. b <= LastSeen(x, s) + j  BY <1>4, <2>1, <2>2, <2>3
  <2> QED BY <1>3, <2>2, <2>4 DEF Refreshed, b
<1>6. CASE ~Counted(m)
  <2>1. m \notin Beats(x, s)  BY <1>4, <1>6 DEF Beats, Counted, Survivable
  <2>2. Beats(x, s) \subseteq net'  BY <1>1, <2>1 DEF Beats
  <2> QED BY <1>1, <1>2, <1>3, <1>6, <2>2, RefreshedKept
<1> QED BY <1>5, <1>6

(* Time does not pass while a datagram is under way.                       *)
LEMMA NothingWaits ==
  ASSUME Base, Survivable, Tick
  PROVE  net = {}
<1> SUFFICES ASSUME NEW m \in net PROVE FALSE  OBVIOUS
<1>1. m.at \in 0 .. now /\ now \in Nat /\ now < m.at + MaxDelay  BY Constants DEF Base, TypeOK, Tick
<1> QED BY <1>1 DEF Survivable

(* time, which waits for the datagrams of its instant,                     *)
LEMMA RefreshedTick ==
  ASSUME Base, Survivable, NEW x \in Nodes, NEW s \in Servers, Refreshed(x, s), Tick
  PROVE  Refreshed(x, s)'
<1>1. Beats(x, s) = {}  BY NothingWaits DEF Beats
<1>2. due' = due /\ lost' = lost /\ peers' = peers  BY DEF Tick
<1>3. Deadline(x, s)' = Deadline(x, s) /\ NextBeat(x)' = NextBeat(x)  BY <1>2 DEF Deadline, LastSeen, NextBeat
<1> QED BY <1>1, <1>3 DEF Refreshed

(* Other nodes stop, start and close.                                      *)
LEMMA TimingElse ==
  ASSUME NEW n \in Nodes, NEW t \in StartOf(n), NEW q, q # n, NEW k, due' = Timing(q, k)
  PROVE  due'[<<n, t>>] = due[<<n, t>>]
BY StartedTimers DEF Timing

(* and the stop or the start of a third node.                              *)
LEMMA RefreshedStop ==
  ASSUME Base, TimersRun, NEW x \in Nodes, NEW s \in Servers, Linked(x, s), Refreshed(x, s),
         NEW q \in Nodes, q # x, q # s, Stop(q) \/ Start(q) \/ close(q)
  PROVE  Refreshed(x, s)'
<1>1. now' = now /\ lost' = lost /\ net' = net  BY DEF Stop, Start, close
<1>2. peers'[s] = peers[s]  BY DEF Stop, Start, close, Base, TypeOK
<1>3. NextBeat(x)' = NextBeat(x)  BY Linking, TimingElse DEF NextBeat, Stop, Start, close
<1>4. LastSeen(x, s)' = LastSeen(x, s)  BY <1>2 DEF LastSeen
<1>5. Beats(x, s) \subseteq net'  BY <1>1 DEF Beats
<1> QED BY <1>1, <1>3, <1>4, <1>5, RefreshedKept

(* What does not matter after a step did not matter before.                *)
LEMMA SurvivableBefore ==
  ASSUME Base, [Next]_vars, Survivable'
  PROVE  Survivable
<1>1. lost \in Nat /\ HeartbeatPeriod \in Nat /\ PeerTimeout \in Nat  BY Constants DEF Base, TypeOK
<1>2. (lost + 1) * HeartbeatPeriod <= (lost' + 1) * HeartbeatPeriod
      /\ (lost + 1) * HeartbeatPeriod \in Nat /\ (lost' + 1) * HeartbeatPeriod \in Nat
  <2>1. CASE lost' = lost  BY <1>1, <2>1, Delays
  <2>2. CASE lost' = lost + 1  BY <1>1, <2>2, Delays
  <2> QED BY <2>1, <2>2, Counters
<1> DEFINE a == (lost + 1) * HeartbeatPeriod  b == (lost' + 1) * HeartbeatPeriod
<1>3. a \in Nat /\ b \in Nat /\ a <= b /\ b <= PeerTimeout  BY <1>2 DEF Survivable
<1> HIDE DEF a, b
<1>4. a <= PeerTimeout  BY <1>1, <1>3
<1> QED BY <1>4 DEF Survivable, a

(* Two nodes that did not stop did not stop before.                        *)
LEMMA LinkedBefore ==
  ASSUME Base, TimersRun, [Next]_vars, NEW x \in Nodes, NEW s \in Servers, Linked(x, s)'
  PROVE  Linked(x, s)
<1>1. failed'[x] = Off /\ failed'[s] = Off /\ Registers(x, s) /\ s \in Nodes
  BY Constants DEF Linked, Registers, ClocksAgree
<1> QED BY <1>1, Unfailed DEF Linked

(* Every step keeps them refreshed.                                        *)
LEMMA RefreshedInductive == Base /\ TimersRun /\ AllRefreshed /\ [Next]_vars => AllRefreshed'
<1> SUFFICES ASSUME Base, TimersRun, AllRefreshed, [Next]_vars, Survivable',
                    NEW x \in Nodes, NEW s \in Servers, Linked(x, s)'
             PROVE  Refreshed(x, s)'
  BY DEF AllRefreshed
<1>1. Survivable /\ Linked(x, s) /\ Refreshed(x, s)  BY SurvivableBefore, LinkedBefore DEF AllRefreshed
<1>2. failed'[x] = Off /\ failed'[s] = Off /\ x \in up /\ s \in up  BY <1>1, Linking DEF Linked
<1>3. ASSUME NEW q \in Nodes, Stop(q) \/ Start(q) \/ close(q)  PROVE Refreshed(x, s)'
  <2>1. failed \in [Nodes -> Nat \cup {Off}] /\ now # Off /\ s \in Nodes
    BY RolesAssumption, Constants DEF Base, TypeOK, RolesAssumption
  <2>2. q # x /\ q # s  BY <1>2, <1>3, <2>1 DEF Stop, Start, close
  <2> QED BY <1>1, <1>3, <2>2, RefreshedStop
<1>4. ASSUME NEW q \in Servers, ServerStep(q)  PROVE Refreshed(x, s)'
  BY <1>1, <1>4, RefreshedServerTimer, RefreshedHeartbeat, RefreshedRegister, RefreshedOther
     DEF ServerStep, OtherHandler
<1>5. ASSUME NEW n \in Seekers, beacon_timer_cb(n)  PROVE Refreshed(x, s)'
  <2>1. now' = now /\ lost' = lost /\ peers' = peers /\ net \subseteq net'  BY <1>5 DEF beacon_timer_cb, Post
  <2>2. NextBeat(x)' = NextBeat(x)  BY <1>5 DEF beacon_timer_cb, NextBeat, Base, TypeOK
  <2>3. Beats(x, s) \subseteq net'  BY <2>1 DEF Beats
  <2>4. LastSeen(x, s)' = LastSeen(x, s)  BY <2>1 DEF LastSeen
  <2> QED BY <1>1, <2>1, <2>2, <2>3, <2>4, RefreshedKept
<1>6. ASSUME NEW n \in Seekers, SeekerStep(n) \/ close(n)  PROVE Refreshed(x, s)'
  <2>1. n \in Nodes  BY Constants
  <2> QED BY <1>1, <1>3, <1>5, <1>6, <2>1, RefreshedOther DEF SeekerStep, OtherHandler
<1>7. ASSUME Learn \/ UNCHANGED vars  PROVE Refreshed(x, s)'
  <2>1. now' = now /\ lost' = lost /\ peers' = peers /\ net' = net /\ due' = due  BY <1>7 DEF Learn, vars
  <2>2. Beats(x, s) \subseteq net'  BY <2>1 DEF Beats
  <2> QED BY <1>1, <2>1, <2>2, RefreshedKept DEF LastSeen, NextBeat
<1> QED BY <1>1, <1>3, <1>4, <1>6, <1>7, RefreshedClientTimer, RefreshedOther, RefreshedLose, RefreshedTick
        DEF Next, OtherHandler

(* At the start all timers fire.                                           *)
LEMMA RefreshedInit == Init => AllRefreshed
<1> SUFFICES ASSUME Init, NEW x \in Nodes, NEW s \in Servers, Registers(x, s)  PROVE Refreshed(x, s)
  BY DEF AllRefreshed, Linked
<1>1. "heartbeat" \in StartOf(x)  BY DEF Registers, StartOf
<1>2. NextBeat(x) = 0  BY <1>1, StartedTimers DEF Init, NextBeat
<1>3. DOMAIN peers[s] = {}  BY NoEntryMap DEF Init
<1>4. LastSeen(x, s) = -HeartbeatPeriod /\ lost = 0  BY <1>3 DEF LastSeen, Init
<1>5. Deadline(x, s) = 0  BY <1>4, Constants DEF Deadline
<1> QED BY <1>2, <1>5 DEF Refreshed

(* A relay whose entry is refreshed is listed.                             *)
LEMMA RefreshedListed == ASSUME Base, TimersRun, AllRefreshed PROVE LiveRelayListed
<1> SUFFICES ASSUME Survivable, now > lost * HeartbeatPeriod, NEW c \in Clients, NEW h \in HeartbeatAddrs[c],
                    h[2] = "h_fiber", failed[c] = Off, failed[h[1]] = Off
             PROVE  c \in DOMAIN peers[h[1]]
  BY DEF LiveRelayListed
<1>1. h \in Servers \X {"fiber", "h_fiber"}  BY DiscoveryAssumption DEF DiscoveryAssumption
<1>2. h[1] \in Servers /\ h = <<h[1], "h_fiber">> /\ c \in Nodes  BY <1>1, Constants
<1>3. Linked(c, h[1])  BY <1>2 DEF Linked, Registers
<1>4. Refreshed(c, h[1])  BY <1>2, <1>3 DEF AllRefreshed
<1>5. c \in DOMAIN peers[h[1]] \/ now <= lost * HeartbeatPeriod  BY <1>2, <1>3, <1>4, ListedOrEarly
<1>6. now \in Nat /\ lost \in Nat /\ HeartbeatPeriod \in Nat  BY Constants DEF Base, TypeOK
<1>7. lost * HeartbeatPeriod \in Nat  BY <1>6, Delays
<1> DEFINE k == lost * HeartbeatPeriod
<1>8. k \in Nat /\ now > k /\ (c \in DOMAIN peers[h[1]] \/ now <= k)  BY <1>5, <1>7
<1> HIDE DEF k
<1>9. ~(now <= k)  BY <1>6, <1>8
<1> QED BY <1>8, <1>9

(* A relay that runs is in the lists of its beacons, unless the network    *)
(* loses more of its heartbeats than the timeout allows for.               *)
THEOREM LiveRelaysListed == Spec => []LiveRelayListed
<1> QED BY BaseInit, BaseInductive, TimersInit, TimersInductive, RefreshedInit, RefreshedInductive,
           RefreshedListed, PTL DEF Spec

-----------------------------------------------------------------------------
(* AnnouncedInTime                                                         *)

(* A beacon that never stopped is known under its key, and a relay at the  *)
(* beacons it registers with alone, in the lists and on the way.           *)
KeyOK(s, key) == s \in Servers /\ failed[s] = Off => key = skey[s]
HeardOK(c, s) == c \in Clients => s \in HeardBy(c)
PageOK(m) ==
  /\ m.type = "REG" => KeyOK(m.src, m.body.key)
  /\ m.type = "LISTCLUSTER2" => \A e \in m.body : KeyOK(e[1], e[2])
  /\ m.type = "HEARTBEAT" /\ m.body.fiber = "h_fiber" => HeardOK(m.src, m.dst)
  /\ m.type = "LISTPEER" => \A e \in m.body : HeardOK(e[1], m.src)
ListOK(s) == \A p \in DOMAIN peers[s] : KeyOK(p, peers[s][p].address) /\ HeardOK(p, s)
SourcesTrue == (\A m \in net : PageOK(m)) /\ \A s \in Servers : ListOK(s)

(* A server that never stopped keeps its key.                              *)
LEMMA KeyKept ==
  ASSUME Base, TimersRun, [Next]_vars, NEW s, NEW key, KeyOK(s, key)
  PROVE  KeyOK(s, key)'
<1> SUFFICES ASSUME s \in Servers, failed'[s] = Off PROVE key = skey'[s]  BY DEF KeyOK
<1>1. s \in Nodes  BY Constants
<1>2. failed[s] = Off /\ skey'[s] = skey[s]  BY <1>1, Unfailed
<1> QED BY <1>2 DEF KeyOK
LEMMA PageKept ==
  ASSUME Base, TimersRun, [Next]_vars, NEW m, PageOK(m)
  PROVE  PageOK(m)'
<1>1. \A s, key : KeyOK(s, key) => KeyOK(s, key)'  BY KeyKept
<1> QED BY <1>1 DEF PageOK, HeardOK, HeardBy

(* A list that only loses entries stays right.                             *)
LEMMA ListKept ==
  ASSUME Base, TimersRun, [Next]_vars, NEW s \in Servers, ListOK(s),
         \A p \in DOMAIN peers'[s] : p \in DOMAIN peers[s] /\ peers'[s][p] = peers[s][p]
  PROVE  ListOK(s)'
<1>1. \A p, key : KeyOK(p, key) => KeyOK(p, key)'  BY KeyKept
<1> QED BY <1>1 DEF ListOK, HeardOK, HeardBy

(* What a step sends is true.                                              *)
LEMMA SourcesSent ==
  ASSUME Base, TimersRun, SourcesTrue, [Next]_vars, NEW o \in net'
  PROVE  PageOK(o)'
<1>1. CASE o \in net  BY <1>1, PageKept DEF SourcesTrue
<1>2. SUFFICES ASSUME o \notin net PROVE PageOK(o)  BY <1>1, PageKept
<1>3. ASSUME o.type \notin {"REG", "LISTCLUSTER2", "HEARTBEAT", "LISTPEER"}  PROVE PageOK(o)
  BY <1>3 DEF PageOK
<1>4. ASSUME NEW q \in Servers, server_timer_cb(q)  PROVE PageOK(o)
  <2>1. o.type = "REG" /\ o.src = q /\ o.body.key = skey[q]  BY <1>2, <1>4, ServerTimerSends
  <2> QED BY <2>1 DEF PageOK, KeyOK
<1>5. ASSUME NEW q \in Servers, NEW m, did_recv_DISCPEER(q, m)  PROVE PageOK(o)
  <2>1. o.type = "LISTPEER" /\ o.src = q /\ \A e \in o.body : e[1] \in DOMAIN peers[q]
    BY <1>2, <1>5, ListPeersSends DEF Listing
  <2>2. \A p \in DOMAIN peers[q] : HeardOK(p, q)  BY DEF SourcesTrue, ListOK
  <2> QED BY <2>1, <2>2 DEF PageOK
<1>6. ASSUME NEW q \in Servers, NEW m, did_recv_DISCCLUSTER2(q, m)  PROVE PageOK(o)
  <2>1. o.type = "LISTCLUSTER2" /\ \A e \in o.body : \E p \in DOMAIN peers[q] : e = <<p, peers[q][p].address>>
    BY <1>2, <1>6, ListClustersSends
  <2>2. \A p \in DOMAIN peers[q] : KeyOK(p, peers[q][p].address)  BY DEF SourcesTrue, ListOK
  <2>3. \A e \in o.body : KeyOK(e[1], e[2])  BY <2>1, <2>2
  <2> QED BY <2>1, <2>3 DEF PageOK
<1>7. ASSUME NEW n \in Clients, heartbeat_timer_cb(n)  PROVE PageOK(o)
  <2>1. o.type = "HEARTBEAT" /\ o.src = n /\ <<o.dst, o.body.fiber>> \in HeartbeatAddrs[n]
    BY <1>2, <1>7, ClientTimerSends
  <2>2. HeartbeatAddrs[n] \subseteq Servers \X {"fiber", "h_fiber"}  BY DiscoveryAssumption DEF DiscoveryAssumption
  <2>3. o.body.fiber = "h_fiber" => o.dst \in HeardBy(n)  BY <2>1, <2>2 DEF HeardBy
  <2> QED BY <2>1, <2>3 DEF PageOK, HeardOK
<1>8. ASSUME NEW n \in Seekers, beacon_timer_cb(n)  PROVE PageOK(o)  BY <1>2, <1>3, <1>8, BeaconTimerSends
<1>9. ASSUME NEW d \in Discoverers, NEW m, did_recv_LISTCLUSTER2(d, m)  PROVE PageOK(o)
  BY <1>2, <1>3, <1>9, ClustersSends
<1>10. ASSUME NEW n \in Seekers, NEW m, did_recv_LISTPEER(n, m)  PROVE PageOK(o)  BY <1>2, <1>3, <1>10, PeersSends
<1>11. ASSUME NEW n \in Servers \cup Clients, NEW m, did_recv_DISCPROTO(n, m)  PROVE PageOK(o)
  BY <1>2, <1>3, <1>11, AnswerSends
<1>12. ASSUME NEW n, NEW m,
              \/ did_recv_HEARTBEAT(n, m) \/ did_recv_REG(n, m) \/ did_recv_LISTPROTO(n, m)
              \/ Stop(n) \/ Start(n) \/ close(n) \/ Learn \/ Lose \/ Tick \/ UNCHANGED vars
       PROVE  FALSE
  BY <1>2, <1>12, NothingSent
<1> QED BY <1>4, <1>5, <1>6, <1>7, <1>8, <1>9, <1>10, <1>11, <1>12 DEF Next, ServerStep, SeekerStep

(* What a server adds to its list is true.                                 *)
LEMMA SourcesHeartbeat ==
  ASSUME Base, TimersRun, SourcesTrue, [Next]_vars, NEW s \in Servers, NEW m, did_recv_HEARTBEAT(s, m)
  PROVE  ListOK(s)'
<1>1. Receive("HEARTBEAT", s, m)  BY DEF did_recv_HEARTBEAT
<1>2. m \in net /\ m.type = "HEARTBEAT" /\ m.dst = s /\ MessageOK(m) /\ m.src \in Nodes /\ now \in Nat
  BY <1>1, InHand
<1>3. m.src \in Clients /\ m.body.key = m.src /\ m.src \notin Servers
  BY <1>2, RolesAssumption DEF MessageOK, RolesAssumption
<1>4. ListOK(s)  BY DEF SourcesTrue
<1>5. CASE m.body.fiber # "h_fiber"
  <2>1. peers' = peers  BY <1>5 DEF did_recv_HEARTBEAT
  <2> QED BY <1>4, <2>1, ListKept
<1>6. CASE m.body.fiber = "h_fiber"
  <2> DEFINE old == At(peers[s], m.src)  e == Heard(m, old)
  <2>1. peers' = [peers EXCEPT ![s] = Put(@, m.src, e)]  BY <1>6 DEF did_recv_HEARTBEAT, Base, TypeOK
  <2>2. peers[s] \in MapOf(Nodes, PeerEntry)  BY PeersParts DEF Base
  <2>3. old \in PeerEntry  BY <2>2, AtEntry
  <2> HIDE DEF old
  <2>4. e \in PeerEntry  BY <1>2, <1>3, <2>3, HeardEntry
  <2> HIDE DEF e
  <2>5. TypeOK  BY DEF Base
  <2>6. /\ peers' \in [Servers -> MapOf(Nodes, PeerEntry)]
        /\ \A q \in Servers : q # s => peers'[q] = peers[q]
        /\ DOMAIN peers'[s] = DOMAIN peers[s] \cup {m.src} /\ peers'[s][m.src] = e
        /\ \A x \in DOMAIN peers[s] : x # m.src => peers'[s][x] = peers[s][x]
    <3>1. m.src \in Nodes /\ e \in PeerEntry  BY <1>2, <2>4
    <3> QED BY ZenonT(150), <2>1, <2>5, <3>1, PeersPut
  <2>7. HeardOK(m.src, s)  BY <1>2, <1>6 DEF SourcesTrue, PageOK
  <2>8. \A p, key : KeyOK(p, key) => (p \in Servers /\ failed'[p] = Off => key = skey'[p])
    BY KeyKept DEF KeyOK
  <2>9. ASSUME NEW p \in DOMAIN peers'[s]
        PROVE  (p \in Servers /\ failed'[p] = Off => peers'[s][p].address = skey'[p]) /\ HeardOK(p, s)
    <3>1. CASE p = m.src  BY <1>3, <2>7, <3>1
    <3>2. CASE p # m.src
      <4>1. p \in DOMAIN peers[s] /\ peers'[s][p] = peers[s][p]  BY <2>6, <3>2
      <4> QED BY <1>4, <2>8, <4>1 DEF ListOK
    <3> QED BY <3>1, <3>2
  <2> QED BY <2>9 DEF ListOK, KeyOK, HeardOK, HeardBy
<1> QED BY <1>5, <1>6

(* A registration is entered with the key of its datagram.                 *)
LEMMA SourcesRegister ==
  ASSUME Base, TimersRun, SourcesTrue, [Next]_vars, NEW s \in Servers, NEW m, did_recv_REG(s, m)
  PROVE  ListOK(s)'
<1>1. Receive("REG", s, m)  BY DEF did_recv_REG
<1>2. m \in net /\ m.type = "REG" /\ m.dst = s /\ MessageOK(m) /\ m.src \in Nodes /\ now \in Nat
  BY <1>1, InHand
<1>3. m.src \in Servers /\ m.body.key \in Keys \cup {ZeroKey} /\ m.src \notin Clients
  BY <1>2, Constants, RolesAssumption DEF MessageOK, RolesAssumption
<1>4. ListOK(s)  BY DEF SourcesTrue
<1>5. CASE Rejected(s, m)
  <2>1. peers' = peers  BY <1>5 DEF did_recv_REG
  <2> QED BY <1>4, <2>1, ListKept
<1>6. CASE ~Rejected(s, m)
  <2> DEFINE old == At(peers[s], m.src)  e == Registration(s, m, old)
  <2>1. peers' = [peers EXCEPT ![s] = Put(@, m.src, e)]  BY <1>6 DEF did_recv_REG, Base, TypeOK
  <2>2. peers[s] \in MapOf(Nodes, PeerEntry)  BY PeersParts DEF Base
  <2>3. /\ old \in PeerEntry
        /\ m.src \in DOMAIN peers[s] => old = peers[s][m.src]
        /\ m.src \notin DOMAIN peers[s] => old.address = ZeroKey
    BY <2>2, AtEntry
  <2> HIDE DEF old
  <2>4. e \in PeerEntry /\ e.address = (IF m.body.key = ZeroKey THEN old.address ELSE m.body.key)
    BY <1>2, <1>3, <2>3, RegisteredEntry
  <2> HIDE DEF e
  <2>5. TypeOK  BY DEF Base
  <2>6. /\ peers' \in [Servers -> MapOf(Nodes, PeerEntry)]
        /\ \A q \in Servers : q # s => peers'[q] = peers[q]
        /\ DOMAIN peers'[s] = DOMAIN peers[s] \cup {m.src} /\ peers'[s][m.src] = e
        /\ \A x \in DOMAIN peers[s] : x # m.src => peers'[s][x] = peers[s][x]
    <3>1. m.src \in Nodes /\ e \in PeerEntry  BY <1>2, <2>4
    <3> QED BY ZenonT(150), <2>1, <2>5, <3>1, PeersPut
  <2>7. KeyOK(m.src, m.body.key)  BY <1>2 DEF SourcesTrue, PageOK
  <2>8. KeyOK(m.src, e.address)
    <3>1. CASE m.body.key # ZeroKey  BY <2>4, <2>7, <3>1
    <3>2. CASE m.body.key = ZeroKey /\ m.src \in DOMAIN peers[s]  BY <1>4, <2>3, <2>4, <3>2 DEF ListOK
    <3>3. CASE m.body.key = ZeroKey /\ m.src \notin DOMAIN peers[s]  BY <2>3, <2>4, <2>7, <3>3
    <3> QED BY <3>1, <3>2, <3>3
  <2>9. \A p, key : KeyOK(p, key) => (p \in Servers /\ failed'[p] = Off => key = skey'[p])
    BY KeyKept DEF KeyOK
  <2>10. ASSUME NEW p \in DOMAIN peers'[s]
         PROVE  (p \in Servers /\ failed'[p] = Off => peers'[s][p].address = skey'[p]) /\ HeardOK(p, s)
    <3>1. CASE p = m.src
      <4>1. HeardOK(p, s)  BY <1>3, <3>1 DEF HeardOK
      <4> QED BY <2>6, <2>8, <2>9, <3>1, <4>1
    <3>2. CASE p # m.src
      <4>1. p \in DOMAIN peers[s] /\ peers'[s][p] = peers[s][p]  BY <2>6, <3>2
      <4> QED BY <1>4, <2>9, <4>1 DEF ListOK
    <3> QED BY <3>1, <3>2
  <2> QED BY <2>10 DEF ListOK, KeyOK, HeardOK, HeardBy
<1> QED BY <1>5, <1>6

(* Every step keeps the sources true.                                      *)
LEMMA SourcesInductive == Base /\ TimersRun /\ SourcesTrue /\ [Next]_vars => SourcesTrue'
<1> SUFFICES ASSUME Base, TimersRun, SourcesTrue, [Next]_vars PROVE SourcesTrue'  OBVIOUS
<1>1. \A o \in net' : PageOK(o)'  BY SourcesSent
<1>2. ASSUME NEW s \in Servers  PROVE ListOK(s)'
  <2>1. ListOK(s)  BY DEF SourcesTrue
  <2>2. CASE peers'[s] = peers[s]  BY <2>1, <2>2, ListKept
  <2>3. ASSUME NEW q \in Servers, server_timer_cb(q)  PROVE ListOK(s)'
    <3>1. peers' = [peers EXCEPT ![q] = Only(@, DOMAIN peers[q] \ Stale_Peers(q))]
      BY <2>3 DEF server_timer_cb, Base, TypeOK
    <3>2. DOMAIN peers[q] \ Stale_Peers(q) \in SUBSET DOMAIN peers[q]  OBVIOUS
    <3>3. /\ \A p \in Servers : p # q => peers'[p] = peers[p]
          /\ DOMAIN peers'[q] = DOMAIN peers[q] \ Stale_Peers(q)
          /\ \A y \in DOMAIN peers[q] \ Stale_Peers(q) : peers'[q][y] = peers[q][y]
      BY <3>1, <3>2, PeersOnly DEF Base
    <3> QED BY <2>1, <3>3, ListKept
  <2>4. ASSUME NEW q \in Servers, NEW m, did_recv_HEARTBEAT(q, m) \/ did_recv_REG(q, m)  PROVE ListOK(s)'
    <3>1. CASE q = s  BY <2>4, <3>1, SourcesHeartbeat, SourcesRegister
    <3>2. CASE q # s
      <4>1. peers'[s] = peers[s]  BY <2>4, <3>2 DEF did_recv_HEARTBEAT, did_recv_REG, Base, TypeOK
      <4> QED BY <2>2, <4>1
    <3> QED BY <3>1, <3>2
  <2>5. ASSUME NEW q, NEW m, OtherHandler(q, m)  PROVE ListOK(s)'  BY <2>2, <2>5, OtherHandlers
  <2>6. ASSUME NEW q \in Nodes, Stop(q)  PROVE ListOK(s)'
    <3>1. peers'[s] = peers[s] \/ DOMAIN peers'[s] = {}  BY <2>6, NoEntryMap DEF Stop, Base, TypeOK
    <3> QED BY <2>1, <3>1, ListKept
  <2>7. ASSUME NEW n, beacon_timer_cb(n) \/ heartbeat_timer_cb(n) \/ close(n) \/ Start(n)
                      \/ Learn \/ Lose \/ Tick \/ UNCHANGED vars
        PROVE  ListOK(s)'
    BY <2>2, <2>7 DEF beacon_timer_cb, heartbeat_timer_cb, close, Start, Learn, Lose, Tick, vars
  <2> QED BY <2>3, <2>4, <2>5, <2>6, <2>7 DEF Next, ServerStep, SeekerStep, OtherHandler
<1> QED BY <1>1, <1>2 DEF SourcesTrue

(* Nothing is listed at first.                                             *)
LEMMA SourcesInit == Init => SourcesTrue
BY NoEntryMap DEF Init, SourcesTrue, ListOK

(* What a discoverer knows of a beacon and of a relay, and the datagrams   *)
(* that bring the relay's announcement about, each by the next.            *)
ClusterKnown(d, s) == s \in DOMAIN cluster_map[d] /\ cluster_map[d][s].address = skey[s]
RelayKnown(d, s, c) ==
  /\ ClusterKnown(d, s)
  /\ c \in DOMAIN beacon_map[d] /\ beacon_map[d][c].via = s
  /\ c \in DOMAIN node_key_map[d] /\ node_key_map[d][c] = c
Leads(d, s, c, m) ==
  \/ m.type = "DISCCLUSTER2" /\ m.src = d /\ m.dst = RAddr[s]
  \/ m.type = "LISTCLUSTER2" /\ m.dst = d /\ \E e \in m.body : e[1] = s
  \/ m.type = "DISCPEER" /\ m.src = d /\ m.dst = s /\ ClusterKnown(d, s)
  \/ m.type = "LISTPEER" /\ m.src = s /\ m.dst = d /\ ClusterKnown(d, s) /\ \E e \in m.body : e[1] = c
  \/ m.type = "DISCPROTO" /\ m.src = d /\ m.dst = c /\ RelayKnown(d, s, c)
  \/ m.type = "LISTPROTO" /\ m.src = c /\ m.dst = d /\ m.body = Protocols[c] /\ RelayKnown(d, s, c)
Pending(d, s, c) == \E m \in net : Leads(d, s, c, m)
AnnouncedFor(d, s, c) ==
  \A x \in Protocols[c] : [peer |-> c, protocol |-> x, key |-> c, cluster |-> skey[s]] \in announced[d]

(* The discoverer asks again before the limit, or has asked by then and an *)
(* answer is on its way.                                                   *)
NextQuery(d) == due[<<d, "beacon">>]
Limit == learned + (lost + 1) * BeaconPeriod
OnTime(d, s, c) ==
  \/ AnnouncedFor(d, s, c)
  \/ NextQuery(d) <= Limit
  \/ Pending(d, s, c) /\ NextQuery(d) = now + BeaconPeriod /\ now <= Limit
Discoverable(d, s, c) ==
  /\ HeardBy(c) = {s} /\ RAddr[s] \in DiscoveryAddrs[d] /\ skey[s] \in Keys /\ ClocksAgree(s, RAddr[s])
  /\ \A n \in {d, s, c, RAddr[s]} : failed[n] = Off
AllOnTime ==
  Survivable /\ learned # Off =>
    \A d \in Discoverers, s \in Servers, c \in Clients : Discoverable(d, s, c) => OnTime(d, s, c)

(* Who takes part runs, and has a timer for its part.                      *)
LEMMA Discovering ==
  ASSUME Base, TimersRun, NEW d \in Discoverers, NEW s \in Servers, NEW c \in Clients, Discoverable(d, s, c)
  PROVE  /\ {d, s, c, RAddr[s]} \subseteq up /\ RAddr[s] \in Servers /\ d # s /\ d # c /\ d # RAddr[s]
         /\ d \in Nodes /\ s \in Nodes /\ c \in Nodes /\ d \in Seekers /\ d \notin Clients
         /\ "beacon" \in StartOf(d) /\ NextQuery(d) \in now .. now + BeaconPeriod /\ NextQuery(d) \in Nat
         /\ now \in Nat /\ lost \in Nat /\ BeaconPeriod \in Nat \ {0} /\ HeartbeatPeriod \in Nat
         /\ Linked(c, s) /\ Linked(s, RAddr[s])
<1>1. d \in Nodes /\ s \in Nodes /\ c \in Nodes /\ d \in Seekers /\ RAddr[s] \in Servers
  BY Constants DEF Discoverable, Seekers
<1>2. RAddr[s] \in Nodes  BY <1>1, Constants
<1>3. \A n \in {d, s, c, RAddr[s]} : failed[n] = Off  BY DEF Discoverable
<1>4. {d, s, c, RAddr[s]} \subseteq up  BY <1>1, <1>2, <1>3 DEF TimersRun, Runs
<1>5. d # s /\ d # c /\ d # RAddr[s] /\ d \notin Clients  BY <1>1, RolesAssumption DEF RolesAssumption
<1>6. "beacon" \in StartOf(d)  BY <1>1 DEF StartOf
<1>7. now \in Nat /\ lost \in Nat /\ BeaconPeriod \in Nat \ {0} /\ HeartbeatPeriod \in Nat
  BY Constants, DiscoveryAssumption DEF Base, TypeOK, DiscoveryAssumption
<1>8. NextQuery(d) \in now .. now + Period("beacon")  BY <1>1, <1>3, <1>6 DEF TimersRun, Runs, NextQuery
<1>9. Period("beacon") = BeaconPeriod  BY DEF Period
<1>10. s \in HeardBy(c)  BY DEF Discoverable
<1>11. Linked(c, s)  BY <1>3, <1>10 DEF Linked, Registers, HeardBy
<1>12. Linked(s, RAddr[s])  BY <1>3 DEF Linked, Registers, Discoverable
<1> QED BY <1>1, <1>4, <1>5, <1>6, <1>7, <1>8, <1>9, <1>11, <1>12

(* What is not listed yet is asked for again before the limit.             *)
LEMMA AskedAgain ==
  ASSUME Base, TimersRun, learned # Off,
         NEW d \in Discoverers, NEW s \in Servers, NEW c \in Clients, Discoverable(d, s, c)
  PROVE  /\ Limit \in Nat
         /\ OnTime(d, s, c) => AnnouncedFor(d, s, c) \/ now <= Limit
         /\ now <= lost * HeartbeatPeriod => NextQuery(d) <= Limit
<1>1. /\ now \in Nat /\ lost \in Nat /\ BeaconPeriod \in Nat /\ HeartbeatPeriod \in Nat
      /\ NextQuery(d) \in now .. now + BeaconPeriod
  BY Discovering
<1>2. learned \in Nat  BY DEF Base, TypeOK
<1>3. HeartbeatPeriod <= BeaconPeriod  BY PeriodsAssumption DEF PeriodsAssumption
<1> DEFINE a == lost * HeartbeatPeriod  b == lost * BeaconPeriod  k == (lost + 1) * BeaconPeriod  q == NextQuery(d)
<1>4. a \in Nat /\ b \in Nat /\ a <= b  BY <1>1, <1>3, Delays
<1>5. k = b + BeaconPeriod /\ k \in Nat  BY <1>1, Delays
<1>6. Limit = learned + k  BY DEF Limit
<1>7. q \in now .. now + BeaconPeriod  BY <1>1
<1>8. OnTime(d, s, c) => AnnouncedFor(d, s, c) \/ q <= Limit \/ now <= Limit  BY DEF OnTime
<1> HIDE DEF a, b, k, q
<1>9. Limit \in Nat  BY <1>2, <1>5, <1>6
<1>10. q <= Limit => now <= Limit  BY <1>1, <1>7, <1>9
<1>11. now <= a => q <= Limit  BY <1>1, <1>2, <1>4, <1>5, <1>6, <1>7
<1> QED BY <1>8, <1>9, <1>10, <1>11 DEF a, q

(* A step that leaves the timer, what is announced and what is pending.    *)
LEMMA OnTimeKept ==
  ASSUME NEW d, NEW s, NEW c, OnTime(d, s, c), now' = now, lost' = lost, learned' = learned,
         NextQuery(d)' = NextQuery(d), skey'[s] = skey[s], announced[d] \subseteq announced'[d],
         Pending(d, s, c) => AnnouncedFor(d, s, c)' \/ NextQuery(d) <= Limit \/ Pending(d, s, c)'
  PROVE  OnTime(d, s, c)'
<1>1. Limit' = Limit  BY DEF Limit
<1>2. AnnouncedFor(d, s, c) => AnnouncedFor(d, s, c)'  BY DEF AnnouncedFor
<1> QED BY <1>1, <1>2 DEF OnTime

(* What is known stays known, and what leads there still does.             *)
LEMMA LeadsKept ==
  ASSUME NEW d, NEW s, NEW c, NEW m, Leads(d, s, c, m),
         ClusterKnown(d, s) => ClusterKnown(d, s)', RelayKnown(d, s, c) => RelayKnown(d, s, c)'
  PROVE  Leads(d, s, c, m)'
BY DEF Leads

(* What a discoverer knows stays with its maps.                            *)
LEMMA SameKnown ==
  ASSUME NEW d, NEW s, NEW c, skey'[s] = skey[s], cluster_map'[d] = cluster_map[d],
         beacon_map'[d] = beacon_map[d], node_key_map'[d] = node_key_map[d]
  PROVE  /\ ClusterKnown(d, s)' <=> ClusterKnown(d, s)
         /\ RelayKnown(d, s, c)' <=> RelayKnown(d, s, c)
BY DEF ClusterKnown, RelayKnown

(* A handler that takes m: if m led there, something else does now.        *)
LEMMA OnTimeHandled ==
  ASSUME Base, TimersRun, learned # Off,
         NEW d \in Discoverers, NEW s \in Servers, NEW c \in Clients, Discoverable(d, s, c), OnTime(d, s, c),
         NEW m, net \ {m} \subseteq net', now' = now, lost' = lost, learned' = learned,
         NextQuery(d)' = NextQuery(d), skey'[s] = skey[s], announced[d] \subseteq announced'[d],
         ClusterKnown(d, s) => ClusterKnown(d, s)', RelayKnown(d, s, c) => RelayKnown(d, s, c)',
         Leads(d, s, c, m) => AnnouncedFor(d, s, c)' \/ now <= lost * HeartbeatPeriod \/ Pending(d, s, c)'
  PROVE  OnTime(d, s, c)'
<1>1. ASSUME Pending(d, s, c)  PROVE AnnouncedFor(d, s, c)' \/ NextQuery(d) <= Limit \/ Pending(d, s, c)'
  <2>1. PICK o \in net : Leads(d, s, c, o)  BY <1>1 DEF Pending
  <2>2. CASE o = m  BY <2>1, <2>2, AskedAgain
  <2>3. CASE o # m
    <3>1. o \in net' /\ Leads(d, s, c, o)'  BY <2>1, <2>3, LeadsKept
    <3> QED BY <3>1 DEF Pending
  <2> QED BY <2>2, <2>3
<1> QED BY <1>1, OnTimeKept

(* The beacon lists the beacon that registered with it.                    *)
LEMMA OnTimeClusters ==
  ASSUME Base, TimersRun, Survivable, AllRefreshed, learned # Off,
         NEW d \in Discoverers, NEW s \in Servers, NEW c \in Clients, Discoverable(d, s, c), OnTime(d, s, c),
         NEW q \in Servers, NEW m, did_recv_DISCCLUSTER2(q, m)
  PROVE  OnTime(d, s, c)'
<1>1. /\ net \ {m} \subseteq net' /\ now' = now /\ lost' = lost /\ learned' = learned /\ due' = due /\ skey' = skey
      /\ m \in net /\ m.dst = q
  BY OtherHandlers DEF OtherHandler
<1>2. UNCHANGED maps  BY DEF did_recv_DISCCLUSTER2
<1>3. ClusterKnown(d, s)' <=> ClusterKnown(d, s)  BY <1>1, <1>2, SameKnown DEF maps
<1>4. RelayKnown(d, s, c)' <=> RelayKnown(d, s, c)  BY <1>1, <1>2, SameKnown DEF maps
<1>5. m.type = "DISCCLUSTER2"  BY DEF did_recv_DISCCLUSTER2, Receive
<1>6. ASSUME Leads(d, s, c, m)  PROVE now <= lost * HeartbeatPeriod \/ Pending(d, s, c)'
  <2>1. m.src = d /\ q = RAddr[s]  BY <1>1, <1>5, <1>6 DEF Leads
  <2>2. Linked(s, q) /\ s \in Nodes /\ d # s  BY <2>1, Discovering
  <2>3. Refreshed(s, q)  BY <2>2 DEF AllRefreshed
  <2>4. s \in DOMAIN peers[q] \/ now <= lost * HeartbeatPeriod  BY <2>2, <2>3, ListedOrEarly
  <2>5. ASSUME s \in DOMAIN peers[q]  PROVE Pending(d, s, c)'
    <3> DEFINE L == {<<p, peers[q][p].address>> : p \in Listing(q, d)}
               o == Message("LISTCLUSTER2", q, d, L)
    <3>1. s \in Listing(q, d)  BY <2>2, <2>5 DEF Listing
    <3>2. <<s, peers[q][s].address>> \in L  BY <3>1
    <3>3. LISTCLUSTER2(q, d) = {o}  BY <3>2 DEF LISTCLUSTER2
    <3>4. o.type = "LISTCLUSTER2" /\ o.dst = d /\ o.body = L  BY MessageParts
    <3> HIDE DEF o
    <3>5. Take(m, {o})  BY <2>1, <3>3 DEF did_recv_DISCCLUSTER2
    <3>6. o \in net'  BY <1>1, <3>5, Taken
    <3>7. \E e \in o.body : e[1] = s  BY <3>2, <3>4
    <3> HIDE DEF L
    <3>8. ASSUME NEW r \in net', r = o  PROVE Leads(d, s, c, r)'  BY <3>4, <3>7, <3>8 DEF Leads
    <3> QED BY <3>6, <3>8 DEF Pending
  <2> QED BY <2>4, <2>5
<1> QED BY <1>1, <1>2, <1>3, <1>4, <1>6, OnTimeHandled DEF NextQuery, maps

(* The discoverer asks each beacon it is told of for its relays.           *)
LEMMA OnTimeBeacons ==
  ASSUME Base, TimersRun, SourcesTrue, learned # Off,
         NEW d \in Discoverers, NEW s \in Servers, NEW c \in Clients, Discoverable(d, s, c), OnTime(d, s, c),
         NEW n \in Discoverers, NEW m, did_recv_LISTCLUSTER2(n, m)
  PROVE  OnTime(d, s, c)'
<1>1. /\ net \ {m} \subseteq net' /\ now' = now /\ lost' = lost /\ learned' = learned /\ due' = due /\ skey' = skey
      /\ m \in net /\ m.dst = n
  BY OtherHandlers DEF OtherHandler
<1>2. announced' = announced /\ beacon_map' = beacon_map /\ node_key_map' = node_key_map
  BY DEF did_recv_LISTCLUSTER2
<1>3. m.type = "LISTCLUSTER2"  BY DEF did_recv_LISTCLUSTER2, Receive
<1>4. CASE n # d
  <2>1. cluster_map'[d] = cluster_map[d]  BY <1>4, ClustersHeard
  <2>2. ~Leads(d, s, c, m)  BY <1>1, <1>3, <1>4 DEF Leads
  <2>3. ClusterKnown(d, s)' <=> ClusterKnown(d, s)  BY <1>1, <1>2, <2>1, SameKnown
  <2>4. RelayKnown(d, s, c)' <=> RelayKnown(d, s, c)  BY <1>1, <1>2, <2>1, SameKnown
  <2> QED BY <1>1, <1>2, <2>2, <2>3, <2>4, OnTimeHandled DEF NextQuery
<1>5. CASE n = d
  <2> DEFINE seen == {e[1] : e \in m.body}
             out == {Message("DISCPEER", d, b, {}) : b \in seen}
  <2>1. /\ DOMAIN cluster_map'[d] = DOMAIN cluster_map[d] \cup seen
        /\ \A b \in seen : \E e \in m.body : e[1] = b /\ cluster_map'[d][b].address = e[2]
        /\ \A b \in DOMAIN cluster_map[d] : b \notin seen => cluster_map'[d][b] = cluster_map[d][b]
    BY <1>5, ClustersHeard
  <2>2. \A e \in m.body : KeyOK(e[1], e[2])  BY <1>1, <1>3 DEF SourcesTrue, PageOK
  <2>3. failed[s] = Off  BY DEF Discoverable
  <2>4. s \in seen => ClusterKnown(d, s)'
    <3>1. ASSUME s \in seen  PROVE cluster_map'[d][s].address = skey[s]
      <4>1. PICK e \in m.body : e[1] = s /\ cluster_map'[d][s].address = e[2]  BY <2>1, <3>1
      <4> QED BY <2>2, <2>3, <4>1 DEF KeyOK
    <3> HIDE DEF seen
    <3> QED BY <1>1, <2>1, <3>1 DEF ClusterKnown
  <2>5. ClusterKnown(d, s) => ClusterKnown(d, s)'
    <3> HIDE DEF seen
    <3> QED BY <1>1, <2>1, <2>4 DEF ClusterKnown
  <2>6. RelayKnown(d, s, c) => RelayKnown(d, s, c)'  BY <1>2, <2>5 DEF RelayKnown
  <2>7. ASSUME Leads(d, s, c, m)  PROVE Pending(d, s, c)'
    <3>1. s \in seen  BY <1>3, <2>7 DEF Leads
    <3> DEFINE o == Message("DISCPEER", d, s, {})
    <3>2. o \in out  BY <3>1
    <3>3. o.type = "DISCPEER" /\ o.src = d /\ o.dst = s  BY MessageParts
    <3>4. Take(m, out)  BY <1>5 DEF did_recv_LISTCLUSTER2
    <3> HIDE DEF o, out
    <3>5. o \in net'  BY <1>1, <3>2, <3>4, Taken
    <3>6. ASSUME NEW r \in net', r = o  PROVE Leads(d, s, c, r)'  BY <2>4, <3>1, <3>3, <3>6 DEF Leads
    <3> QED BY <3>5, <3>6 DEF Pending
  <2> QED BY <1>1, <1>2, <2>5, <2>6, <2>7, OnTimeHandled DEF NextQuery
<1> QED BY <1>4, <1>5

(* The beacon lists the relay, on one of its pages.                        *)
LEMMA OnTimeRelays ==
  ASSUME Base, TimersRun, Survivable, AllRefreshed, learned # Off,
         NEW d \in Discoverers, NEW s \in Servers, NEW c \in Clients, Discoverable(d, s, c), OnTime(d, s, c),
         NEW q \in Servers, NEW m, did_recv_DISCPEER(q, m)
  PROVE  OnTime(d, s, c)'
<1>1. /\ net \ {m} \subseteq net' /\ now' = now /\ lost' = lost /\ learned' = learned /\ due' = due /\ skey' = skey
      /\ m \in net /\ m.dst = q
  BY OtherHandlers DEF OtherHandler
<1>2. UNCHANGED maps  BY DEF did_recv_DISCPEER
<1>3. ClusterKnown(d, s)' <=> ClusterKnown(d, s)  BY <1>1, <1>2, SameKnown DEF maps
<1>4. RelayKnown(d, s, c)' <=> RelayKnown(d, s, c)  BY <1>1, <1>2, SameKnown DEF maps
<1>5. m.type = "DISCPEER"  BY DEF did_recv_DISCPEER, Receive
<1>6. ASSUME Leads(d, s, c, m)  PROVE now <= lost * HeartbeatPeriod \/ Pending(d, s, c)'
  <2>1. m.src = d /\ q = s /\ ClusterKnown(d, s)  BY <1>1, <1>5, <1>6 DEF Leads
  <2>2. Linked(c, s) /\ c \in Nodes /\ d # c  BY Discovering
  <2>3. Refreshed(c, s)  BY <2>2 DEF AllRefreshed
  <2>4. c \in DOMAIN peers[s] \/ now <= lost * HeartbeatPeriod  BY <2>2, <2>3, ListedOrEarly
  <2>5. ASSUME c \in DOMAIN peers[s]  PROVE Pending(d, s, c)'
    <3> DEFINE L == {<<p, peers[s][p].key>> : p \in Listing(s, d)}  e == <<c, peers[s][c].key>>
    <3>1. c \in Listing(s, d)  BY <2>2, <2>5 DEF Listing
    <3>2. e \in L /\ e[1] = c  BY <3>1
    <3>3. PICK P \in Pages(L) : Take(m, {Message("LISTPEER", s, d, page) : page \in P})
      BY <2>1 DEF did_recv_DISCPEER
    <3> HIDE DEF L, e
    <3>4. PICK page \in P : e \in page  BY <3>2 DEF Pages
    <3> DEFINE out == {Message("LISTPEER", s, d, b) : b \in P}  o == Message("LISTPEER", s, d, page)
    <3>5. o \in out  OBVIOUS
    <3>6. o.type = "LISTPEER" /\ o.src = s /\ o.dst = d /\ o.body = page  BY MessageParts
    <3>7. Take(m, out)  BY <3>3
    <3> HIDE DEF o, out
    <3>8. o \in net'  BY <1>1, <3>5, <3>7, Taken
    <3>9. \E x \in o.body : x[1] = c  BY <3>2, <3>4, <3>6
    <3>10. ASSUME NEW r \in net', r = o  PROVE Leads(d, s, c, r)'  BY <1>3, <2>1, <3>6, <3>9, <3>10 DEF Leads
    <3> QED BY <3>8, <3>10 DEF Pending
  <2> QED BY <2>4, <2>5
<1> QED BY <1>1, <1>2, <1>3, <1>4, <1>6, OnTimeHandled DEF NextQuery, maps

(* The discoverer asks each relay it is told of for its protocols: it was  *)
(* told by the beacon the relay registers with.                            *)
LEMMA OnTimePeers ==
  ASSUME Base, TimersRun, SourcesTrue, learned # Off,
         NEW d \in Discoverers, NEW s \in Servers, NEW c \in Clients, Discoverable(d, s, c), OnTime(d, s, c),
         NEW n \in Seekers, NEW m, did_recv_LISTPEER(n, m)
  PROVE  OnTime(d, s, c)'
<1>1. /\ net \ {m} \subseteq net' /\ now' = now /\ lost' = lost /\ learned' = learned /\ due' = due /\ skey' = skey
      /\ m \in net /\ m.dst = n
  BY OtherHandlers DEF OtherHandler
<1>2. announced' = announced /\ cluster_map' = cluster_map  BY DEF did_recv_LISTPEER
<1>3. m.type = "LISTPEER" /\ MessageOK(m)  BY PeersHeard
<1>4. ClusterKnown(d, s)' <=> ClusterKnown(d, s)  BY <1>1, <1>2 DEF ClusterKnown
<1>5. CASE n # d
  <2>1. node_key_map'[d] = node_key_map[d]  BY <1>5, PeersHeard, Discovering
  <2>2. beacon_map'[d] = beacon_map[d]
    <3>1. CASE n \in Clients  BY <3>1 DEF did_recv_LISTPEER
    <3>2. CASE n \in Discoverers  BY <1>5, <3>2, BeaconsHeard
    <3> QED BY <3>1, <3>2 DEF Seekers
  <2>3. ~Leads(d, s, c, m)  BY <1>1, <1>3, <1>5 DEF Leads
  <2>4. RelayKnown(d, s, c)' <=> RelayKnown(d, s, c)  BY <1>1, <1>2, <2>1, <2>2, SameKnown
  <2> QED BY <1>1, <1>2, <1>4, <2>3, <2>4, OnTimeHandled DEF NextQuery
<1>6. CASE n = d
  <2> DEFINE seen == {e[1] : e \in m.body}
             out == {Message("DISCPROTO", d, p, {}) : p \in seen}
  <2>1. /\ DOMAIN node_key_map'[d] = DOMAIN node_key_map[d] \cup seen
        /\ \A p \in seen : \E e \in m.body : e[1] = p /\ node_key_map'[d][p] = e[2]
        /\ \A p \in DOMAIN node_key_map[d] : p \notin seen => node_key_map'[d][p] = node_key_map[d][p]
    BY <1>6, PeersHeard
  <2>2. /\ DOMAIN beacon_map'[d] = DOMAIN beacon_map[d] \cup seen
        /\ \A p \in seen : beacon_map'[d][p].via = m.src
        /\ \A p \in DOMAIN beacon_map[d] : p \notin seen => beacon_map'[d][p] = beacon_map[d][p]
    BY <1>6, BeaconsHeard
  <2>3. \A e \in m.body : (e[1] \in Clients => e[2] = e[1]) /\ HeardOK(e[1], m.src)
    BY <1>1, <1>3 DEF MessageOK, SourcesTrue, PageOK
  <2>4. c \in seen => m.src = s
    <3>1. c \in seen => m.src \in HeardBy(c)  BY <2>3 DEF HeardOK
    <3> QED BY <3>1 DEF Discoverable
  <2>5. c \in seen => node_key_map'[d][c] = c
    <3>1. ASSUME c \in seen  PROVE node_key_map'[d][c] = c
      <4>1. PICK e \in m.body : e[1] = c /\ node_key_map'[d][c] = e[2]  BY <2>1, <3>1
      <4> QED BY <2>3, <4>1
    <3> QED BY <3>1
  <2> HIDE DEF seen
  <2>6. c \in seen /\ ClusterKnown(d, s) => RelayKnown(d, s, c)'
    BY <1>4, <2>1, <2>2, <2>4, <2>5 DEF RelayKnown
  <2>7. RelayKnown(d, s, c) => RelayKnown(d, s, c)'
    BY <1>4, <2>1, <2>2, <2>6 DEF RelayKnown
  <2>8. ASSUME Leads(d, s, c, m)  PROVE Pending(d, s, c)'
    <3>1. c \in seen /\ ClusterKnown(d, s)  BY <1>3, <2>8 DEF Leads, seen
    <3> DEFINE o == Message("DISCPROTO", d, c, {})
    <3>2. o \in out  BY <3>1
    <3>3. o.type = "DISCPROTO" /\ o.src = d /\ o.dst = c  BY MessageParts
    <3>4. Take(m, out)  BY <1>6 DEF did_recv_LISTPEER, seen
    <3> HIDE DEF o, out
    <3>5. o \in net'  BY <1>1, <3>2, <3>4, Taken
    <3>6. ASSUME NEW r \in net', r = o  PROVE Leads(d, s, c, r)'  BY <2>6, <3>1, <3>3, <3>6 DEF Leads
    <3> QED BY <3>5, <3>6 DEF Pending
  <2> QED BY <1>1, <1>2, <1>4, <2>7, <2>8, OnTimeHandled DEF NextQuery
<1> QED BY <1>5, <1>6

(* The relay answers with its protocols.                                   *)
LEMMA OnTimeAnswer ==
  ASSUME Base, TimersRun, learned # Off,
         NEW d \in Discoverers, NEW s \in Servers, NEW c \in Clients, Discoverable(d, s, c), OnTime(d, s, c),
         NEW n \in Servers \cup Clients, NEW m, did_recv_DISCPROTO(n, m)
  PROVE  OnTime(d, s, c)'
<1>1. /\ net \ {m} \subseteq net' /\ now' = now /\ lost' = lost /\ learned' = learned /\ due' = due /\ skey' = skey
      /\ m \in net /\ m.dst = n
  BY OtherHandlers DEF OtherHandler
<1>2. UNCHANGED maps  BY DEF did_recv_DISCPROTO
<1>3. ClusterKnown(d, s)' <=> ClusterKnown(d, s)  BY <1>1, <1>2, SameKnown DEF maps
<1>4. RelayKnown(d, s, c)' <=> RelayKnown(d, s, c)  BY <1>1, <1>2, SameKnown DEF maps
<1>5. m.type = "DISCPROTO"  BY DEF did_recv_DISCPROTO, Receive
<1>6. ASSUME Leads(d, s, c, m)  PROVE Pending(d, s, c)'
  <2>1. m.src = d /\ n = c /\ RelayKnown(d, s, c)  BY <1>1, <1>5, <1>6 DEF Leads
  <2> DEFINE o == Message("LISTPROTO", c, d, Protocols[c])
  <2>2. LISTPROTO(c, d) = o  BY DEF LISTPROTO
  <2>3. o.type = "LISTPROTO" /\ o.src = c /\ o.dst = d /\ o.body = Protocols[c]  BY MessageParts
  <2> HIDE DEF o
  <2>4. Take(m, {o})  BY <2>1, <2>2 DEF did_recv_DISCPROTO
  <2>5. o \in net'  BY <1>1, <2>4, Taken
  <2>6. ASSUME NEW r \in net', r = o  PROVE Leads(d, s, c, r)'  BY <1>4, <2>1, <2>3, <2>6 DEF Leads
  <2> QED BY <2>5, <2>6 DEF Pending
<1> QED BY <1>1, <1>2, <1>3, <1>4, <1>6, OnTimeHandled DEF NextQuery, maps

(* An answer that names protocols leaves what the discoverer knows.        *)
LEMMA ProtocolsKept ==
  ASSUME Base, NEW d \in Discoverers, NEW m, did_recv_LISTPROTO(d, m), m.body # {}
  PROVE  /\ \A p \in DOMAIN beacon_map[d] : p \in DOMAIN beacon_map'[d] /\ beacon_map'[d][p] = beacon_map[d][p]
         /\ \A b \in DOMAIN cluster_map[d] : b \in DOMAIN cluster_map'[d] /\ cluster_map'[d][b] = cluster_map[d][b]
<1> USE DEF Base
<1>1. d \notin Clients  BY RolesAssumption DEF RolesAssumption
<1> DEFINE b == beacon_map[d]  via == Via(d, m.src)  bmap == Put(b, m.src, via)
           c == cluster_map[d]  at == At(c, via.via)  cmap == Put(c, via.via, at)
<1>2. beacon_map' = [beacon_map EXCEPT ![d] = bmap] /\ cluster_map' = [cluster_map EXCEPT ![d] = cmap]
  BY <1>1 DEF did_recv_LISTPROTO
<1>3. beacon_map'[d] = bmap /\ cluster_map'[d] = cmap
  <2> HIDE DEF bmap, cmap
  <2> QED BY <1>2 DEF TypeOK
<1>4. m.src \in DOMAIN b => via = b[m.src]  BY ViaPeer
<1>5. via.via \in DOMAIN c => at = c[via.via]  BY DEF At
<1> HIDE DEF via, at, b, c
<1>6. \A p \in DOMAIN b : p \in DOMAIN bmap /\ bmap[p] = b[p]  BY <1>4 DEF Put
<1>7. \A x \in DOMAIN c : x \in DOMAIN cmap /\ cmap[x] = c[x]  BY <1>5 DEF Put
<1> QED BY <1>3, <1>6, <1>7 DEF b, c

(* What it makes the discoverer announce of a relay it knows.              *)
LEMMA ProtocolsAnnounce ==
  ASSUME Base, learned # Off, NEW d \in Discoverers, NEW s \in Servers, NEW c \in Clients, skey[s] \in Keys,
         RelayKnown(d, s, c), NEW m, did_recv_LISTPROTO(d, m), m.src = c, m.body = Protocols[c], m.body # {}
  PROVE  \A x \in Protocols[c] : [peer |-> c, protocol |-> x, key |-> c, cluster |-> skey[s]] \in announced'[d]
<1>1. d \notin Clients /\ d \in Seekers  BY RolesAssumption DEF RolesAssumption, Seekers
<1>2. KeyOf(d, c) = c  BY DEF KeyOf, RelayKnown
<1>3. Via(d, c).via = s  BY DEF Via, RelayKnown
<1>4. At(cluster_map[d], s) = cluster_map[d][s]  BY DEF At, RelayKnown, ClusterKnown
<1>5. ClusterKey(d, c) = skey[s]  BY <1>3, <1>4 DEF ClusterKey, RelayKnown, ClusterKnown
<1>6. announced' = [announced EXCEPT ![d] = announced[d] \cup Announcements(d, m, skey[s])]
  BY <1>1, <1>5 DEF did_recv_LISTPROTO
<1>7. announced'[d] = announced[d] \cup Announcements(d, m, skey[s])  BY <1>1, <1>6 DEF Base, TypeOK
<1>8. \A x \in Protocols[c] :
        [peer |-> c, protocol |-> x, key |-> c, cluster |-> skey[s]] \in Announcements(d, m, skey[s])
  BY <1>2 DEF Announcements
<1> QED BY <1>7, <1>8

(* Nothing announced is taken back.                                        *)
LEMMA AnnouncedGrows ==
  ASSUME Base, NEW n \in Seekers, NEW m, did_recv_LISTPROTO(n, m), NEW d \in Seekers
  PROVE  announced[d] \subseteq announced'[d]
<1>1. announced \in [Seekers -> SUBSET Announcement]  BY DEF Base, TypeOK
<1>2. CASE m.body = {}  BY <1>2 DEF did_recv_LISTPROTO, maps
<1>3. CASE m.body # {} /\ n \in Clients
  <2> DEFINE A == Announcements(n, m, NoAddr)
  <2>1. announced' = [announced EXCEPT ![n] = @ \cup A]  BY <1>3 DEF did_recv_LISTPROTO
  <2> HIDE DEF A
  <2> QED BY <1>1, <2>1
<1>4. CASE m.body # {} /\ n \notin Clients
  <2> DEFINE A == Announcements(n, m, ClusterKey(n, m.src))
  <2>1. announced' = announced \/ announced' = [announced EXCEPT ![n] = @ \cup A]
    BY <1>4 DEF did_recv_LISTPROTO
  <2> HIDE DEF A
  <2> QED BY <1>1, <2>1
<1> QED BY <1>2, <1>3, <1>4

(* The discoverer announces what the relay answers.                        *)
LEMMA OnTimeProtocols ==
  ASSUME Base, TimersRun, learned # Off,
         NEW d \in Discoverers, NEW s \in Servers, NEW c \in Clients, Discoverable(d, s, c), OnTime(d, s, c),
         NEW n \in Seekers, NEW m, did_recv_LISTPROTO(n, m)
  PROVE  OnTime(d, s, c)'
<1>1. /\ net \ {m} \subseteq net' /\ now' = now /\ lost' = lost /\ learned' = learned /\ due' = due /\ skey' = skey
      /\ m \in net /\ m.dst = n
  BY OtherHandlers DEF OtherHandler
<1>2. announced[d] \subseteq announced'[d]  BY AnnouncedGrows, Discovering
<1>3. m.type = "LISTPROTO"  BY DEF did_recv_LISTPROTO, Receive
<1>4. CASE m.body = {}
  <2>1. UNCHANGED maps  BY <1>4 DEF did_recv_LISTPROTO
  <2>2. ClusterKnown(d, s)' <=> ClusterKnown(d, s)  BY <1>1, <2>1, SameKnown DEF maps
  <2>3. RelayKnown(d, s, c)' <=> RelayKnown(d, s, c)  BY <1>1, <2>1, SameKnown DEF maps
  <2>4. Leads(d, s, c, m) => AnnouncedFor(d, s, c)'  BY <1>3, <1>4 DEF Leads, AnnouncedFor
  <2> QED BY <1>1, <1>2, <2>2, <2>3, <2>4, OnTimeHandled DEF NextQuery
<1>5. CASE m.body # {} /\ n # d
  <2>1. node_key_map'[d] = node_key_map[d]  BY <1>5, ProtocolsKeys, Discovering
  <2>2. beacon_map'[d] = beacon_map[d] /\ cluster_map'[d] = cluster_map[d]
    <3>1. beacon_map \in [Discoverers -> MapOf(Nodes, BeaconEntry)]  BY DEF Base, TypeOK
    <3>2. cluster_map \in [Discoverers -> MapOf(Nodes \cup {NoAddr}, PeerEntry)]  BY DEF Base, TypeOK
    <3>3. CASE n \in Clients  BY <1>5, <3>3 DEF did_recv_LISTPROTO
    <3>4. CASE n \notin Clients
      <4> DEFINE B == Put(beacon_map[n], m.src, Via(n, m.src))
                 C == Put(cluster_map[n], Via(n, m.src).via, At(cluster_map[n], Via(n, m.src).via))
      <4>1. beacon_map' = [beacon_map EXCEPT ![n] = B] /\ cluster_map' = [cluster_map EXCEPT ![n] = C]
        BY <1>5, <3>4 DEF did_recv_LISTPROTO
      <4> HIDE DEF B, C
      <4> QED BY <1>5, <3>1, <3>2, <4>1
    <3> QED BY <3>3, <3>4
  <2>3. ~Leads(d, s, c, m)  BY <1>1, <1>3, <1>5 DEF Leads
  <2>4. ClusterKnown(d, s)' <=> ClusterKnown(d, s)  BY <1>1, <2>1, <2>2, SameKnown
  <2>5. RelayKnown(d, s, c)' <=> RelayKnown(d, s, c)  BY <1>1, <2>1, <2>2, SameKnown
  <2> QED BY <1>1, <1>2, <2>3, <2>4, <2>5, OnTimeHandled DEF NextQuery
<1>6. CASE m.body # {} /\ n = d
  <2>1. /\ DOMAIN node_key_map'[d] = DOMAIN node_key_map[d] \cup {m.src}
        /\ \A p \in DOMAIN node_key_map[d] : node_key_map'[d][p] = node_key_map[d][p]
    BY <1>6, ProtocolsKeys
  <2>2. /\ \A p \in DOMAIN beacon_map[d] : p \in DOMAIN beacon_map'[d] /\ beacon_map'[d][p] = beacon_map[d][p]
        /\ \A b \in DOMAIN cluster_map[d] : b \in DOMAIN cluster_map'[d] /\ cluster_map'[d][b] = cluster_map[d][b]
    BY <1>6, ProtocolsKept
  <2>3. ClusterKnown(d, s) => ClusterKnown(d, s)'  BY <1>1, <2>2 DEF ClusterKnown
  <2>4. RelayKnown(d, s, c) => RelayKnown(d, s, c)'  BY <2>1, <2>2, <2>3 DEF RelayKnown
  <2>5. ASSUME Leads(d, s, c, m)  PROVE AnnouncedFor(d, s, c)'
    <3>1. m.src = c /\ m.body = Protocols[c] /\ RelayKnown(d, s, c)  BY <1>3, <2>5 DEF Leads
    <3>2. skey[s] \in Keys  BY DEF Discoverable
    <3>3. \A x \in Protocols[c] : [peer |-> c, protocol |-> x, key |-> c, cluster |-> skey[s]] \in announced'[d]
      BY <1>6, <3>1, <3>2, ProtocolsAnnounce
    <3> QED BY <1>1, <3>3 DEF AnnouncedFor
  <2> QED BY <1>1, <1>2, <2>3, <2>4, <2>5, OnTimeHandled DEF NextQuery
<1> QED BY <1>4, <1>5, <1>6

(* The timer asks the beacons, and there was time left to.                 *)
LEMMA OnTimeTimer ==
  ASSUME Base, TimersRun, learned # Off,
         NEW d \in Discoverers, NEW s \in Servers, NEW c \in Clients, Discoverable(d, s, c), OnTime(d, s, c),
         NEW n \in Seekers, beacon_timer_cb(n)
  PROVE  OnTime(d, s, c)'
<1>1. /\ now' = now /\ lost' = lost /\ learned' = learned /\ skey' = skey /\ announced' = announced
      /\ node_key_map' = node_key_map /\ net \subseteq net'
  BY DEF beacon_timer_cb, Post
<1>2. <<d, "beacon">> \in Timers /\ due \in [Timers -> Nat \cup {Off}]
  BY Discovering DEF Timers, Base, TypeOK
<1>3. CASE n # d
  <2>1. NextQuery(d)' = NextQuery(d)  BY <1>2, <1>3 DEF beacon_timer_cb, NextQuery
  <2>2. cluster_map'[d] = cluster_map[d] /\ beacon_map'[d] = beacon_map[d]
    <3>1. beacon_map \in [Discoverers -> MapOf(Nodes, BeaconEntry)]  BY DEF Base, TypeOK
    <3>2. cluster_map \in [Discoverers -> MapOf(Nodes \cup {NoAddr}, PeerEntry)]  BY DEF Base, TypeOK
    <3> DEFINE B == Pruned(beacon_map[n])  C == Pruned(cluster_map[n])
    <3>3. beacon_map' = [beacon_map EXCEPT ![n] = B] /\ cluster_map' = [cluster_map EXCEPT ![n] = C]
      BY DEF beacon_timer_cb
    <3> HIDE DEF B, C
    <3> QED BY <1>3, <3>1, <3>2, <3>3
  <2>3. /\ ClusterKnown(d, s)' <=> ClusterKnown(d, s)
        /\ RelayKnown(d, s, c)' <=> RelayKnown(d, s, c)
    BY <1>1, <2>2, SameKnown
  <2>4. Pending(d, s, c) => Pending(d, s, c)'
    <3>1. ASSUME NEW m \in net, Leads(d, s, c, m)  PROVE m \in net' /\ Leads(d, s, c, m)'
      BY <1>1, <2>3, <3>1, LeadsKept
    <3> QED BY <3>1 DEF Pending
  <2> QED BY <1>1, <2>1, <2>4, OnTimeKept
<1>4. CASE n = d
  <2>1. NextQuery(d) = now /\ NextQuery(d)' = now + BeaconPeriod
    BY <1>2, <1>4 DEF beacon_timer_cb, NextQuery
  <2>2. AnnouncedFor(d, s, c) \/ now <= Limit  BY AskedAgain
  <2>3. AnnouncedFor(d, s, c) => AnnouncedFor(d, s, c)'  BY <1>1 DEF AnnouncedFor
  <2>4. Pending(d, s, c)'
    <3>1. RAddr[s] \in DiscoveryAddrs[d] /\ Query(d) = "DISCCLUSTER2"  BY Discovering DEF Discoverable, Query
    <3> DEFINE o == Message(Query(d), d, RAddr[s], {})
    <3>2. o.type = "DISCCLUSTER2" /\ o.src = d /\ o.dst = RAddr[s]  BY <3>1, MessageParts
    <3> HIDE DEF o
    <3>3. o \in net'  BY <1>4, <3>1 DEF beacon_timer_cb, Post, o
    <3>4. ASSUME NEW r \in net', r = o  PROVE Leads(d, s, c, r)'  BY <3>2, <3>4 DEF Leads
    <3> QED BY <3>3, <3>4 DEF Pending
  <2>5. Limit' = Limit  BY <1>1 DEF Limit
  <2> QED BY <1>1, <2>1, <2>2, <2>3, <2>4, <2>5 DEF OnTime
<1> QED BY <1>3, <1>4

(* A loss gives the discoverer another period.                             *)
LEMMA OnTimeLose ==
  ASSUME Base, TimersRun, Survivable, learned # Off,
         NEW d \in Discoverers, NEW s \in Servers, NEW c \in Clients, Discoverable(d, s, c), OnTime(d, s, c), Lose
  PROVE  OnTime(d, s, c)'
<1>1. PICK m \in net : lost' = (IF Counted(m) THEN lost + 1 ELSE lost) /\ net' = net \ {m}
  BY DEF Lose
<1>2. now' = now /\ due' = due /\ UNCHANGED maps /\ learned' = learned /\ skey' = skey  BY DEF Lose
<1>3. ClusterKnown(d, s)' <=> ClusterKnown(d, s)  BY <1>2, SameKnown DEF maps
<1>4. RelayKnown(d, s, c)' <=> RelayKnown(d, s, c)  BY <1>2, SameKnown DEF maps
<1>5. CASE ~Counted(m)
  <2>1. m.dst \notin up  BY <1>5 DEF Counted, Survivable
  <2>2. ~Leads(d, s, c, m)  BY <2>1, Discovering DEF Leads
  <2> QED BY <1>1, <1>2, <1>3, <1>4, <1>5, <2>2, OnTimeHandled DEF NextQuery, maps
<1>6. CASE Counted(m)
  <2>1. /\ now \in Nat /\ lost \in Nat /\ BeaconPeriod \in Nat /\ NextQuery(d) \in now .. now + BeaconPeriod
        /\ learned \in Nat
    BY Discovering DEF Base, TypeOK
  <2> DEFINE k == (lost + 1) * BeaconPeriod  j == (lost + 1 + 1) * BeaconPeriod  q == NextQuery(d)
  <2>2. k \in Nat /\ j = k + BeaconPeriod  BY <2>1, Delays
  <2>3. Limit = learned + k /\ Limit' = learned + j  BY <1>1, <1>2, <1>6 DEF Limit
  <2>4. q \in now .. now + BeaconPeriod  BY <2>1
  <2>5. AnnouncedFor(d, s, c) \/ now <= Limit  BY AskedAgain
  <2> HIDE DEF k, j, q
  <2>6. now <= Limit => q <= Limit'  BY <2>1, <2>2, <2>3, <2>4
  <2>7. AnnouncedFor(d, s, c) => AnnouncedFor(d, s, c)'  BY <1>2 DEF AnnouncedFor, maps
  <2> QED BY <1>2, <2>5, <2>6, <2>7 DEF OnTime, NextQuery, q
<1> QED BY <1>5, <1>6

(* The steps that leave the discoverer, and what leads there, alone.       *)
LEMMA OnTimeOther ==
  ASSUME Base, TimersRun,
         NEW d \in Discoverers, NEW s \in Servers, NEW c \in Clients, Discoverable(d, s, c), OnTime(d, s, c),
         now' = now, lost' = lost, learned' = learned, NextQuery(d)' = NextQuery(d), skey'[s] = skey[s],
         announced'[d] = announced[d], cluster_map'[d] = cluster_map[d], beacon_map'[d] = beacon_map[d],
         node_key_map'[d] = node_key_map[d],
         \A m \in net : m \in net' \/ m.type \in {"HEARTBEAT", "REG"}
  PROVE  OnTime(d, s, c)'
<1>1. /\ ClusterKnown(d, s)' <=> ClusterKnown(d, s)
      /\ RelayKnown(d, s, c)' <=> RelayKnown(d, s, c)
  BY SameKnown
<1>2. ASSUME NEW m \in net, Leads(d, s, c, m)  PROVE m \in net' /\ Leads(d, s, c, m)'
  <2>1. m.type \notin {"HEARTBEAT", "REG"}  BY <1>2 DEF Leads
  <2> QED BY <1>1, <1>2, <2>1, LeadsKept
<1>3. Pending(d, s, c) => Pending(d, s, c)'  BY <1>2 DEF Pending
<1> QED BY <1>3, OnTimeKept

(* The stop or the start of another node touches no map of a discoverer.   *)
LEMMA OnTimeStop ==
  ASSUME Base, TimersRun, [Next]_vars,
         NEW d \in Discoverers, NEW s \in Servers, NEW c \in Clients, Discoverable(d, s, c), OnTime(d, s, c),
         NEW q \in Nodes, q # d, skey'[s] = skey[s], Stop(q) \/ Start(q) \/ close(q)
  PROVE  OnTime(d, s, c)'
<1>1. now' = now /\ lost' = lost /\ learned' = learned /\ net' = net /\ announced' = announced
  BY DEF Stop, Start, close, maps
<1>2. NextQuery(d)' = NextQuery(d)  BY Discovering, TimingElse DEF NextQuery, Stop, Start, close
<1>3. /\ cluster_map'[d] = cluster_map[d] /\ beacon_map'[d] = beacon_map[d]
      /\ node_key_map'[d] = node_key_map[d]
  <2>1. d \in Seekers  BY Discovering
  <2> QED BY <2>1 DEF Stop, Start, close, maps, Base, TypeOK
<1> QED BY <1>1, <1>2, <1>3, OnTimeOther

(* Who can be discovered could be before, under the same key.              *)
LEMMA DiscoverableBefore ==
  ASSUME Base, TimersRun, [Next]_vars,
         NEW d \in Discoverers, NEW s \in Servers, NEW c \in Clients, Discoverable(d, s, c)'
  PROVE  Discoverable(d, s, c) /\ skey'[s] = skey[s] /\ failed'[d] = Off
<1>1. \A n \in {d, s, c, RAddr[s]} : failed'[n] = Off  BY DEF Discoverable
<1>2. {d, s, c, RAddr[s]} \subseteq Nodes
  <2>1. d \in Seekers /\ RAddr[s] \in DiscoveryAddrs[d]  BY DEF Discoverable, Seekers
  <2>2. RAddr[s] \in Servers  BY <2>1, Constants
  <2> QED BY <2>2, Constants
<1>3. \A n \in {d, s, c, RAddr[s]} : failed[n] = Off  BY <1>1, <1>2, Unfailed
<1>4. skey'[s] = skey[s]  BY <1>1, <1>2, Unfailed
<1> QED BY <1>1, <1>3, <1>4 DEF Discoverable, HeardBy, ClocksAgree

(* Every step keeps the discoverers on time.                               *)
LEMMA OnTimeInductive ==
  Base /\ TimersRun /\ SourcesTrue /\ AllRefreshed /\ AllOnTime /\ [Next]_vars => AllOnTime'
<1> SUFFICES ASSUME Base, TimersRun, SourcesTrue, AllRefreshed, AllOnTime, [Next]_vars,
                    Survivable', learned' # Off,
                    NEW d \in Discoverers, NEW s \in Servers, NEW c \in Clients, Discoverable(d, s, c)'
             PROVE  OnTime(d, s, c)'
  BY DEF AllOnTime
<1>1. Survivable /\ Discoverable(d, s, c) /\ skey'[s] = skey[s] /\ failed'[d] = Off
  BY SurvivableBefore, DiscoverableBefore
<1>2. CASE learned = Off
  <2>1. Learn  BY <1>2, Counters
  <2>2. learned' = now /\ lost' = lost /\ due' = due  BY <2>1 DEF Learn
  <2>3. /\ now \in Nat /\ lost \in Nat /\ BeaconPeriod \in Nat /\ NextQuery(d) \in now .. now + BeaconPeriod
    BY <1>1, Discovering
  <2> DEFINE k == (lost + 1) * BeaconPeriod  q == NextQuery(d)
  <2>4. k \in Nat /\ BeaconPeriod <= k /\ q \in now .. now + BeaconPeriod  BY <2>3, Delays
  <2>5. Limit' = now + k  BY <2>2 DEF Limit
  <2> HIDE DEF k, q
  <2>6. q <= Limit'  BY <2>3, <2>4, <2>5
  <2> QED BY <2>2, <2>6 DEF OnTime, NextQuery, q
<1>3. CASE learned # Off
  <2>1. OnTime(d, s, c)  BY <1>1, <1>3 DEF AllOnTime
  <2>2. ASSUME NEW q \in Nodes, Stop(q) \/ Start(q) \/ close(q)  PROVE OnTime(d, s, c)'
    <3>1. failed \in [Nodes -> Nat \cup {Off}] /\ now # Off
      BY Constants, RolesAssumption DEF Base, TypeOK, RolesAssumption
    <3>2. d \in Nodes /\ d \in up  BY <1>1, Discovering
    <3>3. q # d  BY <1>1, <2>2, <3>1, <3>2 DEF Stop, Start, close
    <3> QED BY <1>1, <2>1, <2>2, <3>3, OnTimeStop
  <2>3. ASSUME NEW q \in Servers, server_timer_cb(q)  PROVE OnTime(d, s, c)'
    <3>1. d # q  BY RolesAssumption DEF RolesAssumption
    <3>2. NextQuery(d)' = NextQuery(d)  BY <2>3 DEF server_timer_cb, NextQuery, Base, TypeOK
    <3> QED BY <1>1, <2>1, <2>3, <3>2, OnTimeOther DEF server_timer_cb, Post, maps
  <2>4. ASSUME NEW q \in Servers, NEW m, did_recv_HEARTBEAT(q, m) \/ did_recv_REG(q, m)  PROVE OnTime(d, s, c)'
    <3>1. m \in net /\ m.type \in {"HEARTBEAT", "REG"}  BY <2>4 DEF did_recv_HEARTBEAT, did_recv_REG, Receive
    <3>2. net \ {m} \subseteq net'  BY <2>4, <3>1, Taken DEF did_recv_HEARTBEAT, did_recv_REG
    <3>3. /\ now' = now /\ lost' = lost /\ learned' = learned /\ due' = due /\ UNCHANGED maps
      BY <2>4 DEF did_recv_HEARTBEAT, did_recv_REG
    <3>4. NextQuery(d)' = NextQuery(d)  BY <3>3 DEF NextQuery
    <3>5. \A o \in net : o \in net' \/ o.type \in {"HEARTBEAT", "REG"}  BY <3>1, <3>2
    <3> QED BY <1>1, <2>1, <3>3, <3>4, <3>5, OnTimeOther DEF maps
  <2>5. ASSUME NEW q \in Servers, ServerStep(q)  PROVE OnTime(d, s, c)'
    BY <1>1, <1>3, <2>1, <2>3, <2>4, <2>5, OnTimeRelays, OnTimeClusters DEF ServerStep
  <2>6. ASSUME NEW n \in Seekers, SeekerStep(n) \/ close(n)  PROVE OnTime(d, s, c)'
    <3>1. n \in Nodes  BY Constants
    <3> QED BY <1>1, <1>3, <2>1, <2>2, <2>6, <3>1, OnTimeTimer, OnTimePeers, OnTimeProtocols DEF SeekerStep
  <2>7. ASSUME NEW n \in Clients, heartbeat_timer_cb(n)  PROVE OnTime(d, s, c)'
    <3>1. NextQuery(d)' = NextQuery(d)  BY <2>7 DEF heartbeat_timer_cb, NextQuery, Base, TypeOK
    <3> QED BY <1>1, <2>1, <2>7, <3>1, OnTimeOther DEF heartbeat_timer_cb, Post, maps
  <2>8. CASE Tick
    <3>1. net = {}  BY <1>1, <2>8, NothingWaits
    <3>2. /\ due' = due /\ lost' = lost /\ learned' = learned /\ UNCHANGED maps  BY <2>8 DEF Tick
    <3>3. ~Pending(d, s, c)  BY <3>1 DEF Pending
    <3>4. Limit' = Limit /\ NextQuery(d)' = NextQuery(d)  BY <3>2 DEF Limit, NextQuery
    <3>5. AnnouncedFor(d, s, c)' <=> AnnouncedFor(d, s, c)  BY <1>1, <3>2 DEF AnnouncedFor, maps
    <3> QED BY <2>1, <3>3, <3>4, <3>5 DEF OnTime
  <2>9. CASE UNCHANGED vars
    <3>1. NextQuery(d)' = NextQuery(d)  BY <2>9 DEF NextQuery, vars
    <3> QED BY <1>1, <2>1, <2>9, <3>1, OnTimeOther DEF vars, maps
  <2>10. ~Learn  BY <1>3 DEF Learn
  <2> QED BY <1>1, <1>3, <2>1, <2>2, <2>5, <2>6, <2>7, <2>8, <2>9, <2>10, OnTimeBeacons, OnTimeAnswer, OnTimeLose
          DEF Next
<1> QED BY <1>2, <1>3

(* Nothing is due before a cluster is known.                               *)
LEMMA OnTimeInit == Init => AllOnTime
BY DEF Init, AllOnTime

(* Whoever is on time has announced the relay when the limit has passed.   *)
LEMMA OnTimeAnnounced == ASSUME Base, TimersRun, AllOnTime PROVE AnnouncedInTime
<1> SUFFICES ASSUME Survivable, learned # Off,
                    NEW d \in Discoverers, NEW s \in Servers, NEW c \in Clients, Discoverable(d, s, c),
                    now > learned + (lost + 1) * BeaconPeriod
             PROVE  AnnouncedFor(d, s, c)
  BY DEF AnnouncedInTime, Discoverable, AnnouncedFor
<1>1. OnTime(d, s, c)  BY DEF AllOnTime
<1>2. AnnouncedFor(d, s, c) \/ now <= Limit  BY <1>1, AskedAgain
<1>3. now > Limit /\ Limit \in Nat /\ now \in Nat  BY AskedAgain, Discovering DEF Limit
<1>4. ~(now <= Limit)  BY <1>3
<1> QED BY <1>2, <1>4

(* A relay that runs is announced by the discoverers within a period of    *)
(* the time they know its cluster, and one more for each datagram lost.    *)
THEOREM AnnouncedInTimeAlways == Spec => []AnnouncedInTime
<1> QED BY BaseInit, BaseInductive, TimersInit, TimersInductive, SourcesInit, SourcesInductive,
           RefreshedInit, RefreshedInductive, OnTimeInit, OnTimeInductive, OnTimeAnnounced, PTL DEF Spec
=============================================================================
