----------------------------- MODULE Node_proofs ----------------------------
(***************************************************************************)
(* Proofs of the safety of what a node keeps and of what reads and writes  *)
(* its bytes.                                                              *)
(*                                                                         *)
(* PubSubConns, for any finite set of nodes, any clusters, beacons,        *)
(* acceptors, limits and number of channels.  What a handler does to the   *)
(* lists of a node is a turn of one cluster (Turned) or of each of them    *)
(* (Handled): whatever it does, a peer whose standing changed is told, and *)
(* the last thing it is told is its standing.  The queue then ends with    *)
(* the standing of the peer, and once it is empty the peer knows (Agreed). *)
(* An end of a connection that is gone, or not there yet, is in no list,   *)
(* so a new connection starts from nothing.                                *)
(*                                                                         *)
(* Sockets, for any addresses and any number of handles, transports and    *)
(* sends.  Transports are numbered as they are made, so a number is the    *)
(* name of one transport for ever.  What is left is to tie every pointer   *)
(* to that number: the data of a handle, the owner of a write or of a send.*)
(*                                                                         *)
(* LpfBuffer, for any messages and any way of cutting them.  Every byte of *)
(* the stream belongs to one message, so the place read and the message in *)
(* hand say what the buffer holds: as much of the length as there is of    *)
(* the prefix, or as many bytes of the message as its size.                *)
(*                                                                         *)
(* Onramp, for any blocks, messages and chunks.  What is in the buffer of  *)
(* a connection followed by what is unread is the first message, or a      *)
(* chain of headers and frames that begins with the next one due; and the  *)
(* header kept, and each one of those to come, is that of the block whose  *)
(* bodies are read next.                                                   *)
(***************************************************************************)
EXTENDS PubSubConns, LpfBuffer, Sockets, Onramp, FiniteSetTheorems, SequenceTheorems, WellFoundedInduction, TLAPS

-----------------------------------------------------------------------------
(* The lists of connections                                                *)

Messages == {"SUBSCRIBE", "UNSUBSCRIBE"}
Unsettled == {"Up", "Closing"}
LastOf(s) == s[Len(s)]

(* A cluster's lists at node n: within their limit, disjoint, and of peers *)
(* discovered in that cluster.                                             *)
ClusterOK(n, key, cl) ==
  /\ cl \in Connections(n)
  /\ cl.sol_conns \cap cl.sol_standby_conns = {}
  /\ \A m \in cl.sol_conns \cup cl.sol_standby_conns : key = ClientKey[m]
ListsOK(n, c) ==
  /\ c = [conn_map |-> c.conn_map, unsol_conns |-> c.unsol_conns,
          dangling |-> c.dangling, blacklist_addr |-> {}]
  /\ c.conn_map = [key \in DOMAIN c.conn_map |-> c.conn_map[key]]
  /\ DOMAIN c.conn_map \subseteq ClientKeys
  /\ \A key \in DOMAIN c.conn_map : ClusterOK(n, key, c.conn_map[key])
  /\ c.unsol_conns \subseteq Nodes /\ c.dangling \in Nat /\ Unsol(c) <= MaxUnsol[n]

Sol(c, m) == \E key \in DOMAIN c.conn_map : m \in c.conn_map[key].sol_conns
Listed(c, m) ==
  \E key \in DOMAIN c.conn_map : m \in c.conn_map[key].sol_conns \cup c.conn_map[key].sol_standby_conns

News(sol) == IF sol THEN "SUBSCRIBE" ELSE "UNSUBSCRIBE"

(* What m knows of n, and will once it has read the queue.                 *)
Agreed(C, Q, n, m) ==
  /\ <<m, n>> \in Discovers \/ m \in Acceptors
  /\ Q[n][m] = <<>> /\ Sol(C[n], m) /\ <<m, n>> \notin Discovers => n \in C[m].unsol_conns
  /\ Q[n][m] = <<>> /\ ~Sol(C[n], m) => n \notin C[m].unsol_conns
  /\ Q[n][m] # <<>> => LastOf(Q[n][m]) = News(Sol(C[n], m))

PairOK(C, L, Q, n, m) ==
  /\ L[n][m] = "Dialing" => <<n, m>> \in Discovers
  /\ Listed(C[n], m) => L[n][m] \in Unsettled /\ <<n, m>> \in Discovers
  /\ m \in C[n].unsol_conns => L[n][m] \in Unsettled
  /\ n = m => L[n][m] = "None"
  /\ L[n][m] = "Up" /\ L[m][n] = "Up" => Agreed(C, Q, n, m)

InvOf(C, L, Q) ==
  /\ C = [n \in Nodes |-> C[n]] /\ \A n \in Nodes : ListsOK(n, C[n])
  /\ L \in [Nodes -> [Nodes -> LinkStates]]
  /\ Q \in [Nodes -> [Nodes -> Seq(Messages)]]
  /\ \A n, m \in Nodes : PairOK(C, L, Q, n, m)

ConnsInv == InvOf(conns, link, queue) /\ closes \in 0 .. MaxCloses

-----------------------------------------------------------------------------
(* One cluster's turn                                                      *)

Both(cl) == cl.sol_conns \cup cl.sol_standby_conns

(* The lists with cluster key replaced, and Off no subscribers any more.   *)
Put(c, key, new, Off) ==
  [conn_map |-> [k \in DOMAIN c.conn_map \cup {key} |-> IF k = key THEN new ELSE c.conn_map[k]],
   unsol_conns |-> c.unsol_conns \ Off, dangling |-> c.dangling, blacklist_addr |-> {}]

(* Every peer but those of Out is told last what became of it.             *)
Told(old, new, said, Out) ==
  /\ said \in [Nodes -> Seq(Messages)]
  /\ \A p \in Nodes \ Out :
       /\ said[p] = <<>> => (p \in new.sol_conns <=> p \in old.sol_conns)
       /\ said[p] # <<>> => LastOf(said[p]) = News(p \in new.sol_conns)

(* Nobody is told anything on account of another cluster than its own.     *)
Within(key, said) == \A p \in Nodes : ClientKey[p] # key => said[p] = <<>>

(* o is what becomes of cluster key of c when In come and Out leave.       *)
Becomes(n, key, c, o, In, Out, new, Off) ==
  /\ o.conns = Put(c, key, new, Off)
  /\ ClusterOK(n, key, new)
  /\ Both(new) = (Both(Conns(c, key)) \cup In) \ Out
  /\ Off \subseteq Both(new) \cup Out
  /\ Told(Conns(c, key), new, o.sent, Out) /\ Within(key, o.sent)
Turned(n, key, c, o, In, Out) == \E new, Off : Becomes(n, key, c, o, In, Out, new, Off)

LEMMA ClusterMade ==
  ASSUME NEW n \in Nodes, NEW c, ListsOK(n, c), NEW key
  PROVE  ClusterOK(n, key, Conns(c, key))
<1>. DEFINE none == [sol_conns |-> {}, sol_standby_conns |-> {}]
<1>1. Cardinality({}) = 0 /\ MaxSol[n] \in Nat
  BY FS_EmptySet, ConnsAssumption DEF ConnsAssumption
<1>2. ClusterOK(n, key, none)
  BY <1>1 DEF ClusterOK, Connections
<1>3. CASE key \in DOMAIN c.conn_map
  BY <1>3 DEF ListsOK, Conns
<1> QED BY <1>2, <1>3 DEF Conns

LEMMA ToldNothing ==
  ASSUME NEW old, NEW new, NEW Out, old.sol_conns = new.sol_conns
  PROVE  Told(old, new, Silence, Out)
BY DEF Told, Silence

LEMMA ToldOne ==
  ASSUME NEW old, NEW new, NEW m \in Nodes, NEW type \in Messages,
         type = News(m \in new.sol_conns), old.sol_conns \ {m} = new.sol_conns \ {m}
  PROVE  Told(old, new, OnEveryChannel(m, type), {})
<1>. DEFINE s == [i \in 1 .. Channels |-> type]
            q == OnEveryChannel(m, type)
<1>1. Channels \in Nat \ {0}
  BY ConnsAssumption DEF ConnsAssumption
<1>2. s \in Seq(Messages) /\ Len(s) = Channels /\ s # <<>> /\ s[Len(s)] = type
  BY <1>1
<1>3. q = [p \in Nodes |-> IF p = m THEN s ELSE <<>>]
  BY DEF OnEveryChannel, Silence
<1>. HIDE DEF s, q
<1>4. q \in [Nodes -> Seq(Messages)]
  BY <1>2, <1>3
<1>5. ASSUME NEW p \in Nodes
      PROVE  /\ q[p] = <<>> => (p \in new.sol_conns <=> p \in old.sol_conns)
             /\ q[p] # <<>> => LastOf(q[p]) = News(p \in new.sol_conns)
  <2>1. CASE p = m
    BY <1>2, <1>3, <2>1 DEF LastOf
  <2>2. CASE p # m
    BY <1>3, <2>2
  <2> QED BY <2>1, <2>2
<1> QED BY <1>4, <1>5 DEF Told, q

LEMMA WithinOne ==
  /\ \A key : Within(key, Silence)
  /\ \A m, type : Within(ClientKey[m], OnEveryChannel(m, type))
<1>1. ASSUME NEW m, NEW type, NEW p \in Nodes, ClientKey[p] # ClientKey[m]
      PROVE  OnEveryChannel(m, type)[p] = <<>>
  <2>1. p # m
    BY <1>1
  <2> QED BY <2>1 DEF OnEveryChannel, Silence
<1> QED BY <1>1 DEF Within, Silence

Without(d, m) == [d EXCEPT !.unsol_conns = @ \ {m}]

LEMMA PutIs ==
  ASSUME NEW n \in Nodes, NEW c, ListsOK(n, c), NEW key, NEW new, NEW m
  PROVE  Without(WithConns(c, key, new), m) = Put(c, key, new, {m})
<1>1. PICK a, u, d : c = [conn_map |-> a, unsol_conns |-> u, dangling |-> d, blacklist_addr |-> {}]
  BY DEF ListsOK
<1>. DEFINE b == [k \in DOMAIN a \cup {key} |-> IF k = key THEN new ELSE a[k]]
<1>2. WithConns(c, key, new) = [conn_map |-> b, unsol_conns |-> u, dangling |-> d, blacklist_addr |-> {}]
  BY <1>1 DEF WithConns
<1>3. Put(c, key, new, {m}) = [conn_map |-> b, unsol_conns |-> u \ {m}, dangling |-> d, blacklist_addr |-> {}]
  BY <1>1 DEF Put
<1>. HIDE DEF b
<1> QED BY <1>2, <1>3 DEF Without

LEMMA AddStandby ==
  ASSUME NEW n \in Nodes, NEW c, ListsOK(n, c), NEW m \in Nodes, NEW key, key = ClientKey[m]
  PROVE  Turned(n, key, c, Outcome(add_sol_standby_conn(c, key, m), Silence), {m}, {})
<1>. DEFINE old == Conns(c, key)
            new == IF m \in old.sol_conns THEN old
                   ELSE [old EXCEPT !.sol_standby_conns = @ \cup {m}]
            o == Outcome(add_sol_standby_conn(c, key, m), Silence)
<1>1. ClusterOK(n, key, old)
  BY ClusterMade
<1>2. o.conns = Put(c, key, new, {m}) /\ o.sent = Silence
  <2>1. o.conns = [WithConns(c, key, new) EXCEPT !.unsol_conns = @ \ {m}] /\ o.sent = Silence
    BY DEF add_sol_standby_conn, Outcome
  <2>. HIDE DEF new, o
  <2>2. Without(WithConns(c, key, new), m) = Put(c, key, new, {m})
    BY PutIs
  <2> QED BY <2>1, <2>2 DEF Without
<1>. HIDE DEF old, o
<1>3. PICK a, b : old = [sol_conns |-> a, sol_standby_conns |-> b]
  BY <1>1 DEF ClusterOK, Connections
<1>4. new = [sol_conns |-> a, sol_standby_conns |-> IF m \in a THEN b ELSE b \cup {m}]
  BY <1>3
<1>. HIDE DEF new
<1>5. ClusterOK(n, key, new)
  BY <1>1, <1>3, <1>4 DEF ClusterOK, Connections
<1>6. Both(new) = (Both(old) \cup {m}) \ {} /\ {m} \subseteq Both(new) \cup {}
  BY <1>3, <1>4 DEF Both
<1>7. Told(old, new, o.sent, {})
  BY <1>2, <1>3, <1>4, ToldNothing
<1>8. Becomes(n, key, c, o, {m}, {}, new, {m})
  BY <1>2, <1>5, <1>6, <1>7, WithinOne DEF Becomes, old
<1> QED BY <1>8 DEF Turned, o

LEMMA AddSol ==
  ASSUME NEW n \in Nodes, NEW c, ListsOK(n, c), NEW m \in Nodes, NEW key, key = ClientKey[m]
  PROVE  Turned(n, key, c, add_sol_conn(n, c, key, m), {m}, {})
<1>. DEFINE old == Conns(c, key)
            new == [sol_conns |-> old.sol_conns \cup {m},
                    sol_standby_conns |-> old.sol_standby_conns \ {m}]
            o == add_sol_conn(n, c, key, m)
<1>1. ClusterOK(n, key, old)
  BY ClusterMade
<1>2. CASE Cardinality(old.sol_conns) >= MaxSol[n]
  <2>1. o = Outcome(add_sol_standby_conn(c, key, m), Silence)
    BY <1>2 DEF add_sol_conn
  <2> QED BY <2>1, AddStandby
<1>3. CASE ~(Cardinality(old.sol_conns) >= MaxSol[n])
  <2>1. o.conns = Put(c, key, new, {m})
    <3>1. o.conns = [WithConns(c, key, new) EXCEPT !.unsol_conns = @ \ {m}]
      BY <1>3 DEF add_sol_conn, Outcome
    <3>. HIDE DEF new, o
    <3>2. Without(WithConns(c, key, new), m) = Put(c, key, new, {m})
      BY PutIs
    <3> QED BY <3>1, <3>2 DEF Without
  <2>2. o.sent = IF m \in old.sol_conns THEN Silence ELSE OnEveryChannel(m, "SUBSCRIBE")
    BY <1>3 DEF add_sol_conn, Outcome
  <2>. HIDE DEF old, o
  <2>3. old.sol_conns \in SUBSET Nodes /\ old.sol_standby_conns \in SUBSET Nodes
    BY <1>1 DEF ClusterOK, Connections
  <2>4. Cardinality(old.sol_conns \cup {m}) <= MaxSol[n]
    <3>1. IsFiniteSet(old.sol_conns) /\ MaxSol[n] \in Nat
      BY <2>3, FS_Subset, ConnsAssumption DEF ConnsAssumption
    <3>2. Cardinality(old.sol_conns) \in Nat
      BY <3>1, FS_CardinalityType
    <3>3. Cardinality(old.sol_conns \cup {m}) = IF m \in old.sol_conns THEN Cardinality(old.sol_conns) ELSE Cardinality(old.sol_conns) + 1
      BY <3>1, FS_AddElement
    <3> QED BY <1>3, <3>1, <3>2, <3>3
  <2>5. new.sol_conns = old.sol_conns \cup {m} /\ new.sol_standby_conns = old.sol_standby_conns \ {m}
        /\ new \in [sol_conns : {sol \in SUBSET Nodes : Cardinality(sol) <= MaxSol[n]}, sol_standby_conns : SUBSET Nodes]
    BY <2>3, <2>4
  <2>. HIDE DEF new
  <2>6. ClusterOK(n, key, new)
    BY <1>1, <2>5 DEF ClusterOK, Connections
  <2>7. Both(new) = (Both(old) \cup {m}) \ {} /\ {m} \subseteq Both(new) \cup {}
    BY <2>5 DEF Both
  <2>8. Told(old, new, o.sent, {})
    <3>1. CASE m \in old.sol_conns
      BY <2>2, <2>5, <3>1, ToldNothing
    <3>2. CASE m \notin old.sol_conns
      <4>1. "SUBSCRIBE" \in Messages /\ "SUBSCRIBE" = News(m \in new.sol_conns)
        BY <2>5 DEF Messages, News
      <4>2. old.sol_conns \ {m} = new.sol_conns \ {m}
        BY <2>5
      <4> QED BY <2>2, <3>2, <4>1, <4>2, ToldOne
    <3> QED BY <3>1, <3>2
  <2>9. Becomes(n, key, c, o, {m}, {}, new, {m})
    <3>1. Within(key, o.sent)
      BY <2>2, WithinOne
    <3> QED BY <2>1, <2>6, <2>7, <2>8, <3>1 DEF Becomes, old
  <2> QED BY <2>9 DEF Turned, o
<1> QED BY <1>2, <1>3

-----------------------------------------------------------------------------
(* A turn leaves the lists well-formed, and turns of a cluster follow      *)
(* each other.                                                             *)

LEMMA FewerSubscribers ==
  ASSUME NEW n \in Nodes, NEW c, ListsOK(n, c), NEW U, U \subseteq c.unsol_conns
  PROVE  /\ U \subseteq Nodes /\ Cardinality(U) \in Nat
         /\ Cardinality(U) <= Cardinality(c.unsol_conns)
         /\ Cardinality(U) + c.dangling <= MaxUnsol[n]
<1>1. IsFiniteSet(Nodes) /\ MaxUnsol[n] \in Nat
  BY ConnsAssumption DEF ConnsAssumption
<1>2. c.unsol_conns \subseteq Nodes /\ c.dangling \in Nat
      /\ Cardinality(c.unsol_conns) + c.dangling <= MaxUnsol[n]
  BY DEF ListsOK, Unsol
<1>3. IsFiniteSet(c.unsol_conns)
  BY <1>1, <1>2, FS_Subset
<1>4. Cardinality(c.unsol_conns) \in Nat
  BY <1>3, FS_CardinalityType
<1>5. IsFiniteSet(U) /\ Cardinality(U) <= Cardinality(c.unsol_conns)
  BY <1>3, FS_Subset
<1>6. Cardinality(U) \in Nat
  BY <1>5, FS_CardinalityType
<1> QED BY <1>1, <1>2, <1>4, <1>5, <1>6

LEMMA ListsKept ==
  ASSUME NEW n \in Nodes, NEW c, ListsOK(n, c), NEW key \in ClientKeys, NEW d, NEW new, NEW Off,
         d = Put(c, key, new, Off), ClusterOK(n, key, new)
  PROVE  ListsOK(n, d)
<1>. DEFINE b == [k \in DOMAIN c.conn_map \cup {key} |-> IF k = key THEN new ELSE c.conn_map[k]]
            u == c.unsol_conns \ Off
<1>1. d = [conn_map |-> b, unsol_conns |-> u, dangling |-> c.dangling, blacklist_addr |-> {}]
  BY DEF Put
<1>2. DOMAIN b = DOMAIN c.conn_map \cup {key} /\ DOMAIN b \subseteq ClientKeys
  BY DEF ListsOK
<1>3. \A k \in DOMAIN b : ClusterOK(n, k, b[k])
  BY <1>2 DEF ListsOK
<1>4. u \subseteq Nodes /\ Cardinality(u) + c.dangling <= MaxUnsol[n]
  BY FewerSubscribers
<1>5. b = [k \in DOMAIN b |-> b[k]]
  OBVIOUS
<1>6. c.dangling \in Nat
  BY DEF ListsOK
<1>. HIDE DEF b, u
<1>7. d.conn_map = b /\ d.unsol_conns = u /\ d.dangling = c.dangling /\ d.blacklist_addr = {}
  BY <1>1
<1> QED BY <1>1, <1>2, <1>3, <1>4, <1>5, <1>6, <1>7 DEF ListsOK, Unsol

LEMMA TurnKept ==
  ASSUME NEW n \in Nodes, NEW c, ListsOK(n, c), NEW key \in ClientKeys, NEW o, NEW In, NEW Out,
         Turned(n, key, c, o, In, Out)
  PROVE  ListsOK(n, o.conns) /\ o.sent \in [Nodes -> Seq(Messages)]
<1>1. PICK new, Off : Becomes(n, key, c, o, In, Out, new, Off)
  BY DEF Turned
<1>2. o.conns = Put(c, key, new, Off) /\ ClusterOK(n, key, new) /\ o.sent \in [Nodes -> Seq(Messages)]
  BY <1>1 DEF Becomes, Told
<1> QED BY <1>2, ListsKept

LEMMA ToldTwice ==
  ASSUME NEW old, NEW mid, NEW new, NEW s, NEW t, NEW Out,
         Told(old, mid, s, Out), Told(mid, new, t, {})
  PROVE  Told(old, new, FollowedBy(s, t), Out)
<1>. DEFINE w == FollowedBy(s, t)
<1>1. w = [p \in Nodes |-> s[p] \o t[p]] /\ s \in [Nodes -> Seq(Messages)] /\ t \in [Nodes -> Seq(Messages)]
  BY DEF FollowedBy, Told
<1>. HIDE DEF w
<1>2. w \in [Nodes -> Seq(Messages)]
  BY <1>1
<1>3. ASSUME NEW p \in Nodes \ Out
      PROVE  /\ w[p] = <<>> => (p \in new.sol_conns <=> p \in old.sol_conns)
             /\ w[p] # <<>> => LastOf(w[p]) = News(p \in new.sol_conns)
  <2>. DEFINE a == s[p]
              b == t[p]
  <2>1. /\ a \in Seq(Messages) /\ b \in Seq(Messages) /\ w[p] = a \o b
        /\ a = <<>> => (p \in mid.sol_conns <=> p \in old.sol_conns)
        /\ a # <<>> => LastOf(a) = News(p \in mid.sol_conns)
        /\ b = <<>> => (p \in new.sol_conns <=> p \in mid.sol_conns)
        /\ b # <<>> => LastOf(b) = News(p \in new.sol_conns)
    BY <1>1, <1>3 DEF Told
  <2>. HIDE DEF a, b
  <2>2. CASE b = <<>>
    <3>1. w[p] = a
      BY <2>1, <2>2
    <3>2. CASE a = <<>>
      BY <2>1, <2>2, <3>1, <3>2
    <3>3. CASE a # <<>>
      BY <2>1, <2>2, <3>1, <3>3 DEF News
    <3> QED BY <3>2, <3>3
  <2>3. CASE b # <<>>
    <3>1. Len(b) \in Nat \ {0} /\ Len(a) \in Nat
      BY <2>1, <2>3
    <3>2. w[p] # <<>> /\ LastOf(w[p]) = LastOf(b)
      BY <2>1, <3>1 DEF LastOf
    <3> QED BY <2>1, <2>3, <3>2
  <2> QED BY <2>2, <2>3
<1> QED BY <1>2, <1>3 DEF Told, w

LEMMA TurnedTwice ==
  ASSUME NEW n \in Nodes, NEW c, ListsOK(n, c), NEW key, NEW o, NEW e, NEW In, NEW Out,
         Turned(n, key, c, o, In, Out), Turned(n, key, o.conns, e, {}, {})
  PROVE  Turned(n, key, c, Outcome(e.conns, FollowedBy(o.sent, e.sent)), In, Out)
<1>. DEFINE z == Outcome(e.conns, FollowedBy(o.sent, e.sent))
<1>1. PICK mid, A : Becomes(n, key, c, o, In, Out, mid, A)
  BY DEF Turned
<1>2. PICK new, B : Becomes(n, key, o.conns, e, {}, {}, new, B)
  BY DEF Turned
<1>3. o.conns = Put(c, key, mid, A) /\ e.conns = Put(o.conns, key, new, B)
  BY <1>1, <1>2 DEF Becomes
<1>4. Conns(o.conns, key) = mid
  BY <1>3 DEF Put, Conns
<1>5. e.conns = Put(c, key, new, A \cup B)
  <2>. DEFINE D == DOMAIN c.conn_map \cup {key}
              g == [k \in D |-> IF k = key THEN mid ELSE c.conn_map[k]]
              h == [k \in D |-> IF k = key THEN new ELSE c.conn_map[k]]
              u == c.unsol_conns
              d == o.conns
  <2>1. d.conn_map = g /\ d.unsol_conns = u \ A /\ d.dangling = c.dangling
    BY <1>3 DEF Put
  <2>2. [k \in DOMAIN g \cup {key} |-> IF k = key THEN new ELSE g[k]] = h
    OBVIOUS
  <2>3. (u \ A) \ B = u \ (A \cup B)
    OBVIOUS
  <2>. HIDE DEF d, g, u
  <2>4. Put(d, key, new, B) = [conn_map |-> h, unsol_conns |-> u \ (A \cup B), dangling |-> c.dangling, blacklist_addr |-> {}]
    BY <2>1, <2>2, <2>3 DEF Put
  <2>5. Put(c, key, new, A \cup B) = [conn_map |-> h, unsol_conns |-> u \ (A \cup B), dangling |-> c.dangling, blacklist_addr |-> {}]
    BY DEF Put, u
  <2> QED BY <1>3, <2>4, <2>5 DEF d
<1>6. Both(new) = Both(mid) /\ B \subseteq Both(new)
  BY <1>2, <1>4 DEF Becomes
<1>7. Told(Conns(c, key), new, FollowedBy(o.sent, e.sent), Out)
  BY <1>1, <1>2, <1>4, ToldTwice DEF Becomes
<1>8. z.conns = e.conns /\ z.sent = FollowedBy(o.sent, e.sent)
  BY DEF Outcome
<1>. HIDE DEF z
<1>9. Both(new) = (Both(Conns(c, key)) \cup In) \ Out /\ A \cup B \subseteq Both(new) \cup Out
  BY <1>1, <1>6 DEF Becomes
<1>10. ClusterOK(n, key, new)
  BY <1>2 DEF Becomes
<1>11. Within(key, z.sent)
  BY <1>1, <1>2, <1>8 DEF Becomes, Within, FollowedBy
<1>12. Becomes(n, key, c, z, In, Out, new, A \cup B)
  BY <1>5, <1>7, <1>8, <1>9, <1>10, <1>11 DEF Becomes
<1> QED BY <1>12 DEF Turned, z

LEMMA Unturned ==
  ASSUME NEW n \in Nodes, NEW c, ListsOK(n, c), NEW key \in DOMAIN c.conn_map
  PROVE  Turned(n, key, c, Outcome(c, Silence), {}, {})
<1>. DEFINE new == c.conn_map[key]
            o == Outcome(c, Silence)
<1>1. Conns(c, key) = new /\ o.conns = c /\ o.sent = Silence
  BY DEF Conns, Outcome
<1>2. [k \in DOMAIN c.conn_map \cup {key} |-> IF k = key THEN new ELSE c.conn_map[k]] = c.conn_map
  BY DEF ListsOK
<1>3. Put(c, key, new, {}) = c
  BY <1>2 DEF Put, ListsOK
<1>4. ClusterOK(n, key, new)
  BY DEF ListsOK
<1>. HIDE DEF new, o
<1>5. Told(Conns(c, key), new, o.sent, {})
  BY <1>1, ToldNothing
<1>6. Becomes(n, key, c, o, {}, {}, new, {})
  BY <1>1, <1>3, <1>4, <1>5, WithinOne DEF Becomes, Both
<1> QED BY <1>6 DEF Turned, o

LEMMA DemotedTurn ==
  ASSUME NEW n \in Nodes, NEW c, ListsOK(n, c), NEW key \in DOMAIN c.conn_map, NEW o \in Demoted(n, c, key)
  PROVE  Turned(n, key, c, o, {}, {})
<1>. DEFINE old == Conns(c, key)
            Rest(m) == [old EXCEPT !.sol_conns = @ \ {m}]
            OneOut(m) == WithConns(c, key, Rest(m))
            ToStandby(m) == add_sol_standby_conn(OneOut(m), key, m)
<1>1. CASE o = Outcome(c, Silence)
  BY <1>1, Unturned
<1>2. CASE \E m \in old.sol_conns : o = Outcome(ToStandby(m), Dismissal(m))
  <2>1. PICK m \in old.sol_conns : o = Outcome(ToStandby(m), Dismissal(m))
    BY <1>2
  <2>2. ClusterOK(n, key, old)
    BY ClusterMade
  <2>3. PICK a, b : old = [sol_conns |-> a, sol_standby_conns |-> b]
    BY <2>2 DEF ClusterOK, Connections
  <2>. DEFINE new == [sol_conns |-> a \ {m}, sol_standby_conns |-> b \cup {m}]
              rest == Rest(m)
  <2>4. rest = [sol_conns |-> a \ {m}, sol_standby_conns |-> b]
    BY <2>3
  <2>5. PICK f, u, d : c = [conn_map |-> f, unsol_conns |-> u, dangling |-> d, blacklist_addr |-> {}]
    BY DEF ListsOK
  <2>6. o.conns = Put(c, key, new, {m})
    <3>. DEFINE g == [k \in DOMAIN f \cup {key} |-> IF k = key THEN Rest(m) ELSE f[k]]
                h == [k \in DOMAIN f \cup {key} |-> IF k = key THEN new ELSE f[k]]
                one == OneOut(m)
    <3>1. one = [conn_map |-> g, unsol_conns |-> u, dangling |-> d, blacklist_addr |-> {}]
      <4>. HIDE DEF Rest
      <4> QED BY <2>5 DEF WithConns
    <3>2. Conns(one, key) = rest
      BY <3>1 DEF Conns
    <3>3. m \notin rest.sol_conns /\ [rest EXCEPT !.sol_standby_conns = @ \cup {m}] = new
      <4>. HIDE DEF rest, old
      <4>1. m \notin rest.sol_conns
        BY <2>4
      <4>2. [rest EXCEPT !.sol_standby_conns = @ \cup {m}] = new
        BY <2>4
      <4> QED BY <4>1, <4>2
    <3>. HIDE DEF one
    <3>4. add_sol_standby_conn(one, key, m) = [WithConns(one, key, new) EXCEPT !.unsol_conns = @ \ {m}]
      BY <3>2, <3>3 DEF add_sol_standby_conn
    <3>5. WithConns(one, key, new) = [conn_map |-> h, unsol_conns |-> u, dangling |-> d, blacklist_addr |-> {}]
      <4>1. [k \in DOMAIN g \cup {key} |-> IF k = key THEN new ELSE g[k]] = h
        OBVIOUS
      <4>. HIDE DEF g, h
      <4>2. one.conn_map = g
        BY <3>1
      <4>. HIDE DEF new
      <4> QED BY <3>1, <4>1, <4>2 DEF WithConns
    <3>6. Put(c, key, new, {m}) = [conn_map |-> h, unsol_conns |-> u \ {m}, dangling |-> d, blacklist_addr |-> {}]
      BY <2>5 DEF Put
    <3>7. o.conns = add_sol_standby_conn(one, key, m)
      BY <2>1 DEF Outcome, one
    <3>. HIDE DEF h, new
    <3> QED BY <3>4, <3>5, <3>6, <3>7
  <2>7. o.sent = OnEveryChannel(m, "UNSUBSCRIBE")
    BY <2>1 DEF Outcome, Dismissal
  <2>. HIDE DEF rest, old
  <2>8. a \in SUBSET Nodes /\ b \in SUBSET Nodes /\ m \in a /\ m \in Nodes
    BY <2>1, <2>2, <2>3 DEF ClusterOK, Connections
  <2>9. ClusterOK(n, key, new)
    <3>1. IsFiniteSet(a)
      BY <2>8, FS_Subset, ConnsAssumption DEF ConnsAssumption
    <3>2. Cardinality(a) <= MaxSol[n] /\ MaxSol[n] \in Nat
      BY <2>2, <2>3, ConnsAssumption DEF ClusterOK, Connections, ConnsAssumption
    <3>3. Cardinality(a) \in Nat /\ Cardinality(a \ {m}) \in Nat /\ Cardinality(a \ {m}) <= Cardinality(a)
      <4>1. IsFiniteSet(a \ {m}) /\ Cardinality(a \ {m}) <= Cardinality(a)
        BY <3>1, FS_Subset
      <4> QED BY <3>1, <4>1, FS_CardinalityType
    <3>4. Cardinality(a \ {m}) <= MaxSol[n]
      BY <3>2, <3>3
    <3>5. new \in Connections(n)
      BY <2>8, <3>4 DEF Connections
    <3>6. a \cap b = {} /\ \A p \in a \cup b : key = ClientKey[p]
      BY <2>2, <2>3 DEF ClusterOK
    <3> QED BY <2>8, <3>5, <3>6 DEF ClusterOK
  <2>10. Both(new) = (Both(old) \cup {}) \ {} /\ {m} \subseteq Both(new) \cup {}
    BY <2>3, <2>8 DEF Both
  <2>11. Told(old, new, o.sent, {})
    <3>1. "UNSUBSCRIBE" \in Messages /\ "UNSUBSCRIBE" = News(m \in new.sol_conns)
      BY DEF Messages, News
    <3>2. old.sol_conns \ {m} = new.sol_conns \ {m}
      BY <2>3
    <3> QED BY <2>7, <2>8, <3>1, <3>2, ToldOne
  <2>. HIDE DEF new
  <2>12. Becomes(n, key, c, o, {}, {}, new, {m})
    <3>1. key = ClientKey[m]
      BY <2>2, <2>3, <2>8 DEF ClusterOK
    <3>2. Within(key, o.sent)
      BY <2>7, <3>1, WithinOne
    <3> QED BY <2>6, <2>9, <2>10, <2>11, <3>2 DEF Becomes, old
  <2> QED BY <2>12 DEF Turned
<1> QED BY <1>1, <1>2 DEF Demoted

(* A peer in reserve is of its cluster, and stays in its lists.            *)
LEMMA PromotedTurn ==
  ASSUME NEW n \in Nodes, NEW c, ListsOK(n, c), NEW key \in DOMAIN c.conn_map,
         NEW o, Turned(n, key, c, o, {}, {}), NEW e \in Promoted(n, o, key)
  PROVE  Turned(n, key, c, e, {}, {})
<1>. DEFINE now == Conns(o.conns, key)
            p(m) == add_sol_conn(n, o.conns, key, m)
<1>1. CASE e = o
  BY <1>1
<1>2. CASE \E m \in now.sol_standby_conns : e = Outcome(p(m).conns, FollowedBy(o.sent, p(m).sent))
  <2>1. PICK m \in now.sol_standby_conns : e = Outcome(p(m).conns, FollowedBy(o.sent, p(m).sent))
    BY <1>2
  <2>2. ListsOK(n, o.conns) /\ key \in ClientKeys
    <3>1. key \in ClientKeys
      BY DEF ListsOK
    <3> QED BY <3>1, TurnKept
  <2>3. ClusterOK(n, key, now)
    BY <2>2, ClusterMade
  <2>4. m \in Nodes /\ key = ClientKey[m] /\ m \in Both(now)
    BY <2>1, <2>3 DEF ClusterOK, Connections, Both
  <2>5. Turned(n, key, o.conns, p(m), {m}, {})
    BY <2>2, <2>4, AddSol
  <2>. HIDE DEF now
  <2>6. Turned(n, key, o.conns, p(m), {}, {})
    <3>. DEFINE q == p(m)
    <3>1. PICK new, Off : Becomes(n, key, o.conns, q, {m}, {}, new, Off)
      BY <2>5 DEF Turned
    <3>. HIDE DEF q
    <3>2. Both(Conns(o.conns, key)) \cup {m} = Both(Conns(o.conns, key)) \cup {}
      BY <2>4 DEF now
    <3>3. Becomes(n, key, o.conns, q, {}, {}, new, Off)
      BY <3>1, <3>2 DEF Becomes
    <3> QED BY <3>3 DEF Turned, q
  <2>. HIDE DEF p
  <2> QED BY <2>1, <2>6, TurnedTwice
<1> QED BY <1>1, <1>2 DEF Promoted

(* Whatever manage_subscriptions swaps, the lists of a cluster hold the    *)
(* same peers as before, and those that changed places are told.           *)
LEMMA ManagedTurn ==
  ASSUME NEW n \in Nodes, NEW c, ListsOK(n, c), NEW key \in DOMAIN c.conn_map,
         NEW e \in manage_subscriptions(n, c, key)
  PROVE  Turned(n, key, c, e, {}, {})
<1>1. PICK o \in Demoted(n, c, key) : e \in Promoted(n, o, key)
  BY DEF manage_subscriptions
<1> QED BY <1>1, DemotedTurn, PromotedTurn

LEMMA RemovedTurn ==
  ASSUME NEW n \in Nodes, NEW c, ListsOK(n, c), NEW key \in DOMAIN c.conn_map, NEW m \in Nodes
  PROVE  Turned(n, key, c, Outcome(Removed(c, key, m), Silence), {}, {m})
<1>. DEFINE o == Outcome(Removed(c, key, m), Silence)
            new == [sol_conns |-> c.conn_map[key].sol_conns \ {m},
                    sol_standby_conns |-> c.conn_map[key].sol_standby_conns \ {m}]
            old == Conns(c, key)
<1>1. o.sent = Silence /\ o.conns = [WithConns(c, key, new) EXCEPT !.unsol_conns = @ \ {m}]
  BY DEF Outcome, Removed
<1>2. old = c.conn_map[key] /\ ClusterOK(n, key, old)
  BY ClusterMade DEF Conns
<1>3. new.sol_conns = old.sol_conns \ {m} /\ new.sol_standby_conns = old.sol_standby_conns \ {m}
      /\ new = [sol_conns |-> old.sol_conns \ {m}, sol_standby_conns |-> old.sol_standby_conns \ {m}]
  BY <1>2
<1>. HIDE DEF new, o, old
<1>4. o.conns = Put(c, key, new, {m})
  <2>1. Without(WithConns(c, key, new), m) = Put(c, key, new, {m})
    BY PutIs
  <2> QED BY <1>1, <2>1 DEF Without
<1>5. ClusterOK(n, key, new)
  <2>. DEFINE a == old.sol_conns
              b == old.sol_standby_conns
  <2>1. a \in SUBSET Nodes /\ b \in SUBSET Nodes /\ Cardinality(a) <= MaxSol[n] /\ a \cap b = {}
        /\ \A p \in a \cup b : key = ClientKey[p]
    BY <1>2 DEF ClusterOK, Connections
  <2>2. MaxSol[n] \in Nat /\ IsFiniteSet(Nodes)
    BY ConnsAssumption DEF ConnsAssumption
  <2>. HIDE DEF a, b
  <2>3. IsFiniteSet(a) /\ IsFiniteSet(a \ {m}) /\ Cardinality(a \ {m}) <= Cardinality(a)
    BY <2>1, <2>2, FS_Subset
  <2>4. Cardinality(a) \in Nat /\ Cardinality(a \ {m}) \in Nat
    BY <2>3, FS_CardinalityType
  <2>5. Cardinality(a \ {m}) <= MaxSol[n]
    BY <2>1, <2>2, <2>3, <2>4
  <2>6. new.sol_conns = a \ {m} /\ new.sol_standby_conns = b \ {m}
        /\ new = [sol_conns |-> a \ {m}, sol_standby_conns |-> b \ {m}]
    BY <1>3 DEF a, b
  <2> QED BY <2>1, <2>5, <2>6 DEF ClusterOK, Connections
<1>6. Both(new) = (Both(old) \cup {}) \ {m} /\ {m} \subseteq Both(new) \cup {m}
  BY <1>3 DEF Both
<1>7. Told(old, new, o.sent, {m})
  BY <1>1, <1>3 DEF Told, Silence
<1>8. Becomes(n, key, c, o, {}, {m}, new, {m})
  BY <1>1, <1>4, <1>5, <1>6, <1>7, WithinOne DEF Becomes, old
<1> QED BY <1>8 DEF Turned, o

-----------------------------------------------------------------------------
(* What a handler does to all the lists of a node                          *)

(* In are put in the lists, Out leave all of them; a subscriber that is    *)
(* one no longer is in the lists, or left.                                 *)
Handled(n, c, o, In, Out) ==
  /\ ListsOK(n, o.conns) /\ o.sent \in [Nodes -> Seq(Messages)]
  /\ \A p \in Nodes : Listed(o.conns, p) <=> (Listed(c, p) \/ p \in In) /\ p \notin Out
  /\ o.conns.unsol_conns \subseteq c.unsol_conns
  /\ \A p \in c.unsol_conns : p \in o.conns.unsol_conns \/ Listed(o.conns, p) \/ p \in Out
  /\ \A p \in Nodes \ Out :
       /\ o.sent[p] = <<>> => (Sol(o.conns, p) <=> Sol(c, p))
       /\ o.sent[p] # <<>> => LastOf(o.sent[p]) = News(Sol(o.conns, p))

LEMMA InOwn ==
  ASSUME NEW n \in Nodes, NEW c, ListsOK(n, c), NEW p
  PROVE  /\ Sol(c, p) <=> p \in Conns(c, ClientKey[p]).sol_conns
         /\ Listed(c, p) <=> p \in Both(Conns(c, ClientKey[p]))
<1>. DEFINE k == ClientKey[p]
<1>1. ASSUME NEW key \in DOMAIN c.conn_map, p \in Both(c.conn_map[key])
      PROVE  key = k
  BY <1>1 DEF ListsOK, ClusterOK, Both
<1>2. \A key : Both(c.conn_map[key]) = c.conn_map[key].sol_conns \cup c.conn_map[key].sol_standby_conns
  BY DEF Both
<1>. HIDE DEF k
<1>3. CASE k \in DOMAIN c.conn_map
  <2>1. Conns(c, k) = c.conn_map[k]
    BY <1>3 DEF Conns
  <2> QED BY <1>1, <1>2, <1>3, <2>1 DEF Sol, Listed, k
<1>4. CASE k \notin DOMAIN c.conn_map
  <2>1. Conns(c, k).sol_conns = {} /\ Both(Conns(c, k)) = {}
    BY <1>4 DEF Conns, Both
  <2> QED BY <1>1, <1>2, <1>4, <2>1 DEF Sol, Listed, k
<1> QED BY <1>3, <1>4

LEMMA TurnAt ==
  ASSUME NEW n \in Nodes, NEW c, ListsOK(n, c), NEW key, NEW o, NEW In, NEW Out,
         Turned(n, key, c, o, In, Out)
  PROVE  LET new == o.conns.conn_map[key]
         IN /\ DOMAIN o.conns.conn_map = DOMAIN c.conn_map \cup {key}
            /\ \A k \in DOMAIN c.conn_map : k # key => o.conns.conn_map[k] = c.conn_map[k]
            /\ ClusterOK(n, key, new) /\ Conns(o.conns, key) = new
            /\ Both(new) = (Both(Conns(c, key)) \cup In) \ Out
            /\ o.conns.unsol_conns \subseteq c.unsol_conns
            /\ \A p \in c.unsol_conns : p \in o.conns.unsol_conns \/ p \in Both(new) \/ p \in Out
            /\ o.conns.blacklist_addr = {}
            /\ Told(Conns(c, key), new, o.sent, Out) /\ Within(key, o.sent)
<1>1. PICK new, Off : Becomes(n, key, c, o, In, Out, new, Off)
  BY DEF Turned
<1>. DEFINE d == o.conns
<1>2. d = Put(c, key, new, Off)
  BY <1>1 DEF Becomes
<1>3. /\ d.conn_map = [k \in DOMAIN c.conn_map \cup {key} |-> IF k = key THEN new ELSE c.conn_map[k]]
      /\ d.unsol_conns = c.unsol_conns \ Off /\ d.blacklist_addr = {}
  BY <1>2 DEF Put
<1>. HIDE DEF d
<1>4. d.conn_map[key] = new /\ Conns(d, key) = new
  BY <1>3 DEF Conns
<1>5. ClusterOK(n, key, new) /\ Told(Conns(c, key), new, o.sent, Out) /\ Within(key, o.sent)
      /\ Both(new) = (Both(Conns(c, key)) \cup In) \ Out /\ Off \subseteq Both(new) \cup Out
  BY <1>1 DEF Becomes
<1>6. DOMAIN d.conn_map = DOMAIN c.conn_map \cup {key}
      /\ \A k \in DOMAIN c.conn_map : k # key => d.conn_map[k] = c.conn_map[k]
  BY <1>3
<1>7. d.unsol_conns \subseteq c.unsol_conns
      /\ \A p \in c.unsol_conns : p \in d.unsol_conns \/ p \in Both(new) \/ p \in Out
  BY <1>3, <1>5
<1> QED BY <1>3, <1>4, <1>5, <1>6, <1>7 DEF d

LEMMA OneTurnHandled ==
  ASSUME NEW n \in Nodes, NEW c, ListsOK(n, c), NEW key \in ClientKeys, NEW o, NEW In,
         Turned(n, key, c, o, In, {}), \A p \in In : ClientKey[p] = key
  PROVE  Handled(n, c, o, In, {})
<1>. DEFINE d == o.conns
            new == d.conn_map[key]
            old == Conns(c, key)
<1>1. ListsOK(n, d) /\ o.sent \in [Nodes -> Seq(Messages)]
  BY TurnKept
<1>2. /\ DOMAIN d.conn_map = DOMAIN c.conn_map \cup {key}
      /\ \A k \in DOMAIN c.conn_map : k # key => d.conn_map[k] = c.conn_map[k]
      /\ Conns(d, key) = new
      /\ Both(new) = (Both(old) \cup In) \ {}
      /\ d.unsol_conns \subseteq c.unsol_conns
      /\ \A p \in c.unsol_conns : p \in d.unsol_conns \/ p \in Both(new) \/ p \in {}
      /\ Told(old, new, o.sent, {}) /\ Within(key, o.sent)
  BY TurnAt
<1>3. ClusterOK(n, key, new)
  BY <1>1, <1>2 DEF ListsOK
<1>. HIDE DEF d, new, old
<1>4. ASSUME NEW p \in Nodes
      PROVE  /\ Listed(d, p) <=> Listed(c, p) \/ p \in In
             /\ o.sent[p] = <<>> => (Sol(d, p) <=> Sol(c, p))
             /\ o.sent[p] # <<>> => LastOf(o.sent[p]) = News(Sol(d, p))
  <2>1. /\ Sol(c, p) <=> p \in Conns(c, ClientKey[p]).sol_conns
        /\ Listed(c, p) <=> p \in Both(Conns(c, ClientKey[p]))
        /\ Sol(d, p) <=> p \in Conns(d, ClientKey[p]).sol_conns
        /\ Listed(d, p) <=> p \in Both(Conns(d, ClientKey[p]))
    BY <1>1, InOwn
  <2>2. CASE ClientKey[p] = key
    <3>1. o.sent[p] = <<>> => (p \in new.sol_conns <=> p \in old.sol_conns)
      BY <1>2 DEF Told
    <3>2. o.sent[p] # <<>> => LastOf(o.sent[p]) = News(p \in new.sol_conns)
      BY <1>2 DEF Told
    <3>3. Sol(d, p) <=> p \in new.sol_conns
      BY <1>2, <2>1, <2>2
    <3>4. Sol(c, p) <=> p \in old.sol_conns
      BY <2>1, <2>2 DEF old
    <3>5. Listed(d, p) <=> Listed(c, p) \/ p \in In
      BY <1>2, <2>1, <2>2 DEF old
    <3> QED BY <3>1, <3>2, <3>3, <3>4, <3>5 DEF News
  <2>3. CASE ClientKey[p] # key
    <3>1. Conns(d, ClientKey[p]) = Conns(c, ClientKey[p])
      BY <1>2, <2>3 DEF Conns
    <3>2. o.sent[p] = <<>> /\ p \notin In
      BY <1>2, <2>3 DEF Within
    <3> QED BY <2>1, <3>1, <3>2
  <2> QED BY <2>2, <2>3
<1>5. ASSUME NEW p \in c.unsol_conns
      PROVE  p \in d.unsol_conns \/ Listed(d, p)
  <2>1. CASE p \in Both(new)
    <3>1. ClientKey[p] = key
      BY <1>3, <2>1 DEF ClusterOK, Both
    <3>2. Listed(d, p) <=> p \in Both(Conns(d, ClientKey[p]))
      BY <1>1, InOwn
    <3> QED BY <1>2, <2>1, <3>1, <3>2
  <2> QED BY <1>2, <2>1
<1> QED BY <1>1, <1>2, <1>4, <1>5 DEF Handled, d

LEMMA AllHandled ==
  ASSUME NEW n \in Nodes, NEW c, ListsOK(n, c), NEW step, NEW Out,
         \A key \in DOMAIN c.conn_map : Turned(n, key, c, step[key], {}, Out)
  PROVE  Handled(n, c, AllClusters(c, step), {}, Out)
<1>. DEFINE D == DOMAIN c.conn_map
            o == AllClusters(c, step)
            d == o.conns
            b == [key \in D |-> step[key].conns.conn_map[key]]
            u == {p \in c.unsol_conns : \A key \in D : p \in step[key].conns.unsol_conns}
            l == c.blacklist_addr \cup UNION {step[key].conns.blacklist_addr : key \in D}
            s == [p \in Nodes |-> IF ClientKey[p] \in D THEN step[ClientKey[p]].sent[p] ELSE <<>>]
<1>1. ASSUME NEW key \in D
      PROVE  /\ ClusterOK(n, key, b[key])
             /\ Both(b[key]) = (Both(Conns(c, key)) \cup {}) \ Out
             /\ \A p \in c.unsol_conns : p \in step[key].conns.unsol_conns \/ p \in Both(b[key]) \/ p \in Out
             /\ step[key].conns.blacklist_addr = {}
             /\ Told(Conns(c, key), b[key], step[key].sent, Out)
  <2>. DEFINE e == step[key]
  <2>1. Turned(n, key, c, e, {}, Out)
    OBVIOUS
  <2>. HIDE DEF e
  <2>2. LET new == e.conns.conn_map[key]
        IN /\ DOMAIN e.conns.conn_map = DOMAIN c.conn_map \cup {key}
           /\ \A k \in DOMAIN c.conn_map : k # key => e.conns.conn_map[k] = c.conn_map[k]
           /\ ClusterOK(n, key, new) /\ Conns(e.conns, key) = new
           /\ Both(new) = (Both(Conns(c, key)) \cup {}) \ Out
           /\ e.conns.unsol_conns \subseteq c.unsol_conns
           /\ \A p \in c.unsol_conns : p \in e.conns.unsol_conns \/ p \in Both(new) \/ p \in Out
           /\ e.conns.blacklist_addr = {}
           /\ Told(Conns(c, key), new, e.sent, Out) /\ Within(key, e.sent)
    BY <2>1, TurnAt
  <2>3. b[key] = e.conns.conn_map[key]
    BY DEF e
  <2>. HIDE DEF b
  <2> QED BY <2>2, <2>3 DEF e
<1>2. /\ o.sent = s
      /\ d = [c EXCEPT !.conn_map = b, !.unsol_conns = u, !.blacklist_addr = l]
  BY DEF AllClusters, Outcome
<1>3. l = {}
  BY <1>1 DEF ListsOK
<1>. HIDE DEF l
<1>4. PICK f, w, g : c = [conn_map |-> f, unsol_conns |-> w, dangling |-> g, blacklist_addr |-> {}]
  BY DEF ListsOK
<1>. HIDE DEF o, d, b, u, s
<1>5. d = [conn_map |-> b, unsol_conns |-> u, dangling |-> g, blacklist_addr |-> {}]
  BY <1>2, <1>3, <1>4
<1>6. d.conn_map = b /\ d.unsol_conns = u /\ d.dangling = c.dangling /\ d.blacklist_addr = {}
  BY <1>4, <1>5
<1>7. DOMAIN b = D /\ b = [key \in DOMAIN b |-> b[key]] /\ D \subseteq ClientKeys
  BY DEF b, ListsOK
<1>8. u \subseteq c.unsol_conns
  BY DEF u
<1>9. u \subseteq Nodes /\ Cardinality(u) + c.dangling <= MaxUnsol[n] /\ c.dangling \in Nat
  BY <1>8, FewerSubscribers DEF ListsOK
<1>10. ListsOK(n, d)
  <2>1. d = [conn_map |-> d.conn_map, unsol_conns |-> d.unsol_conns, dangling |-> d.dangling, blacklist_addr |-> {}]
    BY <1>5, <1>6
  <2>2. \A key \in DOMAIN d.conn_map : ClusterOK(n, key, d.conn_map[key])
    BY <1>1, <1>6, <1>7
  <2> QED BY <1>6, <1>7, <1>9, <2>1, <2>2 DEF ListsOK, Unsol
<1>11. ASSUME NEW p \in Nodes
       PROVE  /\ s[p] \in Seq(Messages)
              /\ Listed(d, p) <=> Listed(c, p) /\ p \notin Out
              /\ p \notin Out /\ s[p] = <<>> => (Sol(d, p) <=> Sol(c, p))
              /\ p \notin Out /\ s[p] # <<>> => LastOf(s[p]) = News(Sol(d, p))
  <2>. DEFINE k == ClientKey[p]
              old == Conns(c, k)
              new == Conns(d, k)
  <2>1. /\ Sol(c, p) <=> p \in old.sol_conns
        /\ Listed(c, p) <=> p \in Both(old)
        /\ Sol(d, p) <=> p \in new.sol_conns
        /\ Listed(d, p) <=> p \in Both(new)
    BY <1>10, InOwn
  <2>2. CASE k \in D
    <3>1. new = b[k] /\ s[p] = step[k].sent[p]
      BY <1>6, <1>7, <2>2 DEF Conns, s
    <3>. HIDE DEF k, old, new
    <3>2. Both(new) = Both(old) \ Out /\ Told(old, new, step[k].sent, Out)
      BY <1>1, <2>2, <3>1 DEF old
    <3> QED BY <2>1, <3>1, <3>2 DEF Told, News
  <2>3. CASE k \notin D
    <3>1. new = old /\ new.sol_conns = {} /\ Both(new) = {} /\ s[p] = <<>>
      BY <1>6, <1>7, <2>3 DEF Conns, Both, s
    <3>. HIDE DEF k, old, new
    <3> QED BY <2>1, <3>1
  <2> QED BY <2>2, <2>3
<1>12. o.sent \in [Nodes -> Seq(Messages)]
  BY <1>2, <1>11 DEF s
<1>13. ASSUME NEW p \in c.unsol_conns
       PROVE  p \in d.unsol_conns \/ Listed(d, p) \/ p \in Out
  <2>1. CASE \E key \in D : p \notin step[key].conns.unsol_conns
    <3>1. PICK key \in D : p \notin step[key].conns.unsol_conns
      BY <2>1
    <3>2. p \in Both(b[key]) \/ p \in Out
      BY <1>1, <3>1
    <3>3. p \in Both(b[key]) => Listed(d, p)
      BY <1>6, <1>7, <3>1 DEF Listed, Both
    <3> QED BY <3>2, <3>3
  <2>2. CASE \A key \in D : p \in step[key].conns.unsol_conns
    BY <1>6, <2>2 DEF u
  <2> QED BY <2>1, <2>2
<1>14. d.unsol_conns \subseteq c.unsol_conns
  BY <1>6, <1>8
<1>15. \A p \in Nodes : Listed(d, p) <=> (Listed(c, p) \/ p \in {}) /\ p \notin Out
  BY <1>11
<1>16. \A p \in Nodes \ Out :
         /\ o.sent[p] = <<>> => (Sol(d, p) <=> Sol(c, p))
         /\ o.sent[p] # <<>> => LastOf(o.sent[p]) = News(Sol(d, p))
  BY <1>2, <1>11
<1>17. Handled(n, c, o, {}, Out)
  BY <1>10, <1>12, <1>13, <1>14, <1>15, <1>16 DEF Handled, d
<1> QED BY <1>17 DEF o

LEMMA ManagedHandled ==
  ASSUME NEW n \in Nodes, NEW c, ListsOK(n, c),
         NEW o \in EachCluster(c, [key \in DOMAIN c.conn_map |-> manage_subscriptions(n, c, key)])
  PROVE  Handled(n, c, o, {}, {})
<1>. DEFINE turns == [key \in DOMAIN c.conn_map |-> manage_subscriptions(n, c, key)]
<1>1. PICK step : o = AllClusters(c, step) /\ \A key \in DOMAIN turns : step[key] \in turns[key]
  BY DEF EachCluster
<1>2. ASSUME NEW key \in DOMAIN c.conn_map
      PROVE  Turned(n, key, c, step[key], {}, {})
  <2>1. step[key] \in manage_subscriptions(n, c, key)
    BY <1>1
  <2> QED BY <2>1, ManagedTurn
<1> QED BY <1>1, <1>2, AllHandled

(* Once closed, the peer is in no list of the node.                        *)
LEMMA ClosedHandled ==
  ASSUME NEW n \in Nodes, NEW c, ListsOK(n, c), NEW m \in Nodes, NEW o \in did_close(n, c, m, 0)
  PROVE  Handled(n, c, o, {}, {m}) /\ m \notin o.conns.unsol_conns
<1>. DEFINE Rest(key) == Removed(c, key, m)
            Turn(key) ==
              IF IsSol(c, key, m) THEN manage_subscriptions(n, Blacklisted(Rest(key), m, 0), key)
              ELSE {Outcome(Rest(key), Silence)}
            Deleted(e) ==
              IF m \in e.conns.unsol_conns
              THEN [e EXCEPT !.conns.unsol_conns = @ \ {m}, !.conns.dangling = @ + 1] ELSE e
            turns == [key \in DOMAIN c.conn_map |-> Turn(key)]
<1>1. PICK e \in EachCluster(c, turns) : o = Deleted(e)
  BY DEF did_close
<1>2. ASSUME NEW key \in DOMAIN c.conn_map, NEW t \in Turn(key)
      PROVE  Turned(n, key, c, t, {}, {m})
  <2>. DEFINE rest == Rest(key)
              r == Outcome(rest, Silence)
  <2>1. Turned(n, key, c, r, {}, {m})
    BY RemovedTurn
  <2>2. key \in ClientKeys
    BY DEF ListsOK
  <2>3. r.conns = rest /\ r.sent = Silence
    BY DEF Outcome
  <2>. HIDE DEF r
  <2>4. ListsOK(n, r.conns) /\ key \in DOMAIN r.conns.conn_map
    <3>1. ListsOK(n, r.conns)
      BY <2>1, <2>2, TurnKept
    <3>2. LET new == r.conns.conn_map[key]
          IN /\ DOMAIN r.conns.conn_map = DOMAIN c.conn_map \cup {key}
             /\ \A k \in DOMAIN c.conn_map : k # key => r.conns.conn_map[k] = c.conn_map[k]
             /\ ClusterOK(n, key, new) /\ Conns(r.conns, key) = new
             /\ Both(new) = (Both(Conns(c, key)) \cup {}) \ {m}
             /\ r.conns.unsol_conns \subseteq c.unsol_conns
             /\ \A p \in c.unsol_conns : p \in r.conns.unsol_conns \/ p \in Both(new) \/ p \in {m}
             /\ r.conns.blacklist_addr = {}
             /\ Told(Conns(c, key), new, r.sent, {m}) /\ Within(key, r.sent)
      BY <2>1, TurnAt
    <3> QED BY <3>1, <3>2
  <2>5. CASE IsSol(c, key, m)
    <3>1. t \in manage_subscriptions(n, r.conns, key)
      BY <1>2, <2>3, <2>5 DEF Blacklisted
    <3>2. Turned(n, key, r.conns, t, {}, {})
      BY <2>4, <3>1, ManagedTurn
    <3>3. Turned(n, key, c, Outcome(t.conns, FollowedBy(r.sent, t.sent)), {}, {m})
      BY <2>1, <3>2, TurnedTwice
    <3>4. PICK new, Off : Becomes(n, key, r.conns, t, {}, {}, new, Off)
      BY <3>2 DEF Turned
    <3>5. t.sent \in [Nodes -> Seq(Messages)]
      BY <3>4 DEF Becomes, Told
    <3>6. FollowedBy(r.sent, t.sent) = t.sent
      <4>1. \A p \in Nodes : <<>> \o t.sent[p] = t.sent[p]
        BY <3>5
      <4> QED BY <2>3, <3>5, <4>1 DEF FollowedBy, Silence
    <3>. DEFINE z == Outcome(t.conns, FollowedBy(r.sent, t.sent))
    <3>7. z.conns = t.conns /\ z.sent = t.sent
      BY <3>6 DEF Outcome
    <3>8. Turned(n, key, c, z, {}, {m})
      BY <3>3
    <3>. HIDE DEF z
    <3> QED BY <3>7, <3>8 DEF Turned, Becomes
  <2>6. CASE ~IsSol(c, key, m)
    <3>1. t = r
      BY <1>2, <2>6 DEF r
    <3> QED BY <2>1, <3>1
  <2> QED BY <2>5, <2>6
<1>3. Handled(n, c, e, {}, {m})
  <2>1. PICK step : e = AllClusters(c, step) /\ \A key \in DOMAIN turns : step[key] \in turns[key]
    BY <1>1 DEF EachCluster
  <2>. HIDE DEF Turn
  <2>2. \A key \in DOMAIN c.conn_map : Turned(n, key, c, step[key], {}, {m})
    BY <1>2, <2>1
  <2> QED BY <2>1, <2>2, AllHandled
<1>4. CASE m \notin e.conns.unsol_conns
  BY <1>1, <1>3, <1>4
<1>5. CASE m \in e.conns.unsol_conns
  <2>. DEFINE x == e.conns
              U == x.unsol_conns \ {m}
              h == x.dangling + 1
              y == [x EXCEPT !.unsol_conns = U, !.dangling = h]
  <2>1. e = AllClusters(c, CHOOSE step : e = AllClusters(c, step))
    BY <1>1 DEF EachCluster
  <2>2. e = [conns |-> x, sent |-> e.sent]
    BY <2>1 DEF AllClusters, Outcome
  <2>3. ListsOK(n, x)
    BY <1>3 DEF Handled
  <2>4. o.conns = y /\ o.sent = e.sent
    <3>. HIDE DEF x
    <3> QED BY <1>1, <1>5, <2>2 DEF x
  <2>. HIDE DEF x
  <2>5. PICK f, w, g : x = [conn_map |-> f, unsol_conns |-> w, dangling |-> g, blacklist_addr |-> {}]
    BY <2>3 DEF ListsOK
  <2>6. y = [conn_map |-> f, unsol_conns |-> w \ {m}, dangling |-> g + 1, blacklist_addr |-> {}]
    <3>1. U = w \ {m} /\ x.dangling = g
      BY <2>5
    <3>2. h = g + 1
      BY <2>5
    <3>3. y = [x EXCEPT !.unsol_conns = U, !.dangling = h]
      OBVIOUS
    <3>. HIDE DEF U, h, y, turns
    <3>4. y.conn_map = f /\ y.unsol_conns = U /\ y.dangling = h /\ y.blacklist_addr = {}
      BY <2>5, <3>3
    <3> QED BY <2>5, <3>1, <3>2, <3>3
  <2>7. /\ y.conn_map = x.conn_map /\ y.unsol_conns = x.unsol_conns \ {m}
        /\ y.dangling = x.dangling + 1 /\ y.blacklist_addr = {}
        /\ y = [conn_map |-> y.conn_map, unsol_conns |-> y.unsol_conns, dangling |-> y.dangling, blacklist_addr |-> {}]
    BY <2>5, <2>6
  <2>. HIDE DEF y, U
  <2>8. Unsol(y) <= MaxUnsol[n] /\ y.dangling \in Nat
    <3>1. x.unsol_conns \subseteq Nodes /\ x.dangling \in Nat /\ Cardinality(x.unsol_conns) + x.dangling <= MaxUnsol[n]
      BY <2>3 DEF ListsOK, Unsol
    <3>2. IsFiniteSet(x.unsol_conns) /\ MaxUnsol[n] \in Nat
      BY <3>1, FS_Subset, ConnsAssumption DEF ConnsAssumption
    <3>3. Cardinality(x.unsol_conns \ {m}) = Cardinality(x.unsol_conns) - 1 /\ Cardinality(x.unsol_conns) \in Nat
      BY <1>5, <3>2, FS_RemoveElement, FS_CardinalityType DEF x
    <3> QED BY <2>7, <3>1, <3>2, <3>3 DEF Unsol
  <2>9. ListsOK(n, y)
    BY <2>3, <2>7, <2>8 DEF ListsOK
  <2>10. \A p : (Listed(y, p) <=> Listed(x, p)) /\ (Sol(y, p) <=> Sol(x, p))
    BY <2>7 DEF Listed, Sol
  <2>11. Handled(n, c, e, {}, {m})
    BY <1>3
  <2>12. /\ e.sent \in [Nodes -> Seq(Messages)]
         /\ \A p \in Nodes : Listed(x, p) <=> (Listed(c, p) \/ p \in {}) /\ p \notin {m}
         /\ x.unsol_conns \subseteq c.unsol_conns
         /\ \A p \in c.unsol_conns : p \in x.unsol_conns \/ Listed(x, p) \/ p \in {m}
         /\ \A p \in Nodes \ {m} :
              /\ e.sent[p] = <<>> => (Sol(x, p) <=> Sol(c, p))
              /\ e.sent[p] # <<>> => LastOf(e.sent[p]) = News(Sol(x, p))
    BY <2>11 DEF Handled, x
  <2>13. \A p \in c.unsol_conns : p \in y.unsol_conns \/ Listed(y, p) \/ p \in {m}
    BY <2>7, <2>10, <2>12
  <2>14. y.unsol_conns \subseteq c.unsol_conns /\ m \notin y.unsol_conns
    BY <2>7, <2>12
  <2>15. \A p \in Nodes \ {m} :
           /\ e.sent[p] = <<>> => (Sol(y, p) <=> Sol(c, p))
           /\ e.sent[p] # <<>> => LastOf(e.sent[p]) = News(Sol(y, p))
    BY <2>10, <2>12 DEF News
  <2>16. \A p \in Nodes : Listed(y, p) <=> (Listed(c, p) \/ p \in {}) /\ p \notin {m}
    BY <2>10, <2>12
  <2>. DEFINE z == o.conns
  <2>17. z = y
    BY <2>4
  <2>. HIDE DEF z
  <2> QED BY <2>4, <2>9, <2>12, <2>13, <2>14, <2>15, <2>16, <2>17 DEF Handled, z
<1> QED BY <1>4, <1>5

-----------------------------------------------------------------------------
(* The connections of all nodes                                            *)

(* S is Q with what n sent at the end of those queues whose link is up.    *)
Sends(S, Q, L, n, said) ==
  /\ S \in [Nodes -> [Nodes -> Seq(Messages)]]
  /\ \A a, b \in Nodes : S[a][b] = IF a = n /\ L[n][b] = "Up" THEN Q[a][b] \o said[b] ELSE Q[a][b]

LEMMA SendAllTo ==
  ASSUME NEW Q \in [Nodes -> [Nodes -> Seq(Messages)]], NEW L, NEW n \in Nodes,
         NEW said \in [Nodes -> Seq(Messages)]
  PROVE  Sends(SendAll(Q, L, n, said), Q, L, n, said)
<1>. DEFINE row == [m \in Nodes |-> IF L[n][m] = "Up" THEN Q[n][m] \o said[m] ELSE Q[n][m]]
            S == SendAll(Q, L, n, said)
<1>1. S = [Q EXCEPT ![n] = row]
  BY DEF SendAll
<1>2. \A m \in Nodes : Q[n][m] \o said[m] \in Seq(Messages)
  OBVIOUS
<1>3. row \in [Nodes -> Seq(Messages)]
  BY <1>2
<1>. HIDE DEF S
<1>4. \A a, b \in Nodes : S[a][b] = IF a = n THEN row[b] ELSE Q[a][b]
  <2>. HIDE DEF row
  <2> QED BY <1>1
<1>6. \A b \in Nodes : row[b] = IF L[n][b] = "Up" THEN Q[n][b] \o said[b] ELSE Q[n][b]
  OBVIOUS
<1>5. S \in [Nodes -> [Nodes -> Seq(Messages)]]
  <2>. HIDE DEF row
  <2> QED BY <1>1, <1>3
<1>. HIDE DEF row
<1> QED BY <1>4, <1>5, <1>6 DEF S, Sends

(* Node n handles something: In are put in its lists, whose connections    *)
(* are up; the connections to Out are gone from it.                        *)
NodeResponds(C, L, Q, n, o, In, Out, L2, Q2) ==
  /\ Handled(n, C[n], o, In, Out)
  /\ \A p \in In : L[n][p] = "Up" /\ <<n, p>> \in Discovers
  /\ \A p \in Out : p \notin o.conns.unsol_conns
  /\ L2 \in [Nodes -> [Nodes -> LinkStates]]
  /\ \A a, b \in Nodes : L2[a][b] = IF a = n /\ b \in Out THEN "None" ELSE L[a][b]
  /\ Q2 \in [Nodes -> [Nodes -> Seq(Messages)]]
  /\ \A a, b \in Nodes : Q2[a][b] = Q[a][b] \/ (a = n /\ b \in Out) \/ (b = n /\ a \in Out)

LEMMA NodeHandles ==
  ASSUME NEW C, NEW L, NEW Q, InvOf(C, L, Q), NEW n \in Nodes, NEW o, NEW In, NEW Out, NEW L2, NEW Q2,
         NodeResponds(C, L, Q, n, o, In, Out, L2, Q2)
  PROVE  InvOf([C EXCEPT ![n] = o.conns], L2, SendAll(Q2, L2, n, o.sent))
<1>. DEFINE D == [C EXCEPT ![n] = o.conns]
            S == SendAll(Q2, L2, n, o.sent)
            c == C[n]
            d == o.conns
            s == o.sent
<1>0. /\ Handled(n, C[n], o, In, Out)
      /\ \A p \in In : L[n][p] = "Up" /\ <<n, p>> \in Discovers
      /\ \A p \in Out : p \notin o.conns.unsol_conns
      /\ L2 \in [Nodes -> [Nodes -> LinkStates]]
      /\ \A a, b \in Nodes : L2[a][b] = IF a = n /\ b \in Out THEN "None" ELSE L[a][b]
      /\ Q2 \in [Nodes -> [Nodes -> Seq(Messages)]]
      /\ \A a, b \in Nodes : Q2[a][b] = Q[a][b] \/ (a = n /\ b \in Out) \/ (b = n /\ a \in Out)
  BY DEF NodeResponds
<1>1. /\ C = [a \in Nodes |-> C[a]] /\ \A a \in Nodes : ListsOK(a, C[a])
      /\ \A a, b \in Nodes : PairOK(C, L, Q, a, b)
  BY DEF InvOf
<1>2. D = [a \in Nodes |-> D[a]] /\ \A a \in Nodes : D[a] = IF a = n THEN d ELSE C[a]
  BY <1>1
<1>3. /\ ListsOK(n, d) /\ s \in [Nodes -> Seq(Messages)]
      /\ \A p \in Nodes : Listed(d, p) <=> (Listed(c, p) \/ p \in In) /\ p \notin Out
      /\ d.unsol_conns \subseteq c.unsol_conns
      /\ \A p \in c.unsol_conns : p \in d.unsol_conns \/ Listed(d, p) \/ p \in Out
      /\ \A p \in Nodes \ Out :
           /\ s[p] = <<>> => (Sol(d, p) <=> Sol(c, p))
           /\ s[p] # <<>> => LastOf(s[p]) = News(Sol(d, p))
  BY <1>0 DEF Handled
<1>4. /\ S \in [Nodes -> [Nodes -> Seq(Messages)]]
      /\ \A a, b \in Nodes : S[a][b] = IF a = n /\ L2[n][b] = "Up" THEN Q2[a][b] \o s[b] ELSE Q2[a][b]
  <2>. HIDE DEF s
  <2>1. s \in [Nodes -> Seq(Messages)]
    BY <1>3
  <2>2. Sends(SendAll(Q2, L2, n, s), Q2, L2, n, s)
    BY <1>0, <2>1, SendAllTo
  <2> QED BY <2>2 DEF s, Sends
<1>5. \A a \in Nodes : ListsOK(a, D[a])
  BY <1>1, <1>2, <1>3
<1>. HIDE DEF D, S, c, d, s
<1>6. ASSUME NEW a \in Nodes, NEW b \in Nodes
      PROVE  PairOK(D, L2, S, a, b)
  <2>1. PairOK(C, L, Q, a, b) /\ L2[a][b] = IF a = n /\ b \in Out THEN "None" ELSE L[a][b]
    BY <1>0, <1>1
  <2>2. L2[a][b] = "Dialing" => <<a, b>> \in Discovers
    BY <2>1 DEF PairOK
  <2>3. Listed(D[a], b) => L2[a][b] \in Unsettled /\ <<a, b>> \in Discovers
    <3>1. CASE a = n
      <4>1. Listed(D[a], b) => (Listed(c, b) \/ b \in In) /\ b \notin Out
        BY <1>2, <1>3, <3>1
      <4>2. Listed(c, b) => L[n][b] \in Unsettled /\ <<n, b>> \in Discovers
        BY <2>1, <3>1 DEF PairOK, c
      <4>3. "Up" \in Unsettled
        BY DEF Unsettled
      <4> QED BY <1>0, <2>1, <3>1, <4>1, <4>2, <4>3
    <3>2. CASE a # n
      BY <1>2, <2>1, <3>2 DEF PairOK
    <3> QED BY <3>1, <3>2
  <2>4. b \in D[a].unsol_conns => L2[a][b] \in Unsettled
    <3>1. CASE a = n
      BY <1>0, <1>2, <1>3, <2>1, <3>1 DEF PairOK, c, d
    <3>2. CASE a # n
      BY <1>2, <2>1, <3>2 DEF PairOK
    <3> QED BY <3>1, <3>2
  <2>5. a = b => L2[a][b] = "None"
    BY <2>1 DEF PairOK
  <2>6. ASSUME L2[a][b] = "Up", L2[b][a] = "Up"
        PROVE  Agreed(D, S, a, b)
    <3>1. /\ L[a][b] = "Up" /\ L[b][a] = "Up" /\ a # b /\ Q2[a][b] = Q[a][b]
          /\ ~(a = n /\ b \in Out) /\ ~(b = n /\ a \in Out)
      <4>1. L[a][b] = "Up" /\ a # b /\ ~(a = n /\ b \in Out)
        BY <2>1, <2>5, <2>6
      <4>2. L[b][a] = "Up" /\ ~(b = n /\ a \in Out)
        BY <1>0, <2>6
      <4> QED BY <1>0, <4>1, <4>2
    <3>2. Agreed(C, Q, a, b)
      BY <2>1, <3>1 DEF PairOK
    <3>3. CASE a = n
      <4>. DEFINE q == Q[n][b]
                  t == s[b]
                  w == S[n][b]
      <4>1. q \in Seq(Messages) /\ t \in Seq(Messages) /\ w = q \o t
        <5>1. Q2[n][b] = q /\ q \in Seq(Messages) /\ t \in Seq(Messages)
          BY <1>3, <3>1, <3>3 DEF InvOf
        <5>2. L2[n][b] = "Up"
          BY <2>6, <3>3
        <5>3. w = Q2[n][b] \o t
          BY <1>4, <5>2
        <5> QED BY <5>1, <5>3
      <4>2. D[n] = d /\ D[b] = C[b]
        BY <1>2, <3>1, <3>3
      <4>3. /\ t = <<>> => (Sol(d, b) <=> Sol(c, b))
            /\ t # <<>> => LastOf(t) = News(Sol(d, b))
        BY <1>3, <3>1, <3>3
      <4>4. /\ <<b, n>> \in Discovers \/ b \in Acceptors
            /\ q = <<>> /\ Sol(c, b) /\ <<b, n>> \notin Discovers => n \in C[b].unsol_conns
            /\ q = <<>> /\ ~Sol(c, b) => n \notin C[b].unsol_conns
            /\ q # <<>> => LastOf(q) = News(Sol(c, b))
        BY <3>2, <3>3 DEF Agreed, c
      <4>. HIDE DEF q, t, w
      <4>5. CASE t = <<>>
        <5>1. w = q
          BY <4>1, <4>5
        <5>2. News(Sol(d, b)) = News(Sol(c, b))
          BY <4>3, <4>5 DEF News
        <5>3. /\ w = <<>> /\ Sol(d, b) /\ <<b, n>> \notin Discovers => n \in C[b].unsol_conns
              /\ w = <<>> /\ ~Sol(d, b) => n \notin C[b].unsol_conns
              /\ w # <<>> => LastOf(w) = News(Sol(d, b))
          BY <4>3, <4>4, <4>5, <5>1, <5>2
        <5> QED BY <3>3, <4>2, <4>4, <5>3 DEF Agreed, w
      <4>6. CASE t # <<>>
        <5>1. Len(t) \in Nat \ {0} /\ Len(q) \in Nat
          BY <4>1, <4>6
        <5>2. w # <<>> /\ LastOf(w) = LastOf(t)
          BY <4>1, <5>1 DEF LastOf
        <5>3. LastOf(w) = News(Sol(d, b))
          BY <4>3, <4>6, <5>2
        <5> QED BY <3>3, <4>2, <4>4, <5>2, <5>3 DEF Agreed, w
      <4> QED BY <4>5, <4>6
    <3>4. CASE a # n /\ b = n
      <4>1. D[a] = C[a] /\ D[n] = d /\ S[a][n] = Q[a][n]
        BY <1>2, <1>4, <3>1, <3>4
      <4>2. a \in c.unsol_conns => a \in d.unsol_conns \/ Listed(d, a)
        BY <1>3, <3>1, <3>4
      <4>3. Listed(d, a) => <<n, a>> \in Discovers
        <5>1. Listed(d, a) => Listed(c, a) \/ a \in In
          BY <1>3
        <5>2. Listed(c, a) => <<n, a>> \in Discovers
          BY <1>1 DEF PairOK, c
        <5> QED BY <1>0, <5>1, <5>2
      <4>4. a \notin c.unsol_conns => a \notin d.unsol_conns
        BY <1>3
      <4>5. /\ <<n, a>> \in Discovers \/ n \in Acceptors
            /\ Q[a][n] = <<>> /\ Sol(C[a], n) /\ <<n, a>> \notin Discovers => a \in c.unsol_conns
            /\ Q[a][n] = <<>> /\ ~Sol(C[a], n) => a \notin c.unsol_conns
            /\ Q[a][n] # <<>> => LastOf(Q[a][n]) = News(Sol(C[a], n))
        BY <3>2, <3>4 DEF Agreed, c
      <4> QED BY <3>4, <4>1, <4>2, <4>3, <4>4, <4>5 DEF Agreed
    <3>5. CASE a # n /\ b # n
      <4>1. D[a] = C[a] /\ D[b] = C[b] /\ S[a][b] = Q[a][b]
        BY <1>2, <1>4, <3>1, <3>5
      <4> QED BY <3>2, <4>1 DEF Agreed
    <3> QED BY <3>3, <3>4, <3>5
  <2> QED BY <2>2, <2>3, <2>4, <2>5, <2>6 DEF PairOK
<1>7. InvOf(D, L2, S)
  BY <1>0, <1>2, <1>4, <1>5, <1>6 DEF InvOf
<1> QED BY <1>7 DEF D, S, s, d

LEMMA NodeTakes ==
  ASSUME NEW C, NEW L, NEW Q, InvOf(C, L, Q), NEW n \in Nodes, NEW o, NEW In,
         Handled(n, C[n], o, In, {}), \A p \in In : L[n][p] = "Up" /\ <<n, p>> \in Discovers
  PROVE  InvOf([C EXCEPT ![n] = o.conns], L, SendAll(Q, L, n, o.sent))
<1>1. L \in [Nodes -> [Nodes -> LinkStates]] /\ Q \in [Nodes -> [Nodes -> Seq(Messages)]]
  BY DEF InvOf
<1>2. \A a, b \in Nodes : L[a][b] = IF a = n /\ b \in {} THEN "None" ELSE L[a][b]
  OBVIOUS
<1>3. \A a, b \in Nodes : Q[a][b] = Q[a][b] \/ (a = n /\ b \in {}) \/ (b = n /\ a \in {})
  OBVIOUS
<1>4. \A p \in {} : p \notin o.conns.unsol_conns
  OBVIOUS
<1>5. NodeResponds(C, L, Q, n, o, In, {}, L, Q)
  BY <1>1, <1>2, <1>3, <1>4 DEF NodeResponds
<1> QED BY <1>5, NodeHandles

(* E is Q without what n and m sent each other.                            *)
Empties(E, Q, n, m) ==
  /\ E \in [Nodes -> [Nodes -> Seq(Messages)]]
  /\ \A a, b \in Nodes : E[a][b] = IF (a = n /\ b = m) \/ (a = m /\ b = n) THEN <<>> ELSE Q[a][b]

LEMMA EmptiedTo ==
  ASSUME NEW Q \in [Nodes -> [Nodes -> Seq(Messages)]], NEW n \in Nodes, NEW m \in Nodes, n # m
  PROVE  Empties(Emptied(Q, n, m), Q, n, m)
<1>1. <<>> \in Seq(Messages)
  OBVIOUS
<1> QED BY <1>1 DEF Emptied, Empties

(* A new connection starts from nothing: neither end is in a list of the   *)
(* other, and no message is left from an earlier one.                      *)
LEMMA Connected ==
  ASSUME NEW C, NEW L, NEW Q, InvOf(C, L, Q), NEW n \in Nodes, NEW m \in Nodes, L[n][m] = "Dialing",
         (L[m][n] = "None" /\ m \in Acceptors) \/ L[m][n] = "Dialing",
         NEW L2, L2 = [L EXCEPT ![n][m] = "Up", ![m][n] = "Up"]
  PROVE  InvOf(C, L2, Emptied(Q, n, m)) /\ n # m
<1>. DEFINE E == Emptied(Q, n, m)
<1>1. /\ L \in [Nodes -> [Nodes -> LinkStates]] /\ Q \in [Nodes -> [Nodes -> Seq(Messages)]]
      /\ C = [a \in Nodes |-> C[a]] /\ \A a \in Nodes : ListsOK(a, C[a])
      /\ \A a, b \in Nodes : PairOK(C, L, Q, a, b)
  BY DEF InvOf
<1>2. n # m /\ <<n, m>> \in Discovers /\ (L[m][n] = "Dialing" => <<m, n>> \in Discovers)
  BY <1>1 DEF PairOK
<1>3. "Up" \in LinkStates /\ "Up" \in Unsettled /\ "None" \notin Unsettled /\ "Dialing" \notin Unsettled
  BY DEF LinkStates, Unsettled
<1>4. L2 \in [Nodes -> [Nodes -> LinkStates]]
      /\ \A a, b \in Nodes : L2[a][b] = IF (a = n /\ b = m) \/ (a = m /\ b = n) THEN "Up" ELSE L[a][b]
  BY <1>1, <1>2, <1>3
<1>5. E \in [Nodes -> [Nodes -> Seq(Messages)]]
      /\ \A a, b \in Nodes : E[a][b] = IF (a = n /\ b = m) \/ (a = m /\ b = n) THEN <<>> ELSE Q[a][b]
  <2>1. Empties(Emptied(Q, n, m), Q, n, m)
    BY <1>1, <1>2, EmptiedTo
  <2> QED BY <2>1 DEF Empties
<1>. HIDE DEF E
<1>6. ~Listed(C[n], m) /\ ~Listed(C[m], n) /\ m \notin C[n].unsol_conns /\ n \notin C[m].unsol_conns
  BY <1>1, <1>3 DEF PairOK
<1>7. ~Sol(C[n], m) /\ ~Sol(C[m], n)
  BY <1>6 DEF Sol, Listed
<1>8. ASSUME NEW a \in Nodes, NEW b \in Nodes
      PROVE  PairOK(C, L2, E, a, b)
  <2>1. PairOK(C, L, Q, a, b)
    BY <1>1
  <2>2. CASE a = n /\ b = m
    <3>1. Agreed(C, E, n, m)
      BY <1>2, <1>5, <1>6, <1>7 DEF Agreed
    <3> QED BY <1>2, <1>4, <1>6, <2>2, <3>1 DEF PairOK
  <2>3. CASE a = m /\ b = n
    <3>1. Agreed(C, E, m, n)
      <4>1. <<n, m>> \in Discovers
        BY <1>2
      <4> QED BY <1>5, <1>6, <1>7, <4>1 DEF Agreed
    <3> QED BY <1>2, <1>4, <1>6, <2>3, <3>1 DEF PairOK
  <2>4. CASE ~(a = n /\ b = m) /\ ~(a = m /\ b = n)
    <3>1. L2[a][b] = L[a][b] /\ L2[b][a] = L[b][a] /\ E[a][b] = Q[a][b]
      <4>1. L2[a][b] = L[a][b]
        BY <1>4, <2>4
      <4>2. L2[b][a] = L[b][a]
        BY <1>4, <2>4
      <4>3. E[a][b] = Q[a][b]
        BY <1>5, <2>4
      <4> QED BY <4>1, <4>2, <4>3
    <3> QED BY <2>1, <3>1 DEF PairOK, Agreed
  <2> QED BY <2>2, <2>3, <2>4
<1>9. InvOf(C, L2, E)
  BY <1>1, <1>4, <1>5, <1>8 DEF InvOf
<1> QED BY <1>2, <1>4, <1>9 DEF E

(* m reads the next message of n: what it then knows of n is what that     *)
(* message says.                                                           *)
LEMMA ReadsNext ==
  ASSUME NEW C, NEW L, NEW Q, InvOf(C, L, Q), NEW n \in Nodes, NEW m \in Nodes,
         L[m][n] = "Up", Q[n][m] # <<>>,
         NEW d, ListsOK(m, d), d.conn_map = C[m].conn_map, d.unsol_conns \ {n} = C[m].unsol_conns \ {n},
         NEW L2, L2 = L \/ L2 = [L EXCEPT ![m][n] = "Closing"],
         L2[m][n] = "Up" /\ m \in Acceptors /\ Head(Q[n][m]) = "SUBSCRIBE" => n \in d.unsol_conns,
         L2[m][n] = "Up" /\ Head(Q[n][m]) = "UNSUBSCRIBE" => n \notin d.unsol_conns
  PROVE  InvOf([C EXCEPT ![m] = d], L2, [Q EXCEPT ![n][m] = Tail(@)])
<1>. DEFINE D == [C EXCEPT ![m] = d]
            R == [Q EXCEPT ![n][m] = Tail(@)]
            q == Q[n][m]
            t == R[n][m]
<1>1. /\ L \in [Nodes -> [Nodes -> LinkStates]] /\ Q \in [Nodes -> [Nodes -> Seq(Messages)]]
      /\ C = [a \in Nodes |-> C[a]] /\ \A a \in Nodes : ListsOK(a, C[a])
      /\ \A a, b \in Nodes : PairOK(C, L, Q, a, b)
  BY DEF InvOf
<1>2. n # m
  BY <1>1 DEF PairOK
<1>3. D = [a \in Nodes |-> D[a]] /\ \A a \in Nodes : D[a] = IF a = m THEN d ELSE C[a]
  BY <1>1
<1>4. q \in Seq(Messages) /\ q # <<>> /\ Tail(q) \in Seq(Messages)
  BY <1>1
<1>5. R \in [Nodes -> [Nodes -> Seq(Messages)]] /\ t = Tail(q)
      /\ \A a, b \in Nodes : ~(a = n /\ b = m) => R[a][b] = Q[a][b]
  BY <1>1, <1>4
<1>. HIDE DEF D, R
<1>6. /\ L2 \in [Nodes -> [Nodes -> LinkStates]] /\ L2[m][n] \in {"Up", "Closing"}
      /\ \A a, b \in Nodes : ~(a = m /\ b = n) => L2[a][b] = L[a][b]
  <2>1. CASE L2 = L
    BY <1>1, <2>1
  <2>2. CASE L2 = [L EXCEPT ![m][n] = "Closing"]
    <3>1. "Closing" \in LinkStates
      BY DEF LinkStates
    <3> QED BY <1>1, <2>2, <3>1
  <2> QED BY <2>1, <2>2
<1>7. \A p : (Listed(d, p) <=> Listed(C[m], p)) /\ (Sol(d, p) <=> Sol(C[m], p))
  BY DEF Listed, Sol
<1>8. ASSUME NEW a \in Nodes, NEW b \in Nodes
      PROVE  PairOK(D, L2, R, a, b)
  <2>1. PairOK(C, L, Q, a, b)
    BY <1>1
  <2>2. (Listed(D[a], b) <=> Listed(C[a], b)) /\ (Sol(D[a], b) <=> Sol(C[a], b))
    BY <1>3, <1>7
  <2>3. L2[a][b] = L[a][b] \/ (a = m /\ b = n /\ L2[a][b] \in {"Up", "Closing"} /\ L[a][b] = "Up")
    BY <1>6
  <2>4. "Up" \in Unsettled /\ "Closing" \in Unsettled
    BY DEF Unsettled
  <2>5. L2[a][b] = "Dialing" => <<a, b>> \in Discovers
    BY <2>1, <2>3 DEF PairOK
  <2>6. Listed(D[a], b) => L2[a][b] \in Unsettled /\ <<a, b>> \in Discovers
    BY <2>1, <2>2, <2>3, <2>4 DEF PairOK
  <2>7. b \in D[a].unsol_conns => L2[a][b] \in Unsettled
    <3>1. CASE a = m /\ b = n
      BY <2>3, <2>4, <3>1, <1>6
    <3>2. CASE ~(a = m /\ b = n)
      <4>1. b \in D[a].unsol_conns => b \in C[a].unsol_conns
        BY <1>3, <3>2
      <4> QED BY <2>1, <2>3, <3>2, <4>1 DEF PairOK
    <3> QED BY <3>1, <3>2
  <2>8. a = b => L2[a][b] = "None"
    BY <1>2, <2>1, <2>3 DEF PairOK
  <2>9. ASSUME L2[a][b] = "Up", L2[b][a] = "Up"
        PROVE  Agreed(D, R, a, b)
    <3>1. L[a][b] = "Up" /\ L[b][a] = "Up"
      BY <1>6, <2>9
    <3>2. Agreed(C, Q, a, b)
      BY <2>1, <3>1 DEF PairOK
    <3>3. CASE a = n /\ b = m
      <4>1. /\ <<m, n>> \in Discovers \/ m \in Acceptors
            /\ q # <<>> => LastOf(q) = News(Sol(C[n], m))
        BY <3>2, <3>3 DEF Agreed
      <4>2. D[n] = C[n] /\ D[m] = d /\ L2[m][n] = "Up"
        BY <1>2, <1>3, <2>9, <3>3
      <4>. HIDE DEF q, t
      <4>3. CASE t = <<>>
        <5>1. Len(q) = 1
          <6>. DEFINE k == Len(q)
                      l == Len(Tail(q))
          <6>1. k \in Nat /\ k # 0 /\ l = k - 1
            BY <1>4
          <6>2. l = 0
            <7>1. Tail(q) = <<>>
              BY <1>5, <4>3
            <7>2. Len(<<>>) = 0
              OBVIOUS
            <7> QED BY Zenon, <7>2, <7>1
          <6>. HIDE DEF k, l
          <6>3. k = 1
            BY <6>1, <6>2
          <6> QED BY <6>3 DEF k
        <5>2. Head(q) = LastOf(q)
          BY <1>4, <5>1 DEF LastOf
        <5>3. Sol(C[n], m) => Head(q) = "SUBSCRIBE"
          BY <1>4, <4>1, <5>2 DEF News
        <5>4. ~Sol(C[n], m) => Head(q) = "UNSUBSCRIBE"
          BY <1>4, <4>1, <5>2 DEF News
        <5>5. Sol(C[n], m) /\ <<m, n>> \notin Discovers => n \in d.unsol_conns
          BY <4>1, <4>2, <5>3 DEF q
        <5>6. ~Sol(C[n], m) => n \notin d.unsol_conns
          BY <4>2, <5>4 DEF q
        <5> QED BY <3>3, <4>1, <4>2, <4>3, <5>5, <5>6 DEF Agreed, t
      <4>4. CASE t # <<>>
        <5>1. LastOf(t) = LastOf(q)
          <6>0. Len(q) \in Nat /\ Len(q) # 0 /\ Len(t) = Len(q) - 1
            <7>1. t = Tail(q)
              BY <1>5
            <7>2. Len(q) \in Nat /\ Len(q) # 0 /\ Len(Tail(q)) = Len(q) - 1
              BY <1>4
            <7> QED BY ONLY <7>1, <7>2
          <6>1. Len(q) \in Nat /\ Len(q) >= 2 /\ Len(t) = Len(q) - 1
            <7>1. t \in Seq(Messages)
              BY <1>4, <1>5
            <7>2. Len(t) # 0
              BY ONLY EmptySeq, <7>1, <4>4
            <7> QED BY ONLY <6>0, <7>2
          <6>2. t[Len(t)] = q[Len(t) + 1]
            BY <1>4, <1>5, <6>1
          <6> QED BY <6>1, <6>2 DEF LastOf
        <5> QED BY <1>4, <3>3, <4>1, <4>2, <4>4, <5>1 DEF Agreed, t
      <4> QED BY <4>3, <4>4
    <3>4. CASE ~(a = n /\ b = m)
      <4>1. R[a][b] = Q[a][b]
        BY <1>5, <3>4
      <4>2. a \in D[b].unsol_conns <=> a \in C[b].unsol_conns
        BY <1>3, <3>4
      <4>3. News(Sol(D[a], b)) = News(Sol(C[a], b))
        BY <2>2 DEF News
      <4> QED BY <2>2, <3>2, <4>1, <4>2, <4>3 DEF Agreed
    <3> QED BY <3>3, <3>4
  <2> QED BY <2>5, <2>6, <2>7, <2>8, <2>9 DEF PairOK
<1>9. \A a \in Nodes : ListsOK(a, D[a])
  BY <1>1, <1>3
<1>10. InvOf(D, L2, R)
  BY <1>3, <1>5, <1>6, <1>8, <1>9 DEF InvOf
<1> QED BY <1>10 DEF D, R

LEMMA InvAtInit == Init => ConnsInv
<1> SUFFICES ASSUME Init PROVE ConnsInv
  OBVIOUS
<1>. DEFINE none == [conn_map |-> [key \in {} |-> [sol_conns |-> {}, sol_standby_conns |-> {}]],
                     unsol_conns |-> {}, dangling |-> 0, blacklist_addr |-> {}]
<1>1. \A n \in Nodes : conns[n] = none
  BY DEF Init
<1>2. conns = [n \in Nodes |-> conns[n]]
  BY DEF Init
<1>3. ASSUME NEW n \in Nodes
      PROVE  ListsOK(n, none)
  <2>1. MaxUnsol[n] \in Nat /\ Cardinality({}) = 0
    BY FS_EmptySet, ConnsAssumption DEF ConnsAssumption
  <2>2. DOMAIN none.conn_map = {} /\ none.conn_map = [key \in DOMAIN none.conn_map |-> none.conn_map[key]]
    OBVIOUS
  <2>3. none = [conn_map |-> none.conn_map, unsol_conns |-> none.unsol_conns, dangling |-> none.dangling, blacklist_addr |-> {}]
        /\ none.unsol_conns = {} /\ none.dangling = 0
    OBVIOUS
  <2>. HIDE DEF none
  <2> QED BY <2>1, <2>2, <2>3 DEF ListsOK, Unsol
<1>4. \A p : ~Listed(none, p)
  BY DEF Listed
<1>5. none.unsol_conns = {}
  OBVIOUS
<1>. HIDE DEF none
<1>6. link \in [Nodes -> [Nodes -> LinkStates]] /\ \A n, m \in Nodes : link[n][m] = "None"
  BY DEF Init, LinkStates
<1>7. queue \in [Nodes -> [Nodes -> Seq(Messages)]]
  BY DEF Init
<1>8. \A n, m \in Nodes : PairOK(conns, link, queue, n, m)
  BY <1>1, <1>4, <1>5, <1>6 DEF PairOK
<1>9. closes \in 0 .. MaxCloses
  BY ConnsAssumption DEF Init, ConnsAssumption
<1> QED BY <1>1, <1>2, <1>3, <1>6, <1>7, <1>8, <1>9 DEF ConnsInv, InvOf

LEMMA InvUnchanged ==
  ASSUME ConnsInv, UNCHANGED vars
  PROVE  ConnsInv'
BY DEF ConnsInv, InvOf, PairOK, Agreed, vars

LEMMA DialKeeps ==
  ASSUME NEW C, NEW L, NEW Q, InvOf(C, L, Q), NEW n \in Nodes, NEW m \in Nodes,
         L[n][m] = "None", <<n, m>> \in Discovers
  PROVE  InvOf(C, [L EXCEPT ![n][m] = "Dialing"], Q)
<1>. DEFINE K == [L EXCEPT ![n][m] = "Dialing"]
<1>1. L \in [Nodes -> [Nodes -> LinkStates]] /\ \A a, b \in Nodes : PairOK(C, L, Q, a, b)
  BY DEF InvOf
<1>2. "Dialing" \in LinkStates /\ "None" \notin Unsettled /\ n # m
  BY ConnsAssumption DEF LinkStates, Unsettled, ConnsAssumption
<1>3. K \in [Nodes -> [Nodes -> LinkStates]]
      /\ \A a, b \in Nodes : K[a][b] = IF a = n /\ b = m THEN "Dialing" ELSE L[a][b]
  BY <1>1, <1>2
<1>. HIDE DEF K
<1>4. ASSUME NEW a \in Nodes, NEW b \in Nodes
      PROVE  PairOK(C, K, Q, a, b)
  <2>1. PairOK(C, L, Q, a, b)
    BY <1>1
  <2>2. K[a][b] = "Up" /\ K[b][a] = "Up" => L[a][b] = "Up" /\ L[b][a] = "Up"
    BY <1>3
  <2>3. CASE a = n /\ b = m
    BY <1>2, <1>3, <2>1, <2>3 DEF PairOK
  <2>4. CASE ~(a = n /\ b = m)
    <3>1. K[a][b] = L[a][b]
      BY <1>3, <2>4
    <3> QED BY <2>1, <2>2, <3>1 DEF PairOK
  <2> QED BY <2>3, <2>4
<1> QED BY <1>3, <1>4 DEF InvOf, K

LEMMA CloseKeeps ==
  ASSUME NEW C, NEW L, NEW Q, InvOf(C, L, Q), NEW n \in Nodes, NEW m \in Nodes, L[n][m] = "Up"
  PROVE  InvOf(C, [L EXCEPT ![n][m] = "Closing"], Q)
<1>. DEFINE K == [L EXCEPT ![n][m] = "Closing"]
<1>1. L \in [Nodes -> [Nodes -> LinkStates]] /\ \A a, b \in Nodes : PairOK(C, L, Q, a, b)
  BY DEF InvOf
<1>2. "Closing" \in LinkStates /\ "Closing" \in Unsettled
  BY DEF LinkStates, Unsettled
<1>3. K \in [Nodes -> [Nodes -> LinkStates]]
      /\ \A a, b \in Nodes : K[a][b] = IF a = n /\ b = m THEN "Closing" ELSE L[a][b]
  BY <1>1, <1>2
<1>. HIDE DEF K
<1>4. ASSUME NEW a \in Nodes, NEW b \in Nodes
      PROVE  PairOK(C, K, Q, a, b)
  <2>1. PairOK(C, L, Q, a, b)
    BY <1>1
  <2>2. K[a][b] = "Up" /\ K[b][a] = "Up" => L[a][b] = "Up" /\ L[b][a] = "Up"
    BY <1>3
  <2>3. CASE a = n /\ b = m
    BY <1>2, <1>3, <2>1, <2>3 DEF PairOK
  <2>4. CASE ~(a = n /\ b = m)
    <3>1. K[a][b] = L[a][b]
      BY <1>3, <2>4
    <3> QED BY <2>1, <2>2, <3>1 DEF PairOK
  <2> QED BY <2>3, <2>4
<1> QED BY <1>3, <1>4 DEF InvOf, K

LEMMA SolicitHandled ==
  ASSUME NEW n \in Nodes, NEW m \in Nodes, NEW c, ListsOK(n, c)
  PROVE  Handled(n, c, add_sol_conn(n, c, ClientKey[m], m), {m}, {})
<1>1. ClientKey[m] \in ClientKeys
  BY ConnsAssumption DEF ConnsAssumption
<1>2. Turned(n, ClientKey[m], c, add_sol_conn(n, c, ClientKey[m], m), {m}, {})
  BY AddSol
<1>3. \A p \in {m} : ClientKey[p] = ClientKey[m]
  OBVIOUS
<1> QED BY <1>1, <1>2, <1>3, OneTurnHandled

LEMMA SubscribeKeeps ==
  ASSUME ConnsInv, NEW n \in Nodes, NEW m \in Nodes, subscribe(n, m)
  PROVE  InvOf(conns', link', queue')
<1>1. InvOf(conns, link, queue) /\ <<n, m>> \in Discovers
  BY DEF ConnsInv, subscribe
<1>2. CASE link[n][m] = "None" /\ link' = [link EXCEPT ![n][m] = "Dialing"] /\ UNCHANGED <<conns, queue>>
  <2>1. InvOf(conns, [link EXCEPT ![n][m] = "Dialing"], queue)
    BY <1>1, <1>2, DialKeeps
  <2> QED BY <1>2, <2>1
<1>3. CASE link[n][m] = "Up" /\ Take(n, add_sol_conn(n, conns[n], ClientKey[m], m)) /\ UNCHANGED link
  <2>. DEFINE o == add_sol_conn(n, conns[n], ClientKey[m], m)
  <2>1. ListsOK(n, conns[n])
    BY <1>1 DEF InvOf
  <2>2. Handled(n, conns[n], o, {m}, {})
    BY <2>1, SolicitHandled
  <2>3. conns' = [conns EXCEPT ![n] = o.conns] /\ queue' = SendAll(queue, link, n, o.sent) /\ link' = link
    BY <1>3 DEF Take
  <2>. HIDE DEF o
  <2>4. \A p \in {m} : link[n][p] = "Up" /\ <<n, p>> \in Discovers
    BY <1>1, <1>3
  <2>5. InvOf([conns EXCEPT ![n] = o.conns], link, SendAll(queue, link, n, o.sent))
    BY <1>1, <2>2, <2>4, NodeTakes
  <2> QED BY <2>3, <2>5
<1> QED BY <1>2, <1>3 DEF subscribe

LEMMA DialedKeeps ==
  ASSUME ConnsInv, NEW n \in Nodes, NEW m \in Nodes, did_dial(n, m)
  PROVE  InvOf(conns', link', queue')
<1>. DEFINE o == add_sol_conn(n, conns[n], ClientKey[m], m)
            e == add_sol_conn(m, conns[m], ClientKey[n], n)
            C == [conns EXCEPT ![n] = o.conns]
            E == Emptied(queue, n, m)
            Q == SendAll(E, link', n, o.sent)
<1>1. InvOf(conns, link, queue) /\ link[n][m] = "Dialing" /\ link' = [link EXCEPT ![n][m] = "Up", ![m][n] = "Up"]
  BY DEF ConnsInv, did_dial
<1>2. (link[m][n] = "None" /\ m \in Acceptors) \/ link[m][n] = "Dialing"
  BY DEF did_dial
<1>3. PICK l : l = link'
  OBVIOUS
<1>4. /\ InvOf(conns, l, E) /\ n # m /\ l[n][m] = "Up" /\ l[m][n] = "Up"
      /\ <<n, m>> \in Discovers /\ (link[m][n] = "Dialing" => <<m, n>> \in Discovers)
  <2>1. l = [link EXCEPT ![n][m] = "Up", ![m][n] = "Up"]
    BY <1>1, <1>3
  <2>2. InvOf(conns, l, Emptied(queue, n, m))
    BY <1>1, <1>2, <2>1, Connected
  <2>3. n # m
    BY <1>1, <1>2, <2>1, Connected
  <2>4. l[n][m] = "Up" /\ l[m][n] = "Up"
    <3>1. link \in [Nodes -> [Nodes -> LinkStates]]
      BY <1>1 DEF InvOf
    <3> QED BY <2>1, <2>3, <3>1
  <2>5. PairOK(conns, link, queue, n, m) /\ PairOK(conns, link, queue, m, n)
    BY <1>1 DEF InvOf
  <2> QED BY <1>1, <2>2, <2>3, <2>4, <2>5 DEF PairOK
<1>5. ListsOK(n, conns[n]) /\ ListsOK(m, conns[m])
  BY <1>1 DEF InvOf
<1>6. Handled(n, conns[n], o, {m}, {}) /\ Handled(m, conns[m], e, {n}, {})
  BY <1>5, SolicitHandled
<1>7. \A p \in {m} : l[n][p] = "Up" /\ <<n, p>> \in Discovers
  BY <1>4
<1>8. \/ conns' = C /\ queue' = Q
      \/ /\ link[m][n] = "Dialing"
         /\ conns' = [conns EXCEPT ![n] = o.conns, ![m] = e.conns]
         /\ queue' = SendAll(Q, link', m, e.sent)
  BY DEF did_dial
<1>. HIDE DEF o, e, E
<1>9. InvOf(C, l, SendAll(E, l, n, o.sent))
  BY <1>4, <1>6, <1>7, NodeTakes
<1>10. CASE conns' = C /\ queue' = Q
  BY <1>3, <1>9, <1>10
<1>11. CASE /\ link[m][n] = "Dialing"
            /\ conns' = [conns EXCEPT ![n] = o.conns, ![m] = e.conns]
            /\ queue' = SendAll(Q, link', m, e.sent)
  <2>1. \A p \in {n} : l[m][p] = "Up" /\ <<m, p>> \in Discovers
    BY <1>4, <1>11
  <2>2. C[m] = conns[m]
    BY <1>1, <1>4 DEF InvOf
  <2>3. conns' = [C EXCEPT ![m] = e.conns]
    BY <1>1, <1>4, <1>11 DEF InvOf
  <2>. DEFINE S == SendAll(E, l, n, o.sent)
  <2>4. queue' = SendAll(S, l, m, e.sent)
    BY <1>3, <1>11
  <2>. HIDE DEF C, S
  <2>5. InvOf([C EXCEPT ![m] = e.conns], l, SendAll(S, l, m, e.sent))
    BY <1>6, <1>9, <2>1, <2>2, NodeTakes DEF S
  <2> QED BY <1>3, <2>3, <2>4, <2>5
<1> QED BY <1>8, <1>10, <1>11

LEMMA SendSilence ==
  ASSUME NEW Q \in [Nodes -> [Nodes -> Seq(Messages)]], NEW L, NEW n \in Nodes
  PROVE  SendAll(Q, L, n, Silence) = Q
<1>1. Silence \in [Nodes -> Seq(Messages)]
  BY DEF Silence
<1>. DEFINE S == SendAll(Q, L, n, Silence)
<1>2. Sends(S, Q, L, n, Silence)
  BY <1>1, SendAllTo
<1>3. \A a, b \in Nodes : Q[a][b] \o Silence[b] = Q[a][b]
  BY DEF Silence
<1>. HIDE DEF S
<1>4. \A a, b \in Nodes : S[a][b] = Q[a][b]
  BY <1>2, <1>3 DEF Sends
<1>5. S \in [Nodes -> [Nodes -> Seq(Messages)]]
  BY <1>2 DEF Sends
<1>6. \A a \in Nodes : S[a] = Q[a]
  BY <1>4, <1>5
<1>7. S = Q
  BY <1>5, <1>6
<1> QED BY <1>7 DEF S

LEMMA SubscribedKeeps ==
  ASSUME ConnsInv, NEW n \in Nodes, NEW m \in Nodes, did_recv_SUBSCRIBE(n, m)
  PROVE  InvOf(conns', link', queue')
<1>. DEFINE c == conns[m]
            d == add_unsol_conn(m, c, n)
            rest == [queue EXCEPT ![n][m] = Tail(@)]
<1>1. InvOf(conns, link, queue) /\ link[m][n] = "Up" /\ queue[n][m] # <<>> /\ Head(queue[n][m]) = "SUBSCRIBE"
  BY DEF ConnsInv, did_recv_SUBSCRIBE, Received
<1>2. ListsOK(m, c) /\ c.blacklist_addr = {}
  BY <1>1 DEF InvOf, ListsOK
<1>3. queue \in [Nodes -> [Nodes -> Seq(Messages)]] /\ conns = [a \in Nodes |-> conns[a]]
  BY <1>1 DEF InvOf
<1>4. rest \in [Nodes -> [Nodes -> Seq(Messages)]]
  <2>1. Tail(queue[n][m]) \in Seq(Messages)
    BY <1>1, <1>3
  <2> QED BY <1>3, <2>1
<1>5. SendAll(rest, link, m, Silence) = rest
  <2>. HIDE DEF rest
  <2> QED BY <1>4, SendSilence
<1>6. CASE m \in Acceptors
  <2>1. /\ conns' = [conns EXCEPT ![m] = d] /\ queue' = rest
        /\ link' = IF n \notin d.unsol_conns THEN [link EXCEPT ![m][n] = "Closing"] ELSE link
    <3>. HIDE DEF rest, d
    <3> QED BY <1>2, <1>5, <1>6 DEF did_recv_SUBSCRIBE, Outcome, Refuses, rest, d
  <2>2. ListsOK(m, d) /\ d.conn_map = c.conn_map /\ d.unsol_conns \ {n} = c.unsol_conns \ {n}
    <3>1. CASE Unsol(c) >= MaxUnsol[m]
      BY <1>2, <3>1 DEF add_unsol_conn
    <3>2. CASE ~(Unsol(c) >= MaxUnsol[m])
      <4>1. PICK f, w, g : c = [conn_map |-> f, unsol_conns |-> w, dangling |-> g, blacklist_addr |-> {}]
        BY <1>2 DEF ListsOK
      <4>. HIDE DEF c
      <4>2. d = [conn_map |-> f, unsol_conns |-> w \cup {n}, dangling |-> g, blacklist_addr |-> {}]
        BY <3>2, <4>1 DEF add_unsol_conn
      <4>. HIDE DEF d
      <4>3. /\ w \subseteq Nodes /\ g \in Nat /\ Cardinality(w) + g <= MaxUnsol[m]
            /\ ~(Cardinality(w) + g >= MaxUnsol[m])
        BY <1>2, <3>2, <4>1 DEF ListsOK, Unsol
      <4>4. IsFiniteSet(w) /\ MaxUnsol[m] \in Nat
        BY <4>3, FS_Subset, ConnsAssumption DEF ConnsAssumption
      <4>5. Cardinality(w) \in Nat /\ (Cardinality(w \cup {n}) = Cardinality(w) \/ Cardinality(w \cup {n}) = Cardinality(w) + 1)
        BY <4>4, FS_AddElement, FS_CardinalityType
      <4>6. Cardinality(w \cup {n}) + g <= MaxUnsol[m]
        BY <4>3, <4>4, <4>5
      <4>7. d.conn_map = f /\ d.unsol_conns = w \cup {n} /\ d.dangling = g /\ c.conn_map = f /\ c.unsol_conns = w
        BY <4>1, <4>2
      <4>8. ListsOK(m, d)
        <5>1. d = [conn_map |-> d.conn_map, unsol_conns |-> d.unsol_conns, dangling |-> d.dangling, blacklist_addr |-> {}]
          BY <4>2, <4>7
        <5>2. Unsol(d) <= MaxUnsol[m] /\ d.unsol_conns \subseteq Nodes
          BY <4>3, <4>6, <4>7 DEF Unsol
        <5> QED BY <1>2, <4>3, <4>7, <5>1, <5>2 DEF ListsOK
      <4> QED BY <4>7, <4>8
    <3> QED BY <3>1, <3>2
  <2>3. link' = link \/ link' = [link EXCEPT ![m][n] = "Closing"]
    BY <2>1
  <2>4. link'[m][n] = "Up" => n \in d.unsol_conns
    <3>1. link \in [Nodes -> [Nodes -> LinkStates]]
      BY <1>1 DEF InvOf
    <3>. HIDE DEF d
    <3> QED BY <2>1, <3>1
  <2>. HIDE DEF d
  <2>5. PICK l : l = link'
    OBVIOUS
  <2>6. InvOf([conns EXCEPT ![m] = d], l, [queue EXCEPT ![n][m] = Tail(@)])
    BY <1>1, <2>2, <2>3, <2>4, <2>5, ReadsNext
  <2> QED BY <2>1, <2>5, <2>6
<1>7. CASE m \notin Acceptors
  <2>1. conns' = conns /\ link' = link /\ queue' = rest
    BY <1>7 DEF did_recv_SUBSCRIBE
  <2>2. InvOf([conns EXCEPT ![m] = c], link, [queue EXCEPT ![n][m] = Tail(@)])
    <3>. HIDE DEF c
    <3>1. c = conns[m]
      BY DEF c
    <3> QED BY <1>1, <1>2, <1>7, <3>1, ReadsNext
  <2>3. [conns EXCEPT ![m] = c] = conns
    BY <1>3
  <2> QED BY <2>1, <2>2, <2>3
<1> QED BY <1>6, <1>7

LEMMA UnsubscribedKeeps ==
  ASSUME ConnsInv, NEW n \in Nodes, NEW m \in Nodes, did_recv_UNSUBSCRIBE(n, m)
  PROVE  InvOf(conns', link', queue')
<1>. DEFINE c == conns[m]
            d == [c EXCEPT !.unsol_conns = @ \ {n}]
<1>1. InvOf(conns, link, queue) /\ link[m][n] = "Up" /\ queue[n][m] # <<>> /\ Head(queue[n][m]) = "UNSUBSCRIBE"
  BY DEF ConnsInv, did_recv_UNSUBSCRIBE, Received
<1>2. ListsOK(m, c) /\ conns = [a \in Nodes |-> conns[a]]
  BY <1>1 DEF InvOf
<1>3. conns' = [conns EXCEPT ![m] = d] /\ link' = link /\ queue' = [queue EXCEPT ![n][m] = Tail(@)]
  BY <1>2 DEF did_recv_UNSUBSCRIBE
<1>4. ListsOK(m, d) /\ d.conn_map = c.conn_map /\ d.unsol_conns = c.unsol_conns \ {n}
  <2>1. PICK f, w, g : c = [conn_map |-> f, unsol_conns |-> w, dangling |-> g, blacklist_addr |-> {}]
    BY <1>2 DEF ListsOK
  <2>. HIDE DEF c
  <2>2. d = [conn_map |-> f, unsol_conns |-> w \ {n}, dangling |-> g, blacklist_addr |-> {}]
    BY <2>1
  <2>. HIDE DEF d
  <2>3. d.conn_map = f /\ d.unsol_conns = w \ {n} /\ d.dangling = g /\ c.conn_map = f /\ c.unsol_conns = w /\ c.dangling = g
    BY <2>1, <2>2
  <2>4. d = [conn_map |-> d.conn_map, unsol_conns |-> d.unsol_conns, dangling |-> d.dangling, blacklist_addr |-> {}]
    BY <2>2, <2>3
  <2>5. d.unsol_conns \subseteq c.unsol_conns
    BY <2>3
  <2>6. d.unsol_conns \subseteq Nodes /\ Cardinality(d.unsol_conns) + c.dangling <= MaxUnsol[m]
    BY <1>2, <2>5, FewerSubscribers
  <2>7. ListsOK(m, d)
    BY <1>2, <2>3, <2>4, <2>6 DEF ListsOK, Unsol
  <2> QED BY <2>3, <2>7
<1>. HIDE DEF c, d
<1>5. c = conns[m]
  BY DEF c
<1>6. InvOf([conns EXCEPT ![m] = d], link, [queue EXCEPT ![n][m] = Tail(@)])
  BY <1>1, <1>4, <1>5, ReadsNext
<1> QED BY <1>3, <1>6

LEMMA GoneKeeps ==
  ASSUME ConnsInv, NEW n \in Nodes, NEW m \in Nodes, Gone(n, m), link[n][m] # "None"
  PROVE  InvOf(conns', link', queue')
<1>1. InvOf(conns, link, queue) /\ link' = [link EXCEPT ![n][m] = "None"]
  BY DEF ConnsInv, Gone
<1>2. PICK o \in did_close(n, conns[n], m, 0) :
        conns' = [conns EXCEPT ![n] = o.conns] /\ queue' = SendAll(Emptied(queue, n, m), link', n, o.sent)
  BY DEF Gone
<1>3. /\ link \in [Nodes -> [Nodes -> LinkStates]] /\ queue \in [Nodes -> [Nodes -> Seq(Messages)]]
      /\ ListsOK(n, conns[n]) /\ PairOK(conns, link, queue, n, m)
  BY <1>1 DEF InvOf
<1>4. Handled(n, conns[n], o, {}, {m}) /\ m \notin o.conns.unsol_conns
  BY <1>2, <1>3, ClosedHandled
<1>5. n # m
  BY <1>3 DEF PairOK
<1>. DEFINE E == Emptied(queue, n, m)
<1>6. E \in [Nodes -> [Nodes -> Seq(Messages)]]
      /\ \A a, b \in Nodes : E[a][b] = queue[a][b] \/ (a = n /\ b \in {m}) \/ (b = n /\ a \in {m})
  <2>1. Empties(E, queue, n, m)
    BY <1>3, <1>5, EmptiedTo
  <2>. HIDE DEF E
  <2> QED BY <2>1 DEF Empties
<1>7. PICK l : l = link'
  OBVIOUS
<1>8. l \in [Nodes -> [Nodes -> LinkStates]]
      /\ \A a, b \in Nodes : l[a][b] = IF a = n /\ b \in {m} THEN "None" ELSE link[a][b]
  <2>1. "None" \in LinkStates
    BY DEF LinkStates
  <2> QED BY <1>1, <1>3, <1>7, <2>1
<1>9. /\ \A p \in {} : link[n][p] = "Up" /\ <<n, p>> \in Discovers
      /\ \A p \in {m} : p \notin o.conns.unsol_conns
  BY <1>4
<1>. HIDE DEF E
<1>10. NodeResponds(conns, link, queue, n, o, {}, {m}, l, E)
  BY <1>4, <1>6, <1>8, <1>9 DEF NodeResponds
<1>11. InvOf([conns EXCEPT ![n] = o.conns], l, SendAll(E, l, n, o.sent))
  BY <1>1, <1>10, NodeHandles
<1> QED BY <1>2, <1>7, <1>11 DEF E

LEMMA SelectionKeeps ==
  ASSUME ConnsInv, NEW n \in Nodes, peer_selection_timer_cb(n)
  PROVE  InvOf(conns', link', queue')
<1>1. InvOf(conns, link, queue) /\ ListsOK(n, conns[n])
  BY DEF ConnsInv, InvOf
<1>. DEFINE c == conns[n]
            turns == [key \in DOMAIN c.conn_map |-> manage_subscriptions(n, c, key)]
<1>2. PICK o \in EachCluster(c, turns) :
        conns' = [conns EXCEPT ![n] = o.conns] /\ queue' = SendAll(queue, link, n, o.sent) /\ link' = link
  BY DEF peer_selection_timer_cb, Take
<1>3. Handled(n, conns[n], o, {}, {})
  BY <1>1, <1>2, ManagedHandled
<1>4. \A p \in {} : link[n][p] = "Up" /\ <<n, p>> \in Discovers
  OBVIOUS
<1>5. InvOf([conns EXCEPT ![n] = o.conns], link, SendAll(queue, link, n, o.sent))
  BY <1>1, <1>3, <1>4, NodeTakes
<1> QED BY <1>2, <1>5

LEMMA BlacklistKeeps ==
  ASSUME ConnsInv, NEW n \in Nodes, blacklist_timer_cb(n)
  PROVE  InvOf(conns', link', queue')
<1>1. InvOf(conns, link, queue)
  BY DEF ConnsInv
<1>2. conns = [a \in Nodes |-> conns[a]] /\ ListsOK(n, conns[n])
  BY <1>1 DEF InvOf
<1>3. PICK f, w, g : conns[n] = [conn_map |-> f, unsol_conns |-> w, dangling |-> g, blacklist_addr |-> {}]
  BY <1>2 DEF ListsOK
<1>4. [conns[n] EXCEPT !.blacklist_addr = {}] = conns[n]
  BY <1>3
<1>5. conns' = [conns EXCEPT ![n] = [conns[n] EXCEPT !.blacklist_addr = {}]] /\ link' = link /\ queue' = queue
  BY <1>2 DEF blacklist_timer_cb
<1>6. conns' = conns
  BY <1>2, <1>4, <1>5
<1> QED BY <1>1, <1>5, <1>6

LEMMA StepKeeps == ConnsInv /\ [Next]_vars => ConnsInv'
<1> SUFFICES ASSUME ConnsInv, [Next]_vars PROVE ConnsInv'
  OBVIOUS
<1>1. InvOf(conns, link, queue) /\ closes \in 0 .. MaxCloses /\ MaxCloses \in Nat
  BY ConnsAssumption DEF ConnsInv, ConnsAssumption
<1>2. ASSUME InvOf(conns', link', queue'), closes' \in 0 .. MaxCloses
      PROVE  ConnsInv'
  BY <1>2 DEF ConnsInv
<1>3. ASSUME NEW n \in Nodes, NEW m \in Nodes, subscribe(n, m)
      PROVE  ConnsInv'
  BY <1>1, <1>2, <1>3, SubscribeKeeps DEF subscribe
<1>4. ASSUME NEW n \in Nodes, NEW m \in Nodes, did_dial(n, m)
      PROVE  ConnsInv'
  <2>1. closes' = closes
    BY <1>4 DEF did_dial
  <2> QED BY <1>1, <1>2, <1>4, <2>1, DialedKeeps
<1>5. ASSUME NEW n \in Nodes, NEW m \in Nodes, did_recv_SUBSCRIBE(n, m)
      PROVE  ConnsInv'
  <2>1. closes' = closes
    BY <1>5 DEF did_recv_SUBSCRIBE
  <2> QED BY <1>1, <1>2, <1>5, <2>1, SubscribedKeeps
<1>6. ASSUME NEW n \in Nodes, NEW m \in Nodes, did_recv_UNSUBSCRIBE(n, m)
      PROVE  ConnsInv'
  <2>1. closes' = closes
    BY <1>6 DEF did_recv_UNSUBSCRIBE
  <2> QED BY <1>1, <1>2, <1>6, <2>1, UnsubscribedKeeps
<1>7. ASSUME NEW n \in Nodes, NEW m \in Nodes, GiveUp(n, m)
      PROVE  ConnsInv'
  <2>1. Gone(n, m) /\ link[n][m] # "None" /\ closes' \in 0 .. MaxCloses
    BY <1>1, <1>7 DEF GiveUp
  <2> QED BY <1>2, <2>1, GoneKeeps
<1>8. ASSUME NEW n \in Nodes, NEW m \in Nodes, close(n, m)
      PROVE  ConnsInv'
  <2>1. /\ link[n][m] = "Up" /\ link' = [link EXCEPT ![n][m] = "Closing"]
        /\ conns' = conns /\ queue' = queue /\ closes' \in 0 .. MaxCloses
    BY <1>1, <1>8 DEF close
  <2>2. InvOf(conns, [link EXCEPT ![n][m] = "Closing"], queue)
    BY <1>1, <2>1, CloseKeeps
  <2> QED BY <1>2, <2>1, <2>2
<1>9. ASSUME NEW n \in Nodes, NEW m \in Nodes, close_timer_cb(n, m)
      PROVE  ConnsInv'
  <2>1. Gone(n, m) /\ link[n][m] # "None" /\ closes' = closes
    BY <1>9 DEF close_timer_cb
  <2> QED BY <1>1, <1>2, <2>1, GoneKeeps
<1>10. ASSUME NEW n \in Nodes, peer_selection_timer_cb(n)
       PROVE  ConnsInv'
  <2>1. closes' = closes
    BY <1>10 DEF peer_selection_timer_cb
  <2> QED BY <1>1, <1>2, <1>10, <2>1, SelectionKeeps
<1>11. ASSUME NEW n \in Nodes, blacklist_timer_cb(n)
       PROVE  ConnsInv'
  <2>1. closes' = closes
    BY <1>11 DEF blacklist_timer_cb
  <2> QED BY <1>1, <1>2, <1>11, <2>1, BlacklistKeeps
<1>12. CASE UNCHANGED vars
  BY <1>12, InvUnchanged
<1> QED BY <1>3, <1>4, <1>5, <1>6, <1>7, <1>8, <1>9, <1>10, <1>11, <1>12 DEF Next

(* The inductive invariant holds of every behaviour of the connections.    *)
THEOREM ConnsInvariant == Spec => []ConnsInv
BY InvAtInit, StepKeeps, PTL DEF Spec

(* add_sol_conn, add_unsol_conn, did_close: the lists of every node stay   *)
(* within max_sol_conns and max_unsol_conns, stale pointers counted, and   *)
(* every value is of its type.                                             *)
THEOREM ConnsTyped == Spec => []TypeOK
<1>1. ConnsInv => TypeOK
  <2> SUFFICES ASSUME ConnsInv PROVE TypeOK
    OBVIOUS
  <2>1. InvOf(conns, link, queue) /\ closes \in 0 .. MaxCloses
    BY DEF ConnsInv
  <2>2. ASSUME NEW n \in Nodes
        PROVE  /\ DOMAIN conns[n].conn_map \subseteq ClientKeys
               /\ \A key \in DOMAIN conns[n].conn_map : conns[n].conn_map[key] \in Connections(n)
               /\ conns[n].unsol_conns \subseteq Nodes /\ conns[n].dangling \in Nat
               /\ Unsol(conns[n]) <= MaxUnsol[n]
               /\ conns[n].blacklist_addr \subseteq Nodes
    <3>1. ListsOK(n, conns[n])
      BY <2>1 DEF InvOf
    <3>2. conns[n].blacklist_addr = {}
      BY <3>1 DEF ListsOK
    <3> QED BY <3>1, <3>2 DEF ListsOK, ClusterOK
  <2> QED BY <2>1, <2>2 DEF TypeOK, InvOf, Messages
<1> QED BY <1>1, ConnsInvariant, PTL

(* PubSubNode::did_close, remove_conn: a transport that is gone is in none *)
(* of the lists of solicited peers, nor in reserve.                        *)
THEOREM SolicitedLive == Spec => []SolicitedAreLive
<1>1. ConnsInv => SolicitedAreLive
  <2> SUFFICES ASSUME ConnsInv, NEW n \in Nodes, NEW m \in SolConns(n) \cup StandbyConns(n)
               PROVE  link[n][m] # "None"
    BY DEF SolicitedAreLive
  <2>1. InvOf(conns, link, queue)
    BY DEF ConnsInv
  <2>2. Listed(conns[n], m)
    BY DEF SolConns, StandbyConns, Listed
  <2>3. m \in Nodes
    <3>1. ListsOK(n, conns[n])
      BY <2>1 DEF InvOf
    <3>2. PICK key \in DOMAIN conns[n].conn_map :
            m \in conns[n].conn_map[key].sol_conns \cup conns[n].conn_map[key].sol_standby_conns
      BY <2>2 DEF Listed
    <3> QED BY <3>1, <3>2 DEF ListsOK, ClusterOK, Connections
  <2>4. PairOK(conns, link, queue, n, m)
    BY <2>1, <2>3 DEF InvOf
  <2> QED BY <2>2, <2>4 DEF PairOK, Unsettled
<1> QED BY <1>1, ConnsInvariant, PTL

(* send_SUBSCRIBE, send_UNSUBSCRIBE, did_recv_SUBSCRIBE,                   *)
(* did_recv_UNSUBSCRIBE: once what two nodes sent each other has arrived,  *)
(* a node publishes to the other if that one solicited it (and it is not   *)
(* one that solicits the other in turn), and while nothing was closed to   *)
(* no other.                                                               *)
THEOREM SubscribersServedAlways == Spec => []SubscribersServed
<1>1. ConnsInv => SubscribersServed
  <2> SUFFICES ASSUME ConnsInv, NEW n \in Nodes, NEW m \in Nodes, Settled(n, m)
               PROVE  /\ <<m, n>> \notin Discovers /\ m \in SolConns(n) => n \in conns[m].unsol_conns \cup SolConns(m)
                      /\ closes = 0 /\ n \in conns[m].unsol_conns => m \in SolConns(n)
    BY DEF SubscribersServed
  <2>1. PairOK(conns, link, queue, n, m)
    BY DEF ConnsInv, InvOf
  <2>2. link[n][m] = "Up" /\ link[m][n] = "Up" /\ queue[n][m] = <<>>
    BY DEF Settled
  <2>3. Agreed(conns, queue, n, m)
    BY <2>1, <2>2 DEF PairOK
  <2>4. Sol(conns[n], m) <=> m \in SolConns(n)
    BY DEF Sol, SolConns
  <2> QED BY <2>2, <2>3, <2>4 DEF Agreed
<1> QED BY <1>1, ConnsInvariant, PTL

(* add_sol_conn, add_sol_standby_conn, manage_subscriptions: a peer is     *)
(* solicited or in reserve, never both.                                    *)
THEOREM SolicitedOrStandbyAlways == Spec => []SolicitedOrStandby
<1>1. ConnsInv => SolicitedOrStandby
  BY DEF ConnsInv, InvOf, ListsOK, ClusterOK, SolicitedOrStandby
<1> QED BY <1>1, ConnsInvariant, PTL

-----------------------------------------------------------------------------
(* The sockets                                                             *)


Transport == [n : Nat, socket : {Udp} \cup Handles,
              pending_req : Seq(Nat), refused : BOOLEAN]
Write == [id : Nat, owner : Nat]
HandleStates == {"none", "dialing", "failed", "open", "closing", "closed"}
Handle == [st : HandleStates, data : Nat, addr : Addrs \cup {0}]

SocketsTypeOK ==
  /\ mode \in {"udp", "tcp", "server", "none"}
  /\ transport \in [Addrs -> Transport]
  /\ handle \in [Handles -> Handle]
  /\ writes \in [{Udp} \cup Handles -> Seq(Write)]
  /\ made \in Nat /\ sends \in Nat /\ again \subseteq Addrs /\ aborted \in BOOLEAN

(* A number names one transport.                                           *)
NamesInv ==
  /\ \A a \in Addrs : transport[a].n <= made
  /\ \A a, b \in Live : transport[a].n = transport[b].n => a = b

(* A UDP socket has no TCP handles; sends are done in order; a transport   *)
(* still lists every send that libuv holds for it, nothing else unless one *)
(* was refused, and never a send of another transport.                     *)
UdpWritesInv ==
  /\ \A k \in DOMAIN writes[Udp] : writes[Udp][k].id <= sends
  /\ \A j, k \in DOMAIN writes[Udp] : j < k => writes[Udp][j].id < writes[Udp][k].id
  /\ \A k \in DOMAIN writes[Udp] : writes[Udp][k].owner \in Owners \cup {0}
PendingInv(a) ==
  LET t == transport[a]
  IN /\ \A i \in DOMAIN t.pending_req : t.pending_req[i] <= sends
     /\ \A i, j \in DOMAIN t.pending_req : i < j => t.pending_req[i] < t.pending_req[j]
     /\ \A k \in DOMAIN writes[Udp] : writes[Udp][k].owner = t.n =>
          \E i \in DOMAIN t.pending_req : t.pending_req[i] = writes[Udp][k].id
     /\ ~t.refused => \A i \in DOMAIN t.pending_req :
          \E k \in DOMAIN writes[Udp] : /\ writes[Udp][k].owner = t.n
                                        /\ writes[Udp][k].id = t.pending_req[i]
DisjointInv(a, b) ==
  \A i \in DOMAIN transport[a].pending_req, j \in DOMAIN transport[b].pending_req :
    transport[a].pending_req[i] # transport[b].pending_req[j]
UdpInv ==
  mode = "udp" =>
    /\ ~aborted
    /\ \A h \in Handles : handle[h].st = "none"
    /\ UdpWritesInv
    /\ \A a \in Live : PendingInv(a)
    /\ \A a, b \in Live : a # b => DisjointInv(a, b)

(* The writes under way on a handle are those of the owner it points to.   *)
WritesInv(h) ==
  \A k \in DOMAIN writes[h] : /\ handle[h].st \in {"open", "closing"}
                              /\ writes[h][k].owner = handle[h].data
                              /\ writes[h][k].owner # 0

(* A transport and its socket point to each other until the handle is gone.*)
TcpInv ==
  mode = "tcp" =>
    /\ ~aborted
    /\ \A a \in Live :
         /\ transport[a].socket \in Handles
         /\ handle[transport[a].socket].st \in {"open", "closing"}
         /\ handle[transport[a].socket].data = transport[a].n
    /\ \A h \in Handles :
         /\ WritesInv(h)
         /\ handle[h].st # "none" => handle[h].addr \in Addrs
         /\ handle[h].st \notin {"open", "closing", "closed"} => handle[h].data = 0
         /\ handle[h].st \in {"open", "closing"} /\ handle[h].data # 0 =>
              \E a \in Live : transport[a].n = handle[h].data /\ transport[a].socket = h

(* A fiber is never erased: a handle keeps pointing to the fiber of the    *)
(* address it was connected to, which may have taken another handle.       *)
ServerInv ==
  mode = "server" =>
    /\ \A a \in Live :
         /\ transport[a].socket \in Handles
         /\ handle[transport[a].socket].data = transport[a].n
         /\ handle[transport[a].socket].addr = a
    /\ \A h \in Handles :
         /\ WritesInv(h)
         /\ handle[h].st \in {"none", "open", "closing", "closed"}
         /\ handle[h].st = "none" => handle[h].data = 0
         /\ handle[h].data # 0 => /\ handle[h].addr \in Live
                                  /\ transport[handle[h].addr].n = handle[h].data
         /\ handle[h].st \in {"open", "closing"} /\ handle[h].data # 0 =>
              \/ transport[handle[h].addr].socket = h
              \/ handle[h].addr \in again

(* The inductive invariant.                                                *)
SocketsInv == SocketsTypeOK /\ NamesInv /\ UdpInv /\ TcpInv /\ ServerInv

-----------------------------------------------------------------------------
(* The elements of a sequence that grows, and of one that loses its head.  *)
LEMMA Appended ==
  ASSUME NEW S, NEW s \in Seq(S), NEW e \in S
  PROVE  /\ Append(s, e) \in Seq(S) /\ s \in Seq(S)
         /\ DOMAIN Append(s, e) = DOMAIN s \cup {Len(s) + 1}
         /\ Len(s) \in Nat /\ \A k \in DOMAIN s : k \in Nat /\ k < Len(s) + 1
         /\ \A k \in DOMAIN s : Append(s, e)[k] = s[k] /\ s[k] \in S
         /\ Append(s, e)[Len(s) + 1] = e
  OBVIOUS
(* The first of a list and the others.                                     *)
LEMMA Dropped ==
  ASSUME NEW S, NEW s \in Seq(S), s # <<>>
  PROVE  /\ Head(s) \in S /\ Tail(s) \in Seq(S) /\ s \in Seq(S) /\ Head(s) = s[1]
         /\ 1 \in DOMAIN s
         /\ \A k \in DOMAIN Tail(s) : k \in Nat /\ k + 1 \in DOMAIN s /\ Tail(s)[k] = s[k + 1]
         /\ \A k \in DOMAIN s : /\ k \in Nat /\ k >= 1 /\ s[k] \in S
                                /\ k # 1 => k - 1 \in DOMAIN Tail(s) /\ Tail(s)[k - 1] = s[k]
  OBVIOUS

(* The address at which a transport is found by its number.                *)
LEMMA OwnerFound ==
  ASSUME NamesInv
  PROVE  /\ \A n \in Owners : OwnerAt(n) \in Live /\ transport[OwnerAt(n)].n = n
         /\ \A a \in Live : transport[a].n \in Owners /\ OwnerAt(transport[a].n) = a
<1>1. ASSUME NEW n \in Owners
      PROVE  OwnerAt(n) \in Live /\ transport[OwnerAt(n)].n = n
  <2>1. \E a \in Live : transport[a].n = n
    BY DEF Owners
  <2>. QED BY <2>1 DEF OwnerAt
<1>2. \A a \in Live : transport[a].n \in Owners
  BY DEF Owners
<1>3. \A a \in Live : OwnerAt(transport[a].n) = a
  BY <1>1, <1>2 DEF NamesInv, Live
<1>. QED BY <1>1, <1>2, <1>3

(* A transport that is made takes the next number, which no other has.     *)
LEMMA Made ==
  ASSUME SocketsTypeOK, NamesInv, NEW a \in Addrs, NEW socket \in {Udp} \cup Handles,
         transport[a].n = 0, get_or_create(a, socket)
  PROVE  /\ made' = made + 1 /\ NamesInv'
         /\ transport' \in [Addrs -> Transport]
         /\ transport'[a] = [n |-> made + 1, socket |-> socket, pending_req |-> <<>>, refused |-> FALSE]
         /\ \A b \in Addrs \ {a} : transport'[b] = transport[b]
         /\ Live' = Live \cup {a} /\ a \notin Live
<1>1. /\ made' = made + 1
      /\ transport' = [transport EXCEPT ![a] = [NoTransport EXCEPT !.n = made + 1, !.socket = socket]]
  BY DEF get_or_create
<1>2. [NoTransport EXCEPT !.n = made + 1, !.socket = socket]
        = [n |-> made + 1, socket |-> socket, pending_req |-> <<>>, refused |-> FALSE]
  <2>. DEFINE new == [NoTransport EXCEPT !.n = made + 1, !.socket = socket]
  <2>1. NoTransport \in Transport /\ made + 1 \in Nat
    BY DEF NoTransport, Transport, Udp, SocketsTypeOK
  <2>2. /\ new \in Transport /\ new.n = made + 1 /\ new.socket = socket
        /\ new.pending_req = NoTransport.pending_req /\ new.refused = NoTransport.refused
    BY <2>1, Zenon DEF Transport
  <2>3. NoTransport.pending_req = <<>> /\ NoTransport.refused = FALSE
    BY DEF NoTransport
  <2>. HIDE DEF new
  <2>4. new = [n |-> made + 1, socket |-> socket, pending_req |-> <<>>, refused |-> FALSE]
    BY <2>2, <2>3 DEF Transport
  <2>. QED BY <2>4, Zenon DEF new
<1>3. /\ made \in Nat /\ <<>> \in Seq(Nat) /\ transport \in [Addrs -> Transport]
      /\ [n |-> made + 1, socket |-> socket, pending_req |-> <<>>, refused |-> FALSE] \in Transport
  BY DEF SocketsTypeOK, Transport
<1>4. /\ transport'[a] = [n |-> made + 1, socket |-> socket, pending_req |-> <<>>, refused |-> FALSE]
      /\ \A b \in Addrs \ {a} : transport'[b] = transport[b]
      /\ transport' \in [Addrs -> Transport]
  BY <1>1, <1>2, <1>3
<1>5. Live' = Live \cup {a} /\ a \notin Live
  BY <1>3, <1>4 DEF Live
<1>6. made' = made + 1
  BY <1>1
<1>7. NamesInv'
  <2>1. \A b \in Addrs : transport[b].n \in Nat /\ transport[b].n <= made
    BY <1>3 DEF NamesInv, Transport
  <2>2. \A b \in Addrs : transport'[b].n = IF b = a THEN made + 1 ELSE transport[b].n
    BY <1>4
  <2>3. \A b \in Addrs : transport'[b].n <= made'
    BY <1>3, <1>6, <2>1, <2>2
  <2>4. ASSUME NEW b \in Live', NEW c \in Live', transport'[b].n = transport'[c].n
        PROVE  b = c
    BY <1>3, <1>5, <2>1, <2>2, <2>4 DEF NamesInv, Live
  <2>. QED BY <2>3, <2>4 DEF NamesInv
<1>. QED BY <1>4, <1>5, <1>6, <1>7

(* A transport that is erased leaves the others as they were.              *)
LEMMA Erased ==
  ASSUME SocketsTypeOK, NamesInv, NEW a \in Live, erase(a), made' = made
  PROVE  /\ NamesInv' /\ transport' \in [Addrs -> Transport]
         /\ \A b \in Addrs \ {a} : transport'[b] = transport[b]
         /\ Live' = Live \ {a} /\ Owners' = Owners \ {transport[a].n}
<1>1. transport' = [transport EXCEPT ![a] = NoTransport]
  BY DEF erase
<1>2. /\ transport \in [Addrs -> Transport] /\ a \in Addrs
      /\ NoTransport \in Transport /\ NoTransport.n = 0 /\ made \in Nat
  BY DEF SocketsTypeOK, Live, NoTransport, Transport, Udp
<1>3. /\ transport' \in [Addrs -> Transport] /\ transport'[a].n = 0
      /\ \A b \in Addrs \ {a} : transport'[b] = transport[b]
  BY <1>1, <1>2
<1>4. Live' = Live \ {a}
  BY <1>2, <1>3 DEF Live
<1>5. NamesInv'
  BY <1>2, <1>3, <1>4 DEF NamesInv, Live
<1>6. \A b \in Live : transport[b].n = transport[a].n => b = a
  BY DEF NamesInv
<1>7. Owners' = Owners \ {transport[a].n}
  BY <1>2, <1>3, <1>4, <1>6 DEF Owners, Live
<1>. QED BY <1>3, <1>4, <1>5, <1>7

-----------------------------------------------------------------------------
(* UDP.  A transport that is made has no requests, and no send is its own. *)
LEMMA UdpCreate ==
  ASSUME SocketsInv, NEW a \in Addrs, udp_dial(a) \/ udp_recv_cb(a)
  PROVE  SocketsInv'
<1>1. /\ mode = "udp" /\ mode' = mode /\ transport[a].n = 0 /\ get_or_create(a, Udp)
      /\ UNCHANGED <<handle, writes, sends, again, aborted>>
  BY DEF udp_dial, udp_recv_cb
<1>2. SocketsTypeOK /\ NamesInv /\ UdpInv
  BY DEF SocketsInv
<1>3. /\ made' = made + 1 /\ NamesInv' /\ transport' \in [Addrs -> Transport]
      /\ transport'[a] = [n |-> made + 1, socket |-> Udp, pending_req |-> <<>>, refused |-> FALSE]
      /\ \A b \in Addrs \ {a} : transport'[b] = transport[b]
      /\ Live' = Live \cup {a} /\ a \notin Live
  BY <1>1, <1>2, Made
<1>4. SocketsTypeOK'
  BY <1>1, <1>2, <1>3 DEF SocketsTypeOK
<1>5. ~aborted' /\ \A h \in Handles : handle'[h].st = "none"
  BY <1>1, <1>2 DEF UdpInv
<1>6. Owners' = Owners \cup {made + 1}
  BY <1>3 DEF Owners, Live
<1>7. UdpWritesInv'
  BY <1>1, <1>2, <1>6 DEF UdpInv, UdpWritesInv
<1>8. ASSUME NEW b \in Live'
      PROVE  PendingInv(b)'
  <2>1. CASE b = a
    <3>1. \A k \in DOMAIN writes[Udp] : writes[Udp][k].owner # made + 1
      <4>1. \A n \in Owners : n \in Nat /\ n <= made
        BY <1>2 DEF Owners, Live, NamesInv, SocketsTypeOK, Transport
      <4>2. made \in Nat
        BY <1>2 DEF SocketsTypeOK
      <4>. QED BY <1>1, <1>2, <4>1, <4>2 DEF UdpInv, UdpWritesInv
    <3>2. transport'[b].pending_req = <<>> /\ transport'[b].n = made + 1
      BY <1>3, <2>1
    <3>. QED BY <1>1, <3>1, <3>2 DEF PendingInv
  <2>2. CASE b # a
    <3>1. b \in Live /\ transport'[b] = transport[b]
      BY <1>3, <2>2 DEF Live
    <3>2. PendingInv(b)
      BY <1>1, <1>2, <3>1 DEF UdpInv
    <3>. QED BY <1>1, <3>1, <3>2 DEF PendingInv
  <2>. QED BY <2>1, <2>2
<1>9. ASSUME NEW b \in Live', NEW c \in Live', b # c
      PROVE  DisjointInv(b, c)'
  <2>1. CASE b = a \/ c = a
    <3>1. transport'[a].pending_req = <<>>
      BY <1>3
    <3>. QED BY <2>1, <3>1 DEF DisjointInv
  <2>2. CASE b # a /\ c # a
    <3>1. /\ b \in Live /\ c \in Live
          /\ transport'[b] = transport[b] /\ transport'[c] = transport[c]
      BY <1>3, <2>2 DEF Live
    <3>2. DisjointInv(b, c)
      BY <1>1, <1>2, <1>9, <3>1 DEF UdpInv
    <3>. QED BY <3>1, <3>2 DEF DisjointInv
  <2>. QED BY <2>1, <2>2
<1>. QED BY <1>1, <1>3, <1>4, <1>5, <1>7, <1>8, <1>9 DEF SocketsInv, UdpInv, TcpInv, ServerInv

(* A send joins the list of its transport before libuv holds it.           *)
LEMMA UdpSend ==
  ASSUME SocketsInv, NEW a \in Addrs, NEW taken \in BOOLEAN, udp_send(a, taken)
  PROVE  SocketsInv'
<1>. DEFINE n == transport[a].n
            w == [id |-> sends + 1, owner |-> n]
            t == [transport[a] EXCEPT !.pending_req = Append(transport[a].pending_req, sends + 1),
                                      !.refused = transport[a].refused \/ ~taken]
<1>1. /\ mode = "udp" /\ mode' = mode /\ n # 0 /\ sends' = sends + 1
      /\ UNCHANGED <<handle, made, again, aborted>>
  BY DEF udp_send
<1>0. transport' = [transport EXCEPT ![a] = t]
  BY Zenon DEF udp_send
<1>2. SocketsTypeOK /\ NamesInv /\ UdpInv
  BY DEF SocketsInv
<1>3. /\ transport \in [Addrs -> Transport] /\ writes \in [{Udp} \cup Handles -> Seq(Write)]
      /\ sends \in Nat /\ made \in Nat /\ a \in Live
      /\ transport[a] \in Transport /\ transport[a].pending_req \in Seq(Nat)
  BY <1>1, <1>2 DEF SocketsTypeOK, Live, Transport, Write
<1>4. w \in Write /\ w.id = sends + 1 /\ w.owner = n
  BY <1>3 DEF Write, Transport
<1>5. /\ t \in Transport /\ t.n = n
      /\ t.pending_req = Append(transport[a].pending_req, sends + 1)
      /\ ~t.refused => ~transport[a].refused /\ taken
  <2>1. Append(transport[a].pending_req, sends + 1) \in Seq(Nat)
    BY <1>3
  <2>2. /\ t \in Transport /\ t.n = n
        /\ t.pending_req = Append(transport[a].pending_req, sends + 1)
        /\ t.refused = (transport[a].refused \/ ~taken)
    BY <1>3, <2>1, Zenon DEF Transport
  <2>. QED BY <2>2, Zenon
<1>6. /\ writes' \in [{Udp} \cup Handles -> Seq(Write)]
      /\ taken => writes'[Udp] = Append(writes[Udp], w)
      /\ ~taken => writes'[Udp] = writes[Udp]
  <2>1. Append(writes[Udp], w) \in Seq(Write)
    BY <1>3, <1>4
  <2>2. writes' = IF taken THEN [writes EXCEPT ![Udp] = Append(writes[Udp], w)] ELSE writes
    BY DEF udp_send
  <2>. HIDE DEF w
  <2>. QED BY <1>3, <2>1, <2>2
<1>. HIDE DEF t, w, n
<1>7. /\ transport' \in [Addrs -> Transport] /\ transport'[a] = t
      /\ \A b \in Addrs \ {a} : transport'[b] = transport[b]
  BY <1>0, <1>3, <1>5
<1>8. \A b \in Addrs : transport'[b].n = transport[b].n
  BY <1>3, <1>5, <1>7 DEF n
<1>9. Live' = Live /\ Owners' = Owners /\ NamesInv'
  BY <1>1, <1>2, <1>8, <1>3 DEF Live, Owners, NamesInv
<1>10. SocketsTypeOK'
  BY <1>1, <1>2, <1>6, <1>7, <1>3 DEF SocketsTypeOK
<1>11. ~aborted' /\ \A h \in Handles : handle'[h].st = "none"
  BY <1>1, <1>2 DEF UdpInv
<1>12. UdpWritesInv /\ \A b \in Live : PendingInv(b)
  BY <1>1, <1>2 DEF UdpInv
<1>. DEFINE W == writes[Udp]
            p == transport[a].pending_req
<1>13. /\ W \in Seq(Write) /\ p \in Seq(Nat) /\ n \in Owners
       /\ \A k \in DOMAIN W : W[k].id \in Nat
  <2>1. W \in Seq(Write) /\ p \in Seq(Nat) /\ n \in Owners
    BY <1>3 DEF Owners, n
  <2>2. \A k \in DOMAIN W : W[k] \in Write
    BY <2>1
  <2>. QED BY <2>1, <2>2 DEF Write
<1>14. /\ W' \in Seq(Write)
       /\ DOMAIN W \subseteq DOMAIN W' /\ \A k \in DOMAIN W : W'[k] = W[k]
       /\ \A k \in DOMAIN W' : k \in DOMAIN W \/ (k = Len(W) + 1 /\ W'[k] = w /\ taken)
       /\ taken => Len(W) + 1 \in DOMAIN W' /\ W'[Len(W) + 1] = w
  <2>1. CASE taken
    <3>1. W' = Append(W, w)
      BY <1>6, <2>1
    <3>2. /\ Append(W, w) \in Seq(Write)
          /\ DOMAIN Append(W, w) = DOMAIN W \cup {Len(W) + 1}
          /\ \A k \in DOMAIN W : Append(W, w)[k] = W[k]
          /\ Append(W, w)[Len(W) + 1] = w
      BY <1>4, <1>13, Appended
    <3>. HIDE DEF W
    <3>. QED BY <2>1, <3>1, <3>2, Zenon
  <2>2. CASE ~taken
    <3>1. W' = W
      BY <1>6, <2>2
    <3>. HIDE DEF W
    <3>. QED BY <1>13, <2>2, <3>1, Zenon
  <2>. QED BY <2>1, <2>2
<1>15. UdpWritesInv'
  <2>1. \A k \in DOMAIN W' : W'[k].id <= sends'
    BY <1>1, <1>3, <1>4, <1>12, <1>13, <1>14 DEF UdpWritesInv
  <2>2. \A j, k \in DOMAIN W' : j < k => W'[j].id < W'[k].id
    BY <1>3, <1>4, <1>12, <1>13, <1>14 DEF UdpWritesInv
  <2>3. \A k \in DOMAIN W' : W'[k].owner \in Owners' \cup {0}
    BY <1>4, <1>9, <1>12, <1>13, <1>14 DEF UdpWritesInv
  <2>. QED BY <2>1, <2>2, <2>3 DEF UdpWritesInv
<1>16. /\ DOMAIN t.pending_req = 1 .. Len(p) + 1 /\ DOMAIN p = 1 .. Len(p) /\ Len(p) \in Nat
       /\ \A i \in DOMAIN p : t.pending_req[i] = p[i] /\ p[i] \in Nat
       /\ t.pending_req[Len(p) + 1] = sends + 1
  BY <1>3, <1>5, <1>13
<1>17. PendingInv(a)'
  <2>1. PendingInv(a)
    BY <1>3, <1>12
  <2>2. \A i \in DOMAIN t.pending_req : t.pending_req[i] <= sends'
    BY <1>1, <1>3, <1>16, <2>1 DEF PendingInv
  <2>3. \A i, j \in DOMAIN t.pending_req : i < j => t.pending_req[i] < t.pending_req[j]
    <3>1. \A i \in DOMAIN p : p[i] < sends + 1
      BY <1>3, <1>16, <2>1 DEF PendingInv
    <3>2. \A i, j \in DOMAIN p : i < j => p[i] < p[j]
      BY <2>1 DEF PendingInv
    <3>. HIDE DEF p
    <3>. QED BY <1>16, <3>1, <3>2
  <2>4. \A k \in DOMAIN W' : W'[k].owner = n => \E i \in DOMAIN t.pending_req : t.pending_req[i] = W'[k].id
    BY SMTT(30), <1>4, <1>14, <1>16, <2>1 DEF PendingInv, n
  <2>5. ~t.refused => \A i \in DOMAIN t.pending_req :
          \E k \in DOMAIN W' : W'[k].owner = n /\ W'[k].id = t.pending_req[i]
    <3>1. SUFFICES ASSUME ~t.refused, NEW i \in DOMAIN t.pending_req
                   PROVE  \E k \in DOMAIN W' : W'[k].owner = n /\ W'[k].id = t.pending_req[i]
      OBVIOUS
    <3>2. CASE i \in DOMAIN p
      <4>1. PICK k \in DOMAIN W : W[k].owner = n /\ W[k].id = p[i]
        BY <1>5, <2>1, <3>1, <3>2 DEF PendingInv, n
      <4>. QED BY <1>14, <1>16, <3>2, <4>1
    <3>3. CASE i = Len(p) + 1
      BY <1>4, <1>5, <1>14, <1>16, <3>1, <3>3
    <3>. QED BY <1>16, <3>2, <3>3
  <2>. QED BY <1>5, <1>7, <2>2, <2>3, <2>4, <2>5 DEF PendingInv
<1>18. ASSUME NEW b \in Live', b # a
       PROVE  PendingInv(b)'
  <2>1. transport'[b] = transport[b] /\ PendingInv(b) /\ transport[b].n # n
    BY <1>2, <1>3, <1>7, <1>9, <1>12, <1>18 DEF NamesInv, Live, n
  <2>2. \A i \in DOMAIN transport[b].pending_req : transport[b].pending_req[i] \in Nat
    BY <1>3, <1>9 DEF Live, Transport
  <2>. DEFINE r == transport[b].pending_req
  <2>3. /\ \A i \in DOMAIN r : r[i] <= sends'
        /\ \A i, j \in DOMAIN r : i < j => r[i] < r[j]
    BY <1>1, <1>3, <2>1, <2>2 DEF PendingInv
  <2>4. \A k \in DOMAIN W' : W'[k].owner = transport[b].n => \E i \in DOMAIN r : r[i] = W'[k].id
    BY <1>4, <1>14, <2>1 DEF PendingInv
  <2>5. ~transport[b].refused => \A i \in DOMAIN r :
          \E k \in DOMAIN W' : W'[k].owner = transport[b].n /\ W'[k].id = r[i]
    BY <1>14, <2>1 DEF PendingInv
  <2>. QED BY <2>1, <2>3, <2>4, <2>5 DEF PendingInv
<1>19. ASSUME NEW b \in Live', NEW c \in Live', b # c
       PROVE  DisjointInv(b, c)'
  <2>1. DisjointInv(b, c) /\ PendingInv(b) /\ PendingInv(c)
    BY <1>1, <1>2, <1>9, <1>19 DEF UdpInv
  <2>2. \A d \in Live : \A i \in DOMAIN transport[d].pending_req :
          /\ transport[d].pending_req[i] \in Nat
          /\ transport[d].pending_req[i] < sends + 1
    BY <1>3, <1>12 DEF PendingInv, Live, Transport
  <2>3. \A d \in Live : \A i \in DOMAIN transport'[d].pending_req :
          \/ i \in DOMAIN transport[d].pending_req /\ transport'[d].pending_req[i] = transport[d].pending_req[i]
          \/ d = a /\ transport'[d].pending_req[i] = sends + 1
    BY <1>7, <1>16 DEF Live
  <2>4. b \in Live /\ c \in Live
    BY <1>9
  <2>. QED BY SMTT(30), <1>3, <1>19, <2>1, <2>2, <2>3, <2>4 DEF DisjointInv
<1>. QED BY <1>1, <1>9, <1>10, <1>11, <1>15, <1>17, <1>18, <1>19 DEF SocketsInv, UdpInv, TcpInv, ServerInv

(* A send that is done is the oldest its transport lists.                  *)
LEMMA UdpSendCb ==
  ASSUME SocketsInv, udp_send_cb
  PROVE  SocketsInv'
<1>. DEFINE W == writes[Udp]
<1>1. /\ mode = "udp" /\ mode' = mode /\ W # <<>> /\ writes' = [writes EXCEPT ![Udp] = Tail(W)]
      /\ UNCHANGED <<handle, made, sends, again>>
  BY DEF udp_send_cb
<1>2. SocketsTypeOK /\ NamesInv /\ UdpInv
  BY DEF SocketsInv
<1>3. /\ transport \in [Addrs -> Transport] /\ writes \in [{Udp} \cup Handles -> Seq(Write)]
      /\ W \in Seq(Write) /\ sends \in Nat
  BY <1>2 DEF SocketsTypeOK
<1>4. /\ Head(W) = W[1] /\ 1 \in DOMAIN W /\ W[1] \in Write
      /\ \A k \in DOMAIN Tail(W) : k \in Nat /\ k + 1 \in DOMAIN W /\ Tail(W)[k] = W[k + 1]
      /\ \A k \in DOMAIN W : /\ k \in Nat /\ k >= 1 /\ W[k] \in Write
                             /\ k # 1 => k - 1 \in DOMAIN Tail(W) /\ Tail(W)[k - 1] = W[k]
  BY <1>1, <1>3, Dropped
<1>5. /\ writes' \in [{Udp} \cup Handles -> Seq(Write)] /\ W' = Tail(W)
  BY <1>1, <1>3
<1>6. /\ ~aborted /\ UdpWritesInv /\ \A b \in Live : PendingInv(b)
      /\ \A b, c \in Live : b # c => DisjointInv(b, c)
      /\ \A h \in Handles : handle[h].st = "none"
  BY <1>1, <1>2 DEF UdpInv
<1>7. /\ \A k \in DOMAIN W : W[k].id \in Nat /\ W[k].id <= sends
      /\ \A j, k \in DOMAIN W : j < k => W[j].id < W[k].id
      /\ \A k \in DOMAIN W : W[k].owner \in Owners \cup {0}
      /\ \A k \in DOMAIN W : k # 1 => W[1].id < W[k].id
  BY <1>4, <1>6 DEF UdpWritesInv, Write
<1>8. /\ aborted' = aborted
      /\ \/ W[1].owner = 0 /\ transport' = transport
         \/ /\ W[1].owner \in Owners
            /\ LET c == OwnerAt(W[1].owner)
               IN transport' = [transport EXCEPT ![c].pending_req = Tail(transport[c].pending_req)]
  <2>1. W[1].owner = 0 \/ (W[1].owner # 0 /\ W[1].owner \in Owners)
    BY <1>4, <1>7
  <2>. QED BY <1>4, <2>1 DEF udp_send_cb
<1>. HIDE DEF W
<1>9. /\ \A k \in DOMAIN W' : W'[k].id <= sends
      /\ \A j, k \in DOMAIN W' : j < k => W'[j].id < W'[k].id
      /\ \A k \in DOMAIN W' : W'[k].owner \in Owners \cup {0}
  <2>1. \A k \in DOMAIN W' : k \in Nat /\ k + 1 \in DOMAIN W /\ W'[k] = W[k + 1]
    BY <1>4, <1>5
  <2>. QED BY <1>7, <2>1
<1>10. CASE W[1].owner = 0 /\ transport' = transport
  <2>1. UdpWritesInv'
    BY <1>1, <1>9, <1>10 DEF UdpWritesInv, W, Owners, Live
  <2>2. ASSUME NEW b \in Live
        PROVE  PendingInv(b)'
    <3>1. PendingInv(b) /\ transport[b].n # 0
      BY <1>6 DEF Live
    <3>2. \A k \in DOMAIN W' : W'[k].owner = transport[b].n =>
            \E i \in DOMAIN transport[b].pending_req : transport[b].pending_req[i] = W'[k].id
      BY <1>4, <1>5, <3>1 DEF PendingInv, W
    <3>3. ASSUME ~transport[b].refused, NEW i \in DOMAIN transport[b].pending_req
          PROVE  \E k \in DOMAIN W' : /\ W'[k].owner = transport[b].n
                                      /\ W'[k].id = transport[b].pending_req[i]
      <4>1. PICK k \in DOMAIN W : /\ W[k].owner = transport[b].n
                                  /\ W[k].id = transport[b].pending_req[i]
        BY <3>1, <3>3 DEF PendingInv, W
      <4>2. k # 1
        BY <1>10, <3>1, <4>1
      <4>3. k - 1 \in DOMAIN W' /\ W'[k - 1] = W[k]
        BY <1>4, <1>5, <4>2
      <4>. QED BY <4>1, <4>3
    <3>4. /\ \A i \in DOMAIN transport[b].pending_req : transport[b].pending_req[i] <= sends
          /\ \A i, j \in DOMAIN transport[b].pending_req :
               i < j => transport[b].pending_req[i] < transport[b].pending_req[j]
      BY <3>1 DEF PendingInv
    <3>. QED BY <1>1, <1>10, <3>2, <3>3, <3>4 DEF PendingInv, W
  <2>3. SocketsTypeOK' /\ NamesInv' /\ Live' = Live
    BY <1>1, <1>2, <1>5, <1>8, <1>10 DEF SocketsTypeOK, NamesInv, Live
  <2>4. \A b, c \in Live' : b # c => DisjointInv(b, c)'
    BY <1>6, <1>10, <2>3 DEF DisjointInv
  <2>. QED BY <1>1, <1>6, <1>8, <2>1, <2>2, <2>3, <2>4 DEF SocketsInv, UdpInv, TcpInv, ServerInv
<1>11. ASSUME W[1].owner \in Owners, NEW c \in Live, transport[c].n = W[1].owner,
              transport' = [transport EXCEPT ![c].pending_req = Tail(transport[c].pending_req)]
       PROVE  SocketsInv'
  <2>. DEFINE p == transport[c].pending_req
  <2>1. p \in Seq(Nat) /\ PendingInv(c)
    BY <1>3, <1>6 DEF Live, Transport
  <2>2. PICK first \in DOMAIN p : p[first] = W[1].id
    BY <1>4, <1>11, <2>1 DEF PendingInv, W
  <2>3. p # <<>>
    BY <2>1, <2>2
  <2>4. /\ Tail(p) \in Seq(Nat) /\ 1 \in DOMAIN p
        /\ \A i \in DOMAIN Tail(p) : i \in Nat /\ i + 1 \in DOMAIN p /\ Tail(p)[i] = p[i + 1]
        /\ \A i \in DOMAIN p : /\ i \in Nat /\ i >= 1 /\ p[i] \in Nat
                               /\ i # 1 => i - 1 \in DOMAIN Tail(p) /\ Tail(p)[i - 1] = p[i]
    BY <2>1, <2>3, Dropped
  <2>5. /\ transport' \in [Addrs -> Transport]
        /\ transport'[c].pending_req = Tail(p)
        /\ transport'[c].n = transport[c].n /\ transport'[c].refused = transport[c].refused
        /\ \A b \in Addrs \ {c} : transport'[b] = transport[b]
    BY <1>3, <1>11, <2>4 DEF Live, Transport
  <2>6. Live' = Live /\ Owners' = Owners /\ NamesInv'
    <3>1. \A b \in Addrs : transport'[b].n = transport[b].n
      BY <2>5
    <3>. QED BY <1>1, <1>2, <3>1 DEF Live, Owners, NamesInv
  <2>7. SocketsTypeOK'
    BY <1>1, <1>2, <1>5, <1>8, <2>5 DEF SocketsTypeOK
  <2>8. UdpWritesInv'
    BY <1>1, <1>9, <2>6 DEF UdpWritesInv, W
  <2>. HIDE DEF p
  <2>9. /\ \A i \in DOMAIN p : p[i] <= sends
        /\ \A i, j \in DOMAIN p : i < j => p[i] < p[j]
        /\ \A k \in DOMAIN W : W[k].owner = transport[c].n => \E i \in DOMAIN p : p[i] = W[k].id
        /\ ~transport[c].refused => \A i \in DOMAIN p :
             \E k \in DOMAIN W : W[k].owner = transport[c].n /\ W[k].id = p[i]
    BY <2>1 DEF PendingInv, p, W
  <2>10. PendingInv(c)'
    <3>1. /\ \A i \in DOMAIN Tail(p) : Tail(p)[i] <= sends
          /\ \A i, j \in DOMAIN Tail(p) : i < j => Tail(p)[i] < Tail(p)[j]
      BY SMTT(30), <2>4, <2>9
    <3>2. ASSUME NEW k \in DOMAIN W', W'[k].owner = transport[c].n
          PROVE  \E i \in DOMAIN Tail(p) : Tail(p)[i] = W'[k].id
      <4>1. k + 1 \in DOMAIN W /\ k + 1 # 1 /\ W'[k] = W[k + 1]
        BY <1>4, <1>5, <3>2
      <4>2. PICK i \in DOMAIN p : p[i] = W[k + 1].id
        BY <2>9, <3>2, <4>1
      <4>3. p[first] < p[i]
        BY <1>7, <2>2, <4>1, <4>2
      <4>4. p[1] <= p[first]
        <5>1. CASE first = 1
          BY <2>4, <5>1
        <5>2. CASE first # 1
          <6>1. 1 < first
            BY <2>2, <2>4, <5>2
          <6>2. p[1] < p[first]
            BY <2>2, <2>4, <2>9, <6>1
          <6>. QED BY <2>2, <2>4, <6>2
        <5>. QED BY <5>1, <5>2
      <4>5. i # 1
        BY <2>2, <2>4, <4>2, <4>3, <4>4
      <4>. QED BY <2>4, <4>1, <4>2, <4>5
    <3>3. ASSUME ~transport[c].refused, NEW i \in DOMAIN Tail(p)
          PROVE  \E k \in DOMAIN W' : W'[k].owner = transport[c].n /\ W'[k].id = Tail(p)[i]
      <4>1. PICK k \in DOMAIN W : W[k].owner = transport[c].n /\ W[k].id = p[i + 1]
        BY <2>4, <2>9, <3>3
      <4>2. PICK k1 \in DOMAIN W : W[k1].id = p[1]
        BY <2>4, <2>9, <3>3
      <4>3. p[1] < p[i + 1]
        BY <2>4, <2>9, <3>3
      <4>4. k # 1
        BY <1>4, <1>7, <4>1, <4>2, <4>3
      <4>5. k - 1 \in DOMAIN W' /\ W'[k - 1] = W[k] /\ Tail(p)[i] = p[i + 1]
        BY <1>4, <1>5, <2>4, <3>3, <4>4
      <4>. QED BY <4>1, <4>5
    <3>. QED BY <1>1, <2>5, <3>1, <3>2, <3>3 DEF PendingInv, W
  <2>11. ASSUME NEW b \in Live, b # c
         PROVE  PendingInv(b)'
    <3>1. PendingInv(b) /\ transport[b].n # W[1].owner /\ transport'[b] = transport[b]
      BY <1>2, <1>6, <1>11, <2>5, <2>11 DEF NamesInv, Live
    <3>2. \A k \in DOMAIN W' : W'[k].owner = transport[b].n =>
            \E i \in DOMAIN transport[b].pending_req : transport[b].pending_req[i] = W'[k].id
      BY <1>4, <1>5, <3>1 DEF PendingInv, W
    <3>3. ASSUME ~transport[b].refused, NEW i \in DOMAIN transport[b].pending_req
          PROVE  \E k \in DOMAIN W' : /\ W'[k].owner = transport[b].n
                                      /\ W'[k].id = transport[b].pending_req[i]
      <4>1. PICK k \in DOMAIN W : /\ W[k].owner = transport[b].n
                                  /\ W[k].id = transport[b].pending_req[i]
        BY <3>1, <3>3 DEF PendingInv, W
      <4>2. k # 1
        BY <3>1, <4>1
      <4>3. k - 1 \in DOMAIN W' /\ W'[k - 1] = W[k]
        BY <1>4, <1>5, <4>2
      <4>. QED BY <4>1, <4>3
    <3>4. /\ \A i \in DOMAIN transport[b].pending_req : transport[b].pending_req[i] <= sends
          /\ \A i, j \in DOMAIN transport[b].pending_req :
               i < j => transport[b].pending_req[i] < transport[b].pending_req[j]
      BY <3>1 DEF PendingInv
    <3>5. /\ \A i \in DOMAIN transport'[b].pending_req : transport'[b].pending_req[i] <= sends'
          /\ \A i, j \in DOMAIN transport'[b].pending_req :
               i < j => transport'[b].pending_req[i] < transport'[b].pending_req[j]
      BY <1>1, <3>1, <3>4
    <3>6. \A k \in DOMAIN W' : W'[k].owner = transport'[b].n =>
            \E i \in DOMAIN transport'[b].pending_req : transport'[b].pending_req[i] = W'[k].id
      BY <3>1, <3>2
    <3>7. ~transport'[b].refused => \A i \in DOMAIN transport'[b].pending_req :
            \E k \in DOMAIN W' : /\ W'[k].owner = transport'[b].n
                                /\ W'[k].id = transport'[b].pending_req[i]
      BY <3>1, <3>3
    <3>. QED BY ZenonT(60), <3>5, <3>6, <3>7 DEF PendingInv, W
  <2>12. ASSUME NEW b \in Live, NEW d \in Live, b # d
         PROVE  DisjointInv(b, d)'
    <3>1. \A x \in Live : \A i \in DOMAIN transport'[x].pending_req :
            \E j \in DOMAIN transport[x].pending_req :
              transport'[x].pending_req[i] = transport[x].pending_req[j]
      <4>1. ASSUME NEW i \in DOMAIN Tail(p)
            PROVE  \E j \in DOMAIN p : Tail(p)[i] = p[j]
        BY <2>4
      <4>2. transport'[c].pending_req = Tail(p) /\ transport[c].pending_req = p
        BY <2>5 DEF p
      <4>3. \A x \in Live : x # c => transport'[x].pending_req = transport[x].pending_req
        BY <2>5 DEF Live
      <4>. QED BY <4>1, <4>2, <4>3
    <3>2. DisjointInv(b, d)
      BY <1>6, <2>12
    <3>. QED BY <3>1, <3>2 DEF DisjointInv
  <2>. QED BY <1>1, <1>6, <1>8, <2>6, <2>7, <2>8, <2>10, <2>11, <2>12
           DEF SocketsInv, UdpInv, TcpInv, ServerInv
<1>. QED BY <1>2, <1>8, <1>10, <1>11, OwnerFound

(* The sends of a transport that closes are nobody's.                      *)
LEMMA UdpClose ==
  ASSUME SocketsInv, NEW a \in Addrs, udp_close(a)
  PROVE  SocketsInv'
<1>. DEFINE W == writes[Udp]
            p == transport[a].pending_req
            n == transport[a].n
            Freed(k) == W[k].id \in {p[i] : i \in DOMAIN p}
            V == [k \in DOMAIN W |-> IF Freed(k) THEN [W[k] EXCEPT !.owner = 0] ELSE W[k]]
<1>1. /\ mode = "udp" /\ mode' = mode /\ n # 0 /\ erase(a)
      /\ writes' = [writes EXCEPT ![Udp] = V]
      /\ UNCHANGED <<handle, made, sends, again, aborted>>
  BY DEF udp_close
<1>2. SocketsTypeOK /\ NamesInv /\ UdpInv
  BY DEF SocketsInv
<1>3. /\ transport \in [Addrs -> Transport] /\ writes \in [{Udp} \cup Handles -> Seq(Write)]
      /\ W \in Seq(Write) /\ a \in Live
  BY <1>1, <1>2 DEF SocketsTypeOK, Live
<1>4. \A k \in DOMAIN W : W[k] \in Write /\ [W[k] EXCEPT !.owner = 0] \in Write
  <2>1. \A k \in DOMAIN W : W[k] \in Write
    BY <1>3
  <2>2. \A w \in Write : [w EXCEPT !.owner = 0] \in Write
    BY DEF Write
  <2>. QED BY <2>1, <2>2
<1>5. V \in Seq(Write) /\ DOMAIN V = DOMAIN W
  <2>1. \A k \in DOMAIN W : (IF Freed(k) THEN [W[k] EXCEPT !.owner = 0] ELSE W[k]) \in Write
    BY <1>4
  <2>2. DOMAIN W = 1 .. Len(W) /\ Len(W) \in Nat
    BY <1>3
  <2>. HIDE DEF W, Freed
  <2>. QED BY <2>1, <2>2
<1>6. \A k \in DOMAIN V : /\ V[k].id = W[k].id
                          /\ Freed(k) => V[k].owner = 0
                          /\ ~Freed(k) => V[k].owner = W[k].owner
  BY <1>4 DEF Write
<1>7. writes' \in [{Udp} \cup Handles -> Seq(Write)] /\ writes'[Udp] = V
  BY <1>1, <1>3, <1>5
<1>8. /\ NamesInv' /\ transport' \in [Addrs -> Transport]
      /\ \A b \in Addrs \ {a} : transport'[b] = transport[b]
      /\ Live' = Live \ {a} /\ Owners' = Owners \ {n}
  BY <1>1, <1>2, <1>3, Erased
<1>9. /\ ~aborted /\ UdpWritesInv /\ \A b \in Live : PendingInv(b)
      /\ \A b, c \in Live : b # c => DisjointInv(b, c)
      /\ \A h \in Handles : handle[h].st = "none"
  BY <1>1, <1>2 DEF UdpInv
<1>10. \A k \in DOMAIN W : W[k].owner = n => Freed(k)
  BY <1>3, <1>9 DEF PendingInv
<1>. HIDE DEF V, Freed, n, p, W
<1>11. UdpWritesInv'
  <2>1. /\ \A k \in DOMAIN V : V[k].id <= sends
        /\ \A j, k \in DOMAIN V : j < k => V[j].id < V[k].id
    BY <1>5, <1>6, <1>9 DEF UdpWritesInv, W
  <2>2. ASSUME NEW k \in DOMAIN V
        PROVE  V[k].owner \in Owners' \cup {0}
    <3>1. CASE Freed(k)
      BY <1>6, <3>1
    <3>2. CASE ~Freed(k)
      BY <1>5, <1>6, <1>8, <1>9, <1>10, <3>2 DEF UdpWritesInv, W
    <3>. QED BY <3>1, <3>2
  <2>. QED BY <1>1, <1>7, <2>1, <2>2 DEF UdpWritesInv
<1>12. ASSUME NEW b \in Live'
       PROVE  PendingInv(b)'
  <2>. DEFINE r == transport[b].pending_req
  <2>1. b \in Live /\ b # a /\ transport'[b] = transport[b] /\ transport[b].n # 0
    BY <1>8 DEF Live
  <2>2. PendingInv(b) /\ DisjointInv(a, b)
    BY <1>3, <1>9, <2>1
  <2>3. /\ \A i \in DOMAIN r : r[i] <= sends
        /\ \A i, j \in DOMAIN r : i < j => r[i] < r[j]
    BY <2>2 DEF PendingInv
  <2>4. ASSUME NEW k \in DOMAIN V, V[k].owner = transport[b].n
        PROVE  \E i \in DOMAIN r : r[i] = V[k].id
    <3>1. W[k].owner = transport[b].n /\ V[k].id = W[k].id /\ k \in DOMAIN W
      BY <1>5, <1>6, <2>1, <2>4
    <3>. QED BY <2>2, <3>1 DEF PendingInv, W
  <2>5. ASSUME ~transport[b].refused, NEW i \in DOMAIN r
        PROVE  \E k \in DOMAIN V : V[k].owner = transport[b].n /\ V[k].id = r[i]
    <3>1. PICK k \in DOMAIN W : W[k].owner = transport[b].n /\ W[k].id = r[i]
      BY <2>2, <2>5 DEF PendingInv, W
    <3>2. ~Freed(k)
      BY <2>2, <2>5, <3>1 DEF DisjointInv, Freed, p
    <3>. QED BY <1>5, <1>6, <3>1, <3>2
  <2>. QED BY <1>1, <1>7, <2>1, <2>3, <2>4, <2>5 DEF PendingInv
<1>13. ASSUME NEW b \in Live', NEW c \in Live', b # c
       PROVE  DisjointInv(b, c)'
  <2>1. /\ b \in Live /\ c \in Live
        /\ transport'[b] = transport[b] /\ transport'[c] = transport[c]
    BY <1>8 DEF Live
  <2>2. DisjointInv(b, c)
    BY <1>9, <1>13, <2>1
  <2>. QED BY <2>1, <2>2 DEF DisjointInv
<1>14. SocketsTypeOK'
  BY <1>1, <1>2, <1>7, <1>8 DEF SocketsTypeOK
<1>. QED BY <1>1, <1>8, <1>9, <1>11, <1>12, <1>13, <1>14
         DEF SocketsInv, UdpInv, TcpInv, ServerInv

-----------------------------------------------------------------------------
(* TCP.  What the invariant says of the handle of one transport, and of    *)
(* one handle; a step has to keep these two.                               *)
SocketOf(a) ==
  /\ transport[a].socket \in Handles
  /\ handle[transport[a].socket].st \in {"open", "closing"}
  /\ handle[transport[a].socket].data = transport[a].n
TcpHandle(h) ==
  /\ WritesInv(h)
  /\ handle[h].st # "none" => handle[h].addr \in Addrs
  /\ handle[h].st \notin {"open", "closing", "closed"} => handle[h].data = 0
  /\ handle[h].st \in {"open", "closing"} /\ handle[h].data # 0 =>
       \E a \in Live : transport[a].n = handle[h].data /\ transport[a].socket = h

(* What the invariant says of the TCP transport of a handle.               *)
LEMMA TcpParts ==
  /\ SocketsInv /\ mode = "tcp" =>
       ~aborted /\ (\A a \in Live : SocketOf(a)) /\ (\A h \in Handles : TcpHandle(h))
  /\ ~aborted /\ (\A a \in Live : SocketOf(a)) /\ (\A h \in Handles : TcpHandle(h)) => TcpInv
<1>1. SocketsInv /\ mode = "tcp" =>
        ~aborted /\ (\A a \in Live : SocketOf(a)) /\ (\A h \in Handles : TcpHandle(h))
  BY DEF SocketsInv, TcpInv, SocketOf, TcpHandle
<1>2. ~aborted /\ (\A a \in Live : SocketOf(a)) /\ (\A h \in Handles : TcpHandle(h)) => TcpInv
  BY DEF TcpInv, SocketOf, TcpHandle
<1>. QED BY <1>1, <1>2

(* A step that changes one handle, which no transport has, leaves the rest *)
(* as it was.                                                              *)
LEMMA TcpOther ==
  ASSUME SocketsInv, mode = "tcp", mode' = mode, UNCHANGED <<transport, writes, aborted>>,
         NEW h \in Handles, handle[h].st \in {"none", "dialing", "open"}, handle[h].data = 0,
         handle' \in [Handles -> Handle], \A g \in Handles \ {h} : handle'[g] = handle[g],
         handle[h].st = "open" => handle'[h].st \in {"open", "closing"},
         handle'[h].data = 0, handle'[h].addr \in Addrs
  PROVE  TcpInv'
<1>1. ~aborted /\ (\A a \in Live : SocketOf(a)) /\ (\A g \in Handles : TcpHandle(g))
  BY TcpParts
<1>2. /\ \A a \in Live : transport[a].n # 0
      /\ Live' = Live
  BY DEF Live
<1>3. ASSUME NEW a \in Live
      PROVE  SocketOf(a)'
  <2>1. SocketOf(a)
    BY <1>1
  <2>2. transport[a].socket # h
    BY <1>2, <2>1 DEF SocketOf
  <2>. QED BY <2>1, <2>2 DEF SocketOf
<1>4. ASSUME NEW g \in Handles
      PROVE  TcpHandle(g)'
  <2>1. TcpHandle(g)
    BY <1>1
  <2>2. CASE g # h
    BY <1>2, <2>1, <2>2 DEF TcpHandle, WritesInv
  <2>3. CASE g = h
    <3>1. \A k \in DOMAIN writes[h] : FALSE
      BY <2>1, <2>3 DEF TcpHandle, WritesInv
    <3>. QED BY <2>3, <3>1 DEF TcpHandle, WritesInv
  <2>. QED BY <2>2, <2>3
<1>5. /\ ~aborted'
      /\ \A a \in Live' : SocketOf(a)'
      /\ \A g \in Handles : TcpHandle(g)'
  BY <1>1, <1>2, <1>3, <1>4
<1>. QED BY <1>5 DEF TcpInv, SocketOf, TcpHandle

(* setup: the socket of the transport points to it.                        *)
LEMMA SetUp ==
  ASSUME SocketsInv, mode = "tcp", mode' = mode, UNCHANGED <<writes, aborted>>,
         NEW a \in Addrs, NEW h \in Handles, handle[h].st \in {"none", "dialing"},
         get_or_create(a, h), handle' = setup(a, h)
  PROVE  /\ TcpInv' /\ NamesInv' /\ handle' \in [Handles -> Handle]
         /\ transport' \in [Addrs -> Transport] /\ made' \in Nat
<1>. DEFINE socket == IF transport[a].n = 0 THEN h ELSE transport[a].socket
            n == IF transport[a].n = 0 THEN made + 1 ELSE transport[a].n
            opened == [handle EXCEPT ![h].st = "open"]
            named == [opened EXCEPT ![h].addr = a]
            pointed == [named EXCEPT ![socket].data = n]
<1>1. handle' = pointed
  BY Zenon DEF setup
<1>2. SocketsTypeOK /\ NamesInv
  BY DEF SocketsInv
<1>3. /\ handle \in [Handles -> Handle] /\ transport \in [Addrs -> Transport] /\ made \in Nat
  BY <1>2 DEF SocketsTypeOK
<1>4. ~aborted /\ (\A b \in Live : SocketOf(b)) /\ (\A g \in Handles : TcpHandle(g))
  BY TcpParts
<1>5. socket \in Handles /\ n \in Nat /\ n # 0
  BY <1>3, <1>4 DEF Live, SocketOf, Transport
<1>. HIDE DEF socket, n
<1>6. /\ opened \in [Handles -> Handle] /\ opened[h].st = "open"
      /\ opened[h].data = handle[h].data
      /\ \A g \in Handles \ {h} : opened[g] = handle[g]
  BY <1>3 DEF Handle, HandleStates
<1>. HIDE DEF opened
<1>7. /\ named \in [Handles -> Handle] /\ named[h].st = "open" /\ named[h].addr = a
      /\ named[h].data = handle[h].data
      /\ \A g \in Handles \ {h} : named[g] = handle[g]
  BY <1>6 DEF Handle, HandleStates
<1>. HIDE DEF named
<1>8. /\ pointed \in [Handles -> Handle]
      /\ pointed[socket].data = n /\ pointed[socket].st = named[socket].st
      /\ pointed[socket].addr = named[socket].addr
      /\ \A g \in Handles \ {socket} : pointed[g] = named[g]
  BY <1>5, <1>7 DEF Handle, HandleStates
<1>. HIDE DEF pointed
<1>9. CASE transport[a].n = 0
  <2>1. /\ made' = made + 1 /\ NamesInv' /\ transport' \in [Addrs -> Transport]
        /\ transport'[a] = [n |-> made + 1, socket |-> h, pending_req |-> <<>>, refused |-> FALSE]
        /\ \A b \in Addrs \ {a} : transport'[b] = transport[b]
        /\ Live' = Live \cup {a} /\ a \notin Live
    BY <1>2, <1>9, Made
  <2>2. socket = h /\ n = made + 1
    BY <1>9 DEF socket, n
  <2>3. /\ handle'[h].st = "open" /\ handle'[h].addr = a /\ handle'[h].data = made + 1
        /\ \A g \in Handles \ {h} : handle'[g] = handle[g]
    BY <1>1, <1>7, <1>8, <2>2
  <2>4. ASSUME NEW b \in Live'
        PROVE  SocketOf(b)'
    <3>1. CASE b = a
      BY <2>1, <2>3, <3>1 DEF SocketOf
    <3>2. CASE b # a
      <4>1. b \in Live /\ transport'[b] = transport[b] /\ SocketOf(b)
        BY <1>4, <2>1, <3>2 DEF Live
      <4>2. transport[b].socket # h
        BY <4>1 DEF SocketOf
      <4>. QED BY <2>3, <4>1, <4>2 DEF SocketOf
    <3>. QED BY <3>1, <3>2
  <2>5. ASSUME NEW g \in Handles
        PROVE  TcpHandle(g)'
    <3>1. TcpHandle(g)
      BY <1>4
    <3>2. CASE g = h
      <4>1. \A k \in DOMAIN writes[h] : FALSE
        BY <3>1, <3>2 DEF TcpHandle, WritesInv
      <4>2. a \in Live' /\ transport'[a].n = made + 1 /\ transport'[a].socket = h
        BY <2>1
      <4>. QED BY <2>3, <3>2, <4>1, <4>2 DEF TcpHandle, WritesInv
    <3>3. CASE g # h
      <4>1. handle'[g] = handle[g]
        BY <2>3, <3>3
      <4>2. \A b \in Live : b \in Live' /\ transport'[b] = transport[b]
        BY <2>1 DEF Live
      <4>. QED BY <3>1, <4>1, <4>2 DEF TcpHandle, WritesInv
    <3>. QED BY <3>2, <3>3
  <2>6. made' \in Nat /\ ~aborted'
    BY <1>3, <1>4, <2>1
  <2>. QED BY <1>1, <1>8, <2>1, <2>4, <2>5, <2>6 DEF TcpInv, SocketOf, TcpHandle
<1>10. CASE transport[a].n # 0
  <2>1. transport' = transport /\ made' = made /\ a \in Live /\ SocketOf(a)
    BY <1>4, <1>10 DEF get_or_create, Live
  <2>2. socket = transport[a].socket /\ n = transport[a].n /\ socket # h
    BY <1>10, <2>1 DEF socket, n, SocketOf
  <2>3. /\ handle'[h].st = "open" /\ handle'[h].addr = a /\ handle'[h].data = handle[h].data
        /\ \A g \in Handles \ {h} : /\ handle'[g].st = handle[g].st
                                    /\ handle'[g].addr = handle[g].addr
                                    /\ handle'[g].data = handle[g].data
    BY <1>1, <1>7, <1>8, <2>1, <2>2 DEF SocketOf
  <2>4. Live' = Live
    BY <2>1 DEF Live
  <2>5. ASSUME NEW b \in Live'
        PROVE  SocketOf(b)'
    <3>1. SocketOf(b)
      BY <1>4, <2>4
    <3>2. transport[b].socket # h
      BY <3>1 DEF SocketOf
    <3>. QED BY <2>1, <2>3, <3>1, <3>2 DEF SocketOf
  <2>6. ASSUME NEW g \in Handles
        PROVE  TcpHandle(g)'
    <3>1. TcpHandle(g)
      BY <1>4
    <3>2. CASE g = h
      <4>1. \A k \in DOMAIN writes[h] : FALSE
        BY <3>1, <3>2 DEF TcpHandle, WritesInv
      <4>2. handle[h].data = 0
        BY <3>1, <3>2 DEF TcpHandle
      <4>. QED BY <2>3, <3>2, <4>1, <4>2 DEF TcpHandle, WritesInv
    <3>3. CASE g # h
      <4>1. /\ handle'[g].st = handle[g].st
            /\ handle'[g].addr = handle[g].addr /\ handle'[g].data = handle[g].data
        BY <2>3, <3>3
      <4>. QED BY <2>1, <2>4, <3>1, <4>1 DEF TcpHandle, WritesInv
    <3>. QED BY <3>2, <3>3
  <2>7. NamesInv' /\ ~aborted'
    BY <1>2, <1>4, <2>1, <2>4 DEF NamesInv
  <2>. QED BY <1>1, <1>3, <1>8, <2>1, <2>5, <2>6, <2>7 DEF TcpInv, SocketOf, TcpHandle
<1>. QED BY <1>9, <1>10

(* dial of a TCP transport.                                                *)
LEMMA TcpDial ==
  ASSUME SocketsInv, NEW a \in Addrs, tcp_dial(a)
  PROVE  SocketsInv'
<1>1. /\ mode = "tcp" /\ mode' = mode
      /\ UNCHANGED <<transport, writes, made, sends, again, aborted>>
  BY DEF tcp_dial
<1>2. PICK h \in Handles : /\ handle[h].st = "none"
                           /\ handle' = [handle EXCEPT ![h] = [st |-> "dialing", data |-> 0, addr |-> a]]
  BY DEF tcp_dial, Fresh
<1>3. SocketsTypeOK /\ NamesInv /\ TcpHandle(h)
  BY <1>1, TcpParts DEF SocketsInv
<1>4. [st |-> "dialing", data |-> 0, addr |-> a] \in Handle /\ handle \in [Handles -> Handle]
  BY <1>3 DEF Handle, HandleStates, SocketsTypeOK
<1>5. /\ handle' \in [Handles -> Handle]
      /\ handle'[h] = [st |-> "dialing", data |-> 0, addr |-> a]
      /\ \A g \in Handles \ {h} : handle'[g] = handle[g]
  BY <1>2, <1>4
<1>6. handle[h].data = 0 /\ handle'[h].data = 0 /\ handle'[h].addr = a
  BY <1>2, <1>3, <1>5 DEF TcpHandle
<1>7. TcpInv'
  BY <1>1, <1>2, <1>5, <1>6, TcpOther
<1>8. SocketsTypeOK' /\ NamesInv'
  BY <1>1, <1>3, <1>5 DEF SocketsTypeOK, NamesInv, Live
<1>. QED BY <1>1, <1>7, <1>8 DEF SocketsInv, UdpInv, ServerInv

(* The answer of the dial.                                                 *)
LEMMA TcpDialCb ==
  ASSUME SocketsInv, NEW h \in Handles, NEW ok \in BOOLEAN, tcp_dial_cb(h, ok)
  PROVE  SocketsInv'
<1>. DEFINE a == handle[h].addr
<1>1. /\ mode = "tcp" /\ mode' = mode /\ handle[h].st = "dialing"
      /\ UNCHANGED <<writes, sends, again, aborted>>
  BY DEF tcp_dial_cb
<1>2. SocketsTypeOK /\ NamesInv /\ TcpHandle(h)
  BY <1>1, TcpParts DEF SocketsInv
<1>3. a \in Addrs /\ handle[h].data = 0
  BY <1>1, <1>2 DEF TcpHandle
<1>4. handle \in [Handles -> Handle]
  BY <1>2 DEF SocketsTypeOK
<1>5. CASE ok /\ transport[a].n = 0
  <2>1. get_or_create(a, h) /\ handle' = setup(a, h)
    BY <1>5 DEF tcp_dial_cb
  <2>2. /\ TcpInv' /\ NamesInv' /\ handle' \in [Handles -> Handle]
        /\ transport' \in [Addrs -> Transport] /\ made' \in Nat
    BY <1>1, <1>3, <2>1, SetUp
  <2>. QED BY <1>1, <1>2, <2>2 DEF SocketsInv, SocketsTypeOK, UdpInv, ServerInv
<1>6. CASE ~(ok /\ transport[a].n = 0)
  <2>1. /\ UNCHANGED <<transport, made>>
        /\ \E st \in {"failed", "open"} : handle' = [handle EXCEPT ![h].st = st]
    BY <1>6 DEF tcp_dial_cb, get_or_create
  <2>2. PICK st \in {"failed", "open"} : handle' = [handle EXCEPT ![h].st = st]
    BY <2>1
  <2>3. /\ handle' \in [Handles -> Handle]
        /\ handle'[h].st = st /\ handle'[h].data = 0 /\ handle'[h].addr = a
        /\ \A g \in Handles \ {h} : handle'[g] = handle[g]
    BY <1>3, <1>4, <2>2 DEF Handle, HandleStates
  <2>4. TcpInv'
    BY <1>1, <1>3, <2>1, <2>3, TcpOther
  <2>5. SocketsTypeOK' /\ NamesInv'
    BY <1>1, <1>2, <2>1, <2>3 DEF SocketsTypeOK, NamesInv, Live
  <2>. QED BY <1>1, <2>4, <2>5 DEF SocketsInv, UdpInv, ServerInv
<1>. QED BY <1>5, <1>6

(* A connection accepted by a listener.                                    *)
LEMMA TcpConnectionCb ==
  ASSUME SocketsInv, NEW a \in Addrs, NEW should_accept \in BOOLEAN,
         tcp_connection_cb(a, should_accept)
  PROVE  SocketsInv'
<1>1. mode = "tcp" /\ mode' = mode /\ UNCHANGED <<writes, sends, again, aborted>>
  BY DEF tcp_connection_cb
<1>2. PICK h \in Handles :
        /\ handle[h].st = "none"
        /\ \/ get_or_create(a, h) /\ handle' = setup(a, h)
           \/ /\ handle' = [handle EXCEPT ![h] = [st |-> "closing", data |-> 0, addr |-> a]]
              /\ UNCHANGED <<transport, made>>
  BY DEF tcp_connection_cb, Fresh
<1>3. SocketsTypeOK /\ NamesInv /\ TcpHandle(h)
  BY <1>1, TcpParts DEF SocketsInv
<1>4. CASE get_or_create(a, h) /\ handle' = setup(a, h)
  <2>1. /\ TcpInv' /\ NamesInv' /\ handle' \in [Handles -> Handle]
        /\ transport' \in [Addrs -> Transport] /\ made' \in Nat
    BY <1>1, <1>2, <1>4, SetUp
  <2>. QED BY <1>1, <1>3, <2>1 DEF SocketsInv, SocketsTypeOK, UdpInv, ServerInv
<1>5. CASE /\ handle' = [handle EXCEPT ![h] = [st |-> "closing", data |-> 0, addr |-> a]]
           /\ UNCHANGED <<transport, made>>
  <2>1. [st |-> "closing", data |-> 0, addr |-> a] \in Handle /\ handle \in [Handles -> Handle]
    BY <1>3 DEF Handle, HandleStates, SocketsTypeOK
  <2>2. /\ handle' \in [Handles -> Handle]
        /\ handle'[h] = [st |-> "closing", data |-> 0, addr |-> a]
        /\ \A g \in Handles \ {h} : handle'[g] = handle[g]
    BY <1>5, <2>1
  <2>3. handle[h].data = 0 /\ handle'[h].data = 0 /\ handle'[h].addr = a
    BY <1>2, <1>3, <2>2 DEF TcpHandle
  <2>4. TcpInv'
    BY <1>1, <1>2, <1>5, <2>2, <2>3, TcpOther
  <2>5. SocketsTypeOK' /\ NamesInv'
    BY <1>1, <1>3, <1>5, <2>2 DEF SocketsTypeOK, NamesInv, Live
  <2>. QED BY <1>1, <2>4, <2>5 DEF SocketsInv, UdpInv, ServerInv
<1>. QED BY <1>2, <1>4, <1>5

-----------------------------------------------------------------------------
(* TCP and the server.  Writes that are added to or taken from a handle    *)
(* are those of the owner it points to.                                    *)
ServerSocketOf(a) ==
  /\ transport[a].socket \in Handles
  /\ handle[transport[a].socket].data = transport[a].n
  /\ handle[transport[a].socket].addr = a
ServerHandle(h) ==
  /\ WritesInv(h)
  /\ handle[h].st \in {"none", "open", "closing", "closed"}
  /\ handle[h].st = "none" => handle[h].data = 0
  /\ handle[h].data # 0 => /\ handle[h].addr \in Live
                           /\ transport[handle[h].addr].n = handle[h].data
  /\ handle[h].st \in {"open", "closing"} /\ handle[h].data # 0 =>
       transport[handle[h].addr].socket = h \/ handle[h].addr \in again

(* What the invariant says of a server's handle.                           *)
LEMMA ServerParts ==
  SocketsInv /\ mode = "server" =>
    (\A a \in Live : ServerSocketOf(a)) /\ (\A h \in Handles : ServerHandle(h))
  BY DEF SocketsInv, ServerInv, ServerSocketOf, ServerHandle

(* A step that leaves handles and transports keeps what is said of the     *)
(* writes.                                                                 *)
LEMMA WritesStep ==
  ASSUME SocketsInv, mode \in {"tcp", "server"}, UNCHANGED <<mode, transport, handle, made, again>>,
         sends' \in Nat, aborted' \in BOOLEAN, mode = "tcp" => ~aborted',
         NEW h \in Handles, NEW V \in Seq(Write), writes' = [writes EXCEPT ![h] = V],
         \A k \in DOMAIN V : /\ handle[h].st \in {"open", "closing"}
                             /\ V[k].owner = handle[h].data /\ V[k].owner # 0
  PROVE  SocketsInv'
<1>1. SocketsTypeOK /\ NamesInv
  BY DEF SocketsInv
<1>2. /\ writes' \in [{Udp} \cup Handles -> Seq(Write)] /\ writes'[h] = V
      /\ \A g \in Handles \ {h} : writes'[g] = writes[g]
  BY <1>1 DEF SocketsTypeOK
<1>3. SocketsTypeOK' /\ NamesInv' /\ Live' = Live
  BY <1>1, <1>2 DEF SocketsTypeOK, NamesInv, Live
<1>4. ASSUME NEW g \in Handles, WritesInv(g)
      PROVE  WritesInv(g)'
  BY <1>2, <1>4 DEF WritesInv
<1>5. TcpInv'
  <2>1. CASE mode = "tcp"
    <3>1. ~aborted /\ (\A a \in Live : SocketOf(a)) /\ (\A g \in Handles : TcpHandle(g))
      BY <2>1, TcpParts
    <3>2. \A a \in Live' : SocketOf(a)'
      BY <1>3, <3>1 DEF SocketOf
    <3>3. \A g \in Handles : TcpHandle(g)'
      BY <1>3, <1>4, <3>1 DEF TcpHandle
    <3>. QED BY <2>1, <3>2, <3>3 DEF TcpInv, SocketOf, TcpHandle
  <2>. QED BY <2>1 DEF TcpInv
<1>6. ServerInv'
  <2>1. CASE mode = "server"
    <3>1. (\A a \in Live : ServerSocketOf(a)) /\ (\A g \in Handles : ServerHandle(g))
      BY <2>1, ServerParts
    <3>2. \A a \in Live' : ServerSocketOf(a)'
      BY <1>3, <3>1 DEF ServerSocketOf
    <3>3. \A g \in Handles : ServerHandle(g)'
      BY <1>3, <1>4, <3>1 DEF ServerHandle
    <3>. QED BY <3>2, <3>3 DEF ServerInv, ServerSocketOf, ServerHandle
  <2>. QED BY <2>1 DEF ServerInv
<1>. QED BY <1>3, <1>5, <1>6 DEF SocketsInv, UdpInv

(* send of a TCP transport.                                                *)
LEMMA Send ==
  ASSUME SocketsInv, NEW a \in Addrs,
         \/ tcp_send(a)
         \/ fiber_send(a) /\ handle[transport[a].socket].st = "open"
  PROVE  SocketsInv'
<1>. DEFINE h == transport[a].socket
            w == [id |-> sends + 1, owner |-> transport[a].n]
<1>1. /\ mode \in {"tcp", "server"} /\ transport[a].n # 0 /\ handle[h].st = "open"
      /\ writes' = [writes EXCEPT ![h] = Append(writes[h], w)] /\ sends' = sends + 1
      /\ UNCHANGED <<mode, transport, handle, made, again, aborted>>
  BY DEF tcp_send, fiber_send
<1>2. SocketsTypeOK /\ a \in Live
  BY <1>1 DEF SocketsInv, Live
<1>3. /\ h \in Handles /\ handle[h].data = transport[a].n /\ WritesInv(h)
      /\ mode = "tcp" => ~aborted
  BY <1>1, <1>2, TcpParts, ServerParts DEF SocketOf, TcpHandle, ServerSocketOf, ServerHandle
<1>4. w \in Write /\ w.owner = transport[a].n
  BY <1>2 DEF SocketsTypeOK, Write, Transport
<1>5. writes[h] \in Seq(Write)
  BY <1>2, <1>3 DEF SocketsTypeOK
<1>. HIDE DEF h, w
<1>6. /\ Append(writes[h], w) \in Seq(Write)
      /\ DOMAIN Append(writes[h], w) = DOMAIN writes[h] \cup {Len(writes[h]) + 1}
      /\ \A k \in DOMAIN writes[h] : Append(writes[h], w)[k] = writes[h][k]
      /\ Append(writes[h], w)[Len(writes[h]) + 1] = w
  BY <1>4, <1>5, Appended
<1>7. \A k \in DOMAIN Append(writes[h], w) :
        /\ handle[h].st \in {"open", "closing"}
        /\ Append(writes[h], w)[k].owner = handle[h].data
        /\ Append(writes[h], w)[k].owner # 0
  BY <1>1, <1>3, <1>4, <1>6 DEF WritesInv
<1>8. sends' \in Nat /\ aborted' \in BOOLEAN /\ (mode = "tcp" => ~aborted')
  BY <1>1, <1>2, <1>3 DEF SocketsTypeOK
<1>. QED BY <1>1, <1>3, <1>6, <1>7, <1>8, WritesStep

(* The answer of a write.                                                  *)
LEMMA SendCb ==
  ASSUME SocketsInv, NEW h \in Handles, tcp_send_cb(h)
  PROVE  SocketsInv'
<1>1. /\ mode \in {"tcp", "server"} /\ writes[h] # <<>>
      /\ writes' = [writes EXCEPT ![h] = Tail(writes[h])]
      /\ aborted' = (Head(writes[h]).owner \notin Owners)
      /\ UNCHANGED <<mode, transport, handle, made, sends, again>>
  BY DEF tcp_send_cb
<1>2. SocketsTypeOK
  BY DEF SocketsInv
<1>3. writes[h] \in Seq(Write)
  BY <1>2 DEF SocketsTypeOK
<1>4. /\ Head(writes[h]) = writes[h][1] /\ 1 \in DOMAIN writes[h] /\ Tail(writes[h]) \in Seq(Write)
      /\ \A k \in DOMAIN Tail(writes[h]) :
           k + 1 \in DOMAIN writes[h] /\ Tail(writes[h])[k] = writes[h][k + 1]
  BY <1>1, <1>3, Dropped
<1>5. WritesInv(h)
  BY <1>1, TcpParts, ServerParts DEF TcpHandle, ServerHandle
<1>6. \A k \in DOMAIN Tail(writes[h]) : /\ handle[h].st \in {"open", "closing"}
                                        /\ Tail(writes[h])[k].owner = handle[h].data
                                        /\ Tail(writes[h])[k].owner # 0
  BY <1>4, <1>5 DEF WritesInv
<1>7. mode = "tcp" => ~aborted'
  <2>1. SUFFICES ASSUME mode = "tcp"
                 PROVE  writes[h][1].owner \in Owners
    BY <1>1, <1>4
  <2>2. TcpHandle(h)
    BY <2>1, TcpParts
  <2>3. \E a \in Live : transport[a].n = writes[h][1].owner
    BY <1>4, <1>5, <2>2 DEF TcpHandle, WritesInv
  <2>. QED BY <2>3 DEF Owners
<1>8. sends' \in Nat /\ aborted' \in BOOLEAN
  BY <1>1, <1>2 DEF SocketsTypeOK
<1>. QED BY <1>1, <1>4, <1>6, <1>7, <1>8, WritesStep

(* Closing the handle of a transport changes only its state.               *)
LEMMA CloseHandle ==
  ASSUME SocketsInv, mode \in {"tcp", "server"}, NEW a \in Live,
         tcp_close(transport[a].socket),
         mode = "tcp" => handle[transport[a].socket].st = "open",
         UNCHANGED <<mode, writes, made, sends, again>>
  PROVE  SocketsInv'
<1>. DEFINE s == transport[a].socket
<1>1. /\ handle' = [handle EXCEPT ![s].st = "closing"] /\ aborted' = (handle[s].st # "open")
      /\ transport' = transport
  BY DEF tcp_close
<1>2. SocketsTypeOK /\ NamesInv
  BY DEF SocketsInv
<1>3. s \in Handles /\ handle[s].data = transport[a].n /\ transport[a].n # 0
  BY TcpParts, ServerParts DEF SocketOf, ServerSocketOf, Live
<1>. HIDE DEF s
<1>4. /\ handle' \in [Handles -> Handle]
      /\ handle'[s].st = "closing" /\ handle'[s].data = handle[s].data
      /\ handle'[s].addr = handle[s].addr
      /\ \A g \in Handles \ {s} : handle'[g] = handle[g]
  BY <1>1, <1>2, <1>3 DEF SocketsTypeOK, Handle, HandleStates
<1>5. SocketsTypeOK' /\ NamesInv' /\ Live' = Live
  BY <1>1, <1>2, <1>4 DEF SocketsTypeOK, NamesInv, Live
<1>6. TcpInv'
  <2>1. CASE mode = "tcp"
    <3>1. ~aborted /\ (\A b \in Live : SocketOf(b)) /\ (\A g \in Handles : TcpHandle(g))
      BY <2>1, TcpParts
    <3>2. ASSUME NEW b \in Live'
          PROVE  SocketOf(b)'
      <4>1. SocketOf(b)
        BY <1>5, <3>1
      <4>. QED BY <1>1, <1>4, <4>1 DEF SocketOf
    <3>3. handle[s].st = "open"
      BY <2>1 DEF s
    <3>4. ASSUME NEW g \in Handles
          PROVE  TcpHandle(g)'
      <4>1. TcpHandle(g)
        BY <3>1
      <4>2. CASE g = s
        BY <1>1, <1>4, <1>5, <3>3, <4>1, <4>2 DEF TcpHandle, WritesInv
      <4>3. CASE g # s
        BY <1>1, <1>4, <1>5, <4>1, <4>3 DEF TcpHandle, WritesInv
      <4>. QED BY <4>2, <4>3
    <3>. QED BY <1>1, <2>1, <3>2, <3>3, <3>4 DEF TcpInv, SocketOf, TcpHandle
  <2>. QED BY <2>1 DEF TcpInv
<1>7. ServerInv'
  <2>1. CASE mode = "server"
    <3>1. (\A b \in Live : ServerSocketOf(b)) /\ (\A g \in Handles : ServerHandle(g))
      BY <2>1, ServerParts
    <3>2. ASSUME NEW b \in Live'
          PROVE  ServerSocketOf(b)'
      <4>1. ServerSocketOf(b)
        BY <1>5, <3>1
      <4>. QED BY <1>1, <1>4, <4>1 DEF ServerSocketOf
    <3>3. handle[s].addr = a /\ transport[a].socket = s
      BY <3>1 DEF s, ServerSocketOf
    <3>4. ASSUME NEW g \in Handles
          PROVE  ServerHandle(g)'
      <4>1. ServerHandle(g)
        BY <3>1
      <4>2. CASE g = s
        BY <1>1, <1>4, <1>5, <3>3, <4>1, <4>2 DEF ServerHandle, WritesInv
      <4>3. CASE g # s
        BY <1>1, <1>4, <1>5, <4>1, <4>3 DEF ServerHandle, WritesInv
      <4>. QED BY <4>2, <4>3
    <3>. QED BY <3>2, <3>4 DEF ServerInv, ServerSocketOf, ServerHandle
  <2>. QED BY <2>1 DEF ServerInv
<1>. QED BY <1>5, <1>6, <1>7 DEF SocketsInv, UdpInv

(* A transport closed by its owner, or that finds its handle closed when   *)
(* it sends.                                                               *)
LEMMA ByOwner ==
  ASSUME SocketsInv, NEW a \in Addrs,
         \/ ClosedByOwner(a)
         \/ fiber_send(a) /\ handle[transport[a].socket].st # "open"
  PROVE  SocketsInv'
<1>1. /\ mode \in {"tcp", "server"} /\ transport[a].n # 0
      /\ tcp_close(transport[a].socket)
      /\ mode = "tcp" => handle[transport[a].socket].st = "open"
      /\ UNCHANGED <<mode, writes, made, sends, again>>
  BY DEF ClosedByOwner, fiber_send
<1>2. a \in Live
  BY <1>1 DEF Live
<1>. QED BY <1>1, <1>2, CloseHandle

(* The stream of a transport ends.                                         *)
LEMMA StreamEnds ==
  ASSUME SocketsInv, NEW h \in Handles, tcp_recv_cb(h) \/ fiber_recv_cb(h)
  PROVE  SocketsInv'
<1>1. /\ mode \in {"tcp", "server"} /\ handle[h].st = "open" /\ handle[h].data \in Owners
      /\ tcp_close(transport[OwnerAt(handle[h].data)].socket)
      /\ UNCHANGED <<mode, writes, made, sends, again>>
  BY DEF tcp_recv_cb, fiber_recv_cb, CloseOwnerOf
<1>2. PICK a \in Live : a = OwnerAt(handle[h].data) /\ transport[a].n = handle[h].data
  BY <1>1, OwnerFound DEF SocketsInv
<1>3. mode = "tcp" => handle[transport[a].socket].st = "open"
  <2>1. SUFFICES ASSUME mode = "tcp"
                 PROVE  transport[a].socket = h
    BY <1>1
  <2>2. TcpHandle(h)
    BY <2>1, TcpParts
  <2>3. PICK b \in Live : transport[b].n = handle[h].data /\ transport[b].socket = h
    BY <1>1, <1>2, <2>2 DEF TcpHandle, Live
  <2>4. a = b
    BY <1>2, <2>3 DEF SocketsInv, NamesInv
  <2>. QED BY <2>3, <2>4
<1>. QED BY <1>1, <1>2, <1>3, CloseHandle

(* libuv has handed back every write of a handle before it is gone.        *)
LEMMA CloseCb ==
  ASSUME SocketsInv, NEW h \in Handles, tcp_close_cb(h)
  PROVE  SocketsInv'
<1>1. /\ handle[h].st = "closing" /\ writes[h] = <<>>
      /\ handle' = [handle EXCEPT ![h].st = "closed"]
      /\ UNCHANGED <<mode, writes, made, sends, again>>
  BY DEF tcp_close_cb
<1>2. SocketsTypeOK /\ NamesInv
  BY DEF SocketsInv
<1>3. /\ handle' \in [Handles -> Handle]
      /\ handle'[h].st = "closed" /\ handle'[h].data = handle[h].data
      /\ handle'[h].addr = handle[h].addr
      /\ \A g \in Handles \ {h} : handle'[g] = handle[g]
  BY <1>1, <1>2 DEF SocketsTypeOK, Handle, HandleStates
<1>4. \A k \in DOMAIN writes[h] : FALSE
  BY <1>1
<1>5. CASE mode = "tcp" /\ handle[h].data # 0
  <2>1. ~aborted /\ (\A b \in Live : SocketOf(b)) /\ (\A g \in Handles : TcpHandle(g))
    BY <1>5, TcpParts
  <2>2. PICK a \in Live : transport[a].n = handle[h].data /\ transport[a].socket = h
    BY <1>1, <1>5, <2>1 DEF TcpHandle
  <2>3. handle[h].data \in Owners /\ OwnerAt(handle[h].data) = a
    BY <1>2, <2>2, OwnerFound
  <2>4. erase(a) /\ UNCHANGED aborted
    BY <1>5, <2>3 DEF tcp_close_cb
  <2>5. /\ NamesInv' /\ transport' \in [Addrs -> Transport]
        /\ \A b \in Addrs \ {a} : transport'[b] = transport[b]
        /\ Live' = Live \ {a}
    BY <1>1, <1>2, <2>4, Erased
  <2>6. ASSUME NEW b \in Live'
        PROVE  SocketOf(b)'
    <3>1. b \in Live /\ b # a /\ transport'[b] = transport[b]
      BY <2>5 DEF Live
    <3>2. transport[b].n # handle[h].data
      BY <1>2, <2>2, <3>1 DEF NamesInv
    <3>3. SocketOf(b) /\ transport[b].socket # h
      BY <2>1, <3>1, <3>2 DEF SocketOf
    <3>. QED BY <1>3, <3>1, <3>3 DEF SocketOf
  <2>7. ASSUME NEW g \in Handles
        PROVE  TcpHandle(g)'
    <3>1. TcpHandle(g)
      BY <2>1
    <3>2. CASE g = h
      BY <1>1, <1>3, <1>4, <3>1, <3>2 DEF TcpHandle, WritesInv
    <3>3. CASE g # h
      <4>1. \A b \in Live : transport[b].socket = g => b # a
        BY <2>2, <3>3
      <4>2. \A b \in Live : b # a => b \in Live' /\ transport'[b] = transport[b]
        BY <2>5 DEF Live
      <4>. QED BY <1>1, <1>3, <3>1, <3>3, <4>1, <4>2 DEF TcpHandle, WritesInv
    <3>. QED BY <3>2, <3>3
  <2>8. SocketsTypeOK'
    BY <1>1, <1>2, <1>3, <2>4, <2>5 DEF SocketsTypeOK
  <2>. QED BY <1>1, <1>5, <2>1, <2>4, <2>5, <2>6, <2>7, <2>8
           DEF SocketsInv, UdpInv, TcpInv, ServerInv, SocketOf, TcpHandle
<1>6. CASE ~(mode = "tcp" /\ handle[h].data # 0)
  <2>1. UNCHANGED <<transport, aborted>>
    BY <1>6 DEF tcp_close_cb
  <2>2. SocketsTypeOK' /\ NamesInv' /\ Live' = Live
    BY <1>1, <1>2, <1>3, <2>1 DEF SocketsTypeOK, NamesInv, Live
  <2>3. TcpInv'
    <3>1. CASE mode = "tcp"
      <4>1. ~aborted /\ (\A b \in Live : SocketOf(b)) /\ (\A g \in Handles : TcpHandle(g))
        BY <3>1, TcpParts
      <4>2. ASSUME NEW b \in Live'
            PROVE  SocketOf(b)'
        <5>1. SocketOf(b) /\ transport[b].n # 0
          BY <2>2, <4>1 DEF Live
        <5>2. transport[b].socket # h
          BY <1>6, <3>1, <5>1 DEF SocketOf
        <5>. QED BY <1>3, <2>1, <5>1, <5>2 DEF SocketOf
      <4>3. ASSUME NEW g \in Handles
            PROVE  TcpHandle(g)'
        <5>1. TcpHandle(g)
          BY <4>1
        <5>2. CASE g = h
          BY <1>1, <1>3, <1>4, <2>1, <5>1, <5>2 DEF TcpHandle, WritesInv
        <5>3. CASE g # h
          BY <1>1, <1>3, <2>1, <2>2, <5>1, <5>3 DEF TcpHandle, WritesInv
        <5>. QED BY <5>2, <5>3
      <4>. QED BY <2>1, <4>1, <4>2, <4>3 DEF TcpInv, SocketOf, TcpHandle
    <3>. QED BY <1>1, <3>1 DEF TcpInv
  <2>4. ServerInv'
    <3>1. CASE mode = "server"
      <4>1. (\A b \in Live : ServerSocketOf(b)) /\ (\A g \in Handles : ServerHandle(g))
        BY <3>1, ServerParts
      <4>2. ASSUME NEW b \in Live'
            PROVE  ServerSocketOf(b)'
        <5>1. ServerSocketOf(b)
          BY <2>2, <4>1
        <5>. QED BY <1>3, <2>1, <5>1 DEF ServerSocketOf
      <4>3. ASSUME NEW g \in Handles
            PROVE  ServerHandle(g)'
        <5>1. ServerHandle(g)
          BY <4>1
        <5>2. CASE g = h
          BY <1>1, <1>3, <1>4, <2>1, <2>2, <5>1, <5>2 DEF ServerHandle, WritesInv
        <5>3. CASE g # h
          BY <1>1, <1>3, <2>1, <2>2, <5>1, <5>3 DEF ServerHandle, WritesInv
        <5>. QED BY <5>2, <5>3
      <4>. QED BY <4>2, <4>3 DEF ServerInv, ServerSocketOf, ServerHandle
    <3>. QED BY <1>1, <3>1 DEF ServerInv
  <2>5. UdpInv'
    <3>1. mode # "udp"
      BY <1>1 DEF SocketsInv, UdpInv
    <3>. QED BY <1>1, <3>1 DEF UdpInv
  <2>. QED BY <2>2, <2>3, <2>4, <2>5 DEF SocketsInv
<1>. QED BY <1>5, <1>6

(* A fiber takes a new handle; the one it had keeps pointing to it.        *)
LEMMA ServerConnection ==
  ASSUME SocketsInv, NEW a \in Addrs, server_connection_cb(a)
  PROVE  SocketsInv'
<1>. DEFINE n == Fiber(a)
<1>1. /\ mode = "server" /\ mode' = mode
      /\ made' = IF n > made THEN n ELSE made
      /\ again' = IF \E g \in Handles : handle[g].addr = a /\ handle[g].st \in {"open", "closing"}
                  THEN again \cup {a} ELSE again
      /\ UNCHANGED <<writes, sends, aborted>>
  BY DEF server_connection_cb
<1>2. PICK h \in Handles :
        /\ handle[h].st = "none"
        /\ handle' = [handle EXCEPT ![h] = [st |-> "open", data |-> n, addr |-> a]]
        /\ transport' = [transport EXCEPT ![a].n = n, ![a].socket = h]
  BY DEF server_connection_cb, Fresh, fiber_did_dial
<1>3. /\ SocketsTypeOK /\ NamesInv
      /\ (\A b \in Live : ServerSocketOf(b)) /\ (\A g \in Handles : ServerHandle(g))
  BY <1>1, ServerParts DEF SocketsInv
<1>4. /\ transport \in [Addrs -> Transport] /\ handle \in [Handles -> Handle] /\ made \in Nat
      /\ \A b \in Addrs : transport[b].n \in Nat /\ transport[b].n <= made
  BY <1>3 DEF SocketsTypeOK, NamesInv, Transport
<1>5. /\ n \in Nat /\ n # 0 /\ made' \in Nat /\ n <= made' /\ made <= made'
      /\ transport[a].n # 0 => n = transport[a].n
      /\ transport[a].n = 0 => n = made + 1
  BY <1>1, <1>4 DEF Fiber
<1>. HIDE DEF n
<1>6. /\ transport' \in [Addrs -> Transport]
      /\ transport'[a].n = n /\ transport'[a].socket = h
      /\ \A b \in Addrs \ {a} : transport'[b] = transport[b]
  <2>1. DEFINE f == [transport EXCEPT ![a].n = n]
               g == [f EXCEPT ![a].socket = h]
  <2>2. transport' = g
    BY <1>2, Zenon
  <2>3. /\ f \in [Addrs -> Transport] /\ f[a].n = n
        /\ \A b \in Addrs \ {a} : f[b] = transport[b]
    BY <1>4, <1>5 DEF Transport
  <2>. HIDE DEF f
  <2>4. /\ g \in [Addrs -> Transport] /\ g[a].n = n /\ g[a].socket = h
        /\ \A b \in Addrs \ {a} : g[b] = transport[b]
    BY <2>3 DEF Transport
  <2>. HIDE DEF g
  <2>. QED BY <2>2, <2>4
<1>7. /\ handle' \in [Handles -> Handle]
      /\ handle'[h] = [st |-> "open", data |-> n, addr |-> a]
      /\ \A g \in Handles \ {h} : handle'[g] = handle[g]
  <2>1. [st |-> "open", data |-> n, addr |-> a] \in Handle
    BY <1>5 DEF Handle, HandleStates
  <2>. QED BY <1>2, <1>4, <2>1
<1>8. again' \in SUBSET Addrs /\ again \subseteq again'
  BY <1>1, <1>3 DEF SocketsTypeOK
<1>9. SocketsTypeOK'
  BY <1>1, <1>3, <1>5, <1>6, <1>7, <1>8 DEF SocketsTypeOK
<1>10. Live' = Live \cup {a} /\ \A b \in Live : transport'[b].n = transport[b].n
  BY <1>4, <1>5, <1>6 DEF Live
<1>11. NamesInv'
  <2>1. \A b \in Addrs : transport'[b].n <= made'
    BY <1>4, <1>5, <1>6
  <2>2. ASSUME NEW b \in Live', NEW c \in Live', transport'[b].n = transport'[c].n
        PROVE  b = c
    <3>1. \A d \in Live : d # a => transport[d].n # n
      BY <1>3, <1>4, <1>5 DEF NamesInv, Live
    <3>. QED BY <1>3, <1>6, <1>10, <2>2, <3>1 DEF NamesInv
  <2>. QED BY <2>1, <2>2 DEF NamesInv
<1>12. ASSUME NEW b \in Live'
       PROVE  ServerSocketOf(b)'
  <2>1. CASE b = a
    BY <1>6, <1>7, <2>1 DEF ServerSocketOf
  <2>2. CASE b # a
    <3>1. ServerSocketOf(b) /\ transport'[b] = transport[b] /\ transport[b].n # 0
      BY <1>3, <1>6, <1>10, <2>2 DEF Live
    <3>2. handle[h].data = 0
      BY <1>2, <1>3 DEF ServerHandle
    <3>3. transport[b].socket # h
      BY <3>1, <3>2 DEF ServerSocketOf
    <3>. QED BY <1>7, <3>1, <3>3 DEF ServerSocketOf
  <2>. QED BY <2>1, <2>2
<1>13. ASSUME NEW g \in Handles
       PROVE  ServerHandle(g)'
  <2>1. ServerHandle(g)
    BY <1>3
  <2>2. CASE g = h
    <3>1. \A k \in DOMAIN writes[h] : FALSE
      BY <1>2, <2>1, <2>2 DEF ServerHandle, WritesInv
    <3>. QED BY <1>1, <1>6, <1>7, <1>10, <2>2, <3>1 DEF ServerHandle, WritesInv
  <2>3. CASE g # h
    <3>1. handle'[g] = handle[g] /\ WritesInv(g)'
      BY <1>1, <1>7, <2>1, <2>3 DEF ServerHandle, WritesInv
    <3>2. handle[g].data # 0 => /\ handle[g].addr \in Live /\ handle[g].addr \in Live'
                                /\ transport'[handle[g].addr].n = handle[g].data
      BY <1>10, <2>1 DEF ServerHandle
    <3>3. handle[g].st \in {"open", "closing"} /\ handle[g].data # 0 =>
            transport'[handle[g].addr].socket = g \/ handle[g].addr \in again'
      <4>1. CASE handle[g].addr = a
        BY <1>1, <4>1
      <4>2. CASE handle[g].addr # a
        BY <1>6, <1>8, <2>1, <4>2 DEF ServerHandle, Live
      <4>. QED BY <4>1, <4>2
    <3>. QED BY <2>1, <3>1, <3>2, <3>3 DEF ServerHandle
  <2>. QED BY <2>2, <2>3
<1>. QED BY <1>1, <1>9, <1>11, <1>12, <1>13
         DEF SocketsInv, UdpInv, TcpInv, ServerInv, ServerSocketOf, ServerHandle

-----------------------------------------------------------------------------
(* The invariant holds before anything is opened.                          *)
LEMMA Initial ==
  SocketsInit => SocketsInv
<1>1. SUFFICES ASSUME SocketsInit
               PROVE  SocketsInv
  OBVIOUS
<1>2. /\ mode \in {"udp", "tcp", "server", "none"}
      /\ transport = [a \in Addrs |-> NoTransport] /\ handle = [h \in Handles |-> NoHandle]
      /\ writes = [h \in {Udp} \cup Handles |-> <<>>]
      /\ made = 0 /\ sends = 0 /\ again = {} /\ aborted = FALSE
  BY <1>1, SocketsAssumption DEF SocketsInit
<1>3. /\ NoTransport \in Transport /\ NoTransport.n = 0
      /\ NoHandle \in Handle /\ NoHandle.st = "none" /\ NoHandle.data = 0
      /\ <<>> \in Seq(Write)
  BY DEF NoTransport, Transport, NoHandle, Handle, HandleStates, Udp
<1>4. SocketsTypeOK
  BY <1>2, <1>3 DEF SocketsTypeOK
<1>5. Live = {} /\ \A h \in {Udp} \cup Handles : \A k \in DOMAIN writes[h] : FALSE
  BY <1>2, <1>3 DEF Live
<1>6. NamesInv
  BY <1>2, <1>3, <1>5 DEF NamesInv
<1>7. UdpInv /\ TcpInv /\ ServerInv
  BY <1>2, <1>3, <1>5 DEF UdpInv, UdpWritesInv, TcpInv, ServerInv, WritesInv
<1>. QED BY <1>4, <1>6, <1>7 DEF SocketsInv

(* And every step keeps it.                                                *)
LEMMA Inductive ==
  SocketsInv /\ [SocketsNext]_socketVars => SocketsInv'
<1>1. SUFFICES ASSUME SocketsInv, [SocketsNext]_socketVars
               PROVE  SocketsInv'
  OBVIOUS
<1>2. CASE UNCHANGED socketVars
  BY <1>1, <1>2 DEF socketVars, SocketsInv, SocketsTypeOK, NamesInv, UdpInv, UdpWritesInv, PendingInv,
        DisjointInv, TcpInv, ServerInv, WritesInv, Live, Owners
<1>3. ASSUME NEW a \in Addrs, \/ udp_dial(a) \/ udp_recv_cb(a) \/ udp_close(a) \/ tcp_dial(a)
                              \/ tcp_send(a) \/ ClosedByOwner(a) \/ server_connection_cb(a)
                              \/ fiber_send(a)
      PROVE  SocketsInv'
  BY <1>1, <1>3, UdpCreate, UdpClose, TcpDial, Send, ByOwner, ServerConnection
<1>4. ASSUME NEW a \in Addrs, NEW yes \in BOOLEAN, udp_send(a, yes) \/ tcp_connection_cb(a, yes)
      PROVE  SocketsInv'
  BY <1>1, <1>4, UdpSend, TcpConnectionCb
<1>5. CASE udp_send_cb
  BY <1>1, <1>5, UdpSendCb
<1>6. ASSUME NEW h \in Handles, \/ tcp_send_cb(h) \/ tcp_close_cb(h) \/ tcp_recv_cb(h) \/ fiber_recv_cb(h)
                                \/ \E ok \in BOOLEAN : tcp_dial_cb(h, ok)
      PROVE  SocketsInv'
  BY <1>1, <1>6, SendCb, CloseCb, StreamEnds, TcpDialCb
<1>. QED BY <1>1, <1>2, <1>3, <1>4, <1>5, <1>6 DEF SocketsNext

(* The invariant holds in every behaviour of the sockets.                  *)
THEOREM SocketsInvariant ==
  SocketsSpec => []SocketsInv
<1>. QED BY Initial, Inductive, PTL DEF SocketsSpec

(* A UDP request that libuv holds names a transport that exists, or none,  *)
(* and a transport lists the requests libuv holds for it, in order, unless *)
(* one of its sends was refused (UdpTransport::pending_req).               *)
THEOREM RequestsOwned ==
  SocketsSpec => []SendsOwned
<1>1. SocketsInv => SendsOwned
  <2>1. SUFFICES ASSUME SocketsInv, mode = "udp"
                 PROVE  /\ ~aborted
                        /\ \A k \in DOMAIN writes[Udp] : writes[Udp][k].owner \in Owners \cup {0}
                        /\ \A a \in Live :
                             \/ transport[a].refused
                             \/ /\ {transport[a].pending_req[i] : i \in DOMAIN transport[a].pending_req}
                                   = {writes[Udp][k].id : k \in {j \in DOMAIN writes[Udp] :
                                                                writes[Udp][j].owner = transport[a].n}}
                                /\ \A i, j \in DOMAIN transport[a].pending_req :
                                     i < j => transport[a].pending_req[i] < transport[a].pending_req[j]
    BY DEF SendsOwned
  <2>2. UdpWritesInv /\ ~aborted /\ \A a \in Live : PendingInv(a)
    BY <2>1 DEF SocketsInv, UdpInv
  <2>3. ASSUME NEW a \in Live, ~transport[a].refused
        PROVE  {transport[a].pending_req[i] : i \in DOMAIN transport[a].pending_req}
                 = {writes[Udp][k].id : k \in {j \in DOMAIN writes[Udp] :
                                               writes[Udp][j].owner = transport[a].n}}
    <3>1. PendingInv(a)
      BY <2>2
    <3>. QED BY <2>3, <3>1 DEF PendingInv
  <2>. QED BY <2>2, <2>3 DEF UdpWritesInv, PendingInv
<1>. QED BY <1>1, SocketsInvariant, PTL

(* Every handle libuv may call back for, and every write under way on it,  *)
(* leads through its raw pointer to a transport that exists and has that   *)
(* handle (TcpTransport, TcpInFiber).                                      *)
THEOREM OwnersFound ==
  SocketsSpec => []CallbacksFindOwner
<1>1. SocketsInv => CallbacksFindOwner
  <2>1. SUFFICES ASSUME SocketsInv, mode \in {"tcp", "server"}
                 PROVE  /\ \A h \in Handles :
                             \A n \in {writes[h][k].owner : k \in DOMAIN writes[h]} \cup
                                      (IF handle[h].st \in {"open", "closing"}
                                       THEN {handle[h].data} \ {0} ELSE {}) :
                               /\ n \in Owners
                               /\ transport[OwnerAt(n)].socket = h \/ handle[h].addr \in again
                        /\ mode = "tcp" =>
                             /\ ~aborted
                             /\ \A a \in Live : handle[transport[a].socket].st \in {"open", "closing"}
    BY DEF CallbacksFindOwner
  <2>2. ASSUME NEW h \in Handles,
               NEW n \in {writes[h][k].owner : k \in DOMAIN writes[h]} \cup
                         (IF handle[h].st \in {"open", "closing"} THEN {handle[h].data} \ {0} ELSE {})
        PROVE  n \in Owners /\ (transport[OwnerAt(n)].socket = h \/ handle[h].addr \in again)
    <3>1. WritesInv(h)
      BY <2>1, TcpParts, ServerParts DEF TcpHandle, ServerHandle
    <3>2. handle[h].st \in {"open", "closing"} /\ n = handle[h].data /\ n # 0
      BY <2>2, <3>1 DEF WritesInv
    <3>3. PICK a \in Live : /\ transport[a].n = n
                            /\ transport[a].socket = h \/ handle[h].addr \in again
      BY <2>1, <3>2, TcpParts, ServerParts DEF TcpHandle, ServerHandle
    <3>. QED BY <2>1, <3>3, OwnerFound DEF SocketsInv
  <2>3. mode = "tcp" =>
          ~aborted /\ \A a \in Live : handle[transport[a].socket].st \in {"open", "closing"}
    BY <2>1, TcpParts DEF SocketOf
  <2>. QED BY <2>2, <2>3
<1>. QED BY <1>1, SocketsInvariant, PTL

-----------------------------------------------------------------------------
(* The framing of a stream                                                 *)

(* A set of numbers has a least.                                           *)
LEMMA LeastNumber ==
  ASSUME NEW T \in SUBSET Nat, T # {}
  PROVE  \E x \in T : \A y \in T : x <= y
<1>. DEFINE R == OpToRel(<, Nat)
<1>1. \A x, y \in Nat : <<x, y>> \in R <=> x < y
  BY DEF OpToRel
<1>2. IsWellFoundedOn(R, Nat)
  BY NatLessThanWellFounded
<1>. HIDE DEF R
<1>3. PICK x \in T : \A y \in T : ~(<<y, x>> \in R)
  BY <1>2, WFMin
<1>4. ASSUME NEW y \in T PROVE x <= y
  <2>1. ~(y < x)
    BY <1>1, <1>3
  <2>. QED BY <2>1
<1>. QED BY <1>4

(* A set of numbers that holds 0 and is closed under the next up to n      *)
(* holds them all.                                                         *)
LEMMA UpTo ==
  ASSUME NEW n \in Nat, NEW good, 0 \in good, \A k \in 1 .. n : k - 1 \in good => k \in good
  PROVE  0 .. n \subseteq good
<1> DEFINE bad == {k \in 0 .. n : k \notin good}
<1>1. SUFFICES ASSUME bad # {} PROVE FALSE  OBVIOUS
<1>2. bad \in SUBSET Nat  OBVIOUS
<1>3. PICK m \in bad : \A k \in bad : m <= k
  <2> HIDE DEF bad
  <2> QED BY <1>1, <1>2, LeastNumber
<1>4. m # 0 /\ m \in 1 .. n /\ m - 1 \in 0 .. n /\ m - 1 \notin bad  BY <1>3
<1> QED BY <1>3, <1>4

(* Division by a product is division by its factors.                       *)
LEMMA DivTwice ==
  ASSUME NEW a \in Nat, NEW p \in Nat \ {0}, NEW r \in Nat \ {0}
  PROVE  /\ a \div (r * p) = (a \div p) \div r
         /\ (a \div (r * p)) * r + ((a \div p) % r) = a \div p
<1> DEFINE q == a \div p  u == a % p  b == q \div r  v == q % r  t == r * p
<1>1. a = q * p + u /\ u \in 0 .. p - 1 /\ q \in Nat  OBVIOUS
<1>2. q = b * r + v /\ v \in 0 .. r - 1 /\ b \in Nat  BY <1>1
<1>3. t \in Nat \ {0}  OBVIOUS
<1> HIDE DEF q, u, b, v
<1> DEFINE w == v * p + u
<1>4. v * p <= (r - 1) * p /\ v * p \in Nat  BY <1>2
<1>5. (r - 1) * p = t - p  BY <1>2
<1>6. w \in 0 .. t - 1  BY <1>1, <1>3, <1>4, <1>5
<1>7. a = b * t + w
  <2>1. (b * r + v) * p = b * t + v * p  BY <1>2
  <2> QED BY <1>1, <1>2, <2>1
<1>8. a \div t = b
  <2> HIDE DEF t, w
  <2> QED BY <1>2, <1>3, <1>6, <1>7
<1> QED BY <1>2, <1>8 DEF q, b, v

-----------------------------------------------------------------------------
(* Ends and powers                                                         *)

(* The recursion of End has a solution.                                    *)
LEMMA EndsExist ==
  ASSUME NEW n \in Nat, NEW s
  PROVE  \E e : e = [j \in 0 .. n |-> IF j = 0 THEN 0 ELSE e[j - 1] + Framed(s[j])]
<1> DEFINE P(m) == \E e : e = [j \in 0 .. m |-> IF j = 0 THEN 0 ELSE e[j - 1] + Framed(s[j])]
           good == {m \in 0 .. n : P(m)}
<1>1. P(0)
  <2> DEFINE e == [j \in 0 .. 0 |-> 0]
  <2>1. e = [j \in 0 .. 0 |-> IF j = 0 THEN 0 ELSE e[j - 1] + Framed(s[j])]  OBVIOUS
  <2> QED BY <2>1
<1>2. ASSUME NEW m \in 1 .. n, P(m - 1)  PROVE P(m)
  <2>1. PICK e : e = [j \in 0 .. m - 1 |-> IF j = 0 THEN 0 ELSE e[j - 1] + Framed(s[j])]  BY <1>2
  <2> DEFINE g == [j \in 0 .. m |-> IF j = m THEN e[m - 1] + Framed(s[m]) ELSE e[j]]
  <2>2. ASSUME NEW j \in 0 .. m  PROVE g[j] = (IF j = 0 THEN 0 ELSE g[j - 1] + Framed(s[j]))
    <3>1. CASE j = m  BY <3>1
    <3>2. CASE j # m
      <4>1. j \in 0 .. m - 1 /\ g[j] = e[j]  BY <3>2
      <4>2. e[j] = (IF j = 0 THEN 0 ELSE e[j - 1] + Framed(s[j]))  BY <2>1, <4>1
      <4>3. j # 0 => g[j - 1] = e[j - 1]  BY <4>1
      <4> QED BY <4>1, <4>2, <4>3
    <3> QED BY <3>1, <3>2
  <2>3. g = [j \in 0 .. m |-> IF j = 0 THEN 0 ELSE g[j - 1] + Framed(s[j])]  BY <2>2
  <2> QED BY <2>3
<1> HIDE DEF P
<1>3. 0 \in good /\ \A m \in 1 .. n : m - 1 \in good => m \in good  BY <1>1, <1>2
<1> HIDE DEF good
<1>4. n \in good  BY <1>3, UpTo
<1> QED BY <1>4 DEF good, P

(* Where messages end: one after the other, each later than the one before.*)
LEMMA Ends ==
  ASSUME sent \in Seq(Nat)
  PROVE  /\ End(0) = 0
         /\ \A i \in 1 .. Len(sent) : End(i) = End(i - 1) + prefix_length + sent[i]
         /\ \A i \in 0 .. Len(sent) : End(i) \in Nat
<1> DEFINE n == Len(sent)
           Is(e) == e = [j \in 0 .. n |-> IF j = 0 THEN 0 ELSE e[j - 1] + Framed(sent[j])]
           e == CHOOSE g : Is(g)
<1>1. n \in Nat /\ \A i \in 1 .. n : sent[i] \in Nat  OBVIOUS
<1>2. \E g : Is(g)  BY <1>1, EndsExist
<1>3. Is(e)  BY <1>2
<1>4. \A i : End(i) = e[i]  BY DEF End
<1> HIDE DEF e
<1>5. e[0] = 0 /\ \A i \in 1 .. n : e[i] = e[i - 1] + Framed(sent[i])  BY <1>1, <1>3
<1>6. prefix_length \in Nat  BY LengthsAssumption DEF LengthsAssumption
<1>7. \A i \in 1 .. n : End(i) = End(i - 1) + (prefix_length + sent[i])  BY <1>4, <1>5 DEF Framed
<1> DEFINE good == {i \in 0 .. n : End(i) \in Nat}
<1>8. 0 .. n \subseteq good
  <2>1. 0 \in good  BY <1>1, <1>4, <1>5
  <2>2. ASSUME NEW k \in 1 .. n, k - 1 \in good  PROVE k \in good  BY <1>1, <1>6, <1>7, <2>2
  <2> HIDE DEF good
  <2> QED BY <1>1, <2>1, <2>2, UpTo
<1>9. ASSUME NEW i \in 1 .. n  PROVE End(i) = End(i - 1) + prefix_length + sent[i]
  <2>1. End(i - 1) \in Nat  BY <1>8
  <2> QED BY <1>1, <1>6, <1>7, <2>1
<1> QED BY <1>4, <1>5, <1>8, <1>9

LEMMA EndsGrow ==
  ASSUME sent \in Seq(Nat), NEW i \in 0 .. Len(sent), NEW j \in 0 .. Len(sent), i <= j
  PROVE  End(i) <= End(j) /\ (i < j => End(i) < End(j))
<1> DEFINE good == {k \in 0 .. Len(sent) - i : End(i) <= End(i + k) /\ (0 < k => End(i) < End(i + k))}
           m == Len(sent) - i
<1>1. m \in Nat /\ prefix_length \in Nat \ {0}  BY LengthsAssumption DEF LengthsAssumption
<1>2. 0 \in good  BY <1>1, Ends
<1>3. ASSUME NEW k \in 1 .. m, k - 1 \in good  PROVE k \in good
  <2>1. i + k \in 1 .. Len(sent) /\ i + (k - 1) = (i + k) - 1 /\ sent[i + k] \in Nat  BY <1>1
  <2>2. End(i + k) = End(i + (k - 1)) + prefix_length + sent[i + k]  BY <2>1, Ends
  <2>3. End(i) \in Nat /\ End(i + (k - 1)) \in Nat /\ End(i + k) \in Nat  BY <2>1, Ends
  <2>4. End(i) <= End(i + (k - 1))  BY <1>3
  <2> QED BY <1>1, <2>1, <2>2, <2>3, <2>4
<1> HIDE DEF good
<1>4. 0 .. m \subseteq good  BY <1>1, <1>2, <1>3, UpTo
<1>5. j - i \in good  BY <1>4
<1>6. i + (j - i) = j  OBVIOUS
<1> QED BY <1>5, <1>6 DEF good

(* The recursion of Power has a solution.                                  *)
LEMMA Powers ==
  /\ Power[0] = 1
  /\ \A k \in 1 .. prefix_length : Power[k] = Radix * Power[k - 1]
  /\ \A k \in 0 .. prefix_length : Power[k] \in Nat \ {0}
<1> DEFINE P(m) == \E e : e = [j \in 0 .. m |-> IF j = 0 THEN 1 ELSE Radix * e[j - 1]]
           n == prefix_length
           good == {m \in 0 .. n : P(m)}
<1>0. n \in Nat /\ Radix \in Nat \ {0}  BY LengthsAssumption DEF LengthsAssumption
<1>1. P(0)
  <2> DEFINE e == [j \in 0 .. 0 |-> 1]
  <2>1. e = [j \in 0 .. 0 |-> IF j = 0 THEN 1 ELSE Radix * e[j - 1]]  OBVIOUS
  <2> QED BY <2>1
<1>2. ASSUME NEW m \in 1 .. n, P(m - 1)  PROVE P(m)
  <2>1. PICK e : e = [j \in 0 .. m - 1 |-> IF j = 0 THEN 1 ELSE Radix * e[j - 1]]  BY <1>2
  <2> DEFINE g == [j \in 0 .. m |-> IF j = m THEN Radix * e[m - 1] ELSE e[j]]
  <2>2. ASSUME NEW j \in 0 .. m  PROVE g[j] = (IF j = 0 THEN 1 ELSE Radix * g[j - 1])
    <3>1. CASE j = m  BY <3>1
    <3>2. CASE j # m
      <4>1. j \in 0 .. m - 1 /\ g[j] = e[j]  BY <3>2
      <4>2. e[j] = (IF j = 0 THEN 1 ELSE Radix * e[j - 1])  BY <2>1, <4>1
      <4>3. j # 0 => g[j - 1] = e[j - 1]  BY <4>1
      <4> QED BY <4>1, <4>2, <4>3
    <3> QED BY <3>1, <3>2
  <2>3. g = [j \in 0 .. m |-> IF j = 0 THEN 1 ELSE Radix * g[j - 1]]  BY <2>2
  <2> QED BY <2>3
<1>3. 0 \in good /\ \A m \in 1 .. n : m - 1 \in good => m \in good
  <2> HIDE DEF P
  <2> QED BY <1>0, <1>1, <1>2
<1>4. n \in good
  <2> HIDE DEF good
  <2> QED BY <1>0, <1>3, UpTo
<1>5. P(n)  BY <1>4
<1>6. Power = [j \in 0 .. n |-> IF j = 0 THEN 1 ELSE Radix * Power[j - 1]]  BY <1>5 DEF Power
<1> HIDE DEF P, good
<1>7. Power[0] = 1 /\ \A k \in 1 .. n : Power[k] = Radix * Power[k - 1]  BY <1>0, <1>6
<1> DEFINE ok == {k \in 0 .. n : Power[k] \in Nat \ {0}}
<1>8. 0 \in ok  BY <1>0, <1>7
<1>9. ASSUME NEW k \in 1 .. n, k - 1 \in ok  PROVE k \in ok
  <2> DEFINE q == Power[k - 1]
  <2>1. q \in Nat \ {0} /\ Power[k] = Radix * q  BY <1>7, <1>9
  <2> HIDE DEF q
  <2>2. Radix * q \in Nat \ {0}  BY <1>0, <2>1
  <2> QED BY <1>0, <2>1, <2>2
<1> HIDE DEF ok
<1>10. 0 .. n \subseteq ok  BY <1>0, <1>8, <1>9, UpTo
<1> QED BY <1>7, <1>10 DEF ok

-----------------------------------------------------------------------------
(* What the prefix says                                                    *)

LEMMA SentNumbers ==
  ASSUME sent \in Seq(Lengths)
  PROVE  sent \in Seq(Nat)
<1>1. Lengths \subseteq Nat
  <2>1. Power[prefix_length] \in Nat  BY Powers, LengthsAssumption DEF LengthsAssumption
  <2> QED BY <2>1, LengthsAssumption DEF LengthsAssumption
<1>2. sent \in [1 .. Len(sent) -> Lengths] /\ Len(sent) \in Nat  OBVIOUS
<1>3. sent \in [1 .. Len(sent) -> Nat]  BY <1>1, <1>2
<1> QED BY <1>2, <1>3

(* The first n bytes of the prefix of a length, as a number.               *)
Leading(length, n) == IF n = 0 THEN 0 ELSE length \div Power[prefix_length - n]

LEMMA LeadingNext ==
  ASSUME NEW length \in Lengths, NEW n \in 1 .. prefix_length
  PROVE  /\ Leading(length, n - 1) * Radix + ((length \div Power[prefix_length - n]) % Radix) = Leading(length, n)
         /\ Leading(length, n) \in Nat
<1> DEFINE q == prefix_length - n  x == Power[q]
<1>1. /\ Radix \in Nat \ {0} /\ prefix_length \in Nat \ {0} /\ length \in Nat /\ length < Power[prefix_length]
      /\ q \in 0 .. prefix_length - 1 /\ q + 1 \in 1 .. prefix_length /\ (q + 1) - 1 = q
  <2>1. Power[prefix_length] \in Nat  BY Powers, LengthsAssumption DEF LengthsAssumption
  <2> QED BY <2>1, LengthsAssumption DEF LengthsAssumption
<1>2. x \in Nat \ {0} /\ Power[q + 1] = Radix * x  BY <1>1, Powers
<1>3. prefix_length - (n - 1) = q + 1  BY <1>1
<1> HIDE DEF x
<1>4. (length \div (Radix * x)) * Radix + ((length \div x) % Radix) = length \div x  BY <1>1, <1>2, DivTwice
<1>5. Leading(length, n) = length \div x  BY <1>1 DEF Leading, x
<1>6. Leading(length, n - 1) = length \div (Radix * x)
  <2>1. CASE n = 1
    <3>1. q + 1 = prefix_length /\ Leading(length, n - 1) = 0  BY <1>1, <2>1 DEF Leading
    <3>2. length < Power[q + 1]  BY <1>1, <3>1
    <3> DEFINE y == Radix * x
    <3>3. y \in Nat \ {0} /\ length < y  BY <1>1, <1>2, <3>2
    <3> HIDE DEF y
    <3>4. length \div y = 0  BY <1>1, <3>3
    <3> QED BY <3>1, <3>4 DEF y
  <2>2. CASE n # 1  BY <1>2, <1>3, <2>2 DEF Leading
  <2> QED BY <2>1, <2>2
<1>7. length \div x \in Nat  BY <1>1, <1>2
<1> QED BY <1>4, <1>5, <1>6, <1>7 DEF x

LEMMA LeadingLess ==
  ASSUME NEW length \in Lengths, NEW n \in 0 .. prefix_length
  PROVE  Leading(length, n) \in 0 .. Power[prefix_length] - 1
<1> DEFINE q == Power[prefix_length]
<1>1. q \in Nat \ {0} /\ length \in 0 .. q - 1 /\ prefix_length \in Nat
  BY Powers, LengthsAssumption DEF LengthsAssumption
<1> HIDE DEF q
<1>2. CASE n = 0  BY <1>1, <1>2 DEF Leading, q
<1>3. CASE n # 0
  <2> DEFINE x == Power[prefix_length - n]
  <2>1. x \in Nat \ {0}  BY <1>1, Powers
  <2>2. Leading(length, n) = length \div x  BY <1>3 DEF Leading
  <2> HIDE DEF x
  <2>3. length \div x \in Nat /\ length \div x <= length  BY <1>1, <2>1
  <2> QED BY <1>1, <2>2, <2>3 DEF q
<1> QED BY <1>2, <1>3

(* A byte of a prefix is that of the length.                               *)
LEMMA PrefixByte ==
  ASSUME sent \in Seq(Lengths), NEW i \in DOMAIN sent, NEW n \in 1 .. prefix_length
  PROVE  Value(Before(i) + n) = (sent[i] \div Power[prefix_length - n]) % Radix
<1> DEFINE byte == Before(i) + n
           In(j) == j \in DOMAIN sent /\ Before(j) < byte /\ byte <= End(j)
<1>0. sent \in Seq(Nat) /\ prefix_length \in Nat \ {0}  BY SentNumbers, LengthsAssumption DEF LengthsAssumption
<1>1. i \in 1 .. Len(sent) /\ i - 1 \in 0 .. Len(sent) /\ sent[i] \in Nat  BY <1>0
<1>2. Before(i) \in Nat /\ End(i) = Before(i) + prefix_length + sent[i]  BY <1>0, <1>1, Ends DEF Before
<1>3. In(i)  BY <1>0, <1>1, <1>2
<1>4. ASSUME NEW j, In(j)  PROVE j = i
  <2>1. j \in 1 .. Len(sent) /\ j - 1 \in 0 .. Len(sent) /\ j \in 0 .. Len(sent) /\ i \in 0 .. Len(sent)  BY <1>0, <1>4
  <2>2. End(j) \in Nat /\ End(j - 1) \in Nat /\ End(i) \in Nat /\ End(i - 1) \in Nat  BY <1>0, <1>1, <2>1, Ends
  <2>3. CASE j < i
    <3>1. j <= i - 1  BY <1>1, <2>1, <2>3
    <3>2. End(j) <= End(i - 1)  BY <1>0, <1>1, <2>1, <3>1, EndsGrow
    <3> QED BY <1>2, <1>4, <2>2, <3>2 DEF Before
  <2>4. CASE i < j
    <3>1. i <= j - 1  BY <1>1, <2>1, <2>4
    <3>2. End(i) <= End(j - 1)  BY <1>0, <1>1, <2>1, <3>1, EndsGrow
    <3> QED BY <1>2, <1>3, <1>4, <2>2, <3>2 DEF Before
  <2> QED BY <1>1, <2>1, <2>3, <2>4
<1>5. (CHOOSE j \in DOMAIN sent : Before(j) < byte /\ byte <= End(j)) = i  BY <1>3, <1>4
<1>6. byte - Before(i) = n  BY <1>2
<1> HIDE DEF byte
<1>7. prefix_length - (byte - Before(i)) = prefix_length - n /\ prefix_length - n >= 0  BY <1>0, <1>6
<1>8. Value(byte) = (sent[i] \div Power[prefix_length - n]) % Radix  BY <1>5, <1>7 DEF Value
<1> QED BY <1>8 DEF byte

(* The bytes of a prefix, read on from any of them, give the length.       *)
LEMMA ReadsOn ==
  ASSUME sent \in Seq(Lengths), NEW i \in DOMAIN sent, NEW n \in Nat, NEW m \in Nat, n + m <= prefix_length,
         buffer.length = Leading(sent[i], n), read - pending = Before(i) + n
  PROVE  Read(m) = Leading(sent[i], n + m)
<1> DEFINE Is(e) == e = [k \in 0 .. m |-> IF k = 0 THEN buffer.length
                                          ELSE e[k - 1] * Radix + Value(read - pending + k)]
           e == CHOOSE g : Is(g)
           f == [k \in 0 .. m |-> Leading(sent[i], n + k)]
<1>1. sent[i] \in Lengths  OBVIOUS
<1>2. \A k \in 1 .. m : Leading(sent[i], n + (k - 1)) * Radix + Value(read - pending + k) = Leading(sent[i], n + k)
  <2> SUFFICES ASSUME NEW k \in 1 .. m
               PROVE Leading(sent[i], n + (k - 1)) * Radix + Value(read - pending + k) = Leading(sent[i], n + k)
    OBVIOUS
  <2>1. n + k \in 1 .. prefix_length /\ n + (k - 1) = (n + k) - 1  BY LengthsAssumption DEF LengthsAssumption
  <2>2. Before(i) \in Nat
    <3>1. sent \in Seq(Nat) /\ i - 1 \in 0 .. Len(sent)  BY SentNumbers
    <3> QED BY <3>1, Ends DEF Before
  <2>3. (Before(i) + n) + k = Before(i) + (n + k)  BY <2>2
  <2>4. Value(Before(i) + (n + k)) = (sent[i] \div Power[prefix_length - (n + k)]) % Radix  BY <2>1, PrefixByte
  <2>5. Value(read - pending + k) = (sent[i] \div Power[prefix_length - (n + k)]) % Radix  BY <2>3, <2>4
  <2> QED BY <1>1, <2>1, <2>5, LeadingNext
<1>3. Is(f)
  <2>1. ASSUME NEW k \in 0 .. m
        PROVE f[k] = (IF k = 0 THEN buffer.length ELSE f[k - 1] * Radix + Value(read - pending + k))
    <3>1. CASE k = 0  BY <3>1
    <3>2. CASE k # 0
      <4>1. k \in 1 .. m /\ k - 1 \in 0 .. m  BY <3>2
      <4> QED BY <1>2, <3>2, <4>1
    <3> QED BY <3>1, <3>2
  <2> QED BY <2>1
<1>4. Is(e)  BY <1>3
<1>5. Read(m) = e[m]  BY DEF Read
<1> DEFINE good == {k \in 0 .. m : e[k] = Leading(sent[i], n + k)}
<1> HIDE DEF e
<1>6. e[0] = buffer.length /\ \A k \in 1 .. m : e[k] = e[k - 1] * Radix + Value(read - pending + k)  BY <1>4
<1>7. 0 \in good  BY <1>6
<1>8. ASSUME NEW k \in 1 .. m, k - 1 \in good  PROVE k \in good  BY <1>2, <1>6, <1>8
<1> HIDE DEF good
<1>9. 0 .. m \subseteq good  BY <1>7, <1>8, UpTo
<1> QED BY <1>5, <1>9 DEF good

-----------------------------------------------------------------------------
(* The invariant                                                           *)

(* The message the buffer is at: the one after those handed over or        *)
(* flushed.  Its position is in the prefix of that message or in its       *)
(* bytes, and it holds what came of either.                                *)
Current == Len(handed) + Cardinality(flushed) + 1
AtPrefix(c) ==
  /\ buffer = [reading |-> "length", length |-> buffer.length, size |-> buffer.size]
  /\ buffer.size \in 0 .. prefix_length - 1 /\ current = <<>>
  /\ read - pending = Before(c) + buffer.size
  /\ c \in DOMAIN sent => buffer.length = Leading(sent[c], buffer.size)
InMessage(c) ==
  /\ c \in DOMAIN sent
  /\ buffer = [reading |-> "message", length |-> sent[c], size |-> buffer.size]
  /\ buffer.size \in 0 .. sent[c] /\ (buffer.size = sent[c] => sent[c] = 0)
  /\ read - pending = Before(c) + prefix_length + buffer.size
  /\ current = [k \in 1 .. buffer.size |-> Before(c) + prefix_length + k]
Framing == closed = "no" => AtPrefix(Current) \/ InMessage(Current)

(* Each message before that one is either flushed or handed over, in its   *)
(* place.                                                                  *)
Ended ==
  /\ handed \in Seq(Seq(Nat)) /\ IsFiniteSet(flushed) /\ flushed \subseteq 1 .. Current - 1 /\ Current <= Len(sent) + 1
  /\ \A k \in DOMAIN handed :
       \E i \in (1 .. Current - 1) \ flushed : Rank(i) = k /\ handed[k] = Payload(i)
Reading ==
  /\ sent \in Seq(Lengths) /\ Len(sent) <= MaxMessages
  /\ read \in Nat /\ read <= Written /\ pending \in 0 .. read /\ (closed # "no" => pending = 0)
  /\ buffer.length \in 0 .. Power[prefix_length] - 1
  /\ kind \in {"store", "cut"} /\ closed \in {"no", "long", "refused"}
  /\ buffer.reading = "length" => buffer.size < prefix_length
  /\ buffer.reading = "message" => buffer.size <= buffer.length
FramesInv == Reading /\ Ended /\ Framing

(* The positions of the messages.                                          *)
LEMMA Positions ==
  ASSUME Reading
  PROVE  /\ sent \in Seq(Nat) /\ Len(sent) \in Nat /\ DOMAIN sent = 1 .. Len(sent)
         /\ Written \in Nat /\ Written = Before(Len(sent) + 1)
         /\ prefix_length \in Nat \ {0} /\ read \in Nat /\ pending \in Nat /\ read - pending \in Nat
         /\ \A i \in 1 .. Len(sent) + 1 : Before(i) \in Nat /\ Before(i) <= Written
         /\ \A i \in 1 .. Len(sent) : /\ sent[i] \in Nat /\ sent[i] \in Lengths /\ End(i) \in Nat /\ End(i) <= Written
                                      /\ Before(i + 1) = End(i)
                                      /\ End(i) = Before(i) + prefix_length + sent[i]
<1>1. sent \in Seq(Nat) /\ sent \in Seq(Lengths)  BY SentNumbers DEF Reading
<1>2. Len(sent) \in Nat /\ DOMAIN sent = 1 .. Len(sent) /\ prefix_length \in Nat \ {0}
  BY <1>1, LengthsAssumption DEF LengthsAssumption
<1>3. Written \in Nat /\ (Len(sent) + 1) - 1 = Len(sent)  BY <1>1, <1>2, Ends DEF Written
<1>4. ASSUME NEW i \in 1 .. Len(sent) + 1  PROVE Before(i) \in Nat /\ Before(i) <= Written
  <2>1. i - 1 \in 0 .. Len(sent) /\ Len(sent) \in 0 .. Len(sent) /\ i - 1 <= Len(sent)  BY <1>2
  <2> QED BY <1>1, <2>1, Ends, EndsGrow DEF Before, Written
<1>5. ASSUME NEW i \in 1 .. Len(sent)
      PROVE /\ sent[i] \in Nat /\ sent[i] \in Lengths /\ End(i) \in Nat /\ End(i) <= Written /\ Before(i + 1) = End(i)
            /\ End(i) = Before(i) + prefix_length + sent[i]
  <2>1. i \in 0 .. Len(sent) /\ Len(sent) \in 0 .. Len(sent) /\ i <= Len(sent) /\ (i + 1) - 1 = i  BY <1>2
  <2>2. sent[i] \in Nat /\ sent[i] \in Lengths  BY <1>1
  <2>3. End(i) \in Nat /\ End(i) <= Written  BY <1>1, <2>1, Ends, EndsGrow DEF Written
  <2>4. Before(i + 1) = End(i)  BY <2>1 DEF Before
  <2> QED BY <1>1, <2>2, <2>3, <2>4, Ends DEF Before
<1>6. read \in Nat /\ pending \in Nat /\ read - pending \in Nat  BY DEF Reading
<1>7. Written = Before(Len(sent) + 1)  BY <1>3 DEF Before, Written
<1> QED BY <1>1, <1>2, <1>3, <1>4, <1>5, <1>6, <1>7

(* Which message comes next, and where.                                    *)
LEMMA Counts ==
  ASSUME Reading, Ended
  PROVE  /\ Len(handed) \in Nat /\ Cardinality(flushed) \in Nat /\ IsFiniteSet(flushed)
         /\ Current \in 1 .. Len(sent) + 1
         /\ Before(Current) \in Nat /\ Before(Current) <= Written
         /\ Rank(Current - 1) = Len(handed)
<1>1. Len(handed) \in Nat /\ Len(sent) \in Nat /\ Cardinality(flushed) \in Nat /\ IsFiniteSet(flushed)
  BY Positions, FS_CardinalityType DEF Ended
<1>2. Current \in 1 .. Len(sent) + 1  BY <1>1 DEF Current, Ended
<1>3. Rank(Current - 1) = Len(handed)
  <2> DEFINE n == Current - 1  S == 1 .. n
  <2>1. n \in Nat /\ n = Len(handed) + Cardinality(flushed)  BY <1>1, <1>2 DEF Current
  <2> HIDE DEF n
  <2>2. IsFiniteSet(S) /\ Cardinality(S) = n
    <3>1. 1 \in Int /\ n \in Int  BY <2>1
    <3>2. /\ IsFiniteSet(1 .. n)
          /\ Cardinality(1 .. n) = IF 1 > n THEN 0 ELSE n - 1 + 1  BY ONLY <3>1, FS_Interval
    <3> QED BY <2>1, <3>2 DEF S
  <2>3. S \cap flushed = flushed  BY DEF n, Ended
  <2> HIDE DEF S
  <2>4. Cardinality(S \ flushed) = Cardinality(S) - Cardinality(S \cap flushed)  BY <2>2, FS_Difference
  <2>5. Rank(n) = Cardinality(S \ flushed)  BY DEF Rank, S
  <2> DEFINE f == Cardinality(flushed)  r == Cardinality(S \ flushed)  h == Len(handed)
  <2>7. r = n - f  BY <2>2, <2>3, <2>4
  <2>8. n = h + f /\ h \in Nat /\ f \in Nat  BY <1>1, <2>1
  <2>6. Rank(n) = Len(handed)
    <3> HIDE DEF f, r, h
    <3>1. r = h  BY <2>7, <2>8
    <3> QED BY <2>5, <3>1 DEF r, h
  <2> QED BY <2>6 DEF n
<1> QED BY <1>1, <1>2, <1>3, Positions

(* The ranks of later messages are not less.                               *)
LEMMA RanksGrow ==
  ASSUME IsFiniteSet(flushed), NEW i \in Nat, NEW j \in Nat, i <= j
  PROVE  Rank(i) <= Rank(j) /\ Rank(i) \in Nat
<1> DEFINE S == (1 .. i) \ flushed  T == (1 .. j) \ flushed
<1>1. IsFiniteSet(1 .. i) /\ IsFiniteSet(1 .. j)  BY FS_Interval
<1>2. IsFiniteSet(S) /\ IsFiniteSet(T)  BY <1>1, FS_Difference
<1>4. S \subseteq T  OBVIOUS
<1> HIDE DEF S, T
<1>3. Cardinality(S) <= Cardinality(T) /\ Cardinality(S) \in Nat  BY <1>2, <1>4, FS_Subset, FS_CardinalityType
<1> QED BY <1>3 DEF Rank, S, T

(* Where the framing holds the property does.                              *)
LEMMA FramesHanded == ASSUME FramesInv PROVE HandedIsSent
<1> DEFINE c == Current
<1>0. Reading /\ Ended /\ Framing  BY DEF FramesInv
<1>1. /\ c \in 1 .. Len(sent) + 1 /\ Before(c) \in Nat /\ Rank(c - 1) = Len(handed) /\ IsFiniteSet(flushed)
      /\ Len(sent) \in Nat
  BY <1>0, Counts, Positions
<1>2. 1 .. c - 1 \subseteq DOMAIN sent  BY <1>0, <1>1, Positions
<1>3. \A k \in DOMAIN handed : \E i \in DOMAIN sent \ flushed : Rank(i) = k /\ handed[k] = Payload(i)
  BY <1>0, <1>2 DEF Ended
<1>4. ASSUME read = Written, pending = 0, closed = "no", NEW i \in DOMAIN sent \ flushed
      PROVE  sent[i] = 0 \/ Rank(i) <= Len(handed)
  <2>1. i \in 1 .. Len(sent) /\ read - pending = Written /\ prefix_length \in Nat \ {0}  BY <1>0, <1>4, Positions
  <2> HIDE DEF c
  <2>2. CASE i <= c - 1
    <3>1. i \in Nat /\ c - 1 \in Nat  BY <1>1, <2>1
    <3> QED BY <1>1, <2>2, <3>1, RanksGrow
  <2>3. CASE c <= i
    <3>1. c \in 1 .. Len(sent) /\ c \in DOMAIN sent  BY <1>0, <1>1, <2>1, <2>3, Positions
    <3>2. /\ End(c) = Before(c) + prefix_length + sent[c] /\ sent[c] \in Nat /\ End(c) <= Written /\ Written \in Nat
          /\ End(c) \in Nat
      BY <1>0, <3>1, Positions
    <3>3. ~AtPrefix(c)
      <4> SUFFICES ASSUME AtPrefix(c) PROVE FALSE  OBVIOUS
      <4>1. buffer.size \in 0 .. prefix_length - 1 /\ Written = Before(c) + buffer.size  BY <2>1 DEF AtPrefix
      <4> QED BY <1>1, <2>1, <3>2, <4>1, SMTT(30)
    <3>4. InMessage(c)  BY <1>0, <1>4, <3>3 DEF Framing, c
    <3>5. /\ buffer.size \in 0 .. sent[c] /\ Written = Before(c) + prefix_length + buffer.size
          /\ buffer.size = sent[c] => sent[c] = 0
      BY <2>1, <3>4 DEF InMessage
    <3>6. sent[c] = 0 /\ End(c) = Written  BY <1>1, <2>1, <3>2, <3>5, SMTT(30)
    <3>7. i = c
      <4> SUFFICES ASSUME c < i PROVE FALSE  BY <1>1, <2>1, <2>3
      <4>1. End(c) < End(i)
        <5>1. c \in 0 .. Len(sent) /\ i \in 0 .. Len(sent) /\ c <= i  BY <2>1, <2>3, <3>1
        <5> QED BY <1>0, <5>1, EndsGrow, Positions
      <4>2. End(i) \in Nat /\ End(i) <= Written  BY <1>0, <2>1, Positions
      <4> QED BY <3>2, <3>6, <4>1, <4>2
    <3> QED BY <3>6, <3>7
  <2> QED BY <1>1, <2>1, <2>2, <2>3
<1> QED BY <1>3, <1>4 DEF HandedIsSent

-----------------------------------------------------------------------------
(* Steps                                                                   *)

(* What was written stays where it is.                                     *)
LEMMA SameEnds ==
  ASSUME sent' = sent, NEW CONSTANT i
  PROVE  End(i)' = End(i) /\ Before(i)' = Before(i) /\ Payload(i)' = Payload(i) /\ Written' = Written
<1>1. \A j : End(j)' = End(j)  BY DEF End
<1>2. Written' = Written  BY DEF Written, End
<1>3. \A j : Before(j)' = Before(j)  BY DEF Before, End
<1>4. Payload(i)' = Payload(i)  BY <1>3 DEF Payload
<1> QED BY <1>1, <1>2, <1>3, <1>4

LEMMA SameEnded ==
  ASSUME Ended, UNCHANGED <<sent, handed, flushed>>
  PROVE  Ended' /\ Current' = Current
<1>1. Current' = Current  BY DEF Current
<1>2. \A i : Rank(i)' = Rank(i) /\ Payload(i)' = Payload(i)  BY SameEnds DEF Rank
<1> QED BY <1>1, <1>2 DEF Ended

LEMMA FramesInit == BufferInit => FramesInv
<1> SUFFICES ASSUME BufferInit PROVE FramesInv  OBVIOUS
<1>1. sent \in Seq(Lengths) /\ Len(sent) <= MaxMessages /\ Len(sent) \in Nat
  <2>1. PICK m \in 0 .. MaxMessages : sent \in [1 .. m -> Lengths]  BY DEF BufferInit, SeqOf
  <2>2. m \in Nat /\ MaxMessages \in Nat  BY LengthsAssumption DEF LengthsAssumption
  <2> QED BY <2>1, <2>2
<1>2. Written \in Nat /\ Before(1) = 0
  <2>1. sent \in Seq(Nat)  BY <1>1, SentNumbers
  <2> QED BY <1>1, <2>1, Ends DEF Written, Before
<1>3. Cardinality(flushed) = 0 /\ IsFiniteSet(flushed) /\ Len(handed) = 0 /\ handed \in Seq(Seq(Nat))
  BY FS_EmptySet DEF BufferInit
<1>4. Current = 1  BY <1>3 DEF Current
<1>5. prefix_length \in Nat \ {0} /\ Power[prefix_length] \in Nat \ {0}
  BY Powers, LengthsAssumption DEF LengthsAssumption
<1>6. Reading  BY <1>1, <1>2, <1>5 DEF Reading, BufferInit, NewBuffer
<1>7. Ended
  <2>1. DOMAIN handed = {} /\ flushed = {}  BY DEF BufferInit
  <2> QED BY <1>1, <1>3, <1>4, <2>1 DEF Ended
<1>8. AtPrefix(1)  BY <1>2, <1>5 DEF AtPrefix, BufferInit, NewBuffer, Leading
<1> QED BY <1>4, <1>6, <1>7, <1>8 DEF FramesInv, Framing

LEMMA FramesDidRecv == FramesInv /\ did_recv => FramesInv'
<1> SUFFICES ASSUME FramesInv, did_recv PROVE FramesInv'  OBVIOUS
<1>0. Reading /\ Ended /\ Framing  BY DEF FramesInv
<1>1. PICK n \in 1 .. Written - read : read' = read + n /\ pending' = n  BY DEF did_recv
<1>2. /\ pending = 0 /\ closed = "no" /\ sent' = sent /\ kind' = kind /\ buffer' = buffer /\ current' = current
      /\ handed' = handed /\ flushed' = flushed /\ closed' = closed
  BY DEF did_recv
<1>3. read' \in Nat /\ read' <= Written /\ pending' \in 0 .. read' /\ read' - pending' = read - pending
  BY <1>0, <1>1, <1>2, Positions
<1>4. Ended' /\ Current' = Current  BY <1>0, <1>2, SameEnded
<1>5. Reading'  BY <1>0, <1>2, <1>3, SameEnds DEF Reading
<1>6. \A i : Before(i)' = Before(i)  BY <1>2, SameEnds
<1>7. AtPrefix(Current)' <=> AtPrefix(Current)  BY <1>2, <1>3, <1>4, <1>6 DEF AtPrefix
<1>8. InMessage(Current)' <=> InMessage(Current)  BY <1>2, <1>3, <1>4, <1>6 DEF InMessage
<1> QED BY <1>0, <1>2, <1>4, <1>5, <1>7, <1>8 DEF FramesInv, Framing

(* A buffer that has something to read is at a message.                    *)
LEMMA AtMessage ==
  ASSUME FramesInv, 0 < pending
  PROVE  /\ closed = "no" /\ Current \in 1 .. Len(sent) /\ Current \in DOMAIN sent
         /\ buffer.reading = "length" => AtPrefix(Current)
         /\ buffer.reading = "message" => InMessage(Current)
<1>0. Reading /\ Ended /\ Framing  BY DEF FramesInv
<1>1. closed = "no" /\ (AtPrefix(Current) \/ InMessage(Current))  BY <1>0 DEF Reading, Framing
<1>2. buffer.reading = "length" => ~InMessage(Current)  BY DEF InMessage
<1>3. buffer.reading = "message" => ~AtPrefix(Current)  BY DEF AtPrefix
<1>4. Current \in 1 .. Len(sent)
  <2>1. Current \in 1 .. Len(sent) + 1 /\ Before(Current) \in Nat /\ Len(sent) \in Nat  BY <1>0, Counts, Positions
  <2>2. CASE InMessage(Current)  BY <1>0, <2>2, Positions DEF InMessage
  <2>3. CASE AtPrefix(Current)
    <3>1. buffer.size \in Nat /\ read - pending = Before(Current) + buffer.size
      BY <1>0, <2>3, Positions DEF AtPrefix
    <3>2. read \in Nat /\ pending \in Nat /\ read <= Written /\ Written \in Nat  BY <1>0, Positions DEF Reading
    <3>3. Before(Current) < Written
      <4> DEFINE b == Before(Current)
      <4> HIDE DEF b
      <4>1. b \in Nat /\ read - pending = b + buffer.size  BY <2>1, <3>1 DEF b
      <4>2. b < Written  BY <3>1, <3>2, <4>1
      <4> QED BY <4>2 DEF b
    <3>4. Current # Len(sent) + 1  BY <1>0, <3>2, <3>3, Positions
    <3> QED BY <2>1, <3>4
  <2> QED BY <1>1, <2>2, <2>3
<1> QED BY <1>0, <1>1, <1>2, <1>3, <1>4, Positions

(* The numbers around the message in hand.                                 *)
LEMMA Here ==
  ASSUME FramesInv, 0 < pending, NEW c, c = Current
  PROVE  /\ sent[c] \in Lengths /\ sent[c] \in Nat /\ Before(c) \in Nat /\ End(c) \in Nat /\ Written \in Nat
         /\ End(c) = Before(c) + prefix_length + sent[c] /\ End(c) <= Written /\ Before(c + 1) = End(c)
         /\ read \in Nat /\ pending \in Nat /\ read - pending \in Nat /\ read <= Written
         /\ prefix_length \in Nat \ {0} /\ c \in 1 .. Len(sent) /\ Len(sent) \in Nat /\ closed = "no"
<1>0. Reading  BY DEF FramesInv
<1>1. c \in 1 .. Len(sent) /\ closed = "no"  BY AtMessage
<1> QED BY <1>0, <1>1, Positions DEF Reading

LEMMA FramesPartialLength == FramesInv /\ PartialLength => FramesInv'
<1> SUFFICES ASSUME FramesInv, PartialLength PROVE FramesInv'  OBVIOUS
<1>0. Reading /\ Ended /\ Framing  BY DEF FramesInv
<1>1. /\ buffer.reading = "length" /\ 0 < pending /\ pending + buffer.size < prefix_length
      /\ buffer' = [buffer EXCEPT !.length = Read(pending), !.size = @ + pending] /\ pending' = 0
      /\ sent' = sent /\ kind' = kind /\ read' = read /\ current' = current /\ handed' = handed
      /\ flushed' = flushed /\ closed' = closed
  BY DEF PartialLength
<1> DEFINE c == Current  s == buffer.size
<1>2. c \in DOMAIN sent /\ AtPrefix(c)  BY <1>1, AtMessage
<1>3. /\ sent[c] \in Lengths /\ sent[c] \in Nat /\ Before(c) \in Nat /\ read \in Nat /\ pending \in Nat
      /\ prefix_length \in Nat \ {0} /\ read - pending \in Nat
  BY <1>1, Here
<1>4. /\ s \in 0 .. prefix_length - 1 /\ current = <<>> /\ read - pending = Before(c) + s
      /\ buffer.length = Leading(sent[c], s)
      /\ buffer = [reading |-> "length", length |-> buffer.length, size |-> s]
  BY <1>2 DEF AtPrefix
<1> HIDE DEF c, s
<1>5. s \in Nat /\ s + pending \in 1 .. prefix_length - 1 /\ s + pending <= prefix_length /\ s + pending \in 1 .. prefix_length
  BY <1>1, <1>3, <1>4 DEF s
<1>6. Read(pending) = Leading(sent[c], s + pending)
  <2>1. sent \in Seq(Lengths)  BY <1>0 DEF Reading
  <2> QED BY <1>2, <1>3, <1>4, <1>5, <2>1, ReadsOn
<1>7. buffer' = [reading |-> "length", length |-> Leading(sent[c], s + pending), size |-> s + pending]
  <2> DEFINE v == Leading(sent[c], s + pending)
  <2>1. buffer' = [buffer EXCEPT !.length = v, !.size = s + pending]  BY <1>1, <1>6 DEF s
  <2> DEFINE l == buffer.length
  <2>3. buffer = [reading |-> "length", length |-> l, size |-> s]  BY <1>4
  <2> HIDE DEF v, l
  <2>2. buffer' = [reading |-> "length", length |-> v, size |-> s + pending]  BY <2>1, <2>3
  <2> QED BY <2>2 DEF v
<1>8. Leading(sent[c], s + pending) \in 0 .. Power[prefix_length] - 1  BY <1>3, <1>5, LeadingLess
<1>9. read' - pending' = Before(c) + (s + pending)  BY <1>1, <1>3, <1>4, <1>5
<1>10. Ended' /\ Current' = c  BY <1>0, <1>1, SameEnded DEF c
<1>11. /\ buffer'.reading = "length" /\ buffer'.size = s + pending /\ buffer'.length = Leading(sent[c], s + pending)
       /\ buffer'.size < prefix_length /\ buffer'.length \in 0 .. Power[prefix_length] - 1
  <2> DEFINE v == Leading(sent[c], s + pending)  q == Power[prefix_length]  z == s + pending
  <2>1. buffer' = [reading |-> "length", length |-> v, size |-> z] /\ v \in 0 .. q - 1  BY <1>7, <1>8
  <2>2. z < prefix_length  BY <1>3, <1>5
  <2> HIDE DEF v, q, z
  <2>3. /\ buffer'.reading = "length" /\ buffer'.size = z /\ buffer'.length = v /\ buffer'.size < prefix_length
        /\ buffer'.length \in 0 .. q - 1
    BY <2>1, <2>2
  <2> QED BY <2>3 DEF v, q, z
<1>12. Reading'
  <2>1. Written' = Written /\ pending' \in 0 .. read  BY <1>1, <1>3, SameEnds
  <2> QED BY <1>0, <1>1, <1>11, <2>1 DEF Reading
<1>13. AtPrefix(c)'
  <2>1. Before(c)' = Before(c)' /\ \A i : Before(i)' = Before(i)  BY <1>1, SameEnds
  <2>2. Before(Current)' = Before(c)  BY <1>10, <2>1
  <2>3. AtPrefix(Current)'
    <3>1. buffer' = [reading |-> "length", length |-> buffer'.length, size |-> buffer'.size]  BY <1>7, <1>11
    <3>2. read' - pending' = Before(Current)' + buffer'.size  BY <1>9, <1>11, <2>2
    <3>3. buffer'.length = Leading(sent'[Current'], buffer'.size)  BY <1>1, <1>10, <1>11
    <3> QED BY <1>1, <1>4, <1>5, <1>11, <3>1, <3>2, <3>3 DEF AtPrefix
  <2> QED BY <1>10, <2>3 DEF c
<1> QED BY <1>10, <1>12, <1>13 DEF FramesInv, Framing, c

(* Bytes that follow one another.                                          *)
LEMMA Joined ==
  ASSUME NEW x \in Nat, NEW s \in Nat, NEW n \in Nat
  PROVE  [k \in 1 .. s |-> x + k] \o [k \in 1 .. n |-> x + s + k] = [k \in 1 .. s + n |-> x + k]
<1> DEFINE e == [k \in 1 .. s |-> x + k]  f == [k \in 1 .. n |-> x + s + k]
<1>1. e \in Seq(Nat) /\ f \in Seq(Nat) /\ Len(e) = s /\ Len(f) = n  OBVIOUS
<1>2. e \o f \in Seq(Nat) /\ Len(e \o f) = s + n  BY <1>1
<1>3. ASSUME NEW k \in 1 .. s + n  PROVE (e \o f)[k] = x + k
  <2>1. CASE k <= s  BY <1>1, <2>1
  <2>2. CASE ~(k <= s)
    <3>1. k - s \in 1 .. n /\ f[k - s] = x + s + (k - s)  BY <2>2
    <3>2. (e \o f)[k] = f[k - s]  BY <1>1, <2>2
    <3> QED BY <3>1, <3>2
  <2> QED BY <2>1, <2>2
<1> QED BY <1>2, <1>3

(* A connection that is closed has nothing more to read.                   *)
LEMMA FramesClosed ==
  ASSUME FramesInv, UNCHANGED <<sent, kind, read, handed, flushed, buffer>>,
         closed' \in {"long", "refused"}, pending' = 0
  PROVE  FramesInv'
<1>0. Reading /\ Ended  BY DEF FramesInv
<1>1. Ended'  BY <1>0, SameEnded
<1>2. Reading'
  <2>1. Written' = Written /\ 0 \in 0 .. read  BY <1>0, SameEnds DEF Reading
  <2> QED BY <1>0, <2>1 DEF Reading
<1>3. Framing'  BY DEF Framing
<1> QED BY <1>1, <1>2, <1>3 DEF FramesInv

LEMMA FramesFullLength == FramesInv /\ FullLength => FramesInv'
<1> SUFFICES ASSUME FramesInv, FullLength PROVE FramesInv'  OBVIOUS
<1>0. Reading /\ Ended /\ Framing  BY DEF FramesInv
<1> DEFINE c == Current  s == buffer.size  rest == prefix_length - s
<1>1. /\ buffer.reading = "length" /\ 0 < pending /\ rest <= pending
      /\ sent' = sent /\ kind' = kind /\ read' = read /\ current' = current /\ handed' = handed
      /\ flushed' = flushed
  BY DEF FullLength
<1>2. c \in DOMAIN sent /\ AtPrefix(c)  BY <1>1, AtMessage
<1>3. /\ sent[c] \in Lengths /\ sent[c] \in Nat /\ Before(c) \in Nat /\ read \in Nat /\ pending \in Nat
      /\ prefix_length \in Nat \ {0} /\ read - pending \in Nat
  BY <1>1, Here
<1>4. /\ s \in 0 .. prefix_length - 1 /\ current = <<>> /\ read - pending = Before(c) + s
      /\ buffer.length = Leading(sent[c], s)
  BY <1>2 DEF AtPrefix
<1>5. \/ closed' = "long" /\ pending' = 0 /\ buffer' = buffer
      \/ buffer' = Opened(Read(rest)) /\ pending' = pending - rest /\ closed' = closed
  BY DEF FullLength
<1> HIDE DEF c, s
<1>6. rest \in Nat /\ rest \in 1 .. prefix_length /\ s + rest = prefix_length  BY <1>3, <1>4
<1>7. Read(rest) = sent[c]
  <2>1. sent \in Seq(Lengths)  BY <1>0 DEF Reading
  <2>2. s \in Nat /\ s + rest <= prefix_length  BY <1>3, <1>4, <1>6
  <2>3. buffer.length = Leading(sent[c], s) /\ read - pending = Before(c) + s  BY <1>4
  <2> HIDE DEF rest
  <2>4. Read(rest) = Leading(sent[c], s + rest)  BY <1>2, <1>6, <2>1, <2>2, <2>3, ReadsOn
  <2>5. Leading(sent[c], prefix_length) = sent[c]
    <3>1. prefix_length - prefix_length = 0 /\ prefix_length # 0 /\ Power[0] = 1  BY <1>3, Powers
    <3>2. sent[c] \div 1 = sent[c]  BY <1>3
    <3> QED BY <3>1, <3>2 DEF Leading
  <2> QED BY <1>6, <2>4, <2>5
<1>8. CASE closed' = "long" /\ pending' = 0 /\ buffer' = buffer  BY <1>1, <1>8, FramesClosed
<1>9. CASE buffer' = Opened(Read(rest)) /\ pending' = pending - rest /\ closed' = closed
  <2>1. buffer' = [reading |-> "message", length |-> sent[c], size |-> 0]  BY <1>7, <1>9 DEF Opened
  <2>2. pending' \in 0 .. read /\ read' - pending' = Before(c) + prefix_length + 0
    BY <1>1, <1>3, <1>4, <1>6, <1>9
  <2>3. Ended' /\ Current' = c  BY <1>0, <1>1, SameEnded DEF c
  <2>4. closed = "no" /\ closed' = "no"  BY <1>1, <1>9, AtMessage
  <2>5. buffer'.reading = "message" /\ buffer'.size = 0 /\ buffer'.length = sent[c]
    <3> DEFINE l == sent[c]
    <3>1. buffer' = [reading |-> "message", length |-> l, size |-> 0]  BY <2>1
    <3> HIDE DEF l
    <3> QED BY <3>1 DEF l
  <2>6. Reading'
    <3>1. Written' = Written  BY <1>1, SameEnds
    <3>2. sent[c] \in 0 .. Power[prefix_length] - 1  BY <1>3, LengthsAssumption DEF LengthsAssumption
    <3> QED BY <1>0, <1>1, <1>3, <2>2, <2>4, <2>5, <3>1, <3>2 DEF Reading
  <2>7. InMessage(Current)'
    <3>1. Before(Current)' = Before(c)
      <4>1. \A i : Before(i)' = Before(i)  BY <1>1, SameEnds
      <4> QED BY <2>3, <4>1
    <3>2. current' = [k \in 1 .. buffer'.size |-> Before(Current)' + prefix_length + k]
      <4>1. current' = <<>> /\ 1 .. buffer'.size = {}  BY <1>1, <1>4, <2>5
      <4> QED BY <4>1
    <3> QED BY <1>1, <1>2, <1>3, <2>1, <2>2, <2>3, <2>5, <3>1, <3>2 DEF InMessage
  <2> QED BY <2>3, <2>6, <2>7 DEF FramesInv, Framing
<1> QED BY <1>5, <1>8, <1>9

LEMMA FramesPartialMessage == FramesInv /\ PartialMessage => FramesInv'
<1> SUFFICES ASSUME FramesInv, PartialMessage PROVE FramesInv'  OBVIOUS
<1>0. Reading /\ Ended /\ Framing  BY DEF FramesInv
<1> DEFINE c == Current  s == buffer.size  l == sent[c]  b == Before(c)
<1>1. /\ buffer.reading = "message" /\ 0 < pending /\ pending + s < buffer.length
      /\ current' = current \o First(pending) /\ buffer' = [buffer EXCEPT !.size = @ + pending] /\ pending' = 0
      /\ sent' = sent /\ kind' = kind /\ read' = read /\ handed' = handed /\ flushed' = flushed /\ closed' = closed
  BY DEF PartialMessage
<1>2. c \in DOMAIN sent /\ InMessage(c)  BY <1>1, AtMessage
<1>3. /\ l \in Lengths /\ l \in Nat /\ b \in Nat /\ read \in Nat /\ pending \in Nat
      /\ prefix_length \in Nat \ {0} /\ read - pending \in Nat
  BY <1>1, Here
<1>4. /\ buffer = [reading |-> "message", length |-> l, size |-> s] /\ s \in 0 .. l
      /\ read - pending = b + prefix_length + s
      /\ current = [k \in 1 .. s |-> b + prefix_length + k]
  BY <1>2 DEF InMessage
<1> HIDE DEF c, s, l, b
<1> DEFINE z == s + pending
<1>5. z \in 0 .. l /\ z < l /\ z \in Nat  BY <1>1, <1>3, <1>4
<1>6. /\ buffer' = [reading |-> "message", length |-> l, size |-> z]
      /\ buffer'.reading = "message" /\ buffer'.size = z /\ buffer'.length = l
  <2>1. buffer' = [buffer EXCEPT !.size = z]  BY <1>1 DEF s
  <2> HIDE DEF z
  <2> QED BY <1>4, <2>1
<1>7. current' = [k \in 1 .. z |-> b + prefix_length + k]
  <2> DEFINE f == First(pending)  x == b + prefix_length
  <2>1. x \in Nat /\ read - pending = x + s  BY <1>3, <1>4
  <2>2. f = [k \in 1 .. pending |-> x + s + k]  BY <2>1 DEF First
  <2>3. current = [k \in 1 .. s |-> x + k]  BY <1>4
  <2> HIDE DEF f, x
  <2>5. s \in Nat  BY <1>3, <1>4
  <2>4. [k \in 1 .. s |-> x + k] \o [k \in 1 .. pending |-> x + s + k] = [k \in 1 .. s + pending |-> x + k]
    BY <1>3, <2>1, <2>5, Joined
  <2>6. current \o f = [k \in 1 .. s + pending |-> x + k]  BY <2>2, <2>3, <2>4
  <2> QED BY <1>1, <2>6 DEF f, x
<1>8. read' - pending' = b + prefix_length + z
  <2>1. s \in Nat /\ read - pending = b + prefix_length + s  BY <1>3, <1>4
  <2>2. read' = read /\ pending' = 0  BY <1>1
  <2> QED BY <1>3, <2>1, <2>2
<1>9. Ended' /\ Current' = c  BY <1>0, <1>1, SameEnded DEF c
<1>10. Reading'
  <2>1. Written' = Written /\ 0 \in 0 .. read  BY <1>1, <1>3, SameEnds
  <2>2. l \in 0 .. Power[prefix_length] - 1  BY <1>3, LengthsAssumption DEF LengthsAssumption
  <2> HIDE DEF z
  <2> QED BY <1>0, <1>1, <1>3, <1>5, <1>6, <2>1, <2>2 DEF Reading
<1>11. InMessage(Current)'
  <2>1. Before(Current)' = b
    <3>1. \A i : Before(i)' = Before(i)  BY <1>1, SameEnds
    <3> QED BY <1>9, <3>1 DEF b
  <2>2. sent'[Current'] = l /\ Current' \in DOMAIN sent'  BY <1>1, <1>2, <1>9 DEF l
  <2> HIDE DEF z
  <2>3. z = l => l = 0  BY <1>5
  <2>4. buffer' = [reading |-> "message", length |-> sent'[Current'], size |-> buffer'.size]  BY <1>6, <2>2
  <2>5. current' = [k \in 1 .. buffer'.size |-> Before(Current)' + prefix_length + k]  BY <1>6, <1>7, <2>1
  <2>6. read' - pending' = Before(Current)' + prefix_length + buffer'.size  BY <1>6, <1>8, <2>1
  <2>7. buffer'.size \in 0 .. sent'[Current'] /\ (buffer'.size = sent'[Current'] => sent'[Current'] = 0)
    BY <1>5, <1>6, <2>2, <2>3
  <2> QED BY <2>2, <2>4, <2>5, <2>6, <2>7 DEF InMessage
<1> QED BY <1>9, <1>10, <1>11 DEF FramesInv, Framing

LEMMA FramesRefused == FramesInv /\ Refused => FramesInv'
BY FramesClosed DEF Refused

(* At the end of a message the buffer is at the prefix of the next one.    *)
LEMMA FramesNext ==
  ASSUME Reading, sent' = sent, kind' = kind, read' \in Nat, read' <= Written, pending' \in 0 .. read',
         closed' = closed, closed = "no",
         NEW c \in 1 .. Len(sent), Ended', Current' = c + 1,
         buffer' = NewBuffer, current' = <<>>, read' - pending' = End(c)
  PROVE  FramesInv'
<1>0. Before(c + 1) = End(c) /\ prefix_length \in Nat \ {0} /\ End(c) \in Nat  BY Positions
<1>1. Power[prefix_length] \in Nat \ {0}
  <2>1. prefix_length \in 0 .. prefix_length  BY <1>0
  <2> QED BY <2>1, Powers
<1>2. Before(Current)' = End(c)
  <2>1. \A i : Before(i)' = Before(i)  BY SameEnds
  <2> QED BY <1>0, <2>1
<1>3. Reading'
  <2>1. Written' = Written  BY SameEnds
  <2> QED BY <1>0, <1>1, <2>1 DEF Reading, NewBuffer
<1>4. AtPrefix(Current)'
  <2>1. buffer'.size = 0 /\ buffer'.length = 0 /\ buffer' = [reading |-> "length", length |-> 0, size |-> 0]
    BY DEF NewBuffer
  <2>2. read' - pending' = Before(Current)' + 0  BY <1>0, <1>2
  <2> QED BY <1>0, <2>1, <2>2 DEF AtPrefix, Leading
<1> QED BY <1>3, <1>4 DEF FramesInv, Framing

LEMMA FramesFullMessage == FramesInv /\ FullMessage => FramesInv'
<1> SUFFICES ASSUME FramesInv, FullMessage PROVE FramesInv'  OBVIOUS
<1>0. Reading /\ Ended /\ Framing  BY DEF FramesInv
<1> DEFINE c == Current  s == buffer.size  l == sent[c]  b == Before(c)  rest == buffer.length - s
           e == current \o First(rest)
<1>1. /\ buffer.reading = "message" /\ 0 < pending /\ rest <= pending
      /\ handed' = Append(handed, e) /\ current' = <<>> /\ buffer' = NewBuffer /\ pending' = pending - rest
      /\ sent' = sent /\ kind' = kind /\ read' = read /\ flushed' = flushed /\ closed' = closed
  BY DEF FullMessage, LeftOver
<1>2. c \in DOMAIN sent /\ InMessage(c) /\ closed = "no"  BY <1>1, AtMessage
<1>3. /\ l \in Nat /\ b \in Nat /\ read \in Nat /\ pending \in Nat /\ c \in 1 .. Len(sent) /\ Len(sent) \in Nat
      /\ prefix_length \in Nat \ {0} /\ read - pending \in Nat /\ End(c) = b + prefix_length + l /\ End(c) \in Nat
      /\ read <= Written
  BY <1>1, Here
<1>4. /\ buffer = [reading |-> "message", length |-> l, size |-> s] /\ s \in 0 .. l
      /\ read - pending = b + prefix_length + s
      /\ current = [k \in 1 .. s |-> b + prefix_length + k]
  BY <1>2 DEF InMessage
<1>5. rest = l - s
  <2> HIDE DEF l, s
  <2>1. buffer.length = l  BY <1>4
  <2> QED BY <2>1
<1> HIDE DEF c, s, l, b, rest
<1>6. s \in Nat /\ rest \in Nat /\ s + rest = l  BY <1>3, <1>4, <1>5
<1>7. e = [k \in 1 .. l |-> b + prefix_length + k]
  <2> DEFINE f == First(rest)  x == b + prefix_length
  <2>1. x \in Nat /\ read - pending = x + s  BY <1>3, <1>4
  <2>2. f = [k \in 1 .. rest |-> x + s + k]  BY <2>1 DEF First
  <2>3. current = [k \in 1 .. s |-> x + k]  BY <1>4
  <2> HIDE DEF f, x
  <2>4. [k \in 1 .. s |-> x + k] \o [k \in 1 .. rest |-> x + s + k] = [k \in 1 .. s + rest |-> x + k]
    BY <1>6, <2>1, Joined
  <2>5. current \o f = [k \in 1 .. s + rest |-> x + k]  BY <2>2, <2>3, <2>4
  <2> QED BY <1>6, <2>5 DEF f, x
<1>8. e = Payload(c)  BY <1>7 DEF Payload, l, b
<1> HIDE DEF e
<1>9. e \in Seq(Nat)
  <2>1. \A k \in 1 .. l : b + prefix_length + k \in Nat  BY <1>3
  <2>2. e \in [1 .. l -> Nat]  BY <1>7, <2>1
  <2> QED BY <1>3, <2>2
<1>10. /\ Len(handed) \in Nat /\ Cardinality(flushed) \in Nat /\ IsFiniteSet(flushed)
       /\ c = Len(handed) + Cardinality(flushed) + 1 /\ Rank(c - 1) = Len(handed)
       /\ handed \in Seq(Seq(Nat)) /\ flushed \subseteq 1 .. c - 1
  BY <1>0, Counts DEF c, Current, Ended
<1>11. handed' \in Seq(Seq(Nat)) /\ Len(handed') = Len(handed) + 1  BY <1>1, <1>9, <1>10
<1>12. Current' = c + 1
  <2>1. Current' = Len(handed') + Cardinality(flushed) + 1  BY <1>1 DEF Current
  <2> QED BY <1>10, <1>11, <2>1
<1>13. Rank(c) = Len(handed) + 1
  <2>1. 1 .. c = (1 .. c - 1) \cup {c} /\ c \notin flushed /\ c \in Nat  BY <1>3, <1>10
  <2> DEFINE S == (1 .. c - 1) \ flushed
  <2>2. (1 .. c) \ flushed = S \cup {c} /\ c \notin S  BY <1>3, <2>1
  <2>3. IsFiniteSet(S)
    <3>1. IsFiniteSet(1 .. c - 1)  BY <1>3, FS_Interval
    <3> QED BY <3>1, FS_Difference
  <2> HIDE DEF S
  <2>4. Cardinality(S \cup {c}) = Cardinality(S) + 1  BY <2>2, <2>3, FS_AddElement
  <2> QED BY <1>10, <2>2, <2>4 DEF Rank, S
<1>14. Ended'
  <2>1. \A i : Rank(i)' = Rank(i) /\ Payload(i)' = Payload(i)  BY <1>1, SameEnds DEF Rank
  <2>2. Current' - 1 = c /\ Current' <= Len(sent') + 1 /\ flushed' \subseteq 1 .. c  BY <1>1, <1>3, <1>10, <1>12, SMTT(30)
  <2>3. ASSUME NEW k \in DOMAIN handed'
        PROVE \E i \in (1 .. c) \ flushed : Rank(i) = k /\ handed'[k] = Payload(i)
    <3>1. CASE k = Len(handed) + 1
      <4>1. handed'[k] = e /\ c \in (1 .. c) \ flushed  BY <1>1, <1>3, <1>9, <1>10, <3>1
      <4> QED BY <1>8, <1>13, <3>1, <4>1
    <3>2. CASE k # Len(handed) + 1
      <4>1. k \in DOMAIN handed /\ handed'[k] = handed[k]  BY <1>1, <1>9, <1>10, <1>11, <3>2
      <4>2. PICK i \in (1 .. c - 1) \ flushed : Rank(i) = k /\ handed[k] = Payload(i)  BY <1>0, <4>1 DEF Ended, c
      <4>3. i \in (1 .. c) \ flushed  BY <1>3, <4>2
      <4> QED BY <4>1, <4>2, <4>3
    <3> QED BY <3>1, <3>2
  <2> QED BY <1>1, <1>10, <1>11, <2>1, <2>2, <2>3 DEF Ended
<1>15. read' - pending' = End(c) /\ pending' \in 0 .. read'
  BY <1>1, <1>3, <1>4, <1>6
<1> QED BY <1>0, <1>1, <1>2, <1>3, <1>12, <1>14, <1>15, FramesNext

(* A flush ends the message in hand and those up to the one it names.      *)
LEMMA FramesFlush == FramesInv /\ did_recv_flush_stream => FramesInv'
<1> SUFFICES ASSUME FramesInv, did_recv_flush_stream PROVE FramesInv'  OBVIOUS
<1>0. Reading /\ Ended /\ Framing  BY DEF FramesInv
<1> DEFINE c == Current
<1>1. PICK i \in DOMAIN sent : /\ read < End(i) /\ read' = End(i)
                               /\ flushed' = flushed \cup (Len(handed) + Cardinality(flushed) + 1) .. i
  BY DEF did_recv_flush_stream
<1>2. /\ pending = 0 /\ closed = "no" /\ buffer' = NewBuffer /\ current' = <<>>
      /\ sent' = sent /\ kind' = kind /\ pending' = pending /\ handed' = handed /\ closed' = closed
  BY DEF did_recv_flush_stream, AfterFlush
<1>3. /\ Len(handed) \in Nat /\ Cardinality(flushed) \in Nat /\ IsFiniteSet(flushed)
      /\ c \in 1 .. Len(sent) + 1 /\ Before(c) \in Nat /\ c = Len(handed) + Cardinality(flushed) + 1
      /\ flushed \subseteq 1 .. c - 1
  BY <1>0, Counts DEF Current, Ended
<1>4. /\ i \in 1 .. Len(sent) /\ Len(sent) \in Nat /\ End(i) \in Nat /\ End(i) <= Written
      /\ read \in Nat /\ read - pending = read /\ prefix_length \in Nat \ {0}
  BY <1>0, <1>2, Positions
<1>5. Before(c) <= read
  <2>1. CASE AtPrefix(c)  BY <1>3, <1>4, <2>1 DEF AtPrefix
  <2>2. CASE InMessage(c)
    <3>1. buffer.size \in 0 .. sent[c] /\ read = Before(c) + prefix_length + buffer.size /\ c \in DOMAIN sent
      BY <1>4, <2>2 DEF InMessage
    <3>2. sent[c] \in Nat  BY <1>0, <3>1, Positions
    <3> HIDE DEF c
    <3> QED BY <1>3, <1>4, <3>1, <3>2, SMTT(30)
  <2> QED BY <1>0, <1>2, <2>1, <2>2 DEF Framing
<1>6. c <= i
  <2> SUFFICES ASSUME i <= c - 1 PROVE FALSE
    <3> HIDE DEF c
    <3> QED BY <1>3, <1>4
  <2> HIDE DEF c
  <2>1. i \in 0 .. Len(sent) /\ c - 1 \in 0 .. Len(sent)  BY <1>3, <1>4
  <2>2. End(i) <= End(c - 1)  BY <1>0, <2>1, EndsGrow, Positions
  <2>3. Before(c) = End(c - 1)  BY DEF Before
  <2> QED BY <1>1, <1>3, <1>4, <1>5, <2>2, <2>3
<1> HIDE DEF c
<1>7. flushed' = flushed \cup c .. i  BY <1>1, <1>3
<1>8. IsFiniteSet(flushed') /\ Cardinality(flushed') = Cardinality(flushed) + (i - c + 1)
  <2> DEFINE S == c .. i
  <2>1. IsFiniteSet(S) /\ Cardinality(S) = i - c + 1
    <3>1. c \in Int /\ i \in Int  BY <1>3, <1>4
    <3>2. /\ IsFiniteSet(c .. i)
          /\ Cardinality(c .. i) = IF c > i THEN 0 ELSE i - c + 1  BY ONLY <3>1, FS_Interval
    <3>3. ~(c > i)  BY <1>3, <1>4, <1>6
    <3> QED BY <3>2, <3>3
  <2>2. flushed \cap S = {}  BY <1>3, <1>4
  <2> HIDE DEF S
  <2>3. /\ IsFiniteSet(flushed \cup S)
        /\ Cardinality(flushed \cup S) = Cardinality(flushed) + Cardinality(S) - Cardinality(flushed \cap S)
    BY <1>3, <2>1, FS_Union
  <2>4. Cardinality(flushed \cap S) = 0  BY <2>2, FS_EmptySet
  <2> DEFINE a == Cardinality(flushed)  d == Cardinality(S)  g == Cardinality(flushed \cap S)
             u == Cardinality(flushed \cup S)
  <2>5. u = a + d - g /\ g = 0 /\ d = i - c + 1 /\ a \in Nat  BY <1>3, <2>1, <2>3, <2>4
  <2>6. flushed' = flushed \cup S  BY <1>7 DEF S
  <2>7. i - c + 1 \in Nat  BY <1>3, <1>4, <1>6
  <2> HIDE DEF a, d, g, u
  <2>8. u = a + (i - c + 1)  BY <2>5, <2>7
  <2> QED BY <2>3, <2>6, <2>8 DEF u, a
<1>9. Current' = i + 1
  <2> DEFINE h == Len(handed)  a == Cardinality(flushed)
  <2>1. Current' = Len(handed) + Cardinality(flushed') + 1  BY <1>2 DEF Current
  <2>2. Current' = h + (a + (i - c + 1)) + 1 /\ c = h + a + 1 /\ h \in Nat /\ a \in Nat  BY <1>3, <1>8, <2>1
  <2> HIDE DEF h, a
  <2>3. c \in Int /\ i \in Int  BY <1>3, <1>4
  <2> QED BY <2>2, <2>3
<1>10. Ended'
  <2>1. \A j : Payload(j)' = Payload(j)  BY <1>2, SameEnds
  <2>2. Current' - 1 = i /\ Current' <= Len(sent') + 1 /\ flushed' \subseteq 1 .. i
    <3>1. Current' - 1 = i /\ Current' <= Len(sent') + 1  BY <1>2, <1>4, <1>9
    <3>2. 1 .. c - 1 \subseteq 1 .. i /\ c .. i \subseteq 1 .. i  BY <1>3, <1>4, <1>6
    <3> QED BY <1>3, <1>7, <3>1, <3>2
  <2>3. ASSUME NEW k \in DOMAIN handed'
        PROVE \E j \in (1 .. i) \ flushed' : Rank(j)' = k /\ handed'[k] = Payload(j)'
    <3>1. k \in DOMAIN handed /\ handed'[k] = handed[k]  BY <1>2
    <3>2. PICK j \in (1 .. c - 1) \ flushed : Rank(j) = k /\ handed[k] = Payload(j)  BY <1>0, <3>1 DEF Ended, c
    <3>3. j \in (1 .. i) \ flushed'  BY <1>3, <1>4, <1>6, <1>7, <3>2
    <3>4. (1 .. j) \ flushed' = (1 .. j) \ flushed  BY <1>3, <1>4, <1>7, <3>2
    <3>5. Rank(j)' = Rank(j)  BY <3>4 DEF Rank
    <3> QED BY <2>1, <3>1, <3>2, <3>3, <3>5
  <2>4. handed' \in Seq(Seq(Nat))  BY <1>0, <1>2 DEF Ended
  <2> QED BY <1>8, <2>2, <2>3, <2>4 DEF Ended
<1>11. read' - pending' = End(i) /\ pending' \in 0 .. read' /\ read' \in Nat /\ read' <= Written
  BY <1>1, <1>2, <1>4
<1> QED BY <1>0, <1>2, <1>4, <1>9, <1>10, <1>11, FramesNext

LEMMA FramesInductive == FramesInv /\ [BufferNext]_bufferVars => FramesInv'
<1>1. ASSUME FramesInv, UNCHANGED bufferVars PROVE FramesInv'
  <2>1. Reading /\ Ended /\ Framing  BY <1>1 DEF FramesInv
  <2>2. /\ sent' = sent /\ kind' = kind /\ read' = read /\ pending' = pending /\ buffer' = buffer
        /\ current' = current /\ handed' = handed /\ flushed' = flushed /\ closed' = closed
    BY <1>1 DEF bufferVars
  <2>3. Ended' /\ Current' = Current  BY <2>1, <2>2, SameEnded
  <2>4. Reading'  BY <2>1, <2>2, SameEnds DEF Reading
  <2>5. \A i : Before(i)' = Before(i)  BY <2>2, SameEnds
  <2>6. AtPrefix(Current)' <=> AtPrefix(Current)  BY <2>2, <2>3, <2>5 DEF AtPrefix
  <2>7. InMessage(Current)' <=> InMessage(Current)  BY <2>2, <2>3, <2>5 DEF InMessage
  <2> QED BY <2>1, <2>2, <2>3, <2>4, <2>6, <2>7 DEF FramesInv, Framing
<1> QED
  BY <1>1, FramesDidRecv, FramesPartialLength, FramesFullLength, FramesPartialMessage, FramesFullMessage,
     FramesRefused, FramesFlush
  DEF BufferNext

LEMMA FramesTyped == ASSUME FramesInv PROVE BufferTypeOK
<1>1. Reading /\ Ended  BY DEF FramesInv
<1>2. Current \in 1 .. Len(sent) + 1 /\ Len(sent) \in Nat /\ DOMAIN sent = 1 .. Len(sent) /\ read \in 0 .. Written
  BY <1>1, Counts, Positions DEF Reading
<1>3. flushed \subseteq DOMAIN sent  BY <1>1, <1>2 DEF Ended
<1> QED BY <1>1, <1>2, <1>3 DEF Reading, BufferTypeOK

(* However the stream is cut into pieces, LpfTransport hands over the      *)
(* messages that were written and not flushed, byte for byte and in order. *)
THEOREM HandedIsSentAlways == BufferSpec => []HandedIsSent
<1>1. BufferSpec => []FramesInv  BY FramesInit, FramesInductive, PTL DEF BufferSpec
<1> QED BY <1>1, FramesHanded, PTL

-----------------------------------------------------------------------------
(* The onramp                                                              *)

Kinds == {"auth", "hello", "ping", "other", "NewBlock", "NewBlockHashes", "BlockHeaders", "BlockBodies"}
Names == ChainBlocks \cup {None}
ChainMessages == [kind : Kinds, block : Names]
Unit == [part : {"old", "auth", "header", "frame"}, nth : Nat, n : Nat, of : Nat, m : ChainMessages]
States == {"Idle", "LengthWait", "AuthWait", "HelloHeaderWait", "HelloFrameWait", "RecvHeaderWait", "RecvFrameWait"}
Tops == [block : Names, covers : {0, 1}]
Rlpx == [tcp : {"none", "open", "closing", "broken", "closed"}, state : States, buf : Seq(Unit),
         bytes_remaining : Nat, keyed : BOOLEAN, unkeyed : BOOLEAN, ingress_mac : Nat,
         unread : Seq(Unit), sealed : Nat, asked : Seq(ChainMessages), got : Nat,
         guessed : BOOLEAN, failed : BOOLEAN]
Publications == [header : Names, covers : Nat, body : Names]
Reads == [r : Rlpx, header : Tops, published : SUBSET Publications, crashed : BOOLEAN, junk : Nat]

OnrampTypeOK ==
  /\ rlpx \in [ChainNodes -> Rlpx] /\ rlpxt \in 0 .. MaxNodes
  /\ header \in Tops /\ is_connected \in BOOLEAN /\ checking \in Nat /\ written \in Nat
  /\ published \in SUBSET Publications
  /\ overlapped \in BOOLEAN /\ crashed \in BOOLEAN

(* Before the secrets are known: what is left of the first message.        *)
Authenticating(r, w, old) ==
  /\ ~r.keyed /\ r.sealed = 0 /\ r.asked = <<>> /\ r.ingress_mac = 0 /\ r.got = 0
  /\ w = Auth(old)
  /\ \/ r.state = "Idle" /\ r.buf = <<>> /\ ~r.guessed
     \/ r.state = "LengthWait" /\ Len(r.buf) + r.bytes_remaining = 1 /\ r.guessed = old
     \/ /\ r.state = "AuthWait"
        /\ old /\ ~r.guessed => Len(r.buf) + r.bytes_remaining = OldSize
        /\ ~old /\ ~r.guessed => Len(r.buf) + r.bytes_remaining = AuthSize
        /\ ~old /\ r.guessed => Len(r.buf) + r.bytes_remaining = OldSize

(* The units of headers and frames follow one another.                     *)
WellFormed(u) ==
  /\ u.n \in 1 .. u.of
  /\ \/ u.part = "header" /\ u.of = HeaderSize
     \/ u.part = "frame" /\ u.of = Size(u.m)
  /\ u.nth <= 2 => u.m.kind = "hello"
Follows(u, v) ==
  IF u.n < u.of THEN v = [u EXCEPT !.n = u.n + 1]
  ELSE /\ v.n = 1 /\ v.nth = u.nth + 1
       /\ u.part = "header" => v.part = "frame" /\ v.m = u.m
       /\ u.part = "frame" => v.part = "header"
Chain(w, first, sealed) ==
  /\ \A i \in 1 .. Len(w) : WellFormed(w[i])
  /\ \A i \in 1 .. Len(w) - 1 : Follows(w[i], w[i + 1])
  /\ w = <<>> => first = 2 * sealed + 1
  /\ w # <<>> =>
       /\ w[1].n = 1 /\ w[1].nth = first
       /\ w[Len(w)].part = "frame" /\ w[Len(w)].nth = 2 * sealed /\ w[Len(w)].n = w[Len(w)].of
       /\ sealed > 0

AtHeader(r, w) ==
  /\ Len(r.buf) + r.bytes_remaining = HeaderSize
  /\ w # <<>> => w[1].part = "header"
AtFrame(r, w) ==
  /\ w # <<>> /\ w[1].part = "frame"
  /\ Len(r.buf) + r.bytes_remaining = Size(w[1].m)
InFrames(r, w) ==
  /\ r.keyed /\ Chain(w, r.ingress_mac + 1, r.sealed)
  /\ \/ r.state = "HelloHeaderWait" /\ r.ingress_mac = 0 /\ r.got = 0 /\ r.asked = <<>> /\ AtHeader(r, w)
     \/ r.state = "HelloFrameWait" /\ r.ingress_mac = 1 /\ r.got = 0 /\ r.asked = <<>> /\ AtFrame(r, w)
     \/ r.state = "RecvHeaderWait" /\ r.sealed > 0 /\ r.ingress_mac = 2 * (r.got + 1) /\ AtHeader(r, w)
     \/ r.state = "RecvFrameWait" /\ r.sealed > 0 /\ r.ingress_mac = 2 * (r.got + 1) + 1 /\ AtFrame(r, w)
Shape(r, w) == (\E old \in BOOLEAN : Authenticating(r, w, old)) \/ InFrames(r, w)

(* The headers that OnRamp::header holds after each unit to come: when the *)
(* bodies of a block are read they are those of that block.                *)
Covered(b, covers) == [block |-> b, covers |-> covers]
Settles(h, m, g) ==
  /\ m.kind = "BlockHeaders" => g = Covered(m.block, 0)
  /\ m.kind = "BlockBodies" => h = Covered(m.block, 0) /\ g = Covered(m.block, 1)
  /\ m.kind \notin {"BlockHeaders", "BlockBodies"} => g = h
IsLast(u) == u.part = "frame" /\ u.n = u.of
Passes(h, u, g) == IF IsLast(u) THEN Settles(h, u.m, g) ELSE g = h
Answerable(asked, h) ==
  /\ \A i \in 1 .. Len(asked) : asked[i].kind \in {"BlockHeaders", "BlockBodies"}
  /\ asked # <<>> /\ asked[1].kind = "BlockBodies" => h = Covered(asked[1].block, 0)
  /\ \A i \in 2 .. Len(asked) : asked[i].kind = "BlockBodies" =>
        asked[i - 1] = Message("BlockHeaders", asked[i].block)
Turns(h, w, asked, g) ==
  /\ h \in [0 .. Len(w) -> Tops] /\ h[0] = g
  /\ \A i \in 1 .. Len(w) : Passes(h[i - 1], w[i], h[i])
  /\ Answerable(asked, h[Len(w)])
Paired(w, asked, g) == \E h : Turns(h, w, asked, g)

(* A connection whose unread bytes are rest.                               *)
Sound(r, rest, g, over) ==
  /\ r.tcp = "open" =>
       /\ ~r.failed /\ Shape(r, r.buf \o rest) /\ (r.state # "Idle" => r.bytes_remaining > 0)
       /\ ~over => Paired(r.buf \o rest, r.asked, g)
  /\ r.failed => r.guessed /\ r.tcp # "open"
Whole(blocks, over) == ~over => \A p \in blocks : p.header = p.body /\ p.covers = 1

OnrampInv ==
  /\ OnrampTypeOK
  /\ \A t \in ChainNodes : Sound(rlpx[t], rlpx[t].unread, header, overlapped) /\ rlpx[t].state # "LengthWait"
  /\ rlpxt # 0 => rlpx[rlpxt].tcp \in {"open", "closing", "broken"}
  /\ ~overlapped => \A t \in Present : t = rlpxt
  /\ Whole(published, overlapped)

-----------------------------------------------------------------------------
(* The records                                                             *)

LEMMA SizesNat ==
  /\ AuthSize \in Nat /\ OldSize \in Nat /\ 1 < OldSize /\ OldSize < AuthSize /\ AuthSize - 1 \in Nat
  /\ MaxNodes \in Nat /\ MaxFrames \in Nat /\ MaxChecks \in Nat /\ Junk \subseteq Nat \ {0}
BY OnrampAssumption DEF OnrampAssumption

LEMMA EmptySeqs == <<>> \in Seq(Unit) /\ <<>> \in Seq(ChainMessages) /\ Len(<<>>) = 0
OBVIOUS

LEMMA ReadsPut ==
  ASSUME NEW x \in Reads, NEW q \in Rlpx, NEW z, z = [x EXCEPT !.r = q]
  PROVE  /\ z \in Reads /\ z.r = q /\ z.header = x.header /\ z.published = x.published /\ z.crashed = x.crashed
         /\ z.junk = x.junk
BY DEF Reads

LEMMA GoesFields ==
  ASSUME NEW x \in Reads, NEW state \in States, NEW n \in Nat, NEW z, z = Goes(x, state, n), NEW r, r = x.r
  PROVE  /\ z \in Reads /\ z.r \in Rlpx /\ z.header = x.header /\ z.published = x.published
         /\ z.crashed = x.crashed /\ z.junk = x.junk
         /\ z.r.tcp = r.tcp /\ z.r.state = state /\ z.r.buf = <<>> /\ z.r.bytes_remaining = n
         /\ z.r.keyed = r.keyed /\ z.r.unkeyed = r.unkeyed /\ z.r.ingress_mac = r.ingress_mac /\ z.r.unread = r.unread
         /\ z.r.sealed = r.sealed /\ z.r.asked = r.asked /\ z.r.got = r.got /\ z.r.guessed = r.guessed
         /\ z.r.failed = r.failed
<1> DEFINE e == <<>>  q == [r EXCEPT !.state = state, !.bytes_remaining = n, !.buf = e]
<1>1. r \in Rlpx /\ e \in Seq(Unit)  BY EmptySeqs DEF Reads
<1>2. z = [x EXCEPT !.r = q]
  <2> HIDE DEF e
  <2>1. Goes(x, state, n) = [x EXCEPT !.r.state = state, !.r.bytes_remaining = n, !.r.buf = e]  BY DEF Goes, e
  <2> QED BY <1>1, <2>1 DEF Reads, Rlpx
<1> HIDE DEF e, q
<1>5. q = [r EXCEPT !.state = state, !.bytes_remaining = n, !.buf = e]  BY DEF q
<1>3. /\ q \in Rlpx /\ q.tcp = r.tcp /\ q.state = state /\ q.buf = e /\ q.bytes_remaining = n
      /\ q.keyed = r.keyed /\ q.unkeyed = r.unkeyed /\ q.ingress_mac = r.ingress_mac /\ q.unread = r.unread
      /\ q.sealed = r.sealed /\ q.asked = r.asked /\ q.got = r.got /\ q.guessed = r.guessed /\ q.failed = r.failed
  BY <1>1, <1>5 DEF Rlpx
<1>4. /\ z \in Reads /\ z.r = q /\ z.header = x.header /\ z.published = x.published /\ z.crashed = x.crashed
      /\ z.junk = x.junk
  BY <1>2, <1>3, ReadsPut
<1> QED BY <1>3, <1>4 DEF e

LEMMA FailedFields ==
  ASSUME NEW x \in Reads, NEW z, z = VerificationFailed(x)
  PROVE  /\ z \in Reads /\ z.r \in Rlpx /\ z.header = x.header /\ z.published = x.published
         /\ z.r.tcp = "closing" /\ z.r.failed /\ z.r.guessed = x.r.guessed /\ z.r.unread = x.r.unread
         /\ z.r.state = x.r.state /\ z.r.bytes_remaining = x.r.bytes_remaining
<1> DEFINE r == x.r  q == [r EXCEPT !.tcp = "closing", !.failed = TRUE]
<1>1. r \in Rlpx  BY DEF Reads
<1>2. z = [x EXCEPT !.r = q]  BY <1>1 DEF VerificationFailed, Reads, Rlpx
<1> HIDE DEF r
<1>3. /\ q \in Rlpx /\ q.tcp = "closing" /\ q.failed /\ q.guessed = r.guessed /\ q.unread = r.unread
      /\ q.state = r.state /\ q.bytes_remaining = r.bytes_remaining
  BY <1>1 DEF Rlpx
<1> HIDE DEF q
<1>4. /\ z \in Reads /\ z.r = q /\ z.header = x.header /\ z.published = x.published  BY <1>2, <1>3, ReadsPut
<1> QED BY <1>3, <1>4 DEF r

LEMMA LengthReadFields ==
  ASSUME NEW x \in Reads, NEW z, z = LengthRead(x), NEW r, r = x.r
  PROVE  /\ z \in Reads /\ z.r \in Rlpx /\ z.header = x.header /\ z.published = x.published
         /\ z.r.tcp = r.tcp /\ z.r.state = "AuthWait" /\ z.r.buf = r.buf
         /\ z.r.bytes_remaining = (IF r.buf[1].part = "auth" THEN AuthSize - 1 ELSE x.junk)
         /\ z.r.keyed = r.keyed /\ z.r.ingress_mac = r.ingress_mac /\ z.r.unread = r.unread
         /\ z.r.sealed = r.sealed /\ z.r.asked = r.asked /\ z.r.got = r.got /\ z.r.guessed = r.guessed
         /\ z.r.failed = r.failed
<1> DEFINE b == r.buf  n == IF b[1].part = "auth" THEN AuthSize - 1 ELSE x.junk
           q == [r EXCEPT !.state = "AuthWait", !.bytes_remaining = n, !.buf = b]
<1>1. r \in Rlpx /\ b \in Seq(Unit)  BY DEF Reads, Rlpx
<1>2. n \in Nat  BY SizesNat DEF Reads
<1>3. "AuthWait" \in States  BY DEF States
<1>4. z = [x EXCEPT !.r = q]
  <2>1. LengthRead(x) = [x EXCEPT !.r.state = "AuthWait", !.r.bytes_remaining = n]  BY DEF LengthRead
  <2> HIDE DEF n
  <2> QED BY <1>1, <1>2, <2>1 DEF Reads, Rlpx
<1> HIDE DEF b, n, q
<1>7. q = [r EXCEPT !.state = "AuthWait", !.bytes_remaining = n, !.buf = b]  BY DEF q
<1>5. /\ q \in Rlpx /\ q.tcp = r.tcp /\ q.state = "AuthWait" /\ q.buf = b /\ q.bytes_remaining = n
      /\ q.keyed = r.keyed /\ q.unkeyed = r.unkeyed /\ q.ingress_mac = r.ingress_mac /\ q.unread = r.unread
      /\ q.sealed = r.sealed /\ q.asked = r.asked /\ q.got = r.got /\ q.guessed = r.guessed /\ q.failed = r.failed
  BY <1>1, <1>2, <1>3, <1>7 DEF Rlpx
<1>6. z \in Reads /\ z.r = q /\ z.header = x.header /\ z.published = x.published  BY <1>4, <1>5, ReadsPut
<1> QED BY <1>5, <1>6 DEF b, n

KeyedOf(x) == [Goes(x, "HelloHeaderWait", HeaderSize) EXCEPT !.r = seal(compute_secrets(@))]

LEMMA KeyedFields ==
  ASSUME NEW x \in Reads, NEW z, NEW r, r = x.r,
         z = KeyedOf(x)
  PROVE  /\ z \in Reads /\ z.r \in Rlpx /\ z.header = x.header /\ z.published = x.published
         /\ z.r.tcp = r.tcp /\ z.r.state = "HelloHeaderWait" /\ z.r.buf = <<>> /\ z.r.bytes_remaining = 2
         /\ z.r.keyed /\ z.r.ingress_mac = r.ingress_mac /\ z.r.unread = r.unread
         /\ z.r.sealed = r.sealed /\ z.r.asked = r.asked /\ z.r.got = r.got /\ z.r.guessed = r.guessed
         /\ z.r.failed = r.failed
<1> DEFINE y == Goes(x, "HelloHeaderWait", HeaderSize)  p == y.r  q == [p EXCEPT !.keyed = TRUE]
<1>1. "HelloHeaderWait" \in States /\ HeaderSize \in Nat /\ HeaderSize = 2  BY DEF States, HeaderSize
<1>2. /\ y \in Reads /\ p \in Rlpx /\ y.header = x.header /\ y.published = x.published
      /\ p.tcp = r.tcp /\ p.state = "HelloHeaderWait" /\ p.buf = <<>> /\ p.bytes_remaining = 2
      /\ p.ingress_mac = r.ingress_mac /\ p.unread = r.unread
      /\ p.sealed = r.sealed /\ p.asked = r.asked /\ p.got = r.got /\ p.guessed = r.guessed
      /\ p.failed = r.failed
  <2> HIDE DEF y
  <2>1. y = Goes(x, "HelloHeaderWait", HeaderSize)  BY DEF y
  <2> QED BY <1>1, <2>1, GoesFields
<1>3. z = [y EXCEPT !.r = seal(compute_secrets(p))]
  <2> HIDE DEF y
  <2> QED BY DEF y, KeyedOf
<1> HIDE DEF y, p
<1>4. /\ q \in Rlpx /\ q.tcp = p.tcp /\ q.state = p.state /\ q.buf = p.buf /\ q.bytes_remaining = p.bytes_remaining
      /\ q.keyed /\ q.ingress_mac = p.ingress_mac /\ q.unread = p.unread
      /\ q.sealed = p.sealed /\ q.asked = p.asked /\ q.got = p.got /\ q.guessed = p.guessed /\ q.failed = p.failed
  BY <1>2 DEF Rlpx
<1>5. compute_secrets(p) = q  BY DEF compute_secrets
<1> HIDE DEF q
<1>6. seal(q) = q  BY <1>4 DEF seal
<1>8. z = [y EXCEPT !.r = q]  BY <1>3, <1>5, <1>6
<1>7. z \in Reads /\ z.r = q /\ z.header = y.header /\ z.published = y.published
  BY <1>2, <1>4, <1>8 DEF Reads
<1> QED BY <1>2, <1>4, <1>7

NextOf(x, state, n) == [Goes(x, state, n) EXCEPT !.r.ingress_mac = @ + 1]
GotOf(x, state, n) == [Goes(x, state, n) EXCEPT !.r.ingress_mac = @ + 1, !.r.got = @ + 1]

LEMMA NextFields ==
  ASSUME NEW x \in Reads, NEW state \in States, NEW n \in Nat, NEW z, NEW r, r = x.r,
         z = NextOf(x, state, n)
  PROVE  /\ z \in Reads /\ z.r \in Rlpx /\ z.header = x.header /\ z.published = x.published
         /\ z.r.tcp = r.tcp /\ z.r.state = state /\ z.r.buf = <<>> /\ z.r.bytes_remaining = n
         /\ z.r.keyed = r.keyed /\ z.r.ingress_mac = r.ingress_mac + 1 /\ z.r.unread = r.unread
         /\ z.r.sealed = r.sealed /\ z.r.asked = r.asked /\ z.r.got = r.got /\ z.r.guessed = r.guessed
         /\ z.r.failed = r.failed
<1> DEFINE y == Goes(x, state, n)  p == y.r  q == [p EXCEPT !.ingress_mac = p.ingress_mac + 1]
<1>1. z = [y EXCEPT !.r.ingress_mac = @ + 1]  BY DEF NextOf
<1>2. /\ y \in Reads /\ p \in Rlpx /\ y.header = x.header /\ y.published = x.published
      /\ p.tcp = r.tcp /\ p.state = state /\ p.buf = <<>> /\ p.bytes_remaining = n
      /\ p.keyed = r.keyed /\ p.ingress_mac = r.ingress_mac /\ p.unread = r.unread
      /\ p.sealed = r.sealed /\ p.asked = r.asked /\ p.got = r.got /\ p.guessed = r.guessed
      /\ p.failed = r.failed
  <2> HIDE DEF y
  <2>1. y = Goes(x, state, n)  BY DEF y
  <2> QED BY <2>1, GoesFields
<1> HIDE DEF y
<1>3. z = [y EXCEPT !.r = q]  BY <1>1, <1>2 DEF Reads
<1> HIDE DEF p
<1>4. /\ q \in Rlpx /\ q.tcp = p.tcp /\ q.state = p.state /\ q.buf = p.buf /\ q.bytes_remaining = p.bytes_remaining
      /\ q.keyed = p.keyed /\ q.ingress_mac = p.ingress_mac + 1 /\ q.unread = p.unread
      /\ q.sealed = p.sealed /\ q.asked = p.asked /\ q.got = p.got /\ q.guessed = p.guessed /\ q.failed = p.failed
  BY <1>2 DEF Rlpx
<1> HIDE DEF q
<1>5. z \in Reads /\ z.r = q /\ z.header = y.header /\ z.published = y.published  BY <1>2, <1>3, <1>4 DEF Reads
<1> QED BY <1>2, <1>4, <1>5

LEMMA GotFields ==
  ASSUME NEW x \in Reads, NEW state \in States, NEW n \in Nat, NEW z, NEW r, r = x.r,
         z = GotOf(x, state, n)
  PROVE  /\ z \in Reads /\ z.r \in Rlpx /\ z.header = x.header /\ z.published = x.published
         /\ z.r.tcp = r.tcp /\ z.r.state = state /\ z.r.buf = <<>> /\ z.r.bytes_remaining = n
         /\ z.r.keyed = r.keyed /\ z.r.ingress_mac = r.ingress_mac + 1 /\ z.r.unread = r.unread
         /\ z.r.sealed = r.sealed /\ z.r.asked = r.asked /\ z.r.got = r.got + 1 /\ z.r.guessed = r.guessed
         /\ z.r.failed = r.failed
<1> DEFINE y == NextOf(x, state, n)  p == y.r  k == p.got + 1  q == [p EXCEPT !.got = k]
<1>1. z = [y EXCEPT !.r.got = @ + 1]  BY DEF GotOf, NextOf
<1>2. /\ y \in Reads /\ p \in Rlpx /\ y.header = x.header /\ y.published = x.published
      /\ p.tcp = r.tcp /\ p.state = state /\ p.buf = <<>> /\ p.bytes_remaining = n
      /\ p.keyed = r.keyed /\ p.ingress_mac = r.ingress_mac + 1 /\ p.unread = r.unread
      /\ p.sealed = r.sealed /\ p.asked = r.asked /\ p.got = r.got /\ p.guessed = r.guessed
      /\ p.failed = r.failed
  <2> HIDE DEF y
  <2>1. y = NextOf(x, state, n)  BY DEF y
  <2> QED BY <2>1, NextFields
<1> HIDE DEF y
<1>3. z = [y EXCEPT !.r = q]  BY <1>1, <1>2 DEF Reads
<1>6. k \in Nat  BY <1>2 DEF Rlpx
<1> HIDE DEF p, k
<1>4. /\ q \in Rlpx /\ q.tcp = p.tcp /\ q.state = p.state /\ q.buf = p.buf /\ q.bytes_remaining = p.bytes_remaining
      /\ q.keyed = p.keyed /\ q.ingress_mac = p.ingress_mac /\ q.unread = p.unread
      /\ q.sealed = p.sealed /\ q.asked = p.asked /\ q.got = k /\ q.guessed = p.guessed /\ q.failed = p.failed
  BY <1>2, <1>6 DEF Rlpx
<1> HIDE DEF q
<1>5. z \in Reads /\ z.r = q /\ z.header = y.header /\ z.published = y.published  BY <1>2, <1>3, <1>4 DEF Reads
<1> QED BY <1>2, <1>4, <1>5 DEF k

(* What OnRamp makes of a message of the node.                             *)
Due(g, m) == m.kind = "BlockBodies" => g = Covered(m.block, 0)
MessageTaken(x, m, z) ==
  /\ z.r.asked = x.r.asked \/ z.r.asked = x.r.asked \o <<Message("BlockHeaders", m.block), Message("BlockBodies", m.block)>>
  /\ Due(x.header, m) =>
       /\ Settles(x.header, m, z.header)
       /\ z.published = x.published \/ \E p \in Publications : /\ p.header = p.body /\ p.covers = 1
                                                            /\ z.published = x.published \cup {p}

LEMMA RecvFields ==
  ASSUME NEW x \in Reads, NEW m \in ChainMessages, NEW z, NEW r, r = x.r,
         z = OnrampRecv(x, m)
  PROVE  /\ z \in Reads /\ z.r \in Rlpx
         /\ z.r.tcp = r.tcp /\ z.r.state = r.state /\ z.r.bytes_remaining = r.bytes_remaining
         /\ z.r.keyed = r.keyed /\ z.r.ingress_mac = r.ingress_mac /\ z.r.unread = r.unread
         /\ z.r.sealed = r.sealed /\ z.r.got = r.got /\ z.r.guessed = r.guessed /\ z.r.failed = r.failed
         /\ MessageTaken(x, m, z)
<1> DEFINE b == m.block  pub == [header |-> b, covers |-> 1, body |-> b]
<1>1. b \in Names /\ m.kind \in Kinds /\ r \in Rlpx  BY DEF ChainMessages, Reads
<1>2. pub \in Publications /\ pub.header = b /\ pub.body = b /\ pub.covers = 1  BY <1>1 DEF Publications
<1>3. CASE m.kind = "NewBlockHashes"
  <2> DEFINE a == Message("BlockHeaders", b)  c == Message("BlockBodies", b)  q == [r EXCEPT !.asked = r.asked \o <<a, c>>]
  <2>1. z = [x EXCEPT !.r.asked = @ \o <<a, c>>]  BY <1>3 DEF OnrampRecv, NewBlockHashes
  <2>2. a \in ChainMessages /\ c \in ChainMessages  BY <1>1 DEF Message, ChainMessages, Kinds
  <2> HIDE DEF a, c
  <2>3. r.asked \o <<a, c>> \in Seq(ChainMessages)
    <3>1. r.asked \in Seq(ChainMessages)  BY <1>1 DEF Rlpx
    <3> QED BY <2>2, <3>1
  <2>4. z = [x EXCEPT !.r = q]  BY <1>1, <2>1 DEF Reads
  <2> DEFINE s == r.asked \o <<a, c>>
  <2> HIDE DEF s
  <2>5. q = [r EXCEPT !.asked = s]  BY DEF s
  <2> HIDE DEF q
  <2>6. /\ q \in Rlpx /\ q.tcp = r.tcp /\ q.state = r.state /\ q.bytes_remaining = r.bytes_remaining
        /\ q.keyed = r.keyed /\ q.ingress_mac = r.ingress_mac /\ q.unread = r.unread
        /\ q.sealed = r.sealed /\ q.asked = s /\ q.got = r.got /\ q.guessed = r.guessed /\ q.failed = r.failed
    <3>1. s \in Seq(ChainMessages)  BY <2>3 DEF s
    <3> QED BY <1>1, <2>5, <3>1 DEF Rlpx
  <2>7. z \in Reads /\ z.r = q /\ z.header = x.header /\ z.published = x.published  BY <2>4, <2>6 DEF Reads
  <2>8. Settles(x.header, m, z.header)  BY <1>3, <2>7 DEF Settles
  <2>9. MessageTaken(x, m, z)  BY <2>6, <2>7, <2>8 DEF MessageTaken, s, a, c
  <2> QED BY <2>6, <2>7, <2>9
<1>4. CASE m.kind = "BlockHeaders"
  <2> DEFINE g == Covered(b, 0)
  <2>1. z = [x EXCEPT !.header = g]  BY <1>4 DEF OnrampRecv, BlockHeaders, Covered
  <2>2. g \in Tops  BY <1>1 DEF Covered, Tops
  <2> HIDE DEF g
  <2>3. z \in Reads /\ z.r = r /\ z.header = g /\ z.published = x.published  BY <2>1, <2>2 DEF Reads
  <2>4. Settles(x.header, m, z.header)  BY <1>4, <2>3 DEF Settles, g
  <2>5. MessageTaken(x, m, z)  BY <2>3, <2>4 DEF MessageTaken
  <2> QED BY <1>1, <2>3, <2>5
<1>5. CASE m.kind = "BlockBodies"
  <2> DEFINE h == x.header  p == [header |-> h.block, covers |-> h.covers + 1, body |-> b]
             ps == x.published \cup {p}  g == [h EXCEPT !.covers = 1]
  <2>1. h \in Tops /\ h.block \in Names /\ h.covers + 1 \in Nat  BY DEF Reads, Tops
  <2>2. z = [Publish(x, h.block, h.covers + 1, b) EXCEPT !.header.covers = 1]  BY <1>5 DEF OnrampRecv, BlockBodies
  <2>3. Publish(x, h.block, h.covers + 1, b) = [x EXCEPT !.published = ps]  BY DEF Publish, Reads
  <2>4. ps \in SUBSET Publications /\ g \in Tops
    <3>1. p \in Publications  BY <1>1, <2>1 DEF Publications
    <3>2. g \in Tops  BY <2>1 DEF Tops
    <3> QED BY <3>1, <3>2 DEF Reads
  <2>5. Due(h, m) => p = pub /\ g = Covered(b, 1)
    <3> SUFFICES ASSUME h = Covered(b, 0) PROVE p = pub /\ g = Covered(b, 1)  BY <1>5 DEF Due
    <3>1. h.block = b /\ h.covers = 0  BY DEF Covered
    <3> QED BY <3>1 DEF Covered
  <2> DEFINE y == [x EXCEPT !.published = ps]
  <2>12. ps = x.published \cup {p}  OBVIOUS
  <2>13. y = [x EXCEPT !.published = ps]  OBVIOUS
  <2> HIDE DEF ps, y
  <2>6. y \in Reads /\ y.r = r /\ y.header = h /\ y.published = ps  BY <2>4, <2>13 DEF Reads
  <2>7. z = [y EXCEPT !.header.covers = 1]  BY <2>2, <2>3, <2>13
  <2>8. z = [y EXCEPT !.header = g]  BY <2>6, <2>7 DEF Reads
  <2> HIDE DEF g, p, h
  <2>9. z \in Reads /\ z.r = r /\ z.header = g /\ z.published = ps  BY <2>4, <2>6, <2>8 DEF Reads
  <2>10. Due(h, m) => Settles(h, m, z.header)  BY <1>5, <2>5, <2>9 DEF Settles, Due
  <2>11. MessageTaken(x, m, z)
    <3> HIDE DEF pub
    <3> QED BY <1>2, <2>5, <2>9, <2>10, <2>12 DEF MessageTaken, h
  <2> QED BY <1>1, <2>9, <2>11
<1>6. CASE m.kind = "NewBlock"
  <2> DEFINE ps == x.published \cup {pub}
  <2>1. z = Publish(x, b, 1, b)  BY <1>6 DEF OnrampRecv
  <2>2. z = [x EXCEPT !.published = ps]  BY <2>1 DEF Publish, Reads
  <2>3. ps \in SUBSET Publications  BY <1>2 DEF Reads
  <2> HIDE DEF ps
  <2>4. z \in Reads /\ z.r = r /\ z.header = x.header /\ z.published = ps  BY <2>2, <2>3 DEF Reads
  <2>5. Settles(x.header, m, z.header)  BY <1>6, <2>4 DEF Settles
  <2>6. MessageTaken(x, m, z)
    <3> HIDE DEF pub
    <3> QED BY <1>2, <2>4, <2>5 DEF MessageTaken, ps
  <2> QED BY <1>1, <2>4, <2>6
<1>7. CASE m.kind \notin {"NewBlockHashes", "BlockHeaders", "BlockBodies", "NewBlock"}
  <2>1. z = x  BY <1>7 DEF OnrampRecv
  <2>2. Settles(x.header, m, z.header)  BY <1>7, <2>1 DEF Settles
  <2>3. MessageTaken(x, m, z)  BY <2>1, <2>2 DEF MessageTaken
  <2> QED BY <1>1, <2>1, <2>3
<1> QED BY <1>3, <1>4, <1>5, <1>6, <1>7

LEMMA FrameReadFields ==
  ASSUME NEW x \in Reads, NEW m \in ChainMessages, NEW z, NEW r, r = x.r,
         z = FrameRead(x, m)
  PROVE  /\ z \in Reads /\ z.r \in Rlpx
         /\ z.r.tcp = r.tcp /\ z.r.state = "RecvHeaderWait" /\ z.r.buf = <<>> /\ z.r.bytes_remaining = 2
         /\ z.r.keyed = r.keyed /\ z.r.ingress_mac = r.ingress_mac + 1 /\ z.r.unread = r.unread
         /\ z.r.sealed = r.sealed /\ z.r.got = r.got + 1 /\ z.r.guessed = r.guessed /\ z.r.failed = r.failed
         /\ MessageTaken(x, m, z)
<1> DEFINE y == IF m.kind = "ping" THEN x ELSE OnrampRecv(x, m)
<1>1. z = GotOf(y, "RecvHeaderWait", HeaderSize)  BY DEF FrameRead, GotOf
<1>2. /\ y \in Reads /\ y.r \in Rlpx
      /\ y.r.tcp = r.tcp
      /\ y.r.keyed = r.keyed /\ y.r.ingress_mac = r.ingress_mac /\ y.r.unread = r.unread
      /\ y.r.sealed = r.sealed /\ y.r.got = r.got /\ y.r.guessed = r.guessed /\ y.r.failed = r.failed
      /\ MessageTaken(x, m, y)
  <2>1. CASE m.kind = "ping"
    <3>1. y = x /\ x.r \in Rlpx  BY <2>1 DEF Reads
    <3>2. Settles(x.header, m, x.header)  BY <2>1 DEF Settles
    <3> HIDE DEF y
    <3>3. MessageTaken(x, m, y)  BY <3>1, <3>2 DEF MessageTaken
    <3> QED BY <3>1, <3>3
  <2>2. CASE m.kind # "ping"
    <3>1. y = OnrampRecv(x, m)  BY <2>2
    <3> HIDE DEF y
    <3> QED BY <3>1, RecvFields
  <2> QED BY <2>1, <2>2
<1> HIDE DEF y
<1>3. "RecvHeaderWait" \in States /\ HeaderSize \in Nat /\ HeaderSize = 2  BY DEF States, HeaderSize
<1>4. /\ z \in Reads /\ z.r \in Rlpx /\ z.header = y.header /\ z.published = y.published
      /\ z.r.tcp = y.r.tcp /\ z.r.state = "RecvHeaderWait" /\ z.r.buf = <<>> /\ z.r.bytes_remaining = 2
      /\ z.r.keyed = y.r.keyed /\ z.r.ingress_mac = y.r.ingress_mac + 1 /\ z.r.unread = y.r.unread
      /\ z.r.sealed = y.r.sealed /\ z.r.asked = y.r.asked /\ z.r.got = y.r.got + 1 /\ z.r.guessed = y.r.guessed
      /\ z.r.failed = y.r.failed
  BY <1>1, <1>2, <1>3, GotFields
<1>5. MessageTaken(x, m, z)  BY <1>2, <1>4 DEF MessageTaken
<1> QED BY <1>2, <1>4, <1>5

TakenOf(x, u) == [x EXCEPT !.r.buf = Append(@, u), !.r.bytes_remaining = @ - 1]

LEMMA TakenFields ==
  ASSUME NEW x \in Reads, NEW u \in Unit, NEW z, NEW r, r = x.r, r.bytes_remaining > 0,
         z = TakenOf(x, u)
  PROVE  /\ z \in Reads /\ z.r \in Rlpx /\ z.header = x.header /\ z.published = x.published /\ z.junk = x.junk
         /\ z.r.tcp = r.tcp /\ z.r.state = r.state /\ z.r.buf = Append(r.buf, u)
         /\ z.r.bytes_remaining = r.bytes_remaining - 1
         /\ z.r.keyed = r.keyed /\ z.r.ingress_mac = r.ingress_mac /\ z.r.unread = r.unread
         /\ z.r.sealed = r.sealed /\ z.r.asked = r.asked /\ z.r.got = r.got /\ z.r.guessed = r.guessed
         /\ z.r.failed = r.failed
<1> DEFINE b == Append(r.buf, u)  n == r.bytes_remaining - 1  q == [r EXCEPT !.buf = b, !.bytes_remaining = n]
<1>1. r \in Rlpx /\ r.buf \in Seq(Unit) /\ r.bytes_remaining \in Nat  BY DEF Reads, Rlpx
<1>2. b \in Seq(Unit) /\ n \in Nat  BY <1>1
<1>3. z = [x EXCEPT !.r = q]  BY <1>1 DEF TakenOf, Reads, Rlpx
<1> HIDE DEF b, n
<1>4. /\ q \in Rlpx /\ q.tcp = r.tcp /\ q.state = r.state /\ q.buf = b /\ q.bytes_remaining = n
      /\ q.keyed = r.keyed /\ q.ingress_mac = r.ingress_mac /\ q.unread = r.unread
      /\ q.sealed = r.sealed /\ q.asked = r.asked /\ q.got = r.got /\ q.guessed = r.guessed /\ q.failed = r.failed
  BY <1>1, <1>2 DEF Rlpx
<1> HIDE DEF q
<1>5. z \in Reads /\ z.r = q /\ z.header = x.header /\ z.published = x.published /\ z.junk = x.junk
  BY <1>3, <1>4 DEF Reads
<1> QED BY <1>4, <1>5 DEF b, n

-----------------------------------------------------------------------------
(* The units to come                                                       *)

LEMMA Joins ==
  ASSUME NEW b \in Seq(Unit), NEW rest \in Seq(Unit), NEW w, w = b \o rest
  PROVE  /\ w \in Seq(Unit) /\ Len(b) \in Nat /\ Len(rest) \in Nat /\ Len(w) = Len(b) + Len(rest)
         /\ \A i \in 1 .. Len(b) : w[i] = b[i] /\ b[i] \in Unit
         /\ \A i \in 1 .. Len(rest) : w[Len(b) + i] = rest[i] /\ rest[i] \in Unit
         /\ b # <<>> => 1 \in 1 .. Len(b)
         /\ rest # <<>> <=> Len(rest) > 0
         /\ (rest = <<>> => w = b) /\ (b = <<>> => w = rest)
OBVIOUS

LEMMA UnitSizes ==
  ASSUME NEW u \in Unit, WellFormed(u)
  PROVE  u.of \in 1 .. 2 /\ u.n \in 1 .. u.of /\ u.nth \in Nat /\ Size(u.m) \in 1 .. 2
         /\ (u.part = "header" => u.of = 2) /\ (u.part = "frame" => u.of = Size(u.m)) /\ u.part \in {"header", "frame"}
BY DEF WellFormed, HeaderSize, Size, Unit

Nth(u, i) == [u EXCEPT !.n = i]

(* A whole header or frame is taken off the front of the chain.            *)
TakenOff(b, rest, w, f, s) ==
  /\ \A i \in 1 .. Len(b) : b[i] = Nth(b[1], i)
  /\ b[1] \in Unit /\ b[1] = w[1] /\ b[1].nth = f /\ WellFormed(b[1]) /\ s > 0 /\ b[1].n = 1
  /\ Chain(rest, f + 1, s)
  /\ b[1].part = "header" => rest # <<>> /\ rest[1].part = "frame" /\ rest[1].m = b[1].m
  /\ b[1].part = "frame" => b[Len(b)].n = b[Len(b)].of /\ (rest # <<>> => rest[1].part = "header")

LEMMA ChainDrop ==
  ASSUME NEW b \in Seq(Unit), NEW rest \in Seq(Unit), NEW f \in Nat, NEW s \in Nat, NEW w, w = b \o rest,
         Chain(w, f, s), b # <<>>, Len(b) = w[1].of
  PROVE  TakenOff(b, rest, w, f, s)
<1> DEFINE k == Len(b)  l == Len(rest)  u == b[1]
<1>1. /\ w \in Seq(Unit) /\ k \in Nat /\ l \in Nat /\ Len(w) = k + l
      /\ \A i \in 1 .. k : w[i] = b[i] /\ b[i] \in Unit
      /\ \A i \in 1 .. l : w[k + i] = rest[i] /\ rest[i] \in Unit
      /\ 1 \in 1 .. k /\ (rest # <<>> <=> l > 0)
  BY Joins, SMTT(30)
<1>2. /\ \A i \in 1 .. Len(w) : WellFormed(w[i])
      /\ \A i \in 1 .. Len(w) - 1 : Follows(w[i], w[i + 1])
      /\ w[1].n = 1 /\ w[1].nth = f
      /\ w[Len(w)].part = "frame" /\ w[Len(w)].nth = 2 * s /\ w[Len(w)].n = w[Len(w)].of
      /\ s > 0
  <2>1. w # <<>>  BY <1>1
  <2> QED BY <2>1 DEF Chain
<1>3. /\ u \in Unit /\ u = w[1] /\ WellFormed(u) /\ u.n = 1 /\ u.nth = f /\ u.of \in 1 .. 2 /\ k = u.of
      /\ u.part = "header" => u.of = 2
  <2>1. u \in Unit /\ u = w[1] /\ WellFormed(u)  BY <1>1, <1>2
  <2> QED BY <1>2, <2>1, UnitSizes
<1>4. k \in 1 .. 2  BY <1>3
<1> HIDE DEF k, l
<1>5. ASSUME NEW i \in 1 .. k  PROVE b[i] = [u EXCEPT !.n = i]
  <2>1. CASE i = 1  BY <1>3, <2>1 DEF Unit
  <2>2. CASE i = 2
    <3>1. Follows(w[1], w[2]) /\ w[2] = b[2]  BY <1>1, <1>2, <2>2
    <3>2. w[2] = [u EXCEPT !.n = u.n + 1]  BY <1>3, <1>4, <2>2, <3>1 DEF Follows
    <3> QED BY <1>3, <2>2, <3>1, <3>2
  <2> QED BY <1>4, <2>1, <2>2
<1> HIDE DEF u
<1>6. b[k] \in Unit /\ w[k] = b[k] /\ b[k].n = k /\ b[k].of = k /\ b[k].nth = f /\ b[k].part = u.part /\ b[k].m = u.m
  <2>1. k \in 1 .. k  BY <1>4
  <2>2. b[k] = [u EXCEPT !.n = k]  BY <1>5, <2>1
  <2> QED BY <1>1, <1>3, <2>1, <2>2 DEF Unit
<1>7. ASSUME l > 0
      PROVE  /\ rest[1].n = 1 /\ rest[1].nth = f + 1
             /\ u.part = "header" => rest[1].part = "frame" /\ rest[1].m = u.m
             /\ u.part = "frame" => rest[1].part = "header"
  <2>1. k \in 1 .. Len(w) - 1 /\ 1 \in 1 .. l  BY <1>1, <1>4, <1>7
  <2>2. Follows(b[k], rest[1])  BY <1>1, <1>2, <1>6, <2>1
  <2>3. ~(b[k].n < b[k].of)  BY <1>4, <1>6
  <2> QED BY <1>6, <2>2, <2>3 DEF Follows
<1>8. u.part = "header" => l > 0
  <2> SUFFICES ASSUME u.part = "header", l = 0 PROVE FALSE  BY <1>1
  <2>1. Len(w) = k  BY <1>1
  <2> QED BY <1>2, <1>6, <2>1
<1>9. Chain(rest, f + 1, s)
  <2>1. ASSUME NEW i \in 1 .. l  PROVE WellFormed(rest[i])
    <3>1. k + i \in 1 .. Len(w) /\ w[k + i] = rest[i]  BY <1>1, <1>4
    <3> QED BY <1>2, <3>1
  <2>2. ASSUME NEW i \in 1 .. l - 1  PROVE Follows(rest[i], rest[i + 1])
    <3>1. k + i \in 1 .. Len(w) - 1 /\ (k + i) + 1 = k + (i + 1) /\ i \in 1 .. l /\ i + 1 \in 1 .. l  BY <1>1, <1>4
    <3>2. w[k + i] = rest[i] /\ w[(k + i) + 1] = rest[i + 1]  BY <1>1, <3>1
    <3> QED BY <1>2, <3>1, <3>2
  <2>3. CASE l = 0
    <3>1. rest = <<>> /\ Len(w) = k  BY <1>1, <2>3
    <3>2. f = 2 * s  BY <1>2, <1>6, <3>1
    <3> QED BY <2>3, <3>1, <3>2, EmptySeqs DEF Chain, l
  <2>4. CASE l > 0
    <3>1. Len(w) = k + l /\ l \in 1 .. l /\ rest[l] = w[k + l] /\ rest # <<>>  BY <1>1, <2>4
    <3>2. rest[l].part = "frame" /\ rest[l].nth = 2 * s /\ rest[l].n = rest[l].of  BY <1>2, <3>1
    <3> QED BY <1>2, <1>7, <2>1, <2>2, <2>4, <3>1, <3>2 DEF Chain, l
  <2> QED BY <1>1, <2>3, <2>4
<1>10. b[Len(b)].n = b[Len(b)].of  BY <1>6 DEF k
<1> QED BY <1>1, <1>2, <1>3, <1>5, <1>7, <1>8, <1>9, <1>10 DEF u, k, Nth, TakenOff

(* What the units taken off have made of the header.                       *)
PairedAfter(b, rest, asked, g) ==
  \E g2 \in Tops : /\ Paired(rest, asked, g2)
                   /\ b[1].part = "header" => g2 = g
                   /\ b[1].part = "frame" => Settles(g, b[1].m, g2)

LEMMA PairedDrop ==
  ASSUME NEW b \in Seq(Unit), NEW rest \in Seq(Unit), NEW f \in Nat, NEW s \in Nat, NEW w, w = b \o rest,
         Chain(w, f, s), b # <<>>, Len(b) = w[1].of, NEW asked, NEW g, Paired(w, asked, g)
  PROVE  PairedAfter(b, rest, asked, g)
<1> DEFINE k == Len(b)  l == Len(rest)  u == b[1]
<1>1. /\ w \in Seq(Unit) /\ k \in Nat /\ l \in Nat /\ Len(w) = k + l
      /\ \A i \in 1 .. k : w[i] = b[i] /\ b[i] \in Unit
      /\ \A i \in 1 .. l : w[k + i] = rest[i] /\ rest[i] \in Unit
      /\ 1 \in 1 .. k
  BY Joins, SMTT(60)
<1>2. PICK h : Turns(h, w, asked, g)  BY DEF Paired
<1>3. /\ h \in [0 .. k + l -> Tops] /\ h[0] = g
      /\ \A i \in 1 .. k + l : Passes(h[i - 1], w[i], h[i])
      /\ Answerable(asked, h[k + l])
  BY <1>1, <1>2 DEF Turns
<1>4. /\ \A i \in 1 .. k : b[i] = Nth(u, i)
      /\ u \in Unit /\ WellFormed(u) /\ k = u.of
  <2>1. TakenOff(b, rest, w, f, s)  BY ChainDrop
  <2> QED BY <2>1 DEF TakenOff
<1>5. k \in 1 .. 2 /\ u.part \in {"header", "frame"}  BY <1>4, UnitSizes
<1> HIDE DEF k, l, u
<1>6. Paired(rest, asked, h[k])
  <2> DEFINE e == [i \in 0 .. l |-> h[k + i]]
  <2>1. \A i \in 0 .. l : k + i \in 0 .. k + l  BY <1>1, <1>5
  <2>2. e \in [0 .. l -> Tops] /\ e[0] = h[k] /\ e[l] = h[k + l]
    <3>1. k + 0 = k /\ 0 \in 0 .. l /\ l \in 0 .. l  BY <1>1
    <3> QED BY <1>3, <2>1, <3>1
  <2>3. ASSUME NEW i \in 1 .. l  PROVE Passes(e[i - 1], rest[i], e[i])
    <3>1. k + i \in 1 .. k + l /\ i - 1 \in 0 .. l /\ k + (i - 1) = (k + i) - 1 /\ i \in 0 .. l  BY <1>1, <1>5
    <3>2. Passes(h[(k + i) - 1], w[k + i], h[k + i])  BY <1>3, <3>1
    <3> QED BY <1>1, <3>1, <3>2
  <2> HIDE DEF e
  <2>4. Turns(e, rest, asked, h[k])  BY <1>3, <2>2, <2>3 DEF Turns, l
  <2> QED BY <2>4 DEF Paired
<1>7. h[k] \in Tops  BY <1>1, <1>3, <1>5
<1>8. ASSUME NEW i \in 1 .. k
      PROVE /\ Passes(h[i - 1], b[i], h[i])
            /\ b[i].part = u.part /\ b[i].n = i /\ b[i].of = k /\ b[i].m = u.m
  <2>1. i \in 1 .. k + l /\ i \in 1 .. k  BY <1>1, <1>5
  <2>2. b[i] = [u EXCEPT !.n = i]  BY <1>4, <2>1 DEF Nth
  <2>3. Passes(h[i - 1], b[i], h[i])  BY <1>1, <1>3, <2>1
  <2> QED BY <1>4, <2>2, <2>3 DEF Unit
<1>9. CASE u.part = "header"
  <2>1. \A i \in 1 .. k : h[i] = h[i - 1]  BY <1>8, <1>9 DEF Passes, IsLast
  <2>2. h[k] = g
    <3>1. CASE k = 1
      <4>1. h[1] = h[1 - 1]  BY <2>1, <3>1
      <4> QED BY <1>3, <3>1, <4>1
    <3>2. CASE k = 2
      <4>1. h[1] = h[1 - 1] /\ h[2] = h[2 - 1]  BY <2>1, <3>2
      <4> QED BY <1>3, <3>2, <4>1
    <3> QED BY <1>5, <3>1, <3>2
  <2> QED BY <1>6, <1>7, <1>9, <2>2 DEF u, PairedAfter
<1>10. CASE u.part = "frame"
  <2>1. Settles(h[k - 1], u.m, h[k])
    <3>1. k \in 1 .. k  BY <1>5
    <3>2. Passes(h[k - 1], b[k], h[k]) /\ b[k].part = "frame" /\ b[k].n = b[k].of /\ b[k].m = u.m  BY <1>8, <1>10, <3>1
    <3> QED BY <3>2 DEF Passes, IsLast
  <2>2. h[k - 1] = g
    <3>1. CASE k = 1  BY <1>3, <3>1
    <3>2. CASE k = 2
      <4>1. Passes(h[1 - 1], b[1], h[1]) /\ b[1].n = 1 /\ b[1].of = 2  BY <1>8, <3>2
      <4>2. h[1] = h[1 - 1]  BY <4>1 DEF Passes, IsLast
      <4> QED BY <1>3, <3>2, <4>2
    <3> QED BY <1>5, <3>1, <3>2
  <2> QED BY <1>6, <1>7, <1>10, <2>1, <2>2 DEF u, PairedAfter
<1> QED BY <1>5, <1>9, <1>10

-----------------------------------------------------------------------------
(* What did_recv makes of a unit                                           *)

(* A transport that can take another unit, of those in rest.               *)
Ready(x, rest, over) ==
  /\ x \in Reads /\ x.r.tcp = "open" /\ ~x.r.failed /\ x.r.state # "Idle"
  /\ Shape(x.r, x.r.buf \o rest) /\ (~over => Paired(x.r.buf \o rest, x.r.asked, x.header))
  /\ x.r.state = "LengthWait" => x.junk > 0 \/ (x.r.buf \o rest)[1].part = "auth"
  /\ Whole(x.published, over)

(* What it leaves.                                                         *)
SettledAs(x, rest, over, z) ==
  /\ z \in Reads /\ Sound(z.r, rest, z.header, over) /\ Whole(z.published, over)
  /\ z.r.unread = x.r.unread /\ z.r.state \notin {"Idle", "LengthWait"}
  /\ z.r.tcp = IF z.r.failed THEN "closing" ELSE "open"

AuthUnit(part, n, of) == [part |-> part, nth |-> 0, n |-> n, of |-> of, m |-> Message("auth", None)]

LEMMA AuthUnits ==
  /\ Auth(TRUE) \in Seq(Unit) /\ Len(Auth(TRUE)) = OldSize
  /\ \A n \in 1 .. OldSize : Auth(TRUE)[n] = AuthUnit("old", n, OldSize)
  /\ Auth(FALSE) \in Seq(Unit) /\ Len(Auth(FALSE)) = AuthSize
  /\ \A n \in 1 .. AuthSize : Auth(FALSE)[n] = AuthUnit("auth", n, AuthSize)
  /\ Auth(TRUE)[1] = AuthUnit("old", 1, OldSize) /\ Auth(FALSE)[1] = AuthUnit("auth", 1, AuthSize)
<1>1. Message("auth", None) \in ChainMessages  BY DEF Message, ChainMessages, Kinds, Names
<1>2. \A part \in {"old", "auth"}, n, of \in Nat : AuthUnit(part, n, of) \in Unit  BY <1>1 DEF AuthUnit, Unit
<1>3. Auth(TRUE) = [n \in 1 .. OldSize |-> AuthUnit("old", n, OldSize)]  BY DEF Auth, Units, AuthUnit
<1>4. Auth(FALSE) = [n \in 1 .. AuthSize |-> AuthUnit("auth", n, AuthSize)]  BY DEF Auth, Units, AuthUnit
<1>5. \A n \in 1 .. OldSize : AuthUnit("old", n, OldSize) \in Unit  BY <1>2, SizesNat
<1>6. \A n \in 1 .. AuthSize : AuthUnit("auth", n, AuthSize) \in Unit  BY <1>2, SizesNat
<1>7. Auth(TRUE) \in Seq(Unit) /\ Len(Auth(TRUE)) = OldSize
  <2> DEFINE a == Auth(TRUE)  n == OldSize
  <2>1. a \in [1 .. n -> Unit] /\ n \in Nat  BY <1>3, <1>5, SizesNat
  <2> HIDE DEF a, n
  <2>2. a \in Seq(Unit) /\ Len(a) = n  BY <2>1
  <2> QED BY <2>2 DEF a, n
<1>8. Auth(FALSE) \in Seq(Unit) /\ Len(Auth(FALSE)) = AuthSize
  <2> DEFINE a == Auth(FALSE)  n == AuthSize
  <2>1. a \in [1 .. n -> Unit] /\ n \in Nat  BY <1>4, <1>6, SizesNat
  <2> HIDE DEF a, n
  <2>2. a \in Seq(Unit) /\ Len(a) = n  BY <2>1
  <2> QED BY <2>2 DEF a, n
<1>9. 1 \in 1 .. OldSize /\ 1 \in 1 .. AuthSize  BY SizesNat
<1> QED BY <1>3, <1>4, <1>7, <1>8, <1>9

LEMMA FailedSettled ==
  ASSUME NEW y, NEW rest, NEW over, Ready(y, rest, over), y.r.guessed, y.r.state # "LengthWait"
  PROVE  SettledAs(y, rest, over, VerificationFailed(y))
<1> DEFINE z == VerificationFailed(y)
<1>1. y \in Reads /\ y.r.state # "Idle" /\ Whole(y.published, over)  BY DEF Ready
<1>2. /\ z \in Reads /\ z.r \in Rlpx /\ z.header = y.header /\ z.published = y.published
      /\ z.r.tcp = "closing" /\ z.r.failed /\ z.r.guessed = y.r.guessed /\ z.r.unread = y.r.unread
      /\ z.r.state = y.r.state
  <2> HIDE DEF z
  <2>1. z = VerificationFailed(y)  BY DEF z
  <2> QED BY <1>1, <2>1, FailedFields
<1> HIDE DEF z
<1>3. Sound(z.r, rest, z.header, over)  BY <1>2 DEF Sound
<1>4. SettledAs(y, rest, over, z)  BY <1>1, <1>2, <1>3 DEF SettledAs
<1> QED BY <1>4 DEF z

(* The length of the first message.                                        *)
LEMMA LengthSettled ==
  ASSUME NEW y, NEW rest \in Seq(Unit), NEW over \in BOOLEAN, Ready(y, rest, over), y.r.buf # <<>>, y.r.bytes_remaining = 0,
         y.r.state = "LengthWait"
  PROVE  SettledAs(y, rest, over, Full(y))
<1> DEFINE z == LengthRead(y)  r == y.r  w == r.buf \o rest
<1>1. y \in Reads /\ r \in Rlpx /\ r.buf \in Seq(Unit) /\ r.tcp = "open" /\ ~r.failed /\ Whole(y.published, over)
  BY DEF Ready, Reads, Rlpx
<1>2. /\ z \in Reads /\ z.r \in Rlpx /\ z.header = y.header /\ z.published = y.published
      /\ z.r.tcp = r.tcp /\ z.r.state = "AuthWait" /\ z.r.buf = r.buf
      /\ z.r.bytes_remaining = (IF r.buf[1].part = "auth" THEN AuthSize - 1 ELSE y.junk)
      /\ z.r.keyed = r.keyed /\ z.r.ingress_mac = r.ingress_mac /\ z.r.unread = r.unread
      /\ z.r.sealed = r.sealed /\ z.r.asked = r.asked /\ z.r.got = r.got /\ z.r.guessed = r.guessed
      /\ z.r.failed = r.failed
  <2> HIDE DEF z, r
  <2>1. z = LengthRead(y) /\ r = y.r  BY DEF z, r
  <2> QED BY <1>1, <2>1, LengthReadFields
<1>3. Full(y) = z  BY DEF Full
<1>4. ~InFrames(r, w)  BY DEF InFrames
<1>5. PICK old \in BOOLEAN : Authenticating(r, w, old)  BY <1>4 DEF Ready, Shape
<1>6. /\ ~r.keyed /\ r.sealed = 0 /\ r.asked = <<>> /\ r.ingress_mac = 0 /\ r.got = 0 /\ w = Auth(old)
      /\ Len(r.buf) + r.bytes_remaining = 1 /\ r.guessed = old
  BY <1>5 DEF Authenticating
<1>7. w[1] = r.buf[1] /\ Len(r.buf) = 1
  <2>1. 1 \in 1 .. Len(r.buf) /\ w[1] = r.buf[1] /\ Len(r.buf) \in Nat
    <3> HIDE DEF r, w
    <3>1. w = r.buf \o rest /\ r.buf # <<>>  BY DEF w, r
    <3> QED BY <1>1, <3>1, Joins
  <2> QED BY <1>6, <2>1
<1>8. ~over => Paired(w, r.asked, y.header)  BY DEF Ready
<1>9. y.junk > 0 \/ w[1].part = "auth"  BY DEF Ready
<1>10. y.junk \in Nat  BY <1>1 DEF Reads
<1> HIDE DEF z, r, w
<1>11. z.r.bytes_remaining > 0  BY <1>2, <1>7, <1>9, <1>10, SizesNat
<1>12. Authenticating(z.r, w, old)
  <2>1. CASE old
    <3>1. old = TRUE /\ z.r.guessed  BY <1>2, <1>6, <2>1
    <3> QED BY <1>2, <1>6, <3>1 DEF Authenticating
  <2>2. CASE ~old
    <3>1. old = FALSE /\ ~z.r.guessed  BY <1>2, <1>6, <2>2
    <3>2. w[1].part = "auth"
      <4>1. w[1] = AuthUnit("auth", 1, AuthSize)  BY <1>6, <3>1, AuthUnits, SizesNat
      <4> QED BY <4>1 DEF AuthUnit
    <3>3. Len(z.r.buf) + z.r.bytes_remaining = AuthSize  BY <1>2, <1>7, <3>2, SizesNat
    <3> QED BY <1>2, <1>6, <3>1, <3>3 DEF Authenticating
  <2> QED BY <2>1, <2>2
<1>13. z.r.buf \o rest = w  BY <1>2 DEF w
<1>14. Sound(z.r, rest, z.header, over)
  <2>1. Shape(z.r, z.r.buf \o rest)  BY <1>12, <1>13 DEF Shape
  <2>2. ~over => Paired(z.r.buf \o rest, z.r.asked, z.header)  BY <1>2, <1>8, <1>13
  <2> QED BY <1>1, <1>2, <1>11, <2>1, <2>2 DEF Sound
<1>15. SettledAs(y, rest, over, z)  BY <1>1, <1>2, <1>14 DEF SettledAs, r
<1> QED BY <1>3, <1>15

(* Nothing to come.                                                        *)
LEMMA NothingPaired == ASSUME NEW g \in Tops PROVE Paired(<<>>, <<>>, g)
<1> DEFINE h == [i \in 0 .. 0 |-> g]
<1>1. Len(<<>>) = 0 /\ h \in [0 .. 0 -> Tops] /\ h[0] = g  OBVIOUS
<1>2. Answerable(<<>>, h[0])  BY <1>1 DEF Answerable
<1>3. Turns(h, <<>>, <<>>, g)
  <2> HIDE DEF h
  <2>1. 1 .. 0 = {}  OBVIOUS
  <2> QED BY <1>1, <1>2, <2>1 DEF Turns
<1> QED BY <1>3 DEF Paired

(* The first message.                                                      *)
LEMMA AuthSettled ==
  ASSUME NEW y, NEW rest \in Seq(Unit), NEW over \in BOOLEAN, Ready(y, rest, over), y.r.buf # <<>>, y.r.bytes_remaining = 0,
         y.r.state = "AuthWait"
  PROVE  SettledAs(y, rest, over, Full(y))
<1> DEFINE r == y.r  w == r.buf \o rest  b == r.buf
<1>1. y \in Reads /\ r \in Rlpx /\ b \in Seq(Unit) /\ r.tcp = "open" /\ ~r.failed /\ Whole(y.published, over) /\ y.header \in Tops
  BY DEF Ready, Reads, Rlpx
<1>2. Full(y) = Authenticated(y)  BY DEF Full
<1>3. ~InFrames(r, w)  BY DEF InFrames
<1>4. PICK old \in BOOLEAN : Authenticating(r, w, old)  BY <1>3 DEF Ready, Shape
<1>5. /\ ~r.keyed /\ r.sealed = 0 /\ r.asked = <<>> /\ r.ingress_mac = 0 /\ r.got = 0 /\ w = Auth(old)
      /\ old /\ ~r.guessed => Len(b) + r.bytes_remaining = OldSize
      /\ ~old /\ ~r.guessed => Len(b) + r.bytes_remaining = AuthSize
      /\ ~old /\ r.guessed => Len(b) + r.bytes_remaining = OldSize
  BY <1>4 DEF Authenticating
<1>6. r.bytes_remaining = 0 /\ b # <<>>  OBVIOUS
<1>7. /\ w \in Seq(Unit) /\ Len(b) \in Nat /\ Len(rest) \in Nat /\ Len(w) = Len(b) + Len(rest)
      /\ \A i \in 1 .. Len(b) : w[i] = b[i]
      /\ 1 \in 1 .. Len(b) /\ (rest # <<>> <=> Len(rest) > 0) /\ (rest = <<>> => w = b)
  <2> HIDE DEF b, w
  <2>1. w = b \o rest  BY DEF w, b
  <2> QED BY <1>1, <1>6, <2>1, Joins
<1> DEFINE ok == \/ Len(b) = OldSize /\ ecies_decrypt_old(b)
                 \/ Len(b) # OldSize /\ ecies_decrypt(b)
           z == KeyedOf(y)
<1>8. Full(y) = IF ok THEN z ELSE VerificationFailed(y)  BY <1>2 DEF Authenticated, KeyedOf
<1> HIDE DEF w, b, z
<1>9. ok => rest = <<>>
  <2>1. CASE Len(b) = OldSize /\ ecies_decrypt_old(b)
    <3>1. b[1].part = "old"  BY <2>1 DEF ecies_decrypt_old, IsWhole
    <3>2. old
      <4> SUFFICES ASSUME old = FALSE PROVE FALSE  OBVIOUS
      <4>1. w[1] = AuthUnit("auth", 1, AuthSize)  BY <1>5, AuthUnits, SizesNat
      <4> QED BY <1>7, <3>1, <4>1 DEF AuthUnit
    <3>3. Len(w) = OldSize  BY <1>5, <3>2, AuthUnits
    <3> QED BY <1>7, <2>1, <3>3, SizesNat
  <2>2. CASE Len(b) # OldSize /\ ecies_decrypt(b)
    <3>1. b[1].part = "auth" /\ Len(b) = b[1].of  BY <2>2 DEF ecies_decrypt, IsWhole
    <3>2. old = FALSE
      <4> SUFFICES ASSUME old = TRUE PROVE FALSE  OBVIOUS
      <4>1. w[1] = AuthUnit("old", 1, OldSize)  BY <1>5, AuthUnits, SizesNat
      <4> QED BY <1>7, <3>1, <4>1 DEF AuthUnit
    <3>3. Len(w) = AuthSize /\ w[1] = AuthUnit("auth", 1, AuthSize)  BY <1>5, <3>2, AuthUnits, SizesNat
    <3>4. Len(b) = AuthSize  BY <1>7, <3>1, <3>3 DEF AuthUnit
    <3> QED BY <1>7, <3>3, <3>4, SizesNat
  <2> QED BY <2>1, <2>2
<1>10. ~ok => r.guessed
  <2> SUFFICES ASSUME ~r.guessed PROVE ok  OBVIOUS
  <2>1. CASE old = TRUE
    <3>1. Len(b) = OldSize  BY <1>5, <1>6, <1>7, <2>1
    <3>2. Len(w) = OldSize  BY <1>5, <2>1, AuthUnits
    <3>3. rest = <<>> /\ w = b  BY <1>7, <3>1, <3>2, SizesNat
    <3>4. \A n \in 1 .. OldSize : b[n] = AuthUnit("old", n, OldSize)  BY <1>5, <2>1, <3>3, AuthUnits
    <3>5. b[1] = AuthUnit("old", 1, OldSize)  BY <3>4, SizesNat
    <3>6. \A n \in DOMAIN b : b[n] = [b[1] EXCEPT !.n = n]
      <4>1. DOMAIN b = 1 .. OldSize  BY <1>1, <3>1 DEF b
      <4>2. \A n : AuthUnit("old", n, OldSize) = [AuthUnit("old", 1, OldSize) EXCEPT !.n = n]  BY DEF AuthUnit
      <4> QED BY <3>4, <3>5, <4>1, <4>2
    <3>7. b[1].part = "old" /\ b[1].of = OldSize  BY <3>5 DEF AuthUnit
    <3> QED BY <3>1, <3>6, <3>7 DEF ecies_decrypt_old, IsWhole
  <2>2. CASE old = FALSE
    <3>1. Len(b) = AuthSize  BY <1>5, <1>6, <1>7, <2>2
    <3>2. Len(w) = AuthSize  BY <1>5, <2>2, AuthUnits
    <3>3. rest = <<>> /\ w = b  BY <1>7, <3>1, <3>2, SizesNat
    <3>4. \A n \in 1 .. AuthSize : b[n] = AuthUnit("auth", n, AuthSize)  BY <1>5, <2>2, <3>3, AuthUnits
    <3>5. b[1] = AuthUnit("auth", 1, AuthSize)  BY <3>4, SizesNat
    <3>6. \A n \in DOMAIN b : b[n] = [b[1] EXCEPT !.n = n]
      <4>1. DOMAIN b = 1 .. AuthSize  BY <1>1, <3>1 DEF b
      <4>2. \A n : AuthUnit("auth", n, AuthSize) = [AuthUnit("auth", 1, AuthSize) EXCEPT !.n = n]  BY DEF AuthUnit
      <4> QED BY <3>4, <3>5, <4>1, <4>2
    <3>7. b[1].part = "auth" /\ b[1].of = AuthSize  BY <3>5 DEF AuthUnit
    <3>8. Len(b) # OldSize  BY <3>1, SizesNat
    <3> QED BY <3>1, <3>6, <3>7, <3>8 DEF ecies_decrypt, IsWhole
  <2> QED BY <2>1, <2>2
<1>11. CASE ~ok
  <2>1. SettledAs(y, rest, over, VerificationFailed(y))  BY <1>10, <1>11, FailedSettled DEF r
  <2> QED BY <1>8, <1>11, <2>1
<1>12. CASE ok
  <2>1. /\ z \in Reads /\ z.r \in Rlpx /\ z.header = y.header /\ z.published = y.published
        /\ z.r.tcp = r.tcp /\ z.r.state = "HelloHeaderWait" /\ z.r.buf = <<>> /\ z.r.bytes_remaining = 2
        /\ z.r.keyed /\ z.r.ingress_mac = r.ingress_mac /\ z.r.unread = r.unread
        /\ z.r.sealed = r.sealed /\ z.r.asked = r.asked /\ z.r.got = r.got /\ z.r.guessed = r.guessed
        /\ z.r.failed = r.failed
    BY <1>1, KeyedFields DEF z, r
  <2>2. rest = <<>> /\ z.r.buf \o rest = <<>>  BY <1>9, <1>12, <2>1
  <2> HIDE DEF ok, r
  <2>3. Chain(<<>>, 1, 0)  BY EmptySeqs DEF Chain
  <2>4. InFrames(z.r, <<>>)  BY <1>5, <2>1, <2>3, EmptySeqs DEF InFrames, AtHeader, HeaderSize
  <2>5. Paired(<<>>, z.r.asked, z.header)  BY <1>1, <1>5, <2>1, NothingPaired
  <2>6. Sound(z.r, rest, z.header, over)  BY <1>1, <2>1, <2>2, <2>4, <2>5 DEF Sound, Shape
  <2>7. SettledAs(y, rest, over, z)  BY <1>1, <2>1, <2>6 DEF SettledAs, r
  <2> QED BY <1>8, <1>12, <2>7
<1> QED BY <1>11, <1>12

LEMMA WholeUnits ==
  ASSUME NEW b \in Seq(Unit), NEW rest, NEW w, NEW f, NEW s, TakenOff(b, rest, w, f, s), Len(b) = b[1].of, NEW part, b[1].part = part
  PROVE  IsWhole(b, part)
<1>1. \A n \in DOMAIN b : b[n] = [b[1] EXCEPT !.n = n]
  <2>1. DOMAIN b = 1 .. Len(b)  OBVIOUS
  <2> QED BY <2>1 DEF TakenOff, Nth
<1> QED BY <1>1 DEF IsWhole

(* A header or a frame is complete: it is taken, and the next one awaited. *)
LEMMA UnitsSettled ==
  ASSUME NEW y, NEW rest \in Seq(Unit), NEW over \in BOOLEAN, Ready(y, rest, over), y.r.buf # <<>>, y.r.bytes_remaining = 0,
         NEW w, w = y.r.buf \o rest, InFrames(y.r, w)
  PROVE  /\ y.r \in Rlpx /\ y.r.buf \in Seq(Unit) /\ y.r.ingress_mac \in Nat /\ y.r.sealed \in Nat
         /\ TakenOff(y.r.buf, rest, w, y.r.ingress_mac + 1, y.r.sealed)
         /\ Len(y.r.buf) = y.r.buf[1].of /\ y.r.buf[1].part \in {"header", "frame"}
         /\ y.r.buf[1].of \in 1 .. 2
         /\ y.r.state \in {"HelloHeaderWait", "RecvHeaderWait"} <=> y.r.buf[1].part = "header"
         /\ y.r.buf[1].part = "header" => y.r.buf[1].of = 2
         /\ ~over => \E g \in Tops : /\ Paired(rest, y.r.asked, g)
                                     /\ y.r.buf[1].part = "header" => g = y.header
                                     /\ y.r.buf[1].part = "frame" => Settles(y.header, y.r.buf[1].m, g)
<1> DEFINE r == y.r  b == r.buf  f == r.ingress_mac + 1  s == r.sealed
<1>1. y \in Reads /\ r \in Rlpx /\ b \in Seq(Unit) /\ r.ingress_mac \in Nat /\ f \in Nat /\ s \in Nat /\ b # <<>>
  BY DEF Ready, Reads, Rlpx
<1>2. /\ w \in Seq(Unit) /\ Len(b) \in Nat /\ Len(w) = Len(b) + Len(rest) /\ Len(rest) \in Nat
      /\ 1 \in 1 .. Len(b) /\ w[1] = b[1] /\ b[1] \in Unit
  <2> HIDE DEF b
  <2>1. w = b \o rest  BY DEF b
  <2> QED BY <1>1, <2>1, Joins
<1>3. Chain(w, f, s)  BY DEF InFrames
<1>4. WellFormed(w[1])
  <2>1. 1 \in 1 .. Len(w)  BY <1>2
  <2> QED BY <1>3, <2>1 DEF Chain
<1>5. /\ b[1].of \in 1 .. 2 /\ (b[1].part = "header" => b[1].of = 2) /\ (b[1].part = "frame" => b[1].of = Size(b[1].m))
      /\ b[1].part \in {"header", "frame"}
  BY <1>2, <1>4, UnitSizes
<1>6. /\ Len(b) = w[1].of
      /\ r.state \in {"HelloHeaderWait", "RecvHeaderWait"} <=> b[1].part = "header"
  <2>1. Len(b) + r.bytes_remaining = Len(b)  BY <1>2
  <2>2. CASE AtHeader(r, w) /\ r.state \in {"HelloHeaderWait", "RecvHeaderWait"}
    <3>1. w # <<>>  BY <1>2
    <3> QED BY <1>2, <1>5, <2>1, <2>2, <3>1 DEF AtHeader, HeaderSize
  <2>3. CASE AtFrame(r, w) /\ r.state \in {"HelloFrameWait", "RecvFrameWait"}
    BY <1>2, <1>5, <2>1, <2>3 DEF AtFrame
  <2> QED BY <2>2, <2>3 DEF InFrames
<1>7. TakenOff(b, rest, w, f, s)
  <2> HIDE DEF b, f, s
  <2>1. w = b \o rest  BY DEF b
  <2> QED BY <1>1, <1>3, <1>6, <2>1, ChainDrop
<1>8. ASSUME ~over
      PROVE  \E g \in Tops : /\ Paired(rest, r.asked, g)
                             /\ b[1].part = "header" => g = y.header
                             /\ b[1].part = "frame" => Settles(y.header, b[1].m, g)
  <2>1. Paired(w, r.asked, y.header)  BY <1>8 DEF Ready
  <2>2. w = b \o rest  BY DEF b
  <2> DEFINE a == r.asked  h == y.header
  <2> HIDE DEF b, f, s, a, h
  <2>3. Paired(w, a, h)  BY <2>1 DEF a, h
  <2>4. PairedAfter(b, rest, a, h)  BY <1>1, <1>3, <1>6, <2>2, <2>3, PairedDrop
  <2>5. \E g \in Tops : /\ Paired(rest, a, g)
                        /\ b[1].part = "header" => g = h
                        /\ b[1].part = "frame" => Settles(h, b[1].m, g)
    BY <2>4 DEF PairedAfter
  <2> QED BY <2>5 DEF a, h
<1> QED BY <1>1, <1>2, <1>5, <1>6, <1>7, <1>8

LEMMA HeaderSettled ==
  ASSUME NEW y, NEW rest \in Seq(Unit), NEW over \in BOOLEAN, Ready(y, rest, over), y.r.buf # <<>>, y.r.bytes_remaining = 0,
         y.r.state \in {"HelloHeaderWait", "RecvHeaderWait"}
  PROVE  SettledAs(y, rest, over, Full(y))
<1> DEFINE r == y.r  w == r.buf \o rest  b == r.buf
           next == IF r.state = "HelloHeaderWait" THEN "HelloFrameWait" ELSE "RecvFrameWait"
           n == Size(b[1].m)  z == NextOf(y, next, n)
<1>1. y \in Reads /\ r.tcp = "open" /\ ~r.failed /\ Whole(y.published, over)  BY DEF Ready
<1>2. \A old \in BOOLEAN : ~Authenticating(r, w, old)  BY DEF Authenticating
<1>3. InFrames(r, w)  BY <1>2 DEF Ready, Shape
<1>4. /\ r \in Rlpx /\ b \in Seq(Unit) /\ r.ingress_mac \in Nat /\ r.sealed \in Nat
      /\ TakenOff(b, rest, w, r.ingress_mac + 1, r.sealed)
      /\ Len(b) = b[1].of /\ b[1].part = "header" /\ b[1].of = 2
      /\ ~over => Paired(rest, r.asked, y.header)
  BY <1>3, UnitsSettled
<1>5. /\ b[1] \in Unit /\ b[1].nth = r.ingress_mac + 1 /\ WellFormed(b[1])
      /\ Chain(rest, r.ingress_mac + 1 + 1, r.sealed)
      /\ rest # <<>> /\ rest[1].part = "frame" /\ rest[1].m = b[1].m /\ r.sealed > 0
  BY <1>4 DEF TakenOff
<1>6. header_decrypt(r)
  <2>1. IsWhole(b, "header")
    <3> HIDE DEF b, w
    <3> QED BY <1>4, WholeUnits
  <2>2. SubSeq(b, 1, 2) = b /\ Len(b) = 2
    <3> HIDE DEF b
    <3>1. SubSeq(b, 1, Len(b)) = b  BY <1>4
    <3> QED BY <1>4, <3>1
  <2>3. IsWhole(SubSeq(b, 1, 2), "header") /\ Len(b) >= 2 /\ b[1].nth = r.ingress_mac + 1
    <3> HIDE DEF b
    <3>1. Len(b) >= 2  BY <2>2
    <3> QED BY <1>5, <2>1, <2>2, <3>1
  <2> QED BY <2>3 DEF header_decrypt, HeaderSize
<1>7. Full(y) = z  BY <1>6 DEF Full, HeaderRead, NextOf
<1>8. next \in States /\ n \in Nat /\ n > 0  BY DEF States, Size
<1>9. /\ z \in Reads /\ z.r \in Rlpx /\ z.header = y.header /\ z.published = y.published
      /\ z.r.tcp = r.tcp /\ z.r.state = next /\ z.r.buf = <<>> /\ z.r.bytes_remaining = n
      /\ z.r.keyed = r.keyed /\ z.r.ingress_mac = r.ingress_mac + 1 /\ z.r.unread = r.unread
      /\ z.r.sealed = r.sealed /\ z.r.asked = r.asked /\ z.r.got = r.got /\ z.r.guessed = r.guessed
      /\ z.r.failed = r.failed
  <2> HIDE DEF next, n, z, r
  <2>1. z = NextOf(y, next, n) /\ r = y.r  BY DEF z, r
  <2> QED BY <1>1, <1>8, <2>1, NextFields
<1>10. next \in {"HelloFrameWait", "RecvFrameWait"}  OBVIOUS
<1>11. /\ r.keyed
       /\ r.state = "HelloHeaderWait" => r.ingress_mac = 0 /\ r.got = 0 /\ r.asked = <<>>
       /\ r.state = "RecvHeaderWait" => r.ingress_mac = 2 * (r.got + 1)
  BY <1>3 DEF InFrames
<1>12. next = "HelloFrameWait" <=> r.state = "HelloHeaderWait"  OBVIOUS
<1> HIDE DEF z, w, next
<1>13. z.r.buf \o rest = rest  BY <1>9
<1>14. AtFrame(z.r, rest)
  <2>1. Len(z.r.buf) = 0  BY <1>9, EmptySeqs
  <2> QED BY <1>5, <1>8, <1>9, <2>1 DEF AtFrame
<1> HIDE DEF n, b
<1>15. InFrames(z.r, rest)
  <2>1. Chain(rest, z.r.ingress_mac + 1, z.r.sealed) /\ z.r.sealed > 0  BY <1>5, <1>9
  <2>2. CASE r.state = "HelloHeaderWait"  BY <1>9, <1>11, <1>12, <1>14, <2>1, <2>2 DEF InFrames
  <2>3. CASE r.state = "RecvHeaderWait"  BY <1>9, <1>10, <1>11, <1>12, <1>14, <2>1, <2>3 DEF InFrames
  <2> QED BY <2>2, <2>3
<1>16. Sound(z.r, rest, z.header, over)  BY <1>1, <1>4, <1>8, <1>9, <1>13, <1>15 DEF Sound, Shape
<1>17. SettledAs(y, rest, over, z)  BY <1>1, <1>9, <1>10, <1>16 DEF SettledAs, r
<1> QED BY <1>7, <1>17

LEMMA AskedMore ==
  ASSUME NEW rest \in Seq(Unit), NEW asked \in Seq(ChainMessages), NEW g, Paired(rest, asked, g), NEW b \in Names
  PROVE  Paired(rest, asked \o <<Message("BlockHeaders", b), Message("BlockBodies", b)>>, g)
<1> DEFINE a == Message("BlockHeaders", b)  c == Message("BlockBodies", b)  k == Len(asked)  all == asked \o <<a, c>>
<1>1. PICK h : Turns(h, rest, asked, g)  BY DEF Paired
<1>2. /\ a.kind = "BlockHeaders" /\ a.block = b /\ c.kind = "BlockBodies" /\ c.block = b
      /\ a = Message("BlockHeaders", c.block) /\ a \in ChainMessages /\ c \in ChainMessages
  BY DEF Message, ChainMessages, Kinds
<1>3. k \in Nat  OBVIOUS
<1> HIDE DEF a, c
<1>4. /\ Len(all) = k + 2 /\ all[k + 1] = a /\ all[k + 2] = c
      /\ \A i \in 1 .. k : all[i] = asked[i]
  BY <1>2
<1>5. asked # <<>> => k > 0  OBVIOUS
<1>6. asked = <<>> => k = 0  OBVIOUS
<1> HIDE DEF all, k
<1>7. ASSUME NEW q, Answerable(asked, q)  PROVE Answerable(all, q)
  <2>1. \A i \in 1 .. k + 2 : all[i].kind \in {"BlockHeaders", "BlockBodies"}
    <3> SUFFICES ASSUME NEW i \in 1 .. k + 2 PROVE all[i].kind \in {"BlockHeaders", "BlockBodies"}  OBVIOUS
    <3>1. CASE i \in 1 .. k  BY <1>4, <1>7, <3>1 DEF Answerable, k
    <3>2. CASE i = k + 1  BY <1>2, <1>4, <3>2
    <3>3. CASE i = k + 2  BY <1>2, <1>4, <3>3
    <3> QED BY <1>3, <3>1, <3>2, <3>3
  <2>2. ASSUME all[1].kind = "BlockBodies"  PROVE q = Covered(all[1].block, 0)
    <3>1. CASE k = 0  BY <1>2, <1>4, <2>2, <3>1
    <3>2. CASE k > 0
      <4>1. 1 \in 1 .. k /\ asked # <<>>  BY <1>3, <1>6, <3>2
      <4> QED BY <1>4, <1>7, <2>2, <4>1 DEF Answerable
    <3> QED BY <1>3, <3>1, <3>2
  <2>3. ASSUME NEW i \in 2 .. k + 2, all[i].kind = "BlockBodies"
        PROVE  all[i - 1] = Message("BlockHeaders", all[i].block)
    <3>1. CASE i \in 2 .. k
      <4>1. i \in 1 .. k /\ i - 1 \in 1 .. k  BY <1>3, <3>1
      <4> QED BY <1>4, <1>7, <2>3, <3>1, <4>1 DEF Answerable, k
    <3>2. CASE i = k + 1  BY <1>2, <1>4, <2>3, <3>2
    <3>3. CASE i = k + 2
      <4>1. i - 1 = k + 1  BY <1>3, <3>3
      <4> QED BY <1>2, <1>4, <3>3, <4>1
    <3> QED BY <1>3, <3>1, <3>2, <3>3
  <2> QED BY <1>4, <2>1, <2>2, <2>3 DEF Answerable
<1>8. Turns(h, rest, all, g)  BY <1>1, <1>7 DEF Turns
<1> QED BY <1>8 DEF Paired, all, a, c

LEMMA PublishedMore ==
  ASSUME NEW y, NEW m, NEW z, NEW over, MessageTaken(y, m, z), Whole(y.published, over), ~over => Due(y.header, m)
  PROVE  Whole(z.published, over)
BY DEF MessageTaken, Whole

LEMMA FrameSettled ==
  ASSUME NEW y, NEW rest \in Seq(Unit), NEW over \in BOOLEAN, Ready(y, rest, over), y.r.buf # <<>>, y.r.bytes_remaining = 0,
         y.r.state \in {"HelloFrameWait", "RecvFrameWait"}
  PROVE  SettledAs(y, rest, over, Full(y))
<1> DEFINE r == y.r  w == r.buf \o rest  b == r.buf  u == b[1]  m == u.m  z == Full(y)
<1>1. y \in Reads /\ r.tcp = "open" /\ ~r.failed /\ Whole(y.published, over)  BY DEF Ready
<1>2. \A old \in BOOLEAN : ~Authenticating(r, w, old)  BY DEF Authenticating
<1>3. InFrames(r, w)  BY <1>2 DEF Ready, Shape
<1>4. /\ r \in Rlpx /\ b \in Seq(Unit) /\ r.ingress_mac \in Nat /\ r.sealed \in Nat
      /\ TakenOff(b, rest, w, r.ingress_mac + 1, r.sealed)
      /\ Len(b) = u.of /\ u.part = "frame"
      /\ ~over => \E g \in Tops : Paired(rest, r.asked, g) /\ Settles(y.header, m, g)
  BY <1>3, UnitsSettled
<1>5. /\ u \in Unit /\ u.nth = r.ingress_mac + 1 /\ WellFormed(u)
      /\ Chain(rest, r.ingress_mac + 1 + 1, r.sealed)
      /\ rest # <<>> => rest[1].part = "header"
      /\ r.sealed > 0
  BY <1>4 DEF TakenOff
<1>6. frame_decrypt(r)
  <2>1. IsWhole(b, "frame")
    <3> HIDE DEF b, w
    <3> QED BY <1>4, WholeUnits DEF u
  <2> QED BY <1>5, <2>1 DEF frame_decrypt
<1>7. m \in ChainMessages  BY <1>5 DEF Unit
<1>8. HeaderSize \in Nat /\ HeaderSize = 2 /\ "RecvHeaderWait" \in States  BY DEF HeaderSize, States
<1>9. /\ r.keyed
      /\ r.state = "HelloFrameWait" => r.ingress_mac = 1 /\ r.got = 0 /\ r.asked = <<>>
      /\ r.state = "RecvFrameWait" => r.ingress_mac = 2 * (r.got + 1) + 1
      /\ r.got \in Nat /\ r.asked \in Seq(ChainMessages) /\ y.header \in Tops
  BY <1>1, <1>3, <1>4 DEF InFrames, Rlpx, Reads
<1>10. CASE r.state = "HelloFrameWait"
  <2>1. z = NextOf(y, "RecvHeaderWait", HeaderSize)  BY <1>6, <1>10 DEF Full, HelloRead, NextOf
  <2> HIDE DEF z
  <2>2. /\ z \in Reads /\ z.r \in Rlpx /\ z.header = y.header /\ z.published = y.published
        /\ z.r.tcp = r.tcp /\ z.r.state = "RecvHeaderWait" /\ z.r.buf = <<>> /\ z.r.bytes_remaining = 2
        /\ z.r.keyed = r.keyed /\ z.r.ingress_mac = r.ingress_mac + 1 /\ z.r.unread = r.unread
        /\ z.r.sealed = r.sealed /\ z.r.asked = r.asked /\ z.r.got = r.got /\ z.r.guessed = r.guessed
        /\ z.r.failed = r.failed
    BY <1>1, <1>8, <2>1, NextFields
  <2>3. z.r.buf \o rest = rest /\ Len(z.r.buf) = 0  BY <2>2, EmptySeqs
  <2>4. InFrames(z.r, rest)
    <3>1. Chain(rest, z.r.ingress_mac + 1, z.r.sealed) /\ z.r.sealed > 0  BY <1>5, <2>2
    <3>2. z.r.ingress_mac = 2 * (z.r.got + 1)  BY <1>9, <1>10, <2>2
    <3>3. AtHeader(z.r, rest)  BY <1>5, <2>2, <2>3 DEF AtHeader, HeaderSize
    <3> QED BY <1>9, <2>2, <3>1, <3>2, <3>3 DEF InFrames
  <2>5. ~over => Paired(rest, z.r.asked, z.header)
    <3> SUFFICES ASSUME ~over PROVE Paired(rest, z.r.asked, z.header)  OBVIOUS
    <3>1. PICK g \in Tops : Paired(rest, r.asked, g) /\ Settles(y.header, m, g)  BY <1>4
    <3>2. m.kind = "hello"  BY <1>5, <1>9, <1>10 DEF WellFormed
    <3>3. g = y.header  BY <3>1, <3>2 DEF Settles
    <3> QED BY <2>2, <3>1, <3>3
  <2>6. Sound(z.r, rest, z.header, over)  BY <1>1, <2>2, <2>3, <2>4, <2>5 DEF Sound, Shape
  <2>7. SettledAs(y, rest, over, z)  BY <1>1, <2>2, <2>6 DEF SettledAs, r
  <2> QED BY <2>7 DEF z
<1>11. CASE r.state = "RecvFrameWait"
  <2>1. z = FrameRead(y, m)  BY <1>6, <1>11 DEF Full
  <2> HIDE DEF z
  <2>2. /\ z \in Reads /\ z.r \in Rlpx
        /\ z.r.tcp = r.tcp /\ z.r.state = "RecvHeaderWait" /\ z.r.buf = <<>> /\ z.r.bytes_remaining = 2
        /\ z.r.keyed = r.keyed /\ z.r.ingress_mac = r.ingress_mac + 1 /\ z.r.unread = r.unread
        /\ z.r.sealed = r.sealed /\ z.r.got = r.got + 1 /\ z.r.guessed = r.guessed /\ z.r.failed = r.failed
        /\ MessageTaken(y, m, z)
    BY <1>1, <1>7, <2>1, FrameReadFields
  <2>3. z.r.buf \o rest = rest /\ Len(z.r.buf) = 0  BY <2>2, EmptySeqs
  <2>4. InFrames(z.r, rest)
    <3>1. Chain(rest, z.r.ingress_mac + 1, z.r.sealed) /\ z.r.sealed > 0  BY <1>5, <2>2
    <3>2. z.r.ingress_mac = 2 * (z.r.got + 1)  BY <1>9, <1>11, <2>2
    <3>3. AtHeader(z.r, rest)  BY <1>5, <2>2, <2>3 DEF AtHeader, HeaderSize
    <3> QED BY <1>9, <2>2, <3>1, <3>2, <3>3 DEF InFrames
  <2>5. ~over => Due(y.header, m) /\ Paired(rest, z.r.asked, z.header)
    <3> SUFFICES ASSUME ~over PROVE Due(y.header, m) /\ Paired(rest, z.r.asked, z.header)  OBVIOUS
    <3>1. PICK g \in Tops : Paired(rest, r.asked, g) /\ Settles(y.header, m, g)  BY <1>4
    <3>2. Due(y.header, m)  BY <3>1 DEF Settles, Due
    <3>3. Settles(y.header, m, z.header)  BY <2>2, <3>2 DEF MessageTaken
    <3>4. z.header = g  BY <3>1, <3>3 DEF Settles
    <3>5. CASE z.r.asked = r.asked  BY <3>1, <3>2, <3>4, <3>5
    <3>6. CASE z.r.asked = r.asked \o <<Message("BlockHeaders", m.block), Message("BlockBodies", m.block)>>
      <4>1. m.block \in Names  BY <1>7 DEF ChainMessages
      <4> DEFINE a == r.asked  k == m.block
      <4>2. Paired(rest, a, g)  BY <3>1
      <4> HIDE DEF a, k
      <4>3. a \in Seq(ChainMessages) /\ k \in Names  BY <1>9, <4>1 DEF a, k
      <4>4. Paired(rest, a \o <<Message("BlockHeaders", k), Message("BlockBodies", k)>>, g)  BY <4>2, <4>3, AskedMore
      <4> QED BY <3>2, <3>4, <3>6, <4>4 DEF a, k
    <3> QED BY <2>2, <3>5, <3>6 DEF MessageTaken
  <2>6. Whole(z.published, over)  BY <1>1, <2>2, <2>5, PublishedMore
  <2>7. Sound(z.r, rest, z.header, over)  BY <1>1, <2>2, <2>3, <2>4, <2>5 DEF Sound, Shape
  <2>8. SettledAs(y, rest, over, z)  BY <1>1, <2>2, <2>6, <2>7 DEF SettledAs, r
  <2> QED BY <2>8 DEF z
<1> QED BY <1>10, <1>11

LEMMA FullSettled ==
  ASSUME NEW y, NEW rest \in Seq(Unit), NEW over \in BOOLEAN, Ready(y, rest, over), y.r.buf # <<>>, y.r.bytes_remaining = 0
  PROVE  SettledAs(y, rest, over, Full(y))
<1>1. y.r.state \in States /\ y.r.state # "Idle"  BY DEF Ready, Reads, Rlpx
<1> QED BY <1>1, LengthSettled, AuthSettled, HeaderSettled, FrameSettled DEF States

(* One unit more.                                                          *)
LEMMA TakeSettled ==
  ASSUME NEW x, NEW u \in Unit, NEW rest \in Seq(Unit), NEW over \in BOOLEAN, Ready(x, <<u>> \o rest, over),
         x.r.bytes_remaining > 0
  PROVE  SettledAs(x, rest, over, TakeUnit(x, u))
<1> DEFINE y == [x EXCEPT !.r.buf = Append(@, u), !.r.bytes_remaining = @ - 1]  r == x.r  b == r.buf
           n == r.bytes_remaining
<1>1. x \in Reads /\ r \in Rlpx /\ b \in Seq(Unit) /\ n \in Nat /\ ~r.failed /\ r.tcp = "open" /\ r.state # "Idle"
  BY DEF Ready, Reads, Rlpx
<1>2. /\ y \in Reads /\ y.r \in Rlpx /\ y.header = x.header /\ y.published = x.published /\ y.junk = x.junk
      /\ y.r.tcp = r.tcp /\ y.r.state = r.state /\ y.r.buf = Append(r.buf, u)
      /\ y.r.bytes_remaining = r.bytes_remaining - 1
      /\ y.r.keyed = r.keyed /\ y.r.ingress_mac = r.ingress_mac /\ y.r.unread = r.unread
      /\ y.r.sealed = r.sealed /\ y.r.asked = r.asked /\ y.r.got = r.got /\ y.r.guessed = r.guessed
      /\ y.r.failed = r.failed
  <2> DEFINE z == y
  <2> HIDE DEF z
  <2>1. z = TakenOf(x, u)  BY DEF z, TakenOf
  <2>2. x.r.bytes_remaining > 0  OBVIOUS
  <2>3. /\ z \in Reads /\ z.r \in Rlpx /\ z.header = x.header /\ z.published = x.published /\ z.junk = x.junk
        /\ z.r.tcp = r.tcp /\ z.r.state = r.state /\ z.r.buf = Append(r.buf, u)
        /\ z.r.bytes_remaining = r.bytes_remaining - 1
        /\ z.r.keyed = r.keyed /\ z.r.ingress_mac = r.ingress_mac /\ z.r.unread = r.unread
        /\ z.r.sealed = r.sealed /\ z.r.asked = r.asked /\ z.r.got = r.got /\ z.r.guessed = r.guessed
        /\ z.r.failed = r.failed
    <3> HIDE DEF r
    <3>1. r = x.r  BY DEF r
    <3> QED BY <1>1, <2>1, <2>2, <3>1, TakenFields, SMTT(30)
  <2> QED BY <2>3 DEF z
<1>3. TakeUnit(x, u) = IF y.r.bytes_remaining > 0 THEN y ELSE Full(y)  BY <1>1 DEF TakeUnit
<1> DEFINE w == b \o (<<u>> \o rest)
<1>4. /\ y.r.buf \o rest = w /\ y.r.buf \in Seq(Unit) /\ y.r.buf # <<>>
      /\ Len(y.r.buf) = Len(b) + 1 /\ Len(b) \in Nat /\ Len(y.r.buf) + y.r.bytes_remaining = Len(b) + n
  <2> HIDE DEF y, b, n
  <2>1. y.r.buf = Append(b, u) /\ y.r.bytes_remaining = n - 1  BY <1>2 DEF b, n
  <2>3. Len(Append(b, u)) = Len(b) + 1 /\ Append(b, u) # <<>> /\ Append(b, u) \in Seq(Unit)
    BY <1>1, AppendProperties
  <2>4. Append(b, u) = b \o <<u>> /\ <<u>> \in Seq(Unit)  BY <1>1
  <2>5. (b \o <<u>>) \o rest = b \o (<<u>> \o rest)  BY <1>1, <2>4, ConcatAssociative
  <2>2. Append(b, u) \o rest = w /\ Len(Append(b, u)) = Len(b) + 1 /\ Append(b, u) # <<>> /\ Append(b, u) \in Seq(Unit)
    BY <2>3, <2>4, <2>5
  <2> QED BY <1>1, <2>1, <2>2
<1> HIDE DEF y, w
<1>5. Shape(r, w) => Shape(y.r, w)
  <2>1. ASSUME NEW old \in BOOLEAN, Authenticating(r, w, old)  PROVE Authenticating(y.r, w, old)
    BY <1>1, <1>2, <1>4, <2>1 DEF Authenticating
  <2>2. InFrames(r, w) => InFrames(y.r, w)
    <3>1. (AtHeader(r, w) => AtHeader(y.r, w)) /\ (AtFrame(r, w) => AtFrame(y.r, w))
      BY <1>4 DEF AtHeader, AtFrame
    <3> QED BY <1>2, <3>1 DEF InFrames
  <2> QED BY <2>1, <2>2 DEF Shape
<1>6. Ready(y, rest, over)
  <2>1. /\ x.r.tcp = "open" /\ Shape(r, w) /\ (~over => Paired(w, r.asked, x.header))
        /\ r.state = "LengthWait" => x.junk > 0 \/ w[1].part = "auth"
        /\ Whole(x.published, over)
    BY DEF Ready, w
  <2> QED BY <1>1, <1>2, <1>4, <1>5, <2>1 DEF Ready
<1>7. CASE y.r.bytes_remaining > 0
  <2>1. y.r.state # "LengthWait"
    <3> SUFFICES ASSUME r.state = "LengthWait" PROVE FALSE  BY <1>2
    <3>1. PICK old \in BOOLEAN : Authenticating(y.r, w, old)  BY <1>2, <1>4, <1>6 DEF Ready, Shape, InFrames
    <3>2. Len(y.r.buf) + y.r.bytes_remaining = 1  BY <1>2, <3>1 DEF Authenticating
    <3> QED BY <1>1, <1>2, <1>4, <1>7, <3>2
  <2>2. Sound(y.r, rest, y.header, over)  BY <1>1, <1>2, <1>6, <1>7 DEF Sound, Ready
  <2>3. SettledAs(x, rest, over, y)  BY <1>1, <1>2, <1>6, <2>1, <2>2 DEF SettledAs, Ready
  <2> QED BY <1>3, <1>7, <2>3
<1>8. CASE ~(y.r.bytes_remaining > 0)
  <2>1. y.r.bytes_remaining = 0  BY <1>1, <1>2, <1>8
  <2>2. SettledAs(y, rest, over, Full(y))  BY <1>4, <1>6, <2>1, FullSettled
  <2>3. SettledAs(x, rest, over, Full(y))  BY <1>2, <2>2 DEF SettledAs
  <2> QED BY <1>3, <1>8, <2>3
<1> QED BY <1>7, <1>8

-----------------------------------------------------------------------------
(* A chunk                                                                 *)

(* The recursion of did_recv_rlpx has a solution.                          *)
Takes(e, n, first, s) == e = [j \in 0 .. n |-> IF j = 0 THEN first ELSE TakeUnit(e[j - 1], s[j])]

LEMMA TakenExists ==
  ASSUME NEW n \in Nat, NEW first, NEW s
  PROVE  \E e : Takes(e, n, first, s)
<1> DEFINE P(m) == \E e : e = [j \in 0 .. m |-> IF j = 0 THEN first ELSE TakeUnit(e[j - 1], s[j])]
           good == {m \in 0 .. n : P(m)}
<1>1. P(0)
  <2> DEFINE e == [j \in 0 .. 0 |-> first]
  <2>1. e = [j \in 0 .. 0 |-> IF j = 0 THEN first ELSE TakeUnit(e[j - 1], s[j])]  OBVIOUS
  <2> QED BY <2>1
<1>2. ASSUME NEW m \in 1 .. n, P(m - 1)  PROVE P(m)
  <2>1. PICK e : e = [j \in 0 .. m - 1 |-> IF j = 0 THEN first ELSE TakeUnit(e[j - 1], s[j])]  BY <1>2
  <2> DEFINE g == [j \in 0 .. m |-> IF j = m THEN TakeUnit(e[m - 1], s[m]) ELSE e[j]]
  <2>2. ASSUME NEW j \in 0 .. m  PROVE g[j] = (IF j = 0 THEN first ELSE TakeUnit(g[j - 1], s[j]))
    <3>1. CASE j = m  BY <3>1
    <3>2. CASE j # m
      <4>1. j \in 0 .. m - 1 /\ g[j] = e[j]  BY <3>2
      <4>2. e[j] = (IF j = 0 THEN first ELSE TakeUnit(e[j - 1], s[j]))  BY <2>1, <4>1
      <4>3. j # 0 => g[j - 1] = e[j - 1]  BY <4>1
      <4> QED BY <4>1, <4>2, <4>3
    <3> QED BY <3>1, <3>2
  <2>3. g = [j \in 0 .. m |-> IF j = 0 THEN first ELSE TakeUnit(g[j - 1], s[j])]  BY <2>2
  <2> QED BY <2>3
<1> HIDE DEF P
<1>3. 0 \in good /\ \A m \in 1 .. n : m - 1 \in good => m \in good  BY <1>1, <1>2
<1> HIDE DEF good
<1>4. n \in good  BY <1>3, UpTo
<1> QED BY <1>4 DEF good, P, Takes

(* After n units of the chunk, the first of what was unread.               *)
Reached(x, unread, n, over) ==
  LET rest == SubSeq(unread, n + 1, Len(unread))
  IN /\ x \in Reads /\ Sound(x.r, rest, x.header, over) /\ Whole(x.published, over)
     /\ x.r.unread = unread /\ x.r.state # "Idle" /\ (x.r.state = "LengthWait" => n = 0)
     /\ n = 0 /\ x.r.state = "LengthWait" => x.junk > 0 \/ (x.r.buf \o rest)[1].part = "auth"
     /\ x.r.tcp = (IF x.r.failed THEN "closing" ELSE "open") /\ (x.r.failed => x.r.state # "LengthWait")

LEMMA ReachedNext ==
  ASSUME NEW x, NEW unread \in Seq(Unit), NEW over \in BOOLEAN, NEW n \in Nat, n < Len(unread), Reached(x, unread, n, over)
  PROVE  Reached(TakeUnit(x, unread[n + 1]), unread, n + 1, over)
<1> DEFINE u == unread[n + 1]  before == SubSeq(unread, n + 1, Len(unread))  rest == SubSeq(unread, n + 1 + 1, Len(unread))
           z == TakeUnit(x, u)
<1>1. /\ x \in Reads /\ Sound(x.r, before, x.header, over) /\ Whole(x.published, over)
      /\ x.r.unread = unread /\ x.r.state # "Idle" /\ (x.r.state = "LengthWait" => n = 0)
      /\ n = 0 /\ x.r.state = "LengthWait" => x.junk > 0 \/ (x.r.buf \o before)[1].part = "auth"
      /\ x.r.tcp = (IF x.r.failed THEN "closing" ELSE "open") /\ (x.r.failed => x.r.state # "LengthWait")
  BY DEF Reached
<1>2. n + 1 \in 1 .. Len(unread) /\ Len(unread) \in n + 1 .. Len(unread) /\ u \in Unit  OBVIOUS
<1>3. before = <<u>> \o rest  BY <1>2, SubSeqRecursiveFirst
<1>4. rest \in Seq(Unit)
  <2>1. \A i \in n + 1 + 1 .. Len(unread) : unread[i] \in Unit  OBVIOUS
  <2> QED BY <2>1, SubSeqProperties
<1> HIDE DEF u, before, rest
<1>5. CASE x.r.failed
  <2>1. z = [x EXCEPT !.crashed = TRUE]  BY <1>5 DEF TakeUnit
  <2>2. z \in Reads /\ z.r = x.r /\ z.header = x.header /\ z.published = x.published  BY <1>1, <2>1 DEF Reads
  <2> HIDE DEF z
  <2>3. Sound(z.r, rest, z.header, over)  BY <1>1, <1>5, <2>2 DEF Sound
  <2>4. z.r.state # "LengthWait"  BY <1>1, <1>5, <2>2
  <2>5. n + 1 # 0  OBVIOUS
  <2>6. Reached(z, unread, n + 1, over)  BY <1>1, <2>2, <2>3, <2>4, <2>5 DEF Reached, rest
  <2> QED BY <2>6 DEF z, u
<1>6. CASE ~x.r.failed
  <2>1. x.r.tcp = "open" /\ x.r.bytes_remaining > 0  BY <1>1, <1>6 DEF Sound
  <2>2. Ready(x, before, over)  BY <1>1, <1>6, <2>1 DEF Ready, Sound
  <2>3. SettledAs(x, rest, over, z)
    <3>1. Ready(x, <<u>> \o rest, over)  BY <1>3, <2>2
    <3> QED BY <1>2, <1>4, <2>1, <3>1, TakeSettled
  <2> HIDE DEF z
  <2>4. n + 1 # 0  OBVIOUS
  <2>5. Reached(z, unread, n + 1, over)  BY <1>1, <2>3, <2>4 DEF Reached, SettledAs, rest
  <2> QED BY <2>5 DEF z, u
<1> QED BY <1>5, <1>6

LEMMA IdleFields ==
  ASSUME NEW x \in Reads, NEW size, NEW z, z = Idle(x, size), NEW r, r = x.r, r.state = "Idle"
  PROVE  /\ z \in Reads /\ z.r \in Rlpx /\ z.header = x.header /\ z.published = x.published /\ z.junk = x.junk
         /\ z.r.state = (IF size = OldSize THEN "AuthWait" ELSE "LengthWait")
         /\ z.r.bytes_remaining = (IF size = OldSize THEN OldSize ELSE 1)
         /\ z.r.guessed = ((size = OldSize) # (r.unread[1].part = "old"))
         /\ z.r.tcp = r.tcp /\ z.r.buf = r.buf /\ z.r.keyed = r.keyed /\ z.r.ingress_mac = r.ingress_mac
         /\ z.r.unread = r.unread /\ z.r.sealed = r.sealed /\ z.r.asked = r.asked /\ z.r.got = r.got
         /\ z.r.failed = r.failed
<1> DEFINE state == IF size = OldSize THEN "AuthWait" ELSE "LengthWait"
           n == IF size = OldSize THEN OldSize ELSE 1
           g == (size = OldSize) # (r.unread[1].part = "old")
           q == [r EXCEPT !.state = state, !.bytes_remaining = n, !.guessed = g]
<1>1. r \in Rlpx  BY DEF Reads
<1>2. state \in States /\ n \in Nat /\ g \in BOOLEAN
  <2>1. state \in States  BY DEF States
  <2>2. n \in Nat  BY SizesNat
  <2>3. g \in BOOLEAN  OBVIOUS
  <2> QED BY <2>1, <2>2, <2>3
<1>3. z = [x EXCEPT !.r = q]
  <2>1. Idle(x, size) = [x EXCEPT !.r.state = state, !.r.bytes_remaining = n, !.r.guessed = g]  BY DEF Idle
  <2> HIDE DEF state, n, g
  <2> QED BY <1>1, <1>2, <2>1 DEF Reads, Rlpx
<1> HIDE DEF state, n, g, q
<1>4. q = [r EXCEPT !.state = state, !.bytes_remaining = n, !.guessed = g]  BY DEF q
<1>5. /\ q \in Rlpx /\ q.state = state /\ q.bytes_remaining = n /\ q.guessed = g
      /\ q.tcp = r.tcp /\ q.buf = r.buf /\ q.keyed = r.keyed /\ q.ingress_mac = r.ingress_mac
      /\ q.unread = r.unread /\ q.sealed = r.sealed /\ q.asked = r.asked /\ q.got = r.got /\ q.failed = r.failed
  BY <1>1, <1>2, <1>4 DEF Rlpx
<1>6. z \in Reads /\ z.r = q /\ z.header = x.header /\ z.published = x.published /\ z.junk = x.junk
  BY <1>3, <1>5 DEF Reads
<1> QED BY <1>5, <1>6 DEF state, n, g

LEMMA ReachedFirst ==
  ASSUME OnrampInv, NEW t \in ChainNodes, rlpx[t].tcp = "open", NEW junk \in Decoded(t), NEW size \in 1 .. Len(rlpx[t].unread)
  PROVE  Reached(Idle(RlpxRead(rlpx[t], junk), size), rlpx[t].unread, 0, overlapped)
<1> DEFINE r == rlpx[t]  U == r.unread  x == RlpxRead(r, junk)  z == Idle(x, size)
<1>1. /\ r \in Rlpx /\ U \in Seq(Unit) /\ Len(U) > 0 /\ r.buf \in Seq(Unit) /\ r.tcp = "open"
      /\ Sound(r, U, header, overlapped) /\ r.state # "LengthWait"
      /\ Whole(published, overlapped)
  BY DEF OnrampInv, OnrampTypeOK, Rlpx
<1>2. junk \in Nat /\ (r.state = "Idle" => junk > 0 \/ U[1].part = "auth")
  <2>1. U # <<>> /\ Head(U) = U[1]  BY <1>1
  <2>2. junk \in (IF r.state = "Idle" /\ Head(U).part # "auth" THEN Junk ELSE {0})  BY DEF Decoded
  <2> HIDE DEF r, U
  <2>3. CASE r.state = "Idle" /\ U[1].part # "auth"
    <3>1. junk \in Junk  BY <2>1, <2>2, <2>3
    <3> QED BY <3>1, SizesNat
  <2>4. CASE ~(r.state = "Idle" /\ U[1].part # "auth")
    <3>1. junk = 0  BY <2>1, <2>2, <2>4
    <3> QED BY <2>4, <3>1
  <2> QED BY <2>3, <2>4
<1>3. x \in Reads /\ x.r = r /\ x.header = header /\ x.published = published /\ x.junk = junk
  <2>1. header \in Tops /\ published \in SUBSET Publications  BY DEF OnrampInv, OnrampTypeOK
  <2> HIDE DEF r
  <2>2. x = [r |-> r, header |-> header, published |-> published, crashed |-> FALSE, junk |-> junk]  BY DEF RlpxRead
  <2> QED BY <1>1, <1>2, <2>1, <2>2 DEF Reads
<1>4. SubSeq(U, 0 + 1, Len(U)) = U  BY <1>1
<1>5. ~r.failed  BY <1>1 DEF Sound
<1> HIDE DEF U, x
<1>6. CASE r.state # "Idle"
  <2>1. z = x  BY <1>3, <1>6 DEF Idle
  <2> HIDE DEF z
  <2>2. Reached(z, U, 0, overlapped)
    <3> HIDE DEF r
    <3> QED BY <1>1, <1>3, <1>4, <1>5, <1>6, <2>1 DEF Reached, U
  <2> QED BY <2>2 DEF z, x, U
<1>7. CASE r.state = "Idle"
  <2> DEFINE w == r.buf \o U
  <2>1. /\ z \in Reads /\ z.r \in Rlpx /\ z.header = x.header /\ z.published = x.published /\ z.junk = x.junk
        /\ z.r.state = (IF size = OldSize THEN "AuthWait" ELSE "LengthWait")
        /\ z.r.bytes_remaining = (IF size = OldSize THEN OldSize ELSE 1)
        /\ z.r.guessed = ((size = OldSize) # (r.unread[1].part = "old"))
        /\ z.r.tcp = r.tcp /\ z.r.buf = r.buf /\ z.r.keyed = r.keyed /\ z.r.ingress_mac = r.ingress_mac
        /\ z.r.unread = r.unread /\ z.r.sealed = r.sealed /\ z.r.asked = r.asked /\ z.r.got = r.got
        /\ z.r.failed = r.failed
    <3> HIDE DEF z, r
    <3>1. z = Idle(x, size) /\ r = x.r  BY <1>3 DEF z
    <3> QED BY <1>3, <1>7, <3>1, IdleFields
  <2>2. PICK old \in BOOLEAN : Authenticating(r, w, old)  BY <1>1, <1>7 DEF Sound, Shape, InFrames
  <2>3. /\ ~r.keyed /\ r.sealed = 0 /\ r.asked = <<>> /\ r.ingress_mac = 0 /\ r.got = 0 /\ w = Auth(old)
        /\ r.buf = <<>> /\ Len(r.buf) = 0
    BY <1>7, <2>2 DEF Authenticating
  <2>4. w = U  BY <1>1, <2>3
  <2>5. (U[1].part = "old") = old
    <3>1. CASE old = TRUE
      <4>1. U[1] = AuthUnit("old", 1, OldSize)  BY <2>3, <2>4, <3>1, AuthUnits, SizesNat
      <4>2. U[1].part = "old"  BY <4>1 DEF AuthUnit
      <4> QED BY <3>1, <4>2
    <3>2. CASE old = FALSE
      <4>1. U[1] = AuthUnit("auth", 1, AuthSize)  BY <2>3, <2>4, <3>2, AuthUnits, SizesNat
      <4>2. U[1].part = "auth"  BY <4>1 DEF AuthUnit
      <4> QED BY <3>2, <4>2
    <3> QED BY <3>1, <3>2
  <2>6. z.r.guessed = ((size = OldSize) # old)  BY <2>1, <2>5 DEF U
  <2>7. ~overlapped => Paired(w, r.asked, header)  BY <1>1 DEF Sound
  <2> HIDE DEF z, r, w
  <2>8. Authenticating(z.r, w, old) /\ z.r.bytes_remaining > 0
    <3>1. CASE size = OldSize /\ old = TRUE
      <4>1. z.r.state = "AuthWait" /\ z.r.bytes_remaining = OldSize /\ ~z.r.guessed  BY <2>1, <2>6, <3>1
      <4> QED BY <2>1, <2>3, <3>1, <4>1, SizesNat DEF Authenticating
    <3>2. CASE size = OldSize /\ old = FALSE
      <4>1. z.r.state = "AuthWait" /\ z.r.bytes_remaining = OldSize /\ z.r.guessed  BY <2>1, <2>6, <3>2
      <4> QED BY <2>1, <2>3, <3>2, <4>1, SizesNat DEF Authenticating
    <3>3. CASE size # OldSize
      <4>1. z.r.state = "LengthWait" /\ z.r.bytes_remaining = 1 /\ z.r.guessed = old  BY <2>1, <2>6, <3>3
      <4> QED BY <2>1, <2>3, <4>1 DEF Authenticating
    <3> QED BY <3>1, <3>2, <3>3
  <2>9. z.r.buf \o U = w  BY <2>1 DEF w
  <2>10. Sound(z.r, U, z.header, overlapped)
    <3>1. Shape(z.r, z.r.buf \o U)  BY <2>8, <2>9 DEF Shape
    <3>2. ~overlapped => Paired(z.r.buf \o U, z.r.asked, z.header)  BY <1>3, <2>1, <2>7, <2>9
    <3> QED BY <1>1, <1>5, <2>1, <2>8, <3>1, <3>2 DEF Sound
  <2>11. z.r.state # "Idle" /\ (z.junk > 0 \/ (z.r.buf \o U)[1].part = "auth")  BY <1>2, <1>3, <1>7, <2>1, <2>4, <2>9
  <2>12. Reached(z, U, 0, overlapped)
    BY <1>1, <1>3, <1>4, <1>5, <2>1, <2>10, <2>11 DEF Reached, U
  <2> QED BY <2>12 DEF z, x, U, r
<1> QED BY <1>6, <1>7

(* Reading a chunk of the unread bytes: the effect, before the rest is     *)
(* put back.                                                               *)
LEMMA ReachedAll ==
  ASSUME OnrampInv, NEW t \in ChainNodes, rlpx[t].tcp = "open", NEW junk \in Decoded(t), NEW size \in 1 .. Len(rlpx[t].unread),
         did_recv_rlpx(t, size, junk)
  PROVE  \E x \in Reads :
           /\ Reached(x, rlpx[t].unread, size, overlapped)
           /\ rlpx' = [rlpx EXCEPT ![t] = [x.r EXCEPT !.unread = SubSeq(rlpx[t].unread, size + 1, Len(rlpx[t].unread))]]
           /\ header' = x.header /\ published' = x.published /\ crashed' = x.crashed
           /\ UNCHANGED <<rlpxt, is_connected, checking, written, overlapped>>
<1> DEFINE r == rlpx[t]  U == r.unread  first == Idle(RlpxRead(r, junk), size)
           taken == CHOOSE e : e = [j \in 0 .. size |-> IF j = 0 THEN first ELSE TakeUnit(e[j - 1], U[j])]
           x == taken[size]  rest == SubSeq(U, size + 1, Len(U))
<1>1. size \in Nat /\ Len(U) \in Nat /\ U \in Seq(Unit) /\ overlapped \in BOOLEAN  BY DEF OnrampInv, OnrampTypeOK, Rlpx
<1>2. /\ rlpx' = [rlpx EXCEPT ![t] = [x.r EXCEPT !.unread = SubSeq(@, size + 1, Len(@))]]
      /\ header' = x.header /\ published' = x.published /\ crashed' = x.crashed
      /\ UNCHANGED <<rlpxt, is_connected, checking, written, overlapped>>
  BY DEF did_recv_rlpx
<1>3. Reached(first, U, 0, overlapped)  BY ReachedFirst
<1> HIDE DEF first, U
<1>4. taken = [j \in 0 .. size |-> IF j = 0 THEN first ELSE TakeUnit(taken[j - 1], U[j])]
  <2>1. \E e : Takes(e, size, first, U)  BY <1>1, TakenExists
  <2> QED BY <2>1 DEF Takes
<1> HIDE DEF taken
<1>5. taken[0] = first /\ \A j \in 1 .. size : taken[j] = TakeUnit(taken[j - 1], U[j])
  <2>1. 0 \in 0 .. size /\ \A j \in 1 .. size : j \in 0 .. size /\ j # 0  BY <1>1
  <2> QED BY <1>4, <2>1
<1>6. \A j \in 0 .. size : Reached(taken[j], U, j, overlapped)
  <2> DEFINE good == {j \in 0 .. size : Reached(taken[j], U, j, overlapped)}
  <2>1. 0 \in good  BY <1>1, <1>3, <1>5
  <2>2. ASSUME NEW j \in 1 .. size, j - 1 \in good  PROVE j \in good
    <3> DEFINE i == j - 1
    <3>1. i \in Nat /\ i < Len(U) /\ i + 1 = j /\ Reached(taken[i], U, i, overlapped)  BY <1>1, <2>2 DEF U, r
    <3> HIDE DEF i
    <3>2. Reached(TakeUnit(taken[i], U[i + 1]), U, i + 1, overlapped)  BY <1>1, <3>1, ReachedNext
    <3> QED BY <1>5, <3>1, <3>2
  <2> HIDE DEF good
  <2>3. 0 .. size \subseteq good  BY <1>1, <2>1, <2>2, UpTo
  <2> QED BY <2>3 DEF good
<1>7. Reached(x, U, size, overlapped)  BY <1>1, <1>6
<1> HIDE DEF x
<1>8. x \in Reads /\ x.r.unread = U  BY <1>7 DEF Reached
<1>9. [x.r EXCEPT !.unread = SubSeq(@, size + 1, Len(@))] = [x.r EXCEPT !.unread = rest]  BY <1>8
<1> QED BY <1>2, <1>7, <1>8, <1>9 DEF U

-----------------------------------------------------------------------------
(* A step of one connection                                                *)

LEMMA SoundSame ==
  ASSUME NEW r \in Rlpx, NEW q \in Rlpx, NEW rest, NEW g, NEW over, Sound(r, rest, g, over),
         q.tcp = r.tcp, q.failed = r.failed, q.guessed = r.guessed, q.state = r.state, q.buf = r.buf,
         q.bytes_remaining = r.bytes_remaining, q.asked = r.asked, q.keyed = r.keyed, q.sealed = r.sealed,
         q.ingress_mac = r.ingress_mac, q.got = r.got
  PROVE  Sound(q, rest, g, over)
<1> DEFINE w == r.buf \o rest
<1>1. q.buf \o rest = w  OBVIOUS
<1> HIDE DEF w
<1>2. \A old \in BOOLEAN : Authenticating(r, w, old) => Authenticating(q, w, old)  BY DEF Authenticating
<1>3. InFrames(r, w) => InFrames(q, w)  BY DEF InFrames, AtHeader, AtFrame
<1>4. Shape(r, w) => Shape(q, w)  BY <1>2, <1>3 DEF Shape
<1>5. /\ r.tcp = "open" =>
           /\ ~r.failed /\ Shape(r, w) /\ (r.state # "Idle" => r.bytes_remaining > 0)
           /\ ~over => Paired(w, r.asked, g)
      /\ r.failed => r.guessed /\ r.tcp # "open"
  BY DEF Sound, w
<1> QED BY <1>1, <1>4, <1>5 DEF Sound

LEMMA OneChanged ==
  ASSUME OnrampInv, NEW t \in ChainNodes, NEW q \in Rlpx, rlpx' = [rlpx EXCEPT ![t] = q],
         Sound(q, q.unread, header', overlapped'), q.state # "LengthWait",
         rlpxt' \in 0 .. MaxNodes, header' \in Tops, is_connected' \in BOOLEAN, checking' \in Nat, written' \in Nat,
         published' \in SUBSET Publications, overlapped' \in BOOLEAN, crashed' \in BOOLEAN,
         overlapped => overlapped', header' = header \/ rlpx[t].tcp = "open",
         Whole(published', overlapped'),
         rlpxt' # 0 => rlpx'[rlpxt'].tcp \in {"open", "closing", "broken"},
         ~overlapped' => \A s \in ChainNodes : rlpx'[s].tcp \in {"open", "closing"} => s = rlpxt'
  PROVE  OnrampInv'
<1>1. rlpx \in [ChainNodes -> Rlpx]  BY DEF OnrampInv, OnrampTypeOK
<1>2. rlpx' \in [ChainNodes -> Rlpx] /\ rlpx'[t] = q /\ \A s \in ChainNodes \ {t} : rlpx'[s] = rlpx[s]  BY <1>1
<1>3. OnrampTypeOK'
  <2>1. (0 .. MaxNodes)' = 0 .. MaxNodes /\ ChainNodes' = ChainNodes  OBVIOUS
  <2> QED BY <1>2 DEF OnrampTypeOK
<1>4. ASSUME NEW s \in ChainNodes  PROVE Sound(rlpx'[s], rlpx'[s].unread, header', overlapped') /\ rlpx'[s].state # "LengthWait"
  <2>1. CASE s = t  BY <1>2, <2>1
  <2>2. CASE s # t
    <3> DEFINE r == rlpx[s]
    <3>1. rlpx'[s] = r  BY <1>2, <2>2
    <3>2. Sound(r, r.unread, header, overlapped) /\ r.state # "LengthWait"  BY DEF OnrampInv
    <3>3. ~overlapped' /\ r.tcp = "open" => header' = header
      <4> SUFFICES ASSUME ~overlapped', r.tcp = "open", rlpx[t].tcp = "open"  PROVE FALSE  OBVIOUS
      <4>1. s \in Present /\ t \in Present  BY DEF Present
      <4> QED BY <2>2, <4>1 DEF OnrampInv
    <3> HIDE DEF r
    <3>4. Sound(r, r.unread, header', overlapped')  BY <3>2, <3>3 DEF Sound
    <3> QED BY <3>1, <3>2, <3>4
  <2> QED BY <2>1, <2>2
<1>5. ~overlapped' => \A s \in Present' : s = rlpxt'  BY DEF Present
<1> QED BY <1>3, <1>4, <1>5 DEF OnrampInv

(* A connection that was open stays, closes or breaks.                     *)
LEMMA OpenChanged ==
  ASSUME OnrampInv, NEW t \in ChainNodes, NEW q \in Rlpx, rlpx' = [rlpx EXCEPT ![t] = q], rlpx[t].tcp = "open",
         q.tcp \in {"open", "closing", "broken"}, Sound(q, q.unread, header', overlapped), q.state # "LengthWait",
         header' \in Tops, is_connected' \in BOOLEAN, checking' \in Nat, written' \in Nat,
         published' \in SUBSET Publications, crashed' \in BOOLEAN,
         Whole(published', overlapped), UNCHANGED <<rlpxt, overlapped>>
  PROVE  OnrampInv'
<1>1. /\ rlpx \in [ChainNodes -> Rlpx] /\ rlpxt \in 0 .. MaxNodes /\ overlapped \in BOOLEAN
      /\ rlpxt # 0 => rlpx[rlpxt].tcp \in {"open", "closing", "broken"}
      /\ ~overlapped => \A s \in Present : s = rlpxt
  BY DEF OnrampInv, OnrampTypeOK
<1>2. rlpx'[t] = q /\ \A s \in ChainNodes \ {t} : rlpx'[s] = rlpx[s]  BY <1>1
<1>3. rlpxt' # 0 => rlpx'[rlpxt'].tcp \in {"open", "closing", "broken"}
  <2>1. rlpxt # 0 => rlpxt \in ChainNodes  BY <1>1, SizesNat DEF ChainNodes
  <2> QED BY <1>1, <1>2, <2>1
<1>4. ~overlapped' => \A s \in ChainNodes : rlpx'[s].tcp \in {"open", "closing"} => s = rlpxt'
  <2> SUFFICES ASSUME ~overlapped, NEW s \in ChainNodes, rlpx'[s].tcp \in {"open", "closing"}  PROVE s = rlpxt  OBVIOUS
  <2>1. rlpx[s].tcp \in {"open", "closing"}  BY <1>2
  <2> QED BY <1>1, <2>1 DEF Present
<1>5. rlpxt' \in 0 .. MaxNodes /\ overlapped' \in BOOLEAN /\ (overlapped => overlapped')  BY <1>1
<1>6. Sound(q, q.unread, header', overlapped') /\ Whole(published', overlapped')  OBVIOUS
<1> QED BY <1>3, <1>4, <1>5, <1>6, OneChanged

-----------------------------------------------------------------------------
(* What the node writes                                                    *)

SealedUnit(nth, m, i) ==
  IF i <= 2 THEN [part |-> "header", nth |-> 2 * nth + 1, n |-> i, of |-> HeaderSize, m |-> m]
            ELSE [part |-> "frame", nth |-> 2 * nth + 2, n |-> i - 2, of |-> Size(m), m |-> m]

(* Its header and its frame.                                               *)
IsSealed(s, nth, m) ==
  /\ s \in Seq(Unit) /\ Size(m) \in 1 .. 2 /\ Len(s) = 2 + Size(m)
  /\ \A i \in 1 .. 2 + Size(m) : s[i] = SealedUnit(nth, m, i)

LEMMA SealedUnits ==
  ASSUME NEW nth \in Nat, NEW m \in ChainMessages
  PROVE  IsSealed(Sealed(nth, m), nth, m)
<1> DEFINE k == Size(m)
           a == Units("header", 2 * nth + 1, HeaderSize, m)  b == Units("frame", 2 * nth + 2, Size(m), m)
           U(i) == SealedUnit(nth, m, i)
<1>1. k \in 1 .. 2 /\ HeaderSize = 2  BY DEF Size, HeaderSize
<1>2. \A i \in 1 .. 2 + k : U(i) \in Unit
  <2>1. \A i \in 1 .. 2 : U(i) \in Unit  BY <1>1 DEF SealedUnit, Unit
  <2>2. \A i \in 3 .. 2 + k : U(i) \in Unit  BY <1>1 DEF SealedUnit, Unit
  <2>3. \A i \in 1 .. 2 + k : i \in 1 .. 2 \/ i \in 3 .. 2 + k  BY <1>1
  <2> QED BY <2>1, <2>2, <2>3
<1>3. a = [i \in 1 .. 2 |-> U(i)]  BY <1>1 DEF Units, SealedUnit
<1>4. b = [i \in 1 .. k |-> U(2 + i)]
  <2>1. \A i \in 1 .. k : U(2 + i) = [part |-> "frame", nth |-> 2 * nth + 2, n |-> i, of |-> Size(m), m |-> m]
    BY <1>1 DEF SealedUnit
  <2>2. b = [i \in 1 .. k |-> [part |-> "frame", nth |-> 2 * nth + 2, n |-> i, of |-> Size(m), m |-> m]]  BY DEF Units
  <2> HIDE DEF U, b
  <2> QED BY <2>1, <2>2
<1>5. Sealed(nth, m) = a \o b  BY DEF Sealed
<1> HIDE DEF k, a, b, U
<1>6. a \in Seq(Unit) /\ Len(a) = 2 /\ \A i \in 1 .. 2 : a[i] = U(i)
  <2>1. \A i \in 1 .. 2 : i \in 1 .. 2 + k  BY <1>1
  <2>2. a \in [1 .. 2 -> Unit]  BY <1>2, <1>3, <2>1
  <2> QED BY <1>3, <2>2
<1>7. b \in Seq(Unit) /\ Len(b) = k /\ \A i \in 1 .. k : b[i] = U(2 + i)
  <2>1. \A i \in 1 .. k : 2 + i \in 1 .. 2 + k  BY <1>1
  <2>2. b \in [1 .. k -> Unit] /\ k \in Nat  BY <1>1, <1>2, <1>4, <2>1
  <2> QED BY <1>4, <2>2
<1> DEFINE c == a \o b
<1>8. /\ c \in Seq(Unit) /\ Len(c) = 2 + k
      /\ \A i \in 1 .. 2 : c[i] = a[i]
      /\ \A i \in 1 .. k : c[2 + i] = b[i]
  <2>1. /\ c \in Seq(Unit) /\ Len(c) = Len(a) + Len(b)
        /\ \A i \in 1 .. Len(a) : c[i] = a[i]
        /\ \A i \in 1 .. Len(b) : c[Len(a) + i] = b[i]
    <3> HIDE DEF c
    <3>1. c = a \o b /\ a \in Seq(Unit) /\ b \in Seq(Unit)  BY <1>6, <1>7 DEF c
    <3> QED BY <3>1, Joins
  <2> QED BY <1>6, <1>7, <2>1
<1> HIDE DEF c
<1>9. ASSUME NEW i \in 1 .. 2 + k  PROVE c[i] = U(i)
  <2>1. CASE i <= 2
    <3>1. i \in 1 .. 2  BY <2>1
    <3> QED BY <1>6, <1>8, <3>1
  <2>2. CASE i > 2
    <3>1. i - 2 \in 1 .. k /\ 2 + (i - 2) = i  BY <1>1, <2>2
    <3> QED BY <1>7, <1>8, <3>1
  <2> QED BY <1>1, <2>1, <2>2
<1> QED BY <1>1, <1>5, <1>8, <1>9 DEF IsSealed, k, U, c

LEMMA ChainGrow ==
  ASSUME NEW w \in Seq(Unit), NEW nth \in Nat, NEW first, NEW m \in ChainMessages, NEW s, IsSealed(s, nth, m),
         Chain(w, first, nth), nth = 0 => m.kind = "hello"
  PROVE  Chain(w \o s, first, nth + 1)
<1> DEFINE l == Len(w)  k == Size(m)  v == w \o s  U(i) == SealedUnit(nth, m, i)
<1>1. /\ s \in Seq(Unit) /\ k \in 1 .. 2 /\ Len(s) = 2 + k
      /\ \A i \in 1 .. 2 + k : s[i] = U(i)
  BY DEF IsSealed
<1>2. /\ v \in Seq(Unit) /\ l \in Nat /\ Len(v) = l + (2 + k)
      /\ \A i \in 1 .. l : v[i] = w[i]
      /\ \A i \in 1 .. 2 + k : v[l + i] = U(i)
  <2>1. /\ v \in Seq(Unit) /\ Len(w) \in Nat /\ Len(s) \in Nat /\ Len(v) = Len(w) + Len(s)
        /\ \A i \in 1 .. Len(w) : v[i] = w[i]
        /\ \A i \in 1 .. Len(s) : v[Len(w) + i] = s[i]
    <3> HIDE DEF v
    <3>1. v = w \o s  BY DEF v
    <3> QED BY <1>1, <3>1
  <2> QED BY <1>1, <2>1
<1>3. ASSUME NEW i \in 1 .. 2 + k  PROVE WellFormed(U(i))
  <2>1. nth > 0 \/ m.kind = "hello"  OBVIOUS
  <2>2. CASE i <= 2  BY <1>1, <2>1, <2>2 DEF SealedUnit, WellFormed, HeaderSize
  <2>3. CASE i > 2  BY <1>1, <2>1, <2>3 DEF SealedUnit, WellFormed
  <2> QED BY <1>1, <2>2, <2>3
<1>4. ASSUME NEW i \in 1 .. 1 + k  PROVE Follows(U(i), U(i + 1))
  <2>1. CASE i = 1  BY <2>1 DEF SealedUnit, Follows, HeaderSize
  <2>2. CASE i = 2  BY <2>2 DEF SealedUnit, Follows, HeaderSize
  <2>3. CASE i = 3 /\ k = 2  BY <2>3 DEF SealedUnit, Follows
  <2> QED BY <1>1, <2>1, <2>2, <2>3
<1>5. /\ U(1).n = 1 /\ U(1).nth = 2 * nth + 1 /\ U(1).part = "header"
      /\ U(2 + k).part = "frame" /\ U(2 + k).nth = 2 * (nth + 1) /\ U(2 + k).n = U(2 + k).of
  BY <1>1 DEF SealedUnit
<1>6. /\ \A i \in 1 .. l : WellFormed(w[i])
      /\ \A i \in 1 .. l - 1 : Follows(w[i], w[i + 1])
      /\ w = <<>> => first = 2 * nth + 1
      /\ w # <<>> =>
           /\ w[1].n = 1 /\ w[1].nth = first
           /\ w[l].part = "frame" /\ w[l].nth = 2 * nth /\ w[l].n = w[l].of
  BY DEF Chain
<1>7. w = <<>> <=> l = 0  OBVIOUS
<1> HIDE DEF l, k, v, U
<1>8. \A i \in 1 .. Len(v) : WellFormed(v[i])
  <2> SUFFICES ASSUME NEW i \in 1 .. Len(v)  PROVE WellFormed(v[i])  OBVIOUS
  <2>1. CASE i <= l  BY <1>2, <1>6, <2>1
  <2>2. CASE i > l
    <3>1. i - l \in 1 .. 2 + k /\ l + (i - l) = i  BY <1>1, <1>2, <2>2
    <3> QED BY <1>2, <1>3, <3>1
  <2> QED BY <1>2, <2>1, <2>2
<1>9. \A i \in 1 .. Len(v) - 1 : Follows(v[i], v[i + 1])
  <2> SUFFICES ASSUME NEW i \in 1 .. Len(v) - 1  PROVE Follows(v[i], v[i + 1])  OBVIOUS
  <2>1. CASE i < l
    <3>1. i \in 1 .. l - 1 /\ i \in 1 .. l /\ i + 1 \in 1 .. l  BY <1>2, <2>1
    <3> QED BY <1>2, <1>6, <3>1
  <2>2. CASE i = l
    <3>1. l \in 1 .. l /\ l # 0 /\ 1 \in 1 .. 2 + k  BY <1>1, <1>2, <2>2
    <3>2. v[l] = w[l] /\ v[l + 1] = U(1)  BY <1>2, <3>1
    <3>3. Follows(w[l], U(1))
      <4>1. w[l].part = "frame" /\ w[l].nth = 2 * nth /\ w[l].n = w[l].of /\ w[l] \in Unit  BY <1>6, <1>7, <3>1 DEF l
      <4>2. ~(w[l].n < w[l].of)  BY <4>1 DEF Unit
      <4> QED BY <1>5, <4>1, <4>2 DEF Follows
    <3> QED BY <2>2, <3>2, <3>3
  <2>3. CASE i > l
    <3> DEFINE j == i - l
    <3>1. j \in 1 .. 1 + k /\ j \in 1 .. 2 + k /\ j + 1 \in 1 .. 2 + k /\ l + j = i /\ l + (j + 1) = i + 1  BY <1>1, <1>2, <2>3
    <3> HIDE DEF j
    <3>2. v[l + j] = U(j) /\ v[l + (j + 1)] = U(j + 1)  BY <1>2, <3>1
    <3> QED BY <1>4, <3>1, <3>2
  <2> QED BY <1>2, <2>1, <2>2, <2>3
<1>10. v # <<>> /\ v[Len(v)] = U(2 + k)
  <2>1. Len(v) > 0 /\ 2 + k \in 1 .. 2 + k  BY <1>1, <1>2
  <2> QED BY <1>2, <2>1
<1>11. v[1].n = 1 /\ v[1].nth = first
  <2>1. CASE l = 0
    <3>1. v[0 + 1] = U(1)  BY <1>1, <1>2, <2>1
    <3> QED BY <1>5, <1>6, <1>7, <2>1, <3>1
  <2>2. CASE l # 0
    <3>1. v[1] = w[1]  BY <1>2, <2>2
    <3> QED BY <1>6, <1>7, <2>2, <3>1
  <2> QED BY <2>1, <2>2
<1>12. nth + 1 > 0  OBVIOUS
<1>13. Chain(v, first, nth + 1)  BY <1>5, <1>8, <1>9, <1>10, <1>11, <1>12 DEF Chain
<1> QED BY <1>13 DEF v

(* What an answer makes of the header, with the others still to come.      *)
AnsweredBy(h, m, asked2) == \E g \in Tops : Settles(h, m, g) /\ Answerable(asked2, g)

LEMMA AnswerableTail ==
  ASSUME NEW asked2 \in Seq(ChainMessages), asked2 # <<>>, NEW h \in Tops, Answerable(asked2, h)
  PROVE  AnsweredBy(h, Head(asked2), Tail(asked2))
<1> DEFINE a == asked2  m == Head(a)  e == Tail(a)  g == IF m.kind = "BlockHeaders" THEN Covered(m.block, 0) ELSE Covered(m.block, 1)
<1>1. /\ Len(a) \in Nat /\ 1 \in 1 .. Len(a) /\ m = a[1] /\ m \in ChainMessages
      /\ e \in Seq(ChainMessages) /\ Len(e) = Len(a) - 1 /\ \A i \in 1 .. Len(e) : e[i] = a[i + 1]
      /\ e # <<>> => Len(e) > 0
  OBVIOUS
<1>2. /\ \A i \in 1 .. Len(a) : a[i].kind \in {"BlockHeaders", "BlockBodies"}
      /\ a[1].kind = "BlockBodies" => h = Covered(a[1].block, 0)
      /\ \A i \in 2 .. Len(a) : a[i].kind = "BlockBodies" => a[i - 1] = Message("BlockHeaders", a[i].block)
  BY DEF Answerable
<1> HIDE DEF e, m, g
<1>3. g \in Tops  BY <1>1 DEF g, Covered, Tops, ChainMessages
<1>4. Settles(h, m, g)
  <2>1. m.kind \in {"BlockHeaders", "BlockBodies"}  BY <1>1, <1>2
  <2> QED BY <1>1, <1>2, <2>1 DEF Settles, g
<1>5. \A i \in 1 .. Len(e) : e[i].kind \in {"BlockHeaders", "BlockBodies"}
  <2>1. \A i \in 1 .. Len(e) : i + 1 \in 1 .. Len(a)  BY <1>1
  <2> QED BY <1>1, <1>2, <2>1
<1>6. e # <<>> /\ e[1].kind = "BlockBodies" => g = Covered(e[1].block, 0)
  <2> SUFFICES ASSUME e # <<>>, e[1].kind = "BlockBodies"  PROVE g = Covered(e[1].block, 0)  OBVIOUS
  <2>1. 2 \in 2 .. Len(a) /\ 1 \in 1 .. Len(e)  BY <1>1
  <2>2. e[1] = a[1 + 1]  BY <1>1, <2>1
  <2>3. a[2 - 1] = Message("BlockHeaders", e[1].block)  BY <1>2, <2>1, <2>2
  <2>4. m.kind = "BlockHeaders" /\ m.block = e[1].block  BY <1>1, <2>3 DEF Message
  <2> QED BY <2>4 DEF g
<1>7. \A i \in 2 .. Len(e) : e[i].kind = "BlockBodies" => e[i - 1] = Message("BlockHeaders", e[i].block)
  <2> SUFFICES ASSUME NEW i \in 2 .. Len(e), e[i].kind = "BlockBodies"  PROVE e[i - 1] = Message("BlockHeaders", e[i].block)
    OBVIOUS
  <2>1. i + 1 \in 2 .. Len(a) /\ i \in 1 .. Len(e) /\ i - 1 \in 1 .. Len(e) /\ (i + 1) - 1 = i /\ (i - 1) + 1 = i  BY <1>1
  <2>2. e[i] = a[i + 1] /\ e[i - 1] = a[i]  BY <1>1, <2>1
  <2>3. a[(i + 1) - 1] = Message("BlockHeaders", a[i + 1].block)  BY <1>2, <2>1, <2>2
  <2> QED BY <2>1, <2>2, <2>3
<1>8. Answerable(e, g)  BY <1>5, <1>6, <1>7 DEF Answerable
<1> QED BY <1>3, <1>4, <1>8 DEF AnsweredBy, e, m

LEMMA PairedGrow ==
  ASSUME NEW w \in Seq(Unit), NEW nth \in Nat, NEW m \in ChainMessages, NEW s, IsSealed(s, nth, m),
         NEW asked2, NEW g, NEW h, Turns(h, w, asked2, g), NEW asked3, AnsweredBy(h[Len(w)], m, asked3)
  PROVE  Paired(w \o s, asked3, g)
<1> DEFINE l == Len(w)  k == 2 + Size(m)  v == w \o s
<1>1. /\ s \in Seq(Unit) /\ Size(m) \in 1 .. 2 /\ k \in 3 .. 4 /\ Len(s) = k
      /\ \A i \in 1 .. k : s[i] = SealedUnit(nth, m, i)
  BY DEF IsSealed
<1>2. /\ v \in Seq(Unit) /\ l \in Nat /\ Len(v) = l + k
      /\ \A i \in 1 .. l : v[i] = w[i]
      /\ \A i \in 1 .. k : v[l + i] = SealedUnit(nth, m, i)
  <2>1. /\ v \in Seq(Unit) /\ Len(w) \in Nat /\ Len(s) \in Nat /\ Len(v) = Len(w) + Len(s)
        /\ \A i \in 1 .. Len(w) : v[i] = w[i]
        /\ \A i \in 1 .. Len(s) : v[Len(w) + i] = s[i]
    <3> HIDE DEF v
    <3>1. v = w \o s  BY DEF v
    <3> QED BY <1>1, <3>1, Joins
  <2> QED BY <1>1, <2>1
<1>3. /\ h \in [0 .. l -> Tops] /\ h[0] = g
      /\ \A i \in 1 .. l : Passes(h[i - 1], w[i], h[i])
  BY DEF Turns
<1>4. PICK t \in Tops : Settles(h[l], m, t) /\ Answerable(asked3, t)  BY DEF AnsweredBy
<1>5. ASSUME NEW i \in 1 .. k
      PROVE  /\ i = k => IsLast(SealedUnit(nth, m, i)) /\ SealedUnit(nth, m, i).m = m
             /\ i # k => ~IsLast(SealedUnit(nth, m, i))
  <2>1. CASE i <= 2  BY <1>1, <2>1 DEF SealedUnit, IsLast
  <2>2. CASE i > 2  BY <1>1, <2>2 DEF SealedUnit, IsLast
  <2> QED BY <1>1, <2>1, <2>2
<1> DEFINE e == [i \in 0 .. l + k |-> IF i <= l THEN h[i] ELSE IF i = l + k THEN t ELSE h[l]]
<1> HIDE DEF k, l, v
<1>6. e \in [0 .. l + k -> Tops] /\ e[0] = g /\ e[l + k] = t
  <2>1. \A i \in 0 .. l + k : i <= l => i \in 0 .. l  BY <1>1, <1>2
  <2>2. l \in 0 .. l /\ 0 \in 0 .. l + k /\ l + k \in 0 .. l + k /\ ~(l + k <= l) /\ 0 <= l  BY <1>1, <1>2
  <2> QED BY <1>3, <1>4, <2>1, <2>2
<1>7. /\ \A i \in 0 .. l : e[i] = h[i]
      /\ \A i \in 1 .. k - 1 : e[l + i] = h[l]
  <2>1. \A i \in 0 .. l : i \in 0 .. l + k /\ i <= l  BY <1>1, <1>2
  <2>2. \A i \in 1 .. k - 1 : l + i \in 0 .. l + k /\ ~(l + i <= l) /\ l + i # l + k  BY <1>1, <1>2
  <2> QED BY <2>1, <2>2
<1> HIDE DEF e
<1>8. ASSUME NEW i \in 1 .. l + k  PROVE Passes(e[i - 1], v[i], e[i])
  <2>1. CASE i <= l
    <3>1. i \in 1 .. l /\ i \in 0 .. l /\ i - 1 \in 0 .. l  BY <1>2, <2>1
    <3> QED BY <1>2, <1>3, <1>7, <3>1
  <2>2. CASE i > l
    <3> DEFINE j == i - l
    <3>1. j \in 1 .. k /\ i = l + j /\ l \in 0 .. l  BY <1>1, <1>2, <2>2
    <3>2. v[i] = SealedUnit(nth, m, j)  BY <1>2, <3>1
    <3>3. e[i - 1] = h[l]
      <4>1. CASE j = 1
        <5>1. i - 1 = l  BY <1>2, <3>1, <4>1
        <5> QED BY <1>7, <3>1, <5>1
      <4>2. CASE j # 1
        <5>1. j - 1 \in 1 .. k - 1 /\ i - 1 = l + (j - 1)  BY <1>1, <1>2, <3>1, <4>2
        <5> QED BY <1>7, <5>1
      <4> QED BY <4>1, <4>2
    <3>4. CASE j = k
      <4>1. IsLast(v[i]) /\ v[i].m = m /\ e[i] = t  BY <1>5, <1>6, <3>1, <3>2, <3>4
      <4> QED BY <1>4, <3>3, <4>1 DEF Passes
    <3>5. CASE j # k
      <4>1. j \in 1 .. k - 1  BY <1>1, <3>1, <3>5
      <4>2. ~IsLast(v[i])  BY <1>5, <3>1, <3>2, <3>5
      <4>3. e[i] = h[l]  BY <1>7, <3>1, <4>1
      <4> QED BY <3>3, <4>2, <4>3 DEF Passes
    <3> QED BY <3>4, <3>5
  <2> QED BY <1>2, <2>1, <2>2
<1>9. Turns(e, v, asked3, g)  BY <1>2, <1>4, <1>6, <1>8 DEF Turns
<1> QED BY <1>9 DEF Paired, v

(* The message may be written now: nobody waits for it, or it is the next  *)
(* answer.                                                                 *)
Writable(m, asked2, asked3) ==
  \/ m.kind \notin {"BlockHeaders", "BlockBodies"} /\ asked3 = asked2
  \/ asked2 # <<>> /\ m = Head(asked2) /\ asked3 = Tail(asked2)

LEMMA PairedWrite ==
  ASSUME NEW w \in Seq(Unit), NEW nth \in Nat, NEW m \in ChainMessages, NEW s, IsSealed(s, nth, m),
         NEW asked2 \in Seq(ChainMessages), NEW asked3, Writable(m, asked2, asked3), NEW g \in Tops, Paired(w, asked2, g)
  PROVE  Paired(w \o s, asked3, g)
<1>1. PICK h : Turns(h, w, asked2, g)  BY DEF Paired
<1> DEFINE t == h[Len(w)]
<1>2. t \in Tops /\ Answerable(asked2, t)
  <2>1. h \in [0 .. Len(w) -> Tops] /\ Answerable(asked2, t)  BY <1>1 DEF Turns
  <2>2. Len(w) \in 0 .. Len(w)  OBVIOUS
  <2> QED BY <2>1, <2>2
<1> HIDE DEF t
<1>3. CASE m.kind \notin {"BlockHeaders", "BlockBodies"} /\ asked3 = asked2
  <2>1. Settles(t, m, t)  BY <1>3 DEF Settles
  <2>2. AnsweredBy(t, m, asked3)  BY <1>2, <1>3, <2>1 DEF AnsweredBy
  <2> QED BY <1>1, <2>2, PairedGrow DEF t
<1>4. CASE asked2 # <<>> /\ m = Head(asked2) /\ asked3 = Tail(asked2)
  <2>1. AnsweredBy(t, m, asked3)  BY <1>2, <1>4, AnswerableTail
  <2> QED BY <1>1, <2>1, PairedGrow DEF t
<1> QED BY <1>3, <1>4 DEF Writable

(* A header and a frame more are to be read.                               *)
LEMMA WriteSound ==
  ASSUME NEW r \in Rlpx, NEW q \in Rlpx, NEW m \in ChainMessages, NEW g \in Tops, NEW over \in BOOLEAN,
         Sound(r, r.unread, g, over), r.tcp = "open", r.keyed,
         r.sealed = 0 => m.kind = "hello" /\ r.asked = <<>>, Writable(m, r.asked, q.asked),
         q.unread = r.unread \o Sealed(r.sealed, m), q.sealed = r.sealed + 1,
         q.tcp = r.tcp, q.failed = r.failed, q.guessed = r.guessed, q.state = r.state, q.buf = r.buf,
         q.bytes_remaining = r.bytes_remaining, q.keyed = r.keyed, q.ingress_mac = r.ingress_mac, q.got = r.got
  PROVE  Sound(q, q.unread, g, over)
<1> DEFINE w == r.buf \o r.unread  nth == r.sealed  s == Sealed(nth, m)  v == w \o s
<1>1. /\ r.buf \in Seq(Unit) /\ r.unread \in Seq(Unit) /\ nth \in Nat /\ r.asked \in Seq(ChainMessages)
      /\ r.ingress_mac \in Nat
  BY DEF Rlpx
<1>2. IsSealed(s, nth, m)  BY <1>1, SealedUnits
<1>3. s \in Seq(Unit) /\ Len(s) > 0 /\ s[1].part = "header"
  <2>1. 1 \in 1 .. 2 + Size(m) /\ s[1] = SealedUnit(nth, m, 1)  BY <1>2 DEF IsSealed
  <2>2. s[1].part = "header"  BY <2>1 DEF SealedUnit
  <2>3. s \in Seq(Unit) /\ Size(m) \in 1 .. 2 /\ Len(s) = 2 + Size(m)  BY <1>2 DEF IsSealed
  <2> QED BY <2>2, <2>3
<1> HIDE DEF s
<1>4. w \in Seq(Unit)  BY <1>1
<1>5. q.buf \o q.unread = v
  <2> DEFINE a == r.buf  b == r.unread
  <2>1. q.buf = a /\ q.unread = b \o s  BY DEF s
  <2>2. v = (a \o b) \o s /\ a \in Seq(Unit) /\ b \in Seq(Unit)  BY <1>1
  <2> HIDE DEF a, b, v
  <2>3. (a \o b) \o s = a \o (b \o s)  BY <1>3, <2>2, ConcatAssociative
  <2> QED BY <2>1, <2>2, <2>3
<1>6. Shape(r, w) /\ (~over => Paired(w, r.asked, g)) /\ ~r.failed /\ (r.state # "Idle" => r.bytes_remaining > 0)
  BY DEF Sound
<1>7. /\ v \in Seq(Unit) /\ v # <<>>
      /\ w # <<>> => v[1] = w[1]
      /\ w = <<>> => v[1] = s[1]
  <2> HIDE DEF w, v
  <2>1. v = w \o s  BY DEF v
  <2>2. v \in Seq(Unit) /\ Len(v) = Len(w) + Len(s) /\ Len(w) \in Nat  BY <1>3, <1>4, <2>1
  <2>3. CASE w = <<>>  BY <1>3, <1>4, <2>1, <2>2, <2>3
  <2>4. CASE w # <<>>
    <3>1. 1 \in 1 .. Len(w)  BY <1>4, <2>4
    <3>2. v[1] = w[1]  BY <1>3, <1>4, <2>1, <3>1
    <3> QED BY <1>3, <2>2, <2>4, <3>2
  <2> QED BY <2>3, <2>4
<1>8. InFrames(r, w)  BY <1>6 DEF Shape, Authenticating
<1> HIDE DEF w, v
<1>9. InFrames(q, v)
  <2>1. Chain(w, r.ingress_mac + 1, nth) /\ (nth = 0 => m.kind = "hello")  BY <1>8 DEF InFrames
  <2>2. Chain(v, q.ingress_mac + 1, q.sealed)
    <3> DEFINE f == r.ingress_mac + 1
    <3>1. Chain(w, f, nth)  BY <2>1
    <3> HIDE DEF f
    <3>2. Chain(w \o s, f, nth + 1)  BY <1>1, <1>2, <1>4, <2>1, <3>1, ChainGrow
    <3> QED BY <3>2 DEF f, v
  <2>3. AtHeader(r, w) => AtHeader(q, v)  BY <1>3, <1>7 DEF AtHeader
  <2>4. AtFrame(r, w) => AtFrame(q, v)  BY <1>7 DEF AtFrame
  <2>5. q.sealed > 0  BY <1>1
  <2>6. r.asked = <<>> => q.asked = <<>>  BY DEF Writable
  <2> QED BY <1>8, <2>2, <2>3, <2>4, <2>5, <2>6 DEF InFrames
<1>10. ~over => Paired(v, q.asked, g)  BY <1>1, <1>2, <1>4, <1>6, PairedWrite DEF v
<1> QED BY <1>5, <1>6, <1>9, <1>10 DEF Sound, Shape

-----------------------------------------------------------------------------
(* The actions                                                             *)

WritesOf(r, m, a) == [r EXCEPT !.unread = r.unread \o Sealed(r.sealed, m), !.sealed = r.sealed + 1, !.asked = a]

LEMMA NodeWriting ==
  ASSUME OnrampInv, NEW t \in ChainNodes, NEW m \in ChainMessages, NEW a \in Seq(ChainMessages), NEW r, r = rlpx[t],
         r.tcp = "open", r.keyed, r.sealed = 0 => m.kind = "hello" /\ r.asked = <<>>, Writable(m, r.asked, a),
         NEW q, q = WritesOf(r, m, a), rlpx' = [rlpx EXCEPT ![t] = q], written' \in Nat,
         UNCHANGED <<rlpxt, header, is_connected, checking, published, overlapped, crashed>>
  PROVE  OnrampInv'
<1>1. /\ r \in Rlpx /\ header \in Tops /\ is_connected \in BOOLEAN /\ checking \in Nat /\ overlapped \in BOOLEAN
      /\ published \in SUBSET Publications /\ crashed \in BOOLEAN /\ Whole(published, overlapped)
      /\ Sound(r, r.unread, header, overlapped) /\ r.state # "LengthWait"
  BY DEF OnrampInv, OnrampTypeOK
<1> DEFINE u == r.unread \o Sealed(r.sealed, m)  k == r.sealed + 1
<1>2. u \in Seq(Unit) /\ k \in Nat
  <2>1. r.sealed \in Nat /\ r.unread \in Seq(Unit)  BY <1>1 DEF Rlpx
  <2>2. Sealed(r.sealed, m) \in Seq(Unit)  BY <2>1, SealedUnits DEF IsSealed
  <2> QED BY <2>1, <2>2
<1>3. q = [r EXCEPT !.unread = u, !.sealed = k, !.asked = a]  BY DEF WritesOf
<1>7. u = r.unread \o Sealed(r.sealed, m) /\ k = r.sealed + 1  OBVIOUS
<1> HIDE DEF u, k
<1>4. /\ q \in Rlpx /\ q.unread = u /\ q.sealed = k /\ q.asked = a
      /\ q.tcp = r.tcp /\ q.failed = r.failed /\ q.guessed = r.guessed /\ q.state = r.state /\ q.buf = r.buf
      /\ q.bytes_remaining = r.bytes_remaining /\ q.keyed = r.keyed /\ q.ingress_mac = r.ingress_mac /\ q.got = r.got
  BY <1>1, <1>2, <1>3 DEF Rlpx
<1>8. Writable(m, r.asked, q.asked)  BY <1>4
<1>10. q.unread = r.unread \o Sealed(r.sealed, m) /\ q.sealed = r.sealed + 1  BY <1>4, <1>7
<1>11. r.tcp = "open" /\ r.keyed /\ (r.sealed = 0 => m.kind = "hello" /\ r.asked = <<>>)  OBVIOUS
<1>5. Sound(q, q.unread, header, overlapped)  BY ONLY <1>1, <1>4, <1>10, <1>8, <1>11, WriteSound
<1>6. header' \in Tops /\ is_connected' \in BOOLEAN /\ checking' \in Nat /\ published' \in SUBSET Publications
      /\ crashed' \in BOOLEAN /\ Whole(published', overlapped) /\ Sound(q, q.unread, header', overlapped)
  BY <1>1, <1>5
<1>9. rlpx[t].tcp = "open" /\ q.tcp \in {"open", "closing", "broken"} /\ q.state # "LengthWait"  BY <1>1, <1>4
<1> QED BY <1>4, <1>6, <1>9, OpenChanged

(* Once the node has sealed something, or was asked, the secrets are known *)
(* and its hello is behind it.                                             *)
LEMMA OpenFacts ==
  ASSUME OnrampInv, NEW t \in ChainNodes, rlpx[t].tcp = "open"
  PROVE  /\ rlpx[t] \in Rlpx /\ rlpx[t].sealed \in Nat /\ rlpx[t].asked \in Seq(ChainMessages)
         /\ rlpx[t].sealed > 0 \/ rlpx[t].asked # <<>> => rlpx[t].keyed
         /\ rlpx[t].sealed = 0 => rlpx[t].asked = <<>>
<1> DEFINE r == rlpx[t]
<1>1. r \in Rlpx /\ r.sealed \in Nat /\ r.asked \in Seq(ChainMessages) /\ Shape(r, r.buf \o r.unread)
  BY DEF OnrampInv, OnrampTypeOK, Sound, Rlpx
<1> HIDE DEF r
<1>2. /\ r.sealed > 0 \/ r.asked # <<>> => r.keyed
      /\ r.sealed = 0 => r.asked = <<>>
  <2>1. CASE \E old \in BOOLEAN : Authenticating(r, r.buf \o r.unread, old)  BY <1>1, <2>1 DEF Authenticating
  <2>2. CASE InFrames(r, r.buf \o r.unread)  BY <1>1, <2>2 DEF InFrames
  <2> QED BY <1>1, <2>1, <2>2 DEF Shape
<1> QED BY <1>1, <1>2 DEF r

LEMMA NodeWritesKeeps ==
  ASSUME OnrampInv, NEW t \in ChainNodes, NEW m \in ChainMessages, rlpx[t].tcp = "open", rlpx[t].keyed,
         rlpx[t].sealed = 0 => m.kind = "hello", m.kind \notin {"BlockHeaders", "BlockBodies"},
         NodeWrites(t, m), written' \in Nat,
         UNCHANGED <<rlpxt, header, is_connected, checking, published, overlapped, crashed>>
  PROVE  OnrampInv'
<1> DEFINE r == rlpx[t]  a == r.asked  q == WritesOf(r, m, a)
<1>1. /\ r \in Rlpx /\ a \in Seq(ChainMessages) /\ (r.sealed = 0 => a = <<>>) /\ rlpx \in [ChainNodes -> Rlpx]
  BY OpenFacts DEF OnrampInv, OnrampTypeOK
<1>2. rlpx' = [rlpx EXCEPT ![t] = q]
  <2>1. rlpx' = [rlpx EXCEPT ![t].unread = @ \o Sealed(r.sealed, m), ![t].sealed = @ + 1]  BY DEF NodeWrites
  <2> DEFINE s == Sealed(r.sealed, m)  p == [r EXCEPT !.unread = @ \o s, !.sealed = @ + 1]
  <2>2. rlpx' = [rlpx EXCEPT ![t] = p]  BY <1>1, <2>1
  <2>3. p = q
    <3> HIDE DEF r, s
    <3>1. p = [r EXCEPT !.unread = r.unread \o s, !.sealed = r.sealed + 1, !.asked = r.asked]  BY <1>1 DEF Rlpx
    <3> QED BY <3>1 DEF WritesOf, s
  <2> QED BY <2>2, <2>3
<1>3. Writable(m, a, a)  BY DEF Writable
<1>4. r = rlpx[t] /\ r.tcp = "open" /\ r.keyed /\ (r.sealed = 0 => m.kind = "hello")  OBVIOUS
<1>5. q = WritesOf(r, m, a)  OBVIOUS
<1>6. r.asked = a  OBVIOUS
<1> HIDE DEF r, a, q
<1> QED BY <1>1, <1>2, <1>3, <1>4, <1>5, <1>6, NodeWriting

LEMMA NodeHelloKeeps ==
  ASSUME OnrampInv, NEW t \in ChainNodes, NodeHello(t)
  PROVE  OnrampInv'
<1>1. Message("hello", None) \in ChainMessages /\ Message("hello", None).kind = "hello"
  BY DEF Message, ChainMessages, Kinds, Names
<1> DEFINE m == Message("hello", None)
<1>2. /\ rlpx[t].tcp = "open" /\ rlpx[t].keyed /\ NodeWrites(t, m)
      /\ UNCHANGED <<rlpxt, header, is_connected, checking, written, published, overlapped, crashed>>
  BY DEF NodeHello
<1>3. written' \in Nat  BY <1>2 DEF OnrampInv, OnrampTypeOK
<1>4. m \in ChainMessages /\ m.kind = "hello"  BY <1>1
<1> HIDE DEF m
<1>5. m.kind \notin {"BlockHeaders", "BlockBodies"}  BY <1>4
<1> QED BY <1>2, <1>3, <1>4, <1>5, NodeWritesKeeps

LEMMA NodeSaysKeeps ==
  ASSUME OnrampInv, NEW t \in ChainNodes, NodeSays(t)
  PROVE  OnrampInv'
<1>1. /\ rlpx[t].tcp = "open" /\ rlpx[t].sealed > 0 /\ written' = written + 1
      /\ UNCHANGED <<rlpxt, header, is_connected, checking, published, overlapped, crashed>>
  BY DEF NodeSays
<1>2. written' \in Nat  BY <1>1 DEF OnrampInv, OnrampTypeOK
<1>3. rlpx[t].keyed /\ rlpx[t].sealed # 0  BY <1>1, OpenFacts
<1>4. PICK m \in ChainMessages : m.kind \notin {"BlockHeaders", "BlockBodies"} /\ NodeWrites(t, m)
  <2>1. CASE \E k \in {"ping", "other"} : NodeWrites(t, Message(k, None))
    <3>1. PICK k \in {"ping", "other"} : NodeWrites(t, Message(k, None))  BY <2>1
    <3>2. Message(k, None) \in ChainMessages /\ Message(k, None).kind \notin {"BlockHeaders", "BlockBodies"}
      BY DEF Message, ChainMessages, Kinds, Names
    <3> QED BY <3>1, <3>2
  <2>2. CASE \E k \in {"NewBlock", "NewBlockHashes"}, b \in ChainBlocks : NodeWrites(t, Message(k, b))
    <3>1. PICK k \in {"NewBlock", "NewBlockHashes"}, b \in ChainBlocks : NodeWrites(t, Message(k, b))  BY <2>2
    <3>2. Message(k, b) \in ChainMessages /\ Message(k, b).kind \notin {"BlockHeaders", "BlockBodies"}
      BY DEF Message, ChainMessages, Kinds, Names
    <3> QED BY <3>1, <3>2
  <2> QED BY <2>1, <2>2 DEF NodeSays
<1> QED BY <1>1, <1>2, <1>3, <1>4, NodeWritesKeeps

LEMMA NodeAnswersKeeps ==
  ASSUME OnrampInv, NEW t \in ChainNodes, NodeAnswers(t)
  PROVE  OnrampInv'
<1> DEFINE r == rlpx[t]  m == Head(r.asked)  a == Tail(r.asked)  q == WritesOf(r, m, a)
<1>1. /\ r.tcp = "open" /\ r.asked # <<>>
      /\ rlpx' = [rlpx EXCEPT ![t].unread = @ \o Sealed(rlpx[t].sealed, m), ![t].sealed = @ + 1, ![t].asked = Tail(@)]
      /\ UNCHANGED <<rlpxt, header, is_connected, checking, written, published, overlapped, crashed>>
  BY DEF NodeAnswers
<1>2. /\ r \in Rlpx /\ r.asked \in Seq(ChainMessages) /\ r.keyed /\ r.sealed # 0 /\ rlpx \in [ChainNodes -> Rlpx]
  BY <1>1, OpenFacts DEF OnrampInv, OnrampTypeOK
<1>3. m \in ChainMessages /\ a \in Seq(ChainMessages)  BY <1>1, <1>2
<1>4. written' \in Nat  BY <1>1 DEF OnrampInv, OnrampTypeOK
<1>5. Writable(m, r.asked, a)  BY <1>1 DEF Writable
<1>6. rlpx' = [rlpx EXCEPT ![t] = q]
  <2> DEFINE s == Sealed(r.sealed, m)  p == [r EXCEPT !.unread = @ \o s, !.sealed = @ + 1, !.asked = Tail(@)]
  <2>1. rlpx' = [rlpx EXCEPT ![t] = p]  BY <1>1, <1>2
  <2>2. p = q
    <3> HIDE DEF r, s
    <3>1. p = [r EXCEPT !.unread = r.unread \o s, !.sealed = r.sealed + 1, !.asked = a]  BY <1>2 DEF Rlpx
    <3> QED BY <3>1 DEF WritesOf, s
  <2> QED BY <2>1, <2>2
<1>7. r = rlpx[t] /\ q = WritesOf(r, m, a)  OBVIOUS
<1>8. r.sealed = 0 => m.kind = "hello" /\ r.asked = <<>>  BY <1>2
<1>9. UNCHANGED <<rlpxt, header, is_connected, checking, published, overlapped, crashed>> /\ r.tcp = "open"  BY <1>1
<1> HIDE DEF r, m, a, q
<1> QED BY <1>2, <1>3, <1>4, <1>5, <1>6, <1>7, <1>8, <1>9, NodeWriting

LEMMA NewRlpxIdle == NewRlpx \in Rlpx /\ NewRlpx.tcp = "none" /\ NewRlpx.state = "Idle" /\ ~NewRlpx.failed
<1> DEFINE e == <<>>  idle == "Idle"  none == "none"
<1>1. e \in Seq(Unit) /\ e \in Seq(ChainMessages)  OBVIOUS
<1>2. NewRlpx = [tcp |-> none, state |-> idle, buf |-> e, bytes_remaining |-> 0,
                 keyed |-> FALSE, unkeyed |-> FALSE, ingress_mac |-> 0,
                 unread |-> e, sealed |-> 0, asked |-> e, got |-> 0,
                 guessed |-> FALSE, failed |-> FALSE]
  BY DEF NewRlpx
<1>3. idle \in States /\ none \in {"none", "open", "closing", "broken", "closed"} /\ FALSE \in BOOLEAN  BY DEF States
<1>4. none = "none" /\ idle = "Idle"  OBVIOUS
<1> HIDE DEF e, idle, none
<1>5. NewRlpx \in Rlpx  BY <1>1, <1>2, <1>3 DEF Rlpx
<1>6. NewRlpx.tcp = none /\ NewRlpx.state = idle /\ ~NewRlpx.failed  BY <1>2
<1> QED BY <1>4, <1>5, <1>6

NewAt(tcp, u) == [NewRlpx EXCEPT !.tcp = tcp, !.unread = u]

LEMMA NewRlpxFields ==
  ASSUME NEW tcp \in {"open", "closing", "broken", "closed"}, NEW u \in Seq(Unit), NEW q, q = NewAt(tcp, u)
  PROVE  /\ q \in Rlpx /\ q.tcp = tcp /\ q.unread = u /\ q.state = "Idle" /\ q.buf = <<>> /\ q.bytes_remaining = 0
         /\ ~q.keyed /\ q.ingress_mac = 0 /\ q.sealed = 0 /\ q.asked = <<>> /\ q.got = 0 /\ ~q.guessed /\ ~q.failed
<1> DEFINE b == <<>>  a == <<>>  idle == "Idle"
<1>1. b \in Seq(Unit) /\ a \in Seq(ChainMessages)  OBVIOUS
<1>2. q = [tcp |-> tcp, state |-> idle, buf |-> b, bytes_remaining |-> 0,
            keyed |-> FALSE, unkeyed |-> FALSE, ingress_mac |-> 0,
            unread |-> u, sealed |-> 0, asked |-> a, got |-> 0,
            guessed |-> FALSE, failed |-> FALSE]
  BY DEF NewAt, NewRlpx
<1>3. idle \in States  BY DEF States
<1>5. b = <<>> /\ a = <<>> /\ idle = "Idle"  OBVIOUS
<1> HIDE DEF a, b, idle
<1>4. /\ q.tcp = tcp /\ q.unread = u /\ q.state = idle /\ q.buf = b /\ q.bytes_remaining = 0
      /\ ~q.keyed /\ q.ingress_mac = 0 /\ q.sealed = 0 /\ q.asked = a /\ q.got = 0 /\ ~q.guessed /\ ~q.failed
  BY <1>2
<1>6. q \in Rlpx
  <2>1. tcp \in {"none", "open", "closing", "broken", "closed"} /\ 0 \in Nat /\ FALSE \in BOOLEAN  OBVIOUS
  <2> QED BY <1>1, <1>2, <1>3, <2>1 DEF Rlpx
<1> QED BY <1>4, <1>5, <1>6

LEMMA Typed ==
  ASSUME OnrampInv
  PROVE  /\ rlpx \in [ChainNodes -> Rlpx] /\ rlpxt \in 0 .. MaxNodes /\ header \in Tops /\ is_connected \in BOOLEAN
         /\ checking \in Nat /\ written \in Nat /\ published \in SUBSET Publications /\ overlapped \in BOOLEAN
         /\ crashed \in BOOLEAN /\ Whole(published, overlapped)
BY DEF OnrampInv, OnrampTypeOK

(* Nothing but what the connections do not depend on changes.              *)
LEMMA NoneChanged ==
  ASSUME OnrampInv, UNCHANGED <<rlpx, rlpxt, header, published, overlapped>>, is_connected' \in BOOLEAN,
         checking' \in Nat, written' \in Nat, crashed' \in BOOLEAN
  PROVE  OnrampInv'
<1>1. OnrampTypeOK'
  <2>1. (0 .. MaxNodes)' = 0 .. MaxNodes /\ ChainNodes' = ChainNodes  OBVIOUS
  <2> QED BY Typed, <2>1 DEF OnrampTypeOK
<1>2. Present' = Present  BY DEF Present
<1> QED BY <1>1, <1>2 DEF OnrampInv

(* A chunk is read.                                                        *)
LEMMA RecvKeeps ==
  ASSUME OnrampInv, NEW t \in ChainNodes, NEW size \in 1 .. Len(rlpx[t].unread), NEW junk \in Decoded(t),
         did_recv_rlpx(t, size, junk)
  PROVE  OnrampInv'
<1> DEFINE U == rlpx[t].unread  rest == SubSeq(U, size + 1, Len(U))
<1>1. rlpx[t].tcp = "open"  BY DEF did_recv_rlpx
<1>2. PICK x \in Reads :
        /\ Reached(x, U, size, overlapped)
        /\ rlpx' = [rlpx EXCEPT ![t] = [x.r EXCEPT !.unread = rest]]
        /\ header' = x.header /\ published' = x.published /\ crashed' = x.crashed
        /\ UNCHANGED <<rlpxt, is_connected, checking, written, overlapped>>
  BY <1>1, ReachedAll
<1> DEFINE q == [x.r EXCEPT !.unread = rest]
<1>3. U \in Seq(Unit)  BY Typed DEF Rlpx
<1>4. rest \in Seq(Unit)
  <2>1. \A i \in size + 1 .. Len(U) : U[i] \in Unit  BY <1>3
  <2> QED BY <1>3, <2>1, SubSeqProperties
<1>5. /\ Sound(x.r, rest, x.header, overlapped) /\ Whole(x.published, overlapped)
      /\ x.r.state # "LengthWait" /\ x.r.tcp \in {"open", "closing"}
  BY <1>2 DEF Reached
<1>6. x.r \in Rlpx /\ x.header \in Tops /\ x.published \in SUBSET Publications /\ x.crashed \in BOOLEAN  BY DEF Reads
<1>7. q = [x.r EXCEPT !.unread = rest] /\ rlpx' = [rlpx EXCEPT ![t] = q]  BY <1>2
<1> HIDE DEF U, rest, q
<1>8. /\ q \in Rlpx /\ q.unread = rest
      /\ q.tcp = x.r.tcp /\ q.failed = x.r.failed /\ q.guessed = x.r.guessed /\ q.state = x.r.state /\ q.buf = x.r.buf
      /\ q.bytes_remaining = x.r.bytes_remaining /\ q.asked = x.r.asked /\ q.keyed = x.r.keyed
      /\ q.sealed = x.r.sealed /\ q.ingress_mac = x.r.ingress_mac /\ q.got = x.r.got
  BY <1>4, <1>6, <1>7 DEF Rlpx
<1>9. Sound(q, rest, x.header, overlapped)  BY <1>5, <1>6, <1>8, SoundSame
<1>10. /\ Sound(q, q.unread, header', overlapped) /\ Whole(published', overlapped) /\ header' \in Tops
       /\ published' \in SUBSET Publications /\ crashed' \in BOOLEAN
       /\ q.tcp \in {"open", "closing", "broken"} /\ q.state # "LengthWait"
  BY <1>2, <1>5, <1>6, <1>8, <1>9
<1>11. is_connected' \in BOOLEAN /\ checking' \in Nat /\ written' \in Nat  BY <1>2, Typed
<1> QED BY <1>1, <1>2, <1>7, <1>8, <1>10, <1>11, OpenChanged

(* The node's first message waits to be read.                              *)
LEMMA AuthPaired ==
  ASSUME NEW old \in BOOLEAN, NEW g \in Tops
  PROVE  Paired(Auth(old), <<>>, g)
<1> DEFINE w == Auth(old)  l == Len(w)  h == [i \in 0 .. l |-> g]
<1>1. l \in Nat /\ \A i \in 1 .. l : w[i].part # "frame"
  <2>1. CASE old = TRUE
    <3>1. l = OldSize /\ \A i \in 1 .. OldSize : w[i] = AuthUnit("old", i, OldSize)  BY <2>1, AuthUnits
    <3> QED BY <3>1, SizesNat DEF AuthUnit
  <2>2. CASE old = FALSE
    <3>1. l = AuthSize /\ \A i \in 1 .. AuthSize : w[i] = AuthUnit("auth", i, AuthSize)  BY <2>2, AuthUnits
    <3> QED BY <3>1, SizesNat DEF AuthUnit
  <2> QED BY <2>1, <2>2
<1> HIDE DEF w, l
<1>2. /\ h \in [0 .. l -> Tops] /\ h[0] = g /\ h[l] = g
      /\ \A i \in 1 .. l : h[i - 1] = g /\ h[i] = g
  <2>1. 0 \in 0 .. l /\ l \in 0 .. l /\ \A i \in 1 .. l : i \in 0 .. l /\ i - 1 \in 0 .. l  BY <1>1
  <2> QED BY <2>1
<1> HIDE DEF h
<1>3. \A i \in 1 .. l : Passes(h[i - 1], w[i], h[i])  BY <1>1, <1>2 DEF Passes, IsLast
<1>4. Answerable(<<>>, h[l])  BY EmptySeqs DEF Answerable
<1>5. Turns(h, w, <<>>, g)  BY <1>2, <1>3, <1>4 DEF Turns, l
<1> QED BY <1>5 DEF Paired, w

LEMMA CreateKeeps ==
  ASSUME OnrampInv, NEW old \in BOOLEAN, did_create_transport(old)
  PROVE  OnrampInv'
<1>1. PICK t \in ChainNodes : /\ rlpx[t].tcp = "none" /\ rlpxt' = t
                         /\ rlpx' = [rlpx EXCEPT ![t] = [NewRlpx EXCEPT !.tcp = "open", !.unread = Auth(old)]]
  BY DEF did_create_transport
<1>2. /\ overlapped' = (overlapped \/ Present # {})
      /\ UNCHANGED <<header, is_connected, checking, written, published, crashed>>
  BY DEF did_create_transport
<1> DEFINE u == Auth(old)  q == [NewRlpx EXCEPT !.tcp = "open", !.unread = u]
<1>3. u \in Seq(Unit)  BY AuthUnits
<1>12. rlpx' = [rlpx EXCEPT ![t] = q] /\ u = Auth(old)  BY <1>1
<1>14. q = NewAt("open", u)  BY DEF NewAt
<1> HIDE DEF u, q
<1>4. /\ q \in Rlpx /\ q.tcp = "open" /\ q.unread = u /\ q.state = "Idle" /\ q.buf = <<>> /\ q.bytes_remaining = 0
      /\ ~q.keyed /\ q.ingress_mac = 0 /\ q.sealed = 0 /\ q.asked = <<>> /\ q.got = 0 /\ ~q.guessed /\ ~q.failed
  BY <1>3, <1>14, NewRlpxFields
<1>5. q.buf \o q.unread = u  BY <1>3, <1>4
<1>6. Authenticating(q, u, old)  BY <1>4, <1>12 DEF Authenticating
<1>7. Paired(u, q.asked, header)  BY <1>4, <1>12, Typed, AuthPaired
<1>8. Sound(q, q.unread, header', overlapped')
  <2>1. header' = header /\ Shape(q, u)  BY <1>2, <1>6 DEF Shape
  <2> QED BY <1>4, <1>5, <1>7, <2>1 DEF Sound
<1>9. ~overlapped' => \A s \in ChainNodes : rlpx'[s].tcp \in {"open", "closing"} => s = rlpxt'
  <2> SUFFICES ASSUME ~overlapped', NEW s \in ChainNodes, rlpx'[s].tcp \in {"open", "closing"}, s # t  PROVE FALSE  BY <1>1
  <2>1. rlpx'[s] = rlpx[s]  BY <1>12, Typed
  <2>2. s \in Present  BY <2>1 DEF Present
  <2> QED BY <1>2, <2>2
<1>10. rlpxt' \in 0 .. MaxNodes /\ rlpx'[rlpxt'].tcp \in {"open", "closing", "broken"}
  <2>1. t \in 0 .. MaxNodes /\ rlpx'[t] = q  BY <1>12, Typed, SizesNat DEF ChainNodes
  <2> QED BY <1>1, <1>4, <2>1
<1>11. /\ Whole(published', overlapped') /\ overlapped' \in BOOLEAN /\ (overlapped => overlapped')
       /\ header' \in Tops /\ is_connected' \in BOOLEAN /\ checking' \in Nat /\ written' \in Nat
       /\ published' \in SUBSET Publications /\ crashed' \in BOOLEAN /\ header' = header
  <2>1. Whole(published', overlapped')  BY <1>2, Typed DEF Whole
  <2> QED BY <1>2, <2>1, Typed
<1>13. q.state # "LengthWait"  BY <1>4
<1> QED BY <1>4, <1>8, <1>9, <1>10, <1>11, <1>12, <1>13, OneChanged

(* What is gone says nothing.                                              *)
GoneAt(tcp) == [NewRlpx EXCEPT !.tcp = tcp]

LEMMA HandleGone ==
  ASSUME NEW tcp \in {"closing", "broken", "closed"}, NEW q, q = GoneAt(tcp), NEW g, NEW over
  PROVE  q \in Rlpx /\ q.tcp = tcp /\ q.state # "LengthWait" /\ Sound(q, q.unread, g, over)
<1> DEFINE r == NewRlpx
<1>1. r \in Rlpx /\ r.state = "Idle" /\ ~r.failed  BY NewRlpxIdle
<1>2. q = [r EXCEPT !.tcp = tcp]  BY DEF GoneAt
<1> HIDE DEF r
<1>3. q \in Rlpx /\ q.tcp = tcp /\ q.state = r.state /\ q.failed = r.failed  BY <1>1, <1>2 DEF Rlpx
<1> QED BY <1>1, <1>3 DEF Sound

LEMMA LeftKeeps ==
  ASSUME OnrampInv, NEW t \in ChainNodes, NEW error \in BOOLEAN, node_left(t, error)
  PROVE  OnrampInv'
<1> DEFINE tcp == IF error THEN "broken" ELSE "closing"  q == [NewRlpx EXCEPT !.tcp = tcp]
<1>1. /\ rlpx[t].tcp = "open" /\ rlpx' = [rlpx EXCEPT ![t] = q]
      /\ UNCHANGED <<rlpxt, header, is_connected, checking, written, published, overlapped, crashed>>
  BY DEF node_left
<1>2. tcp \in {"closing", "broken"}  OBVIOUS
<1> HIDE DEF tcp
<1>3. q = GoneAt(tcp)  BY DEF GoneAt
<1> HIDE DEF q
<1>4. q \in Rlpx /\ q.tcp = tcp /\ q.state # "LengthWait" /\ Sound(q, q.unread, header, overlapped)
  BY <1>2, <1>3, HandleGone
<1>5. /\ Sound(q, q.unread, header', overlapped) /\ Whole(published', overlapped) /\ header' \in Tops
      /\ is_connected' \in BOOLEAN /\ checking' \in Nat /\ written' \in Nat
      /\ published' \in SUBSET Publications /\ crashed' \in BOOLEAN
  BY <1>1, <1>4, Typed
<1>6. q.tcp \in {"open", "closing", "broken"}  BY <1>2, <1>4
<1> QED BY <1>1, <1>4, <1>5, <1>6, OpenChanged

LEMMA CloseKeepsStream ==
  ASSUME OnrampInv, NEW t \in ChainNodes, did_close_rlpx(t)
  PROVE  OnrampInv'
<1> DEFINE q == [NewRlpx EXCEPT !.tcp = "closed"]
<1>1. /\ rlpx[t].tcp = "closing" /\ rlpx' = [rlpx EXCEPT ![t] = q] /\ rlpxt' = 0
      /\ UNCHANGED <<header, is_connected, checking, written, published, overlapped, crashed>>
  BY DEF did_close_rlpx
<1>2. q = GoneAt("closed")  BY DEF GoneAt
<1> HIDE DEF q
<1>3. q \in Rlpx /\ q.tcp = "closed" /\ q.state # "LengthWait" /\ Sound(q, q.unread, header, overlapped)
  BY <1>2, HandleGone
<1>4. /\ Sound(q, q.unread, header', overlapped') /\ Whole(published', overlapped') /\ header' \in Tops
      /\ is_connected' \in BOOLEAN /\ checking' \in Nat /\ written' \in Nat /\ overlapped' \in BOOLEAN
      /\ published' \in SUBSET Publications /\ crashed' \in BOOLEAN /\ (overlapped => overlapped')
      /\ header' = header
  BY <1>1, <1>3, Typed
<1>5. rlpxt' \in 0 .. MaxNodes /\ ~(rlpxt' # 0)  BY <1>1, SizesNat
<1>6. ~overlapped' => \A s \in ChainNodes : rlpx'[s].tcp \in {"open", "closing"} => s = rlpxt'
  <2> SUFFICES ASSUME ~overlapped, NEW s \in ChainNodes, rlpx'[s].tcp \in {"open", "closing"}  PROVE FALSE  BY <1>1
  <2>1. s # t /\ rlpx'[s] = rlpx[s]  BY <1>1, <1>3, Typed
  <2>2. s \in Present /\ t \in Present  BY <1>1, <2>1 DEF Present
  <2> QED BY <2>1, <2>2 DEF OnrampInv
<1> QED BY <1>1, <1>3, <1>4, <1>5, <1>6, OneChanged

LEMMA SendKeeps ==
  ASSUME OnrampInv, SendToNode, checking' \in Nat, UNCHANGED <<rlpxt, header, is_connected, written, published, overlapped>>
  PROVE  OnrampInv'
<1>1. CASE rlpxt = 0 \/ rlpx[rlpxt].tcp # "open"
  <2>1. UNCHANGED <<rlpx, crashed>>  BY <1>1 DEF SendToNode
  <2>2. is_connected' \in BOOLEAN /\ written' \in Nat /\ crashed' \in BOOLEAN  BY <2>1, Typed
  <2> QED BY <2>1, <2>2, NoneChanged
<1>2. CASE ~(rlpxt = 0 \/ rlpx[rlpxt].tcp # "open")
  <2> DEFINE t == rlpxt  r == rlpx[t]  q == seal(r)
  <2>1. /\ t \in ChainNodes /\ r.tcp = "open" /\ r \in Rlpx /\ Sound(r, r.unread, header, overlapped) /\ r.state # "LengthWait"
    <3>1. t \in ChainNodes  BY <1>2, Typed, SizesNat DEF ChainNodes
    <3> QED BY <1>2, <3>1, Typed DEF OnrampInv
  <2>2. rlpx' = [rlpx EXCEPT ![t] = q] /\ crashed' \in BOOLEAN
    <3>1. /\ rlpx' = [rlpx EXCEPT ![rlpxt] = seal(@)]
          /\ crashed' \in IF rlpx[rlpxt].keyed THEN {FALSE} ELSE BOOLEAN
      BY <1>2 DEF SendToNode
    <3>2. rlpx' = [rlpx EXCEPT ![t] = q]  BY <2>1, <3>1, Typed
    <3> QED BY <3>1, <3>2
  <2>3. q = seal(r) /\ rlpxt = t  OBVIOUS
  <2>4. rlpx[t] = r  OBVIOUS
  <2> HIDE DEF t, r, q
  <2>5. /\ q \in Rlpx /\ q.unread = r.unread
        /\ q.tcp = r.tcp /\ q.failed = r.failed /\ q.guessed = r.guessed /\ q.state = r.state /\ q.buf = r.buf
        /\ q.bytes_remaining = r.bytes_remaining /\ q.asked = r.asked /\ q.keyed = r.keyed
        /\ q.sealed = r.sealed /\ q.ingress_mac = r.ingress_mac /\ q.got = r.got
    BY <2>1, <2>3 DEF seal, Rlpx
  <2>6. Sound(q, r.unread, header, overlapped)  BY <2>1, <2>5, SoundSame
  <2>7. /\ Sound(q, q.unread, header', overlapped) /\ Whole(published', overlapped) /\ header' \in Tops
        /\ is_connected' \in BOOLEAN /\ written' \in Nat /\ published' \in SUBSET Publications
        /\ q.tcp \in {"open", "closing", "broken"} /\ q.state # "LengthWait"
    BY <2>1, <2>5, <2>6, Typed
  <2> QED BY <2>1, <2>2, <2>4, <2>5, <2>7, OpenChanged
<1> QED BY <1>1, <1>2

LEMMA OnrampInitial ==
  ASSUME OnrampInit
  PROVE  OnrampInv
<1>2. NewRlpx \in Rlpx /\ NewRlpx.tcp = "none" /\ NewRlpx.state = "Idle" /\ ~NewRlpx.failed  BY NewRlpxIdle
<1>3. /\ rlpx = [t \in ChainNodes |-> NewRlpx] /\ rlpxt = 0 /\ header = [block |-> None, covers |-> 0]
      /\ is_connected = FALSE /\ checking = 0 /\ written = 0 /\ published = {} /\ overlapped = FALSE /\ crashed = FALSE
  BY DEF OnrampInit
<1>4. OnrampTypeOK
  <2>1. header \in Tops  BY <1>3 DEF Tops, Names
  <2>2. rlpx \in [ChainNodes -> Rlpx]  BY <1>2, <1>3
  <2>3. rlpxt \in 0 .. MaxNodes  BY <1>3, SizesNat
  <2>4. is_connected \in BOOLEAN /\ checking \in Nat /\ written \in Nat /\ overlapped \in BOOLEAN /\ crashed \in BOOLEAN
        /\ published \in SUBSET Publications
    BY <1>3
  <2> QED BY <2>1, <2>2, <2>3, <2>4 DEF OnrampTypeOK
<1>5. ASSUME NEW t \in ChainNodes  PROVE Sound(rlpx[t], rlpx[t].unread, header, overlapped) /\ rlpx[t].state # "LengthWait"
                                    /\ t \notin Present
  <2>1. rlpx[t] = NewRlpx  BY <1>3
  <2> QED BY <1>2, <2>1 DEF Sound, Present
<1>6. Whole(published, overlapped)  BY <1>3 DEF Whole
<1>7. \A t \in Present : t \in ChainNodes  BY DEF Present
<1> QED BY <1>3, <1>4, <1>5, <1>6, <1>7 DEF OnrampInv

LEMMA OnrampStep ==
  ASSUME OnrampInv, OnrampNext
  PROVE  OnrampInv'
<1>1. ASSUME NEW t \in ChainNodes, NEW size \in 1 .. Len(rlpx[t].unread), NEW junk \in Decoded(t), did_recv_rlpx(t, size, junk)
      PROVE  OnrampInv'
  BY <1>1, RecvKeeps
<1>2. ASSUME NEW old \in BOOLEAN, did_create_transport(old)  PROVE OnrampInv'
  BY <1>2, CreateKeeps
<1>3. ASSUME NEW t \in ChainNodes, NEW error \in BOOLEAN, node_left(t, error)  PROVE OnrampInv'
  BY <1>3, LeftKeeps
<1>4. ASSUME NEW t \in ChainNodes, did_close_rlpx(t) \/ NodeHello(t) \/ NodeSays(t) \/ NodeAnswers(t)  PROVE OnrampInv'
  BY <1>4, CloseKeepsStream, NodeHelloKeeps, NodeSaysKeeps, NodeAnswersKeeps
<1>5. CASE did_recv_multicast
  <2>1. UNCHANGED <<rlpxt, header, is_connected, written, published, overlapped>>  BY <1>5 DEF did_recv_multicast
  <2>2. CASE rlpxt # 0 /\ is_connected
    <3>1. checking' = checking + 1 /\ UNCHANGED <<rlpx, crashed>>  BY <1>5, <2>2 DEF did_recv_multicast
    <3>2. is_connected' \in BOOLEAN /\ checking' \in Nat /\ written' \in Nat /\ crashed' \in BOOLEAN  BY <2>1, <3>1, Typed
    <3> QED BY <2>1, <3>1, <3>2, NoneChanged
  <2>3. CASE ~(rlpxt # 0 /\ is_connected)
    <3>1. SendToNode /\ UNCHANGED checking  BY <1>5, <2>3 DEF did_recv_multicast
    <3>2. checking' \in Nat  BY <3>1, Typed
    <3> QED BY <2>1, <3>1, <3>2, SendKeeps
  <2> QED BY <2>2, <2>3
<1>6. CASE did_analyze_block_onramp
  <2>1. /\ checking > 0 /\ checking' = checking - 1 /\ SendToNode
        /\ UNCHANGED <<rlpxt, header, is_connected, written, published, overlapped>>
    BY <1>6 DEF did_analyze_block_onramp
  <2>2. checking' \in Nat  BY <2>1, Typed
  <2> QED BY <2>1, <2>2, SendKeeps
<1>7. CASE did_connect_abci
  <2>1. /\ is_connected' = ~is_connected
        /\ UNCHANGED <<rlpx, rlpxt, header, checking, written, published, overlapped, crashed>>
    BY <1>7 DEF did_connect_abci
  <2>2. is_connected' \in BOOLEAN /\ checking' \in Nat /\ written' \in Nat /\ crashed' \in BOOLEAN  BY <2>1, Typed
  <2> QED BY <2>1, <2>2, NoneChanged
<1> QED BY <1>1, <1>2, <1>3, <1>4, <1>5, <1>6, <1>7 DEF OnrampNext

(* The invariant of the onramp holds in every behaviour.                   *)
THEOREM OnrampInvariant == OnrampSpec => []OnrampInv
<1>1. OnrampInv /\ [OnrampNext]_onrampVars => OnrampInv'
  <2> SUFFICES ASSUME OnrampInv, [OnrampNext]_onrampVars  PROVE OnrampInv'  OBVIOUS
  <2>1. CASE OnrampNext  BY <2>1, OnrampStep
  <2>2. CASE UNCHANGED onrampVars
    <3>1. UNCHANGED <<rlpx, rlpxt, header, is_connected, checking, written, published, overlapped, crashed>>
      BY <2>2 DEF onrampVars
    <3>2. is_connected' \in BOOLEAN /\ checking' \in Nat /\ written' \in Nat /\ crashed' \in BOOLEAN  BY <3>1, Typed
    <3> QED BY <3>1, <3>2, NoneChanged
  <2> QED BY <2>1, <2>2
<1> QED BY <1>1, OnrampInitial, PTL DEF OnrampSpec

(* Nothing left to read of a whole chain: the last frame was read.         *)
LEMMA AllRead ==
  ASSUME OnrampInv, NEW t \in ChainNodes, rlpx[t].tcp = "open", rlpx[t].unread = <<>>, rlpx[t].sealed > 0
  PROVE  rlpx[t].got = rlpx[t].sealed - 1
<1> DEFINE r == rlpx[t]  b == r.buf  k == Len(b)
<1>1. /\ r \in Rlpx /\ b \in Seq(Unit) /\ k \in Nat /\ r.sealed \in Nat /\ r.ingress_mac \in Nat /\ r.got \in Nat
      /\ r.bytes_remaining \in Nat /\ r.sealed > 0 /\ r.unread = <<>>
  BY Typed DEF Rlpx
<1>2. Shape(r, b \o r.unread) /\ (r.state # "Idle" => r.bytes_remaining > 0)  BY DEF OnrampInv, Sound
<1>3. b \o r.unread = b  BY <1>1
<1>4. InFrames(r, b)  BY <1>1, <1>2, <1>3 DEF Shape, Authenticating
<1> HIDE DEF r
<1>5. b = <<>>
  <2> SUFFICES ASSUME b # <<>> PROVE FALSE  OBVIOUS
  <2>1. k > 0 /\ k \in 1 .. k /\ 1 \in 1 .. k  BY <1>1
  <2>2. /\ \A i \in 1 .. k : WellFormed(b[i])
        /\ \A i \in 1 .. k - 1 : Follows(b[i], b[i + 1])
        /\ b[1].n = 1 /\ b[k].part = "frame" /\ b[k].n = b[k].of
    BY <1>4 DEF InFrames, Chain
  <2>3. r.bytes_remaining > 0  BY <1>2, <1>4 DEF InFrames
  <2>4. b[1] \in Unit /\ b[k] \in Unit /\ WellFormed(b[1]) /\ WellFormed(b[k])  BY <1>1, <2>1, <2>2
  <2>5. CASE AtHeader(r, b)
    <3>2. k + r.bytes_remaining = 2 /\ b[1].part = "header"  BY <2>5 DEF AtHeader, HeaderSize
    <3>1. b[1].part = "header" /\ k = 1
      <4> HIDE DEF k, b
      <4> QED BY <1>1, <2>1, <2>3, <3>2
    <3> QED BY <2>2, <3>1
  <2>6. CASE AtFrame(r, b)
    <3>1. b[1].part = "frame" /\ k + r.bytes_remaining = Size(b[1].m)  BY <2>6 DEF AtFrame
    <3>2. Size(b[1].m) \in 1 .. 2 /\ b[1].of = Size(b[1].m)  BY <2>4, <3>1, UnitSizes
    <3>3. k = 1 /\ b[1].of = 2
      <4> HIDE DEF k, b
      <4> QED BY <1>1, <2>1, <2>3, <3>1, <3>2
    <3> QED BY <2>2, <3>3
  <2> QED BY <1>4, <2>5, <2>6 DEF InFrames
<1>6. r.ingress_mac + 1 = 2 * r.sealed + 1  BY <1>4, <1>5 DEF InFrames, Chain
<1>7. r.state = "RecvHeaderWait" /\ r.ingress_mac = 2 * (r.got + 1)
  <2>1. ~AtFrame(r, b)  BY <1>5 DEF AtFrame
  <2>2. r.ingress_mac = 2 * r.sealed  BY <1>1, <1>6
  <2>3. r.ingress_mac # 0  BY <1>1, <2>2
  <2> QED BY <1>4, <2>1, <2>3 DEF InFrames
<1>8. r.got = r.sealed - 1  BY <1>1, <1>6, <1>7
<1> QED BY <1>8 DEF r

(* However the stream of the node is cut into chunks, every frame of its   *)
(* is read and none is refused, unless the first chunk was taken for what  *)
(* it was not (RlpxTransport::did_recv).                                   *)
THEOREM FramesAsSentAlways == OnrampSpec => []FramesAsSent
<1>1. OnrampInv => FramesAsSent
  <2> SUFFICES ASSUME OnrampInv  PROVE FramesAsSent  OBVIOUS
  <2>1. \A t \in ChainNodes : rlpx[t].failed => rlpx[t].guessed  BY DEF OnrampInv, Sound
  <2> QED BY <2>1, AllRead DEF FramesAsSent
<1> QED BY <1>1, OnrampInvariant, PTL

(* The transport that the network's blocks go to has its TcpTransport, and *)
(* is the only connection of a node that never had two (OnRamp::rlpxt).    *)
THEOREM NodePointerLiveAlways == OnrampSpec => []NodePointerLive
<1>1. OnrampInv => NodePointerLive
  BY DEF OnrampInv, NodePointerLive, Present
<1> QED BY <1>1, OnrampInvariant, PTL

(* A block put together of a headers and a bodies message is of one block, *)
(* its header stripped of its prefix once (OnRamp::header).                *)
THEOREM BlocksWholeAlways == OnrampSpec => []BlocksWhole
<1>1. OnrampInv => BlocksWhole
  BY DEF OnrampInv, BlocksWhole, Whole
<1> QED BY <1>1, OnrampInvariant, PTL

=============================================================================
