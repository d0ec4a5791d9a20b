-------------------------- MODULE CutThrough_proofs --------------------------
(***************************************************************************)
(* Proofs about CutThrough: no stream id is lost or taken twice, no        *)
(* message is relayed to a subscriber more often than it is listed, and    *)
(* where no peer that relays something loses its connection, every stream  *)
(* carries one message at a time and every id in use is owed to one.       *)
(***************************************************************************)
EXTENDS CutThrough, FiniteSetTheorems, SequenceTheorems, TLAPS

-----------------------------------------------------------------------------
(* Lists as sets                                                           *)

(* The elements of a sequence.                                             *)
LEMMA Elements ==
  ASSUME NEW S, NEW s \in Seq(S)
  PROVE  ToSet(s) = {s[i] : i \in 1 .. Len(s)} /\ ToSet(s) \subseteq S /\ DOMAIN s = 1 .. Len(s)
<1>1. DOMAIN s = 1 .. Len(s) /\ \A i \in 1 .. Len(s) : s[i] \in S
  BY LenProperties, ElementOfSeq
<1>. QED BY <1>1 DEF ToSet

(* A finite set put in some order: each element once.                      *)
LEMMA Ordered ==
  ASSUME NEW S, IsFiniteSet(S)
  PROVE  SetToSeq(S) \in Seq(S) /\ ToSet(SetToSeq(S)) = S /\ IsInjective(SetToSeq(S))
<1>. DEFINE n == Cardinality(S)  s == SetToSeq(S)
<1>1. n \in Nat /\ ExistsBijection(1 .. n, S)
  BY FS_CardinalityType
<1>2. \E f \in [1 .. n -> S] : IsInjective(f)
  BY <1>1 DEF ExistsBijection, Bijection, Injection
<1>3. s \in [1 .. n -> S] /\ IsInjective(s)
  BY <1>2 DEF SetToSeq
<1>. HIDE DEF s
<1>4. s \in Injection(1 .. n, S)
  BY <1>3 DEF Injection
<1>5. Cardinality(1 .. n) = Cardinality(S)
  BY <1>1, FS_Interval
<1>6. s \in Surjection(1 .. n, S)
  BY <1>4, <1>5, FS_Injection
<1>7. \A t \in S : \E i \in 1 .. n : s[i] = t
  BY <1>6 DEF Surjection
<1>8. ToSet(s) = S
  BY <1>3, <1>7 DEF ToSet
<1>9. s \in Seq(S)
  BY <1>1, <1>3, SeqDef
<1>. QED BY <1>3, <1>8, <1>9 DEF s

(* The first element taken off a list without repetitions.                 *)
LEMMA FirstTaken ==
  ASSUME NEW S, NEW s \in Seq(S), s # <<>>, IsInjective(s)
  PROVE  /\ Head(s) \in ToSet(s) /\ Tail(s) \in Seq(S)
         /\ ToSet(Tail(s)) = ToSet(s) \ {Head(s)} /\ IsInjective(Tail(s))
<1>1. Len(s) \in Nat \ {0} /\ DOMAIN s = 1 .. Len(s)
  BY EmptySeq, LenProperties
<1>2. /\ Tail(s) \in Seq(S) /\ Len(Tail(s)) = Len(s) - 1 /\ Head(s) = s[1]
      /\ \A i \in 1 .. Len(Tail(s)) : Tail(s)[i] = s[i + 1]
  BY HeadTailProperties
<1>3. DOMAIN Tail(s) = 1 .. Len(s) - 1 /\ ToSet(Tail(s)) = {Tail(s)[i] : i \in 1 .. Len(s) - 1}
  BY <1>2, Elements
<1>4. ToSet(s) = {s[i] : i \in 1 .. Len(s)}
  BY Elements
<1>5. Head(s) \in ToSet(s)
  BY <1>1, <1>2, <1>4
<1>6. \A i, j \in 1 .. Len(s) : s[i] = s[j] => i = j
  BY <1>1 DEF IsInjective
<1>7. IsInjective(Tail(s))
  <2>1. SUFFICES ASSUME NEW i \in DOMAIN Tail(s), NEW j \in DOMAIN Tail(s), Tail(s)[i] = Tail(s)[j]
                 PROVE  i = j
    BY DEF IsInjective
  <2>2. i \in 1 .. Len(s) - 1 /\ j \in 1 .. Len(s) - 1
    BY <1>3
  <2>3. s[i + 1] = s[j + 1]
    BY <1>2, <2>1, <2>2
  <2>4. i + 1 \in 1 .. Len(s) /\ j + 1 \in 1 .. Len(s)
    BY <1>1, <2>2
  <2>. QED BY <1>6, <2>2, <2>3, <2>4
<1>8. ToSet(Tail(s)) = ToSet(s) \ {Head(s)}
  <2>1. ASSUME NEW x \in ToSet(Tail(s)) PROVE x \in ToSet(s) \ {Head(s)}
    <3>1. PICK i \in 1 .. Len(s) - 1 : x = s[i + 1]
      BY <1>2, <1>3
    <3>2. i + 1 \in 1 .. Len(s) /\ 1 \in 1 .. Len(s) /\ i + 1 # 1
      BY <1>1
    <3>. QED BY <1>2, <1>4, <1>6, <3>1, <3>2
  <2>2. ASSUME NEW x \in ToSet(s) \ {Head(s)} PROVE x \in ToSet(Tail(s))
    <3>1. PICK i \in 1 .. Len(s) : x = s[i]
      BY <1>4
    <3>2. i # 1
      BY <1>2, <3>1
    <3>3. i - 1 \in 1 .. Len(s) - 1 /\ (i - 1) + 1 = i
      BY <1>1, <3>2
    <3>4. Tail(s)[i - 1] = x
      BY <1>2, <3>1, <3>3
    <3>. QED BY <1>3, <3>3, <3>4
  <2>. QED BY <2>1, <2>2
<1>. QED BY <1>2, <1>5, <1>7, <1>8

(* A list put behind another that has none of its elements.                *)
LEMMA PutBehind ==
  ASSUME NEW S, NEW s \in Seq(S), NEW t \in Seq(S)
  PROVE  /\ s \o t \in Seq(S) /\ ToSet(s \o t) = ToSet(s) \cup ToSet(t)
         /\ IsInjective(s) /\ IsInjective(t) /\ ToSet(s) \cap ToSet(t) = {} => IsInjective(s \o t)
<1>. DEFINE u == s \o t  m == Len(s)  n == Len(t)
<1>1. /\ u \in Seq(S) /\ Len(u) = m + n
      /\ \A i \in 1 .. m + n : u[i] = IF i <= m THEN s[i] ELSE t[i - m]
  BY ConcatProperties
<1>2. /\ m \in Nat /\ n \in Nat /\ DOMAIN s = 1 .. m /\ DOMAIN t = 1 .. n /\ DOMAIN u = 1 .. m + n
  BY <1>1, LenProperties
<1>3. /\ ToSet(s) = {s[i] : i \in 1 .. m} /\ ToSet(t) = {t[i] : i \in 1 .. n}
      /\ ToSet(u) = {u[i] : i \in 1 .. m + n}
  BY <1>1, <1>2 DEF ToSet
<1>. HIDE DEF u, m, n
<1>4. \A i \in 1 .. m : i \in 1 .. m + n /\ u[i] = s[i]
  BY <1>1, <1>2
<1>5. \A i \in 1 .. n : m + i \in 1 .. m + n /\ u[m + i] = t[i]
  <2>1. SUFFICES ASSUME NEW i \in 1 .. n PROVE m + i \in 1 .. m + n /\ u[m + i] = t[i]
    OBVIOUS
  <2>2. m + i \in 1 .. m + n /\ ~(m + i <= m) /\ (m + i) - m = i
    BY <1>2
  <2>. QED BY <1>1, <2>2
<1>6. \A i \in 1 .. m + n : i \in 1 .. m \/ (i - m \in 1 .. n /\ u[i] = t[i - m])
  BY <1>1, <1>2
<1>7. ToSet(u) = ToSet(s) \cup ToSet(t)
  <2>1. ASSUME NEW x \in ToSet(u) PROVE x \in ToSet(s) \cup ToSet(t)
    <3>1. PICK i \in 1 .. m + n : x = u[i]
      BY <1>3
    <3>2. CASE i \in 1 .. m
      BY <1>3, <1>4, <3>1, <3>2
    <3>3. CASE i - m \in 1 .. n /\ u[i] = t[i - m]
      BY <1>3, <3>1, <3>3
    <3>. QED BY <1>6, <3>2, <3>3
  <2>2. ASSUME NEW x \in ToSet(s) PROVE x \in ToSet(u)
    BY <1>3, <1>4
  <2>3. ASSUME NEW x \in ToSet(t) PROVE x \in ToSet(u)
    BY <1>3, <1>5
  <2>. QED BY <2>1, <2>2, <2>3
<1>8. ASSUME IsInjective(s), IsInjective(t), ToSet(s) \cap ToSet(t) = {}
      PROVE  IsInjective(u)
  <2>1. SUFFICES ASSUME NEW i \in 1 .. m + n, NEW j \in 1 .. m + n, u[i] = u[j]
                 PROVE  i = j
    BY <1>2 DEF IsInjective
  <2>2. \A k, l \in 1 .. m : s[k] = s[l] => k = l
    BY <1>2, <1>8 DEF IsInjective
  <2>3. \A k, l \in 1 .. n : t[k] = t[l] => k = l
    BY <1>2, <1>8 DEF IsInjective
  <2>4. \A k \in 1 .. m, l \in 1 .. n : s[k] # t[l]
    BY <1>3, <1>8
  <2>5. CASE i \in 1 .. m /\ j \in 1 .. m
    BY <1>4, <2>1, <2>2, <2>5
  <2>6. CASE i \in 1 .. m /\ j \notin 1 .. m
    BY <1>4, <1>6, <2>1, <2>4, <2>6
  <2>7. CASE i \notin 1 .. m /\ j \in 1 .. m
    BY <1>4, <1>6, <2>1, <2>4, <2>7
  <2>8. CASE i \notin 1 .. m /\ j \notin 1 .. m
    <3>1. i - m = j - m
      BY <1>6, <2>1, <2>3, <2>8
    <3>. QED BY <1>2, <3>1
  <2>. QED BY <2>5, <2>6, <2>7, <2>8
<1>. QED BY <1>1, <1>7, <1>8 DEF u

-----------------------------------------------------------------------------
(* The ids of the streams                                                  *)

(* What the steps carry along; and that no id is lost or taken twice.      *)
Books == [reserve : [Peers -> Seq(Ids)], used : [Peers -> SUBSET Ids],
          stream : [Peers -> [Ids -> Frames]], pairs : Seq(Peers \X Ids)]
Conserved(c) ==
  \A p \in Peers : /\ ToSet(c.reserve[p]) \cap c.used[p] = {}
                   /\ ToSet(c.reserve[p]) \cup c.used[p] = Ids
                   /\ IsInjective(c.reserve[p])

(* The ids are finitely many, as are the peers.                            *)
LEMMA IdsFinite == IsFiniteSet(Ids) /\ IsFiniteSet(Peers) /\ ReserveIds \in Seq(Ids) /\ IsInjective(ReserveIds)
<1>1. ReserveIds \in Seq(Nat)
  BY CutThroughAssumption DEF CutThroughAssumption
<1>2. Len(ReserveIds) \in Nat /\ DOMAIN ReserveIds = 1 .. Len(ReserveIds)
  BY <1>1, LenProperties
<1>3. ReserveIds \in [1 .. Len(ReserveIds) -> Ids]
  BY <1>1, <1>2, LenProperties DEF Ids, ToSet
<1>4. ReserveIds \in Surjection(1 .. Len(ReserveIds), Ids)
  BY <1>2, <1>3 DEF Ids, ToSet, Surjection
<1>5. IsFiniteSet(1 .. Len(ReserveIds))
  BY <1>2, FS_Interval
<1>6. IsFiniteSet(Ids)
  BY <1>4, <1>5, FS_Surjection
<1>7. ReserveIds \in Seq(Ids)
  BY <1>2, <1>3, SeqDef
<1>. QED BY <1>6, <1>7, CutThroughAssumption DEF CutThroughAssumption

(* What a subscriber makes of what it reads is a frame.                    *)
LEMMA FrameSteps ==
  ASSUME NEW f \in Frames, NEW m \in Messages
  PROVE  /\ None \in Frames /\ Begun(f, m) \in Frames /\ Continued(f, m) \in Frames
         /\ Whole(f, m) \in Frames /\ Frame(m) \in Frames
<1>1. Pieces \in Nat \ {0}
  BY CutThroughAssumption DEF CutThroughAssumption
<1>2. f.message \in Messages \cup {"none", "garbled"} /\ f.left \in 0 .. Pieces
  BY DEF Frames
<1>3. None \in Frames /\ Frame(m) \in Frames
  BY <1>1 DEF None, Frame, Frames
<1>4. [f EXCEPT !.message = "garbled"] \in Frames
  BY DEF Frames
<1>5. f.left > 1 => f.left - 1 \in 0 .. Pieces
  BY <1>1, <1>2
<1>6. f.left > 1 => [f EXCEPT !.left = @ - 1] \in Frames
  BY <1>5 DEF Frames
<1>. QED BY <1>3, <1>4, <1>6 DEF Begun, Continued, Whole

(* cut_through_send_start to some peers takes ids off their lists.         *)
LEMMA StartsKeeps ==
  ASSUME NEW c \in Books, Conserved(c), NEW targets \in SUBSET Peers, NEW m \in Messages
  PROVE  /\ Starts(c, targets, m) \in Books /\ Conserved(Starts(c, targets, m))
         /\ ToSet(Starts(c, targets, m).pairs) \subseteq
              ToSet(c.pairs) \cup {<<p, Head(c.reserve[p])>> : p \in targets}
<1>. DEFINE able == {p \in targets : c.reserve[p] # <<>>}
            pairs == {<<p, Head(c.reserve[p])>> : p \in able}
            sent == {pair \in pairs : up[pair[1]] = "Up"}
            r == [p \in Peers |-> IF p \in able THEN Tail(c.reserve[p]) ELSE c.reserve[p]]
            u == [p \in Peers |-> IF p \in able THEN c.used[p] \cup {Head(c.reserve[p])} ELSE c.used[p]]
            s == OnStreams(c.stream, sent, LAMBDA f : Begun(f, m))
            l == c.pairs \o SetToSeq(sent)
            d == Starts(c, targets, m)
<1>1. d.reserve = r /\ d.used = u /\ d.stream = s /\ d.pairs = l
      /\ d = [reserve |-> r, used |-> u, stream |-> s, pairs |-> l]
  BY DEF Starts
<1>2. /\ c.reserve \in [Peers -> Seq(Ids)] /\ c.used \in [Peers -> SUBSET Ids]
      /\ c.stream \in [Peers -> [Ids -> Frames]] /\ c.pairs \in Seq(Peers \X Ids)
  BY DEF Books
<1>3. ASSUME NEW p \in Peers
      PROVE  /\ r[p] \in Seq(Ids) /\ u[p] \in SUBSET Ids
             /\ ToSet(r[p]) \cap u[p] = {} /\ ToSet(r[p]) \cup u[p] = Ids /\ IsInjective(r[p])
  <2>1. /\ ToSet(c.reserve[p]) \cap c.used[p] = {} /\ ToSet(c.reserve[p]) \cup c.used[p] = Ids
        /\ IsInjective(c.reserve[p]) /\ c.reserve[p] \in Seq(Ids) /\ c.used[p] \in SUBSET Ids
    BY <1>2 DEF Conserved
  <2>2. CASE p \notin able
    BY <2>1, <2>2
  <2>3. CASE p \in able
    <3>1. c.reserve[p] # <<>>
      BY <2>3
    <3>2. /\ Head(c.reserve[p]) \in ToSet(c.reserve[p]) /\ Tail(c.reserve[p]) \in Seq(Ids)
          /\ ToSet(Tail(c.reserve[p])) = ToSet(c.reserve[p]) \ {Head(c.reserve[p])}
          /\ IsInjective(Tail(c.reserve[p]))
      BY <2>1, <3>1, FirstTaken
    <3>3. r[p] = Tail(c.reserve[p]) /\ u[p] = c.used[p] \cup {Head(c.reserve[p])}
      BY <2>3
    <3>. HIDE DEF r, u
    <3>. QED BY <2>1, <3>2, <3>3
  <2>. QED BY <2>2, <2>3
<1>4. r \in [Peers -> Seq(Ids)] /\ u \in [Peers -> SUBSET Ids]
  BY <1>3
<1>5. s \in [Peers -> [Ids -> Frames]]
  <2>1. \A p \in Peers, id \in Ids : c.stream[p][id] \in Frames /\ Begun(c.stream[p][id], m) \in Frames
    BY <1>2, FrameSteps
  <2>. QED BY <2>1 DEF OnStreams
<1>6. sent \subseteq Peers \X Ids /\ IsFiniteSet(sent)
  <2>1. IsFiniteSet(Peers \X Ids)
    BY IdsFinite, FS_Product
  <2>2. \A p \in able : Head(c.reserve[p]) \in Ids
    BY <1>2, HeadTailProperties
  <2>3. sent \subseteq Peers \X Ids
    BY <2>2
  <2>. QED BY <2>1, <2>3, FS_Subset
<1>. HIDE DEF sent
<1>7. SetToSeq(sent) \in Seq(Peers \X Ids) /\ ToSet(SetToSeq(sent)) = sent
  <2>1. SetToSeq(sent) \in Seq(sent) /\ ToSet(SetToSeq(sent)) = sent
    BY <1>6, Ordered
  <2>. QED BY <1>6, <2>1, SeqMonotonic
<1>8. l \in Seq(Peers \X Ids) /\ ToSet(l) = ToSet(c.pairs) \cup sent
  BY <1>2, <1>7, PutBehind
<1>9. d \in Books
  BY <1>1, <1>4, <1>5, <1>8 DEF Books
<1>10. Conserved(d)
  BY <1>1, <1>3 DEF Conserved
<1>11. sent \subseteq {<<p, Head(c.reserve[p])>> : p \in targets}
  BY DEF sent
<1>. QED BY <1>1, <1>8, <1>9, <1>10, <1>11

(* cut_through_send_end puts ids back.                                     *)
LEMMA EndedKeeps ==
  ASSUME NEW c \in Books, Conserved(c), NEW pairs
  PROVE  /\ Ended(c, pairs) \in Books /\ Conserved(Ended(c, pairs))
         /\ Ended(c, pairs).stream = c.stream
<1>. DEFINE Mine(p) == {pair[2] : pair \in {q \in pairs : q[1] = p}} \cap c.used[p]
            r == [p \in Peers |-> c.reserve[p] \o SetToSeq(Mine(p))]
            u == [p \in Peers |-> c.used[p] \ Mine(p)]
            d == Ended(c, pairs)
<1>1. /\ c.reserve \in [Peers -> Seq(Ids)] /\ c.used \in [Peers -> SUBSET Ids]
      /\ c.stream \in [Peers -> [Ids -> Frames]] /\ c.pairs \in Seq(Peers \X Ids)
  BY DEF Books
<1>2. /\ d = [c EXCEPT !.used = u, !.reserve = r]
  BY DEF Ended
<1>. HIDE DEF d
<1>3. ASSUME NEW p \in Peers
      PROVE  /\ r[p] \in Seq(Ids) /\ u[p] \in SUBSET Ids
             /\ ToSet(r[p]) \cap u[p] = {} /\ ToSet(r[p]) \cup u[p] = Ids /\ IsInjective(r[p])
  <2>1. /\ ToSet(c.reserve[p]) \cap c.used[p] = {} /\ ToSet(c.reserve[p]) \cup c.used[p] = Ids
        /\ IsInjective(c.reserve[p]) /\ c.reserve[p] \in Seq(Ids) /\ c.used[p] \in SUBSET Ids
    BY <1>1 DEF Conserved
  <2>2. Mine(p) \subseteq c.used[p]
    OBVIOUS
  <2>. DEFINE back == Mine(p)
  <2>3. r[p] = c.reserve[p] \o SetToSeq(back) /\ u[p] = c.used[p] \ back
    OBVIOUS
  <2>. HIDE DEF r, u, back
  <2>4. back \subseteq c.used[p]
    BY <2>2 DEF back
  <2>5. IsFiniteSet(back)
    BY <2>1, <2>4, IdsFinite, FS_Subset
  <2>6. SetToSeq(back) \in Seq(back) /\ ToSet(SetToSeq(back)) = back /\ IsInjective(SetToSeq(back))
    BY <2>5, Ordered
  <2>7. SetToSeq(back) \in Seq(Ids)
    BY <2>1, <2>4, <2>6, SeqMonotonic
  <2>8. /\ r[p] \in Seq(Ids) /\ ToSet(r[p]) = ToSet(c.reserve[p]) \cup back
        /\ ToSet(c.reserve[p]) \cap back = {} => IsInjective(r[p])
    BY <2>1, <2>3, <2>6, <2>7, PutBehind
  <2>. QED BY <2>1, <2>3, <2>4, <2>8
<1>4. r \in [Peers -> Seq(Ids)] /\ u \in [Peers -> SUBSET Ids]
  BY <1>3
<1>. HIDE DEF r, u
<1>5. d \in Books /\ d.used = u /\ d.reserve = r /\ d.stream = c.stream
  BY <1>2, <1>4 DEF Books
<1>. QED BY <1>3, <1>5 DEF Conserved, d

(* What the bytes passed on leave alone.                                   *)
LEMMA PassedKeeps ==
  ASSUME NEW c \in Books, Conserved(c), NEW pairs, NEW m \in Messages
  PROVE  /\ PassOn(c, pairs, m) \in Books /\ Conserved(PassOn(c, pairs, m))
         /\ PassOn(c, pairs, m).pairs = c.pairs
<1>. DEFINE sent == {pair \in pairs : up[pair[1]] = "Up"}
            s == OnStreams(c.stream, sent, LAMBDA f : Continued(f, m))
            d == PassOn(c, pairs, m)
<1>1. c.stream \in [Peers -> [Ids -> Frames]]
  BY DEF Books
<1>2. s \in [Peers -> [Ids -> Frames]]
  <2>1. \A p \in Peers, id \in Ids : c.stream[p][id] \in Frames /\ Continued(c.stream[p][id], m) \in Frames
    BY <1>1, FrameSteps
  <2>. QED BY <2>1 DEF OnStreams
<1>3. d = [c EXCEPT !.stream = s]
  BY DEF PassOn
<1>. HIDE DEF s, d
<1>4. d \in Books /\ d.used = c.used /\ d.reserve = c.reserve /\ d.pairs = c.pairs
  BY <1>2, <1>3 DEF Books
<1>. QED BY <1>4 DEF Conserved, d

-----------------------------------------------------------------------------
(* The types and the ids                                                   *)

(* A message that is coming in has its entry in cut_through_map.           *)
Coming ==
  \A p \in Peers, id \in Ids : received[p][id].left > 0 =>
    received[p][id].message \in Messages /\ <<p, id>> \in DOMAIN relays
(* The inductive invariant of the ids.                                     *)
IdsInv == TypeOK /\ IdsConserved /\ Coming

(* The parts of the invariant a handler may leave alone.                   *)
DedupOK ==
  /\ message_id_set \subseteq Messages
  /\ message_id_events \in [0 .. Slots - 1 -> SUBSET Messages]
  /\ message_id_idx \in 0 .. Slots - 1
BooksOK ==
  /\ reserve \in [Peers -> Seq(Ids)] /\ used \in [Peers -> SUBSET Ids]
  /\ stream \in [Peers -> [Ids -> Frames]] /\ IdsConserved
ComingOK ==
  /\ received \in [Peers -> [Ids -> Frames]]
  /\ DOMAIN relays \subseteq Peers \X Ids /\ relays \in [DOMAIN relays -> Relays] /\ Coming
ConnsOK ==
  /\ up \in [Peers -> {"Up", "Closing", "None"}]
  /\ sol_conns \subseteq Solicited /\ unsol_conns \subseteq Unsolicited
  /\ flushing \in [Peers -> [Ids -> Nat]]

(* The invariant, by those parts.                                          *)
LEMMA Parts == /\ IdsInv <=> DedupOK /\ BooksOK /\ ComingOK /\ ConnsOK
               /\ DedupOK' /\ BooksOK' /\ ComingOK' /\ ConnsOK' => IdsInv'
BY DEF IdsInv, TypeOK, DedupOK, BooksOK, ComingOK, ConnsOK

(* A part of which nothing changes stays.                                  *)
LEMMA Kept ==
  /\ DedupOK /\ UNCHANGED dedup => DedupOK'
  /\ BooksOK /\ UNCHANGED <<ids, stream>> => BooksOK'
  /\ ComingOK /\ UNCHANGED <<received, relays>> => ComingOK'
  /\ ConnsOK /\ UNCHANGED <<up, sol_conns, unsol_conns, flushing>> => ConnsOK'
<1>1. DedupOK /\ UNCHANGED dedup => DedupOK'
  BY DEF DedupOK, dedup
<1>2. BooksOK /\ UNCHANGED <<ids, stream>> => BooksOK'
  BY DEF BooksOK, ids, IdsConserved
<1>3. ComingOK /\ UNCHANGED <<received, relays>> => ComingOK'
  BY DEF ComingOK, Coming
<1>4. ConnsOK /\ UNCHANGED <<up, sol_conns, unsol_conns, flushing>> => ConnsOK'
  BY DEF ConnsOK
<1>. QED BY <1>1, <1>2, <1>3, <1>4

(* The lists as they are before a step.                                    *)
LEMMA NowKeeps == ASSUME BooksOK PROVE Now \in Books /\ Conserved(Now) /\ Now.pairs = <<>> /\ ToSet(<<>>) = {}
<1>1. <<>> \in Seq(Peers \X Ids) /\ ToSet(<<>>) = {}
  BY Elements, EmptySeq DEF ToSet
<1>. QED BY <1>1 DEF BooksOK, IdsConserved, Now, Books, Conserved

(* A step that ends in well-kept books.                                    *)
LEMMA SetIdsKeeps ==
  ASSUME NEW c \in Books, Conserved(c), SetIds(c)
  PROVE  BooksOK'
BY DEF SetIds, Books, Conserved, BooksOK, IdsConserved

(* The last piece of a message ends its streams.                           *)
LEMMA FinishKeeps ==
  ASSUME NEW c \in Books, Conserved(c), NEW p, NEW id, Finish(p, id, c)
  PROVE  BooksOK'
<1>. DEFINE d == Ended(c, ToSet(c.pairs))
<1>1. d \in Books /\ Conserved(d)
  BY EndedKeeps
<1>. HIDE DEF d
<1>2. SetIds(d) \/ SetIds(c)
  BY DEF Finish, d
<1>. QED BY <1>1, <1>2, SetIdsKeeps

(* The node's messages are opened with both lists of subscribers.          *)
Opened(sol, unsol, m) == Starts(Starts(Now, sol, m), unsol, m)
(* That keeps the ids conserved, and takes the first free id of each.      *)
LEMMA OpenedKeeps ==
  ASSUME BooksOK, NEW sol \in SUBSET Peers, NEW unsol \in SUBSET Peers, NEW m \in Messages
  PROVE  /\ Opened(sol, unsol, m) \in Books /\ Conserved(Opened(sol, unsol, m))
         /\ ToSet(Opened(sol, unsol, m).pairs) \subseteq
              {<<p, Head(reserve[p])>> : p \in sol}
              \cup {<<p, Head(Starts(Now, sol, m).reserve[p])>> : p \in unsol}
<1>1. Now \in Books /\ Conserved(Now) /\ Now.pairs = <<>> /\ ToSet(<<>>) = {}
  BY NowKeeps
<1>. DEFINE c == Starts(Now, sol, m)
<1>2. /\ c \in Books /\ Conserved(c)
      /\ ToSet(c.pairs) \subseteq ToSet(Now.pairs) \cup {<<p, Head(Now.reserve[p])>> : p \in sol}
  BY <1>1, StartsKeeps
<1>3. Now.reserve = reserve
  BY DEF Now
<1>. HIDE DEF c
<1>4. /\ Starts(c, unsol, m) \in Books /\ Conserved(Starts(c, unsol, m))
      /\ ToSet(Starts(c, unsol, m).pairs) \subseteq
           ToSet(c.pairs) \cup {<<p, Head(c.reserve[p])>> : p \in unsol}
  BY <1>2, StartsKeeps
<1>. QED BY <1>1, <1>2, <1>3, <1>4 DEF c, Opened

(* A message taken is remembered.                                          *)
LEMMA RememberKeeps ==
  ASSUME DedupOK, NEW m \in Messages, Remember(m)
  PROVE  DedupOK'
BY DEF DedupOK, Remember

(* A piece counted.                                                        *)
LEMMA AdvanceKeeps ==
  ASSUME ComingOK, NEW p \in Peers, NEW id \in Ids, received[p][id].left > 0, Advance(p, id),
         DOMAIN relays' = DOMAIN relays, relays' \in [DOMAIN relays' -> Relays]
  PROVE  ComingOK'
<1>. DEFINE f == received[p][id]  g == Continued(f, f.message)
<1>1. f \in Frames /\ f.message \in Messages /\ received \in [Peers -> [Ids -> Frames]]
  BY DEF ComingOK, Coming
<1>2. g \in Frames
  BY <1>1, FrameSteps
<1>3. g.left > 0 => g.message \in Messages
  <2>1. g = None \/ g = [f EXCEPT !.left = @ - 1]
    BY DEF Continued
  <2>2. None.left = 0 /\ ~(0 > 0)
    BY DEF None
  <2>3. [f EXCEPT !.left = @ - 1].message = f.message
    BY <1>1 DEF Frames
  <2>. HIDE DEF g, f
  <2>. QED BY <1>1, <2>1, <2>2, <2>3
<1>4. received' = [received EXCEPT ![p][id] = g]
  BY DEF Advance
<1>. HIDE DEF f, g
<1>5. /\ received' \in [Peers -> [Ids -> Frames]]
      /\ \A q \in Peers, k \in Ids : received'[q][k] = IF q = p /\ k = id THEN g ELSE received[q][k]
  BY <1>1, <1>2, <1>4
<1>. QED BY <1>3, <1>5 DEF ComingOK, Coming, f

(* The entry of a message whose header was read.                           *)
LEMMA EntryKeeps ==
  ASSUME ComingOK, NEW r, r \in DOMAIN relays, NEW list \in Seq(Peers \X Ids),
         relays' = [relays EXCEPT ![r] =
           [[relays[r] EXCEPT !.header_recv = TRUE] EXCEPT !.subscribers = @ \o list]]
  PROVE  DOMAIN relays' = DOMAIN relays /\ relays' \in [DOMAIN relays' -> Relays]
<1>1. relays[r] \in Relays
  BY DEF ComingOK
<1>. DEFINE e == [relays[r] EXCEPT !.header_recv = TRUE]  d == [e EXCEPT !.subscribers = @ \o list]
<1>2. e \in Relays
  BY <1>1 DEF Relays
<1>. HIDE DEF e
<1>3. e.subscribers \o list \in Seq(Peers \X Ids)
  BY <1>2, ConcatProperties DEF Relays
<1>4. d \in Relays
  BY <1>2, <1>3 DEF Relays
<1>5. relays' = [relays EXCEPT ![r] = d]
  BY DEF e
<1>. HIDE DEF d
<1>. QED BY <1>4, <1>5 DEF ComingOK

(* The first piece of a message.                                           *)
LEMMA IdsHeader ==
  ASSUME IdsInv, NEW p \in Peers, NEW id \in Ids, Header(p, id)
  PROVE  IdsInv'
<1>. DEFINE m == received[p][id].message
            r == <<p, id>>
            entry == [relays[r] EXCEPT !.header_recv = TRUE]
            begun == Opened(Targets(sol_conns, p, m), Targets(unsol_conns, p, m), m)
            pairs == ToSet(begun.pairs)
<1>1. DedupOK /\ BooksOK /\ ComingOK /\ ConnsOK
  BY Parts
<1>2. m \in Messages /\ r \in DOMAIN relays /\ relays[r] \in Relays /\ received[p][id].left > 0
  BY <1>1 DEF Header, ComingOK, Coming
<1>3. UNCHANGED <<sol_conns, unsol_conns, flushing>>
  BY DEF Header
<1>4. entry \in Relays
  BY <1>2 DEF Relays
<1>. HIDE DEF m
<1>5. CASE /\ relays' = [relays EXCEPT ![r] = entry] /\ Advance(p, id)
           /\ UNCHANGED <<up, ids, stream, dedup, copies>>
  <2>1. DOMAIN relays' = DOMAIN relays /\ relays' \in [DOMAIN relays' -> Relays]
    BY <1>1, <1>4, <1>5 DEF ComingOK
  <2>. QED BY <1>1, <1>2, <1>3, <1>5, <2>1, AdvanceKeeps, Kept, Parts
<1>6. CASE /\ Remember(m) /\ relays' = [relays EXCEPT ![r] = entry]
           /\ up' = [up EXCEPT ![p] = "Closing"]
           /\ UNCHANGED <<received, ids, stream, copies>>
  <2>1. DOMAIN relays' = DOMAIN relays /\ relays' \in [DOMAIN relays' -> Relays]
    BY <1>1, <1>4, <1>6 DEF ComingOK
  <2>2. ComingOK'
    BY <1>1, <1>6, <2>1 DEF ComingOK, Coming
  <2>3. ConnsOK'
    BY <1>1, <1>3, <1>6 DEF ConnsOK
  <2>4. DedupOK'
    BY <1>1, <1>2, <1>6, RememberKeeps
  <2>. QED BY <1>1, <1>6, <2>2, <2>3, <2>4, Kept, Parts
<1>7. CASE /\ Remember(m) /\ Advance(p, id) /\ UNCHANGED up
           /\ relays' = [relays EXCEPT ![r] = [entry EXCEPT !.subscribers = @ \o begun.pairs]]
           /\ Finish(p, id, PassOn(begun, pairs, m))
  <2>. DEFINE sol == Targets(sol_conns, p, m)  unsol == Targets(unsol_conns, p, m)
  <2>1. sol \in SUBSET Peers /\ unsol \in SUBSET Peers
    BY <1>1, CutThroughAssumption DEF ConnsOK, CutThroughAssumption, Targets
  <2>. HIDE DEF sol, unsol
  <2>2. Opened(sol, unsol, m) \in Books /\ Conserved(Opened(sol, unsol, m))
    BY <1>1, <1>2, <2>1, OpenedKeeps
  <2>3. begun = Opened(sol, unsol, m)
    BY DEF sol, unsol
  <2>. HIDE DEF begun
  <2>. DEFINE c == PassOn(begun, pairs, m)
  <2>. HIDE DEF pairs
  <2>4. c \in Books /\ Conserved(c)
    BY <1>2, <2>2, <2>3, PassedKeeps
  <2>. HIDE DEF c
  <2>5. BooksOK'
    BY <1>7, <2>4, FinishKeeps DEF c
  <2>6. begun.pairs \in Seq(Peers \X Ids)
    BY <2>2, <2>3 DEF Books
  <2>7. DOMAIN relays' = DOMAIN relays /\ relays' \in [DOMAIN relays' -> Relays]
    BY <1>1, <1>2, <1>7, <2>6, EntryKeeps
  <2>8. ComingOK'
    BY <1>1, <1>2, <1>7, <2>7, AdvanceKeeps
  <2>9. DedupOK'
    BY <1>1, <1>2, <1>7, RememberKeeps
  <2>10. ConnsOK'
    BY <1>1, <1>3, <1>7, Kept
  <2>. QED BY <2>5, <2>8, <2>9, <2>10, Parts
<1>. QED BY <1>5, <1>6, <1>7 DEF Header, Opened, m

(* The later pieces.                                                       *)
LEMMA IdsBytes ==
  ASSUME IdsInv, NEW p \in Peers, NEW id \in Ids, Bytes(p, id)
  PROVE  IdsInv'
<1>. DEFINE m == received[p][id].message
            r == <<p, id>>
            list == relays[r].subscribers
            c == [PassOn(Now, Listed(r), m) EXCEPT !.pairs = list]
<1>1. DedupOK /\ BooksOK /\ ComingOK /\ ConnsOK
  BY Parts
<1>2. m \in Messages /\ r \in DOMAIN relays /\ relays[r] \in Relays /\ received[p][id].left > 0
  BY <1>1 DEF Bytes, ComingOK, Coming
<1>3. Now \in Books /\ Conserved(Now)
  BY <1>1, NowKeeps
<1>4. PassOn(Now, Listed(r), m) \in Books /\ Conserved(PassOn(Now, Listed(r), m))
  BY <1>2, <1>3, PassedKeeps
<1>5. list \in Seq(Peers \X Ids)
  BY <1>2 DEF Relays
<1>. DEFINE d == PassOn(Now, Listed(r), m)
<1>6. d \in Books /\ Conserved(d) /\ c = [d EXCEPT !.pairs = list]
  BY <1>4
<1>. HIDE DEF d, list, c
<1>7. c \in Books /\ c.reserve = d.reserve /\ c.used = d.used
  BY <1>5, <1>6 DEF Books
<1>8. Conserved(c)
  BY <1>6, <1>7 DEF Conserved
<1>9. BooksOK'
  <2>1. Finish(p, id, c)
    BY DEF Bytes, c, list
  <2>. QED BY <1>7, <1>8, <2>1, FinishKeeps
<1>10. ComingOK'
  <2>1. Advance(p, id) /\ relays' = relays
    BY DEF Bytes
  <2>2. DOMAIN relays' = DOMAIN relays /\ relays' \in [DOMAIN relays' -> Relays]
    BY <1>1, <2>1 DEF ComingOK
  <2>. QED BY <1>1, <1>2, <2>1, <2>2, AdvanceKeeps
<1>11. ConnsOK'
  BY <1>1 DEF Bytes, CloseFailed, ConnsOK
<1>12. DedupOK'
  BY <1>1, Kept DEF Bytes
<1>. QED BY <1>9, <1>10, <1>11, <1>12, Parts

(* A message of the node's own.                                            *)
LEMMA IdsPublish ==
  ASSUME IdsInv, NEW m \in Messages, send_message_on_channel(m)
  PROVE  IdsInv'
<1>. DEFINE begun == Opened(sol_conns, unsol_conns, m)
            pairs == ToSet(begun.pairs)
            s == OnStreams(begun.stream, pairs, LAMBDA f : Whole(f, m))
            written == [begun EXCEPT !.stream = s]
<1>1. DedupOK /\ BooksOK /\ ComingOK /\ ConnsOK
  BY Parts
<1>2. begun \in Books /\ Conserved(begun)
  <2>1. sol_conns \in SUBSET Peers /\ unsol_conns \in SUBSET Peers
    BY <1>1, CutThroughAssumption DEF ConnsOK, CutThroughAssumption
  <2>. QED BY <1>1, <2>1, OpenedKeeps
<1>3. Remember(m) /\ SetIds(Ended(written, pairs))
      /\ UNCHANGED <<up, sol_conns, unsol_conns, received, relays, flushing>>
  BY DEF send_message_on_channel, Opened
<1>4. s \in [Peers -> [Ids -> Frames]]
  <2>1. begun.stream \in [Peers -> [Ids -> Frames]]
    BY <1>2 DEF Books
  <2>. HIDE DEF begun
  <2>2. \A p \in Peers, id \in Ids : begun.stream[p][id] \in Frames /\ Whole(begun.stream[p][id], m) \in Frames
    BY <2>1, FrameSteps
  <2>. QED BY <2>2 DEF OnStreams
<1>. HIDE DEF begun, s
<1>5. written \in Books /\ written.reserve = begun.reserve /\ written.used = begun.used
  BY <1>2, <1>4 DEF Books
<1>6. Conserved(written)
  BY <1>2, <1>5 DEF Conserved
<1>. HIDE DEF written
<1>7. Ended(written, pairs) \in Books /\ Conserved(Ended(written, pairs))
  BY <1>5, <1>6, EndedKeeps
<1>8. BooksOK'
  BY <1>3, <1>7, SetIdsKeeps
<1>. QED BY <1>1, <1>3, <1>8, RememberKeeps, Kept, Parts

(* The frames of some streams dropped by their subscribers.                *)
LEMMA FlushKeeps ==
  ASSUME BooksOK, ConnsOK, NEW pairs, FlushAll(pairs), UNCHANGED ids,
         up' \in [Peers -> {"Up", "Closing", "None"}],
         sol_conns' \subseteq sol_conns, unsol_conns' \subseteq unsol_conns
  PROVE  BooksOK' /\ ConnsOK'
<1>1. None \in Frames
  BY CutThroughAssumption DEF CutThroughAssumption, None, Frames
<1>2. stream \in [Peers -> [Ids -> Frames]] /\ flushing \in [Peers -> [Ids -> Nat]]
  BY DEF BooksOK, ConnsOK
<1>3. stream' \in [Peers -> [Ids -> Frames]]
  BY <1>1, <1>2 DEF FlushAll, OnStreams
<1>4. flushing' \in [Peers -> [Ids -> Nat]]
  BY <1>2 DEF FlushAll, OnStreams
<1>5. BooksOK'
  BY <1>3 DEF BooksOK, ids, IdsConserved
<1>. QED BY <1>4, <1>5 DEF ConnsOK

(* A set of numbers has a least.                                           *)
LEMMA LeastNumber ==
  ASSUME NEW T \in SUBSET Nat, T # {}
  PROVE  \E x \in T : \A y \in T : x <= y
<1>. DEFINE R == OpToRel(<, Nat)
<1>1. \A x, y \in Nat : <<x, y>> \in R <=> x < y
  BY DEF OpToRel
<1>2. IsWellFoundedOn(R, Nat)
  BY NatLessThanWellFounded
<1>. HIDE DEF R
<1>3. PICK x \in T : \A y \in T : ~(<<y, x>> \in R)
  BY <1>2, WFMin
<1>4. ASSUME NEW y \in T PROVE x <= y
  <2>1. ~(y < x)
    BY <1>1, <1>3
  <2>. QED BY <2>1
<1>. QED BY <1>4

(* A list of subscribers a peer was taken out of.                          *)
LEMMA WithoutList ==
  ASSUME NEW S, NEW list \in Seq(S), NEW p
  PROVE  Without(list, p) \in Seq(S)
<1>. DEFINE I == {i \in 1 .. Len(list) : list[i][1] = p}
            first == SelectInSeq(list, LAMBDA pair : pair[1] = p)
<1>1. first = (IF I # {} THEN Min(I) ELSE 0)
  BY DEF SelectInSeq
<1>2. I # {} => Min(I) \in I
  <2>1. SUFFICES ASSUME I # {} PROVE Min(I) \in I
    OBVIOUS
  <2>2. I \subseteq Nat
    BY LenProperties
  <2>. HIDE DEF I
  <2>3. \E x \in I : \A y \in I : x <= y
    BY <2>1, <2>2, LeastNumber
  <2>. QED BY <2>3 DEF Min
<1>3. Len(list) \in Nat /\ \A i \in 1 .. Len(list) : list[i] \in S
  BY LenProperties, ElementOfSeq
<1>4. first \in 0 .. Len(list)
  BY <1>1, <1>2, <1>3
<1>. HIDE DEF first
<1>5. CASE first = 0
  BY <1>5 DEF Without, first
<1>6. CASE first # 0
  <2>1. SubSeq(list, 1, first - 1) \in Seq(S)
    <3>1. \A i \in 1 .. first - 1 : list[i] \in S
      BY <1>3, <1>4
    <3>2. 1 \in Int /\ first - 1 \in Int
      BY <1>3, <1>4
    <3>. QED BY <3>1, <3>2, SubSeqProperties
  <2>2. SubSeq(list, first + 1, Len(list)) \in Seq(S)
    <3>1. \A i \in first + 1 .. Len(list) : list[i] \in S
      BY <1>3, <1>4
    <3>2. first + 1 \in Int /\ Len(list) \in Int
      BY <1>3, <1>4
    <3>. QED BY <3>1, <3>2, SubSeqProperties
  <2>3. RemoveAt(list, first) \in Seq(S)
    BY <2>1, <2>2, ConcatProperties DEF RemoveAt
  <2>4. Without(list, p) = RemoveAt(list, first)
    BY <1>6 DEF Without, first
  <2>. QED BY <2>3, <2>4
<1>. QED BY <1>5, <1>6

(* A connection that ends.                                                 *)
LEMMA IdsClosed ==
  ASSUME IdsInv, NEW p \in Peers, did_close(p)
  PROVE  IdsInv'
<1>. DEFINE flushed == {r \in DOMAIN relays : r[1] = p /\ r[2] \in used[p]}
            kept == DOMAIN relays \ flushed
<1>1. DedupOK /\ BooksOK /\ ComingOK /\ ConnsOK
  BY Parts
<1>2. /\ up' = [up EXCEPT ![p] = "None"]
      /\ sol_conns' = sol_conns \ {p} /\ unsol_conns' = unsol_conns \ {p}
      /\ FlushAll(UNION {Listed(r) : r \in flushed})
      /\ relays' = [r \in kept |-> [relays[r] EXCEPT !.subscribers = Without(@, p)]]
      /\ received' = [received EXCEPT ![p] = [id \in Ids |-> None]]
      /\ UNCHANGED <<ids, dedup>>
  BY DEF did_close
<1>3. BooksOK' /\ ConnsOK'
  <2>1. /\ up' \in [Peers -> {"Up", "Closing", "None"}]
        /\ sol_conns' \subseteq sol_conns /\ unsol_conns' \subseteq unsol_conns
    BY <1>1, <1>2 DEF ConnsOK
  <2>. HIDE DEF flushed
  <2>. QED BY <1>1, <1>2, <2>1, FlushKeeps
<1>4. DOMAIN relays' \subseteq Peers \X Ids /\ relays' \in [DOMAIN relays' -> Relays]
  <2>1. \A r \in kept : relays[r] \in Relays
    BY <1>1 DEF ComingOK
  <2>2. \A r \in kept : Without(relays[r].subscribers, p) \in Seq(Peers \X Ids)
    BY <2>1, WithoutList DEF Relays
  <2>3. \A r \in kept : [relays[r] EXCEPT !.subscribers = Without(@, p)] \in Relays
    BY <2>1, <2>2 DEF Relays
  <2>4. DOMAIN relays' = kept
    BY <1>2
  <2>5. \A r \in kept : relays'[r] = [relays[r] EXCEPT !.subscribers = Without(@, p)]
    BY <1>2
  <2>6. kept \subseteq Peers \X Ids
    BY <1>1 DEF ComingOK
  <2>. HIDE DEF kept
  <2>. QED BY <1>2, <2>3, <2>4, <2>6
<1>5. received' \in [Peers -> [Ids -> Frames]]
  BY <1>1, <1>2, CutThroughAssumption DEF ComingOK, CutThroughAssumption, None, Frames
<1>6. Coming'
  <2>1. SUFFICES ASSUME NEW q \in Peers, NEW id \in Ids, received'[q][id].left > 0
                 PROVE  received'[q][id].message \in Messages /\ <<q, id>> \in DOMAIN relays'
    BY DEF Coming
  <2>2. q # p
    <3>1. received'[p][id] = None
      BY <1>1, <1>2 DEF ComingOK
    <3>. QED BY <2>1, <3>1 DEF None
  <2>3. received'[q][id] = received[q][id]
    BY <1>1, <1>2, <2>2 DEF ComingOK
  <2>4. received[q][id].message \in Messages /\ <<q, id>> \in DOMAIN relays
    BY <1>1, <2>1, <2>3 DEF ComingOK, Coming
  <2>5. <<q, id>> \in kept
    BY <2>2, <2>4
  <2>. QED BY <1>2, <2>3, <2>4, <2>5
<1>7. ComingOK' /\ DedupOK'
  BY <1>1, <1>2, <1>4, <1>5, <1>6, Kept DEF ComingOK
<1>. QED BY <1>3, <1>7, Parts

(* A message starts to come in.                                            *)
LEMMA IdsStart ==
  ASSUME IdsInv, NEW p \in Peers, NEW id \in Ids, NEW m \in Messages,
         cut_through_recv_start(p, id, m)
  PROVE  IdsInv'
<1>0. DedupOK /\ BooksOK /\ ComingOK /\ ConnsOK
  BY Parts
<1>1. /\ received' = [received EXCEPT ![p][id] = Frame(m)]
      /\ relays' = [r \in DOMAIN relays \cup {<<p, id>>} |->
                      IF r = <<p, id>> THEN [subscribers |-> <<>>, header_recv |-> FALSE]
                      ELSE relays[r]]
      /\ UNCHANGED <<up, sol_conns, unsol_conns, ids, dedup, stream, flushing>>
  BY DEF cut_through_recv_start
<1>2. [subscribers |-> <<>>, header_recv |-> FALSE] \in Relays /\ Frame(m) \in Frames
  BY EmptySeq, CutThroughAssumption DEF Relays, Frame, Frames, CutThroughAssumption
<1>3. DOMAIN relays' \subseteq Peers \X Ids /\ relays' \in [DOMAIN relays' -> Relays]
  BY <1>0, <1>1, <1>2 DEF ComingOK
<1>4. received' \in [Peers -> [Ids -> Frames]]
  BY <1>0, <1>1, <1>2 DEF ComingOK
<1>5. Coming'
  BY <1>0, <1>1 DEF ComingOK, Coming, Frame
<1>6. ComingOK'
  BY <1>3, <1>4, <1>5 DEF ComingOK
<1>. QED BY <1>0, <1>1, <1>6, Kept, Parts

(* A message is given up by its sender.                                    *)
LEMMA IdsFlush ==
  ASSUME IdsInv, NEW p \in Peers, NEW id \in Ids, cut_through_recv_flush(p, id)
  PROVE  IdsInv'
<1>0. DedupOK /\ BooksOK /\ ComingOK /\ ConnsOK
  BY Parts
<1>1. /\ received' = [received EXCEPT ![p][id] = None] /\ relays' = relays
      /\ FlushAll(Listed(<<p, id>>))
      /\ UNCHANGED <<up, sol_conns, unsol_conns, ids, dedup>>
  BY DEF cut_through_recv_flush
<1>2. BooksOK' /\ ConnsOK'
  <2>1. up' \in [Peers -> {"Up", "Closing", "None"}]
    BY <1>0, <1>1 DEF ConnsOK
  <2>. QED BY <1>0, <1>1, <2>1, FlushKeeps
<1>3. None \in Frames /\ ~(None.left > 0)
  BY CutThroughAssumption DEF CutThroughAssumption, None, Frames
<1>4. received' \in [Peers -> [Ids -> Frames]]
  BY <1>0, <1>1, <1>3 DEF ComingOK
<1>5. \A q \in Peers, k \in Ids : received'[q][k] = None \/ received'[q][k] = received[q][k]
  BY <1>0, <1>1 DEF ComingOK
<1>6. Coming'
  <2>1. SUFFICES ASSUME NEW q \in Peers, NEW k \in Ids, received'[q][k].left > 0
                 PROVE  received'[q][k].message \in Messages /\ <<q, k>> \in DOMAIN relays'
    BY DEF Coming
  <2>2. received'[q][k] = received[q][k]
    BY <1>3, <1>5, <2>1
  <2>. QED BY <1>0, <1>1, <2>1, <2>2 DEF ComingOK, Coming
<1>7. ComingOK'
  BY <1>0, <1>1, <1>4, <1>6 DEF ComingOK
<1>. QED BY <1>0, <1>1, <1>2, <1>7, Kept, Parts

(* A flush is confirmed: its stream is free.                               *)
LEMMA IdsConf ==
  ASSUME IdsInv, NEW p \in Peers, NEW id \in Ids, did_recv_flush_conf(p, id)
  PROVE  IdsInv'
<1>0. DedupOK /\ BooksOK /\ ComingOK /\ ConnsOK
  BY Parts
<1>1. /\ flushing[p][id] > 0 /\ flushing' = [flushing EXCEPT ![p][id] = @ - 1]
      /\ SetIds(Ended(Now, {<<p, id>>}))
      /\ UNCHANGED <<up, sol_conns, unsol_conns, received, relays, dedup>>
  BY DEF did_recv_flush_conf
<1>2. BooksOK'
  <2>1. Now \in Books /\ Conserved(Now)
    BY <1>0, NowKeeps
  <2>. DEFINE d == Ended(Now, {<<p, id>>})
  <2>2. d \in Books /\ Conserved(d)
    BY <2>1, EndedKeeps
  <2>. HIDE DEF d
  <2>. QED BY <1>1, <2>2, SetIdsKeeps DEF d
<1>3. ConnsOK'
  <2>1. flushing[p][id] \in Nat /\ flushing[p][id] - 1 \in Nat
    BY <1>0, <1>1 DEF ConnsOK
  <2>2. flushing' \in [Peers -> [Ids -> Nat]]
    BY <1>0, <1>1, <2>1 DEF ConnsOK
  <2>. QED BY <1>0, <1>1, <2>2 DEF ConnsOK
<1>. QED BY <1>0, <1>1, <1>2, <1>3, Kept, Parts

(* A connection is closed.                                                 *)
LEMMA IdsClose ==
  ASSUME IdsInv, NEW p \in Peers, close(p)
  PROVE  IdsInv'
<1>0. DedupOK /\ BooksOK /\ ComingOK /\ ConnsOK
  BY Parts
<1>1. ConnsOK'
  BY <1>0 DEF close, ConnsOK
<1>2. UNCHANGED <<ids, received, relays, dedup, stream>>
  BY DEF close
<1>. QED BY <1>0, <1>1, <1>2, Kept, Parts

(* Old messages are forgotten.                                             *)
LEMMA IdsTimer ==
  ASSUME IdsInv, message_id_timer_cb
  PROVE  IdsInv'
<1>0. DedupOK /\ BooksOK /\ ComingOK /\ ConnsOK
  BY Parts
<1>1. DedupOK'
  <2>1. Slots \in Nat \ {0}
    BY CutThroughAssumption DEF CutThroughAssumption
  <2>2. (message_id_idx + 1) % Slots \in 0 .. Slots - 1
    BY <1>0, <2>1 DEF DedupOK
  <2>. QED BY <1>0, <2>2 DEF DedupOK, message_id_timer_cb
<1>2. UNCHANGED <<up, sol_conns, unsol_conns, ids, received, relays, stream, flushing>>
  BY DEF message_id_timer_cb
<1>. QED BY <1>0, <1>1, <1>2, Kept, Parts

(* Nothing is relayed at the start, and every id is free.                  *)
LEMMA IdsInit == Init => IdsInv
<1>1. SUFFICES ASSUME Init PROVE IdsInv
  OBVIOUS
<1>2. Pieces \in Nat \ {0} /\ Slots \in Nat \ {0}
  BY CutThroughAssumption DEF CutThroughAssumption
<1>3. None \in Frames /\ ~(None.left > 0)
  BY <1>2 DEF None, Frames
<1>4. DedupOK
  BY <1>1, <1>2 DEF Init, DedupOK
<1>5. BooksOK
  BY <1>1, <1>3, IdsFinite DEF Init, BooksOK, IdsConserved, Ids
<1>6. ComingOK
  <2>1. DOMAIN relays = {} /\ relays \in [DOMAIN relays -> Relays]
    BY <1>1 DEF Init
  <2>. QED BY <1>1, <1>3, <2>1 DEF Init, ComingOK, Coming
<1>7. ConnsOK
  BY <1>1 DEF Init, ConnsOK
<1>. QED BY <1>4, <1>5, <1>6, <1>7, Parts

(* Every step keeps the types and the ids.                                 *)
LEMMA IdsInductive == IdsInv /\ [Next]_vars => IdsInv'
<1>1. SUFFICES ASSUME IdsInv, [Next]_vars PROVE IdsInv'
  OBVIOUS
<1>2. ASSUME NEW p \in Peers, NEW id \in Ids,
             \/ \E m \in Messages : cut_through_recv_start(p, id, m)
             \/ Header(p, id) \/ Bytes(p, id)
             \/ cut_through_recv_flush(p, id) \/ did_recv_flush_conf(p, id)
      PROVE  IdsInv'
  BY <1>1, <1>2, IdsStart, IdsHeader, IdsBytes, IdsFlush, IdsConf
<1>3. ASSUME NEW m \in Messages, send_message_on_channel(m) PROVE IdsInv'
  BY <1>1, <1>3, IdsPublish
<1>4. ASSUME NEW p \in Peers, close(p) \/ did_close(p) PROVE IdsInv'
  BY <1>1, <1>4, IdsClose, IdsClosed
<1>5. CASE message_id_timer_cb
  BY <1>1, <1>5, IdsTimer
<1>6. CASE UNCHANGED vars
  <2>1. DedupOK /\ BooksOK /\ ComingOK /\ ConnsOK
    BY <1>1, Parts
  <2>. QED BY <1>6, <2>1, Kept, Parts DEF vars
<1>. QED BY <1>1, <1>2, <1>3, <1>4, <1>5, <1>6 DEF Next

(* The types are right and every message that comes in has its entry.      *)
THEOREM RelaysInvariant == Spec => []IdsInv
<1>1. Init => IdsInv
  BY IdsInit
<1>2. IdsInv /\ [Next]_vars => IdsInv'
  BY IdsInductive
<1>. QED BY <1>1, <1>2, PTL DEF Spec

(* An id is free or in use, never both, never twice in the list, whatever  *)
(* is relayed, flushed and closed (cut_through_reserve_ids and             *)
(* cut_through_used_ids of LpfTransport).                                  *)
THEOREM IdsAlwaysConserved == Spec => []IdsConserved
<1>1. IdsInv => IdsConserved
  BY DEF IdsInv
<1>. QED BY <1>1, RelaysInvariant, PTL

-----------------------------------------------------------------------------
(* Deduplication                                                           *)

(* A message is in message_id_set while its age is counted, and filed in   *)
(* the slot of message_id_events that was filled when it came.  What was   *)
(* begun of it to a subscriber is counted from then on.                    *)
Slot(m) == IF age[m] <= message_id_idx THEN message_id_idx - age[m]
           ELSE message_id_idx - age[m] + Slots
Remembered ==
  /\ age \in [Messages -> Forgotten .. Slots - 1]
  /\ \A m \in Messages : m \in message_id_set <=> age[m] # Forgotten
  /\ \A m \in Messages, i \in 0 .. Slots - 1 :
       m \in message_id_events[i] <=> age[m] # Forgotten /\ i = Slot(m)
Counted ==
  /\ copies \in [Peers -> [Messages -> Nat]]
  /\ \A p \in Peers, m \in Messages :
       copies[p][m] <= (IF age[m] = Forgotten THEN 0 ELSE ListsWith(p))

(* The next slot, going round.                                             *)
LEMMA NextSlotIs ==
  ASSUME NEW i \in 0 .. Slots - 1
  PROVE  (i + 1) % Slots = (IF i = Slots - 1 THEN 0 ELSE i + 1)
<1>1. Slots \in Nat \ {0}
  BY CutThroughAssumption DEF CutThroughAssumption
<1>2. CASE i = Slots - 1
  <2>1. i + 1 = Slots /\ Slots % Slots = 0
    BY <1>1, <1>2
  <2>. QED BY <1>2, <2>1
<1>3. CASE i # Slots - 1
  <2>1. i + 1 \in 0 .. Slots - 1
    BY <1>1, <1>3
  <2>2. (i + 1) % Slots = i + 1
    BY <1>1, <2>1
  <2>. QED BY <1>3, <2>2
<1>. QED BY <1>2, <1>3

(* A message is filed in the slot of the present.                          *)
LEMMA RememberedNew ==
  ASSUME IdsInv, Remembered, NEW m \in Messages, ~Known(m), Remember(m)
  PROVE  Remembered' /\ age[m] = Forgotten /\ age'[m] = 0 /\ age'[m] # Forgotten
         /\ \A n \in Messages : n # m => age'[n] = age[n]
<1>1. Slots \in Nat \ {0} /\ Forgotten = -1
  BY CutThroughAssumption DEF CutThroughAssumption, Forgotten
<1>2. /\ message_id_idx \in 0 .. Slots - 1 /\ message_id_set \subseteq Messages
      /\ message_id_events \in [0 .. Slots - 1 -> SUBSET Messages]
  BY DEF IdsInv, TypeOK
<1>3. age[m] = Forgotten
  BY DEF Remembered, Known
<1>4. /\ message_id_set' = message_id_set \cup {m} /\ message_id_idx' = message_id_idx
      /\ age' = [age EXCEPT ![m] = 0]
      /\ message_id_events' = [message_id_events EXCEPT ![message_id_idx] = @ \cup {m}]
  BY DEF Remember
<1>5. age \in [Messages -> Forgotten .. Slots - 1] /\ 0 \in Forgotten .. Slots - 1 /\ 0 # Forgotten
  BY <1>1 DEF Remembered
<1>6. age' \in [Messages -> Forgotten .. Slots - 1]
  BY <1>4, <1>5
<1>7. age'[m] = 0 /\ \A n \in Messages : n # m => age'[n] = age[n]
  BY <1>4, <1>5
<1>8. \A n \in Messages : n \in message_id_set' <=> age'[n] # Forgotten
  BY <1>4, <1>5, <1>7 DEF Remembered
<1>9. ASSUME NEW n \in Messages, NEW i \in 0 .. Slots - 1
      PROVE  n \in message_id_events'[i] <=> age'[n] # Forgotten /\ i = Slot(n)'
  <2>1. n \in message_id_events'[i] <=> n \in message_id_events[i] \/ (n = m /\ i = message_id_idx)
    BY <1>2, <1>4
  <2>2. n \in message_id_events[i] <=> age[n] # Forgotten /\ i = Slot(n)
    BY DEF Remembered
  <2>3. CASE n = m
    <3>1. Slot(m)' = message_id_idx
      BY <1>1, <1>2, <1>4, <1>7 DEF Slot
    <3>. QED BY <1>3, <1>5, <1>7, <2>1, <2>2, <2>3, <3>1
  <2>4. CASE n # m
    <3>1. Slot(n)' = Slot(n)
      BY <1>4, <1>7, <2>4 DEF Slot
    <3>. QED BY <1>7, <2>1, <2>2, <2>4, <3>1
  <2>. QED BY <2>3, <2>4
<1>. QED BY <1>3, <1>5, <1>6, <1>7, <1>8, <1>9 DEF Remembered

(* The timer forgets what is in the slot it comes to, and that is what is  *)
(* Slots ticks old.                                                        *)
LEMMA RememberedTick ==
  ASSUME IdsInv, Remembered, Counted, message_id_timer_cb
  PROVE  Remembered' /\ Counted'
<1>1. Slots \in Nat \ {0} /\ Forgotten = -1
  BY CutThroughAssumption DEF CutThroughAssumption, Forgotten
<1>2. /\ message_id_idx \in 0 .. Slots - 1 /\ message_id_set \subseteq Messages
      /\ message_id_events \in [0 .. Slots - 1 -> SUBSET Messages]
  BY DEF IdsInv, TypeOK
<1>. DEFINE next == IF message_id_idx = Slots - 1 THEN 0 ELSE message_id_idx + 1
<1>3. NextSlot(message_id_idx) = next /\ (message_id_idx + 1) % Slots = next /\ next \in 0 .. Slots - 1
  BY <1>1, <1>2, NextSlotIs DEF NextSlot
<1>4. /\ message_id_idx' = next /\ message_id_set' = message_id_set \ message_id_events[next]
      /\ message_id_events' = [message_id_events EXCEPT ![next] = {}]
      /\ age' = [m \in Messages |-> IF age[m] \in {Forgotten, Slots - 1} THEN Forgotten
                                    ELSE age[m] + 1]
      /\ copies' = [p \in Peers |-> [m \in Messages |-> IF age[m] = Slots - 1 THEN 0
                                                        ELSE copies[p][m]]]
  BY <1>3 DEF message_id_timer_cb
<1>5. \A m \in Messages : age[m] \in Forgotten .. Slots - 1
  BY DEF Remembered
<1>6. \A m \in Messages : age'[m] = IF age[m] \in {Forgotten, Slots - 1} THEN Forgotten ELSE age[m] + 1
  BY <1>4
<1>7. ASSUME NEW m \in Messages
      PROVE  /\ age'[m] \in Forgotten .. Slots - 1
             /\ age'[m] # Forgotten <=> age[m] # Forgotten /\ age[m] # Slots - 1
             /\ age[m] = Slots - 1 => Slot(m) = next
             /\ age'[m] # Forgotten => Slot(m)' = Slot(m) /\ Slot(m) # next
             /\ Slot(m) \in Int /\ (age[m] # Forgotten => Slot(m) \in 0 .. Slots - 1)
  <2>. DEFINE a == age[m]  b == age'[m]  i == message_id_idx
  <2>1. a \in Int /\ -1 <= a /\ a < Slots /\ i \in Int /\ 0 <= i /\ i < Slots
    BY <1>1, <1>2, <1>5
  <2>2. b = (IF a = -1 \/ a = Slots - 1 THEN -1 ELSE a + 1)
    BY <1>1, <1>6
  <2>3. Slot(m) = (IF a <= i THEN i - a ELSE i - a + Slots)
    BY DEF Slot
  <2>4. Slot(m)' = (IF b <= next THEN next - b ELSE next - b + Slots)
    BY <1>4 DEF Slot
  <2>5. next = (IF i = Slots - 1 THEN 0 ELSE i + 1)
    OBVIOUS
  <2>. HIDE DEF a, b, i, next
  <2>6. /\ b \in -1 .. Slots - 1
        /\ b # -1 <=> a # -1 /\ a # Slots - 1
        /\ Slot(m) \in Int /\ (a # -1 => Slot(m) \in 0 .. Slots - 1)
    BY <1>1, <2>1, <2>2, <2>3
  <2>7. a = Slots - 1 => Slot(m) = next
    BY <1>1, <2>1, <2>3, <2>5
  <2>8. b # -1 => Slot(m)' = Slot(m) /\ Slot(m) # next
    BY <1>1, <2>1, <2>2, <2>3, <2>4, <2>5
  <2>. QED BY <1>1, <2>6, <2>7, <2>8 DEF a, b
<1>. HIDE DEF next
<1>8. age' \in [Messages -> Forgotten .. Slots - 1]
  BY <1>4, <1>7
<1>9. \A m \in Messages : m \in message_id_events[next] <=> age[m] = Slots - 1 /\ age[m] # Forgotten
  <2>1. SUFFICES ASSUME NEW m \in Messages
                 PROVE  m \in message_id_events[next] <=> age[m] = Slots - 1 /\ age[m] # Forgotten
    OBVIOUS
  <2>2. m \in message_id_events[next] <=> age[m] # Forgotten /\ next = Slot(m)
    BY <1>3 DEF Remembered
  <2>3. age[m] # Forgotten /\ age[m] # Slots - 1 => Slot(m) # next
    BY <1>7
  <2>4. age[m] = Slots - 1 => Slot(m) = next
    BY <1>7
  <2>. QED BY <2>2, <2>3, <2>4
<1>10. \A m \in Messages : m \in message_id_set' <=> age'[m] # Forgotten
  <2>1. SUFFICES ASSUME NEW m \in Messages PROVE m \in message_id_set' <=> age'[m] # Forgotten
    OBVIOUS
  <2>2. m \in message_id_set <=> age[m] # Forgotten
    BY DEF Remembered
  <2>. QED BY <1>4, <1>7, <1>9, <2>2
<1>11. ASSUME NEW m \in Messages, NEW i \in 0 .. Slots - 1
       PROVE  m \in message_id_events'[i] <=> age'[m] # Forgotten /\ i = Slot(m)'
  <2>1. m \in message_id_events[i] <=> age[m] # Forgotten /\ i = Slot(m)
    BY DEF Remembered
  <2>2. CASE i = next
    <3>1. message_id_events'[i] = {}
      BY <1>2, <1>3, <1>4, <2>2
    <3>2. age'[m] # Forgotten => Slot(m)' # next
      BY <1>7
    <3>. QED BY <2>2, <3>1, <3>2
  <2>3. CASE i # next
    <3>1. message_id_events'[i] = message_id_events[i]
      BY <1>2, <1>4, <2>3
    <3>2. age'[m] # Forgotten => Slot(m)' = Slot(m) /\ age[m] # Forgotten
      BY <1>7
    <3>3. age[m] # Forgotten /\ i = Slot(m) => age'[m] # Forgotten
      BY <1>7, <2>3
    <3>. QED BY <2>1, <3>1, <3>2, <3>3
  <2>. QED BY <2>2, <2>3
<1>12. Remembered'
  BY <1>8, <1>10, <1>11 DEF Remembered
<1>13. copies' \in [Peers -> [Messages -> Nat]]
  BY <1>4 DEF Counted
<1>14. ASSUME NEW p \in Peers, NEW m \in Messages
       PROVE  copies'[p][m] <= (IF age'[m] = Forgotten THEN 0 ELSE ListsWith(p)')
  <2>1. copies'[p][m] = IF age[m] = Slots - 1 THEN 0 ELSE copies[p][m]
    BY <1>4
  <2>2. copies[p][m] <= (IF age[m] = Forgotten THEN 0 ELSE ListsWith(p))
    BY DEF Counted
  <2>3. ListsWith(p)' = ListsWith(p) /\ ListsWith(p) \in Nat
    BY DEF ListsWith
  <2>4. age[m] = Slots - 1 => age'[m] = Forgotten
    BY <1>7
  <2>5. age[m] = Forgotten => age'[m] = Forgotten
    BY <1>7
  <2>6. age[m] # Slots - 1 /\ age[m] # Forgotten => age'[m] # Forgotten
    BY <1>7
  <2>. QED BY <2>1, <2>2, <2>3, <2>4, <2>5, <2>6
<1>15. Counted'
  BY <1>13, <1>14 DEF Counted
<1>. QED BY <1>12, <1>15

(* Nothing happens to the messages the node took.                          *)
LEMMA RememberedKept ==
  ASSUME Remembered, Counted, UNCHANGED <<dedup, copies>>
  PROVE  Remembered' /\ Counted'
BY DEF Remembered, Counted, dedup, Slot, ListsWith

(* Of two sets with at most one element each.                              *)
LEMMA OneOfEach ==
  ASSUME NEW A, NEW B, NEW a, NEW b, A \subseteq {a}, B \subseteq {b},
         NEW Q, Q \subseteq A \cup B
  PROVE  /\ Cardinality(Q) \in Nat
         /\ Cardinality(Q) <= (IF A = {} THEN 0 ELSE 1) + (IF B = {} THEN 0 ELSE 1)
<1>2. IsFiniteSet(A) /\ Cardinality(A) = IF A = {} THEN 0 ELSE 1
  <2>1. CASE A = {}
    BY <2>1, FS_EmptySet
  <2>2. CASE A = {a}
    <3>1. IsFiniteSet({a}) /\ Cardinality({a}) = 1
      BY FS_Singleton
    <3>. QED BY <2>2, <3>1
  <2>. QED BY <2>1, <2>2
<1>3. IsFiniteSet(B) /\ Cardinality(B) = IF B = {} THEN 0 ELSE 1
  <2>1. CASE B = {}
    BY <2>1, FS_EmptySet
  <2>2. CASE B = {b}
    <3>1. IsFiniteSet({b}) /\ Cardinality({b}) = 1
      BY FS_Singleton
    <3>. QED BY <2>2, <3>1
  <2>. QED BY <2>1, <2>2
<1>4. /\ IsFiniteSet(A \cup B) /\ IsFiniteSet(A \cap B)
      /\ Cardinality(A \cup B) = Cardinality(A) + Cardinality(B) - Cardinality(A \cap B)
  BY <1>2, <1>3, FS_Union, FS_Intersection
<1>5. IsFiniteSet(Q) /\ Cardinality(Q) <= Cardinality(A \cup B)
  BY <1>4, FS_Subset
<1>6. Cardinality(Q) \in Nat /\ Cardinality(A \cap B) \in Nat
  BY <1>4, <1>5, FS_CardinalityType
<1>7. Cardinality(Q) <= (IF A = {} THEN 0 ELSE 1) + (IF B = {} THEN 0 ELSE 1)
  BY <1>2, <1>3, <1>4, <1>5, <1>6
<1>. QED BY <1>6, <1>7

(* Each subscriber's copies of a message, counted from when it was taken.  *)
LEMMA CountedNew ==
  ASSUME IdsInv, Remembered, Counted, NEW m \in Messages, ~Known(m), Remember(m),
         NEW n \in [Peers -> Nat], \A p \in Peers : n[p] <= ListsWith(p),
         \/ copies' = copies
         \/ copies' = [p \in Peers |-> [copies[p] EXCEPT ![m] = @ + n[p]]]
  PROVE  Remembered' /\ Counted'
<1>1. /\ Remembered' /\ age[m] = Forgotten /\ age'[m] # Forgotten
      /\ \A k \in Messages : k # m => age'[k] = age[k]
  BY RememberedNew
<1>2. \A p \in Peers : ListsWith(p) \in Nat /\ ListsWith(p)' = ListsWith(p)
  BY DEF ListsWith
<1>3. \A p \in Peers : copies[p] \in [Messages -> Nat] /\ copies[p][m] \in Nat /\ copies[p][m] <= 0
  BY <1>1 DEF Counted
<1>4. copies' \in [Peers -> [Messages -> Nat]]
  BY <1>3 DEF Counted
<1>5. ASSUME NEW p \in Peers, NEW k \in Messages
      PROVE  copies'[p][k] <= (IF age'[k] = Forgotten THEN 0 ELSE ListsWith(p))
  <2>1. copies[p][k] \in Nat /\ copies[p][k] <= (IF age[k] = Forgotten THEN 0 ELSE ListsWith(p))
    BY DEF Counted
  <2>2. CASE k # m
    <3>1. copies'[p][k] = copies[p][k]
      BY <1>3, <2>2
    <3>. QED BY <1>1, <2>1, <2>2, <3>1
  <2>3. CASE k = m
    <3>1. copies'[p][k] = 0 \/ copies'[p][k] = n[p]
      BY <1>3, <2>3
    <3>. QED BY <1>1, <1>2, <2>3, <3>1
  <2>. QED BY <2>2, <2>3
<1>. QED BY <1>1, <1>2, <1>4, <1>5 DEF Counted

(* A message relayed.                                                      *)
LEMMA CountedHeader ==
  ASSUME IdsInv, Remembered, Counted, NEW p \in Peers, NEW id \in Ids, Header(p, id)
  PROVE  Remembered' /\ Counted'
<1>. DEFINE m == received[p][id].message
            sol == Targets(sol_conns, p, m)
            unsol == Targets(unsol_conns, p, m)
            pairs == ToSet(Opened(sol, unsol, m).pairs)
            n == [s \in Peers |-> Cardinality({q \in pairs : q[1] = s})]
<1>1. BooksOK /\ m \in Messages
  BY Parts DEF Header, ComingOK, Coming
<1>2. sol \subseteq Solicited /\ unsol \subseteq Unsolicited /\ Solicited \subseteq Peers /\ Unsolicited \subseteq Peers
  BY CutThroughAssumption DEF CutThroughAssumption, Targets, IdsInv, TypeOK
<1>. HIDE DEF m, sol, unsol
<1>3. /\ n \in [Peers -> Nat] /\ \A s \in Peers : n[s] <= ListsWith(s)
  <2>1. pairs \subseteq {<<s, Head(reserve[s])>> : s \in sol}
                        \cup {<<s, Head(Starts(Now, sol, m).reserve[s])>> : s \in unsol}
    <3>1. sol \in SUBSET Peers /\ unsol \in SUBSET Peers
      BY <1>2
    <3>. QED BY <1>1, <3>1, OpenedKeeps
  <2>3. ASSUME NEW s \in Peers
        PROVE  /\ Cardinality({q \in pairs : q[1] = s}) \in Nat
               /\ Cardinality({q \in pairs : q[1] = s}) <= ListsWith(s)
    <3>. DEFINE Q == {q \in pairs : q[1] = s}
                a == <<s, Head(reserve[s])>>
                b == <<s, Head(Starts(Now, sol, m).reserve[s])>>
                A == IF s \in sol THEN {a} ELSE {}
                B == IF s \in unsol THEN {b} ELSE {}
    <3>1. Q \subseteq A \cup B
      BY <2>1
    <3>2. A \subseteq {a} /\ B \subseteq {b}
      OBVIOUS
    <3>3. (IF A = {} THEN 0 ELSE 1) + (IF B = {} THEN 0 ELSE 1) <= ListsWith(s)
      BY <1>2 DEF ListsWith
    <3>4. (IF A = {} THEN 0 ELSE 1) + (IF B = {} THEN 0 ELSE 1) \in Nat /\ ListsWith(s) \in Nat
      BY DEF ListsWith
    <3>. HIDE DEF Q, A, B, a, b
    <3>5. /\ Cardinality(Q) \in Nat
          /\ Cardinality(Q) <= (IF A = {} THEN 0 ELSE 1) + (IF B = {} THEN 0 ELSE 1)
      BY <3>1, <3>2, OneOfEach
    <3>6. Cardinality(Q) <= ListsWith(s)
      BY <3>3, <3>4, <3>5
    <3>. QED BY <3>5, <3>6 DEF Q
  <2>. QED BY <2>3
<1>4. CASE Known(m)
  <2>1. UNCHANGED <<dedup, copies>>
    BY <1>4 DEF Header, m
  <2>. QED BY <2>1, RememberedKept
<1>5. CASE ~Known(m)
  <2>1. /\ Remember(m)
        /\ \/ copies' = copies
           \/ copies' = [s \in Peers |-> [copies[s] EXCEPT ![m] = @ + Cardinality({q \in pairs : q[1] = s})]]
    BY <1>5 DEF Header, m, sol, unsol, Opened
  <2>2. copies' = copies \/ copies' = [s \in Peers |-> [copies[s] EXCEPT ![m] = @ + n[s]]]
    <3>. HIDE DEF pairs
    <3>. QED BY <2>1
  <2>. HIDE DEF n
  <2>. QED BY <1>1, <1>3, <1>5, <2>1, <2>2, CountedNew
<1>. QED BY <1>4, <1>5

(* A message of the node's own.                                            *)
LEMMA CountedPublish ==
  ASSUME IdsInv, Remembered, Counted, NEW m \in Messages, send_message_on_channel(m)
  PROVE  Remembered' /\ Counted'
<1>. DEFINE n == [s \in Peers |-> (IF s \in sol_conns THEN 1 ELSE 0) + (IF s \in unsol_conns THEN 1 ELSE 0)]
<1>1. ~Known(m) /\ Remember(m)
  BY DEF send_message_on_channel
<1>2. copies' = [s \in Peers |-> [copies[s] EXCEPT ![m] =
                   @ + (IF s \in sol_conns THEN 1 ELSE 0) + (IF s \in unsol_conns THEN 1 ELSE 0)]]
  BY DEF send_message_on_channel
<1>3. sol_conns \subseteq Solicited /\ unsol_conns \subseteq Unsolicited
  BY DEF IdsInv, TypeOK
<1>4. n \in [Peers -> Nat] /\ \A s \in Peers : n[s] <= ListsWith(s)
  BY <1>3 DEF ListsWith
<1>5. ASSUME NEW s \in Peers
      PROVE  [copies[s] EXCEPT ![m] = @ + (IF s \in sol_conns THEN 1 ELSE 0)
                                        + (IF s \in unsol_conns THEN 1 ELSE 0)]
             = [copies[s] EXCEPT ![m] = @ + n[s]]
  <2>1. copies[s][m] \in Nat
    BY DEF Counted
  <2>2. copies[s][m] + (IF s \in sol_conns THEN 1 ELSE 0) + (IF s \in unsol_conns THEN 1 ELSE 0)
        = copies[s][m] + n[s]
    BY <2>1
  <2>. QED BY <2>2
<1>6. copies' = [s \in Peers |-> [copies[s] EXCEPT ![m] = @ + n[s]]]
  BY <1>2, <1>5
<1>. HIDE DEF n
<1>. QED BY <1>1, <1>4, <1>6, CountedNew

(* Every step keeps what is remembered and what is counted.                *)
LEMMA CountedInductive == IdsInv /\ Remembered /\ Counted /\ [Next]_vars => Remembered' /\ Counted'
<1>1. SUFFICES ASSUME IdsInv, Remembered, Counted, [Next]_vars PROVE Remembered' /\ Counted'
  OBVIOUS
<1>2. ASSUME NEW p \in Peers, NEW id \in Ids,
             \/ \E m \in Messages : cut_through_recv_start(p, id, m)
             \/ Bytes(p, id) \/ cut_through_recv_flush(p, id) \/ did_recv_flush_conf(p, id)
      PROVE  UNCHANGED <<dedup, copies>>
  BY <1>2 DEF cut_through_recv_start, Bytes, cut_through_recv_flush, did_recv_flush_conf
<1>3. ASSUME NEW p \in Peers, NEW id \in Ids, Header(p, id) PROVE Remembered' /\ Counted'
  BY <1>1, <1>3, CountedHeader
<1>4. ASSUME NEW m \in Messages, send_message_on_channel(m) PROVE Remembered' /\ Counted'
  BY <1>1, <1>4, CountedPublish
<1>5. ASSUME NEW p \in Peers, close(p) \/ did_close(p) PROVE UNCHANGED <<dedup, copies>>
  BY <1>5 DEF close, did_close
<1>6. CASE message_id_timer_cb
  BY <1>1, <1>6, RememberedTick
<1>7. CASE UNCHANGED vars
  BY <1>1, <1>7, RememberedKept DEF vars
<1>. QED BY <1>1, <1>2, <1>3, <1>4, <1>5, <1>6, <1>7, RememberedKept DEF Next

(* For Slots ticks of the timer after the node took a message, no          *)
(* subscriber is begun the same message more often than it is listed,      *)
(* whoever else sends it and whoever closes meanwhile.                     *)
THEOREM MessagesRelayedOnce == Spec => []RelayedOnce
<1>1. Init => Remembered /\ Counted
  <2>1. SUFFICES ASSUME Init PROVE Remembered /\ Counted
    OBVIOUS
  <2>2. Slots \in Nat \ {0} /\ Forgotten = -1
    BY CutThroughAssumption DEF CutThroughAssumption, Forgotten
  <2>3. Remembered
    BY <2>1, <2>2 DEF Init, Remembered
  <2>4. Counted
    BY <2>1 DEF Init, Counted
  <2>. QED BY <2>3, <2>4
<1>2. IdsInv /\ Remembered /\ Counted /\ [Next]_vars => Remembered' /\ Counted'
  BY CountedInductive
<1>3. Remembered /\ Counted => RelayedOnce
  BY DEF Counted, RelayedOnce
<1>. QED BY <1>1, <1>2, <1>3, RelaysInvariant, PTL DEF Spec

-----------------------------------------------------------------------------
(* The streams of the subscribers                                          *)

(* A peer whose connection ends, because an end closes it or because it    *)
(* sends a message that does not verify, has sent nothing that is relayed. *)
(* Otherwise did_close leaves subscribers in the middle of its messages,   *)
(* and flushes streams that may have long carried other messages.          *)
SendersStay ==
  \A p \in Peers : p \in Closers \/ Sends[p] \cap Bad # {} => Sends[p] \subseteq Bad

(* The messages coming in that go to subscriber p on stream id.            *)
Carrying(p, id) == {r \in Running : <<p, id>> \in Listed(r)}

(* A stream is free, or waits for the confirmation of a flush, or carries  *)
(* one message, of which the subscriber has read what the node has.        *)
StreamOK(p, id) ==
  \/ /\ id \notin used[p] /\ Carrying(p, id) = {}
     /\ stream[p][id] = None /\ flushing[p][id] = 0
  \/ /\ id \in used[p] /\ Carrying(p, id) = {}
     /\ stream[p][id] = None /\ flushing[p][id] = 1
  \/ /\ id \in used[p] /\ flushing[p][id] = 0
     /\ \E r \in Running : Carrying(p, id) = {r} /\ stream[p][id] = received[r[1]][r[2]]
StreamsOK == \A p \in Peers, id \in Ids : up[p] = "Up" => StreamOK(p, id)

(* What a connection that ends leaves on its streams stays as it was.      *)
NotGarbled == \A p \in Peers, id \in Ids : stream[p][id].message # "garbled"

(* An entry of cut_through_map has no subscribers before the header of the *)
(* message was read, and none ever when its peer sends nothing to relay.   *)
EntryOK(r) ==
  /\ received[r[1]][r[2]].left > 0 => received[r[1]][r[2]].message \in Sends[r[1]]
  /\ Sends[r[1]] \subseteq Bad => relays[r].subscribers = <<>>
  /\ ~relays[r].header_recv =>
       /\ relays[r].subscribers = <<>>
       /\ received[r[1]][r[2]].left > 0 => received[r[1]][r[2]].left = Pieces
SendersOK ==
  /\ \A r \in DOMAIN relays : EntryOK(r)
  /\ \A p \in Peers : up[p] # "Up" => Sends[p] \subseteq Bad

(* Begun to some subscribers: each that is up and has a free id gets a     *)
(* stream of its own.                                                      *)
Begins(sent, c, d, targets, m) ==
  /\ ToSet(d.pairs) = ToSet(c.pairs) \cup sent
  /\ \A x \in sent : x[1] \in targets /\ up[x[1]] = "Up" /\ x[2] \notin c.used[x[1]]
  /\ \A p \in Peers, id \in Ids : up[p] = "Up" =>
       (id \in d.used[p] <=> id \in c.used[p] \/ <<p, id>> \in sent)
  /\ \A p \in Peers, id \in Ids :
       d.stream[p][id] = IF <<p, id>> \in sent THEN Begun(c.stream[p][id], m) ELSE c.stream[p][id]
LEMMA StartsSends ==
  ASSUME NEW c \in Books, Conserved(c), NEW targets \in SUBSET Peers, NEW m \in Messages
  PROVE  \E sent \in SUBSET (Peers \X Ids) : Begins(sent, c, Starts(c, targets, m), targets, m)
<1>. DEFINE able == {p \in targets : c.reserve[p] # <<>>}
            pairs == {<<p, Head(c.reserve[p])>> : p \in able}
            sent == {pair \in pairs : up[pair[1]] = "Up"}
            r == [p \in Peers |-> IF p \in able THEN Tail(c.reserve[p]) ELSE c.reserve[p]]
            u == [p \in Peers |-> IF p \in able THEN c.used[p] \cup {Head(c.reserve[p])} ELSE c.used[p]]
            s == OnStreams(c.stream, sent, LAMBDA f : Begun(f, m))
            l == c.pairs \o SetToSeq(sent)
            d == Starts(c, targets, m)
<1>1. d.used = u /\ d.stream = s /\ d.pairs = l
  BY DEF Starts
<1>2. /\ c.reserve \in [Peers -> Seq(Ids)] /\ c.used \in [Peers -> SUBSET Ids]
      /\ c.stream \in [Peers -> [Ids -> Frames]] /\ c.pairs \in Seq(Peers \X Ids)
  BY DEF Books
<1>3. ASSUME NEW p \in able
      PROVE  Head(c.reserve[p]) \in Ids /\ Head(c.reserve[p]) \notin c.used[p]
  <2>1. /\ ToSet(c.reserve[p]) \cap c.used[p] = {} /\ IsInjective(c.reserve[p])
        /\ c.reserve[p] \in Seq(Ids) /\ c.reserve[p] # <<>>
    BY <1>2 DEF Conserved
  <2>2. Head(c.reserve[p]) \in ToSet(c.reserve[p])
    BY <2>1, FirstTaken
  <2>3. ToSet(c.reserve[p]) \subseteq Ids
    BY <2>1, Elements
  <2>. QED BY <2>1, <2>2, <2>3
<1>4. sent \subseteq Peers \X Ids
  BY <1>3
<1>5. ToSet(l) = ToSet(c.pairs) \cup sent
  <2>1. IsFiniteSet(Peers \X Ids)
    BY IdsFinite, FS_Product
  <2>. HIDE DEF sent
  <2>2. IsFiniteSet(sent)
    BY <1>4, <2>1, FS_Subset
  <2>3. SetToSeq(sent) \in Seq(sent) /\ ToSet(SetToSeq(sent)) = sent
    BY <2>2, Ordered
  <2>4. SetToSeq(sent) \in Seq(Peers \X Ids)
    BY <1>4, <2>3, SeqMonotonic
  <2>. QED BY <1>2, <2>3, <2>4, PutBehind
<1>6. \A x \in sent : x[1] \in targets /\ up[x[1]] = "Up" /\ x[2] \notin c.used[x[1]]
  BY <1>3
<1>7. ASSUME NEW p \in Peers, NEW id \in Ids, up[p] = "Up"
      PROVE  id \in u[p] <=> id \in c.used[p] \/ <<p, id>> \in sent
  <2>1. <<p, id>> \in sent <=> p \in able /\ id = Head(c.reserve[p])
    BY <1>7
  <2>2. u[p] = IF p \in able THEN c.used[p] \cup {Head(c.reserve[p])} ELSE c.used[p]
    OBVIOUS
  <2>. HIDE DEF sent, able, u
  <2>. QED BY <2>1, <2>2
<1>8. ASSUME NEW p \in Peers, NEW id \in Ids
      PROVE  s[p][id] = IF <<p, id>> \in sent THEN Begun(c.stream[p][id], m) ELSE c.stream[p][id]
  <2>. HIDE DEF sent
  <2>. QED BY DEF OnStreams
<1>. HIDE DEF sent, u, s, l, d
<1>9. Begins(sent, c, d, targets, m)
  BY <1>1, <1>5, <1>6, <1>7, <1>8 DEF Begins
<1>. QED BY <1>4, <1>9 DEF d

(* Begun to both lists of subscribers: no stream that is in use, and none  *)
(* twice.                                                                  *)
Opens(sent, b, targets, m) ==
  /\ ToSet(b.pairs) = sent
  /\ \A x \in sent : x[1] \in targets /\ up[x[1]] = "Up" /\ x[2] \notin used[x[1]]
  /\ \A p \in Peers, id \in Ids : up[p] = "Up" =>
       (id \in b.used[p] <=> id \in used[p] \/ <<p, id>> \in sent)
  /\ \A p \in Peers, id \in Ids :
       b.stream[p][id] = IF <<p, id>> \in sent THEN Begun(stream[p][id], m) ELSE stream[p][id]
LEMMA OpenedSends ==
  ASSUME BooksOK, NEW sol \in SUBSET Peers, NEW unsol \in SUBSET Peers, NEW m \in Messages
  PROVE  \E sent \in SUBSET (Peers \X Ids) : Opens(sent, Opened(sol, unsol, m), sol \cup unsol, m)
<1>. DEFINE c == Starts(Now, sol, m)  b == Starts(c, unsol, m)
<1>1. Now \in Books /\ Conserved(Now) /\ ToSet(Now.pairs) = {}
      /\ Now.used = used /\ Now.stream = stream
  BY NowKeeps DEF Now
<1>2. c \in Books /\ Conserved(c)
  BY <1>1, StartsKeeps
<1>3. PICK one \in SUBSET (Peers \X Ids) : Begins(one, Now, c, sol, m)
  BY <1>1, StartsSends
<1>. HIDE DEF c
<1>4. PICK two \in SUBSET (Peers \X Ids) : Begins(two, c, b, unsol, m)
  BY <1>2, StartsSends
<1>. HIDE DEF b
<1>5. /\ ToSet(c.pairs) = one
      /\ \A x \in one : x[1] \in sol /\ up[x[1]] = "Up" /\ x[2] \notin used[x[1]]
      /\ \A p \in Peers, id \in Ids : up[p] = "Up" =>
           (id \in c.used[p] <=> id \in used[p] \/ <<p, id>> \in one)
      /\ \A p \in Peers, id \in Ids :
           c.stream[p][id] = IF <<p, id>> \in one THEN Begun(stream[p][id], m) ELSE stream[p][id]
  BY <1>1, <1>3 DEF Begins
<1>6. /\ ToSet(b.pairs) = ToSet(c.pairs) \cup two
      /\ \A x \in two : x[1] \in unsol /\ up[x[1]] = "Up" /\ x[2] \notin c.used[x[1]]
      /\ \A p \in Peers, id \in Ids : up[p] = "Up" =>
           (id \in b.used[p] <=> id \in c.used[p] \/ <<p, id>> \in two)
      /\ \A p \in Peers, id \in Ids :
           b.stream[p][id] = IF <<p, id>> \in two THEN Begun(c.stream[p][id], m) ELSE c.stream[p][id]
  BY <1>4 DEF Begins
<1>7. \A x \in two : x \notin one /\ x[2] \notin used[x[1]]
  <2>. SUFFICES ASSUME NEW x \in two PROVE x \notin one /\ x[2] \notin used[x[1]]
    OBVIOUS
  <2>1. x[1] \in Peers /\ x[2] \in Ids /\ x = <<x[1], x[2]>>
    OBVIOUS
  <2>2. up[x[1]] = "Up" /\ x[2] \notin c.used[x[1]]
    BY <1>6
  <2>3. ~(x[2] \in used[x[1]] \/ <<x[1], x[2]>> \in one)
    BY <1>5, <2>1, <2>2
  <2>. QED BY <2>1, <2>3
<1>8. ASSUME NEW p \in Peers, NEW id \in Ids
      PROVE  b.stream[p][id] =
               IF <<p, id>> \in one \cup two THEN Begun(stream[p][id], m) ELSE stream[p][id]
  <2>1. <<p, id>> \in two => <<p, id>> \notin one
    BY <1>7
  <2>2. c.stream[p][id] = IF <<p, id>> \in one THEN Begun(stream[p][id], m) ELSE stream[p][id]
    BY <1>5
  <2>3. b.stream[p][id] = IF <<p, id>> \in two THEN Begun(c.stream[p][id], m) ELSE c.stream[p][id]
    BY <1>6
  <2>. QED BY <2>1, <2>2, <2>3
<1>9. \A p \in Peers, id \in Ids : up[p] = "Up" =>
        (id \in b.used[p] <=> id \in used[p] \/ <<p, id>> \in one \cup two)
  BY <1>5, <1>6
<1>10. ToSet(b.pairs) = one \cup two
  BY <1>5, <1>6
<1>11. Opened(sol, unsol, m) = b
  BY DEF Opened, b, c
<1>12. \A x \in one \cup two : x[1] \in sol \cup unsol /\ up[x[1]] = "Up" /\ x[2] \notin used[x[1]]
  BY <1>5, <1>6, <1>7
<1>. DEFINE sent == one \cup two
<1>13. sent \in SUBSET (Peers \X Ids)
  OBVIOUS
<1>. HIDE DEF sent
<1>14. Opens(sent, b, sol \cup unsol, m)
  BY <1>8, <1>9, <1>10, <1>12 DEF Opens, sent
<1>. QED BY <1>11, <1>13, <1>14

(* Ended on some streams: their ids are not in use any more.               *)
LEMMA EndedFrees ==
  ASSUME NEW c \in Books, NEW pairs \in SUBSET (Peers \X Ids), NEW p \in Peers, NEW id \in Ids
  PROVE  id \in Ended(c, pairs).used[p] <=> id \in c.used[p] /\ <<p, id>> \notin pairs
<1>. DEFINE Mine(q) == {pair[2] : pair \in {x \in pairs : x[1] = q}} \cap c.used[q]
            u == [q \in Peers |-> c.used[q] \ Mine(q)]
<1>1. Ended(c, pairs).used = u
  BY DEF Ended, Books
<1>2. u[p] = c.used[p] \ Mine(p)
  OBVIOUS
<1>3. id \in Mine(p) <=> <<p, id>> \in pairs /\ id \in c.used[p]
  OBVIOUS
<1>. HIDE DEF Mine, u
<1>. QED BY <1>1, <1>2, <1>3

(* A piece passed on.                                                      *)
LEMMA PassedOn ==
  ASSUME NEW c \in Books, NEW pairs, NEW m \in Messages
  PROVE  /\ PassOn(c, pairs, m).used = c.used
         /\ \A p \in Peers, id \in Ids :
              PassOn(c, pairs, m).stream[p][id] =
                IF <<p, id>> \in pairs /\ up[p] = "Up" THEN Continued(c.stream[p][id], m)
                ELSE c.stream[p][id]
BY DEF PassOn, Books, OnStreams

(* One entry of cut_through_map and its message, as far as stream id of    *)
(* subscriber p is concerned, is as before.                                *)
Unmoved(r, p, id) ==
  /\ r \in DOMAIN relays' <=> r \in DOMAIN relays
  /\ r \in DOMAIN relays => (<<p, id>> \in Listed(r)' <=> <<p, id>> \in Listed(r))
  /\ received'[r[1]][r[2]] = received[r[1]][r[2]]

(* The entries that carry are those of peers and ids.                      *)
LEMMA CarryingIs ==
  ASSUME IdsInv, NEW p, NEW id, NEW r
  PROVE  r \in Carrying(p, id) <=>
           /\ r \in Peers \X Ids /\ r \in DOMAIN relays
           /\ received[r[1]][r[2]].left > 0 /\ <<p, id>> \in Listed(r)
BY DEF Carrying, Running, IdsInv, TypeOK

(* Such an entry carries what it carried.                                  *)
LEMMA CarryingElse ==
  ASSUME IdsInv, IdsInv', NEW p \in Peers, NEW id \in Ids, NEW r \in Peers \X Ids, Unmoved(r, p, id)
  PROVE  r \in Carrying(p, id)' <=> r \in Carrying(p, id)
<1>1. r \in Carrying(p, id) <=> /\ r \in Peers \X Ids /\ r \in DOMAIN relays
                                /\ received[r[1]][r[2]].left > 0 /\ <<p, id>> \in Listed(r)
  BY CarryingIs
<1>2. r \in Carrying(p, id)' <=> /\ r \in Peers \X Ids /\ r \in DOMAIN relays'
                                 /\ received'[r[1]][r[2]].left > 0 /\ <<p, id>> \in Listed(r)'
  BY DEF Carrying, Running, IdsInv, TypeOK
<1>. QED BY <1>1, <1>2 DEF Unmoved

(* A stream about which nothing changes.                                   *)
LEMMA StreamKept ==
  ASSUME IdsInv, IdsInv', NEW p \in Peers, NEW id \in Ids, StreamOK(p, id),
         id \in used'[p] <=> id \in used[p], stream'[p][id] = stream[p][id],
         flushing'[p][id] = flushing[p][id],
         \A r \in Peers \X Ids : \/ Unmoved(r, p, id)
                                 \/ r \notin Carrying(p, id) /\ r \notin Carrying(p, id)'
  PROVE  StreamOK(p, id)'
<1>1. /\ Carrying(p, id) \subseteq Peers \X Ids /\ Carrying(p, id)' \subseteq Peers \X Ids
      /\ \A r \in Peers \X Ids : r \in Carrying(p, id)' <=> r \in Carrying(p, id)
  <2>1. Carrying(p, id) \subseteq Peers \X Ids /\ Carrying(p, id)' \subseteq Peers \X Ids
    BY DEF Carrying, Running, IdsInv, TypeOK
  <2>. QED BY <2>1, CarryingElse
<1>2. Carrying(p, id)' = Carrying(p, id)
  BY <1>1
<1>3. \A r \in Carrying(p, id) : r \in Running' /\ received'[r[1]][r[2]] = received[r[1]][r[2]]
  <2>. SUFFICES ASSUME NEW r \in Carrying(p, id)
       PROVE  r \in Running' /\ received'[r[1]][r[2]] = received[r[1]][r[2]]
    OBVIOUS
  <2>1. r \in Carrying(p, id)'
    BY <1>2
  <2>2. r \in Peers \X Ids
    BY <1>1
  <2>. QED BY <2>1, <2>2 DEF Unmoved, Carrying
<1>. HIDE DEF Carrying
<1>. QED BY <1>2, <1>3 DEF StreamOK

(* Nothing garbled comes of streams in order.                              *)
LEMMA NotGarbledStep ==
  ASSUME IdsInv', StreamsOK', NotGarbled,
         \A p \in Peers, id \in Ids :
           up'[p] = "Up" \/ stream'[p][id] \in {stream[p][id], None}
  PROVE  NotGarbled'
<1>. SUFFICES ASSUME NEW p \in Peers, NEW id \in Ids PROVE stream'[p][id].message # "garbled"
  BY DEF NotGarbled
<1>1. None.message # "garbled" /\ "garbled" \notin Messages
  BY CutThroughAssumption DEF None, CutThroughAssumption
<1>2. CASE stream'[p][id] \in {stream[p][id], None}
  BY <1>1, <1>2 DEF NotGarbled
<1>3. CASE up'[p] = "Up"
  <2>1. StreamOK(p, id)'
    BY <1>3 DEF StreamsOK
  <2>2. CASE stream'[p][id] = None
    BY <1>1, <2>2
  <2>3. ASSUME NEW r \in Running', stream'[p][id] = received'[r[1]][r[2]]
        PROVE  stream'[p][id].message # "garbled"
    <3>1. r \in Peers \X Ids /\ received'[r[1]][r[2]].left > 0
      BY DEF Running, IdsInv, TypeOK
    <3>2. received'[r[1]][r[2]].message \in Messages
      BY <3>1 DEF IdsInv, Coming
    <3>. QED BY <1>1, <2>3, <3>2
  <2>. QED BY <2>1, <2>2, <2>3 DEF StreamOK
<1>. QED BY <1>2, <1>3

(* The step is about one entry of cut_through_map.                         *)
LEMMA SendersFrom ==
  ASSUME SendersOK, NEW x,
         \A r \in DOMAIN relays' : \/ r = x
                                   \/ /\ r \in DOMAIN relays /\ relays'[r] = relays[r]
                                      /\ received'[r[1]][r[2]] = received[r[1]][r[2]],
         x \in DOMAIN relays' => EntryOK(x)',
         \A p \in Peers : up'[p] # "Up" => up[p] # "Up" \/ Sends[p] \subseteq Bad
  PROVE  SendersOK'
<1>1. ASSUME NEW r \in DOMAIN relays' PROVE EntryOK(r)'
  <2>1. CASE r = x
    BY <2>1
  <2>2. CASE r # x
    <3>1. /\ r \in DOMAIN relays /\ relays'[r] = relays[r]
          /\ received'[r[1]][r[2]] = received[r[1]][r[2]]
      BY <2>2
    <3>2. EntryOK(r)
      BY <3>1 DEF SendersOK
    <3>. QED BY <3>1, <3>2 DEF EntryOK
  <2>. QED BY <2>1, <2>2
<1>. QED BY <1>1 DEF SendersOK

(* A piece counted is of the same message, and the last one leaves none.   *)
LEMMA Advanced ==
  ASSUME IdsInv, NEW p \in Peers, NEW id \in Ids, received[p][id].left > 0, Advance(p, id)
  PROVE  /\ received'[p][id] = Continued(received[p][id], received[p][id].message)
         /\ received'[p][id].left > 0 => received'[p][id].message = received[p][id].message
         /\ received'[p][id].left > 0 <=> ~IsLast(p, id)
         /\ \A r \in Peers \X Ids : r # <<p, id>> => received'[r[1]][r[2]] = received[r[1]][r[2]]
<1>. DEFINE f == received[p][id]  g == Continued(f, f.message)
<1>1. received \in [Peers -> [Ids -> Frames]]
  BY DEF IdsInv, TypeOK
<1>2. received' = [received EXCEPT ![p][id] = g]
  BY DEF Advance
<1>3. f \in Frames /\ f.left \in Nat /\ f.left > 0
  BY <1>1 DEF Frames
<1>4. g = IF f.left > 1 THEN [f EXCEPT !.left = @ - 1] ELSE None
  BY <1>3 DEF Continued
<1>5. /\ f.left > 1 => g.message = f.message /\ g.left = f.left - 1
      /\ ~(f.left > 1) => g.left = 0
  BY <1>3, <1>4 DEF Frames, None
<1>. HIDE DEF g
<1>6. received'[p][id] = g
  BY <1>1, <1>2
<1>7. \A r \in Peers \X Ids : r # <<p, id>> => received'[r[1]][r[2]] = received[r[1]][r[2]]
  BY <1>1, <1>2
<1>8. g.left > 0 <=> ~(f.left = 1)
  BY <1>3, <1>5
<1>9. g.left > 0 => g.message = f.message
  BY <1>3, <1>5
<1>. QED BY <1>6, <1>7, <1>8, <1>9 DEF g, IsLast

(* A message starts: it is one of those its peer sends.                    *)
LEMMA SendersStart ==
  ASSUME IdsInv, SendersOK, NEW p \in Peers, NEW id \in Ids, NEW m \in Messages,
         cut_through_recv_start(p, id, m)
  PROVE  SendersOK'
<1>. DEFINE x == <<p, id>>
<1>1. /\ m \in Sends[p] /\ received' = [received EXCEPT ![p][id] = Frame(m)]
      /\ relays' = [r \in DOMAIN relays \cup {x} |->
                      IF r = x THEN [subscribers |-> <<>>, header_recv |-> FALSE] ELSE relays[r]]
      /\ up' = up
  BY DEF cut_through_recv_start
<1>2. received \in [Peers -> [Ids -> Frames]] /\ DOMAIN relays \subseteq Peers \X Ids
  BY DEF IdsInv, TypeOK
<1>3. received'[p][id] = Frame(m)
  BY <1>1, <1>2
<1>4. \A r \in Peers \X Ids : r # x => received'[r[1]][r[2]] = received[r[1]][r[2]]
  BY <1>1, <1>2
<1>5. EntryOK(x)'
  BY <1>1, <1>3 DEF EntryOK, Frame
<1>6. \A r \in DOMAIN relays' : \/ r = x
                                \/ /\ r \in DOMAIN relays /\ relays'[r] = relays[r]
                                   /\ received'[r[1]][r[2]] = received[r[1]][r[2]]
  BY <1>1, <1>2, <1>4
<1>. HIDE DEF x
<1>. QED BY <1>1, <1>5, <1>6, SendersFrom

(* A header is read: only what a peer sends to be relayed gets subscribers,*)
(* and a peer that is closed for its message sends nothing else.           *)
LEMMA SendersHeader ==
  ASSUME SendersStay, IdsInv, SendersOK, NEW p \in Peers, NEW id \in Ids, Header(p, id)
  PROVE  SendersOK'
<1>. DEFINE m == received[p][id].message
            x == <<p, id>>
            entry == [relays[x] EXCEPT !.header_recv = TRUE]
<1>1. received[p][id].left > 0 /\ ~relays[x].header_recv
  BY DEF Header
<1>2. x \in DOMAIN relays /\ relays[x] \in Relays /\ m \in Messages
      /\ DOMAIN relays \subseteq Peers \X Ids
  BY <1>1 DEF IdsInv, TypeOK, Coming
<1>3. m \in Sends[p] /\ relays[x].subscribers = <<>>
  BY <1>1, <1>2 DEF SendersOK, EntryOK
<1>4. entry \in Relays /\ entry.header_recv = TRUE /\ entry.subscribers = <<>>
  BY <1>2, <1>3 DEF Relays
<1>5. Sends[p] \in SUBSET Messages
  BY CutThroughAssumption DEF CutThroughAssumption
<1>. HIDE DEF entry
<1>6. ASSUME NEW e, relays' = [relays EXCEPT ![x] = e], e.header_recv = TRUE,
             Sends[p] \subseteq Bad => e.subscribers = <<>>,
             Advance(p, id) \/ received' = received,
             \A q \in Peers : up'[q] # "Up" => up[q] # "Up" \/ Sends[q] \subseteq Bad
      PROVE  SendersOK'
  <2>1. \A r \in Peers \X Ids : r # x => received'[r[1]][r[2]] = received[r[1]][r[2]]
    BY <1>1, <1>6, Advanced
  <2>2. received'[p][id].left > 0 => received'[p][id].message = m
    BY <1>1, <1>6, Advanced
  <2>3. relays'[x] = e
    BY <1>2, <1>6
  <2>4. EntryOK(x)'
    BY <1>3, <1>6, <2>2, <2>3 DEF EntryOK
  <2>5. \A r \in DOMAIN relays' : \/ r = x
                                  \/ /\ r \in DOMAIN relays /\ relays'[r] = relays[r]
                                     /\ received'[r[1]][r[2]] = received[r[1]][r[2]]
    BY <1>2, <1>6, <2>1
  <2>. HIDE DEF x
  <2>. QED BY <1>6, <2>4, <2>5, SendersFrom
<1>. HIDE DEF m
<1>7. CASE relays' = [relays EXCEPT ![x] = entry] /\ Advance(p, id) /\ UNCHANGED up
  BY <1>4, <1>6, <1>7
<1>8. CASE /\ m \in Bad /\ relays' = [relays EXCEPT ![x] = entry]
           /\ up' = [up EXCEPT ![p] = "Closing"] /\ UNCHANGED received
  <2>1. Sends[p] \subseteq Bad
    BY <1>3, <1>8 DEF SendersStay
  <2>2. \A q \in Peers : up'[q] # "Up" => up[q] # "Up" \/ Sends[q] \subseteq Bad
    BY <1>8, <2>1 DEF IdsInv, TypeOK
  <2>. QED BY <1>4, <1>6, <1>8, <2>2
<1>9. ASSUME NEW l, m \notin Bad, relays' = [relays EXCEPT ![x] = [entry EXCEPT !.subscribers = @ \o l]],
             Advance(p, id), UNCHANGED up
      PROVE  SendersOK'
  <2>. DEFINE e == [entry EXCEPT !.subscribers = @ \o l]
  <2>1. e.header_recv = TRUE
    BY <1>4 DEF Relays
  <2>2. ~(Sends[p] \subseteq Bad)
    BY <1>3, <1>9
  <2>. HIDE DEF e
  <2>3. relays' = [relays EXCEPT ![x] = e]
    BY <1>9 DEF e
  <2>. QED BY <1>6, <1>9, <2>1, <2>2, <2>3
<1>. QED BY <1>7, <1>8, <1>9 DEF Header, entry, m

(* Later pieces, a flush, and the steps that bring nothing in.             *)
LEMMA SendersBytes ==
  ASSUME IdsInv, SendersOK, NEW p \in Peers, NEW id \in Ids,
         Bytes(p, id) \/ cut_through_recv_flush(p, id)
  PROVE  SendersOK'
<1>. DEFINE x == <<p, id>>
<1>1. received[p][id].left > 0 /\ relays' = relays
  BY DEF Bytes, cut_through_recv_flush
<1>2. /\ x \in DOMAIN relays /\ DOMAIN relays \subseteq Peers \X Ids
      /\ received \in [Peers -> [Ids -> Frames]] /\ up \in [Peers -> {"Up", "Closing", "None"}]
  BY <1>1 DEF IdsInv, TypeOK, Coming
<1>3. EntryOK(x)
  BY <1>2 DEF SendersOK
<1>4. \A q \in Peers : up'[q] # "Up" => up[q] # "Up"
  BY <1>2 DEF Bytes, cut_through_recv_flush, CloseFailed
<1>5. \A r \in Peers \X Ids : r # x => received'[r[1]][r[2]] = received[r[1]][r[2]]
  <2>1. CASE Bytes(p, id)
    BY <1>1, <2>1, Advanced DEF Bytes
  <2>2. CASE cut_through_recv_flush(p, id)
    BY <1>2, <2>2 DEF cut_through_recv_flush
  <2>. QED BY <2>1, <2>2
<1>6. /\ received'[p][id].left > 0 => received'[p][id].message = received[p][id].message
      /\ received'[p][id].left > 0 => relays[x].header_recv
  <2>1. CASE Bytes(p, id)
    BY <1>1, <2>1, Advanced DEF Bytes
  <2>2. CASE cut_through_recv_flush(p, id)
    BY <1>2, <2>2 DEF cut_through_recv_flush, None
  <2>. QED BY <2>1, <2>2
<1>7. EntryOK(x)'
  BY <1>1, <1>3, <1>6 DEF EntryOK
<1>8. \A r \in DOMAIN relays' : \/ r = x
                                \/ /\ r \in DOMAIN relays /\ relays'[r] = relays[r]
                                   /\ received'[r[1]][r[2]] = received[r[1]][r[2]]
  BY <1>1, <1>2, <1>5
<1>. HIDE DEF x
<1>. QED BY <1>4, <1>7, <1>8, SendersFrom

(* A list of subscribers a peer was taken out of: nobody else was, and     *)
(* the peer is off it when it was on it once.                              *)
Distinct(list) ==
  /\ IsInjective(list)
  /\ \A x, y \in ToSet(list) : x[1] = y[1] => x = y
LEMMA WithoutIs ==
  ASSUME NEW S, NEW list \in Seq(S), NEW p
  PROVE  /\ ToSet(Without(list, p)) \subseteq ToSet(list)
         /\ \A x \in ToSet(list) : x[1] # p => x \in ToSet(Without(list, p))
         /\ list = <<>> => Without(list, p) = <<>>
         /\ Distinct(list) => /\ Distinct(Without(list, p))
                              /\ \A x \in ToSet(Without(list, p)) : x[1] # p
<1>. DEFINE n == Len(list)
            I == {i \in 1 .. n : list[i][1] = p}
            first == SelectInSeq(list, LAMBDA pair : pair[1] = p)
            w == Without(list, p)
<1>1. first = (IF I # {} THEN Min(I) ELSE 0)
  BY DEF SelectInSeq
<1>2. I # {} => Min(I) \in I
  <2>1. SUFFICES ASSUME I # {} PROVE Min(I) \in I
    OBVIOUS
  <2>2. I \subseteq Nat
    BY LenProperties
  <2>. HIDE DEF I
  <2>3. \E x \in I : \A y \in I : x <= y
    BY <2>1, <2>2, LeastNumber
  <2>. QED BY <2>3 DEF Min
<1>3. n \in Nat /\ DOMAIN list = 1 .. n /\ \A i \in 1 .. n : list[i] \in S
  BY LenProperties, ElementOfSeq
<1>4. ToSet(list) = {list[i] : i \in 1 .. n}
  BY Elements
<1>5. CASE I = {}
  <2>1. w = list
    BY <1>1, <1>5 DEF Without
  <2>2. \A x \in ToSet(list) : x[1] # p
    BY <1>4, <1>5
  <2>. QED BY <2>1, <2>2
<1>6. CASE I # {}
  <2>1. first \in 1 .. n /\ list[first][1] = p
    BY <1>1, <1>2, <1>6
  <2>. HIDE DEF first, I
  <2>2. w = RemoveAt(list, first)
    BY <2>1 DEF Without, first
  <2>. DEFINE a == SubSeq(list, 1, first - 1)  b == SubSeq(list, first + 1, n)
  <2>3. a \in Seq(S) /\ Len(a) = first - 1 /\ \A i \in 1 .. first - 1 : a[i] = list[i]
    <3>1. \A i \in 1 .. first - 1 : list[i] \in S
      BY <1>3, <2>1
    <3>2. 1 \in Int /\ first - 1 \in Int /\ ~(1 > first)
      BY <1>3, <2>1
    <3>. QED BY <1>3, <2>1, <3>1, <3>2, SubSeqProperties
  <2>4. b \in Seq(S) /\ Len(b) = n - first /\ \A i \in 1 .. n - first : b[i] = list[first + i]
    <3>1. \A i \in first + 1 .. n : list[i] \in S
      BY <1>3, <2>1
    <3>2. first \in Nat /\ n \in Nat /\ first <= n
      BY <1>3, <2>1
    <3>3. /\ b \in Seq(S)
          /\ Len(b) = IF first + 1 <= n THEN n - (first + 1) + 1 ELSE 0
          /\ \A i \in 1 .. (n - (first + 1) + 1) : b[i] = list[first + 1 + i - 1]
      BY <3>1, <3>2, SubSeqProperties
    <3>4. Len(b) = n - first
      BY <3>2, <3>3
    <3>5. \A i \in 1 .. n - first : i \in 1 .. (n - (first + 1) + 1) /\ first + 1 + i - 1 = first + i
      BY <3>2
    <3>. QED BY <3>3, <3>4, <3>5
  <2>5. w = a \o b
    BY <2>2 DEF RemoveAt
  <2>. HIDE DEF a, b, w
  <2>6. /\ w \in Seq(S) /\ Len(w) = n - 1
        /\ \A i \in 1 .. n - 1 : w[i] = IF i < first THEN list[i] ELSE list[i + 1]
    <3>1. /\ a \o b \in Seq(S) /\ Len(a \o b) = Len(a) + Len(b)
          /\ \A i \in 1 .. Len(a) + Len(b) : (a \o b)[i] = IF i <= Len(a) THEN a[i] ELSE b[i - Len(a)]
      BY <2>3, <2>4, ConcatProperties
    <3>. QED BY <1>3, <2>1, <2>3, <2>4, <2>5, <3>1
  <2>7. ToSet(w) = {w[i] : i \in 1 .. n - 1} /\ DOMAIN w = 1 .. n - 1
    BY <2>6, Elements
  <2>. DEFINE at(i) == IF i < first THEN i ELSE i + 1
  <2>8. \A i \in 1 .. n - 1 : at(i) \in 1 .. n /\ at(i) # first /\ w[i] = list[at(i)]
    BY <1>3, <2>1, <2>6
  <2>9. \A k \in 1 .. n : k # first => \E i \in 1 .. n - 1 : at(i) = k
    <3>. SUFFICES ASSUME NEW k \in 1 .. n, k # first PROVE \E i \in 1 .. n - 1 : at(i) = k
      OBVIOUS
    <3>1. CASE k < first
      BY <1>3, <2>1, <3>1
    <3>2. CASE k > first
      <4>1. k - 1 \in 1 .. n - 1 /\ at(k - 1) = k
        BY <1>3, <2>1, <3>2
      <4>. QED BY <4>1
    <3>. QED BY <1>3, <2>1, <3>1, <3>2
  <2>10. \A i, j \in 1 .. n - 1 : at(i) = at(j) => i = j
    BY <1>3, <2>1
  <2>. HIDE DEF at
  <2>11. ToSet(w) \subseteq ToSet(list)
    BY <1>4, <2>7, <2>8
  <2>12. ASSUME NEW x \in ToSet(list), x[1] # p PROVE x \in ToSet(w)
    <3>1. PICK k \in 1 .. n : x = list[k]
      BY <1>4
    <3>2. k # first
      BY <2>1, <2>12, <3>1
    <3>3. PICK i \in 1 .. n - 1 : at(i) = k
      BY <2>9, <3>2
    <3>4. w[i] = x
      BY <2>8, <3>1, <3>3
    <3>. QED BY <2>7, <3>4
  <2>13. list # <<>>
    BY <1>3, <2>1, EmptySeq
  <2>14. ASSUME Distinct(list) PROVE Distinct(w) /\ \A x \in ToSet(w) : x[1] # p
    <3>1. \A i, j \in 1 .. n : list[i] = list[j] => i = j
      BY <1>3, <2>14 DEF Distinct, IsInjective
    <3>2. \A x, y \in ToSet(list) : x[1] = y[1] => x = y
      BY <2>14 DEF Distinct
    <3>3. IsInjective(w)
      <4>1. \A i, j \in 1 .. n - 1 : w[i] = w[j] => i = j
        BY <2>8, <2>10, <3>1
      <4>. QED BY <2>7, <4>1 DEF IsInjective
    <3>4. ASSUME NEW x \in ToSet(w), x[1] = p PROVE FALSE
      <4>1. PICK i \in 1 .. n - 1 : x = list[at(i)] /\ at(i) \in 1 .. n /\ at(i) # first
        BY <2>7, <2>8
      <4>2. list[first] \in ToSet(list) /\ list[at(i)] \in ToSet(list)
        BY <1>4, <2>1, <4>1
      <4>3. list[first] = list[at(i)]
        BY <2>1, <3>2, <3>4, <4>1, <4>2
      <4>. QED BY <2>1, <3>1, <4>1, <4>3
    <3>5. \A x, y \in ToSet(w) : x[1] = y[1] => x = y
      BY <2>11, <3>2
    <3>. QED BY <3>3, <3>4, <3>5 DEF Distinct
  <2>. QED BY <2>11, <2>12, <2>13, <2>14 DEF w
<1>. QED BY <1>5, <1>6

(* A connection ends: its messages are forgotten, and it is taken off the  *)
(* lists of the others.                                                    *)
LEMMA SendersClosed ==
  ASSUME IdsInv, SendersOK, NEW q \in Peers, did_close(q)
  PROVE  SendersOK'
<1>1. /\ up[q] = "Closing" /\ up' = [up EXCEPT ![q] = "None"]
      /\ DOMAIN relays' \subseteq DOMAIN relays
      /\ \A r \in DOMAIN relays' :
           relays'[r] = [relays[r] EXCEPT !.subscribers = Without(@, q)]
      /\ received' = [received EXCEPT ![q] = [id \in Ids |-> None]]
  BY DEF did_close
<1>2. /\ received \in [Peers -> [Ids -> Frames]] /\ DOMAIN relays \subseteq Peers \X Ids
      /\ relays \in [DOMAIN relays -> Relays] /\ up \in [Peers -> {"Up", "Closing", "None"}]
  BY DEF IdsInv, TypeOK
<1>3. ASSUME NEW r \in DOMAIN relays' PROVE EntryOK(r)'
  <2>1. EntryOK(r) /\ r \in Peers \X Ids /\ relays[r] \in Relays
    BY <1>1, <1>2, <1>3 DEF SendersOK
  <2>2. /\ relays'[r].header_recv = relays[r].header_recv
        /\ relays[r].subscribers = <<>> => relays'[r].subscribers = <<>>
    <3>1. relays[r].subscribers \in Seq(Peers \X Ids)
      BY <2>1 DEF Relays
    <3>2. relays[r].subscribers = <<>> => Without(relays[r].subscribers, q) = <<>>
      BY <3>1, WithoutIs
    <3>3. relays'[r] = [relays[r] EXCEPT !.subscribers = Without(relays[r].subscribers, q)]
      BY <1>1
    <3>. QED BY <2>1, <3>2, <3>3 DEF Relays
  <2>3. received'[r[1]][r[2]] = received[r[1]][r[2]] \/ ~(received'[r[1]][r[2]].left > 0)
    <3>1. CASE r[1] = q
      <4>1. received'[r[1]][r[2]] = None
        BY <1>1, <1>2, <2>1, <3>1
      <4>. QED BY <4>1 DEF None
    <3>2. CASE r[1] # q
      BY <1>1, <1>2, <2>1, <3>2
    <3>. QED BY <3>1, <3>2
  <2>. QED BY <2>1, <2>2, <2>3 DEF EntryOK
<1>4. \A p \in Peers : up'[p] # "Up" => Sends[p] \subseteq Bad
  BY <1>1, <1>2 DEF SendersOK
<1>. QED BY <1>3, <1>4 DEF SendersOK

(* The entries of cut_through_map stay in order.                           *)
LEMMA SendersStep ==
  ASSUME SendersStay, IdsInv, SendersOK, [Next]_vars
  PROVE  SendersOK'
<1>1. ASSUME UNCHANGED <<received, relays>>,
             \A p \in Peers : up'[p] # "Up" => up[p] # "Up" \/ Sends[p] \subseteq Bad
      PROVE  SendersOK'
  BY <1>1 DEF SendersOK, EntryOK
<1>2. ASSUME NEW p \in Peers, NEW id \in Ids, NEW m \in Messages, cut_through_recv_start(p, id, m)
      PROVE  SendersOK'
  BY <1>2, SendersStart
<1>3. ASSUME NEW p \in Peers, NEW id \in Ids, Header(p, id) PROVE SendersOK'
  BY <1>3, SendersHeader
<1>4. ASSUME NEW p \in Peers, NEW id \in Ids, Bytes(p, id) \/ cut_through_recv_flush(p, id)
      PROVE  SendersOK'
  BY <1>4, SendersBytes
<1>5. ASSUME NEW p \in Peers, NEW id \in Ids, did_recv_flush_conf(p, id) PROVE SendersOK'
  <2>1. UNCHANGED <<up, received, relays>>
    BY <1>5 DEF did_recv_flush_conf
  <2>. QED BY <1>1, <2>1
<1>6. ASSUME NEW m \in Messages, send_message_on_channel(m) PROVE SendersOK'
  <2>1. UNCHANGED <<up, received, relays>>
    BY <1>6 DEF send_message_on_channel
  <2>. QED BY <1>1, <2>1
<1>7. ASSUME NEW p \in Peers, close(p) PROVE SendersOK'
  <2>1. p \in Closers /\ up' = [up EXCEPT ![p] = "Closing"] /\ UNCHANGED <<received, relays>>
    BY <1>7 DEF close
  <2>2. up \in [Peers -> {"Up", "Closing", "None"}] /\ Sends[p] \subseteq Bad
    BY <2>1 DEF IdsInv, TypeOK, SendersStay
  <2>3. \A q \in Peers : up'[q] # "Up" => up[q] # "Up" \/ Sends[q] \subseteq Bad
    BY <2>1, <2>2
  <2>. QED BY <1>1, <2>1, <2>3
<1>8. ASSUME NEW p \in Peers, did_close(p) PROVE SendersOK'
  BY <1>8, SendersClosed
<1>9. CASE message_id_timer_cb \/ UNCHANGED vars
  <2>1. UNCHANGED <<up, received, relays>>
    BY <1>9 DEF message_id_timer_cb, vars
  <2>. QED BY <1>1, <2>1
<1>. QED BY <1>2, <1>3, <1>4, <1>5, <1>6, <1>7, <1>8, <1>9 DEF Next

(* On what has no connection nothing is written any more.                  *)
Frozen ==
  \A p \in Peers, id \in Ids : up'[p] = "Up" \/ stream'[p][id] \in {stream[p][id], None}

(* The step is about a message that goes to nobody.                        *)
LEMMA StreamsKept ==
  ASSUME IdsInv, IdsInv', StreamsOK, NEW x \in Peers \X Ids,
         \A r \in Peers \X Ids : r # x =>
           /\ r \in DOMAIN relays' <=> r \in DOMAIN relays
           /\ r \in DOMAIN relays => relays'[r].subscribers = relays[r].subscribers
           /\ received'[r[1]][r[2]] = received[r[1]][r[2]],
         x \in Running => relays[x].subscribers = <<>>,
         x \in Running' => relays'[x].subscribers = <<>>,
         \A p \in Peers : up'[p] = "Up" => up[p] = "Up",
         UNCHANGED <<used, stream, flushing>>
  PROVE  StreamsOK' /\ Frozen
<1>0. ToSet(<<>>) = {}
  BY DEF ToSet
<1>1. ASSUME NEW p \in Peers, NEW id \in Ids, up'[p] = "Up" PROVE StreamOK(p, id)'
  <2>1. StreamOK(p, id)
    BY <1>1 DEF StreamsOK
  <2>2. ASSUME NEW r \in Peers \X Ids
        PROVE  Unmoved(r, p, id) \/ (r \notin Carrying(p, id) /\ r \notin Carrying(p, id)')
    <3>1. CASE r = x
      BY <1>0, <3>1 DEF Carrying, Listed
    <3>2. CASE r # x
      BY <3>2 DEF Unmoved, Listed
    <3>. QED BY <3>1, <3>2
  <2>. QED BY <2>1, <2>2, StreamKept
<1>. QED BY <1>1 DEF StreamsOK, Frozen

(* A message starts.                                                       *)
LEMMA StreamsStart ==
  ASSUME IdsInv, IdsInv', StreamsOK, NEW p \in Peers, NEW id \in Ids, NEW m \in Messages,
         cut_through_recv_start(p, id, m)
  PROVE  StreamsOK' /\ Frozen
<1>. DEFINE x == <<p, id>>
<1>1. /\ received[p][id].left = 0 /\ received' = [received EXCEPT ![p][id] = Frame(m)]
      /\ relays' = [r \in DOMAIN relays \cup {x} |->
                      IF r = x THEN [subscribers |-> <<>>, header_recv |-> FALSE] ELSE relays[r]]
      /\ UNCHANGED <<up, used, stream, flushing>>
  BY DEF cut_through_recv_start, ids
<1>2. received \in [Peers -> [Ids -> Frames]]
  BY DEF IdsInv, TypeOK
<1>3. x \notin Running
  BY <1>1 DEF Running
<1>4. relays'[x].subscribers = <<>>
  BY <1>1
<1>5. \A r \in Peers \X Ids : r # x =>
        /\ r \in DOMAIN relays' <=> r \in DOMAIN relays
        /\ r \in DOMAIN relays => relays'[r].subscribers = relays[r].subscribers
        /\ received'[r[1]][r[2]] = received[r[1]][r[2]]
  BY <1>1, <1>2
<1>6. x \in Peers \X Ids
  OBVIOUS
<1>. HIDE DEF x
<1>. QED BY <1>1, <1>3, <1>4, <1>5, <1>6, StreamsKept

(* A header that is not relayed: the message is known, or not verifiable.  *)
LEMMA StreamsDropped ==
  ASSUME IdsInv, IdsInv', StreamsOK, SendersOK, NEW p \in Peers, NEW id \in Ids,
         received[p][id].left > 0, ~relays[<<p, id>>].header_recv,
         relays' = [relays EXCEPT ![<<p, id>>] = [relays[<<p, id>>] EXCEPT !.header_recv = TRUE]],
         Advance(p, id) \/ received' = received,
         \A q \in Peers : up'[q] = "Up" => up[q] = "Up",
         UNCHANGED <<used, stream, flushing>>
  PROVE  StreamsOK' /\ Frozen
<1>. DEFINE x == <<p, id>>
<1>1. x \in DOMAIN relays /\ relays[x] \in Relays /\ x \in Peers \X Ids
  BY DEF IdsInv, TypeOK, Coming
<1>2. relays[x].subscribers = <<>>
  BY <1>1 DEF SendersOK, EntryOK
<1>3. relays'[x].subscribers = <<>>
  BY <1>1, <1>2 DEF Relays
<1>4. \A r \in Peers \X Ids : r # x =>
        /\ r \in DOMAIN relays' <=> r \in DOMAIN relays
        /\ r \in DOMAIN relays => relays'[r].subscribers = relays[r].subscribers
        /\ received'[r[1]][r[2]] = received[r[1]][r[2]]
  BY Advanced
<1>. HIDE DEF x
<1>. QED BY <1>1, <1>2, <1>3, <1>4, StreamsKept

(* The last piece takes the streams of a message out of use.               *)
LEMMA Finished ==
  ASSUME NEW c \in Books, NEW p \in Peers, NEW id \in Ids, Finish(p, id, c),
         NEW q \in Peers, NEW k \in Ids
  PROVE  /\ k \in used'[q] <=> k \in c.used[q] /\ ~(IsLast(p, id) /\ <<q, k>> \in ToSet(c.pairs))
         /\ stream' = c.stream
<1>1. ToSet(c.pairs) \in SUBSET (Peers \X Ids)
  BY Elements DEF Books
<1>2. CASE IsLast(p, id)
  <2>1. used' = Ended(c, ToSet(c.pairs)).used /\ stream' = Ended(c, ToSet(c.pairs)).stream
    BY <1>2 DEF Finish, SetIds
  <2>2. k \in Ended(c, ToSet(c.pairs)).used[q] <=> k \in c.used[q] /\ <<q, k>> \notin ToSet(c.pairs)
    BY <1>1, EndedFrees
  <2>3. Ended(c, ToSet(c.pairs)).stream = c.stream
    BY DEF Ended, Books
  <2>. QED BY <1>2, <2>1, <2>2, <2>3
<1>3. CASE ~IsLast(p, id)
  BY <1>3 DEF Finish, SetIds
<1>. QED BY <1>2, <1>3

(* A stream that x is relayed on from this step on, or was until then.     *)
LEMMA StreamMoves ==
  ASSUME IdsInv, IdsInv', NEW p \in Peers, NEW id \in Ids, NEW x \in Peers \X Ids,
         \A r \in Peers \X Ids : r # x => Unmoved(r, p, id),
         Carrying(p, id) \subseteq {x}, flushing'[p][id] = 0,
         \/ /\ x \in Carrying(p, id)' /\ id \in used'[p]
            /\ stream'[p][id] = received'[x[1]][x[2]]
         \/ x \notin Carrying(p, id)' /\ id \notin used'[p] /\ stream'[p][id] = None
  PROVE  StreamOK(p, id)'
<1>1. Carrying(p, id)' \subseteq Peers \X Ids
  BY DEF Carrying, Running, IdsInv, TypeOK
<1>2. Carrying(p, id)' \subseteq {x}
  BY <1>1, CarryingElse
<1>3. CASE x \in Carrying(p, id)'
  <2>1. Carrying(p, id)' = {x} /\ x \in Running'
    BY <1>2, <1>3 DEF Carrying
  <2>. HIDE DEF Carrying
  <2>. QED BY <1>3, <2>1 DEF StreamOK
<1>4. CASE x \notin Carrying(p, id)'
  <2>1. Carrying(p, id)' = {}
    BY <1>2, <1>4
  <2>. HIDE DEF Carrying
  <2>. QED BY <1>4, <2>1 DEF StreamOK
<1>. QED BY <1>3, <1>4

(* A header that is relayed: it is begun on streams that were free.        *)
LEMMA StreamsRelayed ==
  ASSUME IdsInv, IdsInv', StreamsOK, SendersOK, NEW p \in Peers, NEW id \in Ids, NEW m \in Messages,
         NEW sol \in SUBSET Peers, NEW unsol \in SUBSET Peers,
         m = received[p][id].message, received[p][id].left > 0, ~relays[<<p, id>>].header_recv,
         relays' = [relays EXCEPT ![<<p, id>>] =
           [[relays[<<p, id>>] EXCEPT !.header_recv = TRUE]
              EXCEPT !.subscribers = @ \o Opened(sol, unsol, m).pairs]],
         Finish(p, id, PassOn(Opened(sol, unsol, m), ToSet(Opened(sol, unsol, m).pairs), m)),
         Advance(p, id), UNCHANGED <<up, flushing>>
  PROVE  StreamsOK' /\ Frozen
<1>. DEFINE x == <<p, id>>
            b == Opened(sol, unsol, m)
            c == PassOn(b, ToSet(b.pairs), m)
<1>1. /\ x \in DOMAIN relays /\ relays[x] \in Relays /\ x \in Peers \X Ids
      /\ received[p][id] \in Frames /\ flushing \in [Peers -> [Ids -> Nat]]
  BY DEF IdsInv, TypeOK, Coming
<1>2. relays[x].subscribers = <<>> /\ received[p][id].left = Pieces
  BY <1>1 DEF SendersOK, EntryOK
<1>3. received[p][id] = Frame(m)
  BY <1>1, <1>2 DEF Frames, Frame
<1>4. BooksOK
  BY Parts
<1>5. b \in Books /\ Conserved(b)
  BY <1>4, OpenedKeeps
<1>. HIDE DEF b
<1>6a. PICK sent \in SUBSET (Peers \X Ids) : Opens(sent, b, sol \cup unsol, m)
  BY <1>4, OpenedSends DEF b
<1>6. /\ ToSet(b.pairs) = sent
      /\ \A y \in sent : up[y[1]] = "Up" /\ y[2] \notin used[y[1]]
      /\ \A q \in Peers, k \in Ids : up[q] = "Up" => (k \in b.used[q] <=> k \in used[q] \/ <<q, k>> \in sent)
      /\ \A q \in Peers, k \in Ids :
           b.stream[q][k] = IF <<q, k>> \in sent THEN Begun(stream[q][k], m) ELSE stream[q][k]
  BY <1>6a DEF Opens
<1>7. Listed(x)' = sent
  <2>1. b.pairs \in Seq(Peers \X Ids)
    BY <1>5 DEF Books
  <2>2. <<>> \o b.pairs = b.pairs
    BY <2>1, ConcatEmptySeq
  <2>3. relays'[x].subscribers = b.pairs
    BY <1>1, <1>2, <2>2 DEF Relays, b
  <2>. QED BY <1>6, <2>3 DEF Listed
<1>8. /\ c \in Books /\ c.used = b.used /\ c.pairs = b.pairs
      /\ \A q \in Peers, k \in Ids :
           c.stream[q][k] = IF <<q, k>> \in sent /\ up[q] = "Up" THEN Continued(b.stream[q][k], m)
                            ELSE b.stream[q][k]
  <2>1. ToSet(b.pairs) = sent
    BY <1>6
  <2>. QED BY <1>5, <2>1, PassedOn, PassedKeeps
<1>9. Finish(p, id, c)
  BY DEF b
<1>. HIDE DEF c
<1>10. /\ received'[p][id] = Continued(Frame(m), m)
       /\ received'[p][id].left > 0 <=> ~IsLast(p, id)
       /\ \A r \in Peers \X Ids : r # x => received'[r[1]][r[2]] = received[r[1]][r[2]]
  <2>1. Frame(m).message = m
    BY DEF Frame
  <2>. QED BY <1>3, <2>1, Advanced
<1>11. ASSUME NEW q \in Peers, NEW k \in Ids, NEW r \in Peers \X Ids, r # x
       PROVE  Unmoved(r, q, k)
  <2>1. r \in DOMAIN relays' <=> r \in DOMAIN relays
    OBVIOUS
  <2>2. r \in DOMAIN relays => relays'[r] = relays[r]
    BY <1>11
  <2>. QED BY <1>10, <1>11, <2>1, <2>2 DEF Unmoved, Listed
<1>12. \A q \in Peers, k \in Ids : x \notin Carrying(q, k)
  BY <1>2 DEF Carrying, Listed, ToSet
<1>13. \A q \in Peers, k \in Ids :
         x \in Carrying(q, k)' <=> <<q, k>> \in sent /\ received'[p][id].left > 0
  BY <1>1, <1>7 DEF Carrying, Running
<1>14. ASSUME NEW q \in Peers, NEW k \in Ids, up[q] = "Up", <<q, k>> \notin sent
       PROVE  StreamOK(q, k)'
  <2>1. StreamOK(q, k)
    BY <1>14 DEF StreamsOK
  <2>2. (k \in used'[q] <=> k \in used[q]) /\ stream'[q][k] = stream[q][k]
    BY <1>6, <1>8, <1>9, <1>14, Finished
  <2>3. flushing'[q][k] = flushing[q][k]
    OBVIOUS
  <2>4. x \notin Carrying(q, k) /\ x \notin Carrying(q, k)'
    BY <1>12, <1>13, <1>14
  <2>. HIDE DEF x
  <2>. QED BY <1>11, <2>1, <2>2, <2>3, <2>4, StreamKept
<1>15. ASSUME NEW q \in Peers, NEW k \in Ids, up[q] = "Up", <<q, k>> \in sent
       PROVE  StreamOK(q, k)'
  <2>1. k \notin used[q]
    BY <1>6, <1>15
  <2>2. Carrying(q, k) = {} /\ stream[q][k] = None /\ flushing[q][k] = 0
    BY <1>15, <2>1 DEF StreamsOK, StreamOK
  <2>3. b.stream[q][k] = Frame(m)
    <3>1. b.stream[q][k] = Begun(None, m)
      BY <1>6, <1>15, <2>2
    <3>2. Begun(None, m) = Frame(m)
      BY DEF Begun, None
    <3>. QED BY <3>1, <3>2
  <2>4. stream'[q][k] = received'[p][id]
    <3>1. c.stream[q][k] = Continued(Frame(m), m)
      BY <1>8, <1>15, <2>3
    <3>2. stream' = c.stream
      BY <1>8, <1>9, Finished
    <3>. QED BY <1>10, <3>1, <3>2
  <2>5. k \in used'[q] <=> ~IsLast(p, id)
    BY <1>6, <1>8, <1>9, <1>15, Finished
  <2>6. IsLast(p, id) => stream'[q][k] = None
    <3>1. IsLast(p, id) => Continued(Frame(m), m) = None
      BY <1>3, <1>2, CutThroughAssumption DEF IsLast, Continued, Frame, CutThroughAssumption
    <3>. QED BY <1>10, <2>4, <3>1
  <2>7. flushing'[q][k] = 0
    BY <2>2
  <2>. HIDE DEF x
  <2>8. Carrying(q, k) \subseteq {x} /\ x[1] = p /\ x[2] = id
    BY <2>2 DEF x
  <2>. QED BY <1>1, <1>10, <1>11, <1>13, <1>15, <2>4, <2>5, <2>6, <2>7, <2>8, StreamMoves
<1>16. ASSUME NEW q \in Peers, NEW k \in Ids, up[q] # "Up" PROVE stream'[q][k] = stream[q][k]
  <2>1. <<q, k>> \notin sent
    BY <1>6, <1>16
  <2>2. stream' = c.stream
    BY <1>8, <1>9, Finished
  <2>. QED BY <1>6, <1>8, <2>1, <2>2
<1>. QED BY <1>14, <1>15, <1>16 DEF StreamsOK, Frozen

(* The first piece.                                                        *)
LEMMA StreamsHeader ==
  ASSUME IdsInv, IdsInv', StreamsOK, SendersOK, NEW p \in Peers, NEW id \in Ids, Header(p, id)
  PROVE  StreamsOK' /\ Frozen
<1>. DEFINE m == received[p][id].message
            r == <<p, id>>
            entry == [relays[r] EXCEPT !.header_recv = TRUE]
            begun == Opened(Targets(sol_conns, p, m), Targets(unsol_conns, p, m), m)
            pairs == ToSet(begun.pairs)
<1>1. /\ received[p][id].left > 0 /\ ~relays[r].header_recv
      /\ UNCHANGED flushing
  BY DEF Header
<1>2. m \in Messages /\ up \in [Peers -> {"Up", "Closing", "None"}]
  BY <1>1 DEF IdsInv, TypeOK, Coming
<1>. HIDE DEF m
<1>3. CASE /\ relays' = [relays EXCEPT ![r] = entry]
           /\ \/ Advance(p, id) /\ UNCHANGED up
              \/ up' = [up EXCEPT ![p] = "Closing"] /\ UNCHANGED received
           /\ UNCHANGED <<ids, stream>>
  <2>1. \A q \in Peers : up'[q] = "Up" => up[q] = "Up"
    BY <1>2, <1>3
  <2>2. UNCHANGED <<used, stream, flushing>>
    BY <1>1, <1>3 DEF ids
  <2>. QED BY <1>1, <1>3, <2>1, <2>2, StreamsDropped
<1>4. CASE /\ Advance(p, id) /\ UNCHANGED up
           /\ relays' = [relays EXCEPT ![r] = [entry EXCEPT !.subscribers = @ \o begun.pairs]]
           /\ Finish(p, id, PassOn(begun, pairs, m))
  <2>. DEFINE sol == Targets(sol_conns, p, m)  unsol == Targets(unsol_conns, p, m)
  <2>1. sol \in SUBSET Peers /\ unsol \in SUBSET Peers
    BY CutThroughAssumption DEF IdsInv, TypeOK, CutThroughAssumption, Targets
  <2>2. begun = Opened(sol, unsol, m)
    OBVIOUS
  <2>. HIDE DEF sol, unsol, begun
  <2>. QED BY <1>1, <1>2, <1>4, <2>1, <2>2, StreamsRelayed DEF m
<1>. QED BY <1>3, <1>4 DEF Header, Opened, m

(* Later pieces: every stream the message is relayed on follows.           *)
LEMMA StreamsBytes ==
  ASSUME IdsInv, IdsInv', StreamsOK, NEW p \in Peers, NEW id \in Ids, Bytes(p, id)
  PROVE  StreamsOK' /\ Frozen
<1>. DEFINE x == <<p, id>>
            m == received[p][id].message
            pairs == Listed(x)
            c == [PassOn(Now, pairs, m) EXCEPT !.pairs = relays[x].subscribers]
<1>1. /\ received[p][id].left > 0 /\ Finish(p, id, c) /\ Advance(p, id)
      /\ UNCHANGED <<relays, flushing>> /\ CloseFailed(pairs)
  BY DEF Bytes
<1>2. /\ x \in DOMAIN relays /\ relays[x] \in Relays /\ x \in Peers \X Ids /\ m \in Messages
      /\ up \in [Peers -> {"Up", "Closing", "None"}]
  BY <1>1 DEF IdsInv, TypeOK, Coming
<1>3. /\ c \in Books /\ c.used = used /\ ToSet(c.pairs) = pairs
      /\ \A q \in Peers, k \in Ids :
           c.stream[q][k] = IF <<q, k>> \in pairs /\ up[q] = "Up" THEN Continued(stream[q][k], m)
                            ELSE stream[q][k]
  <2>1. Now \in Books /\ Conserved(Now) /\ Now.used = used /\ Now.stream = stream
    BY Parts, NowKeeps DEF Now
  <2>2. relays[x].subscribers \in Seq(Peers \X Ids) /\ ToSet(relays[x].subscribers) = pairs
    BY <1>2 DEF Relays, Listed
  <2>. HIDE DEF pairs, m
  <2>3. /\ PassOn(Now, pairs, m) \in Books /\ PassOn(Now, pairs, m).used = used
        /\ \A q \in Peers, k \in Ids :
             PassOn(Now, pairs, m).stream[q][k] =
               IF <<q, k>> \in pairs /\ up[q] = "Up" THEN Continued(stream[q][k], m) ELSE stream[q][k]
    BY <1>2, <2>1, PassedOn, PassedKeeps
  <2>. DEFINE d == PassOn(Now, pairs, m)
  <2>. HIDE DEF d
  <2>4. c = [d EXCEPT !.pairs = relays[x].subscribers]
    BY DEF d
  <2>5. c \in Books /\ c.used = d.used /\ c.stream = d.stream /\ c.pairs = relays[x].subscribers
    BY <2>2, <2>3, <2>4 DEF Books, d
  <2>. QED BY <2>2, <2>3, <2>5 DEF d
<1>. HIDE DEF c
<1>4. /\ received'[p][id] = Continued(received[p][id], m)
      /\ received'[p][id].left > 0 <=> ~IsLast(p, id)
      /\ \A r \in Peers \X Ids : r # x => received'[r[1]][r[2]] = received[r[1]][r[2]]
  BY <1>1, Advanced
<1>5. \A r \in Peers \X Ids, q \in Peers, k \in Ids : r # x => Unmoved(r, q, k)
  BY <1>1, <1>4 DEF Unmoved, Listed
<1>6. \A q \in Peers, k \in Ids :
        /\ x \in Carrying(q, k) <=> <<q, k>> \in pairs
        /\ x \in Carrying(q, k)' <=> <<q, k>> \in pairs /\ received'[p][id].left > 0
  BY <1>1, <1>2 DEF Carrying, Running, Listed
<1>7. \A q \in Peers : up'[q] = "Up" => up[q] = "Up"
  BY <1>1, <1>2 DEF CloseFailed
<1>. HIDE DEF pairs
<1>8. ASSUME NEW q \in Peers, NEW k \in Ids, up[q] = "Up", <<q, k>> \notin pairs
      PROVE  StreamOK(q, k)'
  <2>1. StreamOK(q, k)
    BY <1>8 DEF StreamsOK
  <2>2. (k \in used'[q] <=> k \in used[q]) /\ stream'[q][k] = stream[q][k]
    BY <1>1, <1>3, <1>8, Finished
  <2>3. flushing'[q][k] = flushing[q][k]
    BY <1>1
  <2>4. x \notin Carrying(q, k) /\ x \notin Carrying(q, k)'
    BY <1>6, <1>8
  <2>. HIDE DEF x
  <2>. QED BY <1>5, <2>1, <2>2, <2>3, <2>4, StreamKept
<1>9. ASSUME NEW q \in Peers, NEW k \in Ids, up[q] = "Up", <<q, k>> \in pairs
      PROVE  StreamOK(q, k)'
  <2>1. x \in Carrying(q, k) /\ StreamOK(q, k)
    BY <1>6, <1>9 DEF StreamsOK
  <2>2. /\ Carrying(q, k) = {x} /\ k \in used[q] /\ flushing[q][k] = 0
        /\ stream[q][k] = received[p][id]
    <3>1. PICK r \in Running : Carrying(q, k) = {r} /\ stream[q][k] = received[r[1]][r[2]]
      BY <2>1 DEF StreamOK
    <3>2. r = x
      BY <2>1, <3>1
    <3>. QED BY <2>1, <3>1, <3>2 DEF StreamOK
  <2>3. stream'[q][k] = received'[p][id]
    <3>1. stream' = c.stream
      BY <1>1, <1>3, Finished
    <3>. QED BY <1>3, <1>4, <1>9, <2>2, <3>1
  <2>4. k \in used'[q] <=> ~IsLast(p, id)
    BY <1>1, <1>3, <1>9, <2>2, Finished
  <2>5. IsLast(p, id) => stream'[q][k] = None
    <3>1. IsLast(p, id) => Continued(received[p][id], m) = None
      BY DEF IsLast, Continued
    <3>. QED BY <1>4, <2>3, <3>1
  <2>6. flushing'[q][k] = 0
    BY <1>1, <2>2
  <2>7. Carrying(q, k) \subseteq {x} /\ x[1] = p /\ x[2] = id
    BY <2>2
  <2>. HIDE DEF x
  <2>. QED BY <1>2, <1>4, <1>5, <1>6, <1>9, <2>3, <2>4, <2>5, <2>6, <2>7, StreamMoves
<1>10. ASSUME NEW q \in Peers, NEW k \in Ids, up[q] # "Up" PROVE stream'[q][k] = stream[q][k]
  <2>1. stream' = c.stream
    BY <1>1, <1>3, Finished
  <2>. QED BY <1>3, <1>10, <2>1
<1>11. ASSUME NEW q \in Peers, NEW k \in Ids
       PROVE  up'[q] = "Up" \/ stream'[q][k] \in {stream[q][k], None}
  <2>1. up[q] = "Up" => up'[q] = "Up"
    BY <1>1, <1>2 DEF CloseFailed
  <2>. QED BY <1>10, <2>1
<1>. QED BY <1>7, <1>8, <1>9, <1>11 DEF StreamsOK, Frozen

(* The peer gave up a message: its streams wait for the confirmation.      *)
LEMMA StreamsFlush ==
  ASSUME IdsInv, IdsInv', StreamsOK, NEW p \in Peers, NEW id \in Ids, cut_through_recv_flush(p, id)
  PROVE  StreamsOK' /\ Frozen
<1>. DEFINE x == <<p, id>>  pairs == Listed(x)
<1>1. /\ received[p][id].left > 0 /\ received' = [received EXCEPT ![p][id] = None]
      /\ stream' = OnStreams(stream, pairs, LAMBDA f : None)
      /\ flushing' = OnStreams(flushing, pairs, LAMBDA n : n + 1)
      /\ UNCHANGED <<up, used, relays>>
  BY DEF cut_through_recv_flush, FlushAll, ids
<1>2. /\ x \in DOMAIN relays /\ x \in Peers \X Ids /\ received \in [Peers -> [Ids -> Frames]]
      /\ flushing \in [Peers -> [Ids -> Nat]]
  BY <1>1 DEF IdsInv, TypeOK, Coming
<1>3. ~(received'[p][id].left > 0) /\ \A r \in Peers \X Ids : r # x => received'[r[1]][r[2]] = received[r[1]][r[2]]
  <2>1. None.left = 0 /\ ~(0 > 0)
    BY DEF None
  <2>. DEFINE f == None
  <2>0. received' = [received EXCEPT ![p][id] = f]
    BY <1>1
  <2>. HIDE DEF f
  <2>2. received'[p][id] = f
    BY <1>2, <2>0
  <2>3. \A r \in Peers \X Ids : r # x => received'[r[1]][r[2]] = received[r[1]][r[2]]
    BY <1>2, <2>0
  <2>. QED BY <2>1, <2>2, <2>3 DEF f
<1>4. \A r \in Peers \X Ids, q \in Peers, k \in Ids : r # x => Unmoved(r, q, k)
  BY <1>1, <1>3 DEF Unmoved, Listed
<1>5. \A q \in Peers, k \in Ids :
        /\ x \in Carrying(q, k) <=> <<q, k>> \in pairs
        /\ x \notin Carrying(q, k)'
  BY <1>1, <1>2, <1>3 DEF Carrying, Running, Listed
<1>. HIDE DEF pairs
<1>6. \A q \in Peers, k \in Ids :
        /\ stream'[q][k] = IF <<q, k>> \in pairs THEN None ELSE stream[q][k]
        /\ flushing'[q][k] = IF <<q, k>> \in pairs THEN flushing[q][k] + 1 ELSE flushing[q][k]
  BY <1>1 DEF OnStreams
<1>7. ASSUME NEW q \in Peers, NEW k \in Ids, up[q] = "Up", <<q, k>> \notin pairs
      PROVE  StreamOK(q, k)'
  <2>1. StreamOK(q, k) /\ x \notin Carrying(q, k) /\ x \notin Carrying(q, k)'
    BY <1>5, <1>7 DEF StreamsOK
  <2>2. /\ k \in used'[q] <=> k \in used[q]
        /\ stream'[q][k] = stream[q][k] /\ flushing'[q][k] = flushing[q][k]
    BY <1>1, <1>6, <1>7
  <2>. HIDE DEF x
  <2>. QED BY <1>4, <2>1, <2>2, StreamKept
<1>8. ASSUME NEW q \in Peers, NEW k \in Ids, up[q] = "Up", <<q, k>> \in pairs
      PROVE  StreamOK(q, k)'
  <2>1. x \in Carrying(q, k) /\ StreamOK(q, k)
    BY <1>5, <1>8 DEF StreamsOK
  <2>2. Carrying(q, k) = {x} /\ k \in used'[q] /\ flushing[q][k] = 0
    BY <1>1, <2>1 DEF StreamOK
  <2>3. stream'[q][k] = None /\ flushing'[q][k] = 1
    BY <1>6, <1>8, <2>2
  <2>4. Carrying(q, k)' = {}
    <3>1. Carrying(q, k)' \subseteq Peers \X Ids
      BY DEF Carrying, Running, IdsInv, TypeOK
    <3>. HIDE DEF x
    <3>2. ASSUME NEW r \in Peers \X Ids PROVE r \notin Carrying(q, k)'
      <4>1. CASE r = x
        BY <1>5, <4>1
      <4>2. CASE r # x
        <5>1. r \notin Carrying(q, k) /\ Unmoved(r, q, k)
          BY <1>4, <2>2, <4>2
        <5>. QED BY <5>1, CarryingElse
      <4>. QED BY <4>1, <4>2
    <3>. QED BY <3>1, <3>2
  <2>. QED BY <2>2, <2>3, <2>4 DEF StreamOK
<1>. QED BY <1>1, <1>6, <1>7, <1>8 DEF StreamsOK, Frozen

(* A flush is confirmed: the stream is free.                               *)
LEMMA StreamsConf ==
  ASSUME IdsInv, IdsInv', StreamsOK, NEW p \in Peers, NEW id \in Ids, did_recv_flush_conf(p, id)
  PROVE  StreamsOK' /\ Frozen
<1>1. /\ up[p] = "Up" /\ flushing[p][id] > 0
      /\ flushing' = [flushing EXCEPT ![p][id] = @ - 1]
      /\ SetIds(Ended(Now, {<<p, id>>}))
      /\ UNCHANGED <<up, relays, received>>
  BY DEF did_recv_flush_conf
<1>2. flushing \in [Peers -> [Ids -> Nat]]
  BY DEF IdsInv, TypeOK
<1>3. \A r, q, k : Unmoved(r, q, k)
  BY <1>1 DEF Unmoved, Listed
<1>4. \A q \in Peers, k \in Ids : k \in used'[q] <=> k \in used[q] /\ <<q, k>> # <<p, id>>
  <2>1. Now \in Books /\ Now.used = used
    BY Parts, NowKeeps DEF Now
  <2>2. used' = Ended(Now, {<<p, id>>}).used
    BY <1>1 DEF SetIds
  <2>3. {<<p, id>>} \in SUBSET (Peers \X Ids)
    OBVIOUS
  <2>. QED BY <2>1, <2>2, <2>3, EndedFrees
<1>5. stream' = stream
  BY <1>1 DEF SetIds, Ended, Now
<1>6. ASSUME NEW q \in Peers, NEW k \in Ids, up[q] = "Up", <<q, k>> # <<p, id>>
      PROVE  StreamOK(q, k)'
  <2>1. StreamOK(q, k)
    BY <1>6 DEF StreamsOK
  <2>2. flushing'[q][k] = flushing[q][k]
    BY <1>1, <1>2, <1>6
  <2>. QED BY <1>3, <1>4, <1>5, <1>6, <2>1, <2>2, StreamKept
<1>7. StreamOK(p, id)'
  <2>1. StreamOK(p, id)
    BY <1>1 DEF StreamsOK
  <2>2. Carrying(p, id) = {} /\ stream[p][id] = None /\ flushing[p][id] = 1
    BY <1>1, <2>1 DEF StreamOK
  <2>3. Carrying(p, id)' = {}
    BY <1>1, <2>2 DEF Carrying, Running, Listed
  <2>4. flushing'[p][id] = 0
    BY <1>1, <1>2, <2>2
  <2>5. id \notin used'[p]
    BY <1>4
  <2>. QED BY <1>5, <2>2, <2>3, <2>4, <2>5 DEF StreamOK
<1>. QED BY <1>1, <1>5, <1>6, <1>7 DEF StreamsOK, Frozen

(* A message of the node's own leaves every stream as it was.              *)
LEMMA StreamsPublish ==
  ASSUME IdsInv, IdsInv', StreamsOK, NEW m \in Messages, send_message_on_channel(m)
  PROVE  StreamsOK' /\ Frozen
<1>. DEFINE b == Opened(sol_conns, unsol_conns, m)
            pairs == ToSet(b.pairs)
            written == [b EXCEPT !.stream = OnStreams(@, pairs, LAMBDA f : Whole(f, m))]
<1>1. SetIds(Ended(written, pairs)) /\ UNCHANGED <<up, received, relays, flushing>>
  BY DEF send_message_on_channel, Opened
<1>2. BooksOK /\ sol_conns \in SUBSET Peers /\ unsol_conns \in SUBSET Peers
  BY Parts, CutThroughAssumption DEF IdsInv, TypeOK, CutThroughAssumption
<1>3. b \in Books
  BY <1>2, OpenedKeeps
<1>. HIDE DEF b
<1>4. PICK sent \in SUBSET (Peers \X Ids) : Opens(sent, b, sol_conns \cup unsol_conns, m)
  BY <1>2, OpenedSends DEF b
<1>5. pairs = sent
  BY <1>4 DEF Opens
<1>6. /\ \A y \in sent : up[y[1]] = "Up" /\ y[2] \notin used[y[1]]
      /\ \A q \in Peers, k \in Ids : up[q] = "Up" => (k \in b.used[q] <=> k \in used[q] \/ <<q, k>> \in sent)
      /\ \A q \in Peers, k \in Ids :
           b.stream[q][k] = IF <<q, k>> \in sent THEN Begun(stream[q][k], m) ELSE stream[q][k]
  BY <1>4 DEF Opens
<1>. HIDE DEF pairs
<1>7. /\ used' = Ended(written, sent).used /\ stream' = written.stream
      /\ written.used = b.used
      /\ \A q \in Peers, k \in Ids :
           written.stream[q][k] = IF <<q, k>> \in sent THEN Whole(b.stream[q][k], m)
                                  ELSE b.stream[q][k]
  BY <1>1, <1>3, <1>5 DEF SetIds, Ended, Books, OnStreams
<1>8. written \in Books
  <2>. DEFINE s == OnStreams(b.stream, pairs, LAMBDA f : Whole(f, m))
  <2>1. \A f \in Frames : Whole(f, m) \in Frames
    BY FrameSteps
  <2>2. s \in [Peers -> [Ids -> Frames]]
    BY <1>3, <2>1 DEF OnStreams, Books
  <2>3. written = [b EXCEPT !.stream = s]
    OBVIOUS
  <2>. HIDE DEF s, written
  <2>. QED BY <1>3, <2>2, <2>3 DEF Books
<1>. HIDE DEF written
<1>9. ASSUME NEW q \in Peers, NEW k \in Ids, up[q] = "Up"
      PROVE  (k \in used'[q] <=> k \in used[q]) /\ stream'[q][k] = stream[q][k]
  <2>1. k \in used'[q] <=> k \in b.used[q] /\ <<q, k>> \notin sent
    BY <1>7, <1>8, EndedFrees
  <2>2. <<q, k>> \in sent => k \notin used[q]
    BY <1>6
  <2>3. <<q, k>> \in sent => stream[q][k] = None
    BY <1>9, <2>2 DEF StreamsOK, StreamOK
  <2>4. Whole(Begun(None, m), m) = None
    BY DEF Whole, Begun, None
  <2>5. <<q, k>> \in sent => stream'[q][k] = None
    BY <1>6, <1>7, <2>3, <2>4
  <2>. QED BY <1>6, <1>7, <1>9, <2>1, <2>2, <2>3, <2>5
<1>10. ASSUME NEW q \in Peers, NEW k \in Ids, up[q] # "Up" PROVE stream'[q][k] = stream[q][k]
  <2>1. <<q, k>> \notin sent
    BY <1>6, <1>10
  <2>. QED BY <1>6, <1>7, <2>1
<1>11. \A r, q, k : Unmoved(r, q, k)
  BY <1>1 DEF Unmoved, Listed
<1>12. ASSUME NEW q \in Peers, NEW k \in Ids, up[q] = "Up" PROVE StreamOK(q, k)'
  <2>1. StreamOK(q, k) /\ flushing'[q][k] = flushing[q][k]
    BY <1>1, <1>12 DEF StreamsOK
  <2>. QED BY <1>9, <1>11, <1>12, <2>1, StreamKept
<1>. QED BY <1>1, <1>9, <1>10, <1>12 DEF StreamsOK, Frozen

(* A connection ends: nothing was relayed from it, so that nothing is      *)
(* flushed, and what goes to the others stays.                             *)
LEMMA StreamsClosed ==
  ASSUME IdsInv, IdsInv', StreamsOK, SendersOK, NEW q \in Peers, did_close(q)
  PROVE  StreamsOK' /\ Frozen
<1>. DEFINE flushed == {r \in DOMAIN relays : r[1] = q /\ r[2] \in used[q]}
            pairs == UNION {Listed(r) : r \in flushed}
<1>1. /\ up[q] = "Closing" /\ up' = [up EXCEPT ![q] = "None"]
      /\ stream' = OnStreams(stream, pairs, LAMBDA f : None)
      /\ flushing' = OnStreams(flushing, pairs, LAMBDA n : n + 1)
      /\ relays' = [r \in DOMAIN relays \ flushed |-> [relays[r] EXCEPT !.subscribers = Without(@, q)]]
      /\ received' = [received EXCEPT ![q] = [id \in Ids |-> None]]
      /\ used' = used
  BY DEF did_close, FlushAll, ids
<1>2. /\ received \in [Peers -> [Ids -> Frames]] /\ DOMAIN relays \subseteq Peers \X Ids
      /\ relays \in [DOMAIN relays -> Relays] /\ up \in [Peers -> {"Up", "Closing", "None"}]
  BY DEF IdsInv, TypeOK
<1>3. \A r \in DOMAIN relays : r[1] = q => Listed(r) = {}
  <2>1. ToSet(<<>>) = {}
    BY DEF ToSet
  <2>2. Sends[q] \subseteq Bad
    BY <1>1 DEF SendersOK
  <2>. QED BY <2>1, <2>2 DEF SendersOK, EntryOK, Listed
<1>4. pairs = {}
  BY <1>3
<1>. HIDE DEF pairs
<1>5. \A p \in Peers, id \in Ids : stream'[p][id] = stream[p][id] /\ flushing'[p][id] = flushing[p][id]
  BY <1>1, <1>4 DEF OnStreams
<1>6. ASSUME NEW p \in Peers, NEW id \in Ids, p # q, NEW r \in Peers \X Ids
      PROVE  Unmoved(r, p, id) \/ (r \notin Carrying(p, id) /\ r \notin Carrying(p, id)')
  <2>1. CASE r[1] = q
    <3>1. r \notin Carrying(p, id)
      BY <1>3, <2>1 DEF Carrying, Running
    <3>2. received'[r[1]][r[2]] = None
      BY <1>1, <1>2, <2>1
    <3>3. r \notin Carrying(p, id)'
      BY <3>2 DEF Carrying, Running, None
    <3>. QED BY <3>1, <3>3
  <2>2. CASE r[1] # q
    <3>1. received'[r[1]][r[2]] = received[r[1]][r[2]]
      BY <1>1, <1>2, <2>2
    <3>2. r \in DOMAIN relays' <=> r \in DOMAIN relays
      BY <1>1, <2>2
    <3>3. ASSUME r \in DOMAIN relays PROVE <<p, id>> \in Listed(r)' <=> <<p, id>> \in Listed(r)
      <4>. DEFINE list == relays[r].subscribers
      <4>1. relays[r] \in Relays /\ list \in Seq(Peers \X Ids)
        BY <1>2, <3>3 DEF Relays
      <4>2. relays'[r].subscribers = Without(list, q)
        BY <1>1, <3>2, <3>3, <4>1 DEF Relays
      <4>. HIDE DEF list
      <4>3. <<p, id>> \in ToSet(Without(list, q)) <=> <<p, id>> \in ToSet(list)
        BY <1>6, <4>1, WithoutIs
      <4>. QED BY <4>2, <4>3 DEF Listed, list
    <3>. QED BY <3>1, <3>2, <3>3 DEF Unmoved
  <2>. QED BY <2>1, <2>2
<1>7. ASSUME NEW p \in Peers, NEW id \in Ids, up'[p] = "Up" PROVE StreamOK(p, id)'
  <2>1. up[p] = "Up" /\ p # q
    BY <1>1, <1>2, <1>7
  <2>2. StreamOK(p, id)
    BY <2>1 DEF StreamsOK
  <2>. QED BY <1>1, <1>5, <1>6, <2>1, <2>2, StreamKept
<1>. QED BY <1>5, <1>7 DEF StreamsOK, Frozen

(* Every step keeps the streams in order.                                  *)
LEMMA StreamsStep ==
  ASSUME IdsInv, IdsInv', StreamsOK, SendersOK, [Next]_vars
  PROVE  StreamsOK' /\ Frozen
<1>1. ASSUME UNCHANGED <<received, relays, used, stream, flushing>>,
             \A p \in Peers : up'[p] = "Up" => up[p] = "Up"
      PROVE  StreamsOK' /\ Frozen
  <2>1. \A r, p, id : Unmoved(r, p, id)
    BY <1>1 DEF Unmoved, Listed
  <2>2. ASSUME NEW p \in Peers, NEW id \in Ids, up'[p] = "Up" PROVE StreamOK(p, id)'
    <3>1. StreamOK(p, id)
      BY <1>1, <2>2 DEF StreamsOK
    <3>. QED BY <1>1, <2>1, <3>1, StreamKept
  <2>. QED BY <1>1, <2>2 DEF StreamsOK, Frozen
<1>2. ASSUME NEW p \in Peers, NEW id \in Ids, NEW m \in Messages, cut_through_recv_start(p, id, m)
      PROVE  StreamsOK' /\ Frozen
  BY <1>2, StreamsStart
<1>3. ASSUME NEW p \in Peers, NEW id \in Ids, Header(p, id) PROVE StreamsOK' /\ Frozen
  BY <1>3, StreamsHeader
<1>4. ASSUME NEW p \in Peers, NEW id \in Ids, Bytes(p, id) PROVE StreamsOK' /\ Frozen
  BY <1>4, StreamsBytes
<1>5. ASSUME NEW p \in Peers, NEW id \in Ids,
             cut_through_recv_flush(p, id) \/ did_recv_flush_conf(p, id)
      PROVE  StreamsOK' /\ Frozen
  BY <1>5, StreamsFlush, StreamsConf
<1>6. ASSUME NEW m \in Messages, send_message_on_channel(m) PROVE StreamsOK' /\ Frozen
  BY <1>6, StreamsPublish
<1>7. ASSUME NEW p \in Peers, close(p) PROVE StreamsOK' /\ Frozen
  <2>1. /\ up' = [up EXCEPT ![p] = "Closing"]
        /\ UNCHANGED <<received, relays, used, stream, flushing>>
    BY <1>7 DEF close, ids
  <2>2. \A q \in Peers : up'[q] = "Up" => up[q] = "Up"
    BY <2>1 DEF IdsInv, TypeOK
  <2>. QED BY <1>1, <2>1, <2>2
<1>8. ASSUME NEW p \in Peers, did_close(p) PROVE StreamsOK' /\ Frozen
  BY <1>8, StreamsClosed
<1>9. CASE message_id_timer_cb \/ UNCHANGED vars
  <2>1. UNCHANGED <<up, received, relays, used, stream, flushing>>
    BY <1>9 DEF message_id_timer_cb, vars, ids
  <2>. QED BY <1>1, <2>1
<1>. QED BY <1>2, <1>3, <1>4, <1>5, <1>6, <1>7, <1>8, <1>9 DEF Next

(* The inductive invariant of the streams.                                 *)
StreamsInv == StreamsOK /\ NotGarbled /\ SendersOK
(* Nothing is sent at the start, and every step keeps it.                  *)
LEMMA StreamsInductive ==
  ASSUME SendersStay
  PROVE  /\ Init => StreamsInv
         /\ IdsInv /\ IdsInv' /\ StreamsInv /\ [Next]_vars => StreamsInv'
<1>1. ASSUME Init PROVE StreamsInv
  <2>1. DOMAIN relays = {} /\ \A p \in Peers : up[p] = "Up"
    BY <1>1 DEF Init
  <2>2. \A p \in Peers, id \in Ids :
          used[p] = {} /\ stream[p][id] = None /\ flushing[p][id] = 0
    BY <1>1 DEF Init
  <2>3. \A p \in Peers, id \in Ids : Carrying(p, id) = {}
    BY <2>1 DEF Carrying, Running
  <2>4. None.message # "garbled"
    BY DEF None
  <2>. QED BY <2>1, <2>2, <2>3, <2>4 DEF StreamsInv, StreamsOK, StreamOK, NotGarbled, SendersOK
<1>2. ASSUME IdsInv, IdsInv', StreamsInv, [Next]_vars PROVE StreamsInv'
  <2>1. StreamsOK /\ NotGarbled /\ SendersOK
    BY <1>2 DEF StreamsInv
  <2>2. StreamsOK' /\ Frozen
    BY <1>2, <2>1, StreamsStep
  <2>3. NotGarbled'
    BY <1>2, <2>1, <2>2, NotGarbledStep DEF Frozen
  <2>4. SendersOK'
    BY <1>2, <2>1, SendersStep
  <2>. QED BY <2>2, <2>3, <2>4 DEF StreamsInv
<1>. QED BY <1>1, <1>2

(* Where no peer that relays something loses its connection, a stream that *)
(* is up carries at most one message, of which the subscriber has read     *)
(* what the node has.                                                      *)
THEOREM StreamsInvariant == ASSUME SendersStay PROVE Spec => []StreamsInv
<1>1. Init => StreamsInv
  BY StreamsInductive
<1>2. IdsInv /\ IdsInv' /\ StreamsInv /\ [Next]_vars => StreamsInv'
  BY StreamsInductive
<1>. QED BY <1>1, <1>2, RelaysInvariant, PTL DEF Spec

(* Then every subscriber reads whole messages, one at a time on a stream,  *)
(* whatever is relayed, flushed and published meanwhile.                   *)
THEOREM StreamsWellFramed == ASSUME SendersStay PROVE Spec => []WellFramed
<1>1. StreamsInv => WellFramed
  BY DEF StreamsInv, NotGarbled, WellFramed
<1>. QED BY <1>1, StreamsInvariant, PTL

-----------------------------------------------------------------------------
(* The lists of subscribers                                                *)

(* A list of subscribers has each of them once, and none whose transport   *)
(* was deleted; the node's own lists have no such peer either.             *)
Gone(p) ==
  /\ p \notin sol_conns \cup unsol_conns
  /\ \A r \in DOMAIN relays : \A x \in Listed(r) : x[1] # p
ListsOK ==
  /\ \A r \in DOMAIN relays : Distinct(relays[r].subscribers)
  /\ \A p \in Peers : up[p] = "None" => Gone(p)

(* Begun to other peers than those on the list: each is put there once.    *)
LEMMA StartsDistinct ==
  ASSUME NEW c \in Books, Conserved(c), NEW targets \in SUBSET Peers, NEW m \in Messages,
         Distinct(c.pairs), \A x \in ToSet(c.pairs) : x[1] \notin targets
  PROVE  Distinct(Starts(c, targets, m).pairs)
<1>. DEFINE able == {p \in targets : c.reserve[p] # <<>>}
            pairs == {<<p, Head(c.reserve[p])>> : p \in able}
            sent == {pair \in pairs : up[pair[1]] = "Up"}
            l == c.pairs \o SetToSeq(sent)
<1>1. Starts(c, targets, m).pairs = l /\ c.pairs \in Seq(Peers \X Ids)
  BY DEF Starts, Books
<1>2. \A x \in sent : x[1] \in targets /\ x = <<x[1], Head(c.reserve[x[1]])>>
  OBVIOUS
<1>3. sent \subseteq Peers \X Ids
  <2>1. \A p \in able : Head(c.reserve[p]) \in Ids
    BY HeadTailProperties DEF Books
  <2>. QED BY <2>1
<1>. HIDE DEF sent
<1>4. IsFiniteSet(sent)
  BY <1>3, IdsFinite, FS_Product, FS_Subset
<1>5. /\ SetToSeq(sent) \in Seq(Peers \X Ids) /\ ToSet(SetToSeq(sent)) = sent
      /\ IsInjective(SetToSeq(sent))
  <2>1. /\ SetToSeq(sent) \in Seq(sent) /\ ToSet(SetToSeq(sent)) = sent
        /\ IsInjective(SetToSeq(sent))
    BY <1>4, Ordered
  <2>. QED BY <1>3, <2>1, SeqMonotonic
<1>6. ToSet(c.pairs) \cap sent = {} /\ IsInjective(c.pairs)
  BY <1>2 DEF Distinct
<1>7. IsInjective(l) /\ ToSet(l) = ToSet(c.pairs) \cup sent
  BY <1>1, <1>5, <1>6, PutBehind
<1>8. \A x, y \in ToSet(l) : x[1] = y[1] => x = y
  <2>. HIDE DEF l
  <2>. SUFFICES ASSUME NEW x \in ToSet(l), NEW y \in ToSet(l), x[1] = y[1] PROVE x = y
    OBVIOUS
  <2>1. CASE x \in sent /\ y \in sent
    BY <1>2, <2>1
  <2>2. CASE x \in ToSet(c.pairs) /\ y \in ToSet(c.pairs)
    BY <2>2 DEF Distinct
  <2>. QED BY <1>2, <1>7, <2>1, <2>2
<1>. HIDE DEF l
<1>. QED BY <1>1, <1>7, <1>8 DEF Distinct

(* Begun to two lists that share nobody.                                   *)
LEMMA OpenedDistinct ==
  ASSUME BooksOK, NEW sol \in SUBSET Peers, NEW unsol \in SUBSET Peers, NEW m \in Messages,
         sol \cap unsol = {}
  PROVE  Distinct(Opened(sol, unsol, m).pairs)
<1>. DEFINE c == Starts(Now, sol, m)
<1>1. Now \in Books /\ Conserved(Now) /\ Now.pairs = <<>> /\ ToSet(<<>>) = {}
  BY NowKeeps
<1>2. Distinct(<<>>)
  BY <1>1 DEF Distinct, IsInjective
<1>3. /\ c \in Books /\ Conserved(c)
      /\ ToSet(c.pairs) \subseteq ToSet(Now.pairs) \cup {<<p, Head(Now.reserve[p])>> : p \in sol}
  BY <1>1, StartsKeeps
<1>4. Distinct(c.pairs)
  BY <1>1, <1>2, StartsDistinct
<1>. HIDE DEF c
<1>5. \A x \in ToSet(c.pairs) : x[1] \notin unsol
  BY <1>1, <1>3
<1>6. Distinct(Starts(c, unsol, m).pairs)
  BY <1>3, <1>4, <1>5, StartsDistinct
<1>. QED BY <1>6 DEF Opened, c

(* The step is about one entry of cut_through_map, or about none.          *)
LEMMA ListsFrom ==
  ASSUME IdsInv, ListsOK, NEW x,
         \A r \in DOMAIN relays' :
           \/ r \in DOMAIN relays /\ relays'[r].subscribers = relays[r].subscribers
           \/ /\ r = x /\ Distinct(relays'[x].subscribers)
              /\ \A y \in Listed(x)' : y[1] \in Peers /\ up[y[1]] = "Up",
         UNCHANGED <<sol_conns, unsol_conns>>,
         \A p \in Peers : up'[p] = "None" => up[p] = "None"
  PROVE  ListsOK'
<1>1. \A r \in DOMAIN relays' : Distinct(relays'[r].subscribers)
  BY DEF ListsOK
<1>2. ASSUME NEW p \in Peers, up'[p] = "None", NEW r \in DOMAIN relays', NEW y \in Listed(r)'
      PROVE  y[1] # p
  <2>1. up[p] = "None" /\ Gone(p)
    BY <1>2 DEF ListsOK
  <2>2. CASE r \in DOMAIN relays /\ relays'[r].subscribers = relays[r].subscribers
    <3>1. y \in Listed(r)
      BY <1>2, <2>2 DEF Listed
    <3>. QED BY <2>1, <2>2, <3>1 DEF Gone
  <2>3. CASE r = x /\ \A z \in Listed(x)' : z[1] \in Peers /\ up[z[1]] = "Up"
    BY <1>2, <2>1, <2>3
  <2>. QED BY <1>2, <2>2, <2>3
<1>3. \A p \in Peers : up'[p] = "None" => p \notin sol_conns' \cup unsol_conns'
  BY DEF ListsOK, Gone
<1>. QED BY <1>1, <1>2, <1>3 DEF ListsOK, Gone

(* A header relayed to lists that share nobody.                            *)
LEMMA ListsHeader ==
  ASSUME Solicited \cap Unsolicited = {}, IdsInv, SendersOK, ListsOK,
         NEW p \in Peers, NEW id \in Ids, Header(p, id)
  PROVE  ListsOK'
<1>. DEFINE m == received[p][id].message
            x == <<p, id>>
            entry == [relays[x] EXCEPT !.header_recv = TRUE]
            sol == Targets(sol_conns, p, m)
            unsol == Targets(unsol_conns, p, m)
            b == Opened(sol, unsol, m)
<1>1. /\ received[p][id].left > 0 /\ ~relays[x].header_recv
      /\ UNCHANGED <<sol_conns, unsol_conns>>
  BY DEF Header
<1>2. /\ m \in Messages /\ up \in [Peers -> {"Up", "Closing", "None"}]
      /\ x \in DOMAIN relays /\ relays[x] \in Relays /\ relays[x].subscribers = <<>>
  BY <1>1 DEF IdsInv, TypeOK, Coming, SendersOK, EntryOK
<1>3. BooksOK /\ sol \in SUBSET Peers /\ unsol \in SUBSET Peers /\ sol \cap unsol = {}
  BY Parts, CutThroughAssumption DEF IdsInv, TypeOK, CutThroughAssumption, Targets
<1>. HIDE DEF m
<1>4. CASE /\ relays' = [relays EXCEPT ![x] = entry]
           /\ UNCHANGED up \/ up' = [up EXCEPT ![p] = "Closing"]
  <2>1. \A r \in DOMAIN relays' :
          r \in DOMAIN relays /\ relays'[r].subscribers = relays[r].subscribers
    BY <1>2, <1>4 DEF Relays
  <2>2. \A q \in Peers : up'[q] = "None" => up[q] = "None"
    BY <1>2, <1>4
  <2>. HIDE DEF x
  <2>. QED BY <1>1, <2>1, <2>2, ListsFrom
<1>. HIDE DEF sol, unsol
<1>5. CASE /\ relays' = [relays EXCEPT ![x] = [entry EXCEPT !.subscribers = @ \o b.pairs]]
           /\ UNCHANGED up
  <2>1. b \in Books /\ Distinct(b.pairs)
    BY <1>2, <1>3, OpenedKeeps, OpenedDistinct
  <2>. HIDE DEF b
  <2>2. PICK sent \in SUBSET (Peers \X Ids) : Opens(sent, b, sol \cup unsol, m)
    BY <1>2, <1>3, OpenedSends DEF b
  <2>3. \A y \in ToSet(b.pairs) : y[1] \in Peers /\ up[y[1]] = "Up"
    BY <2>2 DEF Opens
  <2>4. relays'[x].subscribers = b.pairs
    <3>1. <<>> \o b.pairs = b.pairs
      BY <2>1, ConcatEmptySeq DEF Books
    <3>. QED BY <1>2, <1>5, <3>1 DEF Relays
  <2>5. \A r \in DOMAIN relays' : r = x \/ (r \in DOMAIN relays /\ relays'[r] = relays[r])
    BY <1>2, <1>5
  <2>. HIDE DEF x
  <2>. QED BY <1>1, <1>5, <2>1, <2>3, <2>4, <2>5, ListsFrom DEF Listed
<1>. QED BY <1>4, <1>5 DEF Header, Opened, m, sol, unsol

(* A connection ends: the peer is on no list any more.                     *)
LEMMA ListsClosed ==
  ASSUME IdsInv, ListsOK, NEW q \in Peers, did_close(q)
  PROVE  ListsOK'
<1>1. /\ up' = [up EXCEPT ![q] = "None"]
      /\ sol_conns' = sol_conns \ {q} /\ unsol_conns' = unsol_conns \ {q}
      /\ DOMAIN relays' \subseteq DOMAIN relays
      /\ \A r \in DOMAIN relays' :
           relays'[r] = [relays[r] EXCEPT !.subscribers = Without(@, q)]
  BY DEF did_close
<1>2. relays \in [DOMAIN relays -> Relays] /\ up \in [Peers -> {"Up", "Closing", "None"}]
  BY DEF IdsInv, TypeOK
<1>3. ASSUME NEW r \in DOMAIN relays'
      PROVE  /\ Distinct(relays'[r].subscribers) /\ r \in DOMAIN relays
             /\ \A y \in Listed(r)' : y[1] # q /\ y \in Listed(r)
  <2>. DEFINE list == relays[r].subscribers
  <2>1. r \in DOMAIN relays /\ relays[r] \in Relays /\ list \in Seq(Peers \X Ids) /\ Distinct(list)
    BY <1>1, <1>2 DEF Relays, ListsOK
  <2>2. relays'[r].subscribers = Without(list, q)
    BY <1>1, <2>1 DEF Relays
  <2>. HIDE DEF list
  <2>3. /\ ToSet(Without(list, q)) \subseteq ToSet(list) /\ Distinct(Without(list, q))
        /\ \A y \in ToSet(Without(list, q)) : y[1] # q
    BY <2>1, WithoutIs
  <2>. QED BY <2>1, <2>2, <2>3 DEF Listed, list
<1>4. ASSUME NEW p \in Peers, up'[p] = "None" PROVE Gone(p)'
  <2>1. CASE p = q
    BY <1>1, <1>3, <2>1 DEF Gone
  <2>2. CASE p # q
    <3>1. Gone(p)
      BY <1>1, <1>2, <1>4, <2>2 DEF ListsOK
    <3>. QED BY <1>1, <1>3, <3>1 DEF Gone
  <2>. QED BY <2>1, <2>2
<1>. QED BY <1>3, <1>4 DEF ListsOK

(* The lists stay in order.                                                *)
LEMMA ListsStep ==
  ASSUME Solicited \cap Unsolicited = {}, IdsInv, SendersOK, ListsOK, [Next]_vars
  PROVE  ListsOK'
<1>0. up \in [Peers -> {"Up", "Closing", "None"}]
  BY DEF IdsInv, TypeOK
<1>1. ASSUME UNCHANGED <<relays, sol_conns, unsol_conns>>,
             \A p \in Peers : up'[p] = "None" => up[p] = "None"
      PROVE  ListsOK'
  BY <1>1, ListsFrom
<1>2. ASSUME NEW p \in Peers, NEW id \in Ids, NEW m \in Messages, cut_through_recv_start(p, id, m)
      PROVE  ListsOK'
  <2>. DEFINE x == <<p, id>>
  <2>1. /\ relays' = [r \in DOMAIN relays \cup {x} |->
                        IF r = x THEN [subscribers |-> <<>>, header_recv |-> FALSE] ELSE relays[r]]
        /\ UNCHANGED <<up, sol_conns, unsol_conns>>
    BY <1>2 DEF cut_through_recv_start
  <2>2. ToSet(<<>>) = {} /\ Distinct(<<>>)
    BY DEF ToSet, Distinct, IsInjective
  <2>3. relays'[x].subscribers = <<>>
    BY <2>1
  <2>4. \A r \in DOMAIN relays' : r = x \/ (r \in DOMAIN relays /\ relays'[r] = relays[r])
    BY <2>1
  <2>5. Listed(x)' = {}
    BY <2>2, <2>3 DEF Listed
  <2>. HIDE DEF x
  <2>. QED BY <2>1, <2>2, <2>3, <2>4, <2>5, ListsFrom
<1>3. ASSUME NEW p \in Peers, NEW id \in Ids, Header(p, id) PROVE ListsOK'
  BY <1>3, ListsHeader
<1>4. ASSUME NEW p \in Peers, NEW id \in Ids,
             Bytes(p, id) \/ cut_through_recv_flush(p, id) \/ did_recv_flush_conf(p, id)
      PROVE  ListsOK'
  <2>1. UNCHANGED <<relays, sol_conns, unsol_conns>>
    BY <1>4 DEF Bytes, cut_through_recv_flush, did_recv_flush_conf
  <2>2. \A q \in Peers : up'[q] = "None" => up[q] = "None"
    BY <1>0, <1>4 DEF Bytes, cut_through_recv_flush, did_recv_flush_conf, CloseFailed
  <2>. QED BY <1>1, <2>1, <2>2
<1>5. ASSUME NEW m \in Messages, send_message_on_channel(m) PROVE ListsOK'
  <2>1. UNCHANGED <<up, relays, sol_conns, unsol_conns>>
    BY <1>5 DEF send_message_on_channel
  <2>. QED BY <1>1, <2>1
<1>6. ASSUME NEW p \in Peers, close(p) PROVE ListsOK'
  <2>1. up' = [up EXCEPT ![p] = "Closing"] /\ UNCHANGED <<relays, sol_conns, unsol_conns>>
    BY <1>6 DEF close
  <2>2. \A q \in Peers : up'[q] = "None" => up[q] = "None"
    BY <1>0, <2>1
  <2>. QED BY <1>1, <2>1, <2>2
<1>7. ASSUME NEW p \in Peers, did_close(p) PROVE ListsOK'
  BY <1>7, ListsClosed
<1>8. CASE message_id_timer_cb \/ UNCHANGED vars
  <2>1. UNCHANGED <<up, relays, sol_conns, unsol_conns>>
    BY <1>8 DEF message_id_timer_cb, vars
  <2>. QED BY <1>1, <2>1
<1>. QED BY <1>2, <1>3, <1>4, <1>5, <1>6, <1>7, <1>8 DEF Next

(* Where moreover no peer is in both lists of the node (add_unsol_conn     *)
(* does not look), an id in use is owed exactly one message or one         *)
(* confirmation of a flush, and nothing that comes in is owed to a         *)
(* transport that was deleted.                                             *)
THEOREM UsedAlwaysOwned ==
  ASSUME SendersStay, Solicited \cap Unsolicited = {} PROVE Spec => []UsedIsOwned
<1>1. Init => ListsOK
  BY DEF Init, ListsOK
<1>2. IdsInv /\ StreamsInv /\ ListsOK /\ [Next]_vars => ListsOK'
  BY ListsStep DEF StreamsInv
<1>3. IdsInv /\ StreamsInv /\ ListsOK => UsedIsOwned
  <2>1. SUFFICES ASSUME IdsInv, StreamsInv, ListsOK PROVE UsedIsOwned
    OBVIOUS
  <2>2. ASSUME NEW p \in Peers, NEW id \in Ids, up[p] = "Up", id \in used[p]
        PROVE  Cardinality(Carrying(p, id)) + flushing[p][id] = 1
    <3>1. StreamOK(p, id)
      BY <2>1, <2>2 DEF StreamsInv, StreamsOK
    <3>2. Cardinality({}) = 0 /\ \A r : Cardinality({r}) = 1
      BY FS_EmptySet, FS_Singleton
    <3>3. CASE Carrying(p, id) = {} /\ flushing[p][id] = 1
      BY <3>2, <3>3
    <3>4. ASSUME NEW r \in Running, Carrying(p, id) = {r}, flushing[p][id] = 0
          PROVE  Cardinality(Carrying(p, id)) + flushing[p][id] = 1
      BY <3>2, <3>4
    <3>. QED BY <2>2, <3>1, <3>3, <3>4 DEF StreamOK
  <2>3. ASSUME NEW r \in Running, NEW x \in Listed(r) PROVE up[x[1]] # "None"
    <3>1. relays[r] \in Relays /\ r \in DOMAIN relays
      BY <2>1 DEF Running, IdsInv, TypeOK
    <3>2. relays[r].subscribers \in Seq(Peers \X Ids)
      BY <3>1 DEF Relays
    <3>3. Listed(r) \subseteq Peers \X Ids
      BY <3>2, Elements DEF Listed
    <3>. QED BY <2>1, <3>1, <3>3 DEF ListsOK, Gone
  <2>. QED BY <2>2, <2>3 DEF UsedIsOwned, Carrying
<1>. QED BY <1>1, <1>2, <1>3, StreamsInvariant, RelaysInvariant, PTL DEF Spec

=============================================================================
