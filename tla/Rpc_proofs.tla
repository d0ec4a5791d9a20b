----------------------------- MODULE Rpc_proofs -----------------------------
(***************************************************************************)
(* Theorems about Rpc, for any blocks, peers, base of the ids, room for a  *)
(* header line, intervals and numbers of connections and queries.          *)
(*                                                                         *)
(* RpcBase is about types and the handle.  For a chain adapter the stream  *)
(* holds the answers to what was asked and not read yet, in order (InStep);*)
(* ids are given out once, in order, and every request that is not stored  *)
(* any more was answered (Matched).  What is lost with a connection, or    *)
(* cannot be told apart any more, is in garbled.                           *)
(***************************************************************************)
EXTENDS Rpc, FiniteSetTheorems, SequenceTheorems, WellFoundedInduction, TLAPS

-----------------------------------------------------------------------------
(* The clients                                                             *)

LinkStates == {"idle", "connecting", "open", "ended", "closing", "closed"}
Kinds == {"length", "\n", "\r", "body", "byte"}
Stored == [id : Nat, m : Blocks, from : Externals]

(* What the chain node is asked and answers of a block that is stored is   *)
(* whether it is spam; nothing is asked under an id not yet given out.     *)
Truth(i, ok) == \A b \in block_store : b.id = i => ok = (b.m \notin Spam)
Requests == {r \in [id : Nat, ok : BOOLEAN] : (client \in Chains => r.id < id) /\ Truth(r.id, r.ok)}
Tokens ==
  {t \in [k : Kinds, of : Nat, val : Nat, ok : BOOLEAN, last : BOOLEAN] :
     (client \in Chains => t.of < id) /\ (t.k = "body" \/ t.last => Truth(t.of, t.ok))}
Framings(T) == [framing : {"lines", "sized"}, buf : Seq(T), room : Nat, left : Nat]
LinksOf(R, T) == [st : LinkStates, requests : Seq(R), stream : Seq(T), f : Framings(T)]
Parsers == [state : {0, 1}, length : Nat]
Digits == {q \in Seq(Tokens) : Len(q) <= 2}

RpcTypeOK ==
  /\ client \in Chains \cup Queries \cup {"none"}
  /\ link \in [Links -> LinksOf(Requests, Tokens)]
  /\ timer \in Nat /\ interval \in Nat \ {0} /\ id \in Nat
  /\ block_store \subseteq Stored /\ \A b \in block_store : b.id < id
  /\ parser \in Parsers /\ partial \in Digits
  /\ is_abci_active \in BOOLEAN /\ dead \in BOOLEAN
  /\ up \subseteq Externals \cup Internals

(* Only open connections carry anything, and what has ended is not asked.  *)
OnlyOpen ==
  \A c \in Links :
    /\ link[c].st \notin {"open", "ended"} => link[c].stream = <<>>
    /\ link[c].st # "open" => link[c].requests = <<>>

(* An adapter has one link, and only an adapter stores and relays blocks.  *)
OneLink == client \in Chains => \A c \in Links : c # 1 => link[c].st = "idle"
OnlyChains == client \notin Chains => block_store = {} /\ relayed = {}


-----------------------------------------------------------------------------
(* Tokens and answers                                                      *)

LEMMA SeqFrom ==
  ASSUME NEW S, NEW n \in Nat, NEW f \in [1 .. n -> S]
  PROVE  f \in Seq(S) /\ Len(f) = n
  OBVIOUS

LEMMA PrefixOf ==
  ASSUME NEW T, NEW s \in Seq(T), NEW n \in 0 .. Len(s)
  PROVE  SubSeq(s, 1, n) \in Seq(T) /\ SubSeq(s, n + 1, Len(s)) \in Seq(T)
  OBVIOUS

LEMMA AnswerTokens ==
  ASSUME RpcTypeOK, NEW r \in Requests
  PROVE  Answer(r.id, r.ok) \in Seq(Tokens) /\ Unsized(r.id, r.ok) \in Seq(Tokens)
<1> DEFINE i == r.id
           ok == r.ok
<1>1. i \in Nat /\ ok \in BOOLEAN /\ (client \in Chains => i < id) /\ Truth(i, ok)
  BY DEF Requests
<1> HIDE DEF i, ok
<1>2. \A k \in Kinds, v \in Nat : k # "body" => /\ Token(k, i, v, TRUE, FALSE) \in Tokens /\ Token(k, i, v, ok, FALSE) \in Tokens
                                             /\ Token(k, i, v, ok, TRUE) \in Tokens
  BY <1>1 DEF Token, Tokens
<1>3. \A v \in Nat, l \in BOOLEAN : Token("body", i, v, ok, l) \in Tokens
  BY <1>1 DEF Token, Tokens, Kinds
<1>4. Body(i, ok) \in Seq(Tokens)
  <2>1. Body(i, ok) \in [1 .. 2 -> Tokens]
    <3>1. ASSUME NEW n \in 1 .. 2 PROVE Token("body", i, n, ok, n = BodyLength) \in Tokens
      <4>1. (n = BodyLength) \in BOOLEAN /\ n \in Nat
        OBVIOUS
      <4> QED BY <1>3, <4>1, Zenon
    <3> QED BY <3>1 DEF Body, BodyLength
  <2> DEFINE B == Body(i, ok)
  <2> HIDE DEF B
  <2>2. B \in [1 .. 2 -> Tokens]
    BY <2>1 DEF B
  <2>3. B \in Seq(Tokens)
    BY <2>2, SeqFrom
  <2> QED BY <2>3 DEF B
<1>5. Header(i, <<"length", "\n", "\r", "\n">>) \in Seq(Tokens) /\ Header(i, <<"\r", "\n">>) \in Seq(Tokens)
  <2>1. Token("length", i, 0, TRUE, FALSE) \in Tokens /\ Token("\n", i, 0, TRUE, FALSE) \in Tokens
        /\ Token("\r", i, 0, TRUE, FALSE) \in Tokens
    BY <1>2 DEF Kinds
  <2>2. Header(i, <<"length", "\n", "\r", "\n">>) \in [1 .. 4 -> Tokens]
    <3> DEFINE names == <<"length", "\n", "\r", "\n">>
    <3>1. DOMAIN names = 1 .. 4 /\ \A n \in 1 .. 4 : names[n] \in {"length", "\n", "\r"}
      OBVIOUS
    <3> HIDE DEF names
    <3>2. \A n \in 1 .. 4 : Token(names[n], i, 0, TRUE, FALSE) \in Tokens
      BY <2>1, <3>1
    <3>3. Header(i, names) \in [1 .. 4 -> Tokens]
      BY <3>1, <3>2 DEF Header
    <3> QED BY <3>3 DEF names
  <2>3. Header(i, <<"\r", "\n">>) \in [1 .. 2 -> Tokens]
    <3> DEFINE names == <<"\r", "\n">>
    <3>1. DOMAIN names = 1 .. 2 /\ \A n \in 1 .. 2 : names[n] \in {"length", "\n", "\r"}
      OBVIOUS
    <3> HIDE DEF names
    <3>2. \A n \in 1 .. 2 : Token(names[n], i, 0, TRUE, FALSE) \in Tokens
      BY <2>1, <3>1
    <3>3. Header(i, names) \in [1 .. 2 -> Tokens]
      BY <3>1, <3>2 DEF Header
    <3> QED BY <3>3 DEF names
  <2> DEFINE F == Header(i, <<"length", "\n", "\r", "\n">>)
             G == Header(i, <<"\r", "\n">>)
  <2> HIDE DEF F, G
  <2>4. F \in [1 .. 4 -> Tokens] /\ G \in [1 .. 2 -> Tokens]
    BY <2>2, <2>3 DEF F, G
  <2>5. F \in Seq(Tokens) /\ G \in Seq(Tokens)
    BY <2>4, SeqFrom
  <2> QED BY <2>5 DEF F, G
<1>6. i \div Base \in Nat /\ i % Base \in Nat
  BY <1>1, RpcAssumption
<1>7. <<Token("byte", i, i \div Base, ok, FALSE), Token("byte", i, i % Base, ok, FALSE),
        Token("byte", i, IF ok THEN 1 ELSE 0, ok, TRUE)>> \in Seq(Tokens)
  <2>1. Token("byte", i, i \div Base, ok, FALSE) \in Tokens /\ Token("byte", i, i % Base, ok, FALSE) \in Tokens
        /\ Token("byte", i, IF ok THEN 1 ELSE 0, ok, TRUE) \in Tokens
    BY <1>1, <1>2, <1>6 DEF Kinds
  <2> DEFINE a == Token("byte", i, i \div Base, ok, FALSE)
             b == Token("byte", i, i % Base, ok, FALSE)
             c == Token("byte", i, IF ok THEN 1 ELSE 0, ok, TRUE)
  <2> HIDE DEF a, b, c
  <2>2. a \in Tokens /\ b \in Tokens /\ c \in Tokens
    BY <2>1 DEF a, b, c
  <2>3. <<a, b, c>> \in Seq(Tokens)
    BY <2>2
  <2> QED BY <2>3 DEF a, b, c
<1>8. Unsized(i, ok) \in Seq(Tokens)
  BY <1>4, <1>5, ConcatProperties DEF Unsized
<1>9. Answer(i, ok) \in Seq(Tokens)
  BY <1>4, <1>5, <1>7, ConcatProperties DEF Answer
<1> QED BY <1>8, <1>9 DEF i, ok

(* A document that is valid is about what its first byte is about.         *)
LEMMA DocumentIs ==
  ASSUME NEW text \in Seq(Tokens)
  PROVE  /\ Document(text).valid \in BOOLEAN /\ Document(text).ok \in BOOLEAN /\ Document(text).id \in Nat
         /\ Document(text).valid => /\ Truth(Document(text).id, Document(text).ok)
                                    /\ text # <<>> /\ Document(text).id = text[1].of
<1>1. CASE \E n \in DOMAIN text : text = Body(text[n].of, text[n].ok)
  <2>1. PICK n \in DOMAIN text : text = Body(text[n].of, text[n].ok)
    BY <1>1
  <2>2. DOMAIN text = 1 .. 2 /\ text[1] = Token("body", text[n].of, 1, text[n].ok, 1 = BodyLength)
    BY <2>1 DEF Body, BodyLength
  <2>3. 1 \in DOMAIN text /\ text[1] \in Tokens /\ text # <<>>
    <3>1. \A j \in DOMAIN text : text[j] \in Tokens
      OBVIOUS
    <3>2. 1 \in DOMAIN text
      BY <2>2
    <3>3. text # <<>>
      BY <3>2
    <3> QED BY <3>1, <3>2, <3>3
  <2>4. text[1].k = "body"
    BY <2>2 DEF Token
  <2>5. Truth(text[1].of, text[1].ok) /\ text[1].of \in Nat /\ text[1].ok \in BOOLEAN
    BY <2>3, <2>4 DEF Tokens
  <2> QED BY <1>1, <2>3, <2>5 DEF Document
<1>2. CASE ~\E n \in DOMAIN text : text = Body(text[n].of, text[n].ok)
  BY <1>2 DEF Document
<1> QED BY <1>1, <1>2

-----------------------------------------------------------------------------
(* What a client reads                                                     *)

Readings ==
  [f : Framings(Tokens), parser : Parsers, partial : Digits, store : SUBSET block_store,
   reports : SUBSET block_store, documents : SUBSET Nat, closes : Nat]
Honest(r) == \A b \in r.reports : b.m \notin Spam

LEMMA VerdictKeeps ==
  ASSUME NEW r \in Readings, NEW d, d.ok \in BOOLEAN
  PROVE  /\ Verdict(r, d) \in Readings
         /\ Honest(r) /\ Truth(d.id, d.ok) => Honest(Verdict(r, d))
         /\ Verdict(r, d).store = {b \in r.store : b.id # d.id}
         /\ Verdict(r, d).partial = r.partial
<1> DEFINE request == {b \in r.store : b.id = d.id}
           v == Verdict(r, d)
<1>1. /\ v = [r EXCEPT !.store = r.store \ request, !.reports = IF d.ok THEN r.reports \cup request ELSE r.reports]
  BY DEF Verdict, Readings
<1>2. r.store \subseteq block_store /\ r.reports \subseteq block_store /\ request \subseteq r.store
  BY DEF Readings
<1>3. r.store \ request = {b \in r.store : b.id # d.id}
  OBVIOUS
<1> HIDE DEF request, v
<1>4. v \in Readings /\ v.store = r.store \ request /\ v.partial = r.partial
      /\ v.reports = IF d.ok THEN r.reports \cup request ELSE r.reports
  BY <1>1, <1>2 DEF Readings
<1>5. Honest(r) /\ Truth(d.id, d.ok) => Honest(v)
  BY <1>2, <1>4 DEF Honest, Truth, request
<1> QED BY <1>3, <1>4, <1>5 DEF v

LEMMA ResetKeeps ==
  ASSUME NEW f \in Framings(Tokens), NEW n \in Nat
  PROVE  reset(f, n) \in Framings(Tokens)
<1>1. <<>> \in Seq(Tokens)
  OBVIOUS
<1> QED BY <1>1 DEF reset, Framings

LEMMA LinesAre == Lines \in Framings(Tokens) /\ Sized \in Framings(Tokens)
<1>1. <<>> \in Seq(Tokens)
  OBVIOUS
<1> QED BY <1>1 DEF Lines, Sized, Framings

LEMMA HeadersKeep ==
  ASSUME NEW r \in Readings, NEW line
  PROVE  Headers(r, line) \in Readings /\ Headers(r, line).reports = r.reports
<1>1. LineLimit \in Nat /\ BodyLength \in Nat /\ r.parser.length \in Nat /\ r.closes \in Nat /\ r.f \in Framings(Tokens)
      /\ r.parser \in Parsers
  BY RpcAssumption DEF Readings, Parsers, BodyLength
<1>2. reset(Sized, r.parser.length) \in Framings(Tokens) /\ reset(r.f, LineLimit) \in Framings(Tokens)
  BY <1>1, LinesAre, ResetKeeps
<1>3. [r EXCEPT !.closes = @ + 1] \in Readings /\ [r EXCEPT !.closes = @ + 1].reports = r.reports
  <2> DEFINE n == r.closes + 1
  <2>1. n \in Nat /\ [r EXCEPT !.closes = @ + 1] = [r EXCEPT !.closes = n]
    BY <1>1
  <2> HIDE DEF n
  <2>2. [r EXCEPT !.closes = n] \in Readings /\ [r EXCEPT !.closes = n].reports = r.reports
    BY <2>1 DEF Readings
  <2> QED BY <2>1, <2>2
<1>4. ASSUME NEW g \in Framings(Tokens)
      PROVE  /\ [r EXCEPT !.parser.state = 1, !.f = g] \in Readings
             /\ [r EXCEPT !.parser.state = 1, !.f = g].reports = r.reports
  BY <1>1 DEF Readings, Parsers
<1>5. ASSUME NEW g \in Framings(Tokens), NEW n \in Nat
      PROVE  /\ [r EXCEPT !.parser.length = n, !.f = g] \in Readings
             /\ [r EXCEPT !.parser.length = n, !.f = g].reports = r.reports
  BY <1>1 DEF Readings, Parsers
<1>6. CASE Len(line) = 2 /\ line[1].k = "\r" /\ r.parser.length = 0
  BY <1>3, <1>6 DEF Headers
<1>7. CASE Len(line) = 2 /\ line[1].k = "\r" /\ r.parser.length # 0
  <2>1. Headers(r, line) = [r EXCEPT !.parser.state = 1, !.f = reset(Sized, r.parser.length)]
    BY <1>7 DEF Headers
  <2> DEFINE g == reset(Sized, r.parser.length)
             next == [r EXCEPT !.parser.state = 1, !.f = g]
  <2>2. g \in Framings(Tokens)
    BY <1>2
  <2> HIDE DEF g
  <2>3. next \in Readings /\ next.reports = r.reports
    BY <1>4, <2>2
  <2>4. Headers(r, line) = next
    BY <2>1 DEF g
  <2> QED BY <2>3, <2>4
<1>8. CASE ~(Len(line) = 2 /\ line[1].k = "\r")
  <2> DEFINE n == IF line # <<>> /\ line[1].k = "length" THEN BodyLength ELSE r.parser.length
             g == reset(r.f, LineLimit)
  <2>1. Headers(r, line) = [r EXCEPT !.parser.length = n, !.f = g]
    BY <1>8 DEF Headers, Readings
  <2>2. n \in Nat /\ g \in Framings(Tokens)
    BY <1>1, <1>2
  <2> HIDE DEF n, g
  <2> DEFINE next == [r EXCEPT !.parser.length = n, !.f = g]
  <2>3. next \in Readings /\ next.reports = r.reports
    BY <1>5, <2>2
  <2>4. Headers(r, line) = next
    BY <2>1
  <2> HIDE DEF next
  <2> QED BY <2>3, <2>4
<1> QED BY <1>6, <1>7, <1>8

(* A frame that is handed up, a line or a body.                            *)
LEMMA HandedKeeps ==
  ASSUME NEW r \in Readings, NEW text \in Seq(Tokens), Honest(r)
  PROVE  Handed(r, text) \in Readings /\ Honest(Handed(r, text))
<1> DEFINE d == Document(text)
           P == [state |-> 0, length |-> 0]
<1>1. d.valid \in BOOLEAN /\ d.ok \in BOOLEAN /\ d.id \in Nat /\ (d.valid => Truth(d.id, d.ok))
  BY DocumentIs
<1> HIDE DEF d
<1>2. P \in Parsers /\ r.parser \in Parsers /\ r.closes \in Nat /\ r.documents \subseteq Nat /\ LineLimit \in Nat
  BY RpcAssumption DEF Parsers, Readings
<1>3. Documents(r, d) \subseteq Nat
  BY <1>1, <1>2 DEF Documents
<1>4. CASE r.parser.state = 0
  <2>1. Headers(r, text) \in Readings /\ Headers(r, text).reports = r.reports
    BY HeadersKeep
  <2>2. Handed(r, text) = Headers(r, text)
    BY <1>4 DEF Handed
  <2> DEFINE next == Headers(r, text)
  <2> HIDE DEF next
  <2>3. next \in Readings /\ Honest(next)
    BY <2>1 DEF Honest, next
  <2> QED BY <2>2, <2>3 DEF next
<1>5. GraphParsed(r, text) \in Readings /\ Honest(GraphParsed(r, text))
  <2>1. GraphParsed(r, text) = [r EXCEPT !.documents = Documents(r, d), !.parser.state = 0, !.closes = @ + 1]
    BY DEF GraphParsed, d
  <2> DEFINE x == Documents(r, d)
             q == [r.parser EXCEPT !.state = 0]
             n == r.closes + 1
             next == [r EXCEPT !.documents = x, !.parser = q, !.closes = n]
  <2>2. x \in SUBSET Nat /\ q \in Parsers /\ n \in Nat
    BY <1>2, <1>3 DEF Parsers
  <2>3. GraphParsed(r, text) = next
    BY <2>1
  <2> HIDE DEF x, q, n
  <2>4. next \in Readings /\ next.reports = r.reports
    BY <2>2 DEF Readings
  <2> HIDE DEF next
  <2> QED BY <2>3, <2>4 DEF Honest
<1>6. StakesParsed(r, text) \in Readings /\ Honest(StakesParsed(r, text))
  <2>1. StakesParsed(r, text) = [r EXCEPT !.documents = Documents(r, d), !.parser = P]
    BY DEF StakesParsed, d
  <2> HIDE DEF P
  <2> QED BY <1>2, <1>3, <2>1 DEF Readings, Honest
<1>7. BlockParsed(r, text) \in Readings /\ Honest(BlockParsed(r, text))
  <2> DEFINE g == reset(Lines, LineLimit)
             next == [r EXCEPT !.parser = P, !.f = g]
  <2>1. g \in Framings(Tokens)
    BY <1>2, LinesAre, ResetKeeps
  <2>2. BlockParsed(r, text) = IF d.valid THEN Verdict(next, d) ELSE next
    BY DEF BlockParsed, d
  <2> HIDE DEF g, P
  <2>3. next \in Readings /\ Honest(next)
    BY <1>2, <2>1 DEF Readings, Honest
  <2> HIDE DEF next
  <2> QED BY <1>1, <2>2, <2>3, VerdictKeeps
<1> QED BY <1>4, <1>5, <1>6, <1>7 DEF Handed

LEMMA RpcLeastNumber ==
  ASSUME NEW T \in SUBSET Nat, T # {}
  PROVE  \E x \in T : \A y \in T : x <= y
<1>. DEFINE R == OpToRel(<, Nat)
<1>1. \A x, y \in Nat : <<x, y>> \in R <=> x < y
  BY DEF OpToRel
<1>2. IsWellFoundedOn(R, Nat)
  BY NatLessThanWellFounded
<1>. HIDE DEF R
<1>3. PICK x \in T : \A y \in T : ~(<<y, x>> \in R)
  BY <1>2, WFMin
<1>4. ASSUME NEW y \in T PROVE x <= y
  <2>1. ~(y < x)
    BY <1>1, <1>3
  <2>. QED BY <2>1
<1>. QED BY <1>4

LEMMA LeastIs ==
  ASSUME NEW T \in SUBSET Nat, T # {}
  PROVE  Min(T) \in T /\ \A y \in T : Min(T) <= y
  BY RpcLeastNumber DEF Min

(* One frame, or the part of it there is.                                  *)
Framed(t) == t.frame \in BOOLEAN /\ t.f \in Framings(Tokens) /\ t.text \in Seq(Tokens) /\ t.rest \in Seq(Tokens)

LEMMA NextLineKeeps ==
  ASSUME NEW f \in Framings(Tokens), NEW bytes \in Seq(Tokens)
  PROVE  Framed(NextLine(f, bytes))
<1> DEFINE ends == {n \in DOMAIN bytes : bytes[n].k = "\n"}
           size == IF ends = {} THEN Len(bytes) ELSE Min(ends)
           text == SubSeq(bytes, 1, size)
           rest == SubSeq(bytes, size + 1, Len(bytes))
           none == <<>>
<1>1. size \in 0 .. Len(bytes)
  <2>1. ends \in SUBSET Nat /\ ends \subseteq 1 .. Len(bytes) /\ Len(bytes) \in Nat
    OBVIOUS
  <2> HIDE DEF ends
  <2>2. CASE ends = {}
    BY <2>1, <2>2
  <2>3. CASE ends # {}
    <3>1. Min(ends) \in ends
      BY <2>1, <2>3, LeastIs
    <3>2. size = Min(ends)
      BY <2>3
    <3> HIDE DEF size
    <3>3. \A x \in ends : x \in 0 .. Len(bytes)
      BY <2>1
    <3> QED BY <3>1, <3>2, <3>3, Zenon
  <2> QED BY <2>2, <2>3
<1> HIDE DEF size
<1>2. text \in Seq(Tokens) /\ rest \in Seq(Tokens) /\ Len(text) \in Nat
  BY <1>1, PrefixOf
<1>3. none \in Seq(Tokens)
  OBVIOUS
<1>4. NextLine(f, bytes) =
        CASE ~HasRoom(f, text) -> Frame(FALSE, f, none, none)
          [] HasRoom(f, text) /\ ends = {} -> Frame(FALSE, Buffered(f, text), none, none)
          [] OTHER -> Frame(TRUE, Lines, f.buf \o text, rest)
  BY DEF NextLine, size
<1> HIDE DEF text, rest, ends, none
<1>5. f.buf \in Seq(Tokens) /\ f.room \in Nat
  BY DEF Framings
<1>6. f.buf \o text \in Seq(Tokens)
  BY <1>2, <1>5, ConcatProperties
<1>7. HasRoom(f, text) => Buffered(f, text) \in Framings(Tokens)
  <2> DEFINE b == f.buf \o text
             n == f.room - Len(text)
  <2>1. HasRoom(f, text) => n \in Nat
    BY <1>2, <1>5 DEF HasRoom
  <2>2. Buffered(f, text) = [f EXCEPT !.buf = b, !.room = n]
    BY DEF Buffered
  <2>3. b \in Seq(Tokens)
    BY <1>6
  <2> HIDE DEF b, n
  <2> QED BY <2>1, <2>2, <2>3 DEF Framings
<1>8. ASSUME NEW b \in BOOLEAN, NEW g \in Framings(Tokens), NEW x \in Seq(Tokens), NEW y \in Seq(Tokens)
      PROVE  Framed(Frame(b, g, x, y))
  BY DEF Framed, Frame
<1>9. CASE ~HasRoom(f, text)
  <2>1. NextLine(f, bytes) = Frame(FALSE, f, none, none)
    BY <1>4, <1>9
  <2> QED BY <1>3, <1>8, <2>1
<1>10. CASE HasRoom(f, text) /\ ends = {}
  BY <1>3, <1>4, <1>7, <1>8, <1>10
<1>11. CASE HasRoom(f, text) /\ ends # {}
  <2>1. NextLine(f, bytes) = Frame(TRUE, Lines, f.buf \o text, rest)
    BY <1>4, <1>11
  <2> QED BY <1>2, <1>6, <1>8, <2>1, LinesAre
<1> QED BY <1>9, <1>10, <1>11

LEMMA NextBodyKeeps ==
  ASSUME NEW f \in Framings(Tokens), NEW bytes \in Seq(Tokens)
  PROVE  Framed(NextBody(f, bytes))
<1> DEFINE part == f.buf \o bytes
           text == SubSeq(bytes, 1, f.left)
           rest == SubSeq(bytes, f.left + 1, Len(bytes))
           none == <<>>
<1>1. f.buf \in Seq(Tokens) /\ f.left \in Nat /\ Len(bytes) \in Nat
  BY DEF Framings
<1>2. part \in Seq(Tokens)
  BY <1>1, ConcatProperties
<1>3. none \in Seq(Tokens)
  OBVIOUS
<1>4. CASE Len(bytes) < f.left
  <2>1. NextBody(f, bytes) = Frame(FALSE, [f EXCEPT !.buf = part, !.left = @ - Len(bytes)], none, none)
    BY <1>4 DEF NextBody, Framings
  <2> HIDE DEF part, none
  <2>2. [f EXCEPT !.buf = part, !.left = @ - Len(bytes)] \in Framings(Tokens)
    <3> DEFINE n == f.left - Len(bytes)
    <3>1. n \in Nat /\ [f EXCEPT !.buf = part, !.left = @ - Len(bytes)] = [f EXCEPT !.buf = part, !.left = n]
      BY <1>1, <1>4
    <3> HIDE DEF n
    <3> QED BY <1>2, <3>1 DEF Framings
  <2> QED BY <1>3, <2>1, <2>2 DEF Framed, Frame
<1>5. CASE ~(Len(bytes) < f.left)
  <2>1. text \in Seq(Tokens) /\ rest \in Seq(Tokens)
    BY <1>1, <1>5, PrefixOf
  <2>2. NextBody(f, bytes) = Frame(TRUE, Sized, f.buf \o text, rest)
    BY <1>5 DEF NextBody
  <2> HIDE DEF text, rest
  <2>3. f.buf \o text \in Seq(Tokens)
    BY <1>1, <2>1, ConcatProperties
  <2> QED BY <2>1, <2>2, <2>3, LinesAre DEF Framed, Frame
<1> QED BY <1>4, <1>5

-----------------------------------------------------------------------------
(* A client takes frames, or answers, out of what it reads                 *)

Took(s) == s.r \in Readings /\ Honest(s.r) /\ s.rest \in Seq(Tokens)

LEMMA ReadFrameKeeps ==
  ASSUME NEW s, Took(s)
  PROVE  Took(ReadFrame(s))
<1> DEFINE f == s.r.f
           t == IF f.framing = "lines" THEN NextLine(f, s.rest) ELSE NextBody(f, s.rest)
           r == [s.r EXCEPT !.f = t.f]
           h == Handed(r, t.text)
<1>1. s.r \in Readings /\ Honest(s.r) /\ s.rest \in Seq(Tokens) /\ f \in Framings(Tokens)
  BY DEF Took, Readings
<1>2. Framed(t)
  <2> HIDE DEF f
  <2>1. Framed(NextLine(f, s.rest)) /\ Framed(NextBody(f, s.rest))
    BY <1>1, NextLineKeeps, NextBodyKeeps
  <2>2. CASE f.framing = "lines"
    BY <2>1, <2>2
  <2>3. CASE f.framing # "lines"
    BY <2>1, <2>3
  <2> QED BY <2>2, <2>3
<1>3. ReadFrame(s) = IF s.rest = <<>> THEN s ELSE [r |-> IF t.frame THEN h ELSE r, rest |-> t.rest]
  BY DEF ReadFrame
<1> HIDE DEF t, f
<1>4. t.f \in Framings(Tokens) /\ t.text \in Seq(Tokens) /\ t.rest \in Seq(Tokens)
  BY <1>2 DEF Framed
<1>5. r \in Readings /\ Honest(r)
  BY <1>1, <1>4 DEF Readings, Honest
<1> HIDE DEF r
<1>6. h \in Readings /\ Honest(h)
  BY <1>4, <1>5, HandedKeeps
<1> HIDE DEF h
<1> QED BY <1>1, <1>3, <1>4, <1>5, <1>6 DEF Took

(* As they are read, the answers of cosmos need not be honest: Splitting   *)
(* says of its readings only what they are.                                *)
Splitting(s) == s.r \in Readings /\ s.rest \in Seq(Tokens)

LEMMA SplitOneKeeps ==
  ASSUME NEW s, Splitting(s)
  PROVE  Splitting(SplitOne(s))
<1> DEFINE bytes == s.rest
           need == 2 - Len(s.r.partial)
           size == IF need < Len(bytes) THEN need ELSE Len(bytes)
           part == SubSeq(bytes, 1, size)
           digits == s.r.partial \o part
           d == [id |-> digits[1].val * Base + digits[2].val, ok |-> bytes[need + 1].val > 0]
           known == \E b \in s.r.store : b.id = d.id
           read == [s.r EXCEPT !.partial = digits]
           next == Verdict(read, d)
           none == <<>>
           rest == SubSeq(bytes, need + 2, Len(bytes))
<1>1. s.r \in Readings /\ bytes \in Seq(Tokens) /\ s.r.partial \in Seq(Tokens) /\ Len(s.r.partial) \in 0 .. 2
      /\ Len(bytes) \in Nat /\ need \in 0 .. 2
  <2>1. s.r \in Readings /\ bytes \in Seq(Tokens) /\ s.r.partial \in Digits
    BY DEF Splitting, Readings
  <2> DEFINE p == s.r.partial
             b == bytes
  <2>2. p \in Digits /\ b \in Seq(Tokens)
    BY <2>1
  <2> HIDE DEF p, b
  <2>3. p \in Seq(Tokens) /\ Len(p) \in Nat /\ Len(p) <= 2 /\ Len(b) \in Nat
    BY <2>2 DEF Digits
  <2> DEFINE m == Len(p)
  <2>5. m \in Nat /\ m <= 2
    BY <2>3
  <2> HIDE DEF m
  <2>6. m \in 0 .. 2 /\ 2 - m \in 0 .. 2
    BY <2>5
  <2>4. Len(p) \in 0 .. 2 /\ 2 - Len(p) \in 0 .. 2
    BY <2>6 DEF m
  <2> QED BY <2>1, <2>3, <2>4 DEF p, b
<1>2. SplitOne(s) =
        CASE bytes = <<>> -> s
          [] bytes # <<>> /\ Len(bytes) <= need -> [r |-> read, rest |-> none]
          [] Len(bytes) > need /\ (~d.ok \/ ~known) -> [r |-> next, rest |-> none]
          [] OTHER -> [r |-> [next EXCEPT !.partial = none], rest |-> rest]
  BY DEF SplitOne
<1>3. d.ok \in BOOLEAN
  OBVIOUS
<1>4. size \in 0 .. Len(bytes) /\ Len(s.r.partial) + size <= 2 /\ size >= 0
  <2> DEFINE n == Len(bytes)
             m == Len(s.r.partial)
  <2>1. n \in Nat /\ m \in 0 .. 2
    BY <1>1
  <2> HIDE DEF n, m
  <2>2. (IF 2 - m < n THEN 2 - m ELSE n) \in 0 .. n /\ m + (IF 2 - m < n THEN 2 - m ELSE n) <= 2
    BY <2>1
  <2>3. size = (IF 2 - m < n THEN 2 - m ELSE n)
    BY DEF n, m
  <2> DEFINE z == IF 2 - m < n THEN 2 - m ELSE n
  <2>4. z \in 0 .. n /\ m + z <= 2 /\ z >= 0 /\ size = z
    <3>1. size = z
      BY <2>3
    <3> HIDE DEF size
    <3>2. z \in 0 .. n /\ m + z <= 2
      BY <2>2
    <3> HIDE DEF z
    <3> QED BY <2>1, <3>1, <3>2
  <2> HIDE DEF z, size
  <2> QED BY <2>4 DEF n, m
<1> HIDE DEF size
<1>5. part \in Seq(Tokens) /\ Len(part) = size
  BY <1>1, <1>4
<1>6. rest \in Seq(Tokens)
  <2> DEFINE n == need + 2
             b == bytes
  <2> DEFINE k == need
  <2>3. k \in 0 .. 2 /\ b \in Seq(Tokens) /\ Len(b) \in Nat
    BY <1>1
  <2> HIDE DEF k, b
  <2>4. k + 2 \in Nat \ {0}
    BY <2>3
  <2>1. n \in Nat \ {0} /\ b \in Seq(Tokens) /\ Len(b) \in Nat
    BY <2>3, <2>4 DEF k
  <2> HIDE DEF n
  <2>2. SubSeq(b, n, Len(b)) \in Seq(Tokens)
    BY <2>1
  <2> QED BY <2>2 DEF n, b
<1>7. none \in Digits /\ none \in Seq(Tokens)
  BY DEF Digits
<1> HIDE DEF bytes, need, part, d, known, rest, none
<1>8. digits \in Seq(Tokens) /\ Len(digits) = Len(s.r.partial) + Len(part)
  BY <1>1, <1>5, ConcatProperties
<1> HIDE DEF digits
<1>9. digits \in Digits
  BY <1>1, <1>4, <1>5, <1>8 DEF Digits
<1>10. read \in Readings
  BY <1>1, <1>9 DEF Readings
<1> HIDE DEF read
<1>11. next \in Readings
  BY <1>3, <1>10, VerdictKeeps
<1> HIDE DEF next
<1>12. [next EXCEPT !.partial = none] \in Readings
  BY <1>7, <1>11 DEF Readings
<1>13. Splitting([r |-> read, rest |-> none]) /\ Splitting([r |-> next, rest |-> none])
       /\ Splitting([r |-> [next EXCEPT !.partial = none], rest |-> rest])
  BY <1>6, <1>7, <1>10, <1>11, <1>12 DEF Splitting
<1> HIDE DEF Splitting
<1>14. CASE bytes = <<>>
  <2>1. ~(Len(bytes) > need)
    BY <1>1, <1>14
  <2> QED BY <1>2, <1>14, <2>1
<1>15. CASE bytes # <<>> /\ Len(bytes) <= need
  BY <1>1, <1>2, <1>13, <1>15
<1>16. CASE bytes # <<>> /\ Len(bytes) > need /\ (~d.ok \/ ~known)
  BY <1>1, <1>2, <1>13, <1>16
<1>17. CASE bytes # <<>> /\ Len(bytes) > need /\ ~(~d.ok \/ ~known)
  BY <1>1, <1>2, <1>13, <1>17
<1> QED BY <1>1, <1>14, <1>15, <1>16, <1>17

LEMMA RpcUpTo ==
  ASSUME NEW n \in Nat, NEW good, 0 \in good, \A k \in 1 .. n : k - 1 \in good => k \in good
  PROVE  0 .. n \subseteq good
<1> DEFINE bad == {k \in 0 .. n : k \notin good}
<1>1. SUFFICES ASSUME bad # {} PROVE FALSE  OBVIOUS
<1>2. bad \in SUBSET Nat  OBVIOUS
<1>3. PICK m \in bad : \A k \in bad : m <= k
  <2> HIDE DEF bad
  <2> QED BY <1>1, <1>2, RpcLeastNumber
<1>4. m # 0 /\ m \in 1 .. n /\ m - 1 \in 0 .. n /\ m - 1 \notin bad  BY <1>3
<1> QED BY <1>3, <1>4

-----------------------------------------------------------------------------
(* The recursions of ReadFrames and Split have solutions, n steps long.    *)

StepOf(framed, s) == IF framed THEN ReadFrame(s) ELSE SplitOne(s)
Solves(e, n, framed, first) ==
  e = [j \in 0 .. n |-> IF j = 0 THEN first ELSE StepOf(framed, e[j - 1])]
Steps(e, n, framed, first) ==
  e[0] = first /\ \A j \in 1 .. n : e[j] = StepOf(framed, e[j - 1])

LEMMA SolutionExists ==
  ASSUME NEW n \in Nat, NEW framed, NEW first
  PROVE  \E e : Solves(e, n, framed, first)
<1> DEFINE P(m) == \E e : Solves(e, m, framed, first)
           good == {m \in 0 .. n : P(m)}
<1>1. P(0)
  <2> DEFINE e == [j \in 0 .. 0 |-> first]
  <2>1. e = [j \in 0 .. 0 |-> IF j = 0 THEN first ELSE StepOf(framed, e[j - 1])]
    OBVIOUS
  <2>2. Solves(e, 0, framed, first)
    BY <2>1 DEF Solves
  <2> QED BY <2>2
<1>2. ASSUME NEW m \in 1 .. n, P(m - 1)
      PROVE  P(m)
  <2>1. PICK e : e = [j \in 0 .. m - 1 |-> IF j = 0 THEN first ELSE StepOf(framed, e[j - 1])]
    BY <1>2 DEF Solves
  <2> DEFINE g == [j \in 0 .. m |-> IF j = m THEN StepOf(framed, e[m - 1]) ELSE e[j]]
  <2>2. ASSUME NEW j \in 0 .. m
        PROVE  g[j] = (IF j = 0 THEN first ELSE StepOf(framed, g[j - 1]))
    <3>1. CASE j = m
      BY <3>1
    <3>2. CASE j # m
      <4>1. j \in 0 .. m - 1 /\ g[j] = e[j]
        BY <3>2
      <4>2. e[j] = (IF j = 0 THEN first ELSE StepOf(framed, e[j - 1]))
        BY <2>1, <4>1
      <4>3. j # 0 => g[j - 1] = e[j - 1]
        BY <4>1
      <4> QED BY <4>1, <4>2, <4>3
    <3> QED BY <3>1, <3>2
  <2>3. g = [j \in 0 .. m |-> IF j = 0 THEN first ELSE StepOf(framed, g[j - 1])]
    BY <2>2
  <2>4. Solves(g, m, framed, first)
    BY <2>3 DEF Solves
  <2> QED BY <2>4
<1> HIDE DEF P
<1>3. 0 \in good /\ \A m \in 1 .. n : m - 1 \in good => m \in good
  BY <1>1, <1>2
<1> HIDE DEF good
<1>4. n \in good
  BY <1>3, RpcUpTo
<1> QED BY <1>4 DEF good, P

LEMMA SolutionSteps ==
  ASSUME NEW n \in Nat, NEW framed, NEW first, NEW e, Solves(e, n, framed, first)
  PROVE  Steps(e, n, framed, first)
<1>1. e = [j \in 0 .. n |-> IF j = 0 THEN first ELSE StepOf(framed, e[j - 1])]
  BY DEF Solves
<1>2. 0 \in 0 .. n /\ \A j \in 1 .. n : j \in 0 .. n /\ j # 0
  OBVIOUS
<1> QED BY <1>1, <1>2 DEF Steps

(* What ReadFrames and Split return is where such steps end.               *)
LEMMA ReadFramesSteps ==
  ASSUME NEW r, NEW bytes \in Seq(Tokens)
  PROVE  \E e : Steps(e, 2 * Len(bytes), TRUE, [r |-> r, rest |-> bytes])
                /\ ReadFrames(r, bytes) = e[2 * Len(bytes)].r
<1> DEFINE most == 2 * Len(bytes)
           first == [r |-> r, rest |-> bytes]
           read == CHOOSE e : e = [j \in 0 .. most |-> IF j = 0 THEN first ELSE ReadFrame(e[j - 1])]
<1>1. most \in Nat
  OBVIOUS
<1>2. ReadFrames(r, bytes) = read[most].r
  BY DEF ReadFrames
<1> HIDE DEF most, first
<1>3. \E e : Solves(e, most, TRUE, first)
  BY <1>1, SolutionExists
<1>4. Solves(read, most, TRUE, first)
  <2>1. \E e : e = [j \in 0 .. most |-> IF j = 0 THEN first ELSE ReadFrame(e[j - 1])]
    BY <1>3 DEF Solves, StepOf
  <2>2. read = [j \in 0 .. most |-> IF j = 0 THEN first ELSE ReadFrame(read[j - 1])]
    BY <2>1
  <2> HIDE DEF read
  <2> QED BY <2>2 DEF Solves, StepOf
<1> HIDE DEF read
<1>5. Steps(read, most, TRUE, first)
  BY <1>1, <1>4, SolutionSteps
<1> QED BY <1>2, <1>5 DEF most, first

LEMMA SplitSteps ==
  ASSUME NEW r, NEW bytes \in Seq(Tokens)
  PROVE  \E e : Steps(e, Len(bytes), FALSE, [r |-> r, rest |-> bytes]) /\ Split(r, bytes) = e[Len(bytes)].r
<1> DEFINE most == Len(bytes)
           first == [r |-> r, rest |-> bytes]
           read == CHOOSE e : e = [j \in 0 .. most |-> IF j = 0 THEN first ELSE SplitOne(e[j - 1])]
<1>1. most \in Nat
  OBVIOUS
<1>2. Split(r, bytes) = read[most].r
  BY DEF Split
<1> HIDE DEF most, first
<1>3. \E e : Solves(e, most, FALSE, first)
  BY <1>1, SolutionExists
<1>4. Solves(read, most, FALSE, first)
  <2>1. \E e : e = [j \in 0 .. most |-> IF j = 0 THEN first ELSE SplitOne(e[j - 1])]
    BY <1>3 DEF Solves, StepOf
  <2>2. read = [j \in 0 .. most |-> IF j = 0 THEN first ELSE SplitOne(read[j - 1])]
    BY <2>1
  <2> HIDE DEF read
  <2> QED BY <2>2 DEF Solves, StepOf
<1> HIDE DEF read
<1>5. Steps(read, most, FALSE, first)
  BY <1>1, <1>4, SolutionSteps
<1> QED BY <1>2, <1>5 DEF most, first

LEMMA ReadFramesKeep ==
  ASSUME NEW r \in Readings, Honest(r), NEW bytes \in Seq(Tokens)
  PROVE  ReadFrames(r, bytes) \in Readings /\ Honest(ReadFrames(r, bytes))
<1> DEFINE n == 2 * Len(bytes)
           first == [r |-> r, rest |-> bytes]
<1>1. PICK e : Steps(e, n, TRUE, first) /\ ReadFrames(r, bytes) = e[n].r
  BY ReadFramesSteps
<1>2. n \in Nat /\ Took(first)
  BY DEF Took
<1> HIDE DEF n, first
<1> DEFINE good == {j \in 0 .. n : Took(e[j])}
<1>3. 0 \in good
  BY <1>1, <1>2 DEF Steps
<1>4. ASSUME NEW j \in 1 .. n, j - 1 \in good
      PROVE  j \in good
  <2>1. Took(e[j - 1]) /\ e[j] = ReadFrame(e[j - 1])
    BY <1>1, <1>4 DEF Steps, StepOf
  <2>2. Took(e[j])
    BY <2>1, ReadFrameKeeps
  <2> QED BY <2>2
<1> HIDE DEF good
<1>5. n \in good
  <2>1. n \in Nat /\ \A j \in 1 .. n : j - 1 \in good => j \in good
    BY <1>2, <1>4
  <2>2. 0 .. n \subseteq good
    BY <1>3, <2>1, RpcUpTo
  <2> QED BY <2>1, <2>2
<1>6. Took(e[n])
  BY <1>5 DEF good
<1> QED BY <1>1, <1>6 DEF Took

LEMMA SplitKeeps ==
  ASSUME NEW r \in Readings, NEW bytes \in Seq(Tokens)
  PROVE  Split(r, bytes) \in Readings
<1> DEFINE n == Len(bytes)
           first == [r |-> r, rest |-> bytes]
<1>1. PICK e : Steps(e, n, FALSE, first) /\ Split(r, bytes) = e[n].r
  BY SplitSteps
<1>2. n \in Nat /\ Splitting(first)
  BY DEF Splitting
<1> HIDE DEF n, first
<1> DEFINE good == {j \in 0 .. n : Splitting(e[j])}
<1>3. 0 \in good
  BY <1>1, <1>2 DEF Steps
<1>4. ASSUME NEW j \in 1 .. n, j - 1 \in good
      PROVE  j \in good
  <2>1. Splitting(e[j - 1]) /\ e[j] = SplitOne(e[j - 1])
    BY <1>1, <1>4 DEF Steps, StepOf
  <2>2. Splitting(e[j])
    BY <2>1, SplitOneKeeps
  <2> QED BY <2>2
<1> HIDE DEF good
<1>5. n \in good
  <2>1. n \in Nat /\ \A j \in 1 .. n : j - 1 \in good => j \in good
    BY <1>2, <1>4
  <2>2. 0 .. n \subseteq good
    BY <1>3, <2>1, RpcUpTo
  <2> QED BY <2>1, <2>2
<1>6. Splitting(e[n])
  BY <1>5 DEF good
<1> QED BY <1>1, <1>6 DEF Splitting

LEMMA WholeKeeps ==
  ASSUME NEW r \in Readings, Honest(r), NEW bytes \in Seq(Tokens)
  PROVE  Whole(r, bytes) \in Readings /\ Honest(Whole(r, bytes))
<1> DEFINE d == Document(bytes)
           v == Verdict(r, d)
<1>1. d.valid \in BOOLEAN /\ d.ok \in BOOLEAN /\ (d.valid => Truth(d.id, d.ok))
  BY DocumentIs
<1>2. Whole(r, bytes) = IF d.valid THEN v ELSE r
  BY DEF Whole
<1> HIDE DEF d
<1>3. v \in Readings /\ (d.valid => Honest(v))
  BY <1>1, VerdictKeeps
<1> HIDE DEF v
<1> QED BY <1>2, <1>3

(* What a client reads is a reading, and but for cosmos an honest one.     *)
LEMMA ReadByKeeps ==
  ASSUME NEW r \in Readings, Honest(r), NEW bytes \in Seq(Tokens)
  PROVE  ReadBy(r, bytes) \in Readings /\ (client # "cosmos" => Honest(ReadBy(r, bytes)))
<1>1. CASE client = "eth"
  BY <1>1, WholeKeeps DEF ReadBy
<1>2. CASE client = "cosmos"
  BY <1>2, SplitKeeps DEF ReadBy
<1>3. CASE client \notin {"eth", "cosmos"}
  BY <1>3, ReadFramesKeep DEF ReadBy
<1> QED BY <1>1, <1>2, <1>3

-----------------------------------------------------------------------------
(* What holds of every client                                              *)

RpcBase == RpcTypeOK /\ OnlyOpen /\ OneLink /\ OnlyChains

Bears(l) == (l.st \notin {"open", "ended"} => l.stream = <<>>) /\ (l.st # "open" => l.requests = <<>>)
Turned(c) == link' = [link EXCEPT ![c] = link'[c]]
Rested ==
  /\ timer' \in Nat /\ interval' \in Nat \ {0} /\ is_abci_active' \in BOOLEAN /\ dead' \in BOOLEAN
  /\ up' \subseteq up
Books == <<client, id, block_store, parser, partial, relayed>>

LEMMA SeqsGrow ==
  ASSUME NEW S, NEW T, S \subseteq T
  PROVE  Seq(S) \subseteq Seq(T)
<1>1. ASSUME NEW s \in Seq(S) PROVE s \in Seq(T)
  <2>1. Len(s) \in Nat /\ s \in [1 .. Len(s) -> S]
    OBVIOUS
  <2> QED BY <2>1
<1> QED BY <1>1

LEMMA LinksGrow ==
  ASSUME NEW R, NEW R2, R \subseteq R2, NEW T, NEW T2, T \subseteq T2, NEW l \in LinksOf(R, T)
  PROVE  l \in LinksOf(R2, T2)
<1>1. Seq(R) \subseteq Seq(R2) /\ Seq(T) \subseteq Seq(T2)
  BY SeqsGrow
<1> DEFINE SR == Seq(R)
           ST == Seq(T)
           SR2 == Seq(R2)
           ST2 == Seq(T2)
<1>2. SR \subseteq SR2 /\ ST \subseteq ST2
  BY <1>1
<1>3. l \in [st : LinkStates, requests : SR, stream : ST,
             f : [framing : {"lines", "sized"}, buf : ST, room : Nat, left : Nat]]
  BY DEF LinksOf, Framings
<1> HIDE DEF SR, ST, SR2, ST2
<1>4. l \in [st : LinkStates, requests : SR2, stream : ST2,
             f : [framing : {"lines", "sized"}, buf : ST2, room : Nat, left : Nat]]
  BY <1>2, <1>3
<1> QED BY <1>4 DEF LinksOf, Framings, SR2, ST2

LEMMA BooksGrow ==
  ASSUME RpcTypeOK, client' = client, id' \in Nat, id <= id',
         \A b \in block_store' : b \in block_store \/ (client \in Chains /\ b.id = id)
  PROVE  Requests \subseteq Requests' /\ Tokens \subseteq Tokens' /\ Digits \subseteq Digits'
<1>1. id \in Nat
  BY DEF RpcTypeOK
<1>2. ASSUME NEW i \in Nat, client \in Chains => i < id, NEW ok, Truth(i, ok)
      PROVE  (client' \in Chains => i < id') /\ Truth(i, ok)'
  BY <1>1, <1>2 DEF Truth
<1>3. Requests \subseteq Requests'
  BY <1>2 DEF Requests
<1>4. Tokens \subseteq Tokens'
  BY <1>1, <1>2 DEF Tokens
<1>5. Seq(Tokens) \subseteq Seq(Tokens')
  BY <1>4, SeqsGrow
<1> QED BY <1>3, <1>4, <1>5 DEF Digits

(* A step that only turns one link, or none, and what goes with it.        *)
LEMMA LinkStep ==
  ASSUME RpcBase, NEW c \in Links, Turned(c), link'[c] \in LinksOf(Requests, Tokens), Bears(link'[c]),
         client \in Chains /\ c # 1 => link'[c].st = "idle", Rested, UNCHANGED Books
  PROVE  RpcBase'
<1>1. client' = client /\ id' = id /\ block_store' = block_store /\ parser' = parser /\ partial' = partial
      /\ relayed' = relayed /\ id \in Nat
  BY DEF Books, RpcBase, RpcTypeOK
<1>2. Requests' = Requests /\ Tokens' = Tokens /\ Digits' = Digits
  BY <1>1 DEF Requests, Tokens, Digits, Truth
<1>3. link \in [Links -> LinksOf(Requests, Tokens)]
  BY DEF RpcBase, RpcTypeOK
<1>4. link' \in [Links -> LinksOf(Requests, Tokens)] /\ \A x \in Links : x # c => link'[x] = link[x]
  <2> DEFINE S == LinksOf(Requests, Tokens)
             l == link'[c]
  <2>1. link' = [link EXCEPT ![c] = l] /\ l \in S /\ link \in [Links -> S]
    BY <1>3 DEF Turned
  <2> HIDE DEF S, l
  <2> QED BY <2>1 DEF S
<1>5. RpcTypeOK'
  BY <1>1, <1>2, <1>4 DEF RpcBase, RpcTypeOK, Rested
<1>6. OnlyOpen'
  <2>1. ASSUME NEW x \in Links PROVE Bears(link'[x])
    <3>1. CASE x = c
      BY <3>1
    <3>2. CASE x # c
      BY <1>4, <3>2 DEF RpcBase, OnlyOpen, Bears
    <3> QED BY <3>1, <3>2
  <2> QED BY <2>1 DEF OnlyOpen, Bears
<1>7. OneLink'
  BY <1>1, <1>4 DEF RpcBase, OneLink
<1>8. OnlyChains'
  BY <1>1 DEF RpcBase, OnlyChains
<1> QED BY <1>5, <1>6, <1>7, <1>8 DEF RpcBase

LEMMA LinkTurns ==
  ASSUME RpcBase, NEW c \in Links
  PROVE  /\ link[c] \in LinksOf(Requests, Tokens) /\ Bears(link[c]) /\ c \in Nat \ {0}
         /\ link[c].requests \in Seq(Requests) /\ link[c].stream \in Seq(Tokens)
         /\ link[c].f \in Framings(Tokens) /\ link[c].st \in LinkStates
         /\ client \in Chains /\ link[c].st # "idle" => c = 1
BY DEF RpcBase, RpcTypeOK, OnlyOpen, OneLink, Bears, LinksOf, Links

LEMMA RestedSame ==
  ASSUME RpcBase, UNCHANGED <<timer, interval, is_abci_active, up>>, dead' \in BOOLEAN
  PROVE  Rested
BY DEF RpcBase, RpcTypeOK, Rested

TurnedTo(c, l) == link' = [link EXCEPT ![c] = l]

LEMMA TurnsTo ==
  ASSUME RpcBase, NEW c \in Links, NEW l, TurnedTo(c, l)
  PROVE  Turned(c) /\ link'[c] = l
<1>1. DOMAIN link = Links
  BY DEF RpcBase, RpcTypeOK
<1> QED BY <1>1 DEF TurnedTo, Turned

LEMMA NoLinkIs == NoLink \in LinksOf(Requests, Tokens) /\ NoLink.requests = <<>> /\ NoLink.stream = <<>>
<1> DEFINE none == <<>>
<1>1. none \in Seq(Requests) /\ none \in Seq(Tokens) /\ "idle" \in LinkStates
  BY DEF LinkStates
<1> HIDE DEF none
<1>2. [st |-> "idle", requests |-> none, stream |-> none, f |-> Lines] \in LinksOf(Requests, Tokens)
  BY <1>1, LinesAre DEF LinksOf
<1> QED BY <1>2 DEF NoLink, none

LEMMA WritesTurns ==
  ASSUME RpcBase, NEW c \in Links, NEW answer \in Seq(Tokens), Writes(c, answer)
  PROVE  Turned(c) /\ link'[c] \in LinksOf(Requests, Tokens) /\ Bears(link'[c]) /\ link'[c].st = "open"
<1>1. link[c] \in LinksOf(Requests, Tokens) /\ link[c].requests \in Seq(Requests) /\ link[c].stream \in Seq(Tokens)
      /\ link[c].f \in Framings(Tokens)
  BY LinkTurns
<1>2. link[c].st = "open" /\ link[c].requests # <<>>
      /\ link' = [link EXCEPT ![c].requests = Tail(@), ![c].stream = @ \o answer]
  BY DEF Writes
<1> DEFINE r == Tail(link[c].requests)
           s == link[c].stream \o answer
           l == [link[c] EXCEPT !.requests = r, !.stream = s]
<1>3. r \in Seq(Requests)
  BY <1>1, <1>2
<1>4. s \in Seq(Tokens)
  BY <1>1, ConcatProperties
<1>5. TurnedTo(c, l)
  BY <1>2 DEF TurnedTo
<1> HIDE DEF r, s
<1>7. l \in LinksOf(Requests, Tokens) /\ l.st = "open"
  BY <1>1, <1>2, <1>3, <1>4 DEF LinksOf
<1>9. Bears(l)
  BY <1>7 DEF Bears
<1> HIDE DEF l
<1> QED BY <1>5, <1>7, <1>9, TurnsTo

LEMMA AnswersKeepBase ==
  ASSUME RpcBase, NEW c \in Links, Answers(c) \/ AnswersUnsized(c)
  PROVE  RpcBase'
<1> DEFINE r == Head(link[c].requests)
<1>1. link[c].requests \in Seq(Requests) /\ (client \in Chains /\ link[c].st # "idle" => c = 1)
  BY LinkTurns
<1>2. link[c].st = "open" /\ link[c].requests # <<>>
  BY DEF Answers, AnswersUnsized, Writes
<1>3. r \in Requests
  BY <1>1, <1>2
<1>4. Writes(c, Answer(r.id, r.ok)) \/ Writes(c, Unsized(r.id, r.ok))
  BY DEF Answers, AnswersUnsized
<1>5. UNCHANGED Books /\ UNCHANGED <<timer, interval, is_abci_active, up, dead>>
  BY DEF Answers, AnswersUnsized, Books, bookVars, chainVars, readVars
<1> HIDE DEF r
<1>6. Answer(r.id, r.ok) \in Seq(Tokens) /\ Unsized(r.id, r.ok) \in Seq(Tokens)
  BY <1>3, AnswerTokens DEF RpcBase
<1>7. Turned(c) /\ link'[c] \in LinksOf(Requests, Tokens) /\ Bears(link'[c]) /\ link'[c].st = "open"
  BY <1>4, <1>6, WritesTurns
<1>8. Rested
  BY <1>5, RestedSame DEF RpcBase, RpcTypeOK
<1> QED BY <1>1, <1>2, <1>5, <1>7, <1>8, LinkStep

LEMMA EndsKeepsBase ==
  ASSUME RpcBase, NEW c \in Links, Ends(c)
  PROVE  RpcBase'
<1>1. link[c] \in LinksOf(Requests, Tokens) /\ link[c].stream \in Seq(Tokens) /\ link[c].f \in Framings(Tokens)
      /\ (client \in Chains /\ link[c].st # "idle" => c = 1)
  BY LinkTurns
<1>2. PICK n \in {0, Len(link[c].stream)} :
        /\ link[c].st = "open"
        /\ link' = [link EXCEPT ![c].st = "ended", ![c].requests = <<>>, ![c].stream = SubSeq(@, 1, n)]
  BY DEF Ends
<1>3. UNCHANGED Books /\ UNCHANGED <<timer, interval, is_abci_active, up, dead>>
  BY DEF Ends, Books, bookVars, chainVars, readVars
<1> DEFINE none == <<>>
           s == SubSeq(link[c].stream, 1, n)
           l == [link[c] EXCEPT !.st = "ended", !.requests = none, !.stream = s]
<1>4. n \in 0 .. Len(link[c].stream)
  BY <1>1, <1>2
<1>5. s \in Seq(Tokens)
  BY <1>1, <1>4, PrefixOf
<1>6. none \in Seq(Requests)
  OBVIOUS
<1>7. TurnedTo(c, l)
  BY <1>2 DEF TurnedTo
<1>8. Bears(l)
  BY <1>1 DEF Bears, LinksOf
<1> HIDE DEF none, s
<1>10. l \in LinksOf(Requests, Tokens)
  BY <1>1, <1>5, <1>6 DEF LinksOf, LinkStates
<1>12. Rested
  BY <1>3, RestedSame DEF RpcBase, RpcTypeOK
<1> HIDE DEF l
<1>13. Turned(c) /\ link'[c] = l
  BY <1>7, TurnsTo
<1> QED BY <1>1, <1>2, <1>3, <1>8, <1>10, <1>12, <1>13, LinkStep

(* A step that reads or hands over blocks.                                 *)
Booked ==
  /\ client' = client /\ id' \in Nat /\ id <= id' /\ block_store' \subseteq Stored
  /\ \A b \in block_store' : b \in block_store \/ (client \in Chains /\ b.id = id /\ id < id')
  /\ parser' \in Parsers /\ partial' \in Digits
  /\ client \notin Chains => block_store' = {} /\ relayed' = {}

LEMMA BookStep ==
  ASSUME RpcBase, NEW c \in Links, Turned(c), link'[c] \in LinksOf(Requests', Tokens'), Bears(link'[c]),
         client \in Chains /\ c # 1 => link'[c].st = "idle", Rested, Booked
  PROVE  RpcBase'
<1>1. client' = client /\ id' \in Nat /\ id <= id' /\ id \in Nat /\ RpcTypeOK
      /\ \A b \in block_store' : b \in block_store \/ (client \in Chains /\ b.id = id)
  BY DEF Booked, RpcBase, RpcTypeOK
<1>2. Requests \subseteq Requests' /\ Tokens \subseteq Tokens' /\ Digits \subseteq Digits'
  BY <1>1, BooksGrow
<1>3. link \in [Links -> LinksOf(Requests, Tokens)]
  BY DEF RpcBase, RpcTypeOK
<1>4. link' \in [Links -> LinksOf(Requests', Tokens')] /\ \A x \in Links : x # c => link'[x] = link[x]
  <2> DEFINE S == LinksOf(Requests, Tokens)
             S2 == LinksOf(Requests', Tokens')
             l == link'[c]
  <2>1. link' = [link EXCEPT ![c] = l] /\ l \in S2 /\ link \in [Links -> S]
    BY <1>3 DEF Turned
  <2>2. \A x \in S : x \in S2
    BY <1>2, LinksGrow
  <2> HIDE DEF S, S2, l
  <2>3. link' \in [Links -> S2] /\ \A x \in Links : x # c => link'[x] = link[x]
    BY <2>1, <2>2
  <2> QED BY <2>3 DEF S2
<1>5. \A b \in block_store' : b.id < id'
  <2>1. ASSUME NEW b \in block_store, NEW n \in Nat, n = b.id PROVE n < id'
    <3>1. n < id
      BY <2>1 DEF RpcBase, RpcTypeOK
    <3> QED BY <1>1, <3>1
  <2>2. \A b \in block_store' : b.id \in Nat
    BY DEF Booked, Stored
  <2> QED BY <2>1, <2>2 DEF Booked
<1>6. RpcTypeOK'
  BY <1>1, <1>2, <1>4, <1>5 DEF RpcBase, RpcTypeOK, Rested, Booked, Parsers, Stored
<1>7. OnlyOpen'
  <2>1. ASSUME NEW x \in Links PROVE Bears(link'[x])
    <3>1. CASE x = c
      BY <3>1
    <3>2. CASE x # c
      BY <1>4, <3>2 DEF RpcBase, OnlyOpen, Bears
    <3> QED BY <3>1, <3>2
  <2> QED BY <2>1 DEF OnlyOpen, Bears
<1>8. OneLink'
  BY <1>1, <1>4 DEF RpcBase, OneLink
<1>9. OnlyChains'
  BY <1>1 DEF Booked, OnlyChains
<1> QED BY <1>6, <1>7, <1>8, <1>9 DEF RpcBase

LEMMA ClosedIs ==
  ASSUME NEW l \in LinksOf(Requests, Tokens), Bears(l), NEW times
  PROVE  /\ Closed(l, times) \in LinksOf(Requests, Tokens) /\ Bears(Closed(l, times))
         /\ times = 0 => Closed(l, times) = l
         /\ times # 0 => Closed(l, times).st = "closing" /\ Closed(l, times).stream = <<>>
<1> DEFINE none == <<>>
           k == [l EXCEPT !.st = "closing", !.stream = none, !.requests = none]
<1>1. Closed(l, times) = IF times = 0 THEN l ELSE k
  BY DEF Closed
<1>2. none \in Seq(Requests) /\ none \in Seq(Tokens) /\ "closing" \in LinkStates
  BY DEF LinkStates
<1>3. k.st = "closing" /\ k.stream = <<>> /\ k.requests = <<>>
  BY DEF LinksOf
<1> HIDE DEF none
<1>4. k \in LinksOf(Requests, Tokens)
  BY <1>2 DEF LinksOf
<1>5. Bears(k)
  BY <1>3 DEF Bears
<1> HIDE DEF k
<1> QED BY <1>1, <1>3, <1>4, <1>5

LEMMA ClosingKeepsBase ==
  ASSUME RpcBase, NEW c \in Links, did_close(c) \/ fiber_recv_cb_end(c) \/ recv_cb_error(c)
  PROVE  RpcBase'
<1>1. link[c] \in LinksOf(Requests, Tokens) /\ Bears(link[c]) /\ (client \in Chains /\ link[c].st # "idle" => c = 1)
  BY LinkTurns
<1>2. UNCHANGED Books /\ UNCHANGED <<timer, interval, is_abci_active, up>> /\ link[c].st # "idle"
  BY DEF did_close, fiber_recv_cb_end, recv_cb_error, Books, bookVars, chainVars, readVars
<1>3. dead' \in BOOLEAN
  <2>1. CASE did_close(c)
    BY <2>1 DEF did_close
  <2>2. CASE fiber_recv_cb_end(c)
    BY <2>2 DEF fiber_recv_cb_end, RpcBase, RpcTypeOK
  <2>3. CASE recv_cb_error(c)
    BY <2>3, Zenon DEF recv_cb_error, Kills
  <2> QED BY <2>1, <2>2, <2>3
<1>4. Rested
  BY <1>2, <1>3, RestedSame
<1>5. CASE TurnedTo(c, Closed(link[c], 1))
  <2> DEFINE l == Closed(link[c], 1)
  <2>1. l \in LinksOf(Requests, Tokens) /\ Bears(l)
    BY <1>1, ClosedIs
  <2> HIDE DEF l
  <2>2. Turned(c) /\ link'[c] = l
    BY <1>5, TurnsTo DEF l
  <2> QED BY <1>1, <1>2, <1>4, <2>1, <2>2, LinkStep
<1>6. CASE did_close(c)
  <2> DEFINE l == [NoLink EXCEPT !.st = "closed"]
  <2>1. TurnedTo(c, l)
    BY <1>6 DEF did_close, TurnedTo
  <2>2. l \in LinksOf(Requests, Tokens) /\ l.stream = <<>> /\ l.requests = <<>>
    BY NoLinkIs DEF LinksOf, LinkStates
  <2>3. Bears(l)
    BY <2>2 DEF Bears
  <2> HIDE DEF l
  <2>4. Turned(c) /\ link'[c] = l
    BY <2>1, TurnsTo
  <2> QED BY <1>1, <1>2, <1>4, <2>2, <2>3, <2>4, LinkStep
<1>7. CASE ~did_close(c)
  <2>1. TurnedTo(c, Closed(link[c], 1))
    BY <1>7 DEF fiber_recv_cb_end, recv_cb_error, TurnedTo
  <2> QED BY <1>5, <2>1
<1> QED BY <1>6, <1>7

LEMMA DialsKeepBase ==
  ASSUME RpcBase, NEW c \in Links, NEW ok \in BOOLEAN, dial_cb(c, ok)
  PROVE  RpcBase'
<1>1. link[c] \in LinksOf(Requests, Tokens) /\ Bears(link[c]) /\ link[c].f \in Framings(Tokens) /\ c \in Nat \ {0}
      /\ link[c].stream \in Seq(Tokens)
  BY LinkTurns
<1>2. UNCHANGED Books /\ UNCHANGED <<timer, interval, is_abci_active, up, dead>> /\ client \in Queries
      /\ client \notin Chains
  BY DEF dial_cb, Books, bookVars, chainVars, readVars, Queries, Chains
<1>3. Rested
  BY <1>2, RestedSame DEF RpcBase, RpcTypeOK
<1>4. CASE ~ok
  <2> DEFINE l == Closed(link[c], 1)
  <2>1. TurnedTo(c, l)
    BY <1>4 DEF dial_cb, TurnedTo
  <2>2. l \in LinksOf(Requests, Tokens) /\ Bears(l)
    BY <1>1, ClosedIs
  <2> HIDE DEF l
  <2>3. Turned(c) /\ link'[c] = l
    BY <2>1, TurnsTo
  <2> QED BY <1>2, <1>3, <2>2, <2>3, LinkStep
<1>5. CASE ok
  <2> DEFINE r == <<[id |-> c, ok |-> TRUE]>>
             g == reset(link[c].f, LineLimit)
             l == [link[c] EXCEPT !.st = "open", !.f = g, !.requests = r]
  <2>1. TurnedTo(c, l)
    BY <1>5 DEF dial_cb, TurnedTo, did_dial
  <2>2. [id |-> c, ok |-> TRUE] \in Requests
    BY <1>1, <1>2 DEF RpcBase, OnlyChains, Requests, Truth
  <2>3. r \in Seq(Requests) /\ g \in Framings(Tokens) /\ "open" \in LinkStates
    BY <1>1, <2>2, RpcAssumption, ResetKeeps DEF LinkStates
  <2> HIDE DEF r, g
  <2>4. l \in LinksOf(Requests, Tokens) /\ l.st = "open"
    BY <1>1, <2>3 DEF LinksOf
  <2>5. Bears(l)
    BY <2>4 DEF Bears
  <2> HIDE DEF l
  <2>6. Turned(c) /\ link'[c] = l
    BY <2>1, TurnsTo
  <2> QED BY <1>2, <1>3, <2>4, <2>5, <2>6, LinkStep
<1> QED BY <1>4, <1>5

LEMMA DisconnectRests ==
  ASSUME RpcTypeOK, NEW reason, did_disconnect(reason)
  PROVE  timer' \in Nat \ {0} /\ interval' \in Nat \ {0} /\ is_abci_active' \in BOOLEAN
<1>1. interval \in Nat \ {0} /\ LongestInterval \in Nat \ {0}
  BY RpcAssumption DEF RpcTypeOK
<1>2. timer' = interval /\ interval' = IF 2 * interval > LongestInterval THEN LongestInterval ELSE 2 * interval
  BY DEF did_disconnect
<1>3. is_abci_active' = (is_abci_active /\ reason # 0)
  BY Zenon DEF did_disconnect
<1>4. is_abci_active' \in BOOLEAN
  BY <1>3, Zenon
<1> QED BY <1>1, <1>2, <1>4

LEMMA ConnectsKeepBase ==
  ASSUME RpcBase, OneAttempt, NEW ok \in BOOLEAN, connect_timer_cb \/ connect_cb(ok)
  PROVE  RpcBase'
<1>1. 1 \in Links
  BY RpcAssumption DEF Links
<1>2. link[1] \in LinksOf(Requests, Tokens) /\ Bears(link[1]) /\ link[1].f \in Framings(Tokens)
  BY <1>1, LinkTurns
<1>3. UNCHANGED Books /\ UNCHANGED <<up, dead>>
  BY DEF connect_timer_cb, connect_cb, Books, bookVars, chainVars, readVars
<1>4. CASE connect_timer_cb
  <2> DEFINE l == [link[1] EXCEPT !.st = "connecting"]
  <2>1. TurnedTo(1, l)
    BY <1>4 DEF connect_timer_cb, connect, TurnedTo
  <2>2. Rested
    BY <1>3, <1>4 DEF connect_timer_cb, RpcBase, RpcTypeOK, Rested
  <2>3. l \in LinksOf(Requests, Tokens)
    BY <1>2 DEF LinksOf, LinkStates
  <2>4. link[1].st = "idle"
    BY <1>4 DEF OneAttempt, connect_timer_cb
  <2>5. Bears(l)
    BY <1>2, <2>4 DEF Bears, LinksOf
  <2> HIDE DEF l
  <2>6. Turned(1) /\ link'[1] = l
    BY <1>1, <2>1, TurnsTo
  <2> QED BY <1>1, <1>3, <2>2, <2>3, <2>5, <2>6, LinkStep
<1>5. CASE connect_cb(ok)
  <2> DEFINE g == IF ok THEN reset(link[1].f, LineLimit) ELSE link[1].f
             st == IF ok THEN "open" ELSE "idle"
             l == [NoLink EXCEPT !.st = st, !.f = g]
  <2>1. TurnedTo(1, l)
    BY <1>5 DEF connect_cb, TurnedTo
  <2>2. g \in Framings(Tokens) /\ st \in LinkStates
    BY <1>2, RpcAssumption, ResetKeeps DEF LinkStates
  <2>3. Rested
    <3>1. CASE ok
      BY <1>3, <1>5, <3>1, RpcAssumption DEF connect_cb, did_connect, RpcBase, RpcTypeOK, Rested
    <3>2. CASE ~ok
      <4>1. did_disconnect(1)
        BY <1>5, <3>2 DEF connect_cb
      <4>2. timer' \in Nat \ {0} /\ interval' \in Nat \ {0} /\ is_abci_active' \in BOOLEAN
        BY <4>1, DisconnectRests DEF RpcBase
      <4> QED BY <1>3, <4>2 DEF Rested, RpcBase, RpcTypeOK
    <3> QED BY <3>1, <3>2
  <2> HIDE DEF g, st
  <2>4. l \in LinksOf(Requests, Tokens) /\ l.stream = <<>> /\ l.requests = <<>>
    BY <2>2, NoLinkIs DEF LinksOf
  <2>5. Bears(l)
    BY <2>4 DEF Bears
  <2> HIDE DEF l
  <2>6. Turned(1) /\ link'[1] = l
    BY <1>1, <2>1, TurnsTo
  <2> QED BY <1>1, <1>3, <2>3, <2>4, <2>5, <2>6, LinkStep
<1> QED BY <1>4, <1>5

LEMMA DisconnectKeepsBase ==
  ASSUME RpcBase, NEW c \in Links, recv_cb_end(c)
  PROVE  RpcBase'
<1> DEFINE l == [link[c] EXCEPT !.st = "idle"]
<1>1. link[c] \in LinksOf(Requests, Tokens) /\ Bears(link[c]) /\ (client \in Chains /\ link[c].st # "idle" => c = 1)
  BY LinkTurns
<1>2. UNCHANGED Books /\ UNCHANGED <<up, dead>> /\ link[c].st = "ended" /\ link[c].stream = <<>> /\ did_disconnect(0)
  BY DEF recv_cb_end, Books, bookVars, chainVars, readVars
<1>3. TurnedTo(c, l)
  BY DEF recv_cb_end, TurnedTo
<1>4. Rested
  <2>1. timer' \in Nat \ {0} /\ interval' \in Nat \ {0} /\ is_abci_active' \in BOOLEAN
    BY <1>2, DisconnectRests DEF RpcBase
  <2> QED BY <1>2, <2>1 DEF Rested, RpcBase, RpcTypeOK
<1>5. l \in LinksOf(Requests, Tokens)
  BY <1>1 DEF LinksOf, LinkStates
<1>6. Bears(l)
  BY <1>1, <1>2 DEF Bears, LinksOf
<1>7. client \in Chains /\ c # 1 => FALSE
  BY <1>1, <1>2
<1> HIDE DEF l
<1>8. Turned(c) /\ link'[c] = l
  BY <1>3, TurnsTo
<1> QED BY <1>2, <1>4, <1>5, <1>6, <1>7, <1>8, LinkStep

(* Queries are made one after the other, each on the next link.            *)
InTurn == client \in Queries => \E k \in 0 .. MaxQueries : Begun = 1 .. k

LEMMA TurnsCounted ==
  ASSUME InTurn, client \in Queries
  PROVE  Begun = 1 .. Cardinality(Begun)
<1>1. PICK k \in 0 .. MaxQueries : Begun = 1 .. k
  BY DEF InTurn
<1>2. k \in Nat
  BY RpcAssumption
<1>3. Cardinality(1 .. k) = k
  BY <1>2, FS_Interval
<1> QED BY <1>1, <1>3

LEMMA QueriesKeepBase ==
  ASSUME RpcBase, InTurn, query \/ stakes_timer
  PROVE  RpcBase'
<1> DEFINE q == Cardinality(Begun) + 1
           l == [link[q] EXCEPT !.st = "connecting"]
<1>1. q <= MaxQueries /\ link' = [link EXCEPT ![q].st = "connecting"] /\ client \in Queries
  <2>1. query_cb /\ client \in Queries
    BY DEF query, stakes_timer, Queries
  <2> QED BY <2>1 DEF query_cb
<1>2. IsFiniteSet(Links) /\ Begun \subseteq Links
  BY FS_Interval, RpcAssumption DEF Links, Begun
<1>3. Cardinality(Begun) \in Nat
  BY <1>2, FS_Subset, FS_CardinalityType
<1>4. q \in Links
  BY <1>1, <1>3, RpcAssumption DEF Links
<1>5. UNCHANGED Books /\ UNCHANGED <<timer, interval, is_abci_active, up, dead>> /\ client \notin Chains
  BY DEF query, stakes_timer, Books, bookVars, chainVars, readVars, Queries, Chains
<1>6. Rested
  BY <1>5, RestedSame DEF RpcBase, RpcTypeOK
<1>7. TurnedTo(q, l)
  BY <1>1 DEF TurnedTo
<1>8. link[q].st = "idle"
  <2>1. Begun = 1 .. Cardinality(Begun)
    BY <1>1, TurnsCounted
  <2> DEFINE n == Cardinality(Begun)
  <2>2. n \in Nat /\ Begun = 1 .. n
    BY <1>3, <2>1
  <2> HIDE DEF n
  <2>3. n + 1 \notin Begun
    BY <2>2
  <2>4. \A x \in Links : x \notin Begun => link[x].st = "idle"
    BY DEF Begun
  <2> QED BY <1>4, <2>3, <2>4 DEF n
<1> HIDE DEF q
<1>9. link[q] \in LinksOf(Requests, Tokens) /\ Bears(link[q])
  BY <1>4, LinkTurns
<1>10. l \in LinksOf(Requests, Tokens) /\ Bears(l)
  BY <1>8, <1>9 DEF LinksOf, Bears, LinkStates
<1> HIDE DEF l
<1>11. Turned(q) /\ link'[q] = l
  BY <1>4, <1>7, TurnsTo
<1> QED BY <1>4, <1>5, <1>6, <1>10, <1>11, LinkStep

LEMMA OthersKeepBase ==
  ASSUME RpcBase, NEW p, PeerLeaves(p)
  PROVE  RpcBase'
<1>1. 1 \in Links
  BY RpcAssumption DEF Links
<1>2. link[1] \in LinksOf(Requests, Tokens) /\ Bears(link[1])
  BY <1>1, LinkTurns
<1>3. link' = link /\ UNCHANGED Books /\ UNCHANGED <<timer, interval, is_abci_active, dead>> /\ up' \subseteq up
  BY DEF PeerLeaves, dns_cb, Books, bookVars, chainVars, readVars
<1>4. TurnedTo(1, link[1])
  BY <1>1, <1>3 DEF TurnedTo, RpcBase, RpcTypeOK
<1>5. Turned(1) /\ link'[1] = link[1]
  BY <1>1, <1>4, TurnsTo
<1>6. Rested
  BY <1>3 DEF RpcBase, RpcTypeOK, Rested
<1> QED BY <1>1, <1>2, <1>3, <1>5, <1>6, LinkStep

(* What a read of n bytes comes to.                                        *)
Chunk(c, n) == SubSeq(link[c].stream, 1, n)
ReadOf(c, n) == ReadBy(Reading(link[c].f), Chunk(c, n))
(* The answers that end in it, what it may garble, and the accepted blocks.*)
WholeOf(c, n) == {t.of : t \in {Chunk(c, n)[k] : k \in {k \in 1 .. n : Chunk(c, n)[k].last}}}
BadOf(c, n) ==
  CASE client = "eth" /\ ~Document(Chunk(c, n)).valid -> {Chunk(c, n)[k].of : k \in 1 .. n}
    [] client = "cosmos" /\ \E k \in 1 .. n : Chunk(c, n)[k].last /\ ~Chunk(c, n)[k].ok -> Ids
    [] OTHER -> {}
TakenOf(c, n) ==
  {b \in block_store : b.id \in WholeOf(c, n) /\ b.from \in up /\
     \A k \in 1 .. n : Chunk(c, n)[k].of = b.id => Chunk(c, n)[k].ok}
Read(c, n) ==
  /\ ~dead /\ link[c].st \in {"open", "ended"}
  /\ TurnedTo(c, Closed([link[c] EXCEPT !.f = ReadOf(c, n).f,
                                        !.stream = SubSeq(link[c].stream, n + 1, Len(link[c].stream))],
                        ReadOf(c, n).closes))
  /\ dead' = Kills(ReadOf(c, n).closes)
  /\ parser' = ReadOf(c, n).parser /\ partial' = ReadOf(c, n).partial /\ block_store' = ReadOf(c, n).store
  /\ parsed' = parsed \cup ReadOf(c, n).documents
  /\ did_analyze_block(ReadOf(c, n).reports)
  /\ answered' = answered \cup WholeOf(c, n) /\ garbled' = garbled \cup BadOf(c, n)
  /\ due' = due \cup {[m |-> b.m, from |-> b.from, id |-> b.id] : b \in TakenOf(c, n)}
  /\ UNCHANGED <<client, id, message_id_set, chainVars, up, dst>>

LEMMA ReadsChunk ==
  ASSUME RpcBase, NEW c \in Links, recv_cb(c)
  PROVE  \E n \in 1 .. Len(link[c].stream) : Read(c, n)
<1>1. PICK n \in 1 .. Len(link[c].stream) :
        LET bytes == SubSeq(link[c].stream, 1, n)
            rest == SubSeq(link[c].stream, n + 1, Len(link[c].stream))
            r == ReadBy(Reading(link[c].f), bytes)
            whole == {t.of : t \in {bytes[k] : k \in {k \in 1 .. n : bytes[k].last}}}
            bad == CASE client = "eth" /\ ~Document(bytes).valid -> {bytes[k].of : k \in 1 .. n}
                     [] client = "cosmos" /\ \E k \in 1 .. n : bytes[k].last /\ ~bytes[k].ok -> Ids
                     [] OTHER -> {}
            accepted == {b \in block_store : b.id \in whole /\ b.from \in up /\
                           \A k \in 1 .. n : bytes[k].of = b.id => bytes[k].ok}
        IN /\ ~dead /\ link[c].st \in {"open", "ended"}
           /\ link' = [link EXCEPT ![c] =
                         Closed([@ EXCEPT !.f = r.f, !.stream = rest], r.closes)]
           /\ dead' = Kills(r.closes)
           /\ parser' = r.parser /\ partial' = r.partial /\ block_store' = r.store
           /\ parsed' = parsed \cup r.documents
           /\ did_analyze_block(r.reports)
           /\ answered' = answered \cup whole
           /\ garbled' = garbled \cup bad
           /\ due' = due \cup {[m |-> b.m, from |-> b.from, id |-> b.id] : b \in accepted}
           /\ UNCHANGED <<client, id, message_id_set, chainVars, up, dst>>
  BY DEF recv_cb
<1> DEFINE x == ReadOf(c, n)
           V == Chunk(c, n)
           W == WholeOf(c, n)
           B == BadOf(c, n)
           A == TakenOf(c, n)
<1>2. x = ReadBy(Reading(link[c].f), SubSeq(link[c].stream, 1, n)) /\ V = SubSeq(link[c].stream, 1, n)
  BY DEF ReadOf, Chunk
<1>3. W = {t.of : t \in {V[k] : k \in {k \in 1 .. n : V[k].last}}}
  BY DEF WholeOf
<1>4. B = CASE client = "eth" /\ ~Document(V).valid -> {V[k].of : k \in 1 .. n}
            [] client = "cosmos" /\ \E k \in 1 .. n : V[k].last /\ ~V[k].ok -> Ids
            [] OTHER -> {}
  BY DEF BadOf
<1>5. A = {b \in block_store : b.id \in W /\ b.from \in up /\ \A k \in 1 .. n : V[k].of = b.id => V[k].ok}
  BY DEF TakenOf
<1> HIDE DEF x, W, B, A, V
<1>6. /\ ~dead /\ link[c].st \in {"open", "ended"}
      /\ link' = [link EXCEPT ![c] =
                    Closed([@ EXCEPT !.f = x.f, !.stream = SubSeq(link[c].stream, n + 1, Len(link[c].stream))],
                           x.closes)]
      /\ dead' = Kills(x.closes)
      /\ parser' = x.parser /\ partial' = x.partial /\ block_store' = x.store
      /\ parsed' = parsed \cup x.documents
      /\ did_analyze_block(x.reports)
      /\ UNCHANGED <<client, id, message_id_set, chainVars, up, dst>>
  BY <1>1, <1>2
<1>7. answered' = answered \cup W /\ garbled' = garbled \cup B
      /\ due' = due \cup {[m |-> b.m, from |-> b.from, id |-> b.id] : b \in A}
  <2>1. answered' = answered \cup W
    BY <1>1, <1>2, <1>3
  <2>2. garbled' = garbled \cup B
    BY <1>1, <1>2, <1>4
  <2>3. due' = due \cup {[m |-> b.m, from |-> b.from, id |-> b.id] : b \in A}
    BY ONLY <1>1, <1>2, <1>3, <1>5, SMTT(30)
  <2> QED BY <2>1, <2>2, <2>3
<1>8. TurnedTo(c, Closed([link[c] EXCEPT !.f = x.f, !.stream = SubSeq(link[c].stream, n + 1, Len(link[c].stream))], x.closes))
  BY <1>6 DEF TurnedTo
<1>9. Read(c, n)
  BY <1>6, <1>7, <1>8 DEF Read, x, W, B, A, V
<1> QED BY <1>9

LEMMA ChunkIs ==
  ASSUME RpcBase, NEW c \in Links, NEW n \in 1 .. Len(link[c].stream)
  PROVE  /\ Chunk(c, n) \in Seq(Tokens) /\ Len(Chunk(c, n)) = n
         /\ \A k \in 1 .. n : Chunk(c, n)[k] = link[c].stream[k]
         /\ ReadOf(c, n) \in Readings /\ (client # "cosmos" => Honest(ReadOf(c, n)))
         /\ Reading(link[c].f) \in Readings
<1>1. link[c].stream \in Seq(Tokens) /\ link[c].f \in Framings(Tokens)
  BY LinkTurns
<1>2. Chunk(c, n) \in Seq(Tokens) /\ Len(Chunk(c, n)) = n /\ \A k \in 1 .. n : Chunk(c, n)[k] = link[c].stream[k]
  BY <1>1 DEF Chunk
<1>3. Reading(link[c].f) \in Readings /\ Honest(Reading(link[c].f))
  BY <1>1 DEF Reading, Readings, Honest, RpcBase, RpcTypeOK
<1> QED BY <1>2, <1>3, ReadByKeeps DEF ReadOf

LEMMA ReadKeepsBase ==
  ASSUME RpcBase, NEW c \in Links, NEW n \in 1 .. Len(link[c].stream), Read(c, n)
  PROVE  RpcBase'
<1> DEFINE r == ReadOf(c, n)
           s == SubSeq(link[c].stream, n + 1, Len(link[c].stream))
           l == [link[c] EXCEPT !.f = r.f, !.stream = s]
           k == Closed(l, r.closes)
<1>1. link[c] \in LinksOf(Requests, Tokens) /\ Bears(link[c]) /\ link[c].stream \in Seq(Tokens)
      /\ (client \in Chains /\ link[c].st # "idle" => c = 1)
  BY LinkTurns
<1>2. r \in Readings
  BY ChunkIs
<1>3. s \in Seq(Tokens)
  <2>1. n \in 0 .. Len(link[c].stream)
    BY <1>1
  <2> QED BY <1>1, <2>1, PrefixOf
<1>4. TurnedTo(c, k) /\ dead' = Kills(r.closes) /\ parser' = r.parser /\ partial' = r.partial /\ block_store' = r.store
      /\ did_analyze_block(r.reports) /\ UNCHANGED <<client, id, message_id_set, chainVars, up, dst>>
      /\ link[c].st \in {"open", "ended"}
  BY DEF Read
<1>5. l \in LinksOf(Requests, Tokens) /\ Bears(l)
  <2> HIDE DEF r, s
  <2>1. l \in LinksOf(Requests, Tokens) /\ l.st = link[c].st /\ l.requests = link[c].requests
    BY <1>1, <1>2, <1>3 DEF LinksOf, Readings
  <2> HIDE DEF l
  <2> QED BY <1>1, <1>4, <2>1 DEF Bears
<1> HIDE DEF l, s
<1>6. k \in LinksOf(Requests, Tokens) /\ Bears(k)
  BY <1>5, ClosedIs
<1> HIDE DEF k, r
<1>7. Turned(c) /\ link'[c] = k
  BY <1>4, TurnsTo
<1>8. r.store \subseteq block_store /\ r.reports \subseteq block_store /\ r.parser \in Parsers /\ r.partial \in Digits
  BY <1>2 DEF Readings
<1>9. Rested
  <2>1. dead' \in BOOLEAN
    BY <1>4, Zenon DEF Kills
  <2> QED BY <1>4, <2>1, RestedSame DEF chainVars
<1>10. client' = client /\ id' = id /\ id \in Nat /\ block_store \subseteq Stored
  BY <1>4 DEF RpcBase, RpcTypeOK
<1>11. Requests \subseteq Requests' /\ Tokens \subseteq Tokens' /\ Digits \subseteq Digits'
  BY <1>4, <1>8, <1>10, BooksGrow DEF RpcBase
<1>12. Booked
  <2>1. client \notin Chains => block_store' = {} /\ relayed' = {}
    BY <1>4, <1>8 DEF RpcBase, OnlyChains, did_analyze_block
  <2> QED BY <1>4, <1>8, <1>10, <1>11, <2>1 DEF Booked
<1>13. k \in LinksOf(Requests', Tokens')
  BY <1>6, <1>11, LinksGrow
<1>14. client \in Chains /\ c # 1 => FALSE
  BY <1>1, <1>4
<1> QED BY <1>6, <1>7, <1>9, <1>12, <1>13, <1>14, BookStep

(* A block that comes is relayed, asked about, or neither.                 *)
LEMMA MessageKinds ==
  ASSUME NEW m \in Blocks, NEW from \in Externals \cup Internals, did_recv_MESSAGE(m, from)
  PROVE  /\ client' = client /\ client \in Chains /\ UNCHANGED <<chainVars, readVars, up, dst>>
         /\ m \notin message_id_set /\ message_id_set' = message_id_set \cup {m}
         /\ \/ UNCHANGED <<link, id, block_store, dead>> /\ (relayed' = relayed
                 \/ (from \notin Externals /\ relayed' = relayed \cup {[m |-> m, from |-> from]}))
            \/ /\ analyze_block(m, from) /\ dead' = (link[1].st = "closing") /\ from \in Externals
               /\ relayed' = relayed
<1>1. /\ client' = client /\ client \in Chains /\ UNCHANGED <<chainVars, readVars, up, dst>>
      /\ m \notin message_id_set /\ message_id_set' = message_id_set \cup {m}
  BY DEF did_recv_MESSAGE
<1>2. CASE from \in Internals
  <2>1. UNCHANGED <<link, id, block_store, dead>> /\ from \notin Externals
        /\ relayed' = relayed \cup {[m |-> m, from |-> from]}
    BY <1>2, RpcAssumption DEF did_recv_MESSAGE
  <2> QED BY <1>1, <2>1
<1>3. CASE from \in Externals /\ is_abci_active
  <2>1. analyze_block(m, from) /\ dead' = (link[1].st = "closing") /\ relayed' = relayed
    BY <1>3, RpcAssumption DEF did_recv_MESSAGE
  <2> QED BY <1>1, <1>3, <2>1
<1>4. CASE from \notin Internals /\ ~(from \in Externals /\ is_abci_active)
  <2>1. UNCHANGED <<link, id, block_store, dead>> /\ relayed' = relayed
    BY <1>4 DEF did_recv_MESSAGE
  <2> QED BY <1>1, <2>1
<1> QED BY <1>2, <1>3, <1>4

Block(m, from) == [id |-> id, m |-> m, from |-> from]
Request(m) == [id |-> id, ok |-> m \notin Spam]

LEMMA BlockAsked ==
  ASSUME RpcBase, NEW m \in Blocks, NEW from \in Externals, client' = client, client \in Chains, UNCHANGED readVars,
         relayed' = relayed, analyze_block(m, from)
  PROVE  /\ id' = id + 1 /\ id \in Nat /\ block_store' = block_store \cup {Block(m, from)}
         /\ Sent(Request(m)) \/ UNCHANGED link
         /\ Booked /\ Requests \subseteq Requests' /\ Tokens \subseteq Tokens' /\ Request(m) \in Requests'
<1> DEFINE request == Request(m)
           block == Block(m, from)
<1>1. id \in Nat
  BY DEF RpcBase, RpcTypeOK
<1>2. id' = id + 1 /\ block_store' = block_store \cup {block} /\ (Sent(request) \/ UNCHANGED link)
  BY DEF analyze_block, send, Block, Request
<1>3. block \in Stored /\ block.id = id /\ block.m = m
  BY <1>1 DEF Stored, Block
<1> HIDE DEF block
<1>4. Booked
  BY <1>1, <1>2, <1>3 DEF Booked, RpcBase, RpcTypeOK, OnlyChains, readVars
<1>5. Requests \subseteq Requests' /\ Tokens \subseteq Tokens'
  BY <1>4, BooksGrow DEF Booked, RpcBase
<1>6. request \in Requests'
  <2>1. ASSUME NEW b \in block_store', b.id = id
        PROVE  b.m = m
    <3>1. CASE b \in block_store
      BY <2>1, <3>1, <1>1 DEF RpcBase, RpcTypeOK
    <3>2. CASE b = block
      BY <3>2, <1>3
    <3> QED BY <1>2, <2>1, <3>1, <3>2
  <2>2. request \in [id : Nat, ok : BOOLEAN] /\ request.id = id /\ request.ok = (m \notin Spam)
    BY <1>1 DEF Request
  <2> HIDE DEF request
  <2>3. \A b \in block_store' : b.id = request.id => request.ok = (b.m \notin Spam)
    BY <2>1, <2>2
  <2>4. id < id'
    BY <1>1, <1>2
  <2> QED BY <2>2, <2>3, <2>4 DEF Requests, Truth
<1> QED BY <1>1, <1>2, <1>4, <1>5, <1>6 DEF block

LEMMA MessageKeepsBase ==
  ASSUME RpcBase, NEW m \in Blocks, NEW from \in Externals \cup Internals, did_recv_MESSAGE(m, from)
  PROVE  RpcBase'
<1>1. 1 \in Links
  BY RpcAssumption DEF Links
<1>2. link[1] \in LinksOf(Requests, Tokens) /\ Bears(link[1]) /\ link[1].requests \in Seq(Requests)
      /\ link \in [Links -> LinksOf(Requests, Tokens)] /\ id \in Nat
  BY <1>1, LinkTurns DEF RpcBase, RpcTypeOK
<1>3. client' = client /\ client \in Chains /\ UNCHANGED <<chainVars, readVars, up, dst>>
  BY MessageKinds
<1>4. CASE UNCHANGED <<link, id, block_store, dead>>
  <2>1. TurnedTo(1, link[1])
    BY <1>2, <1>4 DEF TurnedTo
  <2>2. Turned(1) /\ link'[1] = link[1]
    BY <1>1, <2>1, TurnsTo
  <2>3. Rested
    BY <1>3, <1>4, RestedSame DEF chainVars, RpcBase, RpcTypeOK
  <2>4. Booked
    BY <1>3, <1>4 DEF Booked, RpcBase, RpcTypeOK, readVars
  <2>5. Requests \subseteq Requests' /\ Tokens \subseteq Tokens'
    BY <2>4, BooksGrow DEF Booked, RpcBase
  <2>6. link[1] \in LinksOf(Requests', Tokens')
    BY <1>2, <2>5, LinksGrow
  <2> QED BY <1>1, <1>2, <2>2, <2>3, <2>4, <2>6, BookStep
<1>5. CASE analyze_block(m, from) /\ dead' = (link[1].st = "closing") /\ from \in Externals /\ relayed' = relayed
  <2> DEFINE request == Request(m)
             q == IF link[1].st = "open" THEN Append(link[1].requests, request) ELSE link[1].requests
             l == [link[1] EXCEPT !.requests = q]
  <2>1. /\ Sent(request) \/ UNCHANGED link
        /\ Booked /\ Requests \subseteq Requests' /\ Tokens \subseteq Tokens' /\ request \in Requests'
    BY <1>3, <1>5, BlockAsked
  <2>2. Rested
    <3>1. dead' \in BOOLEAN
      BY <1>5
    <3> QED BY <1>3, <3>1, RestedSame DEF chainVars
  <2>7. link[1] \in LinksOf(Requests', Tokens')
    BY <1>2, <2>1, LinksGrow
  <2>8. CASE UNCHANGED link
    <3>1. TurnedTo(1, link[1])
      BY <1>2, <2>8 DEF TurnedTo
    <3>2. Turned(1) /\ link'[1] = link[1]
      BY <1>1, <3>1, TurnsTo
    <3> QED BY <1>1, <1>2, <2>1, <2>2, <2>7, <3>2, BookStep
  <2>9. CASE Sent(request)
    <3> HIDE DEF request
    <3>1. TurnedTo(1, l)
      BY <1>1, <1>2, <2>9 DEF Sent, TurnedTo
    <3>2. l \in LinksOf(Requests', Tokens') /\ Bears(l)
      <4>1. link[1].requests \in Seq(Requests')
        BY <2>7 DEF LinksOf
      <4>2. q \in Seq(Requests') /\ (link[1].st # "open" => q = <<>>)
        BY <1>2, <2>1, <4>1 DEF Bears
      <4> HIDE DEF q
      <4>3. l \in LinksOf(Requests', Tokens') /\ l.st = link[1].st /\ l.stream = link[1].stream /\ l.requests = q
        BY <2>7, <4>2 DEF LinksOf
      <4> HIDE DEF l
      <4> QED BY <1>2, <4>2, <4>3 DEF Bears
    <3> HIDE DEF l
    <3>3. Turned(1) /\ link'[1] = l
      BY <1>1, <3>1, TurnsTo
    <3> QED BY <1>1, <2>1, <2>2, <3>2, <3>3, BookStep
  <2> QED BY <2>1, <2>8, <2>9
<1> QED BY <1>4, <1>5, MessageKinds

-----------------------------------------------------------------------------
(* One attempt at a time, and one query after the other                    *)

(* A step on a link that was begun and is not given back.                  *)
Busy(c) ==
  /\ Turned(c) /\ link[c].st # "idle" /\ link'[c].st # "idle"
  /\ client' = client /\ timer' = timer /\ (dead => dead')

LEMMA BusyIs ==
  ASSUME RpcBase, NEW c \in Links,
         \/ Answers(c) \/ AnswersUnsized(c) \/ Ends(c) \/ did_close(c) \/ recv_cb(c)
         \/ fiber_recv_cb_end(c) \/ recv_cb_error(c) \/ dial_cb(c, TRUE) \/ dial_cb(c, FALSE)
  PROVE  Busy(c)
<1>1. link[c] \in LinksOf(Requests, Tokens) /\ Bears(link[c]) /\ DOMAIN link = Links
  BY LinkTurns DEF RpcBase, RpcTypeOK
<1>2. CASE Answers(c) \/ AnswersUnsized(c)
  <2>1. \E answer : Writes(c, answer)
    BY <1>2 DEF Answers, AnswersUnsized
  <2>2. Turned(c) /\ link[c].st = "open" /\ link'[c].st = "open"
    BY <1>1, <2>1 DEF Writes, Turned, LinksOf
  <2> QED BY <1>2, <2>2 DEF Answers, AnswersUnsized, Busy, chainVars, readVars
<1>3. CASE Ends(c)
  <2>1. PICK n \in {0, Len(link[c].stream)} :
          /\ link[c].st = "open"
          /\ link' = [link EXCEPT ![c].st = "ended", ![c].requests = <<>>, ![c].stream = SubSeq(@, 1, n)]
    BY <1>3 DEF Ends
  <2>2. Turned(c) /\ link'[c].st = "ended"
    BY <1>1, <2>1 DEF Turned, LinksOf
  <2> QED BY <1>3, <2>1, <2>2 DEF Ends, Busy, chainVars, readVars
<1>4. CASE did_close(c)
  <2>1. TurnedTo(c, [NoLink EXCEPT !.st = "closed"])
    BY <1>4 DEF did_close, TurnedTo
  <2>2. [NoLink EXCEPT !.st = "closed"].st = "closed"
    BY DEF NoLink
  <2>3. Turned(c) /\ link'[c].st = "closed"
    BY <2>1, <2>2, TurnsTo
  <2> QED BY <1>4, <2>3 DEF did_close, Busy, chainVars, readVars
<1>5. ASSUME TurnedTo(c, Closed(link[c], 1))
      PROVE  Turned(c) /\ link'[c].st = "closing"
  <2>1. Closed(link[c], 1).st = "closing"
    BY <1>1, ClosedIs
  <2> QED BY <1>5, <2>1, TurnsTo
<1>6. CASE fiber_recv_cb_end(c) \/ recv_cb_error(c) \/ dial_cb(c, FALSE)
  <2>1. TurnedTo(c, Closed(link[c], 1))
    BY <1>6 DEF fiber_recv_cb_end, recv_cb_error, dial_cb, TurnedTo
  <2>2. Turned(c) /\ link'[c].st = "closing"
    BY <1>5, <2>1
  <2> QED BY <1>6, <2>2 DEF fiber_recv_cb_end, recv_cb_error, dial_cb, Busy, chainVars, readVars
<1>7. CASE dial_cb(c, TRUE)
  <2>1. TurnedTo(c, did_dial(link[c], c))
    BY <1>7 DEF dial_cb, TurnedTo
  <2>2. did_dial(link[c], c).st = "open"
    BY <1>1 DEF did_dial, LinksOf
  <2>3. Turned(c) /\ link'[c].st = "open"
    BY <2>1, <2>2, TurnsTo
  <2> QED BY <1>7, <2>3 DEF dial_cb, Busy, chainVars, readVars
<1>8. CASE recv_cb(c)
  <2>1. PICK n \in 1 .. Len(link[c].stream) : Read(c, n)
    BY <1>8, ReadsChunk
  <2> DEFINE r == ReadOf(c, n)
             s == SubSeq(link[c].stream, n + 1, Len(link[c].stream))
             l == [link[c] EXCEPT !.f = r.f, !.stream = s]
             k == Closed(l, r.closes)
  <2>2. TurnedTo(c, k) /\ link[c].st \in {"open", "ended"} /\ ~dead /\ client' = client /\ timer' = timer
    BY <2>1 DEF Read, chainVars
  <2>3. l.st = link[c].st /\ DOMAIN l = {"st", "requests", "stream", "f"}
    BY <1>1 DEF LinksOf
  <2> HIDE DEF l
  <2>4. k.st \in {"open", "ended", "closing"}
    BY <2>2, <2>3 DEF Closed
  <2> HIDE DEF k
  <2>5. Turned(c) /\ link'[c] = k
    BY <2>2, TurnsTo
  <2> QED BY <2>2, <2>4, <2>5 DEF Busy
<1> QED BY <1>2, <1>3, <1>4, <1>6, <1>7, <1>8

LEMMA TurnedElse ==
  ASSUME RpcBase, NEW c \in Links, Turned(c)
  PROVE  \A x \in Links : x # c => link'[x] = link[x]
BY DEF Turned, RpcBase, RpcTypeOK

LEMMA BusyKeeps ==
  ASSUME RpcBase, OneAttempt, InTurn, NEW c \in Links, Busy(c)
  PROVE  OneAttempt' /\ InTurn'
<1>1. 1 \in Links /\ \A x \in Links : x # c => link'[x] = link[x]
  BY TurnedElse, RpcAssumption DEF Links, Busy
<1>2. \A x \in Links : link'[x].st = "idle" <=> link[x].st = "idle"
  BY <1>1 DEF Busy
<1>3. Begun' = Begun
  BY <1>2 DEF Begun
<1> QED BY <1>1, <1>2, <1>3 DEF OneAttempt, InTurn, Busy

LEMMA ConnectsKeepTurns ==
  ASSUME RpcBase, OneAttempt, InTurn, NEW c \in Links, NEW ok \in BOOLEAN,
         connect_timer_cb \/ connect_cb(ok) \/ recv_cb_end(c)
  PROVE  OneAttempt' /\ InTurn'
<1>1. 1 \in Links /\ DOMAIN link = Links /\ link[1] \in LinksOf(Requests, Tokens) /\ timer \in Nat
      /\ link[c] \in LinksOf(Requests, Tokens) /\ (client \in Chains /\ link[c].st # "idle" => c = 1)
  BY RpcAssumption, LinkTurns DEF Links, RpcBase, RpcTypeOK
<1>2. client \in Chains /\ client' = client
  BY DEF connect_timer_cb, connect_cb, recv_cb_end
<1>3. CASE connect_timer_cb
  <2>1. timer' = 0 /\ link'[1].st = "connecting"
    BY <1>1, <1>3 DEF connect_timer_cb, connect, LinksOf
  <2> QED BY <1>2, <2>1 DEF OneAttempt, InTurn, Chains, Queries
<1>4. CASE connect_cb(ok)
  <2>1. link'[1].st = (IF ok THEN "open" ELSE "idle") /\ link[1].st = "connecting" /\ ~dead
    BY <1>1, <1>4 DEF connect_cb, NoLink
  <2>2. ok => timer' = timer
    BY <1>4 DEF connect_cb, did_connect
  <2>3. ~ok => timer' # 0
    <3>1. ~ok => did_disconnect(1)
      BY <1>4 DEF connect_cb
    <3> QED BY <3>1, DisconnectRests DEF RpcBase
  <2> QED BY <1>2, <2>1, <2>2, <2>3 DEF OneAttempt, InTurn, Chains, Queries
<1>5. CASE recv_cb_end(c)
  <2>1. c = 1 /\ did_disconnect(0)
    BY <1>1, <1>5 DEF recv_cb_end
  <2>2. timer' # 0
    BY <2>1, DisconnectRests DEF RpcBase
  <2>3. link'[1].st = "idle"
    BY <1>1, <1>5, <2>1 DEF recv_cb_end, LinksOf
  <2> QED BY <1>2, <2>2, <2>3 DEF OneAttempt, InTurn, Chains, Queries
<1> QED BY <1>3, <1>4, <1>5

LEMMA OthersKeepTurns ==
  ASSUME RpcBase, OneAttempt, InTurn, UNCHANGED <<client, timer>>, dead => dead',
         \A x \in Links : link'[x].st = "idle" <=> link[x].st = "idle"
  PROVE  OneAttempt' /\ InTurn'
<1>1. 1 \in Links
  BY RpcAssumption DEF Links
<1>2. Begun' = Begun
  BY DEF Begun
<1> QED BY <1>1, <1>2 DEF OneAttempt, InTurn

LEMMA QueriesKeepTurns ==
  ASSUME RpcBase, OneAttempt, InTurn, query \/ stakes_timer
  PROVE  OneAttempt' /\ InTurn'
<1> DEFINE n == Cardinality(Begun)
<1>1. client' = client /\ client \in Queries /\ client \notin Chains
  BY DEF query, stakes_timer, Queries, Chains
<1>2. Begun = 1 .. n
  BY <1>1, TurnsCounted
<1>3. n + 1 <= MaxQueries /\ link' = [link EXCEPT ![n + 1].st = "connecting"]
  <2>1. query_cb
    BY DEF query, stakes_timer
  <2> QED BY <2>1 DEF query_cb
<1>4. n \in Nat
  <2>1. IsFiniteSet(Links) /\ Begun \subseteq Links
    BY FS_Interval, RpcAssumption DEF Links, Begun
  <2> QED BY <2>1, FS_Subset, FS_CardinalityType
<1> HIDE DEF n
<1>5. n + 1 \in Links /\ n + 1 \in 0 .. MaxQueries
  BY <1>3, <1>4, RpcAssumption DEF Links
<1>6. \A x \in Links : link'[x].st = IF x = n + 1 THEN "connecting" ELSE link[x].st
  BY <1>3, <1>5 DEF RpcBase, RpcTypeOK, LinksOf
<1>7. Begun' = Begun \cup {n + 1}
  BY <1>5, <1>6 DEF Begun
<1>8. Begun' = 1 .. (n + 1)
  BY <1>2, <1>4, <1>7
<1> QED BY <1>1, <1>5, <1>8 DEF OneAttempt, InTurn

LEMMA MessageTurns ==
  ASSUME RpcBase, NEW m, NEW from, did_recv_MESSAGE(m, from)
  PROVE  /\ UNCHANGED <<client, timer>> /\ (dead => dead')
         /\ \A x \in Links : link'[x].st = link[x].st
<1>1. UNCHANGED <<client, timer>> /\ ~dead
  BY DEF did_recv_MESSAGE, chainVars
<1>2. link \in [Links -> LinksOf(Requests, Tokens)]
  BY DEF RpcBase, RpcTypeOK
<1>3. link' = link \/ \E r : Sent(r)
  <2>1. CASE from \in Internals
    BY <2>1, RpcAssumption DEF did_recv_MESSAGE
  <2>2. CASE from \in Externals /\ is_abci_active
    BY <2>2, RpcAssumption DEF did_recv_MESSAGE, analyze_block, send
  <2>3. CASE from \notin Internals /\ ~(from \in Externals /\ is_abci_active)
    BY <2>3 DEF did_recv_MESSAGE
  <2> QED BY <2>1, <2>2, <2>3
<1>4. ASSUME NEW r, Sent(r), NEW x \in Links
      PROVE  link'[x].st = link[x].st
  <2> DEFINE q == IF link[1].st = "open" THEN Append(link[1].requests, r) ELSE link[1].requests
  <2>1. link' = [link EXCEPT ![1].requests = q]
    BY <1>4 DEF Sent
  <2> HIDE DEF q
  <2> QED BY <1>2, <2>1 DEF LinksOf
<1> QED BY <1>1, <1>3, <1>4

RpcKept == RpcBase /\ OneAttempt /\ InTurn

LEMMA RpcInitially ==
  ASSUME RpcInit
  PROVE  RpcKept
<1>1. client \in Chains \cup Queries \cup {"none"} /\ timer = 0 /\ interval = FirstInterval /\ id = 0 /\ block_store = {}
      /\ partial = <<>> /\ parser = [state |-> 0, length |-> 0] /\ is_abci_active = FALSE /\ dead = FALSE
      /\ up = Externals \cup Internals /\ relayed = {}
  BY RpcAssumption DEF RpcInit
<1>2. \A c \in Links : link[c] = IF client \in Chains /\ c = 1 THEN [NoLink EXCEPT !.st = "connecting"] ELSE NoLink
  BY DEF RpcInit
<1>3. NoLink \in LinksOf(Requests, Tokens) /\ NoLink.requests = <<>> /\ NoLink.stream = <<>> /\ NoLink.st = "idle"
  BY NoLinkIs DEF NoLink
<1> DEFINE first == [NoLink EXCEPT !.st = "connecting"]
<1>4. first \in LinksOf(Requests, Tokens) /\ first.requests = <<>> /\ first.stream = <<>> /\ first.st = "connecting"
  BY <1>3 DEF LinksOf, LinkStates
<1> HIDE DEF first
<1>5. \A c \in Links : link[c] = IF client \in Chains /\ c = 1 THEN first ELSE NoLink
  BY <1>2 DEF first
<1>6. \A c \in Links : link[c] \in LinksOf(Requests, Tokens) /\ link[c].requests = <<>> /\ link[c].stream = <<>>
                       /\ link[c].st = IF client \in Chains /\ c = 1 THEN "connecting" ELSE "idle"
  BY <1>3, <1>4, <1>5
<1>7. link \in [Links -> LinksOf(Requests, Tokens)]
  <2> DEFINE S == LinksOf(Requests, Tokens)
  <2>1. \A c \in Links : link[c] \in S
    BY <1>6
  <2>2. link = [c \in Links |-> link[c]]
    BY DEF RpcInit
  <2> HIDE DEF S
  <2>3. link \in [Links -> S]
    BY <2>1, <2>2
  <2> QED BY <2>3 DEF S
<1>8. RpcTypeOK
  <2>1. partial \in Digits
    <3> DEFINE none == <<>>
    <3>1. none \in Seq(Tokens) /\ Len(none) = 0
      OBVIOUS
    <3>2. partial = none
      BY <1>1
    <3> HIDE DEF none
    <3> QED BY <3>1, <3>2 DEF Digits
  <2>2. parser \in Parsers
    BY <1>1 DEF Parsers
  <2>3. timer \in Nat /\ interval \in Nat \ {0} /\ id \in Nat
    <3>1. FirstInterval \in Nat \ {0}
      BY RpcAssumption
    <3> QED BY <1>1, <3>1
  <2>5. is_abci_active \in BOOLEAN /\ dead \in BOOLEAN
    BY <1>1, Zenon
  <2>4. block_store \subseteq Stored /\ \A b \in block_store : b.id < id
    BY <1>1
  <2> QED BY <1>1, <1>7, <2>1, <2>2, <2>3, <2>4, <2>5 DEF RpcTypeOK
<1>9. OnlyOpen /\ OneLink /\ OnlyChains
  BY <1>1, <1>6 DEF OnlyOpen, OneLink, OnlyChains
<1>10. 1 \in Links
  BY RpcAssumption DEF Links
<1>11. OneAttempt
  BY <1>1, <1>6, <1>10 DEF OneAttempt
<1>12. InTurn
  <2>1. client \in Queries => Begun = {}
    BY <1>6 DEF Begun, Queries, Chains
  <2>2. 0 \in 0 .. MaxQueries /\ {} = 1 .. 0
    BY RpcAssumption
  <2> QED BY <2>1, <2>2 DEF InTurn
<1> QED BY <1>8, <1>9, <1>11, <1>12 DEF RpcKept, RpcBase

(* The steps of RpcNext by name, each with its own arguments.              *)
LEMMA RpcStepKinds ==
  ASSUME RpcNext
  PROVE  \/ \E c \in Links : \/ Answers(c) \/ AnswersUnsized(c) \/ Ends(c) \/ did_close(c) \/ recv_cb(c)
                             \/ fiber_recv_cb_end(c) \/ recv_cb_error(c) \/ dial_cb(c, TRUE) \/ dial_cb(c, FALSE)
         \/ \E c \in Links : recv_cb_end(c)
         \/ connect_timer_cb \/ connect_cb(TRUE) \/ connect_cb(FALSE)
         \/ \E m \in Blocks, p \in Externals \cup Internals : did_recv_MESSAGE(m, p)
         \/ \E p \in Externals \cup Internals : PeerLeaves(p)
         \/ query \/ stakes_timer \/ dns_cb
BY DEF RpcNext

LEMMA RpcKeptStep ==
  ASSUME RpcKept, RpcNext \/ UNCHANGED rpcVars
  PROVE  RpcKept'
<1>1. RpcBase /\ OneAttempt /\ InTurn
  BY DEF RpcKept
<1>2. ASSUME NEW c \in Links, Answers(c) \/ AnswersUnsized(c) \/ Ends(c) \/ did_close(c) \/ recv_cb(c)
         \/ fiber_recv_cb_end(c) \/ recv_cb_error(c) \/ dial_cb(c, TRUE) \/ dial_cb(c, FALSE)
      PROVE RpcKept'
  <2>1. OneAttempt' /\ InTurn'
    BY <1>1, <1>2, BusyIs, BusyKeeps
  <2>2. CASE Answers(c) \/ AnswersUnsized(c)
    BY <1>1, <2>2, AnswersKeepBase, <2>1 DEF RpcKept
  <2>3. CASE Ends(c)
    BY <1>1, <2>3, EndsKeepsBase, <2>1 DEF RpcKept
  <2>4. CASE did_close(c) \/ fiber_recv_cb_end(c) \/ recv_cb_error(c)
    BY <1>1, <2>4, ClosingKeepsBase, <2>1 DEF RpcKept
  <2>5. CASE dial_cb(c, TRUE) \/ dial_cb(c, FALSE)
    BY <1>1, <2>5, DialsKeepBase, <2>1 DEF RpcKept
  <2>6. CASE recv_cb(c)
    BY <1>1, <2>6, ReadsChunk, ReadKeepsBase, <2>1 DEF RpcKept
  <2> QED BY <1>2, <2>2, <2>3, <2>4, <2>5, <2>6
<1>3. ASSUME NEW c \in Links, NEW ok \in BOOLEAN, connect_timer_cb \/ connect_cb(ok) \/ recv_cb_end(c)
      PROVE RpcKept'
  BY <1>1, <1>3, ConnectsKeepBase, DisconnectKeepsBase, ConnectsKeepTurns DEF RpcKept
<1>4. ASSUME NEW m \in Blocks, NEW p \in Externals \cup Internals, did_recv_MESSAGE(m, p)
      PROVE RpcKept'
  BY <1>1, <1>4, MessageKeepsBase, MessageTurns, OthersKeepTurns DEF RpcKept
<1>5. ASSUME NEW p \in Externals \cup Internals, PeerLeaves(p)
      PROVE RpcKept'
  <2>1. UNCHANGED <<client, timer, dead, link>>
    BY <1>5 DEF PeerLeaves, chainVars
  <2> QED BY <1>1, <1>5, <2>1, OthersKeepBase, OthersKeepTurns DEF RpcKept
<1>6. CASE dns_cb
  <2>1. UNCHANGED <<client, timer, dead, link, id, block_store, parser, partial, relayed, interval, is_abci_active, up>>
    BY <1>6 DEF dns_cb, chainVars, bookVars, readVars
  <2>2. 1 \in Links
    BY RpcAssumption DEF Links
  <2>3. TurnedTo(1, link[1])
    BY <2>1, <2>2 DEF TurnedTo, RpcKept, RpcBase, RpcTypeOK
  <2>4. Turned(1) /\ link'[1] = link[1]
    BY <1>1, <2>2, <2>3, TurnsTo
  <2>5. Rested
    BY <1>1, <2>1, RestedSame DEF RpcBase, RpcTypeOK
  <2>6. link[1] \in LinksOf(Requests, Tokens) /\ Bears(link[1])
    BY <1>1, <2>2, LinkTurns
  <2>7. RpcBase'
    BY <1>1, <2>1, <2>2, <2>4, <2>5, <2>6, LinkStep DEF Books
  <2> QED BY <1>1, <2>1, <2>7, OthersKeepTurns DEF RpcKept
<1>7. CASE query \/ stakes_timer
  BY <1>1, <1>7, QueriesKeepBase, QueriesKeepTurns DEF RpcKept
<1>8. CASE UNCHANGED rpcVars
  BY <1>8 DEF RpcKept, RpcBase, RpcTypeOK, OnlyOpen, OneLink, OnlyChains, OneAttempt, InTurn, Begun,
     rpcVars, bookVars, chainVars, readVars, Requests, Tokens, Digits, Truth
<1>9. 1 \in Links
  BY RpcAssumption DEF Links
<1> QED BY <1>2, <1>3, <1>4, <1>5, <1>6, <1>7, <1>8, <1>9, RpcStepKinds

(* The timer runs exactly while nothing is connected or being connected: a *)
(* connection is never made over another, and the adapter always goes on   *)
(* trying (did_disconnect, connect_timer_cb and connect_cb of the Abcis).  *)
THEOREM OneAttemptAlways == RpcSpec => []OneAttempt
<1>1. RpcInit => RpcKept
  BY RpcInitially
<1>2. RpcKept /\ [RpcNext]_rpcVars => RpcKept'
  BY RpcKeptStep
<1>3. RpcKept => OneAttempt
  BY DEF RpcKept
<1> QED BY <1>1, <1>2, <1>3, PTL DEF RpcSpec

-----------------------------------------------------------------------------
(* The tokens of an answer                                                 *)

AnswerSize == IF client = "cosmos" THEN 3 ELSE 6

LEMMA IsSequence ==
  ASSUME NEW n \in Nat, NEW f, f = [k \in 1 .. n |-> f[k]]
  PROVE  f \in Seq({f[k] : k \in 1 .. n}) /\ Len(f) = n
<1> DEFINE S == {f[k] : k \in 1 .. n}
<1>1. \A k \in 1 .. n : f[k] \in S
  OBVIOUS
<1> HIDE DEF S
<1>2. f \in [1 .. n -> S]
  BY <1>1
<1>3. f \in Seq(S) /\ Len(f) = n
  BY <1>2, SeqFrom
<1> QED BY <1>3 DEF S

LEMMA Joins ==
  ASSUME NEW S, NEW T, NEW s \in Seq(S), NEW t \in Seq(T)
  PROVE  /\ Len(s \o t) = Len(s) + Len(t)
         /\ \A k \in 1 .. Len(s) : (s \o t)[k] = s[k]
         /\ \A k \in 1 .. Len(t) : (s \o t)[Len(s) + k] = t[k]
<1>1. s \in Seq(S \cup T) /\ t \in Seq(S \cup T)
  <2>1. Seq(S) \subseteq Seq(S \cup T) /\ Seq(T) \subseteq Seq(S \cup T)
    BY SeqsGrow
  <2> QED BY <2>1
<1>2. Len(s) \in Nat /\ Len(t) \in Nat
  OBVIOUS
<1> DEFINE R == S \cup T
<1> HIDE DEF R
<1>3. /\ Len(s \o t) = Len(s) + Len(t)
      /\ \A k \in 1 .. Len(s) + Len(t) : (s \o t)[k] = IF k <= Len(s) THEN s[k] ELSE t[k - Len(s)]
  BY <1>1, ConcatProperties DEF R
<1> DEFINE u == s \o t
           a == Len(s)
           b == Len(t)
<1>4. a \in Nat /\ b \in Nat /\ \A k \in 1 .. a + b : u[k] = IF k <= a THEN s[k] ELSE t[k - a]
  BY <1>2, <1>3
<1> HIDE DEF u, a, b
<1>5. (\A k \in 1 .. a : u[k] = s[k]) /\ (\A k \in 1 .. b : u[a + k] = t[k])
  BY <1>4
<1> QED BY <1>3, <1>5 DEF u, a, b

LEMMA HttpAnswer ==
  ASSUME client \notin {"eth", "cosmos"}, NEW i \in Nat, NEW ok \in BOOLEAN
  PROVE  /\ Len(Answer(i, ok)) = 6
         /\ Answer(i, ok)[1] = Token("length", i, 0, TRUE, FALSE) /\ Answer(i, ok)[2] = Token("\n", i, 0, TRUE, FALSE)
         /\ Answer(i, ok)[3] = Token("\r", i, 0, TRUE, FALSE) /\ Answer(i, ok)[4] = Token("\n", i, 0, TRUE, FALSE)
         /\ Answer(i, ok)[5] = Body(i, ok)[1] /\ Answer(i, ok)[6] = Body(i, ok)[2]
<1> DEFINE names == <<"length", "\n", "\r", "\n">>
           h == Header(i, names)
           b == Body(i, ok)
<1>1. Answer(i, ok) = h \o b
  BY DEF Answer
<1>2. h = [n \in 1 .. 4 |-> h[n]] /\ h[1] = Token("length", i, 0, TRUE, FALSE) /\ h[2] = Token("\n", i, 0, TRUE, FALSE)
      /\ h[3] = Token("\r", i, 0, TRUE, FALSE) /\ h[4] = Token("\n", i, 0, TRUE, FALSE)
  <2>1. DOMAIN names = 1 .. 4 /\ names[1] = "length" /\ names[2] = "\n" /\ names[3] = "\r" /\ names[4] = "\n"
    OBVIOUS
  <2> HIDE DEF names
  <2>2. h = [n \in 1 .. 4 |-> Token(names[n], i, 0, TRUE, FALSE)]
    BY <2>1 DEF Header
  <2> HIDE DEF h
  <2>3. h = [n \in 1 .. 4 |-> h[n]]
    BY <2>2
  <2>4. h[1] = Token(names[1], i, 0, TRUE, FALSE) /\ h[2] = Token(names[2], i, 0, TRUE, FALSE)
        /\ h[3] = Token(names[3], i, 0, TRUE, FALSE) /\ h[4] = Token(names[4], i, 0, TRUE, FALSE)
    BY <2>2
  <2> QED BY <2>1, <2>3, <2>4
<1>3. b = [n \in 1 .. 2 |-> b[n]]
  BY DEF Body, BodyLength
<1> HIDE DEF h, b
<1>4. h \in Seq({h[k] : k \in 1 .. 4}) /\ Len(h) = 4
  BY <1>2, IsSequence
<1>5. b \in Seq({b[k] : k \in 1 .. 2}) /\ Len(b) = 2
  BY <1>3, IsSequence
<1> DEFINE H == {h[k] : k \in 1 .. 4}
           B == {b[k] : k \in 1 .. 2}
<1>6. h \in Seq(H) /\ b \in Seq(B)
  BY <1>4, <1>5
<1> HIDE DEF H, B
<1>7. Len(h \o b) = Len(h) + Len(b) /\ (\A k \in 1 .. Len(h) : (h \o b)[k] = h[k])
      /\ (\A k \in 1 .. Len(b) : (h \o b)[Len(h) + k] = b[k])
  BY <1>6, Joins
<1> DEFINE u == h \o b
<1>8. Len(u) = 6 /\ (\A k \in 1 .. 4 : u[k] = h[k]) /\ (\A k \in 1 .. 2 : u[4 + k] = b[k])
  BY <1>4, <1>5, <1>7
<1> HIDE DEF u
<1>9. u[1] = h[1] /\ u[2] = h[2] /\ u[3] = h[3] /\ u[4] = h[4] /\ u[5] = b[1] /\ u[6] = b[2]
  BY <1>8
<1> QED BY <1>1, <1>2, <1>8, <1>9 DEF u, b

LEMMA BodyIs ==
  ASSUME NEW i, NEW ok
  PROVE  /\ Body(i, ok) = [n \in 1 .. 2 |-> Body(i, ok)[n]]
         /\ Body(i, ok)[1] = Token("body", i, 1, ok, FALSE) /\ Body(i, ok)[2] = Token("body", i, 2, ok, TRUE)
<1>1. Body(i, ok) = [n \in 1 .. 2 |-> Token("body", i, n, ok, n = 2)]
  BY DEF Body, BodyLength
<1>2. (1 = 2) = FALSE /\ (2 = 2) = TRUE
  OBVIOUS
<1>3. Body(i, ok)[1] = Token("body", i, 1, ok, 1 = 2) /\ Body(i, ok)[2] = Token("body", i, 2, ok, 2 = 2)
  BY <1>1
<1> QED BY <1>1, <1>2, <1>3

LEMMA CosmosAnswer ==
  ASSUME client = "cosmos", NEW i, NEW ok
  PROVE  /\ Len(Answer(i, ok)) = 3
         /\ Answer(i, ok)[1] = Token("byte", i, i \div Base, ok, FALSE)
         /\ Answer(i, ok)[2] = Token("byte", i, i % Base, ok, FALSE)
         /\ Answer(i, ok)[3] = Token("byte", i, IF ok THEN 1 ELSE 0, ok, TRUE)
BY DEF Answer

LEMMA AnswerIs ==
  ASSUME client # "eth", NEW i \in Nat, NEW ok \in BOOLEAN
  PROVE  /\ Len(Answer(i, ok)) = AnswerSize
         /\ \A k \in 1 .. AnswerSize :
              Answer(i, ok)[k].of = i /\ (Answer(i, ok)[k].last <=> k = AnswerSize)
         /\ Answer(i, ok)[AnswerSize].ok = ok
<1> DEFINE a == Answer(i, ok)
<1>1. CASE client = "cosmos"
  <2>1. Len(a) = 3 /\ AnswerSize = 3
    BY <1>1, CosmosAnswer DEF AnswerSize
  <2>4. a[1] = Token("byte", i, i \div Base, ok, FALSE) /\ a[2] = Token("byte", i, i % Base, ok, FALSE)
        /\ a[3] = Token("byte", i, IF ok THEN 1 ELSE 0, ok, TRUE)
    BY <1>1, CosmosAnswer
  <2> HIDE DEF a
  <2>2. a[1].of = i /\ a[2].of = i /\ a[3].of = i /\ a[1].last = FALSE /\ a[2].last = FALSE /\ a[3].last = TRUE /\ a[3].ok = ok
    BY <2>4 DEF Token
  <2>3. \A k \in 1 .. 3 : a[k].of = i /\ (a[k].last <=> k = 3)
    <3>1. \A k \in 1 .. 3 : k = 1 \/ k = 2 \/ k = 3
      OBVIOUS
    <3> QED BY <2>2, <3>1
  <2> QED BY <2>1, <2>2, <2>3 DEF a
<1>2. CASE client # "cosmos"
  <2>1. Len(a) = 6 /\ AnswerSize = 6
    BY <1>2, HttpAnswer DEF AnswerSize
  <2>5. a[1] = Token("length", i, 0, TRUE, FALSE) /\ a[2] = Token("\n", i, 0, TRUE, FALSE)
        /\ a[3] = Token("\r", i, 0, TRUE, FALSE) /\ a[4] = Token("\n", i, 0, TRUE, FALSE)
        /\ a[5] = Body(i, ok)[1] /\ a[6] = Body(i, ok)[2]
    BY <1>2, HttpAnswer
  <2> HIDE DEF a
  <2>2. a[1].of = i /\ a[2].of = i /\ a[3].of = i /\ a[4].of = i /\ a[1].last = FALSE /\ a[2].last = FALSE
        /\ a[3].last = FALSE /\ a[4].last = FALSE
    BY <2>5 DEF Token
  <2>3. a[5].of = i /\ a[6].of = i /\ a[5].last = FALSE /\ a[6].last = TRUE /\ a[6].ok = ok
    <3> DEFINE b == Body(i, ok)
    <3>2. b[1] = Token("body", i, 1, ok, FALSE) /\ b[2] = Token("body", i, 2, ok, TRUE)
      BY BodyIs
    <3>3. a[5] = b[1] /\ a[6] = b[2]
      BY <2>5
    <3> HIDE DEF b
    <3> QED BY <3>2, <3>3 DEF Token
  <2>4. \A k \in 1 .. 6 : a[k].of = i /\ (a[k].last <=> k = 6)
    <3>1. \A k \in 1 .. 6 : k = 1 \/ k = 2 \/ k = 3 \/ k = 4 \/ k = 5 \/ k = 6
      OBVIOUS
    <3> QED BY <2>2, <2>3, <3>1
  <2> QED BY <2>1, <2>3, <2>4 DEF a
<1> QED BY <1>1, <1>2

-----------------------------------------------------------------------------
(* The answers in a stream: those to the first m of the requests q, one    *)
(* after the other, of which the first begins after o: not after the start *)
(* of the stream when some of it was read before.                          *)

Place(o, j, k) == o + (AnswerSize * (j - 1) + k)
Lies(U, o, q, m) ==
  /\ m \in 0 .. Len(q) /\ o \in Int /\ Len(U) = o + AnswerSize * m
  /\ \A j \in 1 .. m, k \in 1 .. AnswerSize :
       Place(o, j, k) >= 1 => U[Place(o, j, k)] = Answer(q[j].id, q[j].ok)[k]

LEMMA SizeIs == AnswerSize \in {3, 6}
BY DEF AnswerSize

LEMMA LiesAppend ==
  ASSUME client # "eth", NEW U \in Seq(Tokens), NEW o, NEW q \in Seq(Requests), NEW m, Lies(U, o, q, m), m < Len(q),
         Answer(q[m + 1].id, q[m + 1].ok) \in Seq(Tokens)
  PROVE  Lies(U \o Answer(q[m + 1].id, q[m + 1].ok), o, q, m + 1)
<1> DEFINE n == AnswerSize
           r == q[m + 1]
           a == Answer(r.id, r.ok)
           V == U \o a
<1>1. n = 3 \/ n = 6
  BY SizeIs
<1>2. m \in Nat /\ m < Len(q) /\ Len(q) \in Nat /\ o \in Int /\ Len(U) = o + n * m /\ Len(U) \in Nat
  BY DEF Lies
<1>3. r \in Requests /\ r.id \in Nat /\ r.ok \in BOOLEAN
  BY <1>2 DEF Requests
<1> HIDE DEF r
<1>4. Len(a) = n /\ a \in Seq(Tokens)
  BY <1>3, AnswerIs DEF n, r
<1>5. Len(V) = Len(U) + n /\ (\A k \in 1 .. Len(U) : V[k] = U[k]) /\ (\A k \in 1 .. n : V[Len(U) + k] = a[k])
  <2> HIDE DEF a
  <2> DEFINE T == Tokens
  <2>2. U \in Seq(T) /\ a \in Seq(T)
    BY <1>4
  <2> HIDE DEF T
  <2>1. Len(U \o a) = Len(U) + Len(a) /\ (\A k \in 1 .. Len(U) : (U \o a)[k] = U[k])
        /\ (\A k \in 1 .. Len(a) : (U \o a)[Len(U) + k] = a[k])
    BY <2>2, Joins
  <2> QED BY <1>4, <2>1
<1> HIDE DEF n, V, a
<1>6. Len(V) = o + n * (m + 1) /\ m + 1 \in 0 .. Len(q)
  <2>1. CASE n = 3
    BY <1>2, <1>5, <2>1
  <2>2. CASE n = 6
    BY <1>2, <1>5, <2>2
  <2> QED BY <1>1, <2>1, <2>2
<1>7. ASSUME NEW j \in 1 .. m + 1, NEW k \in 1 .. n, Place(o, j, k) >= 1
      PROVE  V[Place(o, j, k)] = Answer(q[j].id, q[j].ok)[k]
  <2>1. CASE j = m + 1
    <3>1. Place(o, j, k) = Len(U) + k
      <4>1. CASE n = 3
        BY <1>2, <2>1, <4>1 DEF Place, n
      <4>2. CASE n = 6
        BY <1>2, <2>1, <4>2 DEF Place, n
      <4> QED BY <1>1, <4>1, <4>2
    <3> QED BY <1>5, <2>1, <3>1 DEF a, r
  <2>2. CASE j # m + 1
    <3>1. j \in 1 .. m
      BY <1>2, <2>2
    <3>2. Place(o, j, k) <= Len(U) /\ Place(o, j, k) \in Int
      <4>1. CASE n = 3
        BY <1>2, <3>1, <4>1 DEF Place, n
      <4>2. CASE n = 6
        BY <1>2, <3>1, <4>2 DEF Place, n
      <4> QED BY <1>1, <4>1, <4>2
    <3>3. Place(o, j, k) \in 1 .. Len(U)
      BY <1>2, <1>7, <3>2
    <3>4. V[Place(o, j, k)] = U[Place(o, j, k)]
      BY <1>5, <3>3
    <3>5. U[Place(o, j, k)] = Answer(q[j].id, q[j].ok)[k]
      BY <1>7, <3>1 DEF Lies, n
    <3> QED BY <3>4, <3>5
  <2> QED BY <2>1, <2>2
<1> QED BY <1>2, <1>6, <1>7 DEF Lies, n, V, a, r

(* Reading n tokens of it.                                                 *)
LEMMA LiesAfter ==
  ASSUME NEW U \in Seq(Tokens), NEW o, NEW q, NEW m, Lies(U, o, q, m), NEW n \in 0 .. Len(U)
  PROVE  Lies(SubSeq(U, n + 1, Len(U)), o - n, q, m)
<1> DEFINE V == SubSeq(U, n + 1, Len(U))
           z == AnswerSize
<1>1. Len(U) \in Nat /\ n \in Nat /\ n <= Len(U)
  OBVIOUS
<1>2. Len(V) = Len(U) - n /\ \A k \in 1 .. Len(U) - n : V[k] = U[n + k]
  BY <1>1
<1>3. z = 3 \/ z = 6
  BY SizeIs
<1>4. m \in Nat /\ o \in Int /\ Len(U) = o + z * m /\ m \in 0 .. Len(q)
  BY DEF Lies
<1> HIDE DEF V, z
<1>5. Len(V) = (o - n) + z * m /\ o - n \in Int
  <2>1. CASE z = 3
    BY <1>1, <1>2, <1>4, <2>1
  <2>2. CASE z = 6
    BY <1>1, <1>2, <1>4, <2>2
  <2> QED BY <1>3, <2>1, <2>2
<1>6. ASSUME NEW j \in 1 .. m, NEW k \in 1 .. z, Place(o - n, j, k) >= 1
      PROVE  V[Place(o - n, j, k)] = Answer(q[j].id, q[j].ok)[k]
  <2>1. Place(o, j, k) = n + Place(o - n, j, k) /\ Place(o, j, k) <= Len(U) /\ Place(o - n, j, k) \in Int
    <3>1. CASE z = 3
      BY <1>1, <1>4, <3>1 DEF Place, z
    <3>2. CASE z = 6
      BY <1>1, <1>4, <3>2 DEF Place, z
    <3> QED BY <1>3, <3>1, <3>2
  <2> DEFINE x == Place(o - n, j, k)
             y == Place(o, j, k)
  <2>2. x \in Int /\ x >= 1 /\ y = n + x /\ y <= Len(U)
    BY <1>6, <2>1
  <2> HIDE DEF x, y
  <2>3. x \in 1 .. Len(U) - n /\ y >= 1
    BY <1>1, <2>2
  <2>4. V[x] = U[y]
    BY <1>2, <2>2, <2>3
  <2>5. U[y] = Answer(q[j].id, q[j].ok)[k]
    BY <2>3 DEF Lies, z, y
  <2> QED BY <2>4, <2>5 DEF x
<1> QED BY <1>4, <1>5, <1>6 DEF Lies, V, z

(* Every token of the stream is of one of the answers.                     *)
LEMMA LiesCovers ==
  ASSUME NEW U \in Seq(Tokens), NEW o, NEW q, NEW m, Lies(U, o, q, m), o <= 0, NEW x \in 1 .. Len(U)
  PROVE  \E j \in 1 .. m, k \in 1 .. AnswerSize :
           x = Place(o, j, k) /\ U[x] = Answer(q[j].id, q[j].ok)[k] /\ (j = 1 <=> x <= o + AnswerSize)
<1> DEFINE z == AnswerSize
           j == ((x - o) - 1) \div z + 1
           k == (((x - o) - 1) % z) + 1
<1>1. z = 3 \/ z = 6
  BY SizeIs
<1>2. m \in Nat /\ o \in Int /\ Len(U) = o + z * m /\ Len(U) \in Nat /\ x \in Nat /\ x >= 1 /\ x <= Len(U)
  BY DEF Lies
<1>3. j \in 1 .. m /\ k \in 1 .. z /\ x = o + (z * (j - 1) + k) /\ (j = 1 <=> x <= o + z)
  <2> HIDE DEF z
  <2>1. CASE z = 3
    BY <1>2, <2>1
  <2>2. CASE z = 6
    BY <1>2, <2>2
  <2> QED BY <1>1, <2>1, <2>2
<1> HIDE DEF j, k
<1>4. x = Place(o, j, k) /\ x >= 1
  BY <1>2, <1>3 DEF Place
<1>5. U[x] = Answer(q[j].id, q[j].ok)[k]
  BY <1>3, <1>4 DEF Lies
<1> QED BY <1>3, <1>4, <1>5

-----------------------------------------------------------------------------
(* Reading an answer in frames                                             *)

(* What a client holds after p tokens of the answer to a: those of the     *)
(* line, or the body, it is in, which begins after Begins(p).              *)
Begins(p) == IF p < 2 THEN 0 ELSE IF p < 4 THEN 2 ELSE 4
HttpPhase(r, p, a) ==
  /\ r.parser.state = IF p < 4 THEN 0 ELSE 1
  /\ r.f.framing = IF p < 4 THEN "lines" ELSE "sized"
  /\ p \in {2, 3} => r.parser.length = BodyLength
  /\ p < 4 => r.f.room = LineLimit - (p - Begins(p))
  /\ p >= 4 => r.f.left = 6 - p
  /\ Len(r.f.buf) = p - Begins(p)
  /\ \A k \in 1 .. p - Begins(p) : r.f.buf[k] = Answer(a.id, a.ok)[Begins(p) + k]

SameBooks(r, x) ==
  r.store = x.store /\ r.reports = x.reports /\ r.documents = x.documents /\ r.closes = x.closes
Advanced(s, t, c, p, a) ==
  /\ c \in 1 .. Len(s.rest) /\ p + c <= 6 /\ t.rest = SubSeq(s.rest, c + 1, Len(s.rest))
  /\ p + c < 6 => HttpPhase(t.r, p + c, a) /\ SameBooks(t.r, s.r)
  /\ p + c = 6 => t.r = Handed([s.r EXCEPT !.f = Sized], Body(a.id, a.ok)) /\ s.r.parser.state = 1

LEMMA WholeLine ==
  ASSUME NEW f, NEW rest \in Seq(Tokens), NEW e \in 1 .. Len(rest), rest[e].k = "\n",
         \A n \in 1 .. e - 1 : rest[n].k # "\n", f.room \in Nat, e <= f.room
  PROVE  NextLine(f, rest) = Frame(TRUE, Lines, f.buf \o SubSeq(rest, 1, e), SubSeq(rest, e + 1, Len(rest)))
<1> DEFINE ends == {n \in DOMAIN rest : rest[n].k = "\n"}
           size == IF ends = {} THEN Len(rest) ELSE Min(ends)
           text == SubSeq(rest, 1, size)
<1>1. ends \in SUBSET Nat /\ e \in ends /\ \A n \in ends : n >= e
  OBVIOUS
<1>2. NextLine(f, rest) =
        CASE ~HasRoom(f, text) -> Frame(FALSE, f, <<>>, <<>>)
          [] HasRoom(f, text) /\ ends = {} -> Frame(FALSE, Buffered(f, text), <<>>, <<>>)
          [] OTHER -> Frame(TRUE, Lines, f.buf \o text, SubSeq(rest, size + 1, Len(rest)))
  BY DEF NextLine
<1> HIDE DEF ends
<1>3. ends # {}
  BY <1>1
<1>4. Min(ends) \in ends /\ \A y \in ends : Min(ends) <= y
  BY <1>1, <1>3, LeastIs
<1>5. Min(ends) = e
  <2> DEFINE x == Min(ends)
  <2>1. x \in Nat /\ x >= e /\ x <= e
    BY <1>1, <1>4
  <2> HIDE DEF x
  <2>2. x = e
    BY <2>1
  <2> QED BY <2>2 DEF x
<1>6. size = e
  BY <1>3, <1>5
<1> HIDE DEF size
<1>7. Len(SubSeq(rest, 1, e)) = e
  OBVIOUS
<1>8. HasRoom(f, text)
  BY <1>6, <1>7 DEF HasRoom
<1> QED BY <1>2, <1>3, <1>6, <1>8

LEMMA PartOfLine ==
  ASSUME NEW f, NEW rest \in Seq(Tokens), \A n \in 1 .. Len(rest) : rest[n].k # "\n", f.room \in Nat,
         Len(rest) <= f.room
  PROVE  NextLine(f, rest) = Frame(FALSE, Buffered(f, SubSeq(rest, 1, Len(rest))), <<>>, <<>>)
<1> DEFINE ends == {n \in DOMAIN rest : rest[n].k = "\n"}
           size == IF ends = {} THEN Len(rest) ELSE Min(ends)
           text == SubSeq(rest, 1, size)
<1>1. ends = {}
  OBVIOUS
<1>2. NextLine(f, rest) =
        CASE ~HasRoom(f, text) -> Frame(FALSE, f, <<>>, <<>>)
          [] HasRoom(f, text) /\ ends = {} -> Frame(FALSE, Buffered(f, text), <<>>, <<>>)
          [] OTHER -> Frame(TRUE, Lines, f.buf \o text, SubSeq(rest, size + 1, Len(rest)))
  BY DEF NextLine
<1> HIDE DEF ends
<1>3. size = Len(rest)
  BY <1>1
<1> HIDE DEF size
<1>4. Len(SubSeq(rest, 1, Len(rest))) = Len(rest)
  OBVIOUS
<1>5. HasRoom(f, text)
  BY <1>3, <1>4 DEF HasRoom
<1> QED BY <1>1, <1>2, <1>3, <1>5

(* What is buffered and what comes next make up the tokens from g on.      *)
LEMMA Grown ==
  ASSUME NEW b \in Seq(Tokens), NEW rest \in Seq(Tokens), NEW c \in 1 .. Len(rest), NEW g \in Nat, NEW ans,
         \A k \in 1 .. Len(b) : b[k] = ans[g + k],
         \A k \in 1 .. c : rest[k] = ans[(g + Len(b)) + k]
  PROVE  /\ b \o SubSeq(rest, 1, c) \in Seq(Tokens) /\ Len(b \o SubSeq(rest, 1, c)) = Len(b) + c
         /\ \A k \in 1 .. Len(b) + c : (b \o SubSeq(rest, 1, c))[k] = ans[g + k]
<1> DEFINE T == Tokens
           s == SubSeq(rest, 1, c)
           n == Len(b)
           u == b \o s
<1>1. s \in Seq(T) /\ Len(s) = c /\ b \in Seq(T) /\ c \in Nat /\ n \in Nat /\ \A k \in 1 .. c : s[k] = rest[k]
  <2>1. c \in Nat /\ n \in Nat
    OBVIOUS
  <2>2. s \in Seq(Tokens) /\ Len(s) = c /\ \A k \in 1 .. c : s[k] = rest[k]
    OBVIOUS
  <2> QED BY <2>1, <2>2
<1> HIDE DEF s, T
<1>2. u \in Seq(T) /\ Len(u) = Len(b) + Len(s)
      /\ \A k \in 1 .. Len(b) + Len(s) : u[k] = IF k <= Len(b) THEN b[k] ELSE s[k - Len(b)]
  BY <1>1, ConcatProperties
<1>3. (\A k \in 1 .. n : b[k] = ans[g + k]) /\ (\A k \in 1 .. c : s[k] = ans[(g + n) + k])
  BY <1>1
<1> HIDE DEF u, n
<1>4. Len(u) = n + c /\ \A k \in 1 .. n + c : u[k] = IF k <= n THEN b[k] ELSE s[k - n]
  BY <1>1, <1>2 DEF n
<1>5. \A k \in 1 .. n + c : u[k] = ans[g + k]
  <2>1. ASSUME NEW k \in 1 .. n + c PROVE u[k] = ans[g + k]
    <3>1. CASE k <= n
      BY <1>1, <1>3, <1>4, <3>1
    <3>2. CASE ~(k <= n)
      <4>1. k - n \in 1 .. c /\ (g + n) + (k - n) = g + k
        BY <1>1, <3>2
      <4> QED BY <1>3, <1>4, <3>2, <4>1
    <3> QED BY <3>1, <3>2
  <2> QED BY <2>1
<1> QED BY <1>2, <1>4, <1>5 DEF u, n, s, T

LEMMA HttpKinds ==
  ASSUME client \notin {"eth", "cosmos"}, NEW i \in Nat, NEW ok \in BOOLEAN
  PROVE  /\ Answer(i, ok)[1].k = "length" /\ Answer(i, ok)[2].k = "\n"
         /\ Answer(i, ok)[3].k = "\r" /\ Answer(i, ok)[4].k = "\n"
<1> DEFINE a == Answer(i, ok)
<1>1. a[1] = Token("length", i, 0, TRUE, FALSE) /\ a[2] = Token("\n", i, 0, TRUE, FALSE)
      /\ a[3] = Token("\r", i, 0, TRUE, FALSE) /\ a[4] = Token("\n", i, 0, TRUE, FALSE)
  BY HttpAnswer
<1> HIDE DEF a
<1>2. a[1].k = "length" /\ a[2].k = "\n" /\ a[3].k = "\r" /\ a[4].k = "\n"
  BY <1>1 DEF Token
<1> QED BY <1>2 DEF a

LEMMA NothingLeft ==
  ASSUME NEW T, NEW s \in Seq(T), NEW n \in Nat, n >= Len(s)
  PROVE  SubSeq(s, n + 1, Len(s)) = <<>>
<1> DEFINE u == SubSeq(s, n + 1, Len(s))
<1>1. u \in Seq(T) /\ Len(u) = 0
  OBVIOUS
<1> HIDE DEF u
<1>2. u = <<>>
  BY <1>1
<1> QED BY <1>2 DEF u

(* What comes next is the rest of the answer to a, of which p tokens were  *)
(* read, and perhaps more.                                                 *)
Follows(rest, p, a) ==
  \A k \in 1 .. Len(rest) : p + k <= AnswerSize => rest[k] = Answer(a.id, a.ok)[p + k]

LEMMA LineFrame ==
  ASSUME client \notin {"eth", "cosmos"}, NEW s, s.r \in Readings, s.rest \in Seq(Tokens), s.rest # <<>>,
         NEW a, a.id \in Nat, a.ok \in BOOLEAN, NEW p \in 0 .. 3, HttpPhase(s.r, p, a), Follows(s.rest, p, a)
  PROVE  LET e == (Begins(p) + 2) - p
         IN /\ e > Len(s.rest) => ReadFrame(s) = [r |-> [s.r EXCEPT !.f = Buffered(s.r.f, SubSeq(s.rest, 1, Len(s.rest)))],
                                                  rest |-> <<>>]
            /\ e <= Len(s.rest) =>
                 ReadFrame(s) = [r |-> Handed([s.r EXCEPT !.f = Lines], s.r.f.buf \o SubSeq(s.rest, 1, e)),
                                 rest |-> SubSeq(s.rest, e + 1, Len(s.rest))]
<1> DEFINE e == (Begins(p) + 2) - p
           f == s.r.f
           rest == s.rest
           ans == Answer(a.id, a.ok)
<1>1. AnswerSize = 6
  BY DEF AnswerSize
<1>2. ans[1].k = "length" /\ ans[2].k = "\n" /\ ans[3].k = "\r" /\ ans[4].k = "\n"
  BY HttpKinds
<1>3. f.framing = "lines" /\ f.room = LineLimit - (p - Begins(p)) /\ LineLimit \in Nat /\ LineLimit > 2
      /\ rest \in Seq(Tokens) /\ rest # <<>> /\ Len(rest) \in Nat /\ Len(rest) >= 1
  BY RpcAssumption DEF HttpPhase
<1>4. \A k \in 1 .. Len(rest) : p + k <= 6 => rest[k] = ans[p + k]
  BY <1>1 DEF Follows
<1> DEFINE t == NextLine(f, rest)
<1>5. ReadFrame(s) = [r |-> IF t.frame THEN Handed([s.r EXCEPT !.f = t.f], t.text) ELSE [s.r EXCEPT !.f = t.f], rest |-> t.rest]
  BY <1>3 DEF ReadFrame
<1> HIDE DEF t, ans, f, rest
<1>6. e \in 1 .. 2 /\ p + e \in {2, 4} /\ e <= f.room /\ f.room \in Nat
  <2>1. p = 0 \/ p = 1 \/ p = 2 \/ p = 3
    OBVIOUS
  <2> QED BY <1>3, <2>1 DEF Begins
<1> HIDE DEF e
<1>7. \A n \in 1 .. Len(rest) : n < e => rest[n].k # "\n"
  <2>1. ASSUME NEW n \in 1 .. Len(rest), n < e PROVE rest[n].k # "\n"
    <3>1. n = 1 /\ e = 2 /\ p + n \in {1, 3} /\ p + n <= 6
      BY <1>6, <2>1
    <3>2. rest[n] = ans[p + n]
      BY <1>4, <3>1
    <3> QED BY <1>2, <3>1, <3>2
  <2> QED BY <2>1
<1>8. CASE e > Len(rest)
  <2>1. \A n \in 1 .. Len(rest) : rest[n].k # "\n"
    BY <1>3, <1>6, <1>7, <1>8
  <2>2. Len(rest) <= f.room
    BY <1>3, <1>6, <1>8
  <2>3. t = Frame(FALSE, Buffered(f, SubSeq(rest, 1, Len(rest))), <<>>, <<>>)
    BY <1>3, <1>6, <2>1, <2>2, PartOfLine DEF t
  <2> DEFINE g == Buffered(f, SubSeq(rest, 1, Len(rest)))
  <2> HIDE DEF g
  <2>4. t = Frame(FALSE, g, <<>>, <<>>)
    BY <2>3 DEF g
  <2>5. t.frame = FALSE /\ t.f = g /\ t.rest = <<>>
    BY <2>4 DEF Frame
  <2>6. ReadFrame(s) = [r |-> [s.r EXCEPT !.f = g], rest |-> <<>>]
    BY <1>5, <2>5
  <2>7. ~(e <= Len(rest))
    BY <1>3, <1>6, <1>8
  <2> QED BY <2>6, <2>7 DEF g, f, rest, e
<1>9. CASE e <= Len(rest)
  <2>1. e \in 1 .. Len(rest) /\ p + e <= 6 /\ \A n \in 1 .. e - 1 : rest[n].k # "\n"
    BY <1>3, <1>6, <1>7, <1>9
  <2>2. rest[e].k = "\n"
    BY <1>2, <1>4, <1>6, <2>1
  <2>3. t = Frame(TRUE, Lines, f.buf \o SubSeq(rest, 1, e), SubSeq(rest, e + 1, Len(rest)))
    BY <1>3, <1>6, <2>1, <2>2, WholeLine DEF t
  <2>4. t.frame = TRUE /\ t.f = Lines /\ t.text = f.buf \o SubSeq(rest, 1, e) /\ t.rest = SubSeq(rest, e + 1, Len(rest))
    BY <2>3 DEF Frame
  <2>5. ReadFrame(s) = [r |-> Handed([s.r EXCEPT !.f = Lines], f.buf \o SubSeq(rest, 1, e)),
                        rest |-> SubSeq(rest, e + 1, Len(rest))]
    BY <1>5, <2>4
  <2>6. ~(e > Len(rest))
    BY <1>3, <1>6, <1>9
  <2> QED BY <2>5, <2>6 DEF f, rest, e
<1> QED
  <2>1. e > Len(rest) \/ e <= Len(rest)
    BY <1>3, <1>6
  <2> QED BY <1>8, <1>9, <2>1 DEF e, rest

LEMMA SizeLine ==
  ASSUME NEW r \in Readings, r.parser.state = 0, NEW line \in Seq(Tokens), Len(line) = 2, line[1].k = "length"
  PROVE  /\ Handed(r, line).parser.state = 0 /\ Handed(r, line).parser.length = BodyLength
         /\ Handed(r, line).f = reset(r.f, LineLimit) /\ SameBooks(Handed(r, line), r)
<1> DEFINE g == reset(r.f, LineLimit)
           z == [r EXCEPT !.parser.length = BodyLength, !.f = g]
<1>1. line # <<>> /\ line[1].k # "\r"
  <2>1. line # <<>>
    <3>1. Len(<<>>) = 0
      OBVIOUS
    <3>2. Len(line) # Len(<<>>)
      BY <3>1
    <3> QED BY <3>2
  <2>2. "length" # "\r"
    OBVIOUS
  <2> QED BY <2>1, <2>2
<1>2. Handed(r, line) = Headers(r, line)
  BY DEF Handed
<1>3. Headers(r, line) = [r EXCEPT !.parser.length = IF line # <<>> /\ line[1].k = "length" THEN BodyLength ELSE @,
                                   !.f = reset(@, LineLimit)]
  BY <1>1 DEF Headers
<1>4. Headers(r, line) = z
  BY <1>1, <1>3 DEF Readings
<1> HIDE DEF g
<1>5. z.parser.state = 0 /\ z.parser.length = BodyLength /\ z.f = g /\ z.store = r.store /\ z.reports = r.reports
      /\ z.documents = r.documents /\ z.closes = r.closes
  BY DEF Readings, Parsers
<1> HIDE DEF z
<1> QED BY <1>2, <1>4, <1>5 DEF SameBooks, g

LEMMA LastLine ==
  ASSUME NEW r \in Readings, r.parser.state = 0, r.parser.length = BodyLength,
         NEW line \in Seq(Tokens), Len(line) = 2, line[1].k = "\r"
  PROVE  /\ Handed(r, line).parser.state = 1
         /\ Handed(r, line).f = reset(Sized, BodyLength) /\ SameBooks(Handed(r, line), r)
<1> DEFINE g == reset(Sized, BodyLength)
           z == [r EXCEPT !.parser.state = 1, !.f = g]
<1>1. r.parser.length # 0
  BY DEF BodyLength
<1>2. Handed(r, line) = Headers(r, line)
  BY DEF Handed
<1>3. Headers(r, line) = [r EXCEPT !.parser.state = 1, !.f = reset(Sized, r.parser.length)]
  BY <1>1 DEF Headers
<1>4. Headers(r, line) = z
  BY <1>3
<1> HIDE DEF g
<1>5. z.parser.state = 1 /\ z.f = g /\ z.store = r.store /\ z.reports = r.reports
      /\ z.documents = r.documents /\ z.closes = r.closes
  BY DEF Readings, Parsers
<1> HIDE DEF z
<1> QED BY <1>2, <1>4, <1>5 DEF SameBooks, g

LEMMA LineStep ==
  ASSUME client \notin {"eth", "cosmos"}, NEW s, s.r \in Readings, s.rest \in Seq(Tokens), s.rest # <<>>,
         NEW a, a.id \in Nat, a.ok \in BOOLEAN, NEW p \in 0 .. 3, HttpPhase(s.r, p, a), Follows(s.rest, p, a)
  PROVE  \E c \in 1 .. Len(s.rest) : Advanced(s, ReadFrame(s), c, p, a)
<1> DEFINE g == Begins(p)
           e == (g + 2) - p
           f == s.r.f
           b == f.buf
           rest == s.rest
           ans == Answer(a.id, a.ok)
           t == ReadFrame(s)
<1>1. /\ e > Len(rest) => t = [r |-> [s.r EXCEPT !.f = Buffered(f, SubSeq(rest, 1, Len(rest)))], rest |-> <<>>]
      /\ e <= Len(rest) => t = [r |-> Handed([s.r EXCEPT !.f = Lines], b \o SubSeq(rest, 1, e)),
                                rest |-> SubSeq(rest, e + 1, Len(rest))]
  BY LineFrame
<1>2. f \in Framings(Tokens) /\ b \in Seq(Tokens) /\ rest \in Seq(Tokens) /\ Len(rest) \in Nat /\ Len(rest) >= 1 /\ s.r \in Readings
      /\ s.r.parser \in Parsers
  BY DEF Readings, Framings
<1>3. /\ s.r.parser.state = 0 /\ (p \in {2, 3} => s.r.parser.length = BodyLength) /\ f.framing = "lines"
      /\ f.room = LineLimit - (p - g) /\ Len(b) = p - g /\ \A k \in 1 .. p - g : b[k] = ans[g + k]
  BY DEF HttpPhase
<1>4. g \in {0, 2} /\ g <= p /\ e \in 1 .. 2 /\ p - g \in 0 .. 1 /\ (p < 2 <=> g = 0) /\ e = 2 - (p - g)
  <2>1. p = 0 \/ p = 1 \/ p = 2 \/ p = 3
    OBVIOUS
  <2> QED BY <2>1 DEF Begins
<1>5. \A k \in 1 .. Len(rest) : p + k <= 6 => rest[k] = ans[p + k]
  BY DEF Follows, AnswerSize
<1>6. ans[1].k = "length" /\ ans[3].k = "\r"
  BY HttpKinds
<1>7. LineLimit \in Nat /\ LineLimit > 2
  BY RpcAssumption
<1> HIDE DEF g, e, f, b, rest, ans, t
<1>8. CASE e > Len(rest)
  <2> DEFINE sub == SubSeq(rest, 1, Len(rest))
             v == b \o sub
             h == Buffered(f, sub)
  <2>1. Len(rest) = 1 /\ p = g /\ e = 2
    <3> DEFINE n == Len(rest)
    <3>1. n \in Nat /\ n >= 1 /\ e > n
      BY <1>2, <1>8
    <3> HIDE DEF n
    <3>2. n = 1 /\ e = 2
      BY <1>4, <3>1
    <3>3. p = g
      BY <1>4, <3>2
    <3> QED BY <3>2, <3>3 DEF n
  <2>2. v \in Seq(Tokens) /\ Len(v) = Len(b) + 1 /\ \A k \in 1 .. Len(b) + 1 : v[k] = ans[g + k]
    <3>1. g \in Nat /\ 1 \in 1 .. Len(rest) /\ \A k \in 1 .. Len(b) : b[k] = ans[g + k]
      BY <1>3, <1>4, <2>1
    <3>2. \A k \in 1 .. 1 : rest[k] = ans[(g + Len(b)) + k]
      <4>1. rest[1] = ans[p + 1] /\ (g + Len(b)) + 1 = p + 1
        BY <1>3, <1>4, <1>5, <2>1
      <4>2. \A k \in 1 .. 1 : k = 1
        OBVIOUS
      <4> QED BY <4>1, <4>2
    <3> DEFINE c == Len(rest)
               T == Tokens
    <3>3. c \in 1 .. Len(rest) /\ (\A k \in 1 .. c : rest[k] = ans[(g + Len(b)) + k]) /\ b \in Seq(T) /\ rest \in Seq(T)
      BY <1>2, <2>1, <3>1, <3>2
    <3> HIDE DEF c
    <3>4. b \o SubSeq(rest, 1, c) \in Seq(Tokens) /\ Len(b \o SubSeq(rest, 1, c)) = Len(b) + c
          /\ \A k \in 1 .. Len(b) + c : (b \o SubSeq(rest, 1, c))[k] = ans[g + k]
      BY <3>1, <3>3, Grown
    <3>5. c = 1
      BY <2>1 DEF c
    <3>6. v = b \o SubSeq(rest, 1, c)
      BY DEF c
    <3> HIDE DEF v
    <3> QED BY <3>4, <3>5, <3>6
  <2>3. h = [f EXCEPT !.buf = v, !.room = f.room - 1]
    <3>1. Len(sub) = 1
      BY <1>2, <2>1
    <3> HIDE DEF sub
    <3> QED BY <1>2, <3>1 DEF Buffered, Framings, b
  <2>4. t = [r |-> [s.r EXCEPT !.f = h], rest |-> <<>>]
    BY <1>1, <1>8
  <2> HIDE DEF v, h, sub
  <2> DEFINE room == f.room - 1
  <2>5. h.buf = v /\ h.room = room /\ h.framing = "lines"
    BY <1>2, <1>3, <2>3 DEF Framings
  <2>6. t.r.f = h /\ t.r.parser = s.r.parser /\ t.rest = <<>> /\ SameBooks(t.r, s.r)
    <3> DEFINE z == [s.r EXCEPT !.f = h]
    <3>1. z.f = h /\ z.parser = s.r.parser /\ z.store = s.r.store /\ z.reports = s.r.reports
          /\ z.documents = s.r.documents /\ z.closes = s.r.closes
      BY <1>2 DEF Readings
    <3>2. t.r = z /\ t.rest = <<>>
      BY <2>4
    <3> HIDE DEF z
    <3> QED BY <3>1, <3>2 DEF SameBooks
  <2>7. HttpPhase(t.r, p + 1, a)
    <3>1. p + 1 < 4 /\ Begins(p + 1) = g /\ (p + 1 \in {2, 3} => p \in {2, 3}) /\ (p + 1) - g = 1
          /\ room = LineLimit - 1
      BY <1>3, <1>4, <1>7, <2>1 DEF g, Begins
    <3>2. Len(v) = 1 /\ \A k \in 1 .. 1 : v[k] = ans[g + k]
      BY <1>3, <2>1, <2>2
    <3> DEFINE o == p + 1
    <3>3. o < 4 /\ Begins(o) = g /\ o - g = 1 /\ (o \in {2, 3} => p \in {2, 3})
      BY <3>1
    <3> HIDE DEF o
    <3> DEFINE x == t.r
    <3>5. x.parser = s.r.parser /\ x.f.buf = v /\ x.f.room = room /\ x.f.framing = "lines"
      BY <2>5, <2>6
    <3> HIDE DEF x, room
    <3>6. x.parser.state = 0 /\ (o \in {2, 3} => x.parser.length = BodyLength)
      BY <1>3, <3>3, <3>5
    <3>7. x.f.room = LineLimit - (o - Begins(o)) /\ Len(x.f.buf) = o - Begins(o)
          /\ \A k \in 1 .. o - Begins(o) : x.f.buf[k] = ans[Begins(o) + k]
      BY <3>1, <3>2, <3>3, <3>5
    <3>8. o \in Int /\ o < 4
      BY <3>3 DEF o
    <3>4. HttpPhase(t.r, o, a)
      BY <3>5, <3>6, <3>7, <3>8 DEF HttpPhase, ans, x
    <3> QED BY <3>4 DEF o
  <2>8. t.rest = SubSeq(rest, 1 + 1, Len(rest))
    BY <1>2, <2>1, <2>6, NothingLeft
  <2>9. Advanced(s, t, 1, p, a)
    BY <1>4, <2>1, <2>6, <2>7, <2>8 DEF Advanced, rest
  <2> QED BY <1>2, <2>1, <2>9 DEF rest, t
<1>9. CASE e <= Len(rest)
  <2> DEFINE line == b \o SubSeq(rest, 1, e)
             r == [s.r EXCEPT !.f = Lines]
             z == Handed(r, line)
  <2>1. line \in Seq(Tokens) /\ Len(line) = 2 /\ line[1] = ans[g + 1]
    <3>1. g \in Nat /\ e \in 1 .. Len(rest) /\ \A k \in 1 .. Len(b) : b[k] = ans[g + k]
      BY <1>2, <1>3, <1>4, <1>9
    <3>2. \A k \in 1 .. e : rest[k] = ans[(g + Len(b)) + k]
      <4>1. ASSUME NEW k \in 1 .. e PROVE rest[k] = ans[(g + Len(b)) + k]
        <5>1. k \in 1 .. Len(rest) /\ p + k <= 6 /\ (g + Len(b)) + k = p + k
          BY <1>2, <1>3, <1>4, <1>9
        <5> QED BY <1>5, <5>1
      <4> QED BY <4>1
    <3> HIDE DEF line
    <3>3. line \in Seq(Tokens) /\ Len(line) = Len(b) + e /\ \A k \in 1 .. Len(b) + e : line[k] = ans[g + k]
      BY <1>2, <3>1, <3>2, Grown DEF line
    <3>4. Len(b) + e = 2
      BY <1>3, <1>4
    <3> QED BY <3>3, <3>4
  <2>2. t.r = z /\ t.rest = SubSeq(rest, e + 1, Len(rest))
    BY <1>1, <1>9
  <2> HIDE DEF line
  <2>3. r \in Readings /\ r.parser = s.r.parser /\ r.f = Lines /\ SameBooks(r, s.r)
    BY <1>2, LinesAre DEF Readings, SameBooks
  <2> HIDE DEF r, z
  <2>4. SameBooks(z, r) => SameBooks(z, s.r)
    BY <2>3 DEF SameBooks
  <2>5. CASE g = 0
    <3>1. line[1].k = "length" /\ p + e = 2
      BY <1>4, <1>6, <2>1, <2>5
    <3>2. z.parser.state = 0 /\ z.parser.length = BodyLength /\ z.f = reset(Lines, LineLimit) /\ SameBooks(z, r)
      BY <1>3, <2>1, <2>3, <3>1, SizeLine DEF z
    <3>3. z.f.framing = "lines" /\ z.f.buf = <<>> /\ z.f.room = LineLimit
      BY <3>2 DEF reset, Lines
    <3>4. HttpPhase(z, 2, a)
      <4>1. Begins(2) = 2 /\ LineLimit - (2 - 2) = LineLimit /\ Len(z.f.buf) = 0
        BY <1>7, <3>3 DEF Begins
      <4> QED BY <3>2, <3>3, <4>1 DEF HttpPhase
    <3>5. Advanced(s, t, e, p, a)
      BY <1>2, <1>4, <1>9, <2>2, <2>4, <3>1, <3>2, <3>4 DEF Advanced, rest
    <3> QED BY <1>2, <1>4, <1>9, <3>5 DEF rest, t
  <2>6. CASE g = 2
    <3>1. line[1].k = "\r" /\ p + e = 4 /\ s.r.parser.length = BodyLength
      BY <1>3, <1>4, <1>6, <2>1, <2>6
    <3>2. z.parser.state = 1 /\ z.f = reset(Sized, BodyLength) /\ SameBooks(z, r)
      BY <1>3, <2>1, <2>3, <3>1, LastLine DEF z
    <3>3. z.f.framing = "sized" /\ z.f.buf = <<>> /\ z.f.left = 2
      BY <3>2 DEF reset, Lines, Sized, BodyLength
    <3>4. HttpPhase(z, 4, a)
      <4>1. Begins(4) = 4 /\ Len(z.f.buf) = 0
        BY <3>3 DEF Begins
      <4> QED BY <3>2, <3>3, <4>1 DEF HttpPhase
    <3>5. Advanced(s, t, e, p, a)
      BY <1>2, <1>4, <1>9, <2>2, <2>4, <3>1, <3>2, <3>4 DEF Advanced, rest
    <3> QED BY <1>2, <1>4, <1>9, <3>5 DEF rest, t
  <2> QED BY <1>4, <2>5, <2>6
<1> QED BY <1>2, <1>4, <1>8, <1>9

LEMMA BodyStep ==
  ASSUME client \notin {"eth", "cosmos"}, NEW s, s.r \in Readings, s.rest \in Seq(Tokens), s.rest # <<>>,
         NEW a, a.id \in Nat, a.ok \in BOOLEAN, NEW p \in {4, 5}, HttpPhase(s.r, p, a), Follows(s.rest, p, a)
  PROVE  \E c \in 1 .. Len(s.rest) : Advanced(s, ReadFrame(s), c, p, a)
<1> DEFINE f == s.r.f
           b == f.buf
           rest == s.rest
           n == Len(rest)
           ans == Answer(a.id, a.ok)
           body == Body(a.id, a.ok)
           t == ReadFrame(s)
           x == NextBody(f, rest)
           left == 6 - p
<1>1. f \in Framings(Tokens) /\ b \in Seq(Tokens) /\ rest \in Seq(Tokens) /\ n \in Nat /\ n >= 1 /\ s.r \in Readings
      /\ s.r.parser \in Parsers
  BY DEF Readings, Framings
<1>2. /\ s.r.parser.state = 1 /\ f.framing = "sized" /\ f.left = left /\ Len(b) = p - 4
      /\ \A k \in 1 .. p - 4 : b[k] = ans[4 + k]
  <2>1. Begins(p) = 4 /\ ~(p < 4) /\ p >= 4
    BY DEF Begins
  <2> QED BY <2>1 DEF HttpPhase
<1>3. \A k \in 1 .. n : p + k <= 6 => rest[k] = ans[p + k]
  BY DEF Follows, AnswerSize
<1>4. ans[5] = body[1] /\ ans[6] = body[2] /\ body = [k \in 1 .. 2 |-> body[k]]
  BY HttpAnswer, BodyIs
<1>5. t = [r |-> IF x.frame THEN Handed([s.r EXCEPT !.f = x.f], x.text) ELSE [s.r EXCEPT !.f = x.f], rest |-> x.rest]
  <2>1. f.framing # "lines"
    BY <1>2
  <2> QED BY <2>1 DEF ReadFrame
<1>6. x = IF Len(rest) < f.left
          THEN Frame(FALSE, [f EXCEPT !.buf = f.buf \o rest, !.left = f.left - Len(rest)], <<>>, <<>>)
          ELSE Frame(TRUE, Sized, f.buf \o SubSeq(rest, 1, f.left), SubSeq(rest, f.left + 1, Len(rest)))
  BY <1>1 DEF NextBody, Framings
<1>7. left \in 1 .. 2 /\ p - 4 \in 0 .. 1 /\ (p - 4) + left = 2 /\ p + left = 6 /\ p \in Nat
  OBVIOUS
<1>8. CASE n < left
  <2> DEFINE v == b \o rest
             room == left - n
             h == [f EXCEPT !.buf = v, !.left = room]
             z == [s.r EXCEPT !.f = h]
  <2>1. x = Frame(FALSE, h, <<>>, <<>>)
    BY <1>2, <1>6, <1>8
  <2>2. n = 1 /\ p = 4 /\ room = 1 /\ Len(b) = 0
    <3> HIDE DEF n, left
    <3> QED BY <1>1, <1>2, <1>7, <1>8
  <2>3. Len(v) = 1 /\ v[1] = ans[5]
    <3> HIDE DEF ans
    <3>1. Len(rest) = 1 /\ rest[1] = ans[5]
      BY <1>3, <2>2
    <3>2. Len(b \o rest) = Len(b) + Len(rest) /\ \A k \in 1 .. Len(rest) : (b \o rest)[Len(b) + k] = rest[k]
      <4> DEFINE T == Tokens
      <4>1. b \in Seq(T) /\ rest \in Seq(T)
        BY <1>1
      <4> HIDE DEF T, b, rest
      <4> QED BY <4>1, Joins
    <3>3. Len(v) = Len(b) + Len(rest) /\ \A k \in 1 .. Len(rest) : v[Len(b) + k] = rest[k]
      BY <3>2
    <3> HIDE DEF v
    <3>4. 1 \in 1 .. Len(rest) /\ Len(b) + 1 = 1
      BY <2>2, <3>1
    <3>5. v[1] = rest[1] /\ Len(v) = 1
      BY <2>2, <3>1, <3>3, <3>4
    <3> QED BY <3>1, <3>5
  <2> HIDE DEF x, f, v, room
  <2>4. h.buf = v /\ h.left = room /\ h.framing = "sized"
    BY <1>1, <1>2 DEF Framings
  <2> HIDE DEF h
  <2>5. z.f = h /\ z.parser = s.r.parser /\ SameBooks(z, s.r)
    BY <1>1 DEF Readings, SameBooks
  <2>6. t.r = z /\ t.rest = <<>>
    <3>1. x.frame = FALSE /\ x.f = h /\ x.rest = <<>>
      BY <2>1 DEF Frame
    <3> QED BY <1>5, <3>1
  <2> HIDE DEF z
  <2>7. HttpPhase(z, 5, a)
    <3>1. Begins(5) = 4 /\ z.parser.state = 1 /\ z.f.framing = "sized" /\ z.f.left = 1 /\ Len(z.f.buf) = 1
          /\ z.f.buf[1] = ans[5]
      BY <1>2, <2>2, <2>3, <2>4, <2>5 DEF Begins
    <3>2. \A k \in 1 .. 5 - 4 : z.f.buf[k] = ans[4 + k]
      <4>1. \A k \in 1 .. 5 - 4 : k = 1
        OBVIOUS
      <4> QED BY <3>1, <4>1
    <3> QED BY <3>1, <3>2 DEF HttpPhase
  <2>8. t.rest = SubSeq(rest, 1 + 1, Len(rest))
    BY <1>1, <2>2, <2>6, NothingLeft
  <2> HIDE DEF t
  <2>9. Advanced(s, t, 1, p, a)
    BY <2>2, <2>5, <2>6, <2>7, <2>8 DEF Advanced
  <2> QED BY <1>1, <2>2, <2>9 DEF t
<1>9. CASE ~(n < left)
  <2> DEFINE v == b \o SubSeq(rest, 1, left)
             z == Handed([s.r EXCEPT !.f = Sized], v)
  <2>1. x = Frame(TRUE, Sized, v, SubSeq(rest, left + 1, n))
    BY <1>2, <1>6, <1>9
  <2>2. left \in 1 .. n
    BY <1>1, <1>7, <1>9
  <2>3. v = body
    <3>1. \A k \in 1 .. Len(b) : b[k] = ans[4 + k]
      BY <1>2
    <3>2. \A k \in 1 .. left : rest[k] = ans[(4 + Len(b)) + k]
      <4>1. ASSUME NEW k \in 1 .. left PROVE rest[k] = ans[(4 + Len(b)) + k]
        <5>1. k \in 1 .. n /\ p + k <= 6 /\ (4 + Len(b)) + k = p + k
          BY <1>2, <1>7, <2>2
        <5> QED BY <1>3, <5>1
      <4> QED BY <4>1
    <3> DEFINE T == Tokens
    <3>3. b \in Seq(T) /\ rest \in Seq(T) /\ left \in 1 .. Len(rest) /\ 4 \in Nat
      BY <1>1, <2>2
    <3> HIDE DEF ans, b, rest, left
    <3>4. v \in Seq(Tokens) /\ Len(v) = Len(b) + left /\ \A k \in 1 .. Len(b) + left : v[k] = ans[4 + k]
      BY <3>1, <3>2, <3>3, Grown
    <3> HIDE DEF v, body
    <3>5. Len(b) + left = 2
      BY <1>2, <1>7
    <3>6. v \in Seq(Tokens) /\ Len(v) = 2 /\ v[1] = ans[4 + 1] /\ v[2] = ans[4 + 2]
      BY <3>4, <3>5
    <3>7. v = [k \in 1 .. 2 |-> v[k]] /\ v[1] = body[1] /\ v[2] = body[2]
      BY <1>4, <3>6
    <3>8. \A k \in 1 .. 2 : v[k] = body[k]
      <4>1. \A k \in 1 .. 2 : k = 1 \/ k = 2
        OBVIOUS
      <4> QED BY <3>7, <4>1
    <3> QED BY <1>4, <3>7, <3>8, SMTT(30)
  <2> HIDE DEF v
  <2>4. x.frame = TRUE /\ x.f = Sized /\ x.text = v /\ x.rest = SubSeq(rest, left + 1, n)
    <3> HIDE DEF x
    <3> QED BY <2>1 DEF Frame
  <2>5. t.r = z /\ t.rest = SubSeq(rest, left + 1, n)
    <3>1. z = Handed([s.r EXCEPT !.f = x.f], x.text)
      BY <2>4
    <3> DEFINE y == [s.r EXCEPT !.f = x.f]
    <3>2. t = [r |-> IF x.frame THEN Handed(y, x.text) ELSE y, rest |-> x.rest] /\ z = Handed(y, x.text)
      BY <1>5, <3>1
    <3> HIDE DEF x, y, z, t
    <3> QED BY ONLY <2>4, <3>2, SMTT(30)
  <2> HIDE DEF t
  <2>6. Advanced(s, t, left, p, a)
    <3>1. p + left = 6 /\ left \in 1 .. Len(s.rest)
      BY <1>7, <2>2
    <3> HIDE DEF left
    <3> QED BY <1>2, <2>3, <2>5, <3>1 DEF Advanced
  <2> QED BY <2>2, <2>6 DEF t
<1> QED BY <1>8, <1>9

LEMMA FrameStep ==
  ASSUME client \notin {"eth", "cosmos"}, NEW s, s.r \in Readings, s.rest \in Seq(Tokens), s.rest # <<>>,
         NEW a, a.id \in Nat, a.ok \in BOOLEAN, NEW p \in 0 .. 5, HttpPhase(s.r, p, a), Follows(s.rest, p, a)
  PROVE  \E c \in 1 .. Len(s.rest) : Advanced(s, ReadFrame(s), c, p, a)
<1>1. p \in 0 .. 3 \/ p \in {4, 5}
  OBVIOUS
<1> QED BY <1>1, LineStep, BodyStep

LEMMA DigitsOf ==
  ASSUME NEW i \in Nat, NEW base \in Nat, base > 1
  PROVE  (i \div base) * base + (i % base) = i
OBVIOUS

(* What comes of the answer to a when it has been read.                    *)
AnsweredBy(t, r, a) ==
  /\ t.store = {b \in r.store : b.id # a.id} /\ t.closes = r.closes
  /\ t.reports = IF a.ok THEN r.reports \cup {b \in r.store : b.id = a.id} ELSE r.reports

LEMMA DocumentOfBody ==
  ASSUME NEW i, NEW ok
  PROVE  Document(Body(i, ok)) = [valid |-> TRUE, id |-> i, ok |-> ok]
<1> DEFINE b == Body(i, ok)
<1>1. b[1] = Token("body", i, 1, ok, FALSE) /\ 1 \in DOMAIN b
  <2>1. b = [n \in 1 .. 2 |-> b[n]] /\ b[1] = Token("body", i, 1, ok, FALSE)
    BY BodyIs
  <2> HIDE DEF b
  <2>2. DOMAIN [n \in 1 .. 2 |-> b[n]] = 1 .. 2
    OBVIOUS
  <2>3. DOMAIN b = 1 .. 2
    BY <2>1, <2>2
  <2>4. 1 \in DOMAIN b
    BY <2>3
  <2> QED BY <2>1, <2>4
<1> HIDE DEF b
<1>2. b[1].of = i /\ b[1].ok = ok
  BY <1>1 DEF Token
<1>3. b = Body(b[1].of, b[1].ok)
  BY <1>2 DEF b
<1>4. \E n \in DOMAIN b : b = Body(b[n].of, b[n].ok)
  BY <1>1, <1>3
<1>5. Document(b) = [valid |-> TRUE, id |-> b[1].of, ok |-> b[1].ok]
  BY <1>4 DEF Document
<1> QED BY <1>2, <1>5 DEF b

LEMMA VerdictIs ==
  ASSUME NEW r \in Readings, NEW a, a.ok \in BOOLEAN
  PROVE  LET v == Verdict(r, [valid |-> TRUE, id |-> a.id, ok |-> a.ok])
         IN AnsweredBy(v, r, a) /\ v.f = r.f /\ v.parser = r.parser /\ v.partial = r.partial /\ v.documents = r.documents
<1> DEFINE d == [valid |-> TRUE, id |-> a.id, ok |-> a.ok]
           request == {b \in r.store : b.id = d.id}
           v == Verdict(r, d)
<1>1. d.id = a.id /\ d.ok = a.ok
  OBVIOUS
<1> HIDE DEF d
<1>2. v = [r EXCEPT !.store = r.store \ request, !.reports = IF d.ok THEN r.reports \cup request ELSE r.reports]
  BY DEF Verdict, Readings
<1>3. r.store \ request = {b \in r.store : b.id # a.id} /\ request = {b \in r.store : b.id = a.id}
  BY <1>1
<1> HIDE DEF request, v
<1>4. v.store = r.store \ request /\ v.reports = (IF d.ok THEN r.reports \cup request ELSE r.reports)
      /\ v.closes = r.closes /\ v.f = r.f /\ v.parser = r.parser /\ v.partial = r.partial /\ v.documents = r.documents
  BY <1>2 DEF Readings
<1> QED BY <1>1, <1>3, <1>4 DEF AnsweredBy, v, d

(* Abci (matic) at the end of a body.                                      *)
LEMMA BlockAnswered ==
  ASSUME client = "matic", NEW x \in Readings, x.parser.state = 1, NEW a, a.id \in Nat, a.ok \in BOOLEAN
  PROVE  LET t == Handed([x EXCEPT !.f = Sized], Body(a.id, a.ok))
         IN AnsweredBy(t, x, a) /\ t.f = reset(Lines, LineLimit) /\ t.parser = [state |-> 0, length |-> 0]
<1> DEFINE r == [x EXCEPT !.f = Sized]
           text == Body(a.id, a.ok)
           d == [valid |-> TRUE, id |-> a.id, ok |-> a.ok]
           P == [state |-> 0, length |-> 0]
           g == reset(Lines, LineLimit)
           next == [r EXCEPT !.parser = P, !.f = g]
           t == Handed(r, text)
<1>1. r \in Readings /\ r.parser = x.parser /\ SameBooks(r, x)
  BY LinesAre DEF Readings, SameBooks
<1>2. P \in Parsers /\ g \in Framings(Tokens)
  BY LinesAre, ResetKeeps, RpcAssumption DEF Parsers
<1> HIDE DEF r, P, g
<1>3. next \in Readings /\ next.parser = P /\ next.f = g /\ SameBooks(next, r)
  BY <1>1, <1>2 DEF Readings, SameBooks
<1>4. Document(text) = d
  BY DocumentOfBody
<1> HIDE DEF text
<1>5. t = BlockParsed(r, text)
  <2>1. r.parser.state # 0
    BY <1>1
  <2> QED BY <2>1 DEF Handed
<1>6. BlockParsed(r, text) = IF Document(text).valid THEN Verdict(next, Document(text)) ELSE next
  BY DEF BlockParsed, P, g
<1>7. d.valid = TRUE
  OBVIOUS
<1> HIDE DEF next, t
<1>8. t = Verdict(next, d)
  BY <1>4, <1>5, <1>6, <1>7
<1>9. AnsweredBy(t, next, a) /\ t.f = next.f /\ t.parser = next.parser
  BY <1>3, <1>8, VerdictIs
<1>10. AnsweredBy(t, x, a)
  BY <1>1, <1>3, <1>9 DEF AnsweredBy, SameBooks
<1> QED BY <1>3, <1>9, <1>10 DEF t, r, text, P, g

-----------------------------------------------------------------------------
(* Reading an answer of the chain node of cosmos                           *)

SplitPhase(r, p, a) ==
  Len(r.partial) = p /\ \A k \in 1 .. p : r.partial[k] = Answer(a.id, a.ok)[k]

Moved(s, t, c, p, a) ==
  /\ c \in 1 .. Len(s.rest) /\ p + c <= AnswerSize /\ t.rest = SubSeq(s.rest, c + 1, Len(s.rest))
  /\ p + c < AnswerSize =>
       SameBooks(t.r, s.r) /\ (IF client = "cosmos" THEN SplitPhase(t.r, p + c, a) ELSE HttpPhase(t.r, p + c, a))
  /\ p + c = AnswerSize =>
       AnsweredBy(t.r, s.r, a) /\ (IF client = "cosmos" THEN SplitPhase(t.r, 0, a) ELSE HttpPhase(t.r, 0, a))

LEMMA SplitStep ==
  ASSUME client = "cosmos", NEW s, s.r \in Readings, s.rest \in Seq(Tokens), s.rest # <<>>,
         NEW a, a.id \in Nat, a.ok \in BOOLEAN, NEW p \in 0 .. 2, SplitPhase(s.r, p, a), Follows(s.rest, p, a),
         p + Len(s.rest) >= 3 => a.ok, \E b \in s.r.store : b.id = a.id
  PROVE  \E c \in 1 .. Len(s.rest) : Moved(s, SplitOne(s), c, p, a)
<1> DEFINE rest == s.rest
           n == Len(rest)
           q == s.r.partial
           need == 2 - Len(q)
           size == IF need < n THEN need ELSE n
           digits == q \o SubSeq(rest, 1, size)
           d == [id |-> digits[1].val * Base + digits[2].val, ok |-> rest[need + 1].val > 0]
           known == \E b \in s.r.store : b.id = d.id
           read == [s.r EXCEPT !.partial = digits]
           next == Verdict(read, d)
           none == <<>>
           ans == Answer(a.id, a.ok)
           t == SplitOne(s)
<1>1. t = CASE rest = <<>> -> s
            [] rest # <<>> /\ n <= need -> [r |-> read, rest |-> none]
            [] n > need /\ (~d.ok \/ ~known) -> [r |-> next, rest |-> none]
            [] OTHER -> [r |-> [next EXCEPT !.partial = none], rest |-> SubSeq(rest, need + 2, n)]
  BY DEF SplitOne
<1>2. q \in Seq(Tokens) /\ rest \in Seq(Tokens) /\ s.r \in Readings /\ rest # <<>>
  BY DEF Readings, Digits
<1>3. Len(q) = p /\ n \in Nat /\ n >= 1 /\ need = 2 - p
  <2>1. Len(q) = p
    BY DEF SplitPhase
  <2>2. n \in Nat /\ n >= 1
    BY <1>2
  <2> HIDE DEF q, n
  <2> QED BY <2>1, <2>2
<1>4. (\A k \in 1 .. p : q[k] = ans[k]) /\ \A k \in 1 .. n : p + k <= 3 => rest[k] = ans[p + k]
  BY DEF SplitPhase, Follows, AnswerSize
<1>5. ans[1].val = a.id \div Base /\ ans[2].val = a.id % Base /\ ans[3].val = (IF a.ok THEN 1 ELSE 0)
  <2>1. ans[1] = Token("byte", a.id, a.id \div Base, a.ok, FALSE) /\ ans[2] = Token("byte", a.id, a.id % Base, a.ok, FALSE)
        /\ ans[3] = Token("byte", a.id, IF a.ok THEN 1 ELSE 0, a.ok, TRUE)
    BY CosmosAnswer
  <2> HIDE DEF ans
  <2> QED BY <2>1 DEF Token
<1> HIDE DEF ans, need, q, rest
<1>6. size \in 0 .. n /\ p + size <= 2 /\ (n <= need => size = n) /\ (n > need => size = need) /\ need \in 0 .. 2
  <2> HIDE DEF n
  <2> QED BY <1>3
<1> HIDE DEF size
<1>7. digits \in Seq(Tokens) /\ Len(digits) = p + size /\ \A k \in 1 .. p + size : digits[k] = ans[k]
  <2> DEFINE T == Tokens
             sub == SubSeq(rest, 1, size)
  <2>1. sub \in Seq(T) /\ Len(sub) = size /\ (\A k \in 1 .. size : sub[k] = rest[k]) /\ q \in Seq(T)
    BY <1>2, <1>6
  <2> HIDE DEF sub, T
  <2>2. q \o sub \in Seq(T) /\ Len(q \o sub) = Len(q) + Len(sub)
        /\ \A k \in 1 .. Len(q) + Len(sub) : (q \o sub)[k] = IF k <= Len(q) THEN q[k] ELSE sub[k - Len(q)]
    BY <2>1, ConcatProperties
  <2>3. digits \in Seq(T) /\ Len(digits) = p + size /\ \A k \in 1 .. p + size : digits[k] = IF k <= p THEN q[k] ELSE sub[k - p]
    BY <1>3, <2>1, <2>2 DEF sub
  <2> HIDE DEF digits
  <2>4. ASSUME NEW k \in 1 .. p + size PROVE digits[k] = ans[k]
    <3>1. CASE k <= p
      BY <1>4, <2>3, <3>1
    <3>2. CASE ~(k <= p)
      <4> HIDE DEF n
      <4>1. k - p \in 1 .. size /\ k - p \in 1 .. n /\ p + (k - p) = k /\ k <= 3
        BY <1>3, <1>6, <3>2
      <4>2. sub[k - p] = rest[k - p] /\ rest[k - p] = ans[k]
        <5> DEFINE l == k - p
        <5>1. l \in 1 .. size /\ l \in 1 .. n /\ p + l = k /\ k <= 3
          BY <4>1
        <5> HIDE DEF l
        <5>2. sub[l] = rest[l] /\ rest[l] = ans[k]
          BY <1>4, <2>1, <5>1 DEF n
        <5> QED BY <5>2 DEF l
      <4> QED BY <2>3, <3>2, <4>2
    <3> QED BY <3>1, <3>2
  <2> QED BY <2>3, <2>4 DEF T
<1> HIDE DEF digits
<1>8. read \in Readings /\ read.partial = digits /\ SameBooks(read, s.r) /\ read.store = s.r.store
  <2>1. digits \in Digits
    BY <1>6, <1>7 DEF Digits
  <2> QED BY <1>2, <2>1 DEF Readings, SameBooks
<1> HIDE DEF read
<1>9. CASE n <= need
  <2>1. t = [r |-> read, rest |-> none]
    <3> HIDE DEF n, t, d, known, next, none
    <3> QED BY <1>1, <1>2, <1>3, <1>6, <1>9
  <2>2. t.r = read /\ t.rest = SubSeq(rest, n + 1, Len(rest))
    BY <1>2, <1>3, <2>1, NothingLeft
  <2>3. SplitPhase(read, p + n, a)
    BY <1>6, <1>7, <1>8, <1>9 DEF SplitPhase, ans
  <2>4. n \in 1 .. n /\ p + n < 3
    <3> HIDE DEF n
    <3> QED BY <1>3, <1>9
  <2> HIDE DEF t
  <2>5. Moved(s, t, n, p, a)
    <3> DEFINE c == n
    <3>1. c \in 1 .. Len(s.rest) /\ p + c < AnswerSize /\ t.rest = SubSeq(s.rest, c + 1, Len(s.rest)) /\ SplitPhase(t.r, p + c, a)
          /\ c \in Int
      BY <2>2, <2>3, <2>4 DEF AnswerSize, rest
    <3>2. SameBooks(t.r, s.r)
      BY <1>8, <2>2
    <3> HIDE DEF c
    <3>3. AnswerSize \in Int /\ p + c <= AnswerSize /\ p + c # AnswerSize
      BY <3>1, SizeIs
    <3>4. Moved(s, t, c, p, a)
      BY <3>1, <3>2, <3>3 DEF Moved
    <3> QED BY <3>4 DEF c
  <2> QED BY <2>4, <2>5 DEF t, rest
<1>10. CASE n > need
  <2>1. size = need /\ need + 1 \in 1 .. n /\ p + (need + 1) = 3 /\ p + need = 2
    <3> HIDE DEF n
    <3> QED BY <1>3, <1>6, <1>10
  <2>2. rest[need + 1] = ans[3] /\ digits[1] = ans[1] /\ digits[2] = ans[2]
    <3>1. digits[1] = ans[1] /\ digits[2] = ans[2]
      BY <1>7, <2>1
    <3> DEFINE k == need + 1
    <3>2. k \in 1 .. n /\ p + k = 3
      BY <2>1
    <3> HIDE DEF k
    <3>3. rest[k] = ans[3]
      BY <1>4, <3>2
    <3> QED BY <3>1, <3>3 DEF k
  <2>3. a.ok
    <3>1. p + n >= 3
      <4> HIDE DEF n
      <4> QED BY <1>3, <1>10
    <3> QED BY <3>1 DEF rest
  <2>4. d.id = a.id /\ d.ok = TRUE
    <3> DEFINE x == a.id
    <3>1. x \in Nat /\ Base \in Nat /\ Base > 1
      BY RpcAssumption
    <3>2. digits[1].val = x \div Base /\ digits[2].val = x % Base /\ rest[need + 1].val = 1
      BY <1>5, <2>2, <2>3
    <3> HIDE DEF x
    <3>3. (x \div Base) * Base + (x % Base) = x
      BY <3>1, DigitsOf
    <3> DEFINE y == digits[1].val
               z == digits[2].val
               w == rest[need + 1].val
    <3>4. d.id = y * Base + z /\ d.ok = (w > 0)
      OBVIOUS
    <3>5. y = x \div Base /\ z = x % Base /\ w = 1
      BY <3>2
    <3> HIDE DEF y, z, w, d
    <3>6. d.id = x
      BY <3>3, <3>4, <3>5
    <3>7. d.ok = TRUE
      <4>1. (w > 0) = TRUE
        BY <3>5
      <4> QED BY <3>4, <4>1, Zenon
    <3> QED BY <3>6, <3>7 DEF x
  <2>5. d = [id |-> a.id, ok |-> a.ok]
    <3>1. d.id = a.id /\ d.ok = a.ok
      BY <2>3, <2>4
    <3>2. d = [id |-> d.id, ok |-> d.ok]
      OBVIOUS
    <3> HIDE DEF d
    <3> QED BY <3>1, <3>2
  <2>6. known
    BY <2>4
  <2> DEFINE last == [next EXCEPT !.partial = none]
  <2>7. t = [r |-> last, rest |-> SubSeq(rest, need + 2, n)]
    <3>1. n \in Nat /\ need \in 0 .. 2 /\ ~(n <= need) /\ rest # <<>>
      <4> HIDE DEF n
      <4> QED BY <1>2, <1>3, <1>6, <1>10
    <3>2. d.ok
      BY <2>4
    <3> HIDE DEF n, d, known, next, none, t, last
    <3>3. t = [r |-> [next EXCEPT !.partial = none], rest |-> SubSeq(rest, need + 2, n)]
      BY <1>1, <2>6, <3>1, <3>2
    <3> QED BY <3>3 DEF last
  <2> HIDE DEF d, known
  <2>8. next \in Readings /\ AnsweredBy(next, read, a)
    <3>1. next = Verdict(read, [id |-> a.id, ok |-> a.ok])
      BY <2>5
    <3> DEFINE e == [id |-> a.id, ok |-> a.ok]
               request == {b \in read.store : b.id = e.id}
               v == Verdict(read, e)
    <3>2. e.id = a.id /\ e.ok = a.ok
      OBVIOUS
    <3> HIDE DEF e
    <3>3. v = [read EXCEPT !.store = read.store \ request, !.reports = IF e.ok THEN read.reports \cup request ELSE read.reports]
      BY <1>8 DEF Verdict, Readings
    <3>4. read.store \ request = {b \in read.store : b.id # a.id} /\ request = {b \in read.store : b.id = a.id}
      BY <3>2
    <3>5. v \in Readings
      BY <1>8, <3>2, VerdictKeeps
    <3> HIDE DEF request, v
    <3>6. v.store = read.store \ request /\ v.reports = (IF e.ok THEN read.reports \cup request ELSE read.reports)
          /\ v.closes = read.closes
      BY <1>8, <3>3 DEF Readings
    <3>7. AnsweredBy(v, read, a)
      BY <3>2, <3>4, <3>6 DEF AnsweredBy
    <3> QED BY <3>1, <3>5, <3>7 DEF v, e
  <2> HIDE DEF next
  <2>9. last.store = next.store /\ last.reports = next.reports /\ last.closes = next.closes /\ last.partial = <<>>
    BY <2>8 DEF Readings
  <2> HIDE DEF last, none
  <2>10. AnsweredBy(last, s.r, a)
    BY <1>8, <2>8, <2>9 DEF AnsweredBy, SameBooks
  <2>11. SplitPhase(last, 0, a)
    BY <2>9 DEF SplitPhase
  <2> DEFINE c == need + 1
  <2>12. c \in 1 .. Len(s.rest) /\ p + c = 3 /\ t.rest = SubSeq(s.rest, c + 1, Len(s.rest)) /\ t.r = last
    <3>1. need + 2 = (need + 1) + 1
      BY <1>6
    <3>2. c \in 1 .. Len(s.rest)
      BY <2>1 DEF rest
    <3>3. p + c = 3
      BY <2>1
    <3>4. t.r = last /\ t.rest = SubSeq(s.rest, need + 2, Len(s.rest))
      <4> DEFINE left == SubSeq(s.rest, need + 2, Len(s.rest))
      <4>1. t = [r |-> last, rest |-> left]
        BY <2>7 DEF rest
      <4> HIDE DEF t, left
      <4>2. t.r = last /\ t.rest = left
        BY ONLY <4>1
      <4> QED BY <4>2 DEF left
    <3> QED BY <3>1, <3>2, <3>3, <3>4
  <2> HIDE DEF c, t
  <2>13. Moved(s, t, c, p, a)
    BY <2>10, <2>11, <2>12 DEF Moved, AnswerSize
  <2> QED BY <2>12, <2>13 DEF t
<1> QED
  <2>1. n <= need \/ n > need
    <3> HIDE DEF n
    <3> QED BY <1>3, <1>6
  <2> QED BY <1>9, <1>10, <2>1

LEMMA MaticStep ==
  ASSUME client = "matic", NEW s, s.r \in Readings, s.rest \in Seq(Tokens), s.rest # <<>>,
         NEW a, a.id \in Nat, a.ok \in BOOLEAN, NEW p \in 0 .. 5, HttpPhase(s.r, p, a), Follows(s.rest, p, a)
  PROVE  \E c \in 1 .. Len(s.rest) : Moved(s, ReadFrame(s), c, p, a)
<1>1. PICK c \in 1 .. Len(s.rest) : Advanced(s, ReadFrame(s), c, p, a)
  BY FrameStep
<1> DEFINE t == ReadFrame(s)
<1>2. /\ p + c <= 6 /\ t.rest = SubSeq(s.rest, c + 1, Len(s.rest))
      /\ p + c < 6 => HttpPhase(t.r, p + c, a) /\ SameBooks(t.r, s.r)
      /\ p + c = 6 => t.r = Handed([s.r EXCEPT !.f = Sized], Body(a.id, a.ok)) /\ s.r.parser.state = 1
  BY <1>1 DEF Advanced
<1> HIDE DEF t
<1>3. p + c = 6 => AnsweredBy(t.r, s.r, a) /\ HttpPhase(t.r, 0, a)
  <2> SUFFICES ASSUME p + c = 6 PROVE AnsweredBy(t.r, s.r, a) /\ HttpPhase(t.r, 0, a)
    OBVIOUS
  <2>1. AnsweredBy(t.r, s.r, a) /\ t.r.f = reset(Lines, LineLimit) /\ t.r.parser = [state |-> 0, length |-> 0]
    BY <1>2, BlockAnswered
  <2> DEFINE x == t.r
  <2>2. x.f = reset(Lines, LineLimit) /\ x.parser = [state |-> 0, length |-> 0]
    BY <2>1
  <2> HIDE DEF x
  <2>3. x.f.framing = "lines" /\ x.f.buf = <<>> /\ x.f.room = LineLimit /\ x.parser.state = 0
    BY <2>2 DEF reset, Lines
  <2>4. HttpPhase(x, 0, a)
    <3>1. Begins(0) = 0 /\ LineLimit - (0 - 0) = LineLimit /\ Len(x.f.buf) = 0
      BY <2>3, RpcAssumption DEF Begins
    <3> QED BY <2>3, <3>1 DEF HttpPhase
  <2> QED BY <2>1, <2>4 DEF x
<1>4. AnswerSize = 6
  BY DEF AnswerSize
<1> QED BY <1>2, <1>3, <1>4 DEF Moved, t

-----------------------------------------------------------------------------
(* Reading answers one after the other                                     *)

Phase(r, p, a) == IF client = "cosmos" THEN SplitPhase(r, p, a) ELSE HttpPhase(r, p, a)
Settled(r, q, j) ==
  /\ r.store = {b \in block_store : \A i \in 1 .. j : b.id # q[i].id}
  /\ r.reports = {b \in block_store : \E i \in 1 .. j : b.id = q[i].id /\ q[i].ok}
  /\ r.closes = 0

(* V is the beginning of a stream U of answers to the requests q, each for *)
(* a block of its own; cosmos is told no of none of them.                  *)
Asked(q) ==
  /\ q \in Seq(Requests)
  /\ \A i, k \in 1 .. Len(q) : q[i].id = q[k].id => i = k
  /\ \A i \in 1 .. Len(q) : \E b \in block_store : b.id = q[i].id
Heard(V, U, o, q, m) ==
  /\ U \in Seq(Tokens) /\ V \in Seq(Tokens) /\ Asked(q) /\ Lies(U, o, q, m)
  /\ Len(V) <= Len(U) /\ \A k \in 1 .. Len(V) : V[k] = U[k]
  /\ client = "cosmos" => \A k \in 1 .. Len(V) : V[k].last => V[k].ok

(* Of V, d tokens were read, and j answers.                                *)
Going(s, V, o, q, d, j) ==
  /\ s.r \in Readings /\ d \in 0 .. Len(V) /\ j \in Nat /\ s.rest = SubSeq(V, d + 1, Len(V))
  /\ (d - o) - AnswerSize * j \in 0 .. AnswerSize - 1
  /\ Phase(s.r, (d - o) - AnswerSize * j, q[j + 1]) /\ Settled(s.r, q, j)

LEMMA RestOf ==
  ASSUME NEW T, NEW V \in Seq(T), NEW d \in 0 .. Len(V)
  PROVE  /\ SubSeq(V, d + 1, Len(V)) \in Seq(T) /\ Len(SubSeq(V, d + 1, Len(V))) = Len(V) - d
         /\ \A k \in 1 .. Len(V) - d : SubSeq(V, d + 1, Len(V))[k] = V[d + k]
<1>1. Len(V) \in Nat
  OBVIOUS
<1> DEFINE n == Len(V)
<1>2. \A k \in 1 .. n - d : (d + 1 + k) - 1 = d + k
  BY <1>1
<1> QED BY <1>1, <1>2

LEMMA RestOfRest ==
  ASSUME NEW T, NEW V \in Seq(T), NEW d \in 0 .. Len(V), NEW W, W = SubSeq(V, d + 1, Len(V)), NEW c \in 0 .. Len(W)
  PROVE  SubSeq(W, c + 1, Len(W)) = SubSeq(V, (d + c) + 1, Len(V)) /\ d + c \in 0 .. Len(V)
<1> DEFINE n == Len(V)
           X == SubSeq(W, c + 1, Len(W))
           Y == SubSeq(V, (d + c) + 1, Len(V))
<1>1. W \in Seq(T) /\ Len(W) = n - d /\ \A k \in 1 .. n - d : W[k] = V[d + k]
  BY RestOf
<1>2. n \in Nat /\ d \in 0 .. n
  OBVIOUS
<1>3. d + c \in 0 .. n /\ c \in 0 .. n - d
  <2> HIDE DEF n
  <2>1. c \in 0 .. n - d
    BY <1>1
  <2> QED BY <1>2, <2>1
<1>4. X \in Seq(T) /\ Len(X) = (n - d) - c /\ \A k \in 1 .. (n - d) - c : X[k] = W[c + k]
  <2>1. SubSeq(W, c + 1, Len(W)) \in Seq(T) /\ Len(SubSeq(W, c + 1, Len(W))) = Len(W) - c
        /\ \A k \in 1 .. Len(W) - c : SubSeq(W, c + 1, Len(W))[k] = W[c + k]
    BY <1>1, RestOf
  <2> HIDE DEF X, n
  <2> QED BY <1>1, <2>1 DEF X
<1>5. Y \in Seq(T) /\ Len(Y) = n - (d + c) /\ \A k \in 1 .. n - (d + c) : Y[k] = V[(d + c) + k]
  <2> DEFINE e == d + c
  <2>1. e \in 0 .. Len(V)
    BY <1>3
  <2> HIDE DEF e
  <2>2. SubSeq(V, e + 1, Len(V)) \in Seq(T) /\ Len(SubSeq(V, e + 1, Len(V))) = Len(V) - e
        /\ \A k \in 1 .. Len(V) - e : SubSeq(V, e + 1, Len(V))[k] = V[e + k]
    BY <2>1, RestOf
  <2> QED BY <2>2 DEF e
<1> HIDE DEF X, Y, n
<1>6. Len(X) = Len(Y) /\ \A k \in 1 .. Len(X) : X[k] = Y[k]
  <2>1. (n - d) - c = n - (d + c)
    BY <1>2, <1>3
  <2>2. ASSUME NEW k \in 1 .. n - (d + c) PROVE X[k] = Y[k]
    <3>1. c + k \in 1 .. n - d /\ d + (c + k) = (d + c) + k
      BY <1>2, <1>3
    <3>2. X[k] = W[c + k]
      BY <1>4, <2>1
    <3>3. W[c + k] = V[d + (c + k)]
      <4> DEFINE l == c + k
      <4>1. l \in 1 .. n - d
        BY <3>1
      <4> HIDE DEF l
      <4>2. W[l] = V[d + l]
        BY <1>1, <4>1
      <4> QED BY <4>2 DEF l
    <3>4. Y[k] = V[(d + c) + k]
      BY <1>5
    <3> QED BY <3>1, <3>2, <3>3, <3>4
  <2> QED BY <1>4, <1>5, <2>1, <2>2
<1>7. X = Y
  BY <1>4, <1>5, <1>6
<1> QED BY <1>3, <1>7 DEF X, Y, n

(* What is left of V goes on with the answer it is in the midst of.        *)
LEMMA GoesOn ==
  ASSUME client \in {"cosmos", "matic"}, NEW V, NEW U, NEW o, NEW q, NEW m, Heard(V, U, o, q, m),
         NEW s, NEW d, NEW j, Going(s, V, o, q, d, j), d < Len(V)
  PROVE  LET p == (d - o) - AnswerSize * j
             a == q[j + 1]
         IN /\ p \in 0 .. AnswerSize - 1 /\ p \in Nat /\ j + 1 \in 1 .. m /\ a \in Requests /\ Follows(s.rest, p, a)
            /\ client = "cosmos" /\ p + Len(s.rest) >= 3 => a.ok
            /\ \E b \in s.r.store : b.id = a.id
<1> DEFINE z == AnswerSize
           p == (d - o) - z * j
           a == q[j + 1]
           rest == s.rest
           n == Len(V)
<1>1. z = 3 \/ z = 6
  BY SizeIs
<1>2. m \in Nat /\ m <= Len(q) /\ Len(q) \in Nat /\ o \in Int /\ Len(U) = o + z * m /\ n \in Nat /\ n <= Len(U)
      /\ q \in Seq(Requests) /\ V \in Seq(Tokens)
  BY DEF Heard, Lies, Asked
<1>3. d \in 0 .. n /\ j \in Nat /\ rest = SubSeq(V, d + 1, n) /\ p \in 0 .. z - 1 /\ Settled(s.r, q, j) /\ d < n
  BY DEF Going
<1>4. Len(rest) = n - d /\ \A k \in 1 .. n - d : rest[k] = V[d + k]
  BY <1>2, <1>3, RestOf
<1>5. \A k \in 1 .. n : V[k] = U[k]
  BY DEF Heard
<1>6. \A i \in 1 .. m, k \in 1 .. z : Place(o, i, k) >= 1 => U[Place(o, i, k)] = Answer(q[i].id, q[i].ok)[k]
  BY DEF Heard, Lies
<1> HIDE DEF z, n, rest
<1>7. j + 1 \in 1 .. m /\ p \in Nat
  <2>1. CASE z = 3
    BY <1>2, <1>3, <2>1
  <2>2. CASE z = 6
    BY <1>2, <1>3, <2>2
  <2> QED BY <1>1, <2>1, <2>2
<1>8. \A k \in 1 .. z : Place(o, j + 1, p + k) = d + k
  <2>1. CASE z = 3
    BY <1>2, <1>3, <2>1 DEF Place, z
  <2>2. CASE z = 6
    BY <1>2, <1>3, <2>2 DEF Place, z
  <2> QED BY <1>1, <2>1, <2>2
<1> HIDE DEF p
<1>9. a \in Requests /\ j + 1 \in 1 .. Len(q)
  BY <1>2, <1>7
<1>10. ASSUME NEW k \in 1 .. n - d, p + k <= z
       PROVE  rest[k] = Answer(a.id, a.ok)[p + k] /\ rest[k] = V[d + k] /\ d + k \in 1 .. n
  <2>1. k \in 1 .. z /\ p + k \in 1 .. z /\ d + k \in 1 .. n /\ d + k >= 1
    BY <1>1, <1>2, <1>3, <1>7, <1>10
  <2>2. Place(o, j + 1, p + k) = d + k
    BY <1>8, <2>1
  <2> DEFINE x == d + k
             i == j + 1
             l == p + k
  <2>3. x \in 1 .. n /\ x >= 1 /\ i \in 1 .. m /\ l \in 1 .. z /\ Place(o, i, l) = x
    BY <1>7, <2>1, <2>2
  <2>4. rest[k] = V[x]
    BY <1>4
  <2> HIDE DEF x, i, l
  <2>5. U[x] = Answer(q[i].id, q[i].ok)[l] /\ V[x] = U[x]
    BY <1>5, <1>6, <2>3
  <2> QED BY <2>3, <2>4, <2>5 DEF x, i, l
<1>11. Follows(rest, p, a)
  BY <1>4, <1>10 DEF Follows, z
<1>12. \E b \in s.r.store : b.id = a.id
  <2>1. PICK b \in block_store : b.id = a.id
    BY <1>9 DEF Heard, Asked
  <2>2. \A i \in 1 .. j : b.id # q[i].id
    <3>1. ASSUME NEW i \in 1 .. j, b.id = q[i].id PROVE FALSE
      <4>1. i \in 1 .. Len(q) /\ i # j + 1
        BY <1>3, <1>9
      <4>2. q[i].id = q[j + 1].id
        BY <2>1, <3>1
      <4> QED BY <1>9, <4>1, <4>2 DEF Heard, Asked
    <3> QED BY <3>1
  <2>3. b \in s.r.store
    BY <1>3, <2>2 DEF Settled
  <2> QED BY <2>1, <2>3
<1>13. ASSUME client = "cosmos", p + Len(rest) >= 3
       PROVE  a.ok
  <2>1. z = 3
    BY <1>13 DEF z, AnswerSize
  <2> DEFINE k == 3 - p
  <2>2. k \in 1 .. n - d /\ p + k = 3
    BY <1>2, <1>3, <1>4, <1>7, <1>13, <2>1
  <2> HIDE DEF k
  <2>3. rest[k] = Answer(a.id, a.ok)[3] /\ rest[k] = V[d + k] /\ d + k \in 1 .. n
    BY <1>10, <2>1, <2>2
  <2> DEFINE ans == Answer(a.id, a.ok)
  <2>4. ans[3] = Token("byte", a.id, IF a.ok THEN 1 ELSE 0, a.ok, TRUE)
    BY <1>13, CosmosAnswer
  <2> HIDE DEF ans
  <2>5. ans[3].last = TRUE /\ ans[3].ok = a.ok
    BY <2>4 DEF Token
  <2>6. V[d + k].last => V[d + k].ok
    <3> DEFINE x == d + k
    <3>1. x \in 1 .. n
      BY <2>3
    <3> HIDE DEF x
    <3>2. V[x].last => V[x].ok
      BY <1>13, <3>1 DEF Heard, n
    <3> QED BY <3>2 DEF x
  <2> QED BY <2>3, <2>5, <2>6 DEF ans
<1> QED BY <1>3, <1>7, <1>9, <1>11, <1>12, <1>13 DEF p, z, rest

LEMMA SettledNext ==
  ASSUME NEW t, NEW r, NEW q, NEW j \in Nat, Settled(r, q, j), AnsweredBy(t, r, q[j + 1]),
         \A i \in 1 .. j : q[i].id # q[j + 1].id
  PROVE  Settled(t, q, j + 1)
<1> DEFINE a == q[j + 1]
<1>1. \A i : i \in 1 .. j + 1 <=> (i \in 1 .. j \/ i = j + 1)
  OBVIOUS
<1>2. r.store = {b \in block_store : \A i \in 1 .. j : b.id # q[i].id} /\ r.closes = 0
      /\ r.reports = {b \in block_store : \E i \in 1 .. j : b.id = q[i].id /\ q[i].ok}
  BY DEF Settled
<1>3. t.store = {b \in r.store : b.id # a.id} /\ t.closes = r.closes
      /\ t.reports = IF a.ok THEN r.reports \cup {b \in r.store : b.id = a.id} ELSE r.reports
  BY DEF AnsweredBy
<1> QED
  <2>1. t.store = {b \in block_store : \A i \in 1 .. j + 1 : b.id # q[i].id}
    BY <1>1, <1>2, <1>3
  <2>2. t.reports = {b \in block_store : \E i \in 1 .. j + 1 : b.id = q[i].id /\ q[i].ok}
    <3>1. ASSUME NEW b \in block_store
          PROVE  b \in t.reports <=> \E i \in 1 .. j + 1 : b.id = q[i].id /\ q[i].ok
      <4>1. b \in t.reports <=> b \in r.reports \/ (a.ok /\ b \in r.store /\ b.id = a.id)
        BY <1>3
      <4>2. b.id = a.id => b \in r.store
        BY <1>2
      <4>3. b \in r.reports <=> \E i \in 1 .. j : b.id = q[i].id /\ q[i].ok
        BY <1>2
      <4> QED BY <1>1, <4>1, <4>2, <4>3
    <3>2. t.reports \subseteq block_store
      BY <1>2, <1>3
    <3> QED BY <3>1, <3>2
  <2> QED BY <1>2, <1>3, <2>1, <2>2 DEF Settled

LEMMA PhaseZero ==
  ASSUME NEW r, NEW a, NEW b, Phase(r, 0, a)
  PROVE  Phase(r, 0, b)
<1>1. Begins(0) = 0 /\ \A k : k \notin 1 .. 0
  BY DEF Begins
<1>2. \A k : k \notin 1 .. 0 - Begins(0)
  BY <1>1
<1> QED BY <1>1, <1>2 DEF Phase, SplitPhase, HttpPhase

(* The next frame, or the next answer, as one step.                        *)
StepAt(s) == StepOf(client # "cosmos", s)

LEMMA AnswerStep ==
  ASSUME client \in {"cosmos", "matic"}, NEW s, s.r \in Readings, s.rest \in Seq(Tokens), s.rest # <<>>,
         NEW a \in Requests, NEW p \in 0 .. AnswerSize - 1, Phase(s.r, p, a), Follows(s.rest, p, a),
         client = "cosmos" /\ p + Len(s.rest) >= 3 => a.ok, \E b \in s.r.store : b.id = a.id
  PROVE  \E c \in 1 .. Len(s.rest) : Moved(s, StepAt(s), c, p, a)
<1>1. a.id \in Nat /\ a.ok \in BOOLEAN
  BY DEF Requests
<1>2. CASE client = "cosmos"
  <2>1. p \in 0 .. 2 /\ SplitPhase(s.r, p, a) /\ StepAt(s) = SplitOne(s)
    BY <1>2 DEF AnswerSize, Phase, StepAt, StepOf
  <2>2. p + Len(s.rest) >= 3 => a.ok
    BY <1>2
  <2> QED BY <1>1, <1>2, <2>1, <2>2, SplitStep
<1>3. CASE client = "matic"
  <2>1. p \in 0 .. 5 /\ HttpPhase(s.r, p, a) /\ StepAt(s) = ReadFrame(s)
    BY <1>3 DEF AnswerSize, Phase, StepAt, StepOf
  <2> QED BY <1>1, <1>3, <2>1, MaticStep
<1> QED BY <1>2, <1>3

LEMMA SettledHonest ==
  ASSUME NEW r \in Readings, NEW q \in Seq(Requests), NEW j \in 0 .. Len(q), Settled(r, q, j)
  PROVE  Honest(r)
<1>1. SUFFICES ASSUME NEW b \in r.reports PROVE b.m \notin Spam
  BY DEF Honest
<1>2. b \in block_store /\ \E i \in 1 .. j : b.id = q[i].id /\ q[i].ok
  BY DEF Settled
<1>3. PICK i \in 1 .. j : b.id = q[i].id /\ q[i].ok
  BY <1>2
<1>4. q[i] \in Requests
  <2>1. i \in 1 .. Len(q)
    OBVIOUS
  <2> QED BY <2>1
<1>5. Truth(q[i].id, q[i].ok) /\ q[i].ok = TRUE
  BY <1>3, <1>4 DEF Requests
<1> QED BY <1>2, <1>3, <1>5 DEF Truth

LEMMA StepKeeps ==
  ASSUME NEW s, s.r \in Readings, s.rest \in Seq(Tokens), Honest(s.r)
  PROVE  StepAt(s).r \in Readings
<1>1. Took(s) /\ Splitting(s)
  BY DEF Took, Splitting
<1>2. Took(ReadFrame(s)) /\ Splitting(SplitOne(s))
  BY <1>1, ReadFrameKeeps, SplitOneKeeps
<1> QED BY <1>2 DEF Took, Splitting, StepAt, StepOf

LEMMA GoingStep ==
  ASSUME client \in {"cosmos", "matic"}, NEW V, NEW U, NEW o, NEW q, NEW m, Heard(V, U, o, q, m),
         NEW s, NEW d, NEW j, Going(s, V, o, q, d, j), d < Len(V)
  PROVE  \E e \in (d + 1) .. Len(V), l \in {j, j + 1} : Going(StepAt(s), V, o, q, e, l)
<1> DEFINE z == AnswerSize
           n == Len(V)
           p == (d - o) - z * j
           a == q[j + 1]
           t == StepAt(s)
<1>1. /\ p \in 0 .. z - 1 /\ p \in Nat /\ j + 1 \in 1 .. m /\ a \in Requests /\ Follows(s.rest, p, a)
      /\ client = "cosmos" /\ p + Len(s.rest) >= 3 => a.ok
      /\ \E b \in s.r.store : b.id = a.id
  BY GoesOn
<1>2. s.r \in Readings /\ d \in 0 .. n /\ j \in Nat /\ s.rest = SubSeq(V, d + 1, n) /\ Phase(s.r, p, a) /\ Settled(s.r, q, j)
  BY DEF Going
<1>3. V \in Seq(Tokens) /\ n \in Nat /\ q \in Seq(Requests) /\ m \in Nat /\ m <= Len(q) /\ o \in Int /\ Len(q) \in Nat
      /\ z \in Int /\ (z = 3 \/ z = 6)
  BY SizeIs DEF Heard, Asked, Lies
<1>4. s.rest \in Seq(Tokens) /\ Len(s.rest) = n - d
  BY <1>2, <1>3, RestOf
<1>5. s.rest # <<>>
  <2>1. Len(s.rest) > 0
    <3> HIDE DEF n
    <3>1. d < n
      BY DEF n
    <3> QED BY <1>2, <1>3, <1>4, <3>1
  <2> QED BY <2>1
<1>6. PICK c \in 1 .. Len(s.rest) : Moved(s, t, c, p, a)
  <2> HIDE DEF p, t, a
  <2> DEFINE x == a
  <2>1. \E c \in 1 .. Len(s.rest) : Moved(s, StepAt(s), c, p, a)
    BY <1>1, <1>2, <1>4, <1>5, AnswerStep
  <2> QED BY <2>1 DEF t
<1>7. t.r \in Readings
  <2>1. j \in 0 .. Len(q)
    BY <1>1, <1>2, <1>3
  <2>2. Honest(s.r)
    BY <1>2, <1>3, <2>1, SettledHonest
  <2> QED BY <1>2, <1>4, <2>2, StepKeeps
<1> HIDE DEF t
<1> DEFINE e == d + c
<1>8. e \in (d + 1) .. n /\ e \in 0 .. n /\ t.rest = SubSeq(V, e + 1, n)
  <2>1. t.rest = SubSeq(s.rest, c + 1, Len(s.rest))
    BY <1>6 DEF Moved
  <2>2. c \in 0 .. Len(s.rest)
    BY <1>4
  <2>3. SubSeq(s.rest, c + 1, Len(s.rest)) = SubSeq(V, (d + c) + 1, Len(V))
    BY <1>2, <1>3, <2>2, RestOfRest
  <2>4. c \in 1 .. n - d
    BY <1>4
  <2> QED
    <3> HIDE DEF n
    <3>1. e \in (d + 1) .. n /\ e \in 0 .. n
      BY <1>2, <1>3, <2>4
    <3> QED BY <2>1, <2>3, <3>1 DEF n
<1>9. c \in Nat /\ c >= 1 /\ p + c <= z
  BY <1>4, <1>6 DEF Moved
<1>10. CASE p + c < z
  <2>1. SameBooks(t.r, s.r) /\ Phase(t.r, p + c, a)
    BY <1>6, <1>10 DEF Moved, Phase
  <2>2. Settled(t.r, q, j)
    BY <1>2, <2>1 DEF Settled, SameBooks
  <2>3. (e - o) - z * j = p + c /\ p + c \in 0 .. z - 1
    <3> HIDE DEF z
    <3>1. CASE z = 3
      BY <1>1, <1>2, <1>3, <1>9, <1>10, <3>1
    <3>2. CASE z = 6
      BY <1>1, <1>2, <1>3, <1>9, <1>10, <3>2
    <3> QED BY <1>3, <3>1, <3>2
  <2> HIDE DEF e, p
  <2>4. Going(t, V, o, q, e, j)
    BY <1>2, <1>7, <1>8, <2>1, <2>2, <2>3 DEF Going
  <2> QED BY <1>8, <2>4 DEF t
<1>11. CASE ~(p + c < z)
  <2>1. p + c = z
    <3> HIDE DEF p, z
    <3> QED BY <1>1, <1>3, <1>9, <1>11
  <2>2. AnsweredBy(t.r, s.r, a) /\ Phase(t.r, 0, a)
    BY <1>6, <2>1 DEF Moved, Phase
  <2>3. \A i \in 1 .. j : q[i].id # q[j + 1].id
    <3>1. ASSUME NEW i \in 1 .. j, q[i].id = q[j + 1].id PROVE FALSE
      <4>1. i \in 1 .. Len(q) /\ i # j + 1 /\ j + 1 \in 1 .. Len(q)
        BY <1>1, <1>2, <1>3
      <4> QED BY <3>1, <4>1 DEF Heard, Asked
    <3> QED BY <3>1
  <2>4. Settled(t.r, q, j + 1)
    BY <1>2, <2>2, <2>3, SettledNext
  <2>5. (e - o) - z * (j + 1) = 0 /\ 0 \in 0 .. z - 1
    <3> HIDE DEF z
    <3>1. CASE z = 3
      BY <1>1, <1>2, <1>3, <1>9, <2>1, <3>1
    <3>2. CASE z = 6
      BY <1>1, <1>2, <1>3, <1>9, <2>1, <3>2
    <3> QED BY <1>3, <3>1, <3>2
  <2> HIDE DEF e, p
  <2> DEFINE k == j + 1
             x == (e - o) - z * k
  <2>6. k \in Nat /\ Phase(t.r, 0, q[k + 1]) /\ x = 0
    BY <1>2, <2>2, <2>5, PhaseZero
  <2>7. Settled(t.r, q, k)
    BY <2>4
  <2> HIDE DEF k, x
  <2>8. x \in 0 .. z - 1 /\ Phase(t.r, x, q[k + 1])
    BY <2>5, <2>6
  <2>9. Going(t, V, o, q, e, k)
    BY <1>7, <1>8, <2>6, <2>7, <2>8 DEF Going, x
  <2> QED BY <1>8, <2>9 DEF t, k
<1> QED BY <1>10, <1>11

Finished(x, V, o, q, j) ==
  /\ x \in Readings /\ (Len(V) - o) - AnswerSize * j \in 0 .. AnswerSize - 1
  /\ Phase(x, (Len(V) - o) - AnswerSize * j, q[j + 1]) /\ Settled(x, q, j)

(* After i steps, at least i tokens were read, or all of them.             *)
GotTo(s, V, o, q, i) == \E d \in 0 .. Len(V), j \in Nat : Going(s, V, o, q, d, j) /\ (d >= i \/ d = Len(V))

LEMMA NothingMore ==
  ASSUME NEW s, s.r \in Readings, s.rest = <<>>
  PROVE  StepAt(s) = s
<1>1. ReadFrame(s) = s
  BY DEF ReadFrame
<1>2. SplitOne(s) = s
  <2> DEFINE bytes == s.rest
             need == 2 - Len(s.r.partial)
             digits == s.r.partial \o SubSeq(bytes, 1, IF need < Len(bytes) THEN need ELSE Len(bytes))
             d == [id |-> digits[1].val * Base + digits[2].val, ok |-> bytes[need + 1].val > 0]
             known == \E b \in s.r.store : b.id = d.id
             read == [s.r EXCEPT !.partial = digits]
             next == Verdict(read, d)
             last == [next EXCEPT !.partial = <<>>]
             rest == SubSeq(bytes, need + 2, Len(bytes))
             none == <<>>
  <2>1. SplitOne(s) = CASE bytes = none -> s
                        [] bytes # none /\ Len(bytes) <= need -> [r |-> read, rest |-> none]
                        [] Len(bytes) > need /\ (~d.ok \/ ~known) -> [r |-> next, rest |-> none]
                        [] OTHER -> [r |-> last, rest |-> rest]
    BY DEF SplitOne
  <2>2. bytes = none /\ ~(Len(bytes) > need)
    <3> DEFINE p == s.r.partial
    <3>1. p \in Digits
      BY DEF Readings
    <3> HIDE DEF p
    <3>2. Len(p) \in Nat /\ Len(p) <= 2
      BY <3>1 DEF Digits
    <3>3. Len(<<>>) = 0
      OBVIOUS
    <3>4. ~(0 > 2 - Len(p))
      BY <3>2
    <3> QED BY <3>3, <3>4 DEF p
  <2> HIDE DEF bytes, need, d, known, next, last, read, none, rest
  <2> QED BY <2>1, <2>2
<1> QED BY <1>1, <1>2 DEF StepAt, StepOf

LEMMA StepsEnd ==
  ASSUME client \in {"cosmos", "matic"}, NEW V, NEW U, NEW o, NEW q, NEW m, Heard(V, U, o, q, m),
         NEW first, Going(first, V, o, q, 0, 0), NEW n \in Nat, n >= Len(V), NEW e, Steps(e, n, client # "cosmos", first)
  PROVE  \E j \in Nat : Finished(e[n].r, V, o, q, j)
<1>1. V \in Seq(Tokens) /\ Len(V) \in Nat
  BY DEF Heard
<1> DEFINE good == {i \in 0 .. n : GotTo(e[i], V, o, q, i)}
<1>2. 0 \in good
  <2>1. 0 \in 0 .. n /\ 0 \in 0 .. Len(V) /\ 0 \in Nat /\ 0 >= 0 /\ e[0] = first
    BY <1>1 DEF Steps
  <2>2. GotTo(e[0], V, o, q, 0)
    BY <2>1 DEF GotTo
  <2> QED BY <2>1, <2>2
<1>3. ASSUME NEW i \in 1 .. n, i - 1 \in good
      PROVE  i \in good
  <2> DEFINE s == e[i - 1]
  <2>1. e[i] = StepAt(s)
    BY DEF Steps, StepAt
  <2>2. PICK d \in 0 .. Len(V), j \in Nat : Going(s, V, o, q, d, j) /\ (d >= i - 1 \/ d = Len(V))
    BY <1>3 DEF GotTo
  <2> HIDE DEF s
  <2>3. CASE d < Len(V)
    <3>1. PICK c \in (d + 1) .. Len(V), l \in {j, j + 1} : Going(StepAt(s), V, o, q, c, l)
      BY <2>2, <2>3, GoingStep
    <3>2. c \in 0 .. Len(V) /\ l \in Nat /\ c >= i
      BY <1>1, <2>2, <2>3
    <3>3. GotTo(e[i], V, o, q, i)
      BY <2>1, <3>1, <3>2 DEF GotTo
    <3> QED BY <3>3
  <2>4. CASE ~(d < Len(V))
    <3>1. d = Len(V)
      BY <1>1, <2>4
    <3>2. s.rest = <<>>
      <4>1. s.rest = SubSeq(V, d + 1, Len(V)) /\ d \in Nat /\ d >= Len(V)
        BY <1>1, <2>2, <3>1 DEF Going
      <4> QED BY <1>1, <4>1, NothingLeft
    <3>3. StepAt(s) = s
      BY <2>2, <3>2, NothingMore DEF Going
    <3>4. GotTo(e[i], V, o, q, i)
      BY <2>1, <2>2, <3>1, <3>3 DEF GotTo
    <3> QED BY <3>4
  <2> QED BY <2>3, <2>4
<1> HIDE DEF good
<1>4. n \in good
  <2>1. \A i \in 1 .. n : i - 1 \in good => i \in good
    BY <1>3
  <2>2. 0 .. n \subseteq good
    BY <1>2, <2>1, RpcUpTo
  <2> QED BY <2>2
<1>5. PICK d \in 0 .. Len(V), j \in Nat : Going(e[n], V, o, q, d, j) /\ (d >= n \/ d = Len(V))
  BY <1>4 DEF good, GotTo
<1>6. d = Len(V)
  BY <1>1, <1>5
<1>7. Finished(e[n].r, V, o, q, j)
  BY <1>5, <1>6 DEF Going, Finished
<1> QED BY <1>7

LEMMA ReadAll ==
  ASSUME client \in {"cosmos", "matic"}, NEW V, NEW U, NEW o, NEW q, NEW m, Heard(V, U, o, q, m),
         NEW r \in Readings, (0 - o) \in 0 .. AnswerSize - 1, Phase(r, 0 - o, q[1]), Settled(r, q, 0)
  PROVE  \E j \in Nat : Finished(ReadBy(r, V), V, o, q, j)
<1> DEFINE first == [r |-> r, rest |-> V]
<1>1. V \in Seq(Tokens) /\ Len(V) \in Nat /\ o \in Int
  BY DEF Heard, Lies
<1>2. Going(first, V, o, q, 0, 0)
  <2>1. (0 - o) - AnswerSize * 0 = 0 - o
    BY <1>1, SizeIs
  <2>2. SubSeq(V, 0 + 1, Len(V)) = V
    BY <1>1
  <2>3. first.r = r /\ first.rest = V /\ 0 \in 0 .. Len(V) /\ 0 + 1 = 1
    BY <1>1
  <2> HIDE DEF first
  <2> DEFINE p == (0 - o) - AnswerSize * 0
             k == 0 + 1
  <2>4. p \in 0 .. AnswerSize - 1 /\ Phase(r, p, q[k])
    BY <2>1
  <2> HIDE DEF p, k
  <2> QED BY <2>2, <2>3, <2>4 DEF Going, p, k
<1>3. CASE client = "cosmos"
  <2> DEFINE n == Len(V)
  <2>1. PICK e : Steps(e, n, FALSE, first) /\ Split(r, V) = e[n].r
    BY <1>1, SplitSteps
  <2>2. ReadBy(r, V) = e[n].r /\ Steps(e, n, client # "cosmos", first)
    <3>1. (client # "cosmos") = FALSE
      BY <1>3
    <3> QED BY <1>3, <2>1, <3>1 DEF ReadBy
  <2>3. n \in Nat /\ n >= Len(V)
    BY <1>1
  <2> HIDE DEF n, first
  <2> QED BY <1>2, <2>2, <2>3, StepsEnd
<1>4. CASE client = "matic"
  <2> DEFINE n == 2 * Len(V)
  <2>1. PICK e : Steps(e, n, TRUE, first) /\ ReadFrames(r, V) = e[n].r
    BY <1>1, ReadFramesSteps
  <2>2. ReadBy(r, V) = e[n].r /\ Steps(e, n, client # "cosmos", first)
    <3>1. (client # "cosmos") = TRUE
      BY <1>4
    <3> QED BY <1>4, <2>1, <3>1 DEF ReadBy
  <2>3. n \in Nat /\ n >= Len(V)
    BY <1>1
  <2> HIDE DEF n, first
  <2> QED BY <1>2, <2>2, <2>3, StepsEnd
<1> QED BY <1>3, <1>4

-----------------------------------------------------------------------------
(* An adapter that is in step with its chain node                          *)

LEMMA AnswersSame ==
  ASSUME client' = client
  PROVE  AnswerSize' = AnswerSize /\ \A i, ok : Answer(i, ok)' = Answer(i, ok)
<1>1. AnswerSize' = AnswerSize
  BY DEF AnswerSize
<1>2. ASSUME NEW i, NEW ok
      PROVE  Answer(i, ok)' = Answer(i, ok)
  BY DEF Answer
<1> QED BY <1>1, <1>2

LEMMA LiesSame ==
  ASSUME client' = client, NEW U, NEW o, NEW q, NEW m, Lies(U, o, q, m)
  PROVE  Lies(U, o, q, m)'
<1>1. AnswerSize' = AnswerSize /\ \A i, ok : Answer(i, ok)' = Answer(i, ok)
  BY AnswersSame
<1> QED BY <1>1 DEF Lies, Place

LEMMA PhaseSame ==
  ASSUME client' = client, NEW r, NEW p, NEW a, Phase(r, p, a)
  PROVE  Phase(r, p, a)'
<1>1. \A i, ok : Answer(i, ok)' = Answer(i, ok)
  BY AnswersSame
<1> QED BY <1>1 DEF Phase, SplitPhase, HttpPhase

LEMMA PhaseOf ==
  ASSUME NEW r, NEW x, r.f = x.f, r.parser = x.parser, r.partial = x.partial, NEW p, NEW a, Phase(r, p, a)
  PROVE  Phase(x, p, a)
BY DEF Phase, SplitPhase, HttpPhase

(* q is what was asked on a connection and not yet read in full; m of that *)
(* was answered, and of the first answer p tokens were read.               *)
Following(l, q, m, p) ==
  /\ Asked(q) /\ m \in Nat /\ p \in 0 .. AnswerSize - 1 /\ Lies(l.stream, 0 - p, q, m)
  /\ Len(l.requests) = Len(q) - m /\ \A k \in 1 .. Len(q) - m : l.requests[k] = q[m + k]
  /\ Phase(Reading(l.f), p, q[1])
Fresh(l) == IF client = "cosmos" THEN partial = <<>> ELSE parser.state = 0 /\ l.f.framing = "lines"
OnTrack(l) ==
  /\ l.st \in {"open", "ended"} => \E q, m, p : Following(l, q, m, p)
  /\ l.st \in {"idle", "connecting"} => Fresh(l)
Exact == client \in {"cosmos", "matic"} /\ ~dead /\ garbled = {}
InStep == Exact => OnTrack(link[1])

LEMMA FollowingNext ==
  ASSUME client' = client, NEW l, NEW q, NEW m \in Nat, NEW p \in 0 .. AnswerSize - 1, Asked(q)', Lies(l.stream, 0 - p, q, m),
         Len(l.requests) = Len(q) - m, \A k \in 1 .. Len(q) - m : l.requests[k] = q[m + k],
         NEW x, Phase(x, p, q[1]), x.f = l.f, x.parser = parser', x.partial = partial'
  PROVE  Following(l, q, m, p)'
<1>1. AnswerSize' = AnswerSize /\ Lies(l.stream, 0 - p, q, m)'
  BY AnswersSame, LiesSame
<1>2. Phase(x, p, q[1])'
  BY PhaseSame
<1>3. Phase(Reading(l.f), p, q[1])'
  <2>1. Reading(l.f)'.f = x.f /\ Reading(l.f)'.parser = x.parser /\ Reading(l.f)'.partial = x.partial
    BY DEF Reading
  <2>2. PICK y : y = Reading(l.f)'
    OBVIOUS
  <2>3. Phase(y, p, q[1])'
    <3>1. Phase(y, p, q[1])
      BY <2>1, <2>2, PhaseOf
    <3> QED BY <3>1, PhaseSame
  <2> QED BY <2>2, <2>3
<1> QED BY <1>1, <1>3 DEF Following

LEMMA AskedSame ==
  ASSUME Requests \subseteq Requests', block_store \subseteq block_store', NEW q, Asked(q)
  PROVE  Asked(q)'
<1>1. Seq(Requests) \subseteq Seq(Requests')
  BY SeqsGrow
<1>2. q \in Seq(Requests')
  BY <1>1 DEF Asked
<1> QED BY <1>2 DEF Asked

LEMMA OnTrackSame ==
  ASSUME RpcBase, OnTrack(link[1]), UNCHANGED <<client, block_store, id, parser, partial>>, link'[1] = link[1]
  PROVE  OnTrack(link[1])'
<1>1. Requests' = Requests
  BY DEF Requests, Truth
<1>2. PICK l : l = link[1]
  OBVIOUS
<1>3. ASSUME l.st \in {"open", "ended"}
      PROVE  \E q, m, p : Following(l, q, m, p)'
  <2>1. PICK q, m, p : Following(l, q, m, p)
    BY <1>2, <1>3 DEF OnTrack
  <2>2. Asked(q)'
    BY <1>1, <2>1, AskedSame DEF Following
  <2>3. Following(l, q, m, p)'
    <3> DEFINE x == Reading(l.f)
    <3>1. Phase(x, p, q[1]) /\ x.f = l.f /\ x.parser = parser' /\ x.partial = partial'
      BY <2>1 DEF Following, Reading
    <3> HIDE DEF x
    <3> QED BY <2>1, <2>2, <3>1, FollowingNext DEF Following
  <2> QED BY <2>3
<1>4. l.st \in {"idle", "connecting"} => Fresh(l)'
  BY <1>2 DEF OnTrack, Fresh
<1> QED BY <1>2, <1>3, <1>4 DEF OnTrack

LEMMA AnswersOnTrack ==
  ASSUME RpcBase, client \in {"cosmos", "matic"}, OnTrack(link[1]), NEW c \in Links, Answers(c)
  PROVE  OnTrack(link[1])'
<1>1. link[c] \in LinksOf(Requests, Tokens) /\ link[c].requests \in Seq(Requests) /\ link[c].stream \in Seq(Tokens)
      /\ (client \in Chains /\ link[c].st # "idle" => c = 1)
  BY LinkTurns
<1>2. link[c].st = "open" /\ link[c].requests # <<>> /\ UNCHANGED <<client, block_store, id, parser, partial>>
  BY DEF Answers, Writes, bookVars, readVars
<1>3. c = 1
  BY <1>1, <1>2 DEF Chains
<1> DEFINE l == link[1]
           r == Head(l.requests)
           s == l.stream \o Answer(r.id, r.ok)
           w == Tail(l.requests)
           k == [l EXCEPT !.requests = w, !.stream = s]
<1>4. TurnedTo(1, k)
  BY <1>3 DEF Answers, Writes, TurnedTo
<1>5. r \in Requests /\ Answer(r.id, r.ok) \in Seq(Tokens)
  BY <1>1, <1>2, <1>3, AnswerTokens DEF RpcBase
<1>6. k.st = "open" /\ k.requests = w /\ k.stream = s /\ k.f = l.f
  <2> HIDE DEF w, s
  <2> QED BY <1>1, <1>2, <1>3 DEF LinksOf
<1>7. PICK q, m, p : Following(l, q, m, p)
  BY <1>2, <1>3 DEF OnTrack
<1>8. Asked(q) /\ m \in Nat /\ p \in 0 .. AnswerSize - 1 /\ Lies(l.stream, 0 - p, q, m) /\ q \in Seq(Requests)
      /\ Len(l.requests) = Len(q) - m /\ (\A i \in 1 .. Len(q) - m : l.requests[i] = q[m + i])
      /\ Phase(Reading(l.f), p, q[1]) /\ Len(q) \in Nat
  BY <1>7 DEF Following, Asked
<1> DEFINE rs == l.requests
<1>9. rs \in Seq(Requests) /\ rs # <<>> /\ Len(rs) \in Nat /\ Len(rs) >= 1 /\ r = rs[1]
  BY <1>1, <1>2, <1>3
<1>10. m < Len(q) /\ r = q[m + 1] /\ Len(w) = Len(q) - (m + 1) /\ \A i \in 1 .. Len(q) - (m + 1) : w[i] = q[(m + 1) + i]
  <2>1. Len(w) = Len(rs) - 1 /\ \A i \in 1 .. Len(rs) - 1 : w[i] = rs[i + 1]
    <3> HIDE DEF rs
    <3>1. w = Tail(rs)
      BY DEF rs
    <3> HIDE DEF w
    <3> QED BY <1>9, <3>1
  <2> DEFINE n == Len(rs)
             z == Len(q)
  <2>2. n \in Nat /\ n >= 1 /\ z \in Nat /\ n = z - m /\ m \in Nat /\ (\A i \in 1 .. z - m : rs[i] = q[m + i])
    BY <1>8, <1>9
  <2> HIDE DEF n, z, rs, w, r
  <2>3. m < z /\ n - 1 = z - (m + 1)
    BY <2>2
  <2>4. rs[1] = q[m + 1]
    BY <2>2
  <2>5. ASSUME NEW i \in 1 .. z - (m + 1) PROVE w[i] = q[(m + 1) + i]
    <3>1. i \in 1 .. n - 1 /\ i + 1 \in 1 .. z - m /\ m + (i + 1) = (m + 1) + i
      BY <2>2
    <3>2. w[i] = rs[i + 1]
      BY <2>1, <3>1 DEF n
    <3> DEFINE x == i + 1
    <3>3. x \in 1 .. z - m
      BY <3>1
    <3> HIDE DEF x
    <3>4. rs[x] = q[m + x]
      BY <2>2, <3>3
    <3> QED BY <3>1, <3>2, <3>4 DEF x
  <2> QED BY <1>9, <2>1, <2>3, <2>4, <2>5 DEF n, z
<1>11. Lies(s, 0 - p, q, m + 1)
  <2>1. client # "eth" /\ Answer(q[m + 1].id, q[m + 1].ok) \in Seq(Tokens)
    BY <1>5, <1>10
  <2>2. Lies(l.stream \o Answer(q[m + 1].id, q[m + 1].ok), 0 - p, q, m + 1)
    BY <1>1, <1>3, <1>8, <1>10, <2>1, LiesAppend
  <2> QED BY <1>10, <2>2
<1> HIDE DEF k, s, w
<1>12. link'[1] = k
  BY <1>1, <1>3, <1>4, TurnsTo
<1>13. Requests' = Requests
  BY <1>2 DEF Requests, Truth
<1>14. PICK e : e = k
  OBVIOUS
<1>15. Following(e, q, m + 1, p)'
  <2>1. Asked(q)'
    BY <1>2, <1>8, <1>13, AskedSame
  <2>2. m + 1 \in Nat
    BY <1>8
  <2> DEFINE x == Reading(l.f)
             i == m + 1
  <2>3. Phase(x, p, q[1]) /\ x.f = e.f /\ x.parser = parser' /\ x.partial = partial'
    BY <1>2, <1>6, <1>8, <1>14 DEF Reading
  <2>4. i \in Nat /\ Lies(e.stream, 0 - p, q, i) /\ Len(e.requests) = Len(q) - i /\ \A y \in 1 .. Len(q) - i : e.requests[y] = q[i + y]
    BY <1>6, <1>10, <1>11, <1>14, <2>2
  <2> HIDE DEF x, i
  <2>5. Following(e, q, i, p)'
    BY <1>2, <1>8, <2>1, <2>3, <2>4, FollowingNext
  <2> QED BY <2>5 DEF i
<1> QED
  <2>1. e.st = "open"
    BY <1>6, <1>14
  <2> QED BY <1>12, <1>14, <1>15, <2>1 DEF OnTrack

(* An end that cuts no answer leaves whole answers, or none.               *)
LEMMA CutsNone ==
  ASSUME client # "eth", NEW U \in Seq(Tokens), NEW q, NEW m, NEW p \in 0 .. AnswerSize - 1, Lies(U, 0 - p, q, m), Asked(q),
         NEW W, W = SubSeq(U, 1, Len(U)), ~Splits(W)
  PROVE  p = 0
<1> SUFFICES ASSUME p # 0 PROVE FALSE
  OBVIOUS
<1> DEFINE z == AnswerSize
           o == 0 - p
           n == Len(U)
<1>1. z = 3 \/ z = 6
  BY SizeIs
<1>2. m \in Nat /\ m <= Len(q) /\ o \in Int /\ n = o + z * m /\ n \in Nat /\ Len(q) \in Nat /\ q \in Seq(Requests)
  BY DEF Lies, Asked
<1>3. W = U
  OBVIOUS
<1> HIDE DEF z, n
<1>4. m >= 1 /\ n >= 1 /\ z - p \in 1 .. z - 1 /\ z - p <= n /\ p \in Nat /\ p > 0
  <2>1. CASE z = 3
    BY <1>2, <2>1 DEF z
  <2>2. CASE z = 6
    BY <1>2, <2>2 DEF z
  <2> QED BY <1>1, <2>1, <2>2
<1>5. \A x \in 1 .. n : U[x].of = q[1].id <=> x <= z - p
  <2>1. ASSUME NEW x \in 1 .. n PROVE U[x].of = q[1].id <=> x <= z - p
    <3>1. PICK j \in 1 .. m, k \in 1 .. z :
            x = Place(o, j, k) /\ U[x] = Answer(q[j].id, q[j].ok)[k] /\ (j = 1 <=> x <= o + z)
      <4>1. o <= 0 /\ x \in 1 .. Len(U) /\ o = 0 - p
        BY <1>4 DEF n
      <4> HIDE DEF o
      <4>2. Lies(U, o, q, m)
        BY <4>1
      <4> QED BY <4>1, <4>2, LiesCovers DEF z
    <3>2. j \in 1 .. Len(q) /\ 1 \in 1 .. Len(q)
      BY <1>2, <1>4
    <3>3. q[j] \in Requests
      BY <1>2, <3>2
    <3>4. q[j].id \in Nat /\ q[j].ok \in BOOLEAN
      BY <3>3 DEF Requests
    <3>5. U[x].of = q[j].id
      BY <3>1, <3>4, AnswerIs DEF z
    <3>6. q[j].id = q[1].id <=> j = 1
      BY <3>2 DEF Asked
    <3>7. o + z = z - p
      BY <1>1, <1>4
    <3> QED BY <3>1, <3>5, <3>6, <3>7
  <2> QED BY <2>1
<1> DEFINE same == {x \in DOMAIN U : U[x].of = U[1].of}
<1>6. same = 1 .. (z - p)
  <2>1. DOMAIN U = 1 .. n
    BY DEF n
  <2>2. 1 \in 1 .. n /\ 1 <= z - p
    BY <1>2, <1>4
  <2>3. U[1].of = q[1].id
    BY <1>5, <2>2
  <2>4. \A x : x \in same <=> x \in 1 .. n /\ x <= z - p
    BY <1>5, <2>1, <2>3
  <2>5. \A x : x \in 1 .. (z - p) <=> x \in 1 .. n /\ x <= z - p
    BY <1>2, <1>4
  <2> HIDE DEF same
  <2> QED BY <2>4, <2>5
<1>7. Cardinality(same) = z - p
  <2> DEFINE x == z - p
  <2>1. x \in Nat
    BY <1>1, <1>4
  <2> HIDE DEF x
  <2>2. Cardinality(1 .. x) = x
    BY <2>1, FS_Interval
  <2> QED BY <1>6, <2>2 DEF x
<1>8. U # <<>>
  <2>1. Len(U) # 0
    BY <1>4 DEF n
  <2> QED BY <2>1
<1>9. Len(Answer(U[1].of, TRUE)) = z
  <2>1. U[1] \in Tokens
    <3>1. 1 \in 1 .. Len(U)
      BY <1>2, <1>4 DEF n
    <3> QED BY <3>1
  <2>2. U[1].of \in Nat
    BY <2>1 DEF Tokens
  <2> QED BY <2>2, AnswerIs DEF z
<1>10. Splits(U)
  <2>1. z - p < z
    BY <1>1, <1>4
  <2> QED BY <1>7, <1>8, <1>9, <2>1 DEF Splits
<1> QED BY <1>3, <1>10

LEMMA IdsAre == Ids # {}
<1>1. Cardinality(Blocks) \in Nat /\ MaxQueries \in Nat
  BY RpcAssumption, FS_CardinalityType
<1>2. 0 \in Ids
  BY <1>1 DEF Ids
<1> QED BY <1>2

(* Requests i + 1 to n of those that were asked.                           *)
LEMMA AskedPart ==
  ASSUME NEW q, Asked(q), NEW n \in 0 .. Len(q), NEW i \in 0 .. n, NEW w, w = SubSeq(q, i + 1, n)
  PROVE  Asked(w) /\ Len(w) = n - i /\ \A k \in 1 .. n - i : w[k] = q[i + k] /\ i + k \in 1 .. Len(q)
<1>1. q \in Seq(Requests) /\ Len(q) \in Nat
  BY DEF Asked
<1>2. w \in Seq(Requests) /\ Len(w) = n - i /\ \A k \in 1 .. n - i : w[k] = q[i + k]
  <2> DEFINE T == Requests
             z == Len(q)
  <2>1. q \in Seq(T) /\ z \in Nat /\ n \in 0 .. z
    BY <1>1
  <2> HIDE DEF T
  <2>2. n \in Nat /\ n <= Len(q) /\ i \in Nat /\ i <= n
    BY <2>1
  <2>3. i + 1 \in 1 .. Len(q) + 1
    BY <2>1, <2>2
  <2>4. SubSeq(q, i + 1, n) \in Seq(T) /\ Len(SubSeq(q, i + 1, n)) = n - i
    BY <2>1, <2>2, <2>3
  <2>5. \A k \in 1 .. n - i : SubSeq(q, i + 1, n)[k] = q[i + k]
    <3>1. \A k \in 1 .. n - i : (i + 1 + k) - 1 = i + k
      BY <2>2
    <3> QED BY <2>1, <2>2, <2>3, <3>1
  <2> QED BY <2>4, <2>5 DEF T
<1>3. \A k \in 1 .. n - i : i + k \in 1 .. Len(q)
  BY <1>1
<1>4. ASSUME NEW x \in 1 .. Len(w), NEW y \in 1 .. Len(w), w[x].id = w[y].id
      PROVE  x = y
  <2>1. x \in 1 .. n - i /\ y \in 1 .. n - i
    BY <1>2
  <2> DEFINE a == i + x
             b == i + y
  <2>4. a \in 1 .. Len(q) /\ w[x] = q[a]
    BY <1>2, <1>3, <2>1
  <2>5. b \in 1 .. Len(q) /\ w[y] = q[b]
    BY <1>2, <1>3, <2>1
  <2>6. a = b => x = y
    <3>1. i \in Nat /\ x \in Int /\ y \in Int
      BY <2>1
    <3> QED BY <3>1
  <2>2. a \in 1 .. Len(q) /\ b \in 1 .. Len(q) /\ w[x] = q[a] /\ w[y] = q[b] /\ (a = b => x = y)
    BY <2>4, <2>5, <2>6
  <2> HIDE DEF a, b
  <2>3. a = b
    BY <1>4, <2>2 DEF Asked
  <2> QED BY <2>2, <2>3
<1>5. ASSUME NEW x \in 1 .. Len(w)
      PROVE  \E b \in block_store : b.id = w[x].id
  <2>1. x \in 1 .. n - i
    BY <1>2
  <2> DEFINE a == i + x
  <2>2. a \in 1 .. Len(q) /\ w[x] = q[a]
    BY <1>2, <1>3, <2>1
  <2> HIDE DEF a
  <2> QED BY <2>2 DEF Asked
<1> QED BY <1>2, <1>3, <1>4, <1>5 DEF Asked

LEMMA LiesPart ==
  ASSUME NEW U, NEW o, NEW q, NEW m, Lies(U, o, q, m), NEW w, Len(w) = m, \A k \in 1 .. m : w[k] = q[k]
  PROVE  Lies(U, o, w, m)
<1>1. m \in 0 .. m
  BY DEF Lies
<1> QED BY <1>1 DEF Lies

LEMMA EndsOnTrack ==
  ASSUME RpcBase, client \in {"cosmos", "matic"}, OnTrack(link[1]), NEW c \in Links, Ends(c), garbled' = {}
  PROVE  OnTrack(link[1])'
<1>1. link[c] \in LinksOf(Requests, Tokens) /\ link[c].stream \in Seq(Tokens)
      /\ (client \in Chains /\ link[c].st # "idle" => c = 1)
  BY LinkTurns
<1>2. UNCHANGED <<client, block_store, id, parser, partial>> /\ link[c].st = "open"
  BY DEF Ends, bookVars, readVars
<1>3. c = 1
  BY <1>1, <1>2 DEF Chains
<1> DEFINE l == link[1]
           U == l.stream
<1>4. PICK n \in {0, Len(U)} :
        /\ link' = [link EXCEPT ![1].st = "ended", ![1].requests = <<>>, ![1].stream = SubSeq(@, 1, n)]
        /\ ~Splits(SubSeq(U, n + 1, Len(U)))
  <2>1. PICK n \in {0, Len(link[c].stream)} :
          LET lost == SubSeq(link[c].stream, n + 1, Len(link[c].stream))
          IN /\ link' = [link EXCEPT ![c].st = "ended", ![c].requests = <<>>, ![c].stream = SubSeq(@, 1, n)]
             /\ garbled' = CASE client \in Queries -> IF lost # <<>> \/ link[c].requests # <<>>
                                                    THEN garbled \cup {c} ELSE garbled
                             [] client \in {"cosmos", "matic"} /\ Splits(lost) -> Ids
                             [] OTHER -> garbled
    BY DEF Ends
  <2>2. client \notin Queries
    BY DEF Queries
  <2> DEFINE lost == SubSeq(link[c].stream, n + 1, Len(link[c].stream))
  <2>3. Splits(lost) => garbled' = Ids
    BY <2>1, <2>2
  <2>4. ~Splits(lost)
    BY <2>3, IdsAre
  <2> QED BY <1>3, <2>1, <2>4
<1> DEFINE none == <<>>
           s == SubSeq(U, 1, n)
           k == [l EXCEPT !.st = "ended", !.requests = none, !.stream = s]
<1>5. TurnedTo(1, k)
  BY <1>4 DEF TurnedTo
<1>6. k.st = "ended" /\ k.requests = <<>> /\ k.stream = s /\ k.f = l.f
  <2> HIDE DEF s
  <2> QED BY <1>1, <1>3 DEF LinksOf
<1> HIDE DEF k
<1>7. link'[1] = k
  BY <1>1, <1>3, <1>5, TurnsTo
<1>8. PICK q, m, p : Following(l, q, m, p)
  BY <1>2, <1>3 DEF OnTrack
<1>9. Asked(q) /\ m \in Nat /\ p \in 0 .. AnswerSize - 1 /\ Lies(U, 0 - p, q, m) /\ Phase(Reading(l.f), p, q[1])
      /\ Len(q) \in Nat /\ m <= Len(q) /\ U \in Seq(Tokens) /\ Len(U) = (0 - p) + AnswerSize * m
  BY <1>1, <1>3, <1>8 DEF Following, Asked, Lies
<1>10. Requests' = Requests
  BY <1>2 DEF Requests, Truth
<1>11. Len(<<>>) = 0 /\ \A i \in 1 .. 0 : FALSE
  OBVIOUS
<1>12. PICK e : e = k
  OBVIOUS
<1> DEFINE x == Reading(l.f)
<1>13. x.f = e.f /\ x.parser = parser' /\ x.partial = partial'
  BY <1>2, <1>6, <1>12 DEF Reading
<1> HIDE DEF x
<1>14. CASE n = Len(U)
  <2> DEFINE w == SubSeq(q, 0 + 1, m)
  <2>1. m \in 0 .. Len(q) /\ 0 \in 0 .. m
    BY <1>9
  <2>2. Asked(w) /\ Len(w) = m - 0 /\ \A i \in 1 .. m - 0 : w[i] = q[0 + i] /\ 0 + i \in 1 .. Len(q)
    <3> HIDE DEF w
    <3> QED BY <1>9, <2>1, AskedPart DEF w
  <2> HIDE DEF w
  <2>3. Len(w) = m /\ (\A i \in 1 .. m : w[i] = q[i]) /\ m - m = 0
    BY <1>9, <2>2
  <2>4. Lies(U, 0 - p, w, m)
    BY <1>9, <2>3, LiesPart
  <2>5. s = U
    BY <1>9, <1>14
  <2>6. Phase(x, p, w[1])
    <3>1. CASE m = 0
      <4>1. p = 0
        <5> DEFINE u == Len(U)
        <5>1. u \in Nat /\ u = 0 - p /\ p \in Nat
          BY <1>9, <3>1, SizeIs
        <5> HIDE DEF u
        <5> QED BY <5>1
      <4> QED BY <1>9, <4>1, PhaseZero DEF x
    <3>2. CASE m # 0
      <4>1. 1 \in 1 .. m
        BY <1>9, <3>2
      <4>2. w[1] = q[1]
        BY <2>3, <4>1
      <4> QED BY <1>9, <4>2 DEF x
    <3> QED BY <3>1, <3>2
  <2>7. Asked(w)'
    BY <1>2, <1>10, <2>2, AskedSame
  <2>8. Following(e, w, m, p)'
    <3>1. Lies(e.stream, 0 - p, w, m) /\ Len(e.requests) = Len(w) - m
      BY <1>6, <1>11, <1>12, <2>3, <2>4, <2>5
    <3>2. \A i \in 1 .. Len(w) - m : e.requests[i] = w[m + i]
      BY <1>11, <2>3
    <3> QED BY <1>2, <1>9, <1>13, <2>6, <2>7, <3>1, <3>2, FollowingNext
  <2> QED BY <1>6, <1>7, <1>12, <2>8 DEF OnTrack
<1>15. CASE n = 0
  <2>1. p = 0
    <3>1. ~Splits(SubSeq(U, 1, Len(U)))
      BY <1>4, <1>15
    <3> HIDE DEF U
    <3> QED BY <1>9, <3>1, CutsNone
  <2> DEFINE w == <<>>
  <2>2. s = <<>>
    BY <1>9, <1>15
  <2>3. Asked(w)'
    <3>1. w \in Seq(Requests') /\ Len(w) = 0
      OBVIOUS
    <3> HIDE DEF w
    <3> QED BY <1>11, <3>1 DEF Asked
  <2>4. Lies(e.stream, 0 - 0, w, 0)
    <3>1. Len(e.stream) = 0 /\ Len(w) = 0
      BY <1>6, <1>11, <1>12, <2>2
    <3>2. 0 - 0 \in Int /\ (0 - 0) + AnswerSize * 0 = 0 /\ 0 \in 0 .. 0
      BY SizeIs
    <3> HIDE DEF w
    <3> QED BY <1>11, <3>1, <3>2 DEF Lies
  <2>5. Phase(x, 0, w[1])
    BY <1>9, <2>1, PhaseZero DEF x
  <2>6. Len(w) = 0 /\ Len(e.requests) = 0 /\ 0 - 0 = 0
    BY <1>6, <1>11, <1>12
  <2> HIDE DEF w
  <2>7. Following(e, w, 0, 0)'
    <3>1. Len(e.requests) = Len(w) - 0 /\ 0 \in 0 .. AnswerSize - 1 /\ 0 \in Nat
      BY <2>6, SizeIs
    <3>2. \A i \in 1 .. Len(w) - 0 : e.requests[i] = w[0 + i]
      BY <1>11, <2>6
    <3> QED BY <1>2, <1>13, <2>3, <2>4, <2>5, <3>1, <3>2, FollowingNext
  <2> QED BY <1>6, <1>7, <1>12, <2>7 DEF OnTrack
<1> QED BY <1>4, <1>14, <1>15

(* What lies in a stream once n tokens, and j answers, of it are read.     *)
LEMMA LiesPast ==
  ASSUME NEW U, NEW o, NEW q \in Seq(Requests), NEW m, Lies(U, o, q, m), NEW j \in 0 .. m,
         NEW w, Len(w) = Len(q) - j, \A k \in 1 .. Len(q) - j : w[k] = q[j + k]
  PROVE  Lies(U, o + AnswerSize * j, w, m - j)
<1> DEFINE z == AnswerSize
           v == o + z * j
           y == Len(q)
<1>1. z = 3 \/ z = 6
  BY SizeIs
<1>2. m \in Nat /\ m <= y /\ o \in Int /\ Len(U) = o + z * m /\ y \in Nat
  BY DEF Lies
<1> HIDE DEF z, y
<1>3. Len(U) = v + z * (m - j) /\ v \in Int
  <2>1. CASE z = 3
    BY <1>2, <2>1
  <2>2. CASE z = 6
    BY <1>2, <2>2
  <2> QED BY <1>1, <2>1, <2>2
<1>4. ASSUME NEW i \in 1 .. m - j, NEW k \in 1 .. z, Place(v, i, k) >= 1
      PROVE  U[Place(v, i, k)] = Answer(w[i].id, w[i].ok)[k]
  <2> DEFINE a == j + i
  <2>1. Place(v, i, k) = Place(o, a, k)
    <3>1. CASE z = 3
      BY <1>2, <3>1 DEF Place, z
    <3>2. CASE z = 6
      BY <1>2, <3>2 DEF Place, z
    <3> QED BY <1>1, <3>1, <3>2
  <2>2. a \in 1 .. m /\ i \in 1 .. y - j
    BY <1>2
  <2>3. w[i] = q[a]
    BY <2>2 DEF y
  <2> HIDE DEF a, v
  <2>4. U[Place(o, a, k)] = Answer(q[a].id, q[a].ok)[k]
    BY <1>4, <2>1, <2>2 DEF Lies, z
  <2> QED BY <2>1, <2>3, <2>4
<1>5. m - j \in 0 .. Len(w)
  BY <1>2 DEF y
<1> HIDE DEF v
<1> QED BY <1>3, <1>4, <1>5 DEF Lies, v, z

(* A read: the answers in it are those to the first j of the requests.     *)
LEMMA ReadFollows ==
  ASSUME RpcBase, client \in {"cosmos", "matic"}, 1 \in Links, NEW q, NEW m, NEW p, Following(link[1], q, m, p),
         NEW n \in 1 .. Len(link[1].stream),
         client = "cosmos" => \A k \in 1 .. n : Chunk(1, n)[k].last => Chunk(1, n)[k].ok
  PROVE  \E j \in Nat : Finished(ReadOf(1, n), Chunk(1, n), 0 - p, q, j)
<1> DEFINE l == link[1]
           U == l.stream
           V == Chunk(1, n)
           r == Reading(l.f)
           o == 0 - p
<1>1. U \in Seq(Tokens) /\ Len(U) \in Nat
  BY LinkTurns
<1>2. V \in Seq(Tokens) /\ Len(V) = n /\ (\A k \in 1 .. n : V[k] = U[k]) /\ r \in Readings
  BY ChunkIs
<1>3. Asked(q) /\ p \in 0 .. AnswerSize - 1 /\ Lies(U, o, q, m) /\ Phase(r, p, q[1]) /\ q \in Seq(Requests)
  BY DEF Following, Asked
<1>4. r.store = block_store /\ r.reports = {} /\ r.closes = 0
  BY DEF Reading
<1>5. ReadOf(1, n) = ReadBy(r, V)
  BY DEF ReadOf
<1> HIDE DEF r, V, U
<1>6. Settled(r, q, 0)
  BY <1>4 DEF Settled
<1>7. Heard(V, U, o, q, m)
  <2>1. client = "cosmos" => \A k \in 1 .. n : V[k].last => V[k].ok
    BY DEF V
  <2>2. Len(V) <= Len(U)
    BY <1>2 DEF U
  <2> HIDE DEF o
  <2> QED BY <1>1, <1>2, <1>3, <2>1, <2>2 DEF Heard
<1>8. 0 - o = p /\ p \in 0 .. AnswerSize - 1
  BY <1>3, SizeIs
<1> HIDE DEF o
<1>9. 0 - o \in 0 .. AnswerSize - 1 /\ Phase(r, 0 - o, q[1])
  BY <1>3, <1>8
<1>10. \E j \in Nat : Finished(ReadBy(r, V), V, o, q, j)
  BY <1>2, <1>6, <1>7, <1>9, ReadAll
<1> QED BY <1>5, <1>10 DEF V, o

LEMMA AnswersRead ==
  ASSUME NEW U, NEW o, NEW q, NEW m, Lies(U, o, q, m), NEW n \in 0 .. Len(U), NEW j \in Nat,
         (n - o) - AnswerSize * j \in 0 .. AnswerSize - 1
  PROVE  j \in 0 .. m
<1> DEFINE z == AnswerSize
<1>1. z = 3 \/ z = 6
  BY SizeIs
<1>2. m \in Nat /\ o \in Int /\ Len(U) = o + z * m /\ n \in Nat /\ n <= o + z * m /\ (n - o) - z * j >= 0
  <2>1. m \in Nat /\ o \in Int /\ Len(U) = o + z * m
    BY DEF Lies
  <2> DEFINE u == Len(U)
  <2>2. u \in Int /\ n \in 0 .. u
    BY <1>1, <2>1
  <2> HIDE DEF u
  <2>3. n \in Nat /\ n <= u
    BY <2>2
  <2>4. (n - o) - z * j >= 0
    BY <1>1
  <2> QED BY <2>1, <2>3, <2>4 DEF u
<1> HIDE DEF z
<1>3. CASE z = 3
  BY <1>2, <1>3
<1>4. CASE z = 6
  BY <1>2, <1>4
<1> QED BY <1>1, <1>3, <1>4

(* What is still to come when j of the answers were read.                  *)
LEMMA ReadOnTrack ==
  ASSUME RpcBase, client \in {"cosmos", "matic"}, 1 \in Links, NEW q, NEW m, NEW p, Following(link[1], q, m, p),
         NEW n \in 1 .. Len(link[1].stream), Read(1, n), NEW j \in Nat, Finished(ReadOf(1, n), Chunk(1, n), 0 - p, q, j)
  PROVE  OnTrack(link[1])'
<1> DEFINE l == link[1]
           U == l.stream
           o == 0 - p
           x == ReadOf(1, n)
           z == AnswerSize
           y == Len(q)
           s == SubSeq(U, n + 1, Len(U))
           k == [l EXCEPT !.f = x.f, !.stream = s]
           d == (n - o) - z * j
           w == SubSeq(q, j + 1, y)
<1>1. l \in LinksOf(Requests, Tokens) /\ U \in Seq(Tokens) /\ Len(U) \in Nat
  BY LinkTurns
<1>2. Len(Chunk(1, n)) = n /\ x \in Readings
  BY ChunkIs
<1>3. Asked(q) /\ m \in Nat /\ p \in 0 .. z - 1 /\ Lies(U, o, q, m) /\ q \in Seq(Requests) /\ y \in Nat /\ m <= y
      /\ Len(l.requests) = y - m /\ (\A i \in 1 .. y - m : l.requests[i] = q[m + i])
  BY DEF Following, Asked, Lies
<1>4. d \in 0 .. z - 1 /\ Phase(x, d, q[j + 1]) /\ Settled(x, q, j)
  BY <1>2 DEF Finished
<1>5. z = 3 \/ z = 6
  BY SizeIs
<1>6. TurnedTo(1, Closed(k, x.closes)) /\ parser' = x.parser /\ partial' = x.partial /\ block_store' = x.store
      /\ client' = client /\ id' = id
  BY DEF Read
<1>7. Closed(k, x.closes) = k
  BY <1>4 DEF Closed, Settled
<1>8. link'[1] = k
  BY <1>6, <1>7, TurnsTo
<1> HIDE DEF x, s
<1>9. k.f = x.f /\ k.stream = s /\ k.requests = l.requests
  BY <1>1 DEF LinksOf
<1> HIDE DEF k
<1>10. j \in 0 .. m
  <2>1. n \in 0 .. Len(U)
    BY <1>1
  <2> HIDE DEF o, U
  <2> QED BY <1>3, <1>4, <2>1, AnswersRead
<1>11. Asked(w) /\ Len(w) = y - j /\ \A i \in 1 .. y - j : w[i] = q[j + i] /\ j + i \in 1 .. Len(q)
  <2>1. y \in 0 .. Len(q) /\ j \in 0 .. y
    BY <1>3, <1>10
  <2> HIDE DEF y, w
  <2> QED BY <1>3, <2>1, AskedPart DEF w
<1> HIDE DEF w
<1>12. Lies(s, 0 - d, w, m - j)
  <2>1. Lies(s, o - n, q, m)
    <3>1. n \in 0 .. Len(U)
      BY <1>1
    <3> HIDE DEF o, U
    <3> QED BY <1>1, <1>3, <3>1, LiesAfter DEF s
  <2>2. (o - n) + z * j = 0 - d
    <3> HIDE DEF z
    <3>1. p \in Int /\ n \in Int
      BY <1>3, <1>5
    <3>2. CASE z = 3
      BY <3>1, <3>2
    <3>3. CASE z = 6
      BY <3>1, <3>3
    <3> QED BY <1>5, <3>2, <3>3
  <2> DEFINE v == o - n
  <2>3. Lies(s, v, q, m) /\ v + z * j = 0 - d
    BY <2>1, <2>2
  <2> HIDE DEF v, d
  <2>4. Lies(s, v + z * j, w, m - j)
    BY <1>3, <1>10, <1>11, <2>3, LiesPast
  <2> QED BY <2>3, <2>4
<1>13. Asked(w)'
  <2>1. x.store \subseteq block_store /\ id \in Nat
    BY <1>2 DEF Readings, RpcBase, RpcTypeOK
  <2>2. Requests \subseteq Requests'
    BY <1>6, <2>1, BooksGrow DEF RpcBase
  <2>3. w \in Seq(Requests')
    <3>1. Seq(Requests) \subseteq Seq(Requests')
      BY <2>2, SeqsGrow
    <3> QED BY <1>11, <3>1 DEF Asked
  <2>4. ASSUME NEW i \in 1 .. Len(w)
        PROVE  \E b \in block_store' : b.id = w[i].id
    <3> DEFINE a == j + i
    <3>1. i \in 1 .. y - j /\ a \in 1 .. Len(q) /\ w[i] = q[a] /\ a > j
      <4>1. i \in 1 .. y - j
        BY <1>11
      <4>2. w[i] = q[j + i] /\ j + i \in 1 .. Len(q)
        BY <1>11, <4>1
      <4> QED BY <4>1, <4>2
    <3> HIDE DEF a
    <3>2. PICK b \in block_store : b.id = q[a].id
      BY <1>3, <3>1 DEF Asked
    <3>3. \A e \in 1 .. j : b.id # q[e].id
      <4>1. ASSUME NEW e \in 1 .. j PROVE q[a].id # q[e].id
        <5>1. e \in 1 .. Len(q) /\ e # a
          BY <1>3, <1>10, <3>1
        <5> QED BY <1>3, <3>1, <5>1 DEF Asked
      <4> QED BY <3>2, <4>1
    <3>4. b \in x.store
      BY <1>4, <3>2, <3>3 DEF Settled
    <3> QED BY <1>6, <3>1, <3>2, <3>4
  <2> QED BY <1>11, <2>3, <2>4 DEF Asked
<1>14. PICK e : e = k
  OBVIOUS
<1>15. PICK h : h = d
  OBVIOUS
<1>16. Following(e, w, m - j, h)'
  <2> DEFINE g == m - j
  <2>1. g \in Nat /\ Len(e.requests) = Len(w) - g /\ \A i \in 1 .. Len(w) - g : e.requests[i] = w[g + i]
    <3> HIDE DEF w
    <3>1. e.requests = l.requests /\ Len(w) - g = y - m /\ g \in Nat
      BY <1>3, <1>9, <1>10, <1>11, <1>14
    <3>2. ASSUME NEW i \in 1 .. y - m PROVE w[g + i] = q[m + i]
      <4> DEFINE a == g + i
      <4>1. a \in 1 .. y - j /\ j + a = m + i
        BY <1>3, <1>10
      <4> HIDE DEF a
      <4>2. w[a] = q[j + a]
        BY <1>11, <4>1
      <4> QED BY <4>1, <4>2 DEF a
    <3> QED BY <1>3, <3>1, <3>2
  <2>2. Phase(x, d, w[1])
    <3>1. CASE j < y
      <4>1. 1 \in 1 .. y - j
        BY <1>3, <1>10, <3>1
      <4>2. w[1] = q[j + 1]
        BY <1>11, <4>1
      <4> QED BY <1>4, <4>2
    <3>2. CASE ~(j < y)
      <4>1. j = m
        BY <1>3, <1>10, <3>2
      <4>2. d = 0
        <5>1. Len(s) = (0 - d) + z * (m - m) /\ Len(s) >= 0
          <6>1. s \in Seq(Tokens)
            <7>1. n \in 0 .. Len(U)
              BY <1>1
            <7> QED BY <1>1, <7>1, PrefixOf DEF s
          <6>2. Len(s) = (0 - d) + z * (m - j)
            BY <1>12 DEF Lies
          <6> QED BY <4>1, <6>1, <6>2
        <5>2. d \in Nat /\ m - m = 0 /\ z * 0 = 0
          BY <1>3, <1>4, <1>5
        <5> HIDE DEF d, z
        <5> DEFINE u == Len(s)
        <5>3. u = (0 - d) + z * 0 /\ u >= 0
          BY <5>1, <5>2
        <5> HIDE DEF u
        <5> QED BY <5>2, <5>3
      <4> HIDE DEF d
      <4> QED BY <1>4, <4>2, PhaseZero
    <3> QED BY <3>1, <3>2
  <2>3. x.f = e.f /\ x.parser = parser' /\ x.partial = partial' /\ e.stream = s
    BY <1>6, <1>9, <1>14
  <2> HIDE DEF g, d
  <2>4. Lies(e.stream, 0 - d, w, g)
    BY <1>12, <2>3 DEF g
  <2>5. Following(e, w, g, h)'
    BY <1>4, <1>6, <1>13, <1>15, <2>1, <2>2, <2>3, <2>4, FollowingNext
  <2> QED BY <2>5 DEF g
<1> QED
  <2>1. k.st = l.st /\ l.st \in {"open", "ended"}
    <3>1. l.st \in {"open", "ended"}
      BY DEF Read
    <3> QED BY <1>1, <3>1 DEF k, LinksOf
  <2> QED BY <1>8, <1>14, <1>16, <2>1 DEF OnTrack

(* A connection ends when all that came was read, and so between answers.  *)
LEMMA EndedOnTrack ==
  ASSUME RpcBase, client \in {"cosmos", "matic"}, OnTrack(link[1]), NEW c \in Links, recv_cb_end(c)
  PROVE  OnTrack(link[1])'
<1>1. link[c] \in LinksOf(Requests, Tokens) /\ (client \in Chains /\ link[c].st # "idle" => c = 1)
  BY LinkTurns
<1>2. UNCHANGED <<client, parser, partial>> /\ link[c].st = "ended" /\ link[c].stream = <<>>
  BY DEF recv_cb_end, readVars
<1>3. c = 1
  BY <1>1, <1>2 DEF Chains
<1> DEFINE l == link[1]
           k == [l EXCEPT !.st = "idle"]
<1>4. TurnedTo(1, k)
  BY <1>3 DEF recv_cb_end, TurnedTo
<1>5. k.st = "idle" /\ k.f = l.f
  BY <1>1, <1>3 DEF LinksOf
<1> HIDE DEF k
<1>6. link'[1] = k
  BY <1>1, <1>3, <1>4, TurnsTo
<1>7. PICK q, m, p : Following(l, q, m, p)
  BY <1>2, <1>3 DEF OnTrack
<1>8. p \in 0 .. AnswerSize - 1 /\ Phase(Reading(l.f), p, q[1]) /\ m \in Nat /\ Len(<<>>) = (0 - p) + AnswerSize * m
  BY <1>2, <1>3, <1>7 DEF Following, Lies
<1>9. p = 0
  <2> DEFINE z == AnswerSize
  <2>1. (z = 3 \/ z = 6) /\ 0 = (0 - p) + z * m /\ p \in 0 .. z - 1 /\ m \in Nat
    BY <1>8, SizeIs
  <2> HIDE DEF z
  <2>2. CASE z = 3
    BY <2>1, <2>2
  <2>3. CASE z = 6
    BY <2>1, <2>3
  <2> QED BY <2>1, <2>2, <2>3
<1> DEFINE x == Reading(l.f)
<1>10. Phase(x, 0, q[1]) /\ x.parser = parser /\ x.partial = partial /\ x.f = l.f
  BY <1>8, <1>9 DEF Reading
<1> HIDE DEF x
<1>11. client = "cosmos" => partial = <<>>
  <2>1. partial \in Seq(Tokens)
    BY DEF RpcBase, RpcTypeOK, Digits
  <2>2. client = "cosmos" => Len(partial) = 0
    BY <1>10 DEF Phase, SplitPhase
  <2> QED BY <2>1, <2>2
<1>12. client # "cosmos" => parser.state = 0 /\ l.f.framing = "lines"
  BY <1>10 DEF Phase, HttpPhase
<1>13. PICK e : e = k
  OBVIOUS
<1>14. Fresh(e)'
  BY <1>2, <1>5, <1>11, <1>12, <1>13 DEF Fresh
<1>15. e.st = "idle"
  BY <1>5, <1>13
<1> QED BY <1>6, <1>13, <1>14, <1>15 DEF OnTrack

LEMMA DialsOnTrack ==
  ASSUME RpcBase, OneAttempt, client \in {"cosmos", "matic"}, 1 \in Links, OnTrack(link[1]), connect_timer_cb
  PROVE  OnTrack(link[1])'
<1>1. link[1] \in LinksOf(Requests, Tokens)
  BY LinkTurns
<1>2. UNCHANGED <<client, parser, partial>> /\ link[1].st = "idle"
  <2>1. client \in Chains /\ ~dead /\ timer # 0 /\ UNCHANGED <<client, parser, partial>>
    BY DEF connect_timer_cb, readVars
  <2> QED BY <2>1 DEF OneAttempt
<1> DEFINE l == link[1]
           k == [l EXCEPT !.st = "connecting"]
<1>3. TurnedTo(1, k)
  BY DEF connect_timer_cb, connect, TurnedTo
<1>4. k.st = "connecting" /\ k.f = l.f
  BY <1>1 DEF LinksOf
<1> HIDE DEF k
<1>5. link'[1] = k
  BY <1>3, TurnsTo
<1>6. PICK e : e = k
  OBVIOUS
<1>7. Fresh(e)'
  BY <1>2, <1>4, <1>6 DEF OnTrack, Fresh
<1>8. e.st = "connecting"
  BY <1>4, <1>6
<1> QED BY <1>5, <1>6, <1>7, <1>8 DEF OnTrack

LEMMA ConnectsOnTrack ==
  ASSUME RpcBase, client \in {"cosmos", "matic"}, 1 \in Links, OnTrack(link[1]), NEW ok \in BOOLEAN, connect_cb(ok)
  PROVE  OnTrack(link[1])'
<1> DEFINE l == link[1]
           st == IF ok THEN "open" ELSE "idle"
           f == IF ok THEN reset(l.f, LineLimit) ELSE l.f
           k == [NoLink EXCEPT !.st = st, !.f = f]
           none == <<>>
<1>1. UNCHANGED <<client, id, block_store, parser, partial>> /\ l.st = "connecting"
  BY DEF connect_cb, readVars, bookVars
<1>2. Fresh(l)
  BY <1>1 DEF OnTrack
<1>3. link' = [link EXCEPT ![1] = [NoLink EXCEPT !.st = IF ok THEN "open" ELSE "idle",
                                  !.f = IF ok THEN reset(link[1].f, LineLimit) ELSE link[1].f]]
  BY DEF connect_cb
<1>4. TurnedTo(1, k)
  BY <1>3 DEF TurnedTo
<1>5. k.st = st /\ k.f = f /\ k.stream = none /\ k.requests = none
  <2> HIDE DEF st, f
  <2> QED BY DEF NoLink
<1> HIDE DEF k
<1>6. link'[1] = k
  BY <1>4, TurnsTo
<1>7. PICK e : e = k
  OBVIOUS
<1>8. CASE ~ok
  <2>1. Fresh(e)'
    BY <1>1, <1>2, <1>5, <1>7, <1>8 DEF Fresh
  <2> QED BY <1>5, <1>6, <1>7, <1>8, <2>1 DEF OnTrack
<1>9. CASE ok
  <2> DEFINE x == Reading(f)
             w == <<>>
  <2>1. x.f = e.f /\ x.parser = parser' /\ x.partial = partial' /\ x.parser = parser /\ x.partial = partial
    BY <1>1, <1>5, <1>7 DEF Reading
  <2>2. Phase(x, 0, w[1])
    <3> DEFINE a == w[1]
    <3> HIDE DEF a
    <3>1. \A i : i \notin 1 .. 0
      OBVIOUS
    <3>2. CASE client = "cosmos"
      <4>1. x.partial = none
        BY <1>2, <2>1, <3>2 DEF Fresh
      <4>2. Len(none) = 0
        OBVIOUS
      <4> HIDE DEF x, none
      <4> QED BY <3>1, <3>2, <4>1, <4>2 DEF Phase, SplitPhase
    <3>3. CASE client # "cosmos"
      <4>1. x.parser.state = 0 /\ l.f.framing = "lines" /\ l.f \in Framings(Tokens)
        BY <1>2, <2>1, <3>3, LinkTurns DEF Fresh
      <4> DEFINE g == l.f
      <4>2. x.f = [g EXCEPT !.buf = none, !.room = LineLimit]
        BY <1>9, <4>1 DEF reset, Reading
      <4> HIDE DEF x
      <4>3. x.f.framing = "lines" /\ x.f.buf = none /\ x.f.room = LineLimit
        <5> HIDE DEF none
        <5> QED BY <4>1, <4>2 DEF Framings
      <4>4. Len(none) = 0
        OBVIOUS
      <4> HIDE DEF none, g
      <4>5. Begins(0) = 0 /\ LineLimit - (0 - 0) = LineLimit /\ 0 - 0 = 0
        BY RpcAssumption DEF Begins
      <4>6. HttpPhase(x, 0, a)
        BY <3>1, <4>1, <4>3, <4>4, <4>5 DEF HttpPhase
      <4> QED BY <3>3, <4>6 DEF Phase, a
    <3> QED BY <3>2, <3>3
  <2>3. Len(w) = 0 /\ \A i \in 1 .. 0 : FALSE
    OBVIOUS
  <2>4. Asked(w)'
    <3>1. w \in Seq(Requests')
      OBVIOUS
    <3> HIDE DEF w
    <3> QED BY <2>3, <3>1 DEF Asked
  <2>5. Len(e.stream) = 0 /\ Len(e.requests) = 0
    BY <1>5, <1>7, <2>3
  <2> HIDE DEF w, x
  <2>6. Lies(e.stream, 0 - 0, w, 0)
    <3>1. 0 - 0 \in Int /\ (0 - 0) + AnswerSize * 0 = 0 /\ 0 \in 0 .. 0
      BY SizeIs
    <3> QED BY <2>3, <2>5, <3>1 DEF Lies
  <2>7. Following(e, w, 0, 0)'
    <3>1. Len(e.requests) = Len(w) - 0 /\ 0 \in 0 .. AnswerSize - 1 /\ 0 \in Nat
      BY <2>3, <2>5, SizeIs
    <3>2. \A i \in 1 .. Len(w) - 0 : e.requests[i] = w[0 + i]
      BY <2>3
    <3> QED BY <1>1, <2>1, <2>2, <2>4, <2>6, <3>1, <3>2, FollowingNext
  <2> QED BY <1>5, <1>6, <1>7, <1>9, <2>7 DEF OnTrack
<1> QED BY <1>8, <1>9

(* A link whose stream and fibers stay as they are, and another request.   *)
LEMMA RequestFollows ==
  ASSUME client' = client, parser' = parser, partial' = partial, block_store \subseteq block_store',
         Requests \subseteq Requests', NEW l, NEW q, NEW m, NEW p, Following(l, q, m, p), l.requests \in Seq(Requests), l.stream \in Seq(Tokens),
         NEW r \in Requests', \A i \in 1 .. Len(q) : q[i].id # r.id, \E b \in block_store' : b.id = r.id,
         NEW e, e.stream = l.stream, e.f = l.f, e.requests = Append(l.requests, r)
  PROVE  \E w : Following(e, w, m, p)'
<1> DEFINE w == Append(q, r)
           z == Len(q)
           rs == l.requests
           x == Reading(l.f)
<1>1. Asked(q) /\ m \in Nat /\ p \in 0 .. AnswerSize - 1 /\ Lies(l.stream, 0 - p, q, m) /\ Phase(x, p, q[1])
      /\ Len(rs) = z - m /\ (\A k \in 1 .. z - m : rs[k] = q[m + k]) /\ m \in 0 .. z
  BY DEF Following, Lies
<1>2. q \in Seq(Requests') /\ z \in Nat /\ rs \in Seq(Requests')
  BY <1>1, SeqsGrow DEF Asked
<1> DEFINE R == Requests'
<1>3. w \in Seq(R) /\ Len(w) = z + 1 /\ w[z + 1] = r /\ \A i \in 1 .. z : w[i] = q[i]
  <2> HIDE DEF R
  <2>1. q \in Seq(R) /\ r \in R
    BY <1>2 DEF R
  <2> QED BY <2>1
<1> DEFINE es == Append(rs, r)
<1>4. Len(es) = (z - m) + 1 /\ es[(z - m) + 1] = r /\ \A i \in 1 .. z - m : es[i] = rs[i]
  <2> DEFINE u == Len(rs)
  <2>1. Len(es) = u + 1 /\ es[u + 1] = r /\ \A i \in 1 .. u : es[i] = rs[i]
    <3> HIDE DEF R, rs
    <3>1. rs \in Seq(R)
      BY <1>2 DEF R
    <3> QED BY <3>1
  <2>2. u = z - m
    BY <1>1
  <2> HIDE DEF u, es, z
  <2> QED BY <2>1, <2>2
<1> HIDE DEF w, R, x, es, rs
<1>5. Asked(w)'
  <2>1. \A i \in 1 .. z : \E b \in block_store' : b.id = q[i].id
    BY <1>1 DEF Asked
  <2>2. ASSUME NEW i \in 1 .. Len(w)
        PROVE  \E b \in block_store' : b.id = w[i].id
    <3>1. CASE i = z + 1
      BY <1>3, <3>1
    <3>2. CASE i # z + 1
      <4>1. i \in 1 .. z
        BY <1>2, <1>3, <3>2
      <4> QED BY <1>3, <2>1, <4>1
    <3> QED BY <3>1, <3>2
  <2>3. ASSUME NEW i \in 1 .. Len(w), NEW k \in 1 .. Len(w), w[i].id = w[k].id
        PROVE  i = k
    <3>1. \A a \in 1 .. z : a \in 1 .. Len(q) /\ w[a] = q[a] /\ w[a].id # r.id
      BY <1>3
    <3>2. (i \in 1 .. z \/ i = z + 1) /\ (k \in 1 .. z \/ k = z + 1)
      BY <1>2, <1>3
    <3>3. \A a, b \in 1 .. z : q[a].id = q[b].id => a = b
      BY <1>1 DEF Asked
    <3> QED BY <1>3, <2>3, <3>1, <3>2, <3>3
  <2> QED BY <1>3, <2>2, <2>3 DEF Asked, R
<1>6. Lies(e.stream, 0 - p, w, m)
  <2>1. Lies(l.stream, 0 - p, q, m)
    BY <1>1
  <2>2. m \in 0 .. Len(w) /\ \A i \in 1 .. m : w[i] = q[i]
    BY <1>1, <1>2, <1>3
  <2> QED BY <2>1, <2>2 DEF Lies
<1>7. Len(e.requests) = Len(w) - m /\ \A k \in 1 .. Len(w) - m : e.requests[k] = w[m + k]
  <2> HIDE DEF z
  <2>1. e.requests = es /\ Len(w) - m = (z - m) + 1
    BY <1>1, <1>2, <1>3 DEF es, rs
  <2>2. ASSUME NEW k \in 1 .. (z - m) + 1 PROVE es[k] = w[m + k]
    <3> DEFINE a == m + k
    <3>1. CASE k = (z - m) + 1
      <4>1. m + k = z + 1
        BY <1>1, <1>2, <3>1
      <4> QED BY <1>3, <1>4, <3>1, <4>1
    <3>2. CASE k # (z - m) + 1
      <4>1. k \in 1 .. z - m /\ a \in 1 .. z
        BY <1>1, <1>2, <3>2
      <4>2. es[k] = q[a]
        BY <1>1, <1>4, <4>1
      <4> QED BY <1>3, <4>1, <4>2
    <3> QED BY <3>1, <3>2
  <2> QED BY <1>4, <2>1, <2>2
<1>8. Phase(x, p, w[1])
  <2>1. CASE z = 0
    <3>1. m = 0 /\ Len(l.stream) \in Nat /\ Len(l.stream) = (0 - p) + AnswerSize * 0
      <4>1. m = 0
        BY <1>1, <2>1
      <4>2. Len(l.stream) \in Nat
        OBVIOUS
      <4> QED BY <1>1, <4>1, <4>2 DEF Lies
    <3>2. p = 0
      <4> DEFINE u == Len(l.stream)
      <4>1. u \in Nat /\ u = (0 - p) + 0 /\ p \in Nat
        BY <1>1, <3>1, SizeIs
      <4> HIDE DEF u
      <4> QED BY <4>1
    <3> QED BY <1>1, <3>2, PhaseZero
  <2>2. CASE z # 0
    <3>1. 1 \in 1 .. z
      BY <1>2, <2>2
    <3>2. w[1] = q[1]
      BY <1>3, <3>1
    <3> QED BY <1>1, <3>2
  <2> QED BY <2>1, <2>2
<1>9. x.f = e.f /\ x.parser = parser' /\ x.partial = partial'
  BY DEF Reading, x
<1>10. Following(e, w, m, p)'
  BY <1>1, <1>5, <1>6, <1>7, <1>8, <1>9, FollowingNext
<1> QED BY <1>10

LEMMA MessageOnTrack ==
  ASSUME RpcBase, client \in {"cosmos", "matic"}, 1 \in Links, OnTrack(link[1]),
         NEW m \in Blocks, NEW from \in Externals \cup Internals, did_recv_MESSAGE(m, from)
  PROVE  OnTrack(link[1])'
<1>1. client' = client /\ client \in Chains /\ UNCHANGED readVars /\ parser' = parser /\ partial' = partial
  BY MessageKinds DEF readVars
<1>2. CASE UNCHANGED <<link, id, block_store, dead>>
  BY <1>1, <1>2, OnTrackSame
<1>3. CASE analyze_block(m, from) /\ from \in Externals /\ relayed' = relayed
  <2> DEFINE l == link[1]
             r == Request(m)
             b == Block(m, from)
             rs == IF l.st = "open" THEN Append(l.requests, r) ELSE l.requests
             k == [l EXCEPT !.requests = rs]
  <2>1. /\ id' = id + 1 /\ id \in Nat /\ block_store' = block_store \cup {b} /\ (Sent(r) \/ UNCHANGED link)
        /\ Booked /\ Requests \subseteq Requests' /\ r \in Requests'
    BY <1>1, <1>3, BlockAsked
  <2>2. l \in LinksOf(Requests, Tokens) /\ l.requests \in Seq(Requests) /\ l.stream \in Seq(Tokens)
    BY LinkTurns
  <2>3. b.id = id /\ r.id = id /\ block_store \subseteq block_store' /\ \E y \in block_store' : y.id = r.id
    <3>1. b.id = id /\ r.id = id
      BY DEF Block, Request
    <3> HIDE DEF b, r
    <3> QED BY <2>1, <3>1
  <2> HIDE DEF r, b
  <2>4. ASSUME NEW e, e.st = l.st, e.stream = l.stream, e.f = l.f,
               e.requests = l.requests \/ (l.st = "open" /\ e.requests = Append(l.requests, r)), link'[1] = e
        PROVE  OnTrack(link[1])'
    <3>1. ASSUME l.st \in {"open", "ended"}
          PROVE  \E q, z, p : Following(e, q, z, p)'
      <4>1. PICK q, z, p : Following(l, q, z, p)
        BY <3>1 DEF OnTrack
      <4>2. Asked(q)'
        BY <2>1, <2>3, <4>1, AskedSame DEF Following
      <4>3. CASE e.requests = l.requests
        <5> DEFINE x == Reading(l.f)
        <5>1. x.f = e.f /\ x.parser = parser' /\ x.partial = partial'
          BY <1>1, <2>4 DEF Reading
        <5>2. /\ z \in Nat /\ p \in 0 .. AnswerSize - 1 /\ Lies(e.stream, 0 - p, q, z) /\ Phase(x, p, q[1])
              /\ Len(e.requests) = Len(q) - z /\ \A i \in 1 .. Len(q) - z : e.requests[i] = q[z + i]
          BY <2>4, <4>1, <4>3 DEF Following
        <5> HIDE DEF x
        <5>3. Following(e, q, z, p)'
          BY <1>1, <4>2, <5>1, <5>2, FollowingNext
        <5> QED BY <5>3
      <4>4. CASE e.requests = Append(l.requests, r)
        <5>1. \A i \in 1 .. Len(q) : q[i].id # r.id
          <6>1. ASSUME NEW i \in 1 .. Len(q) PROVE q[i].id # id
            <7>1. q[i] \in Requests
              BY <4>1 DEF Following, Asked
            <7> QED BY <1>1, <2>1, <7>1 DEF Requests
          <6> QED BY <2>3, <6>1
        <5>2. \E w : Following(e, w, z, p)'
          <6>1. PICK u : u = l
            OBVIOUS
          <6>2. PICK y : y = r
            OBVIOUS
          <6>3. y \in Requests' /\ (\A i \in 1 .. Len(q) : q[i].id # y.id) /\ (\E a \in block_store' : a.id = y.id)
            BY <2>1, <2>3, <5>1, <6>2
          <6>4. Following(u, q, z, p) /\ u.requests \in Seq(Requests) /\ u.stream \in Seq(Tokens) /\ e.stream = u.stream
                /\ e.f = u.f /\ e.requests = Append(u.requests, y)
            BY <2>2, <2>4, <4>1, <4>4, <6>1, <6>2
          <6> QED BY <1>1, <2>1, <2>3, <6>3, <6>4, RequestFollows
        <5> QED BY <5>2
      <4> QED BY <2>4, <4>3, <4>4
    <3>2. l.st \in {"idle", "connecting"} => Fresh(e)'
      BY <1>1, <2>4 DEF OnTrack, Fresh
    <3> QED BY <2>4, <3>1, <3>2 DEF OnTrack
  <2>5. CASE UNCHANGED link
    <3>1. PICK e : e = l
      OBVIOUS
    <3>2. link'[1] = e
      BY <2>5, <3>1
    <3> QED BY <2>4, <3>1, <3>2
  <2>6. CASE Sent(r)
    <3>1. TurnedTo(1, k)
      BY <2>2, <2>6 DEF Sent, TurnedTo
    <3>2. k.st = l.st /\ k.stream = l.stream /\ k.f = l.f /\ k.requests = rs
      <4> HIDE DEF rs
      <4> QED BY <2>2 DEF LinksOf
    <3> HIDE DEF k
    <3>3. link'[1] = k
      BY <3>1, TurnsTo
    <3>4. PICK e : e = k
      OBVIOUS
    <3>5. e.requests = l.requests \/ (l.st = "open" /\ e.requests = Append(l.requests, r))
      BY <3>2, <3>4
    <3>6. e.st = l.st /\ e.stream = l.stream /\ e.f = l.f /\ link'[1] = e
      BY <3>2, <3>3, <3>4
    <3> HIDE DEF rs, l
    <3> QED BY <2>4, <3>5, <3>6
  <2> QED BY <2>1, <2>5, <2>6
<1> QED BY <1>2, <1>3, MessageKinds

-----------------------------------------------------------------------------
(* The books of an adapter: what is asked, stored, answered and relayed    *)

(* A step that leaves the books alone.  What it may garble is everything.  *)
Quiet ==
  /\ UNCHANGED <<client, id, block_store, answered, due, relayed, message_id_set>>
  /\ garbled' = garbled \/ (client \in {"cosmos", "matic"} /\ garbled' = Ids)
  /\ dead => dead'

LEMMA QuietSteps ==
  ASSUME RpcBase, client \in Chains, NEW c \in Links,
         \/ Answers(c) \/ AnswersUnsized(c) \/ Ends(c) \/ did_close(c) \/ recv_cb_end(c) \/ fiber_recv_cb_end(c)
         \/ recv_cb_error(c) \/ dial_cb(c, TRUE) \/ dial_cb(c, FALSE)
  PROVE  Quiet
<1>1. client \notin Queries /\ (client \in {"cosmos", "matic"} \/ client = "eth")
  BY DEF Chains, Queries
<1>2. CASE Answers(c)
  BY <1>2 DEF Answers, Quiet, bookVars, readVars
<1>3. CASE AnswersUnsized(c)
  <2>1. client = "matic" /\ garbled' = Ids
    BY <1>1, <1>3 DEF AnswersUnsized
  <2> QED BY <1>3, <2>1 DEF AnswersUnsized, Quiet, bookVars
<1>4. CASE Ends(c)
  <2>1. garbled' = garbled \/ (client \in {"cosmos", "matic"} /\ garbled' = Ids)
    <3>1. PICK n \in {0, Len(link[c].stream)} :
            LET lost == SubSeq(link[c].stream, n + 1, Len(link[c].stream))
            IN garbled' = CASE client \in Queries -> IF lost # <<>> \/ link[c].requests # <<>>
                                                   THEN garbled \cup {c} ELSE garbled
                            [] client \in {"cosmos", "matic"} /\ Splits(lost) -> Ids
                            [] OTHER -> garbled
      BY <1>4 DEF Ends
    <3> DEFINE lost == SubSeq(link[c].stream, n + 1, Len(link[c].stream))
    <3>2. garbled' = CASE client \in Queries -> IF lost # <<>> \/ link[c].requests # <<>>
                                              THEN garbled \cup {c} ELSE garbled
                       [] client \in {"cosmos", "matic"} /\ Splits(lost) -> Ids
                       [] OTHER -> garbled
      BY <3>1
    <3> HIDE DEF lost
    <3> QED BY <1>1, <3>2
  <2>2. UNCHANGED <<client, bookVars, answered, due, dead>>
    BY <1>4 DEF Ends
  <2> QED BY <2>1, <2>2 DEF Quiet, bookVars
<1>5. CASE did_close(c)
  BY <1>5 DEF did_close, Quiet, bookVars, readVars
<1>6. CASE recv_cb_end(c)
  BY <1>6 DEF recv_cb_end, Quiet, bookVars, readVars
<1>7. CASE fiber_recv_cb_end(c)
  BY <1>7 DEF fiber_recv_cb_end, Quiet, bookVars, readVars
<1>8. CASE recv_cb_error(c)
  BY <1>1, <1>8 DEF recv_cb_error, Quiet, bookVars
<1>9. CASE dial_cb(c, TRUE) \/ dial_cb(c, FALSE)
  BY <1>1, <1>9 DEF dial_cb
<1> QED BY <1>2, <1>3, <1>4, <1>5, <1>6, <1>7, <1>8, <1>9

LEMMA ChainSteps ==
  ASSUME RpcBase, client \in Chains, RpcNext \/ UNCHANGED rpcVars
  PROVE  \/ Quiet
         \/ \E n \in 1 .. Len(link[1].stream) : Read(1, n)
         \/ \E m \in Blocks, p \in Externals \cup Internals : did_recv_MESSAGE(m, p)
<1>1. client # "grapher" /\ client # "stakes"
  BY DEF Chains
<1>2. ASSUME NEW c \in Links, recv_cb(c)
      PROVE  \E n \in 1 .. Len(link[1].stream) : Read(1, n)
  <2>1. PICK n \in 1 .. Len(link[c].stream) : Read(c, n)
    BY <1>2, ReadsChunk
  <2>2. c = 1
    <3>1. link[c].st # "idle"
      BY <2>1 DEF Read
    <3> QED BY <3>1, LinkTurns
  <2> QED BY <2>1, <2>2
<1>3. CASE connect_timer_cb \/ connect_cb(TRUE) \/ connect_cb(FALSE)
  BY <1>3 DEF connect_timer_cb, connect_cb, Quiet, bookVars, readVars
<1>4. ASSUME NEW p \in Externals \cup Internals, PeerLeaves(p)
      PROVE Quiet
  BY <1>4 DEF PeerLeaves, Quiet, bookVars, readVars
<1>5. CASE query \/ stakes_timer \/ dns_cb
  BY <1>1, <1>5 DEF query, stakes_timer, dns_cb
<1>6. CASE UNCHANGED rpcVars
  BY <1>6 DEF rpcVars, Quiet, bookVars, readVars
<1> QED BY <1>2, <1>3, <1>4, <1>5, <1>6, RpcStepKinds, QuietSteps

LEMMA ClientKept ==
  ASSUME RpcNext \/ UNCHANGED rpcVars
  PROVE  client' = client
<1>1. ASSUME NEW c \in Links, Answers(c) \/ AnswersUnsized(c) \/ Ends(c) \/ did_close(c) \/ recv_cb(c)
         \/ fiber_recv_cb_end(c) \/ recv_cb_error(c) \/ dial_cb(c, TRUE) \/ dial_cb(c, FALSE) \/ recv_cb_end(c)
      PROVE client' = client
  BY <1>1 DEF Answers, AnswersUnsized, Ends, did_close, recv_cb, fiber_recv_cb_end, recv_cb_error, dial_cb, recv_cb_end
<1>2. ASSUME connect_timer_cb \/ connect_cb(TRUE) \/ connect_cb(FALSE) \/ query \/ stakes_timer \/ dns_cb
      PROVE client' = client
  BY <1>2 DEF connect_timer_cb, connect_cb, query, stakes_timer, dns_cb
<1>3. ASSUME NEW m \in Blocks, NEW p \in Externals \cup Internals, did_recv_MESSAGE(m, p)
      PROVE client' = client
  BY <1>3 DEF did_recv_MESSAGE
<1>4. ASSUME NEW p \in Externals \cup Internals, PeerLeaves(p)
      PROVE client' = client
  BY <1>4 DEF PeerLeaves
<1> QED BY <1>1, <1>2, <1>3, <1>4, RpcStepKinds DEF rpcVars

(* Nothing that is garbled gets exact again.                               *)
GarbledAll == client \in {"cosmos", "matic"} => garbled \in {{}, Ids}

LEMMA ExactBefore ==
  ASSUME RpcBase, GarbledAll, RpcNext \/ UNCHANGED rpcVars
  PROVE  GarbledAll' /\ (Exact' => Exact)
<1>1. client' = client /\ Ids' = Ids
  BY ClientKept DEF Ids
<1> SUFFICES ASSUME client \in {"cosmos", "matic"}
             PROVE  garbled' \in {{}, Ids} /\ (~dead' /\ garbled' = {} => ~dead /\ garbled = {})
  BY <1>1 DEF GarbledAll, Exact
<1>2. client \in Chains /\ garbled \in {{}, Ids} /\ Ids # {}
  BY IdsAre DEF Chains, GarbledAll
<1>3. CASE Quiet
  BY <1>2, <1>3 DEF Quiet
<1>4. ASSUME NEW n \in 1 .. Len(link[1].stream), Read(1, n)
      PROVE  garbled' \in {{}, Ids} /\ (~dead' /\ garbled' = {} => ~dead /\ garbled = {})
  <2> DEFINE B == BadOf(1, n)
  <2>1. ~dead /\ garbled' = garbled \cup B
    BY <1>4 DEF Read
  <2>2. B = {} \/ B = Ids
    <3> DEFINE X == {Chunk(1, n)[k].of : k \in 1 .. n}
               some == \E k \in 1 .. n : Chunk(1, n)[k].last /\ ~Chunk(1, n)[k].ok
               v == Document(Chunk(1, n)).valid
    <3>1. B = CASE client = "eth" /\ ~v -> X [] client = "cosmos" /\ some -> Ids [] OTHER -> {}
      BY DEF BadOf
    <3> HIDE DEF X, some, v, B
    <3> QED BY <3>1
  <2> HIDE DEF B
  <2> QED BY <1>2, <2>1, <2>2
<1>5. ASSUME NEW m \in Blocks, NEW p \in Externals \cup Internals, did_recv_MESSAGE(m, p)
      PROVE  garbled' \in {{}, Ids} /\ (~dead' /\ garbled' = {} => ~dead /\ garbled = {})
  <2>1. ~dead /\ garbled' = garbled
    BY <1>5 DEF did_recv_MESSAGE, readVars
  <2> QED BY <1>2, <2>1
<1> QED BY <1>2, <1>3, <1>4, <1>5, ChainSteps

LEMMA CosmosSaidYes ==
  ASSUME NEW c, NEW n, Read(c, n), garbled' = {}
  PROVE  client = "cosmos" => \A k \in 1 .. n : Chunk(c, n)[k].last => Chunk(c, n)[k].ok
<1> SUFFICES ASSUME client = "cosmos", NEW k \in 1 .. n, Chunk(c, n)[k].last, ~Chunk(c, n)[k].ok
             PROVE  FALSE
  OBVIOUS
<1>1. \E i \in 1 .. n : Chunk(c, n)[i].last /\ ~Chunk(c, n)[i].ok
  OBVIOUS
<1>2. BadOf(c, n) = Ids
  BY <1>1 DEF BadOf
<1> QED BY <1>2, IdsAre DEF Read

LEMMA InStepKept ==
  ASSUME RpcBase, OneAttempt, InStep, GarbledAll, RpcNext \/ UNCHANGED rpcVars
  PROVE  InStep'
<1> SUFFICES ASSUME Exact' PROVE OnTrack(link[1])'
  BY DEF InStep
<1>1. client' = client /\ Exact /\ OnTrack(link[1]) /\ client \in {"cosmos", "matic"} /\ garbled = {} /\ ~dead
      /\ garbled' = {} /\ ~dead'
  BY ClientKept, ExactBefore DEF Exact, InStep
<1>2. 1 \in Links /\ client \in Chains /\ client \notin Queries /\ client # "grapher" /\ client # "stakes" /\ Ids # {}
  BY <1>1, IdsAre, RpcAssumption DEF Links, Chains, Queries
<1>3. ASSUME NEW c \in Links, Answers(c) \/ Ends(c) \/ recv_cb_end(c)
      PROVE OnTrack(link[1])'
  BY <1>1, <1>3, AnswersOnTrack, EndsOnTrack, EndedOnTrack
<1>4. ASSUME NEW c \in Links, AnswersUnsized(c) \/ did_close(c) \/ fiber_recv_cb_end(c) \/ dial_cb(c, TRUE) \/ dial_cb(c, FALSE)
      PROVE FALSE
  <2>1. CASE AnswersUnsized(c)
    BY <1>1, <1>2, <2>1 DEF AnswersUnsized
  <2>2. CASE did_close(c)
    BY <1>1, <1>2, <2>2 DEF did_close
  <2>3. CASE fiber_recv_cb_end(c) \/ dial_cb(c, TRUE) \/ dial_cb(c, FALSE)
    BY <1>1, <1>2, <2>3 DEF fiber_recv_cb_end, dial_cb
  <2> QED BY <1>4, <2>1, <2>2, <2>3
<1>5. ASSUME NEW c \in Links, recv_cb(c)
      PROVE OnTrack(link[1])'
  <2>1. PICK n \in 1 .. Len(link[c].stream) : Read(c, n)
    BY <1>5, ReadsChunk
  <2>2. c = 1 /\ link[c].st \in {"open", "ended"}
    <3>1. link[c].st \in {"open", "ended"}
      BY <2>1 DEF Read
    <3> QED BY <1>2, <3>1, LinkTurns
  <2>3. Read(1, n) /\ n \in 1 .. Len(link[1].stream)
    BY <2>1, <2>2
  <2>4. client = "cosmos" => \A k \in 1 .. n : Chunk(1, n)[k].last => Chunk(1, n)[k].ok
    BY <1>1, <2>3, CosmosSaidYes
  <2>5. PICK q, m, p : Following(link[1], q, m, p)
    BY <1>1, <2>2 DEF OnTrack
  <2>6. PICK j \in Nat : Finished(ReadOf(1, n), Chunk(1, n), 0 - p, q, j)
    BY <1>1, <1>2, <2>3, <2>4, <2>5, ReadFollows
  <2> QED BY <1>1, <1>2, <2>3, <2>5, <2>6, ReadOnTrack
<1>6. ASSUME NEW c \in Links, recv_cb_error(c)
      PROVE OnTrack(link[1])'
  <2>1. link[c].st \in {"open", "ended"} /\ link' = [link EXCEPT ![c] = Closed(@, 1)]
    BY <1>6 DEF recv_cb_error
  <2>2. c = 1 /\ link[1] \in LinksOf(Requests, Tokens)
    BY <1>2, <2>1, LinkTurns
  <2>3. TurnedTo(1, Closed(link[1], 1))
    BY <2>1, <2>2 DEF TurnedTo
  <2>4. link'[1] = Closed(link[1], 1)
    BY <1>2, <2>3, TurnsTo
  <2>5. Closed(link[1], 1).st = "closing"
    BY <2>2 DEF Closed, LinksOf
  <2> QED BY <2>4, <2>5 DEF OnTrack
<1>7. ASSUME NEW m \in Blocks, NEW p \in Externals \cup Internals, did_recv_MESSAGE(m, p)
      PROVE OnTrack(link[1])'
  BY <1>1, <1>2, <1>7, MessageOnTrack
<1>8. ASSUME NEW p \in Externals \cup Internals, PeerLeaves(p)
      PROVE OnTrack(link[1])'
  BY <1>1, <1>8, OnTrackSame DEF PeerLeaves, bookVars, readVars
<1>9. CASE connect_timer_cb
  BY <1>1, <1>2, <1>9, DialsOnTrack
<1>10. CASE connect_cb(TRUE) \/ connect_cb(FALSE)
  BY <1>1, <1>2, <1>10, ConnectsOnTrack
<1>11. CASE query \/ stakes_timer \/ dns_cb
  BY <1>2, <1>11 DEF query, stakes_timer, dns_cb
<1>12. CASE UNCHANGED rpcVars
  BY <1>1, <1>12, OnTrackSame DEF rpcVars, bookVars, readVars
<1> QED BY <1>3, <1>4, <1>5, <1>6, <1>7, <1>8, <1>9, <1>10, <1>11, <1>12, RpcStepKinds

(* What is reported as accepted was no spam.                               *)
LEMMA ReadsHonestly ==
  ASSUME RpcBase, 1 \in Links, client \in Chains, InStep, NEW n \in 1 .. Len(link[1].stream), Read(1, n),
         client = "cosmos" => garbled' = {}
  PROVE  Honest(ReadOf(1, n))
<1>1. CASE client # "cosmos"
  BY <1>1, ChunkIs
<1>2. CASE client = "cosmos"
  <2>1. garbled = {} /\ garbled' = {} /\ ~dead /\ link[1].st \in {"open", "ended"}
    BY <1>2 DEF Read
  <2>2. OnTrack(link[1])
    BY <1>2, <2>1 DEF InStep, Exact
  <2>3. PICK q, m, p : Following(link[1], q, m, p)
    BY <2>1, <2>2 DEF OnTrack
  <2>4. \A k \in 1 .. n : Chunk(1, n)[k].last => Chunk(1, n)[k].ok
    BY <1>2, <2>1, CosmosSaidYes
  <2>5. PICK j \in Nat : Finished(ReadOf(1, n), Chunk(1, n), 0 - p, q, j)
    BY <1>2, <2>3, <2>4, ReadFollows
  <2>6. Len(Chunk(1, n)) = n /\ ReadOf(1, n) \in Readings /\ link[1].stream \in Seq(Tokens)
    BY ChunkIs, LinkTurns
  <2> DEFINE U == link[1].stream
             o == 0 - p
             V == Chunk(1, n)
  <2>7. Asked(q) /\ Lies(U, o, q, m) /\ q \in Seq(Requests) /\ n \in 0 .. Len(U)
    BY <2>3, <2>6 DEF Following, Asked
  <2>8. Settled(ReadOf(1, n), q, j) /\ (n - o) - AnswerSize * j \in 0 .. AnswerSize - 1
    BY <2>5, <2>6 DEF Finished
  <2> HIDE DEF U, o, V
  <2>9. j \in 0 .. m /\ m \in 0 .. Len(q)
    BY <2>7, <2>8, AnswersRead DEF Lies
  <2>10. j \in 0 .. Len(q)
    BY <2>9
  <2> QED BY <2>6, <2>7, <2>8, <2>10, SettledHonest
<1> QED BY <1>1, <1>2

LEMMA RelayedKept ==
  ASSUME RpcBase, RpcBase', InStep, OnlyAcceptedRelayed, RpcNext \/ UNCHANGED rpcVars
  PROVE  OnlyAcceptedRelayed'
<1>1. client' = client
  BY ClientKept
<1> SUFFICES ASSUME client \in Chains, client = "cosmos" => garbled' = {}, NEW r \in relayed', r.from \in Externals
             PROVE  r.m \notin Spam
  BY <1>1 DEF OnlyAcceptedRelayed, RpcBase, OnlyChains
<1>2. 1 \in Links /\ Ids # {}
  BY RpcAssumption, IdsAre DEF Links
<1>3. (client = "cosmos" => garbled = {}) => \A x \in relayed : x.from \in Externals => x.m \notin Spam
  BY DEF OnlyAcceptedRelayed
<1>4. CASE Quiet
  BY <1>2, <1>3, <1>4 DEF Quiet
<1>5. ASSUME NEW n \in 1 .. Len(link[1].stream), Read(1, n)
      PROVE  r.m \notin Spam
  <2>1. Honest(ReadOf(1, n))
    BY <1>2, <1>5, ReadsHonestly
  <2>2. garbled \subseteq garbled'
    BY <1>5 DEF Read
  <2>3. CASE r \in relayed
    BY <1>3, <2>2, <2>3
  <2>4. CASE r \notin relayed
    <3>1. PICK b \in ReadOf(1, n).reports : r = [m |-> b.m, from |-> b.from]
      BY <1>5, <2>4 DEF Read, did_analyze_block
    <3> QED BY <2>1, <3>1 DEF Honest
  <2> QED BY <2>3, <2>4
<1>6. ASSUME NEW m \in Blocks, NEW p \in Externals \cup Internals, did_recv_MESSAGE(m, p)
      PROVE  r.m \notin Spam
  <2>1. garbled' = garbled /\ (relayed' = relayed \/ (p \notin Externals /\ relayed' = relayed \cup {[m |-> m, from |-> p]}))
    BY <1>6, MessageKinds DEF readVars
  <2> QED BY <1>3, <2>1
<1> QED BY <1>4, <1>5, <1>6, ChainSteps

(* The answers that end in the first n tokens of a stream.                 *)
Ending(V, n, q, j) ==
  /\ \A k \in 1 .. n : V[k].last => \E i \in 1 .. j : V[k].of = q[i].id
  /\ \A i \in 1 .. j : \E k \in 1 .. n : V[k].last = TRUE /\ V[k].of = q[i].id /\ V[k].ok = q[i].ok

LEMMA EndsOf ==
  ASSUME client # "eth", NEW U \in Seq(Tokens), NEW o, NEW q \in Seq(Requests), NEW m, Lies(U, o, q, m),
         0 - o \in 0 .. AnswerSize - 1, NEW n \in 1 .. Len(U), NEW V, \A k \in 1 .. n : V[k] = U[k],
         NEW j \in 0 .. m, (n - o) - AnswerSize * j \in 0 .. AnswerSize - 1
  PROVE  Ending(V, n, q, j)
<1> DEFINE z == AnswerSize
           g == (n - o) - z * j
           y == Len(U)
<1>1. z = 3 \/ z = 6
  BY SizeIs
<1>2. m \in Nat /\ m \in 0 .. Len(q) /\ o \in Int /\ y = o + z * m /\ y \in Nat
  BY DEF Lies
<1>3. \A i \in 1 .. m : q[i].id \in Nat /\ q[i].ok \in BOOLEAN
  <2>1. ASSUME NEW i \in 1 .. m PROVE q[i] \in Requests
    BY <1>2
  <2> QED BY <2>1 DEF Requests
<1> HIDE DEF z, g, y
<1>4. n \in Nat /\ n >= 1 /\ n <= y /\ g \in 0 .. z - 1 /\ g = (n - o) - z * j /\ o <= 0 /\ 0 - o <= z - 1 /\ j \in Nat /\ j <= m
  BY <1>1, <1>2 DEF y, g, z
<1>5. ASSUME NEW k \in 1 .. n, V[k].last
      PROVE  \E i \in 1 .. j : V[k].of = q[i].id
  <2>1. k \in 1 .. Len(U) /\ V[k] = U[k]
    BY <1>4 DEF y
  <2>2. PICK i \in 1 .. m, x \in 1 .. z : k = Place(o, i, x) /\ U[k] = Answer(q[i].id, q[i].ok)[x]
    BY <1>4, <2>1, LiesCovers DEF z
  <2>3. U[k].of = q[i].id /\ (U[k].last <=> x = z)
    <3> DEFINE a == Answer(q[i].id, q[i].ok)
    <3>1. q[i].id \in Nat /\ q[i].ok \in BOOLEAN
      BY <1>3, <2>2
    <3>4. \A e \in 1 .. z : a[e].of = q[i].id /\ (a[e].last <=> e = z)
      BY <3>1, AnswerIs, SMTT(30) DEF z
    <3>2. a[x].of = q[i].id /\ (a[x].last <=> x = z)
      <4> HIDE DEF a
      <4> QED BY <2>2, <3>4
    <3> HIDE DEF a
    <3>3. U[k] = a[x]
      BY <2>2 DEF a
    <3> QED BY <3>2, <3>3
  <2>4. x = z /\ k = o + (z * (i - 1) + x)
    BY <1>5, <2>1, <2>2, <2>3 DEF Place, z
  <2>5. i <= j
    <3>1. CASE z = 3
      BY <1>2, <1>4, <2>4, <3>1
    <3>2. CASE z = 6
      BY <1>2, <1>4, <2>4, <3>2
    <3> QED BY <1>1, <3>1, <3>2
  <2>6. i \in 1 .. j
    BY <1>2, <1>4, <2>5
  <2> QED BY <2>1, <2>3, <2>6
<1>6. ASSUME NEW i \in 1 .. j
      PROVE  \E k \in 1 .. n : V[k].last = TRUE /\ V[k].of = q[i].id /\ V[k].ok = q[i].ok
  <2> DEFINE k == Place(o, i, z)
             a == Answer(q[i].id, q[i].ok)
  <2>1. k \in 1 .. n /\ i \in 1 .. m /\ z \in 1 .. z /\ k >= 1
    <3>1. k = o + (z * (i - 1) + z)
      BY DEF Place, z
    <3> HIDE DEF k
    <3>2. CASE z = 3
      BY <1>2, <1>4, <3>1, <3>2
    <3>3. CASE z = 6
      BY <1>2, <1>4, <3>1, <3>3
    <3> QED BY <1>1, <3>2, <3>3
  <2>2. U[k] = a[z]
    BY <2>1 DEF Lies, z
  <2>3. a[z].of = q[i].id /\ (a[z].last <=> z = z) /\ a[z].ok = q[i].ok
    BY <1>3, <2>1, AnswerIs DEF z
  <2> HIDE DEF k, a
  <2>4. V[k] = U[k] /\ k \in 1 .. Len(U)
    BY <1>4, <2>1 DEF y
  <2>5. U[k] \in Tokens
    BY <2>4
  <2>6. U[k].last \in BOOLEAN
    BY <2>5 DEF Tokens
  <2> QED BY <2>1, <2>2, <2>3, <2>4, <2>6
<1> QED BY <1>5, <1>6 DEF Ending

(* A read takes the blocks that are answered in full out of the store, and *)
(* reports those that were accepted, unless it garbles them.               *)
Booking(n) ==
  /\ \A b \in block_store : b.id \notin garbled' => (b \in ReadOf(1, n).store <=> b.id \notin WholeOf(1, n))
  /\ \A b \in TakenOf(1, n) : b.id \in garbled' \/ b \in ReadOf(1, n).reports

LEMMA HeardBooks ==
  ASSUME RpcBase, 1 \in Links, client \in {"cosmos", "matic"}, InStep, garbled' = {},
         NEW n \in 1 .. Len(link[1].stream), Read(1, n)
  PROVE  Booking(n)
<1> DEFINE l == link[1]
           U == l.stream
           V == Chunk(1, n)
           x == ReadOf(1, n)
<1>1. garbled = {} /\ ~dead /\ l.st \in {"open", "ended"}
  BY DEF Read
<1>2. PICK q, m, p : Following(l, q, m, p)
  <2>1. OnTrack(link[1])
    BY <1>1 DEF InStep, Exact
  <2> QED BY <1>1, <2>1 DEF OnTrack
<1>3. PICK j \in Nat : Finished(x, V, 0 - p, q, j)
  <2>1. client = "cosmos" => \A k \in 1 .. n : Chunk(1, n)[k].last => Chunk(1, n)[k].ok
    BY CosmosSaidYes
  <2> QED BY <1>2, <2>1, ReadFollows
<1> DEFINE o == 0 - p
<1>4. Len(V) = n /\ (\A k \in 1 .. n : V[k] = U[k]) /\ U \in Seq(Tokens) /\ Len(U) \in Nat
  BY ChunkIs, LinkTurns
<1>5. Asked(q) /\ Lies(U, o, q, m) /\ q \in Seq(Requests) /\ p \in 0 .. AnswerSize - 1
  BY <1>2 DEF Following, Asked
<1>6. Settled(x, q, j) /\ (n - o) - AnswerSize * j \in 0 .. AnswerSize - 1
  BY <1>3, <1>4 DEF Finished
<1>7. 0 - o \in 0 .. AnswerSize - 1
  BY <1>5, SizeIs
<1> HIDE DEF x, V, U, o
<1>8. j \in 0 .. m
  <2>1. n \in 0 .. Len(U)
    BY <1>4 DEF U
  <2> QED BY <1>5, <1>6, <2>1, AnswersRead
<1>9. Ending(V, n, q, j)
  <2>1. n \in 1 .. Len(U) /\ client # "eth"
    BY DEF U
  <2> QED BY <1>4, <1>5, <1>6, <1>7, <1>8, <2>1, EndsOf
<1> DEFINE W == WholeOf(1, n)
<1>10. W = {t.of : t \in {V[k] : k \in {k \in 1 .. n : V[k].last}}}
  BY DEF WholeOf, V
<1> HIDE DEF W
<1>11. \A e : e \in W <=> \E i \in 1 .. j : e = q[i].id
  <2>1. ASSUME NEW e \in W PROVE \E i \in 1 .. j : e = q[i].id
    <3>1. PICK k \in 1 .. n : V[k].last /\ e = V[k].of
      BY <1>10
    <3> QED BY <1>9, <3>1 DEF Ending
  <2>2. ASSUME NEW i \in 1 .. j PROVE q[i].id \in W
    <3>1. PICK k \in 1 .. n : V[k].last = TRUE /\ V[k].of = q[i].id
      BY <1>9 DEF Ending
    <3> QED BY <1>10, <3>1
  <2> QED BY <2>1, <2>2
<1>12. ASSUME NEW b \in block_store
       PROVE  b \in x.store <=> b.id \notin W
  BY <1>6, <1>11 DEF Settled
<1>13. ASSUME NEW b \in TakenOf(1, n)
       PROVE  b \in x.reports
  <2>1. b \in block_store /\ b.id \in W /\ \A k \in 1 .. n : V[k].of = b.id => V[k].ok
    BY DEF TakenOf, W, V
  <2>2. PICK i \in 1 .. j : b.id = q[i].id
    BY <1>11, <2>1
  <2>3. PICK k \in 1 .. n : V[k].of = q[i].id /\ V[k].ok = q[i].ok
    BY <1>9 DEF Ending
  <2>4. q[i].ok
    BY <2>1, <2>2, <2>3
  <2> QED BY <1>6, <2>1, <2>2, <2>4 DEF Settled
<1> QED BY <1>12, <1>13 DEF Booking, x, W

(* eth: what was read is one answer, or no document at all.                *)
LEMMA ParsedBooks ==
  ASSUME RpcBase, 1 \in Links, client = "eth", NEW n \in 1 .. Len(link[1].stream), Read(1, n)
  PROVE  Booking(n)
<1> DEFINE V == Chunk(1, n)
           r == Reading(link[1].f)
           d == Document(V)
           x == ReadOf(1, n)
           W == WholeOf(1, n)
<1>1. Len(V) = n /\ V \in Seq(Tokens) /\ r \in Readings /\ n >= 1
  BY ChunkIs
<1>2. r.store = block_store /\ r.reports = {}
  BY DEF Reading
<1>3. x = IF d.valid THEN Verdict(r, d) ELSE r
  BY DEF ReadOf, ReadBy, Whole
<1>4. W = {t.of : t \in {V[k] : k \in {k \in 1 .. n : V[k].last}}}
  BY DEF WholeOf
<1>5. garbled' = garbled \cup BadOf(1, n)
  BY DEF Read
<1>6. \A b \in TakenOf(1, n) : b \in block_store /\ b.id \in W /\ \A k \in 1 .. n : V[k].of = b.id => V[k].ok
  BY DEF TakenOf
<1>7. BadOf(1, n) = IF d.valid THEN {} ELSE {V[k].of : k \in 1 .. n}
  BY DEF BadOf
<1>8. CASE ~d.valid
  <2> HIDE DEF V, x, W, r
  <2>1. W \subseteq garbled'
    BY <1>4, <1>5, <1>7, <1>8
  <2>2. x.store = block_store
    BY <1>2, <1>3, <1>8
  <2> QED BY <1>6, <2>1, <2>2 DEF Booking, x, W
<1>9. CASE d.valid
  <2>1. PICK i, ok : V = Body(i, ok) /\ d = [valid |-> TRUE, id |-> i, ok |-> ok]
    <3>1. PICK k \in DOMAIN V : V = Body(V[k].of, V[k].ok)
      <4> HIDE DEF V
      <4> QED BY <1>9 DEF Document
    <3> DEFINE a == V[k].of
               e == V[k].ok
    <3>2. V = Body(a, e)
      BY <3>1
    <3> HIDE DEF V, a, e
    <3>3. d = [valid |-> TRUE, id |-> a, ok |-> e]
      BY <3>2, DocumentOfBody
    <3> QED BY <3>2, <3>3
  <2> HIDE DEF V, x, W, r
  <2>2. V[1] = Token("body", i, 1, ok, FALSE) /\ V[2] = Token("body", i, 2, ok, TRUE) /\ n = 2
    <3>1. V = [k \in 1 .. 2 |-> V[k]] /\ V[1] = Token("body", i, 1, ok, FALSE) /\ V[2] = Token("body", i, 2, ok, TRUE)
      <4> DEFINE b == Body(i, ok)
      <4>1. b = [k \in 1 .. 2 |-> b[k]] /\ b[1] = Token("body", i, 1, ok, FALSE) /\ b[2] = Token("body", i, 2, ok, TRUE)
        BY BodyIs
      <4> HIDE DEF b
      <4>2. V = b
        BY <2>1 DEF b
      <4> QED BY <4>1, <4>2
    <3>2. DOMAIN [k \in 1 .. 2 |-> V[k]] = 1 .. 2
      OBVIOUS
    <3>3. DOMAIN V = 1 .. 2
      BY <3>1, <3>2
    <3>4. DOMAIN V = 1 .. n
      BY <1>1
    <3>5. n = 2
      <4>1. 1 .. n = 1 .. 2 /\ n \in Nat
        BY <1>1, <3>3, <3>4
      <4>2. n \in 1 .. n /\ 2 \in 1 .. 2
        BY <1>1, <4>1
      <4>3. n \in 1 .. 2 /\ 2 \in 1 .. n
        BY <4>1, <4>2, Zenon
      <4>4. n <= 2 /\ 2 <= n
        BY <4>1, <4>3
      <4> QED BY <4>1, <4>4
    <3> QED BY <3>1, <3>5
  <2>3. V[1].of = i /\ V[2].of = i /\ V[1].last = FALSE /\ V[2].last = TRUE /\ V[2].ok = ok /\ V[1].ok = ok
    BY <2>2 DEF Token
  <2>4. W = {i}
    <3>1. {k \in 1 .. n : V[k].last} = {2}
      <4>1. \A k : k \in 1 .. n <=> k = 1 \/ k = 2
        BY <2>2
      <4>2. \A k \in 1 .. n : V[k].last <=> k = 2
        BY <2>3, <4>1
      <4> QED BY <4>1, <4>2
    <3> QED BY <1>4, <2>3, <3>1
  <2>5. d.id = i /\ d.ok = ok /\ d.ok \in BOOLEAN
    BY <1>1, <2>1, DocumentIs
  <2>6. x = Verdict(r, d)
    BY <1>3, <1>9
  <2> DEFINE a == [id |-> i, ok |-> ok]
  <2>7. AnsweredBy(x, r, a)
    <3>1. a.id = i /\ a.ok = ok /\ a.ok \in BOOLEAN
      BY <2>5
    <3>2. d = [valid |-> TRUE, id |-> a.id, ok |-> a.ok]
      BY <2>1, <3>1
    <3> HIDE DEF a, d
    <3> QED BY <1>1, <2>6, <3>1, <3>2, VerdictIs
  <2>8. a.id = i /\ a.ok = ok
    OBVIOUS
  <2> HIDE DEF a, d
  <2>9. x.store = {b \in block_store : b.id # i} /\ (ok => x.reports = {b \in block_store : b.id = i})
    BY <1>2, <2>7, <2>8 DEF AnsweredBy
  <2>10. ASSUME NEW b \in TakenOf(1, n) PROVE b \in x.reports
    <3>1. b \in block_store /\ b.id = i /\ V[2].ok
      <4>1. 2 \in 1 .. n
        BY <2>2
      <4> QED BY <1>6, <2>3, <2>4, <4>1
    <3> QED BY <2>3, <2>9, <3>1
  <2> QED BY <2>4, <2>9, <2>10 DEF Booking, x, W
<1> QED BY <1>8, <1>9

(* No more ids are given out than there are blocks, and all that was read  *)
(* was asked.                                                              *)
Counted ==
  client \in Chains =>
    /\ \A i \in answered : i \in Nat /\ i < id
    /\ message_id_set \subseteq Blocks /\ id <= Cardinality(message_id_set)
    /\ \A d \in due : d.id \in Nat /\ d.id < id

LEMMA CountedKept ==
  ASSUME RpcBase, Counted, RpcNext \/ UNCHANGED rpcVars
  PROVE  Counted'
<1>1. client' = client
  BY ClientKept
<1> SUFFICES ASSUME client \in Chains
             PROVE  /\ \A i \in answered' : i \in Nat /\ i < id'
                    /\ message_id_set' \subseteq Blocks /\ id' <= Cardinality(message_id_set')
                    /\ \A d \in due' : d.id \in Nat /\ d.id < id'
  BY <1>1 DEF Counted
<1>2. (\A i \in answered : i \in Nat /\ i < id) /\ message_id_set \subseteq Blocks /\ id <= Cardinality(message_id_set)
      /\ (\A d \in due : d.id \in Nat /\ d.id < id) /\ id \in Nat
      /\ block_store \subseteq Stored /\ \A b \in block_store : b.id < id
  BY DEF Counted, RpcBase, RpcTypeOK
<1>3. CASE Quiet
  BY <1>2, <1>3 DEF Quiet
<1>4. ASSUME NEW n \in 1 .. Len(link[1].stream), Read(1, n)
      PROVE  /\ \A i \in answered' : i \in Nat /\ i < id'
             /\ message_id_set' \subseteq Blocks /\ id' <= Cardinality(message_id_set')
             /\ \A d \in due' : d.id \in Nat /\ d.id < id'
  <2> DEFINE V == Chunk(1, n)
             W == WholeOf(1, n)
  <2>1. V \in Seq(Tokens) /\ Len(V) = n
    <3>1. 1 \in Links
      BY RpcAssumption DEF Links
    <3> QED BY <3>1, ChunkIs
  <2>2. W = {t.of : t \in {V[k] : k \in {k \in 1 .. n : V[k].last}}}
    BY DEF WholeOf
  <2>3. answered' = answered \cup W /\ id' = id /\ message_id_set' = message_id_set
        /\ due' = due \cup {[m |-> b.m, from |-> b.from, id |-> b.id] : b \in TakenOf(1, n)}
    BY <1>4 DEF Read
  <2>4. ASSUME NEW i \in W PROVE i \in Nat /\ i < id
    <3> HIDE DEF V
    <3>1. PICK k \in 1 .. n : i = V[k].of
      BY <2>2
    <3>2. V[k] \in Tokens
      BY <2>1, <3>1
    <3> QED BY <3>1, <3>2 DEF Tokens
  <2>5. ASSUME NEW b \in TakenOf(1, n) PROVE b.id \in Nat /\ b.id < id
    BY <1>2 DEF TakenOf, Stored
  <2> HIDE DEF V, W
  <2>6. \A d \in due' : d \in due \/ \E b \in TakenOf(1, n) : d.id = b.id
    BY <2>3
  <2>7. \A i \in answered' : i \in Nat /\ i < id'
    BY <1>2, <2>3, <2>4
  <2>8. \A d \in due' : d.id \in Nat /\ d.id < id'
    BY <1>2, <2>3, <2>5, <2>6
  <2> QED BY <1>2, <2>3, <2>7, <2>8
<1>5. ASSUME NEW m \in Blocks, NEW p \in Externals \cup Internals, did_recv_MESSAGE(m, p)
      PROVE  /\ \A i \in answered' : i \in Nat /\ i < id'
             /\ message_id_set' \subseteq Blocks /\ id' <= Cardinality(message_id_set')
             /\ \A d \in due' : d.id \in Nat /\ d.id < id'
  <2>1. answered' = answered /\ due' = due /\ m \notin message_id_set /\ message_id_set' = message_id_set \cup {m}
    BY <1>5, MessageKinds DEF readVars
  <2>2. id' = id \/ id' = id + 1
    BY <1>5, MessageKinds DEF analyze_block
  <2>3. IsFiniteSet(message_id_set)
    BY <1>2, RpcAssumption, FS_Subset
  <2>4. Cardinality(message_id_set) \in Nat
    BY <2>3, FS_CardinalityType
  <2>5. Cardinality(message_id_set') = Cardinality(message_id_set) + 1
    BY <2>1, <2>3, FS_AddElement
  <2> DEFINE x == Cardinality(message_id_set)
             y == Cardinality(message_id_set')
  <2>6. x \in Nat /\ y = x + 1 /\ id <= x
    BY <1>2, <2>4, <2>5
  <2> HIDE DEF x, y
  <2>7. id' <= y /\ id <= id' /\ id' \in Nat
    BY <1>2, <2>2, <2>6
  <2> QED BY <1>2, <2>1, <2>7 DEF y
<1> QED BY <1>3, <1>4, <1>5, ChainSteps

(* What is stored is what was not answered, and what is due was relayed.   *)
Stores == \A i \in Nat : i \notin garbled => ((\E b \in block_store : b.id = i) <=> (i < id /\ i \notin answered))
Relays == \A d \in due : d.id \in garbled \/ [m |-> d.m, from |-> d.from] \in relayed
Matched == client \in Chains /\ ~dead => Stores /\ Relays

LEMMA IdsCover ==
  ASSUME NEW set, set \subseteq Blocks, NEW i \in Nat, i < Cardinality(set)
  PROVE  i \in Ids
<1>1. IsFiniteSet(Blocks) /\ IsFiniteSet(set) /\ MaxQueries \in Nat
  BY RpcAssumption, FS_Subset
<1>2. Cardinality(set) <= Cardinality(Blocks) /\ Cardinality(set) \in Nat /\ Cardinality(Blocks) \in Nat
  BY <1>1, FS_Subset, FS_CardinalityType, RpcAssumption
<1> DEFINE x == Cardinality(Blocks)
           y == Cardinality(set)
<1>3. x \in Nat /\ y \in Nat /\ y <= x /\ i < y
  BY <1>2
<1> HIDE DEF x, y
<1>4. i \in 0 .. x + MaxQueries
  BY <1>1, <1>3
<1> QED BY <1>4 DEF Ids, x

LEMMA MatchedKept ==
  ASSUME RpcBase, RpcBase', Counted, Counted', InStep, GarbledAll, Matched, RpcNext \/ UNCHANGED rpcVars
  PROVE  Matched'
<1>1. client' = client /\ GarbledAll'
  BY ClientKept, ExactBefore
<1> SUFFICES ASSUME client \in Chains, ~dead' PROVE Stores' /\ Relays'
  BY <1>1 DEF Matched
<1>2. 1 \in Links /\ (client = "eth" \/ client \in {"cosmos", "matic"})
  BY RpcAssumption DEF Links, Chains
<1>3. /\ \A i \in answered : i \in Nat /\ i < id
      /\ id \in Nat /\ \A b \in block_store : b.id \in Nat /\ b.id < id
  BY DEF Counted, RpcBase, RpcTypeOK, Stored
<1>4. CASE garbled' = Ids
  <2>1. message_id_set' \subseteq Blocks /\ id' <= Cardinality(message_id_set') /\ id' \in Nat
        /\ (\A d \in due' : d.id \in Nat /\ d.id < id')
        /\ \A b \in block_store' : b.id < id'
    BY <1>1 DEF Counted, RpcBase, RpcTypeOK
  <2>2. ASSUME NEW i \in Nat, i < id' PROVE i \in garbled'
    <3> DEFINE x == Cardinality(message_id_set')
    <3>1. x \in Nat
      <4>1. IsFiniteSet(message_id_set')
        BY <2>1, RpcAssumption, FS_Subset
      <4> QED BY <4>1, FS_CardinalityType
    <3>2. id' <= x
      BY <2>1
    <3> HIDE DEF x
    <3>3. i < x
      BY <2>1, <2>2, <3>1, <3>2
    <3> QED BY <1>4, <2>1, <3>3, IdsCover DEF x
  <2>3. Stores'
    BY <2>1, <2>2 DEF Stores
  <2>4. Relays'
    BY <2>1, <2>2 DEF Relays
  <2> QED BY <2>3, <2>4
<1>5. CASE garbled' # Ids
  <2>1. CASE Quiet
    BY <1>5, <2>1 DEF Quiet, Matched, Stores, Relays
  <2>2. ASSUME NEW n \in 1 .. Len(link[1].stream), Read(1, n)
        PROVE  Stores' /\ Relays'
    <3> DEFINE W == WholeOf(1, n)
               x == ReadOf(1, n)
    <3>1. ~dead /\ answered' = answered \cup W /\ id' = id /\ block_store' = x.store /\ garbled \subseteq garbled'
          /\ due' = due \cup {[m |-> b.m, from |-> b.from, id |-> b.id] : b \in TakenOf(1, n)}
          /\ relayed' = relayed \cup {[m |-> b.m, from |-> b.from] : b \in {b \in x.reports : b.from \in up}}
      BY <2>2 DEF Read, did_analyze_block
    <3>2. Booking(n)
      <4>1. CASE client = "eth"
        BY <1>2, <2>2, <4>1, ParsedBooks
      <4>2. CASE client \in {"cosmos", "matic"}
        <5>1. garbled' = {}
          BY <1>1, <1>5, <4>2 DEF GarbledAll
        <5> QED BY <1>2, <2>2, <4>2, <5>1, HeardBooks
      <4> QED BY <1>2, <4>1, <4>2
    <3>3. x.store \subseteq block_store
      BY <1>2, ChunkIs DEF Readings
    <3>4. Stores /\ Relays
      BY <3>1 DEF Matched
    <3>5. /\ \A b \in block_store : b.id \notin garbled' => (b \in x.store <=> b.id \notin W)
          /\ \A b \in TakenOf(1, n) : b.id \in garbled' \/ b \in x.reports
      BY <3>2 DEF Booking
    <3>6. \A b \in TakenOf(1, n) : b.from \in up
      BY DEF TakenOf
    <3> HIDE DEF W, x
    <3>7. Stores'
      <4>1. ASSUME NEW i \in Nat, i \notin garbled'
            PROVE  (\E b \in block_store' : b.id = i) <=> (i < id' /\ i \notin answered')
        <5>1. (\E b \in block_store : b.id = i) <=> (i < id /\ i \notin answered)
          BY <3>1, <3>4, <4>1 DEF Stores
        <5>2. (\E b \in block_store' : b.id = i) <=> ((\E b \in block_store : b.id = i) /\ i \notin W)
          BY <3>1, <3>3, <3>5, <4>1
        <5> QED BY <3>1, <5>1, <5>2
      <4> QED BY <4>1 DEF Stores
    <3>8. Relays'
      <4>1. ASSUME NEW d \in due' PROVE d.id \in garbled' \/ [m |-> d.m, from |-> d.from] \in relayed'
        <5>1. CASE d \in due
          BY <3>1, <3>4, <5>1 DEF Relays
        <5>2. CASE d \notin due
          <6>1. PICK b \in TakenOf(1, n) : d = [m |-> b.m, from |-> b.from, id |-> b.id]
            BY <3>1, <5>2
          <6>2. d.m = b.m /\ d.from = b.from /\ d.id = b.id
            BY <6>1
          <6> QED BY <3>1, <3>5, <3>6, <6>2
        <5> QED BY <5>1, <5>2
      <4> QED BY <4>1 DEF Relays
    <3> QED BY <3>7, <3>8
  <2>3. ASSUME NEW m \in Blocks, NEW p \in Externals \cup Internals, did_recv_MESSAGE(m, p)
        PROVE  Stores' /\ Relays'
    <3>1. ~dead /\ answered' = answered /\ due' = due /\ garbled' = garbled /\ relayed \subseteq relayed' /\ UNCHANGED readVars
      <4>1. ~dead
        BY <2>3 DEF did_recv_MESSAGE
      <4> QED BY <2>3, <4>1, MessageKinds DEF readVars
    <3>2. Stores /\ Relays
      BY <3>1 DEF Matched
    <3>3. Relays'
      BY <3>1, <3>2 DEF Relays
    <3>4. CASE UNCHANGED <<link, id, block_store, dead>>
      BY <3>1, <3>2, <3>3, <3>4 DEF Stores
    <3>5. CASE analyze_block(m, p) /\ p \in Externals /\ relayed' = relayed
      <4> DEFINE a == Block(m, p)
      <4>1. id' = id + 1 /\ block_store' = block_store \cup {a} /\ a.id = id
        <5>1. a.id = id
          BY DEF Block
        <5> QED BY <1>1, <3>1, <3>5, <5>1, BlockAsked
      <4> HIDE DEF a
      <4>2. ASSUME NEW i \in Nat, i \notin garbled'
            PROVE  (\E b \in block_store' : b.id = i) <=> (i < id' /\ i \notin answered')
        <5>1. (\E b \in block_store : b.id = i) <=> (i < id /\ i \notin answered)
          BY <3>1, <3>2, <4>2 DEF Stores
        <5>2. (\E b \in block_store' : b.id = i) <=> ((\E b \in block_store : b.id = i) \/ i = id)
          BY <4>1
        <5>3. id \notin answered /\ (i < id' <=> (i < id \/ i = id))
          BY <1>3, <4>1
        <5> QED BY <3>1, <5>1, <5>2, <5>3
      <4>3. Stores'
        BY <4>2 DEF Stores
      <4> QED BY <3>3, <4>3
    <3> QED BY <2>3, <3>4, <3>5, MessageKinds
  <2> QED BY <2>1, <2>2, <2>3, ChainSteps
<1> QED BY <1>4, <1>5

LEMMA MatchedIsExact ==
  ASSUME RpcBase, Counted, Matched
  PROVE  BooksExact
<1> SUFFICES ASSUME client \in Chains, ~dead
             PROVE  /\ {b.id : b \in block_store} \ garbled = (0 .. id - 1) \ (answered \cup garbled)
                    /\ \A d \in due : d.id \in garbled \/ [m |-> d.m, from |-> d.from] \in relayed
  BY DEF BooksExact
<1>1. Stores /\ Relays /\ id \in Nat /\ \A b \in block_store : b.id \in Nat
  BY DEF Matched, RpcBase, RpcTypeOK, Stored
<1>2. ASSUME NEW i
      PROVE  i \in {b.id : b \in block_store} \ garbled <=> i \in (0 .. id - 1) \ (answered \cup garbled)
  <2>1. CASE i \in Nat
    <3>1. i \in 0 .. id - 1 <=> i < id
      BY <1>1, <2>1
    <3> QED BY <1>1, <2>1, <3>1 DEF Stores
  <2>2. CASE i \notin Nat
    BY <1>1, <2>2
  <2> QED BY <2>1, <2>2
<1>3. {b.id : b \in block_store} \ garbled = (0 .. id - 1) \ (answered \cup garbled)
  BY <1>2
<1> QED BY <1>1, <1>3 DEF Relays

-----------------------------------------------------------------------------
(* The theorems                                                            *)

ChainKept == RpcKept /\ InStep /\ GarbledAll /\ OnlyAcceptedRelayed /\ Counted /\ Matched

LEMMA ChainInitially ==
  ASSUME RpcInit
  PROVE  ChainKept
<1>1. RpcKept
  BY RpcInitially
<1>2. /\ link = [c \in Links |-> IF client \in Chains /\ c = 1 THEN [NoLink EXCEPT !.st = "connecting"] ELSE NoLink]
      /\ id = 0 /\ block_store = {} /\ partial = <<>> /\ parser = [state |-> 0, length |-> 0]
      /\ message_id_set = {} /\ relayed = {} /\ answered = {} /\ due = {} /\ garbled = {}
  BY DEF RpcInit
<1>3. InStep
  <2> SUFFICES ASSUME client \in {"cosmos", "matic"} PROVE OnTrack(link[1])
    BY DEF InStep, Exact
  <2>1. 1 \in Links /\ client \in Chains
    BY RpcAssumption DEF Links, Chains
  <2> DEFINE k == [NoLink EXCEPT !.st = "connecting"]
  <2>2. link[1] = k
    BY <1>2, <2>1
  <2>3. k.st = "connecting" /\ k.f = Lines
    BY DEF NoLink
  <2> HIDE DEF k
  <2>4. Lines.framing = "lines"
    BY DEF Lines
  <2>5. Fresh(link[1])
    BY <1>2, <2>2, <2>3, <2>4 DEF Fresh
  <2> QED BY <2>2, <2>3, <2>5 DEF OnTrack
<1>4. GarbledAll /\ OnlyAcceptedRelayed
  BY <1>2 DEF GarbledAll, OnlyAcceptedRelayed
<1>5. Counted
  <2>1. Cardinality({}) = 0
    BY FS_EmptySet
  <2> QED BY <1>2, <2>1 DEF Counted
<1>6. Matched
  BY <1>2 DEF Matched, Stores, Relays
<1> QED BY <1>1, <1>3, <1>4, <1>5, <1>6 DEF ChainKept

LEMMA ChainStepKept ==
  ASSUME ChainKept, RpcNext \/ UNCHANGED rpcVars
  PROVE  ChainKept'
<1>1. RpcKept /\ InStep /\ GarbledAll /\ OnlyAcceptedRelayed /\ Counted /\ Matched
  BY DEF ChainKept
<1>2. RpcKept'
  BY <1>1, RpcKeptStep
<1>3. RpcBase /\ RpcBase' /\ OneAttempt
  BY <1>1, <1>2 DEF RpcKept
<1>4. InStep' /\ GarbledAll'
  BY <1>1, <1>3, InStepKept, ExactBefore
<1>5. OnlyAcceptedRelayed'
  BY <1>1, <1>3, RelayedKept
<1>6. Counted'
  BY <1>1, <1>3, CountedKept
<1>7. Matched'
  BY <1>1, <1>3, <1>6, MatchedKept
<1> QED BY <1>2, <1>4, <1>5, <1>6, <1>7 DEF ChainKept

(* What an external peer sent is relayed only if the chain node takes it   *)
(* for no spam, whatever is cut, lost or answered late meanwhile (did_recv *)
(* of the Abcis, PubSubNode::did_analyze_block).                           *)
THEOREM OnlyAcceptedRelayedAlways == RpcSpec => []OnlyAcceptedRelayed
<1>1. RpcInit => ChainKept
  BY ChainInitially
<1>2. ChainKept /\ [RpcNext]_rpcVars => ChainKept'
  BY ChainStepKept
<1>3. ChainKept => OnlyAcceptedRelayed
  BY DEF ChainKept
<1> QED BY <1>1, <1>2, <1>3, PTL DEF RpcSpec

(* Every answer is taken for the request it answers: stored is just what   *)
(* was not answered, and what was accepted while its sender was connected  *)
(* is relayed (did_recv and block_store of the Abcis).                     *)
THEOREM BooksExactAlways == RpcSpec => []BooksExact
<1>1. RpcInit => ChainKept
  BY ChainInitially
<1>2. ChainKept /\ [RpcNext]_rpcVars => ChainKept'
  BY ChainStepKept
<1>3. ChainKept => BooksExact
  BY MatchedIsExact DEF ChainKept, RpcKept
<1> QED BY <1>1, <1>2, <1>3, PTL DEF RpcSpec

-----------------------------------------------------------------------------
(* A query that reads its answer                                           *)

(* It reads it as it was written, to the end; or, after a query that left  *)
(* the parser in a body, it takes the first line for the body and loses    *)
(* the rest.  D are the documents understood.                              *)
Straight(r, p, a, D) ==
  IF p < 6 THEN HttpPhase(r, p, a) /\ r.closes = 0 ELSE r.parser.state = 0 /\ a.id \in D
Misread(r, p) ==
  p < 2 /\ r.parser.state = 1 /\ r.f.room = LineLimit - p /\ Len(r.f.buf) = p /\ r.closes = 0
Astray(r, p) == r.f.framing = "lines" /\ (Misread(r, p) \/ (r.parser.state = 0 /\ r.f.room = 0))
Heeds(r, p, a, D, way) == IF way = "straight" THEN Straight(r, p, a, D) ELSE Astray(r, p)

LEMMA NoRoomLeft ==
  ASSUME NEW f, f.room = 0, NEW rest \in Seq(Tokens), rest # <<>>
  PROVE  NextLine(f, rest) = Frame(FALSE, f, <<>>, <<>>)
<1> DEFINE ends == {n \in DOMAIN rest : rest[n].k = "\n"}
           size == IF ends = {} THEN Len(rest) ELSE Min(ends)
           text == SubSeq(rest, 1, size)
<1>1. NextLine(f, rest) =
        CASE ~HasRoom(f, text) -> Frame(FALSE, f, <<>>, <<>>)
          [] HasRoom(f, text) /\ ends = {} -> Frame(FALSE, Buffered(f, text), <<>>, <<>>)
          [] OTHER -> Frame(TRUE, Lines, f.buf \o text, SubSeq(rest, size + 1, Len(rest)))
  BY DEF NextLine
<1>2. Len(rest) \in Nat /\ Len(rest) >= 1 /\ ends \subseteq 1 .. Len(rest)
  OBVIOUS
<1> HIDE DEF ends
<1>3. size \in 1 .. Len(rest)
  <2>1. CASE ends = {}
    BY <1>2, <2>1
  <2>2. CASE ends # {}
    <3>1. Min(ends) \in ends
      BY <1>2, <2>2, LeastIs
    <3> QED BY <1>2, <2>2, <3>1
  <2> QED BY <2>1, <2>2
<1> HIDE DEF size
<1>4. Len(text) = size
  BY <1>3
<1> HIDE DEF text
<1>5. ~HasRoom(f, text)
  BY <1>3, <1>4 DEF HasRoom
<1> QED BY <1>1, <1>5

(* What StakeRequester and Grapher make of a body.                         *)
LEMMA QueryParsed ==
  ASSUME client \in Queries, NEW r \in Readings, r.parser.state = 1, NEW text
  PROVE  /\ Handed(r, text).parser.state = 0 /\ Handed(r, text).f = r.f
         /\ Handed(r, text).documents = Documents(r, Document(text))
<1>1. r.parser \in Parsers /\ DOMAIN r.parser = {"state", "length"} /\ r.closes \in Nat
  BY DEF Readings, Parsers
<1> DEFINE x == Documents(r, Document(text))
<1>2. CASE client = "grapher"
  <2> DEFINE n == r.closes + 1
             q == [r.parser EXCEPT !.state = 0]
             t == [r EXCEPT !.documents = x, !.parser = q, !.closes = n]
  <2>1. Handed(r, text) = GraphParsed(r, text)
    BY <1>2 DEF Handed
  <2>2. GraphParsed(r, text) = t
    BY DEF GraphParsed
  <2>3. q.state = 0
    BY <1>1
  <2> HIDE DEF x, n, q
  <2>4. t.parser = q /\ t.f = r.f /\ t.documents = x
    BY DEF Readings
  <2> HIDE DEF t
  <2> QED BY <2>1, <2>2, <2>3, <2>4 DEF x
<1>3. CASE client = "stakes"
  <2> DEFINE q == [state |-> 0, length |-> 0]
             t == [r EXCEPT !.documents = x, !.parser = q]
  <2>1. Handed(r, text) = StakesParsed(r, text)
    BY <1>3 DEF Handed
  <2>2. StakesParsed(r, text) = t
    BY DEF StakesParsed
  <2>3. q.state = 0
    OBVIOUS
  <2> HIDE DEF x, q
  <2>4. t.parser = q /\ t.f = r.f /\ t.documents = x
    BY DEF Readings
  <2> HIDE DEF t
  <2> QED BY <2>1, <2>2, <2>3, <2>4 DEF x
<1> QED BY <1>2, <1>3 DEF Queries

LEMMA StraightStep ==
  ASSUME client \in Queries, NEW s, s.r \in Readings, s.rest \in Seq(Tokens), s.rest # <<>>,
         NEW a, a.id \in Nat, a.ok \in BOOLEAN, NEW p \in 0 .. 5, Follows(s.rest, p, a),
         Straight(s.r, p, a, s.r.documents)
  PROVE  \E c \in 1 .. Len(s.rest) :
           /\ p + c <= 6 /\ ReadFrame(s).rest = SubSeq(s.rest, c + 1, Len(s.rest))
           /\ Straight(ReadFrame(s).r, p + c, a, ReadFrame(s).r.documents)
<1>1. client \notin {"eth", "cosmos"} /\ HttpPhase(s.r, p, a) /\ s.r.closes = 0
  BY DEF Queries, Straight
<1>2. PICK c \in 1 .. Len(s.rest) : Advanced(s, ReadFrame(s), c, p, a)
  BY <1>1, FrameStep
<1> DEFINE t == ReadFrame(s)
<1>3. p + c <= 6 /\ t.rest = SubSeq(s.rest, c + 1, Len(s.rest)) /\ c \in Nat
  BY <1>2 DEF Advanced
<1>4. Straight(t.r, p + c, a, t.r.documents)
  <2> DEFINE e == p + c
  <2>1. e \in Nat /\ e <= 6
    BY <1>3
  <2>2. (e < 6 => HttpPhase(t.r, e, a) /\ SameBooks(t.r, s.r))
        /\ (e = 6 => t.r = Handed([s.r EXCEPT !.f = Sized], Body(a.id, a.ok)) /\ s.r.parser.state = 1)
    BY <1>2 DEF Advanced
  <2> HIDE DEF e, t
  <2>3. CASE e < 6
    <3>1. Straight(t.r, e, a, t.r.documents)
      BY <1>1, <2>2, <2>3 DEF Straight, SameBooks
    <3> QED BY <3>1 DEF e
  <2>4. CASE e = 6
    <3> DEFINE x == [s.r EXCEPT !.f = Sized]
               text == Body(a.id, a.ok)
    <3>1. x \in Readings /\ x.parser = s.r.parser
      BY LinesAre DEF Readings
    <3>2. t.r = Handed(x, text) /\ x.parser.state = 1
      BY <2>2, <2>4, <3>1
    <3>3. Document(text) = [valid |-> TRUE, id |-> a.id, ok |-> a.ok]
      BY DocumentOfBody
    <3>4. Document(text).valid /\ Document(text).id = a.id
      BY <3>3
    <3> HIDE DEF x, text
    <3>5. t.r.parser.state = 0 /\ t.r.documents = Documents(x, Document(text))
      BY <3>1, <3>2, QueryParsed
    <3>6. a.id \in t.r.documents
      BY <3>4, <3>5 DEF Documents
    <3>7. Straight(t.r, e, a, t.r.documents)
      BY <2>4, <3>5, <3>6 DEF Straight
    <3> QED BY <3>7 DEF e
  <2> QED BY <2>1, <2>3, <2>4 DEF e
<1> QED BY <1>3, <1>4

LEMMA AstrayStep ==
  ASSUME client \in Queries, NEW s, s.r \in Readings, s.rest \in Seq(Tokens), s.rest # <<>>,
         NEW a, a.id \in Nat, a.ok \in BOOLEAN, NEW p \in 0 .. 5, Follows(s.rest, p, a), Astray(s.r, p)
  PROVE  \E c \in 1 .. Len(s.rest) :
           ReadFrame(s).rest = SubSeq(s.rest, c + 1, Len(s.rest)) /\ Astray(ReadFrame(s).r, p + c)
<1> DEFINE f == s.r.f
           b == f.buf
           rest == s.rest
           n == Len(rest)
           x == NextLine(f, rest)
           t == ReadFrame(s)
           ans == Answer(a.id, a.ok)
<1>1. f \in Framings(Tokens) /\ b \in Seq(Tokens) /\ rest \in Seq(Tokens) /\ n \in Nat /\ n >= 1 /\ s.r \in Readings
      /\ f.framing = "lines" /\ rest # <<>>
  BY DEF Readings, Framings, Astray
<1>2. t = [r |-> IF x.frame THEN Handed([s.r EXCEPT !.f = x.f], x.text) ELSE [s.r EXCEPT !.f = x.f], rest |-> x.rest]
  BY <1>1 DEF ReadFrame
<1>3. SubSeq(rest, n + 1, n) = <<>>
  BY <1>1, NothingLeft
<1>4. CASE s.r.parser.state = 0 /\ f.room = 0
  <2> DEFINE y == [s.r EXCEPT !.f = f]
  <2>1. x = Frame(FALSE, f, <<>>, <<>>)
    BY <1>1, <1>4, NoRoomLeft
  <2>2. x.frame = FALSE /\ x.f = f /\ x.rest = <<>>
    <3> HIDE DEF x
    <3> QED BY <2>1 DEF Frame
  <2>3. y.f = f /\ y.parser = s.r.parser
    BY <1>1 DEF Readings
  <2> HIDE DEF x, t, f
  <2>4. t.r = y /\ t.rest = <<>>
    BY <1>2, <2>2
  <2> HIDE DEF y
  <2>5. Astray(t.r, p + n)
    BY <1>1, <1>4, <2>3, <2>4 DEF Astray
  <2>6. n \in 1 .. Len(rest) /\ t.rest = SubSeq(rest, n + 1, Len(rest))
    <3>1. n \in 1 .. n
      <4> HIDE DEF n
      <4> QED BY <1>1
    <3>2. t.rest = SubSeq(rest, n + 1, n)
      BY <1>3, <2>4
    <3> QED BY <3>1, <3>2
  <2> HIDE DEF n, rest
  <2>7. \E c \in 1 .. Len(rest) : t.rest = SubSeq(rest, c + 1, Len(rest)) /\ Astray(t.r, p + c)
    BY <2>5, <2>6
  <2> QED BY <2>7 DEF t, rest
<1>5. CASE Misread(s.r, p)
  <2>1. p \in {0, 1} /\ s.r.parser.state = 1 /\ f.room = LineLimit - p /\ Len(b) = p /\ s.r.closes = 0
    BY <1>5 DEF Misread
  <2>2. \A k \in 1 .. n : p + k <= 6 => rest[k] = ans[p + k]
    BY DEF Follows, AnswerSize, Queries
  <2>3. ans[1].k = "length" /\ ans[2].k = "\n"
    BY HttpKinds DEF Queries
  <2>4. LineLimit \in Nat /\ LineLimit > 2
    BY RpcAssumption
  <2> DEFINE e == 2 - p
  <2>5. e \in 1 .. 2 /\ p + e = 2
    BY <2>1
  <2> HIDE DEF ans, e, n, b
  <2>6. CASE n < e
    <3>1. n = 1 /\ p = 0 /\ e = 2
      BY <1>1, <2>1, <2>5, <2>6
    <3>2. \A k \in 1 .. Len(rest) : rest[k].k # "\n"
      <4>1. rest[1] = ans[1]
        BY <2>2, <3>1
      <4>2. \A k \in 1 .. Len(rest) : k = 1
        BY <3>1 DEF n
      <4> QED BY <2>3, <4>1, <4>2
    <3> DEFINE sub == SubSeq(rest, 1, Len(rest))
               h == Buffered(f, sub)
    <3>3. x = Frame(FALSE, h, <<>>, <<>>)
      <4>1. f.room \in Nat /\ Len(rest) <= f.room
        BY <2>1, <2>4, <3>1 DEF n
      <4> QED BY <1>1, <3>2, <4>1, PartOfLine
    <3>4. sub = rest
      BY <1>1
    <3>5. h.framing = "lines" /\ h.room = LineLimit - 1 /\ Len(h.buf) = 1
      <4> DEFINE v == b \o rest
      <4>1. Len(v) = 1
        <5>1. Len(v) = Len(b) + Len(rest)
          BY <1>1, Joins
        <5> HIDE DEF v
        <5> QED BY <2>1, <3>1, <5>1 DEF n
      <4>2. h = [f EXCEPT !.buf = v, !.room = f.room - Len(rest)]
        <5> HIDE DEF sub
        <5> QED BY <1>1, <3>4 DEF Buffered, Framings, b
      <4> DEFINE m == Len(rest)
      <4>3. m = 1
        BY <3>1 DEF n
      <4> HIDE DEF v, m
      <4>4. [f EXCEPT !.buf = v, !.room = f.room - m].framing = "lines" /\ [f EXCEPT !.buf = v, !.room = f.room - m].buf = v
            /\ [f EXCEPT !.buf = v, !.room = f.room - m].room = f.room - m
        BY <1>1 DEF Framings
      <4>5. f.room - m = LineLimit - 1
        BY <2>1, <2>4, <3>1, <4>3
      <4> QED BY <4>1, <4>2, <4>4, <4>5 DEF m
    <3> DEFINE y == [s.r EXCEPT !.f = h]
    <3> HIDE DEF h
    <3>6. x.frame = FALSE /\ x.f = h /\ x.rest = <<>>
      <4> HIDE DEF x
      <4> QED BY <3>3 DEF Frame
    <3>7. y.f = h /\ y.parser = s.r.parser /\ y.closes = s.r.closes
      BY <1>1 DEF Readings
    <3> HIDE DEF x, t
    <3>8. t.r = y /\ t.rest = <<>>
      BY <1>2, <3>6
    <3> HIDE DEF y
    <3>9. Astray(t.r, 1)
      BY <2>1, <2>4, <3>5, <3>7, <3>8 DEF Astray, Misread
    <3>10. p + n = 1 /\ n \in 1 .. Len(rest)
      BY <3>1 DEF n
    <3>11. t.rest = SubSeq(rest, n + 1, Len(rest))
      BY <1>3, <3>8 DEF n
    <3>12. Astray(t.r, p + n)
      BY <3>9, <3>10
    <3> HIDE DEF rest
    <3>13. \E c \in 1 .. Len(rest) : t.rest = SubSeq(rest, c + 1, Len(rest)) /\ Astray(t.r, p + c)
      BY <3>10, <3>11, <3>12
    <3> QED BY <3>13 DEF t, rest
  <2>7. CASE ~(n < e)
    <3>1. e \in 1 .. Len(rest)
      BY <1>1, <2>5, <2>7 DEF n
    <3>2. rest[e].k = "\n"
      <4>1. rest[e] = ans[p + e]
        BY <1>1, <2>2, <2>5, <2>7
      <4> QED BY <2>3, <2>5, <4>1
    <3>3. \A k \in 1 .. e - 1 : rest[k].k # "\n"
      <4>1. ASSUME NEW k \in 1 .. e - 1 PROVE rest[k].k # "\n"
        <5>1. k = 1 /\ p = 0
          BY <2>1, <2>5
        <5>2. rest[1] = ans[1]
          BY <1>1, <2>2, <5>1
        <5> QED BY <2>3, <5>1, <5>2
      <4> QED BY <4>1
    <3> DEFINE text == b \o SubSeq(rest, 1, e)
               left == SubSeq(rest, e + 1, Len(rest))
               y == [s.r EXCEPT !.f = Lines]
    <3>4. x = Frame(TRUE, Lines, text, left)
      <4>1. f.room \in Nat /\ e <= f.room
        BY <2>1, <2>4, <2>5
      <4> QED BY <1>1, <3>1, <3>2, <3>3, <4>1, WholeLine DEF b
    <3> HIDE DEF text, left
    <3>5. x.frame = TRUE /\ x.f = Lines /\ x.text = text /\ x.rest = left
      <4> HIDE DEF x
      <4> QED BY <3>4 DEF Frame
    <3>6. y \in Readings /\ y.parser = s.r.parser /\ y.f = Lines
      BY <1>1, LinesAre DEF Readings
    <3>7. t.r = Handed(y, text) /\ t.rest = left
      <4>1. Handed([s.r EXCEPT !.f = x.f], x.text) = Handed(y, text)
        BY <3>5
      <4> HIDE DEF x, t, y
      <4> QED BY <1>2, <3>5, <4>1
    <3> HIDE DEF y, t
    <3>8. t.r.parser.state = 0 /\ t.r.f = Lines
      BY <2>1, <3>6, <3>7, QueryParsed
    <3>9. Lines.framing = "lines" /\ Lines.room = 0
      BY DEF Lines
    <3>10. Astray(t.r, p + e)
      BY <3>8, <3>9 DEF Astray
    <3>11. t.rest = SubSeq(rest, e + 1, Len(rest))
      BY <3>7 DEF left
    <3> HIDE DEF rest
    <3>12. \E c \in 1 .. Len(rest) : t.rest = SubSeq(rest, c + 1, Len(rest)) /\ Astray(t.r, p + c)
      BY <3>1, <3>10, <3>11
    <3> QED BY <3>12 DEF t, rest
  <2> QED BY <2>6, <2>7
<1> QED BY <1>4, <1>5 DEF Astray

(* V continues the answer to a after p tokens; of it, d tokens were read.  *)
Continues(V, p, a) ==
  /\ V \in Seq(Tokens) /\ p \in 0 .. 6 /\ p + Len(V) <= 6 /\ a.id \in Nat /\ a.ok \in BOOLEAN
  /\ \A k \in 1 .. Len(V) : V[k] = Answer(a.id, a.ok)[p + k]
Heeding(s, V, p, a, way, d) ==
  /\ Took(s) /\ d \in 0 .. Len(V) /\ s.rest = SubSeq(V, d + 1, Len(V))
  /\ Heeds(s.r, p + d, a, s.r.documents, way)

LEMMA HeedingStep ==
  ASSUME client \in Queries, NEW V, NEW p, NEW a, Continues(V, p, a), NEW way, NEW s, NEW d,
         Heeding(s, V, p, a, way, d), d < Len(V)
  PROVE  \E e \in (d + 1) .. Len(V) : Heeding(ReadFrame(s), V, p, a, way, e)
<1> DEFINE n == Len(V)
           rest == s.rest
           x == p + d
           t == ReadFrame(s)
           T == Tokens
<1>1. V \in Seq(T) /\ n \in Nat /\ d \in 0 .. n /\ d < n /\ p \in 0 .. 6 /\ p + n <= 6 /\ a.id \in Nat /\ a.ok \in BOOLEAN
      /\ rest = SubSeq(V, d + 1, n) /\ Took(s) /\ s.r \in Readings
  BY DEF Continues, Heeding, Took
<1>2. rest \in Seq(T) /\ Len(rest) = n - d /\ \A k \in 1 .. n - d : rest[k] = V[d + k]
  <2> HIDE DEF T, rest
  <2> QED BY <1>1, RestOf
<1>3. rest # <<>>
  <2>1. Len(rest) # 0
    <3> HIDE DEF n, rest
    <3> QED BY <1>1, <1>2
  <2> HIDE DEF rest
  <2>2. Len(<<>>) = 0
    OBVIOUS
  <2> QED BY <2>1, <2>2
<1>4. Follows(rest, x, a)
  <2>1. ASSUME NEW k \in 1 .. Len(rest) PROVE rest[k] = Answer(a.id, a.ok)[x + k]
    <3> HIDE DEF n, rest
    <3>1. k \in 1 .. n - d /\ d + k \in 1 .. n /\ x + k = p + (d + k)
      BY <1>1, <1>2
    <3> DEFINE l == d + k
    <3>2. V[l] = Answer(a.id, a.ok)[p + l]
      BY <3>1 DEF Continues, n
    <3> QED BY <1>2, <3>1, <3>2
  <2> QED BY <2>1 DEF Follows
<1>5. x \in 0 .. 5
  <2> HIDE DEF n
  <2> QED BY <1>1
<1>6. Heeds(s.r, x, a, s.r.documents, way)
  BY DEF Heeding
<1>7. Took(t)
  BY <1>1, ReadFrameKeeps
<1> HIDE DEF x, t, T
<1>8. PICK c \in 1 .. Len(rest) : t.rest = SubSeq(rest, c + 1, Len(rest)) /\ Heeds(t.r, x + c, a, t.r.documents, way)
  <2>1. CASE way = "straight"
    <3>1. Straight(s.r, x, a, s.r.documents)
      BY <1>6, <2>1 DEF Heeds
    <3> QED BY <1>1, <1>2, <1>3, <1>4, <1>5, <2>1, <3>1, StraightStep DEF Heeds, t, T
  <2>2. CASE way # "straight"
    <3>1. Astray(s.r, x)
      BY <1>6, <2>2 DEF Heeds
    <3> QED BY <1>1, <1>2, <1>3, <1>4, <1>5, <2>2, <3>1, AstrayStep DEF Heeds, t, T
  <2> QED BY <2>1, <2>2
<1>9. t.rest = SubSeq(V, (d + c) + 1, n) /\ d + c \in 0 .. n
  <2> DEFINE W == rest
  <2>1. c \in 0 .. Len(W) /\ W = SubSeq(V, d + 1, Len(V))
    <3> HIDE DEF rest
    <3>1. Len(rest) \in Nat
      BY <1>2
    <3> QED BY <1>1, <3>1
  <2> HIDE DEF rest
  <2>2. SubSeq(W, c + 1, Len(W)) = SubSeq(V, (d + c) + 1, Len(V)) /\ d + c \in 0 .. Len(V)
    BY <1>1, <2>1, RestOfRest
  <2> QED BY <1>8, <2>2
<1>10. d + c \in (d + 1) .. n /\ x + c = p + (d + c)
  <2>1. c \in Nat /\ c >= 1
    <3> HIDE DEF rest
    <3>1. Len(rest) \in Nat
      BY <1>2
    <3> QED BY <3>1
  <2> HIDE DEF n
  <2> QED BY <1>1, <1>9, <2>1 DEF x
<1> DEFINE e == d + c
<1>11. e \in (d + 1) .. n /\ e \in 0 .. n /\ t.rest = SubSeq(V, e + 1, n) /\ Heeds(t.r, p + e, a, t.r.documents, way)
  BY <1>8, <1>9, <1>10
<1> HIDE DEF e
<1>12. Heeding(t, V, p, a, way, e)
  BY <1>7, <1>11 DEF Heeding
<1> QED BY <1>11, <1>12 DEF t

(* After i steps, at least i tokens were read, or all of them.             *)
HeededTo(s, V, p, a, way, i) == \E d \in 0 .. Len(V) : Heeding(s, V, p, a, way, d) /\ (d >= i \/ d = Len(V))

LEMMA HeedsAll ==
  ASSUME client \in Queries, NEW V, NEW p, NEW a, Continues(V, p, a), NEW way,
         NEW r \in Readings, Honest(r), Heeds(r, p, a, r.documents, way)
  PROVE  Heeds(ReadBy(r, V), p + Len(V), a, ReadBy(r, V).documents, way)
<1> DEFINE first == [r |-> r, rest |-> V]
           n == 2 * Len(V)
<1>1. V \in Seq(Tokens) /\ Len(V) \in Nat /\ p \in 0 .. 6
  BY DEF Continues
<1>2. PICK e : Steps(e, n, TRUE, first) /\ ReadFrames(r, V) = e[n].r
  BY <1>1, ReadFramesSteps
<1>3. ReadBy(r, V) = e[n].r
  BY <1>2 DEF ReadBy, Queries
<1>4. Heeding(first, V, p, a, way, 0)
  <2>1. SubSeq(V, 0 + 1, Len(V)) = V /\ p + 0 = p /\ 0 \in 0 .. Len(V)
    BY <1>1
  <2>2. Took(first) /\ first.r = r /\ first.rest = V
    BY <1>1 DEF Took
  <2> HIDE DEF first
  <2> QED BY <2>1, <2>2 DEF Heeding
<1>5. n \in Nat /\ n >= Len(V)
  BY <1>1
<1> HIDE DEF n, first
<1> DEFINE good == {i \in 0 .. n : HeededTo(e[i], V, p, a, way, i)}
<1>6. 0 \in good
  <2>1. 0 \in 0 .. n /\ 0 \in 0 .. Len(V) /\ 0 >= 0 /\ e[0] = first
    BY <1>1, <1>2, <1>5 DEF Steps
  <2>2. HeededTo(e[0], V, p, a, way, 0)
    BY <1>4, <2>1 DEF HeededTo
  <2> QED BY <2>1, <2>2
<1>7. ASSUME NEW i \in 1 .. n, i - 1 \in good
      PROVE  i \in good
  <2> DEFINE s == e[i - 1]
  <2>1. e[i] = ReadFrame(s)
    BY <1>2 DEF Steps, StepOf
  <2>2. PICK d \in 0 .. Len(V) : Heeding(s, V, p, a, way, d) /\ (d >= i - 1 \/ d = Len(V))
    BY <1>7 DEF HeededTo
  <2> HIDE DEF s
  <2>3. CASE d < Len(V)
    <3>1. PICK c \in (d + 1) .. Len(V) : Heeding(ReadFrame(s), V, p, a, way, c)
      BY <2>2, <2>3, HeedingStep
    <3>2. c \in 0 .. Len(V) /\ c >= i
      BY <1>1, <2>2, <2>3
    <3>3. HeededTo(e[i], V, p, a, way, i)
      BY <2>1, <3>1, <3>2 DEF HeededTo
    <3> QED BY <3>3
  <2>4. CASE ~(d < Len(V))
    <3>1. d = Len(V)
      BY <1>1, <2>4
    <3>2. s.rest = <<>>
      <4>1. s.rest = SubSeq(V, d + 1, Len(V)) /\ d \in Nat /\ d >= Len(V)
        BY <1>1, <2>2, <3>1 DEF Heeding
      <4> QED BY <1>1, <4>1, NothingLeft
    <3>3. ReadFrame(s) = s
      BY <3>2 DEF ReadFrame
    <3>4. HeededTo(e[i], V, p, a, way, i)
      BY <2>1, <2>2, <3>1, <3>3 DEF HeededTo
    <3> QED BY <3>4
  <2> QED BY <2>3, <2>4
<1> HIDE DEF good
<1>8. n \in good
  <2>1. \A i \in 1 .. n : i - 1 \in good => i \in good
    BY <1>7
  <2>2. 0 .. n \subseteq good
    BY <1>5, <1>6, <2>1, RpcUpTo
  <2> QED BY <1>5, <2>2
<1>9. PICK d \in 0 .. Len(V) : Heeding(e[n], V, p, a, way, d) /\ (d >= n \/ d = Len(V))
  BY <1>8 DEF good, HeededTo
<1>10. d = Len(V)
  BY <1>1, <1>5, <1>9
<1> QED BY <1>3, <1>9, <1>10 DEF Heeding

-----------------------------------------------------------------------------
(* Queries that follow one another                                         *)

(* The stream of a query has its own answer, of which p tokens were read.  *)
Ask(k) == [id |-> k, ok |-> TRUE]
Owned(l, c) ==
  /\ \A i \in 1 .. Len(l.requests) : l.requests[i] = Ask(c)
  /\ \A i \in 1 .. Len(l.stream) : l.stream[i].of = c
Carries(l, p, a) ==
  \/ p = 0 /\ l.st = "open" /\ l.requests = <<a>> /\ l.stream = <<>>
  \/ l.requests = <<>> /\ Len(l.stream) = 6 - p /\ \A i \in 1 .. 6 - p : l.stream[i] = Answer(a.id, a.ok)[p + i]
Heeded(l, k) ==
  \E p \in 0 .. 6, way \in {"straight", "astray"} :
    /\ Carries(l, p, Ask(k)) /\ Heeds(Reading(l.f), p, Ask(k), parsed, way)
    /\ way = "straight" \/ k - 1 \in garbled

(* k is the query begun last.  Unless it was disturbed, it alone is under  *)
(* way, heeds its answer, and leaves the parser at the headers; astray it  *)
(* goes only after one that was disturbed.                                 *)
Alive == {"connecting", "open", "ended"}
OwnLinks ==
  \A c \in Links : Owned(link[c], c) /\ (link[c].st \in {"idle", "connecting"} => link[c].f.framing = "lines")
LastAlone(k) ==
  /\ \A c \in Unfinished : c \in garbled \/ c = k
  /\ k \notin garbled => Unfinished \subseteq {k}
LastHeeds(k) ==
  k \notin garbled =>
    /\ k \notin Unfinished => parser.state = 0
    /\ k \in Unfinished /\ link[k].st = "connecting" => k - 1 \in garbled \/ parser.state = 0
    /\ k \in Unfinished /\ link[k].st # "connecting" => Heeded(link[k], k)
Queried(k) == Begun = 1 .. k /\ OwnLinks /\ LastAlone(k) /\ LastHeeds(k) /\ StakesFollow
QueriesKept == client \in Queries => \E k \in 0 .. MaxQueries : Queried(k)

LEMMA HeedsSame ==
  ASSUME client' = client, NEW r, NEW x, x.f = r.f, x.parser = r.parser, x.closes = r.closes,
         NEW p, NEW a, NEW D, NEW E, D \subseteq E, NEW way, Heeds(r, p, a, D, way)
  PROVE  Heeds(x, p, a, E, way)'
<1>1. \A i, ok : Answer(i, ok)' = Answer(i, ok)
  BY AnswersSame
<1>2. HttpPhase(r, p, a) => HttpPhase(x, p, a)'
  BY <1>1 DEF HttpPhase
<1>3. Straight(r, p, a, D) => Straight(x, p, a, E)'
  BY <1>2 DEF Straight
<1>4. Astray(r, p) => Astray(x, p)'
  BY DEF Astray, Misread
<1> QED BY <1>3, <1>4 DEF Heeds

LEMMA CarriesSame ==
  ASSUME client' = client, NEW l, NEW p, NEW a, Carries(l, p, a)
  PROVE  Carries(l, p, a)'
<1>1. \A i, ok : Answer(i, ok)' = Answer(i, ok)
  BY AnswersSame
<1> QED BY <1>1 DEF Carries

LEMMA HeededSame ==
  ASSUME UNCHANGED <<client, parser, partial, block_store>>, parsed \subseteq parsed', garbled \subseteq garbled',
         NEW k, NEW l, Heeded(l, k)
  PROVE  Heeded(l, k)'
<1>1. PICK p \in 0 .. 6, way \in {"straight", "astray"} :
        /\ Carries(l, p, Ask(k)) /\ Heeds(Reading(l.f), p, Ask(k), parsed, way)
        /\ way = "straight" \/ k - 1 \in garbled
  BY DEF Heeded
<1>2. Carries(l, p, Ask(k))'
  <2> DEFINE a == Ask(k)
  <2>1. Carries(l, p, a)
    BY <1>1
  <2>2. a' = a
    BY DEF Ask
  <2> HIDE DEF a
  <2>3. PICK b : b = a
    OBVIOUS
  <2>4. Carries(l, p, b)'
    BY <2>1, <2>3, CarriesSame
  <2> QED BY <2>2, <2>3, <2>4 DEF a
<1>3. Heeds(Reading(l.f), p, Ask(k), parsed, way)'
  <2>1. PICK r, D, E, a : r = Reading(l.f) /\ D = parsed /\ E = parsed' /\ a = Ask(k)
    OBVIOUS
  <2>2. Heeds(r, p, a, E, way)'
    BY <1>1, <2>1, HeedsSame
  <2>3. Reading(l.f)' = r /\ parsed' = E /\ Ask(k)' = a
    BY <2>1 DEF Reading, Ask
  <2> QED BY <2>2, <2>3
<1> QED BY <1>1, <1>2, <1>3 DEF Heeded

(* A step of a query on its link.                                          *)
Undisturbed(c) ==
  /\ link'[c].st \notin Alive => parser'.state = 0
  /\ link'[c].st \in Alive => Heeded(link[c], c)'
  /\ c \in answered' => c \in answered \/ c - 1 \in garbled' \/ c \in parsed'
QueryTurn(c) ==
  /\ Turned(c) /\ client' = client
  /\ link[c].st # "idle" /\ link'[c].st \notin {"idle", "connecting"} /\ Owned(link'[c], c)
  /\ link'[c].st \in Alive => link[c].st \in Alive
  /\ parsed \subseteq parsed' /\ garbled \subseteq garbled' /\ garbled' \subseteq garbled \cup {c}
  /\ answered' \subseteq answered \cup {c}
  /\ link[c].st \notin Alive => UNCHANGED <<parser, partial, block_store, answered>>
  /\ link[c].st \in Alive /\ c \notin garbled' => Undisturbed(c)

LEMMA QueryTurnKeeps ==
  ASSUME RpcBase, NEW k, Queried(k), NEW c \in Links, QueryTurn(c)
  PROVE  Queried(k)'
<1>1. \A x \in Links : x # c => link'[x] = link[x]
  BY TurnedElse DEF QueryTurn
<1>2. Begun' = 1 .. k
  <2>1. Begun' = Begun
    BY <1>1 DEF Begun, QueryTurn
  <2> QED BY <2>1 DEF Queried
<1>3. Unfinished' \subseteq Unfinished
  BY <1>1 DEF Unfinished, QueryTurn, Alive
<1>4. OwnLinks'
  <2>1. ASSUME NEW x \in Links
        PROVE  Owned(link'[x], x) /\ (link'[x].st \in {"idle", "connecting"} => link'[x].f.framing = "lines")
    <3>1. CASE x = c
      BY <3>1 DEF QueryTurn
    <3>2. CASE x # c
      BY <1>1, <3>2 DEF Queried, OwnLinks
    <3> QED BY <3>1, <3>2
  <2> QED BY <2>1 DEF OwnLinks, Owned, Ask
<1>5. LastAlone(k)'
  BY <1>3 DEF LastAlone, Queried, QueryTurn
<1>6. ASSUME k \notin garbled'
      PROVE  /\ k \notin Unfinished' => parser'.state = 0
             /\ k \in Unfinished' /\ link'[k].st = "connecting" => k - 1 \in garbled' \/ parser'.state = 0
             /\ k \in Unfinished' /\ link'[k].st # "connecting" => Heeded(link[k], k)'
  <2>1. k \notin garbled /\ Unfinished \subseteq {k}
    BY <1>6 DEF Queried, LastAlone, QueryTurn
  <2>2. CASE link[c].st \in Alive
    <3>1. c = k
      BY <2>1, <2>2 DEF Unfinished, Alive
    <3>2. Undisturbed(c) /\ link'[c].st # "connecting"
      BY <1>6, <2>2, <3>1 DEF QueryTurn
    <3>3. k \in Unfinished' <=> link'[k].st \in Alive
      BY <3>1 DEF Unfinished, Alive
    <3> QED BY <3>1, <3>2, <3>3 DEF Undisturbed
  <2>3. CASE link[c].st \notin Alive
    <3>1. UNCHANGED <<client, parser, partial, block_store>> /\ parsed \subseteq parsed' /\ garbled \subseteq garbled'
      BY <2>3 DEF QueryTurn
    <3>2. c \notin Unfinished /\ c \notin Unfinished'
      BY <2>3 DEF Unfinished, QueryTurn, Alive
    <3>3. k \in Unfinished' <=> k \in Unfinished
      BY <1>1, <3>2 DEF Unfinished
    <3>4. CASE k \notin Unfinished
      BY <2>1, <3>1, <3>3, <3>4 DEF Queried, LastHeeds
    <3>5. CASE k \in Unfinished
      <4>1. k \in Links /\ link'[k] = link[k]
        BY <1>1, <3>2, <3>5 DEF Unfinished
      <4>2. PICK l : l = link[k]
        OBVIOUS
      <4>3. link[k].st # "connecting" => Heeded(link[k], k)
        BY <2>1, <3>5 DEF Queried, LastHeeds
      <4>4. link[k].st # "connecting" => Heeded(l, k)'
        <5>1. ASSUME Heeded(l, k) PROVE Heeded(l, k)'
          BY <3>1, <5>1, HeededSame
        <5> QED BY <4>2, <4>3, <5>1
      <4>5. link[k].st = "connecting" => k - 1 \in garbled' \/ parser'.state = 0
        BY <2>1, <3>1, <3>5 DEF Queried, LastHeeds
      <4> QED BY <3>3, <3>5, <4>1, <4>2, <4>4, <4>5
    <3> QED BY <3>4, <3>5
  <2> QED BY <2>2, <2>3
<1>7. LastHeeds(k)'
  BY <1>6 DEF LastHeeds
<1>8. StakesFollow'
  <2>1. SUFFICES ASSUME client \in Queries, NEW q \in answered' \ garbled', q - 1 \notin garbled' PROVE q \in parsed'
    BY DEF StakesFollow, QueryTurn
  <2>2. CASE q \in answered
    <3>1. q \in parsed
      BY <2>1, <2>2 DEF QueryTurn, Queried, StakesFollow
    <3> QED BY <3>1 DEF QueryTurn
  <2>3. CASE q \notin answered
    <3>1. q = c /\ link[c].st \in Alive
      BY <2>1, <2>3 DEF QueryTurn
    <3>2. Undisturbed(c)
      BY <2>1, <3>1 DEF QueryTurn
    <3> QED BY <2>1, <2>3, <3>1, <3>2 DEF Undisturbed
  <2> QED BY <2>2, <2>3
<1> QED BY <1>2, <1>4, <1>5, <1>7, <1>8 DEF Queried

LEMMA UnsizedOf ==
  ASSUME NEW i, NEW ok
  PROVE  \A n \in 1 .. Len(Unsized(i, ok)) : Unsized(i, ok)[n].of = i
<1> DEFINE names == <<"\r", "\n">>
           h == Header(i, names)
           b == Body(i, ok)
           H == {h[n] : n \in 1 .. 2}
           B == {b[n] : n \in 1 .. 2}
<1>1. h = [n \in 1 .. 2 |-> Token(names[n], i, 0, TRUE, FALSE)]
  <2>1. DOMAIN names = 1 .. 2
    OBVIOUS
  <2> HIDE DEF names
  <2> QED BY <2>1 DEF Header
<1>2. b = [n \in 1 .. 2 |-> b[n]] /\ b[1] = Token("body", i, 1, ok, FALSE) /\ b[2] = Token("body", i, 2, ok, TRUE)
  BY BodyIs
<1> HIDE DEF h, b, names
<1>3. (\A n \in 1 .. 2 : h[n] = Token(names[n], i, 0, TRUE, FALSE)) /\ h = [n \in 1 .. 2 |-> h[n]]
  <2> DEFINE tok(n) == Token(names[n], i, 0, TRUE, FALSE)
  <2>1. h = [n \in 1 .. 2 |-> tok(n)]
    BY <1>1
  <2> HIDE DEF tok
  <2>2. (\A n \in 1 .. 2 : h[n] = tok(n)) /\ h = [n \in 1 .. 2 |-> h[n]]
    BY <2>1
  <2> QED BY <2>2 DEF tok
<1>4. \A n \in 1 .. 2 : h[n].of = i
  <2>1. ASSUME NEW n \in 1 .. 2 PROVE h[n].of = i
    <3> DEFINE e == h[n]
    <3>1. e = Token(names[n], i, 0, TRUE, FALSE)
      BY <1>3
    <3> HIDE DEF e
    <3>2. e.of = i
      BY <3>1 DEF Token
    <3> QED BY <3>2 DEF e
  <2> QED BY <2>1
<1>5. \A n \in 1 .. 2 : b[n].of = i
  <2>1. b[1].of = i
    BY <1>2 DEF Token
  <2>2. b[2].of = i
    BY <1>2 DEF Token
  <2>3. \A n \in 1 .. 2 : n = 1 \/ n = 2
    OBVIOUS
  <2> QED BY <2>1, <2>2, <2>3
<1>6. h \in Seq(H) /\ Len(h) = 2 /\ b \in Seq(B) /\ Len(b) = 2
  BY <1>2, <1>3, IsSequence
<1> HIDE DEF H, B
<1> DEFINE u == h \o b
<1>10. Len(u) = Len(h) + Len(b)
  BY <1>6, Joins
<1>11. \A n \in 1 .. Len(h) : u[n] = h[n]
  BY <1>6, Joins
<1>12. \A n \in 1 .. Len(b) : u[Len(h) + n] = b[n]
  <2>1. h \in Seq(H) /\ b \in Seq(B)
    BY <1>6
  <2> QED BY <2>1, Joins, SMTT(60)
<1> HIDE DEF u
<1>7. Len(u) = 4 /\ (\A n \in 1 .. 2 : u[n] = h[n]) /\ \A n \in 1 .. 2 : u[2 + n] = b[n]
  BY <1>6, <1>10, <1>11, <1>12
<1>8. \A n \in 1 .. Len(u) : u[n].of = i
  <2>1. ASSUME NEW n \in 1 .. Len(u) PROVE u[n].of = i
    <3>1. CASE n \in 1 .. 2
      BY <1>4, <1>7, <3>1
    <3>2. CASE n \notin 1 .. 2
      <4>1. n - 2 \in 1 .. 2 /\ n = 2 + (n - 2)
        BY <1>7, <3>2
      <4> DEFINE e == n - 2
      <4>2. e \in 1 .. 2 /\ n = 2 + e
        BY <4>1
      <4> HIDE DEF e
      <4> QED BY <1>5, <1>7, <4>2
    <3> QED BY <3>1, <3>2
  <2> QED BY <2>1
<1>9. Unsized(i, ok) = u
  BY DEF Unsized, u, h, b, names
<1> QED BY <1>8, <1>9

(* What a query is told of is what it asked.                               *)
LEMMA WritesOwn ==
  ASSUME RpcBase, OwnLinks, NEW c \in Links, NEW answer \in Seq(Tokens), \A n \in 1 .. Len(answer) : answer[n].of = c,
         Writes(c, answer)
  PROVE  /\ Turned(c) /\ link[c].st = "open" /\ link[c].requests # <<>>
         /\ link'[c].st = "open" /\ link'[c].f = link[c].f /\ link'[c].requests = Tail(link[c].requests)
         /\ link'[c].stream = link[c].stream \o answer /\ Owned(link'[c], c)
<1>1. link[c] \in LinksOf(Requests, Tokens) /\ link[c].requests \in Seq(Requests) /\ link[c].stream \in Seq(Tokens)
  BY LinkTurns
<1>2. link[c].st = "open" /\ link[c].requests # <<>>
      /\ link' = [link EXCEPT ![c].requests = Tail(@), ![c].stream = @ \o answer]
  BY DEF Writes
<1> DEFINE r == Tail(link[c].requests)
           s == link[c].stream \o answer
           l == [link[c] EXCEPT !.requests = r, !.stream = s]
<1>3. TurnedTo(c, l)
  BY <1>2 DEF TurnedTo
<1>4. \A i \in 1 .. Len(r) : r[i] = Ask(c)
  <2> DEFINE q == link[c].requests
  <2>1. q \in Seq(Requests) /\ q # <<>> /\ \A i \in 1 .. Len(q) : q[i] = Ask(c)
    BY <1>1, <1>2 DEF OwnLinks, Owned
  <2> HIDE DEF q
  <2>2. Len(Tail(q)) = Len(q) - 1 /\ Len(q) \in Nat /\ \A i \in 1 .. Len(q) - 1 : Tail(q)[i] = q[i + 1]
    BY <2>1
  <2>3. \A i \in 1 .. Len(Tail(q)) : Tail(q)[i] = Ask(c)
    <3>1. ASSUME NEW i \in 1 .. Len(Tail(q)) PROVE Tail(q)[i] = Ask(c)
      <4>1. i \in 1 .. Len(q) - 1 /\ i + 1 \in 1 .. Len(q)
        BY <2>2
      <4> QED BY <2>1, <2>2, <4>1
    <3> QED BY <3>1
  <2> QED BY <2>3 DEF q
<1>5. \A i \in 1 .. Len(s) : s[i].of = c
  <2> DEFINE q == link[c].stream
             n == Len(q)
             m == Len(answer)
  <2>1. q \in Seq(Tokens) /\ \A i \in 1 .. n : q[i].of = c
    BY <1>1 DEF OwnLinks, Owned
  <2>2. Len(s) = n + m /\ (\A i \in 1 .. n : s[i] = q[i]) /\ (\A i \in 1 .. m : s[n + i] = answer[i]) /\ n \in Nat /\ m \in Nat
    BY <2>1, Joins
  <2> HIDE DEF q, n, m, s
  <2>3. ASSUME NEW i \in 1 .. Len(s) PROVE s[i].of = c
    <3>1. CASE i \in 1 .. n
      BY <2>1, <2>2, <3>1 DEF n
    <3>2. CASE i \notin 1 .. n
      <4> DEFINE e == i - n
      <4>1. e \in 1 .. m /\ i = n + e
        BY <2>2, <3>2
      <4> HIDE DEF e
      <4> QED BY <2>2, <4>1 DEF m
    <3> QED BY <3>1, <3>2
  <2> QED BY <2>3
<1> HIDE DEF r, s
<1>6. l.st = "open" /\ l.f = link[c].f /\ l.requests = r /\ l.stream = s
  BY <1>1, <1>2 DEF LinksOf
<1> HIDE DEF l
<1>7. Owned(l, c)
  BY <1>4, <1>5, <1>6 DEF Owned
<1>8. Turned(c) /\ link'[c] = l
  BY <1>3, TurnsTo
<1> QED BY <1>2, <1>6, <1>7, <1>8 DEF r, s
LEMMA BareOwn ==
  ASSUME NEW l, l.requests = <<>>, l.stream = <<>>, NEW c
  PROVE  Owned(l, c)
<1>1. Len(<<>>) = 0
  OBVIOUS
<1> QED BY <1>1 DEF Owned

LEMMA ClosedOwn ==
  ASSUME NEW l \in LinksOf(Requests, Tokens), Bears(l), NEW times, times # 0, NEW c
  PROVE  Closed(l, times).st = "closing" /\ Owned(Closed(l, times), c)
<1> DEFINE k == Closed(l, times)
<1>1. k.st = "closing" /\ k.stream = <<>> /\ Bears(k)
  BY ClosedIs
<1> HIDE DEF k
<1>2. k.requests = <<>>
  BY <1>1 DEF Bears
<1>3. Owned(k, c)
  BY <1>1, <1>2, BareOwn
<1> QED BY <1>1, <1>3 DEF k

(* Who is under way and not disturbed is the last one.                     *)
LEMMA QueryAlone ==
  ASSUME NEW k, Queried(k), NEW c \in Links, link[c].st \in Alive, c \notin garbled
  PROVE  /\ link[c].st # "connecting" => Heeded(link[c], c)
         /\ link[c].st = "connecting" => c - 1 \in garbled \/ parser.state = 0
<1>1. c \in Unfinished /\ c = k
  BY DEF Queried, LastAlone, Unfinished, Alive
<1> QED BY <1>1 DEF Queried, LastHeeds

(* A step that reads nothing.                                              *)
LEMMA QuietTurn ==
  ASSUME RpcBase, NEW c \in Links, NEW l, TurnedTo(c, l),
         UNCHANGED <<client, parser, partial, block_store, parsed, answered>>,
         link[c].st # "idle", l.st \notin {"idle", "connecting"}, Owned(l, c), l.st \in Alive => link[c].st \in Alive,
         garbled \subseteq garbled', garbled' \subseteq garbled \cup {c},
         link[c].st \in Alive /\ c \notin garbled' => IF l.st \in Alive THEN Heeded(l, c) ELSE parser.state = 0
  PROVE  QueryTurn(c)
<1>1. Turned(c) /\ link'[c] = l
  BY TurnsTo
<1>2. ASSUME link[c].st \in Alive, c \notin garbled'
      PROVE  Undisturbed(c)
  <2>1. ASSUME l.st \in Alive PROVE Heeded(link[c], c)'
    <3>1. Heeded(l, c)
      BY <1>2, <2>1
    <3>2. Heeded(l, c)'
      BY <3>1, HeededSame
    <3> QED BY <1>1, <3>2
  <2>2. l.st \notin Alive => parser'.state = 0
    BY <1>2
  <2> QED BY <1>1, <2>1, <2>2 DEF Undisturbed
<1> QED BY <1>1, <1>2 DEF QueryTurn

LEMMA AnswersTurn ==
  ASSUME RpcBase, client \in Queries, NEW k, Queried(k), NEW c \in Links, Answers(c)
  PROVE  QueryTurn(c)
<1> DEFINE q == link[c].requests
           r == Head(q)
           answer == Answer(r.id, r.ok)
<1>1. Writes(c, answer) /\ UNCHANGED <<client, parser, partial, block_store, parsed, answered, garbled>>
  BY DEF Answers, readVars, bookVars
<1>2. q \in Seq(Requests) /\ c \in Nat
  BY LinkTurns
<1>3. q # <<>> /\ \A i \in 1 .. Len(q) : q[i] = Ask(c)
  BY <1>1 DEF Writes, Queried, OwnLinks, Owned
<1>4. r = Ask(c) /\ r \in Requests
  <2> HIDE DEF q
  <2>1. Head(q) = q[1] /\ 1 \in 1 .. Len(q) /\ Head(q) \in Requests
    BY <1>2, <1>3
  <2> QED BY <1>3, <2>1
<1>5. r.id = c /\ r.ok = TRUE
  BY <1>4 DEF Ask
<1> HIDE DEF q, r
<1>6. answer \in Seq(Tokens)
  BY <1>4, AnswerTokens DEF RpcBase
<1>7. client # "eth" /\ AnswerSize = 6
  BY DEF Queries, AnswerSize
<1>8. Len(answer) = 6 /\ \A i \in 1 .. 6 : answer[i].of = c
  BY <1>2, <1>5, <1>7, AnswerIs
<1>9. answer = Answer(Ask(c).id, Ask(c).ok)
  BY <1>4
<1> HIDE DEF answer
<1>10. \A i \in 1 .. Len(answer) : answer[i].of = c
  BY <1>8
<1>11. OwnLinks
  BY DEF Queried
<1>12. /\ link[c].st = "open" /\ link'[c].st = "open" /\ link'[c].f = link[c].f /\ link'[c].requests = Tail(q)
       /\ link'[c].stream = link[c].stream \o answer /\ Owned(link'[c], c) /\ Turned(c)
  BY <1>1, <1>6, <1>10, <1>11, WritesOwn DEF q
<1>13. PICK l : l = link'[c]
  OBVIOUS
<1>14. TurnedTo(c, l)
  BY <1>12, <1>13 DEF Turned, TurnedTo
<1>15. ASSUME c \notin garbled
       PROVE  Heeded(l, c)
  <2>1. Heeded(link[c], c)
    BY <1>12, <1>15, QueryAlone DEF Alive
  <2>2. PICK p \in 0 .. 6, way \in {"straight", "astray"} :
          /\ Carries(link[c], p, Ask(c)) /\ Heeds(Reading(link[c].f), p, Ask(c), parsed, way)
          /\ way = "straight" \/ c - 1 \in garbled
    BY <2>1 DEF Heeded
  <2>3. p = 0 /\ q = <<Ask(c)>> /\ link[c].stream = <<>>
    BY <1>3, <2>2 DEF Carries, q
  <2>4. l.requests = <<>> /\ l.stream = answer
    <3>1. Tail(q) = <<>>
      <4>1. q = <<Ask(c)>>
        BY <2>3
      <4> DEFINE a == Ask(c)
      <4> HIDE DEF q, a
      <4>2. q = <<a>> => Tail(q) = <<>>
        OBVIOUS
      <4> QED BY <4>1, <4>2 DEF a
    <3>2. <<>> \o answer = answer
      BY <1>6
    <3> QED BY <1>12, <1>13, <2>3, <3>1, <3>2
  <2>5. Carries(l, 0, Ask(c))
    <3> DEFINE a == Answer(Ask(c).id, Ask(c).ok)
    <3>1. l.stream = a /\ Len(a) = 6
      BY <1>8, <1>9, <2>4
    <3> HIDE DEF a
    <3>2. l.requests = <<>> /\ Len(l.stream) = 6 - 0 /\ \A i \in 1 .. 6 - 0 : l.stream[i] = a[0 + i]
      BY <2>4, <3>1
    <3> QED BY <3>2 DEF Carries, a
  <2>6. l.f = link[c].f /\ 0 \in 0 .. 6
    BY <1>12, <1>13
  <2> QED BY <2>2, <2>3, <2>5, <2>6 DEF Heeded
<1>16. l.st = "open" /\ Owned(l, c)
  BY <1>12, <1>13
<1> QED BY <1>1, <1>12, <1>14, <1>15, <1>16, QuietTurn DEF Alive

LEMMA UnsizedTurn ==
  ASSUME RpcBase, client \in Queries, NEW k, Queried(k), NEW c \in Links, AnswersUnsized(c)
  PROVE  QueryTurn(c)
<1> DEFINE q == link[c].requests
           r == Head(q)
           answer == Unsized(r.id, r.ok)
<1>1. Writes(c, answer) /\ UNCHANGED <<client, parser, partial, block_store, parsed, answered>>
      /\ garbled' = garbled \cup {c}
  BY DEF AnswersUnsized, bookVars, Queries
<1>2. q \in Seq(Requests) /\ c \in Nat
  BY LinkTurns
<1>3. q # <<>> /\ \A i \in 1 .. Len(q) : q[i] = Ask(c)
  BY <1>1 DEF Writes, Queried, OwnLinks, Owned
<1>4. r = Ask(c) /\ r \in Requests
  <2> HIDE DEF q
  <2>1. Head(q) = q[1] /\ 1 \in 1 .. Len(q) /\ Head(q) \in Requests
    BY <1>2, <1>3
  <2> QED BY <1>3, <2>1
<1>5. r.id = c
  BY <1>4 DEF Ask
<1> HIDE DEF q, r
<1>6. answer \in Seq(Tokens)
  BY <1>4, AnswerTokens DEF RpcBase
<1>7. \A i \in 1 .. Len(answer) : answer[i].of = c
  BY <1>5, UnsizedOf
<1> HIDE DEF answer
<1>8. OwnLinks
  BY DEF Queried
<1>9. link[c].st = "open" /\ link'[c].st = "open" /\ Owned(link'[c], c) /\ Turned(c)
  BY <1>1, <1>6, <1>7, <1>8, WritesOwn
<1>10. PICK l : l = link'[c]
  OBVIOUS
<1>11. TurnedTo(c, l) /\ l.st = "open" /\ Owned(l, c)
  BY <1>9, <1>10 DEF Turned, TurnedTo
<1> QED BY <1>1, <1>9, <1>11, QuietTurn DEF Alive

LEMMA EndsTurn ==
  ASSUME RpcBase, client \in Queries, NEW k, Queried(k), NEW c \in Links, Ends(c)
  PROVE  QueryTurn(c)
<1> DEFINE q == link[c].stream
<1>1. PICK n \in {0, Len(q)} :
        LET lost == SubSeq(q, n + 1, Len(q))
        IN /\ link[c].st = "open"
           /\ link' = [link EXCEPT ![c].st = "ended", ![c].requests = <<>>, ![c].stream = SubSeq(@, 1, n)]
           /\ garbled' = CASE client \in Queries -> IF lost # <<>> \/ link[c].requests # <<>>
                                                  THEN garbled \cup {c} ELSE garbled
                           [] client \in {"cosmos", "matic"} /\ Splits(lost) -> Ids
                           [] OTHER -> garbled
           /\ UNCHANGED <<client, bookVars, chainVars, parser, partial, answered, parsed, due, up, dst, dead>>
  BY DEF Ends
<1>2. link[c] \in LinksOf(Requests, Tokens) /\ q \in Seq(Tokens)
  BY LinkTurns
<1> DEFINE lost == SubSeq(q, n + 1, Len(q))
           none == <<>>
           s == SubSeq(q, 1, n)
           l == [link[c] EXCEPT !.st = "ended", !.requests = none, !.stream = s]
<1>3. UNCHANGED <<client, parser, partial, block_store, parsed, answered>> /\ link[c].st = "open"
  BY <1>1 DEF bookVars
<1>4. garbled' = IF lost # <<>> \/ link[c].requests # <<>> THEN garbled \cup {c} ELSE garbled
  <2> HIDE DEF lost
  <2>1. garbled' = CASE client \in Queries -> IF lost # <<>> \/ link[c].requests # <<>>
                                            THEN garbled \cup {c} ELSE garbled
                     [] client \in {"cosmos", "matic"} /\ Splits(lost) -> Ids
                     [] OTHER -> garbled
    BY <1>1 DEF lost
  <2>2. client \notin {"cosmos", "matic"}
    BY DEF Queries
  <2> QED BY <2>1, <2>2
<1>5. TurnedTo(c, l)
  BY <1>1 DEF TurnedTo
<1>6. n \in 0 .. Len(q) /\ Len(q) \in Nat
  BY <1>1, <1>2
<1>7. Len(s) = n /\ \A i \in 1 .. n : s[i] = q[i]
  <2> HIDE DEF q
  <2> QED BY <1>2, <1>6
<1>8. lost = <<>> => s = q
  <2> HIDE DEF q
  <2>1. CASE n = Len(q)
    BY <1>2, <1>6, <2>1
  <2>2. CASE n = 0 /\ n # Len(q)
    <3>1. Len(lost) = Len(q)
      BY <1>2, <1>6, <2>2
    <3>2. Len(<<>>) = 0
      OBVIOUS
    <3> HIDE DEF lost
    <3> QED BY <2>2, <3>1, <3>2
  <2> QED BY <1>1, <2>1, <2>2 DEF q
<1>9. \A i \in 1 .. Len(q) : q[i].of = c
  BY DEF Queried, OwnLinks, Owned
<1>10. \A i \in 1 .. Len(s) : s[i].of = c
  <2> HIDE DEF q, s
  <2>1. \A i \in 1 .. n : i \in 1 .. Len(q)
    BY <1>6
  <2> QED BY <1>7, <1>9, <2>1
<1> HIDE DEF none, s, lost
<1>11. l.st = "ended" /\ l.requests = none /\ l.stream = s /\ l.f = link[c].f
  BY <1>2 DEF LinksOf
<1> HIDE DEF l
<1>12. Owned(l, c)
  <2>1. Len(none) = 0
    BY DEF none
  <2> QED BY <1>10, <1>11, <2>1 DEF Owned
<1>13. ASSUME c \notin garbled'
       PROVE  Heeded(l, c)
  <2>1. lost = <<>> /\ link[c].requests = <<>> /\ garbled' = garbled
    BY <1>4, <1>13
  <2>2. Heeded(link[c], c)
    BY <1>3, <1>13, <2>1, QueryAlone DEF Alive
  <2>3. PICK p \in 0 .. 6, way \in {"straight", "astray"} :
          /\ Carries(link[c], p, Ask(c)) /\ Heeds(Reading(link[c].f), p, Ask(c), parsed, way)
          /\ way = "straight" \/ c - 1 \in garbled
    BY <2>2 DEF Heeded
  <2>4. Len(q) = 6 - p /\ \A i \in 1 .. 6 - p : q[i] = Answer(Ask(c).id, Ask(c).ok)[p + i]
    <3>1. <<Ask(c)>> # <<>>
      OBVIOUS
    <3> QED BY <2>1, <2>3, <3>1 DEF Carries
  <2>5. Carries(l, p, Ask(c))
    <3>1. l.requests = <<>> /\ l.stream = q
      BY <1>8, <1>11, <2>1 DEF none
    <3> HIDE DEF q
    <3> QED BY <2>4, <3>1 DEF Carries
  <2> QED BY <1>11, <2>3, <2>5 DEF Heeded
<1>14. garbled \subseteq garbled' /\ garbled' \subseteq garbled \cup {c}
  BY <1>4
<1> QED BY <1>3, <1>5, <1>11, <1>12, <1>13, <1>14, QuietTurn DEF Alive

LEMMA ClosingTurn ==
  ASSUME RpcBase, client \in Queries, NEW k, Queried(k), NEW c \in Links,
         did_close(c) \/ fiber_recv_cb_end(c) \/ recv_cb_error(c)
  PROVE  QueryTurn(c)
<1> DEFINE l == Closed(link[c], 1)
<1>1. link[c] \in LinksOf(Requests, Tokens) /\ Bears(link[c])
  BY LinkTurns
<1>2. l.st = "closing" /\ Owned(l, c)
  BY <1>1, ClosedOwn
<1>3. UNCHANGED <<client, parser, partial, block_store, parsed, answered>>
  BY DEF did_close, fiber_recv_cb_end, recv_cb_error, bookVars, readVars
<1>4. CASE did_close(c)
  <2> DEFINE none == [NoLink EXCEPT !.st = "closed"]
  <2>1. TurnedTo(c, none) /\ garbled' = garbled /\ link[c].st = "closing"
    BY <1>4 DEF did_close, TurnedTo, readVars
  <2>2. none.st = "closed" /\ none.requests = <<>> /\ none.stream = <<>>
    BY DEF NoLink
  <2> HIDE DEF none
  <2>3. Owned(none, c)
    BY <2>2, BareOwn
  <2> QED BY <1>3, <2>1, <2>2, <2>3, QuietTurn DEF Alive
<1>5. CASE fiber_recv_cb_end(c)
  <2>1. TurnedTo(c, l) /\ garbled' = garbled /\ link[c].st = "ended" /\ link[c].stream = <<>>
    BY <1>5 DEF fiber_recv_cb_end, TurnedTo, readVars
  <2>2. ASSUME c \notin garbled
        PROVE  parser.state = 0
    <3>1. Heeded(link[c], c)
      BY <2>1, <2>2, QueryAlone DEF Alive
    <3>2. PICK p \in 0 .. 6, way \in {"straight", "astray"} :
            Carries(link[c], p, Ask(c)) /\ Heeds(Reading(link[c].f), p, Ask(c), parsed, way)
      BY <3>1 DEF Heeded
    <3>3. Len(link[c].stream) = 6 - p
      BY <2>1, <3>2 DEF Carries
    <3>4. p = 6
      <4>1. Len(<<>>) = 0
        OBVIOUS
      <4> QED BY <2>1, <3>3, <4>1
    <3>5. Reading(link[c].f).parser = parser
      BY DEF Reading
    <3> QED BY <3>2, <3>4, <3>5 DEF Heeds, Straight, Astray, Misread
  <2> HIDE DEF l
  <2> QED BY <1>2, <1>3, <2>1, <2>2, QuietTurn DEF Alive
<1>6. CASE recv_cb_error(c)
  <2>1. TurnedTo(c, l) /\ garbled' = garbled \cup {c} /\ link[c].st \in {"open", "ended"}
    BY <1>6 DEF recv_cb_error, TurnedTo
  <2> HIDE DEF l
  <2> QED BY <1>2, <1>3, <2>1, QuietTurn DEF Alive
<1> QED BY <1>4, <1>5, <1>6

(* A connection starts with the headers, or where the one before stopped.  *)
LEMMA DialTurn ==
  ASSUME RpcBase, client \in Queries, NEW k, Queried(k), NEW c \in Links, dial_cb(c, TRUE) \/ dial_cb(c, FALSE)
  PROVE  QueryTurn(c)
<1>1. link[c] \in LinksOf(Requests, Tokens) /\ Bears(link[c]) /\ link[c].f \in Framings(Tokens)
  BY LinkTurns
<1>2. UNCHANGED <<client, parser, partial, block_store, parsed, answered>> /\ link[c].st = "connecting"
  BY DEF dial_cb, bookVars
<1>3. CASE dial_cb(c, FALSE)
  <2> DEFINE l == Closed(link[c], 1)
  <2>1. l.st = "closing" /\ Owned(l, c)
    BY <1>1, ClosedOwn
  <2>2. TurnedTo(c, l) /\ garbled' = garbled \cup {c}
    BY <1>3 DEF dial_cb, TurnedTo
  <2> HIDE DEF l
  <2> QED BY <1>2, <2>1, <2>2, QuietTurn DEF Alive
<1>4. CASE dial_cb(c, TRUE)
  <2> DEFINE l == did_dial(link[c], c)
             f == link[c].f
             g == reset(f, LineLimit)
             a == Ask(c)
             none == <<>>
  <2>1. TurnedTo(c, l) /\ garbled' = garbled
    BY <1>4 DEF dial_cb, TurnedTo
  <2>2. link[c].stream = none /\ f.framing = "lines"
    BY <1>1, <1>2 DEF Bears, Queried, OwnLinks
  <2>3. g.framing = "lines" /\ g.buf = none /\ g.room = LineLimit
    BY <1>1, <2>2 DEF reset, Framings
  <2>4. l = [link[c] EXCEPT !.st = "open", !.f = g, !.requests = <<a>>]
    BY DEF did_dial, Ask
  <2> HIDE DEF a, f, g, none
  <2>5. l.st = "open" /\ l.f = g /\ l.requests = <<a>> /\ l.stream = none
    BY <1>1, <2>2, <2>4 DEF LinksOf
  <2> HIDE DEF l
  <2>6. Owned(l, c)
    <3>1. Len(<<a>>) = 1 /\ <<a>>[1] = a
      OBVIOUS
    <3>2. Len(none) = 0
      BY DEF none
    <3>3. \A i \in 1 .. Len(l.requests) : l.requests[i] = Ask(c)
      BY <2>5, <3>1 DEF a
    <3> QED BY <2>5, <3>2, <3>3 DEF Owned
  <2>7. ASSUME c \notin garbled
        PROVE  Heeded(l, c)
    <3> DEFINE r == Reading(g)
    <3>1. Carries(l, 0, a)
      BY <2>5 DEF Carries, none
    <3>2. r.f = g /\ r.parser = parser /\ r.closes = 0
      BY DEF Reading
    <3>3. Len(g.buf) = 0 /\ LineLimit - 0 = LineLimit
      BY <2>3, RpcAssumption DEF none
    <3>4. c - 1 \in garbled \/ parser.state = 0
      BY <1>2, <2>7, QueryAlone DEF Alive
    <3>5. parser.state \in {0, 1}
      BY DEF RpcBase, RpcTypeOK, Parsers
    <3> HIDE DEF r
    <3>6. CASE parser.state = 0
      <4>1. HttpPhase(r, 0, a)
        <5>1. Begins(0) = 0 /\ LineLimit - (0 - 0) = LineLimit
          BY RpcAssumption DEF Begins
        <5> QED BY <2>3, <3>2, <3>3, <3>6, <5>1 DEF HttpPhase
      <4>2. Heeds(r, 0, a, parsed, "straight")
        BY <3>2, <4>1 DEF Heeds, Straight
      <4> QED BY <2>5, <3>1, <4>2 DEF Heeded, a, r
    <3>7. CASE parser.state = 1
      <4>1. Heeds(r, 0, a, parsed, "astray")
        BY <2>3, <3>2, <3>3, <3>7 DEF Heeds, Astray, Misread
      <4>2. c - 1 \in garbled
        BY <3>4, <3>7
      <4> QED BY <2>5, <3>1, <4>1, <4>2 DEF Heeded, a, r
    <3> QED BY <3>5, <3>6, <3>7
  <2> QED BY <1>2, <2>1, <2>5, <2>6, <2>7, QuietTurn DEF Alive
<1> QED BY <1>3, <1>4

(* What is left of an answer after n more tokens.                          *)
MovesOn(l, m, p, n, x, a) ==
  /\ l.stream \in Seq(Tokens) /\ p \in 0 .. 6 /\ Carries(l, p, a)
  /\ n \in 1 .. Len(l.stream) /\ x = p + n
  /\ m.requests = l.requests /\ m.stream = SubSeq(l.stream, n + 1, Len(l.stream))

LEMMA CarriesOn ==
  ASSUME NEW l, NEW m, NEW p, NEW n, NEW x, NEW a, MovesOn(l, m, p, n, x, a)
  PROVE  x \in 1 .. 6 /\ Carries(m, x, a) /\ \A i \in 1 .. n : l.stream[i] = Answer(a.id, a.ok)[p + i]
<1> DEFINE q == l.stream
           b == Answer(a.id, a.ok)
           s == SubSeq(q, n + 1, Len(q))
<1>11. /\ q \in Seq(Tokens) /\ p \in 0 .. 6 /\ Carries(l, p, a) /\ n \in 1 .. Len(q) /\ x = p + n
       /\ m.requests = l.requests /\ m.stream = s
  BY DEF MovesOn
<1>1. Len(<<>>) = 0
  OBVIOUS
<1>2. q # <<>>
  BY <1>1, <1>11
<1>3. l.requests = <<>> /\ Len(q) = 6 - p /\ \A i \in 1 .. 6 - p : q[i] = b[p + i]
  BY <1>2, <1>11 DEF Carries
<1> HIDE DEF b, q
<1>4. q \in Seq(Tokens) /\ n \in 0 .. Len(q) /\ n \in 1 .. 6 - p
  BY <1>3, <1>11
<1>5. Len(s) = Len(q) - n /\ \A i \in 1 .. Len(q) - n : s[i] = q[n + i]
  BY <1>4, RestOf
<1>6. x \in 1 .. 6 /\ 6 - x = Len(q) - n /\ p + n = x
  BY <1>3, <1>4, <1>11
<1> HIDE DEF s
<1>7. ASSUME NEW i \in 1 .. 6 - x PROVE s[i] = b[x + i]
  <2>1. n + i \in 1 .. 6 - p /\ p + (n + i) = x + i /\ i \in 1 .. Len(q) - n
    BY <1>3, <1>4, <1>6, <1>11
  <2> DEFINE e == n + i
  <2>2. e \in 1 .. 6 - p /\ p + e = x + i
    BY <2>1
  <2> HIDE DEF e
  <2>3. q[e] = b[p + e]
    BY <1>3, <2>2
  <2> QED BY <1>5, <2>1, <2>2, <2>3 DEF e
<1>8. m.requests = <<>> /\ m.stream = s /\ Len(s) = 6 - x
  BY <1>3, <1>5, <1>6, <1>11
<1>9. Carries(m, x, a)
  BY <1>7, <1>8 DEF Carries, b
<1>10. \A i \in 1 .. n : q[i] = b[p + i]
  <2>1. \A i \in 1 .. n : i \in 1 .. 6 - p
    BY <1>4, <1>11
  <2> QED BY <1>3, <2>1
<1> QED BY <1>6, <1>9, <1>10 DEF q, b

(* The last token that was read ended the answer, and then the document.   *)
LEMMA HeededEnds ==
  ASSUME client \in Queries, NEW V, NEW p, NEW a, Continues(V, p, a), NEW i \in 1 .. Len(V), V[i].last
  PROVE  p + Len(V) = 6
<1> DEFINE n == Len(V)
           b == Answer(a.id, a.ok)
           j == p + i
<1>1. V \in Seq(Tokens) /\ p \in 0 .. 6 /\ p + n <= 6 /\ a.id \in Nat /\ a.ok \in BOOLEAN /\ V[i] = b[p + i]
  BY DEF Continues
<1>2. n \in Nat /\ j \in 1 .. 6
  <2>1. n \in Nat
    BY <1>1
  <2> HIDE DEF n
  <2>2. i \in 1 .. n
    BY DEF n
  <2> QED BY <1>1, <2>1, <2>2
<1>3. client # "eth" /\ AnswerSize = 6
  BY DEF Queries, AnswerSize
<1>4. \A k \in 1 .. 6 : b[k].last <=> k = 6
  BY <1>1, <1>3, AnswerIs
<1> HIDE DEF j
<1>5. V[i] = b[j] /\ j = p + i
  BY <1>1 DEF j
<1> HIDE DEF b, n
<1>6. j = 6
  BY <1>2, <1>4, <1>5
<1>7. i \in 1 .. n
  BY DEF n
<1>8. p + n = 6
  BY <1>1, <1>2, <1>5, <1>6, <1>7
<1> QED BY <1>8 DEF n

LEMMA ReadTurn ==
  ASSUME RpcBase, client \in Queries, NEW k, Queried(k), NEW c \in Links, recv_cb(c)
  PROVE  QueryTurn(c)
<1>1. PICK n \in 1 .. Len(link[c].stream) : Read(c, n)
  BY ReadsChunk
<1>2. link[c] \in LinksOf(Requests, Tokens) /\ Bears(link[c]) /\ link[c].stream \in Seq(Tokens) /\ c \in Nat
      /\ link[c].f \in Framings(Tokens)
  BY LinkTurns
<1> DEFINE V == Chunk(c, n)
           x == ReadOf(c, n)
           q == link[c].stream
           s == SubSeq(q, n + 1, Len(q))
           m == [link[c] EXCEPT !.f = x.f, !.stream = s]
           W == WholeOf(c, n)
           first == Reading(link[c].f)
<1>3. /\ V \in Seq(Tokens) /\ Len(V) = n /\ \A i \in 1 .. n : V[i] = q[i]
      /\ x \in Readings /\ first \in Readings
  BY ChunkIs
<1>4. x = ReadBy(first, V)
  BY DEF ReadOf
<1>5. W = {t.of : t \in {V[i] : i \in {i \in 1 .. n : V[i].last}}}
  BY DEF WholeOf
<1>6. /\ link[c].st \in {"open", "ended"} /\ TurnedTo(c, Closed(m, x.closes))
      /\ parser' = x.parser /\ partial' = x.partial /\ block_store' = x.store /\ parsed' = parsed \cup x.documents
      /\ answered' = answered \cup W /\ garbled' = garbled \cup BadOf(c, n) /\ client' = client
  BY <1>1 DEF Read
<1>7. garbled' = garbled
  <2>1. BadOf(c, n) = {}
    BY DEF BadOf, Queries
  <2> QED BY <1>6, <2>1
<1>8. s \in Seq(Tokens) /\ Len(s) = Len(q) - n /\ \A i \in 1 .. Len(q) - n : s[i] = q[n + i]
  <2>1. n \in 0 .. Len(q)
    BY <1>2
  <2> QED BY <1>2, <2>1, RestOf
<1>9. \A i \in 1 .. Len(q) : q[i].of = c
  BY DEF Queried, OwnLinks, Owned
<1>10. Honest(first) /\ first.f = link[c].f /\ first.documents = {} /\ first.parser = parser /\ first.closes = 0
  BY DEF Honest, Reading
<1> HIDE DEF V, x, s, W, first
<1>11. m \in LinksOf(Requests, Tokens) /\ m.st = link[c].st /\ m.requests = link[c].requests /\ m.stream = s /\ m.f = x.f
  BY <1>2, <1>3, <1>8 DEF LinksOf, Readings
<1> HIDE DEF m
<1>12. Bears(m)
  BY <1>2, <1>6, <1>11 DEF Bears
<1>13. Owned(m, c)
  <2>1. ASSUME NEW i \in 1 .. Len(s) PROVE s[i].of = c
    <3> HIDE DEF q
    <3>1. n \in 1 .. Len(q) /\ Len(q) \in Nat
      BY <1>2 DEF q
    <3>2. i \in 1 .. Len(q) - n /\ n + i \in 1 .. Len(q)
      BY <1>8, <3>1
    <3> DEFINE e == n + i
    <3>3. e \in 1 .. Len(q) /\ s[i] = q[e]
      BY <1>8, <3>2
    <3> HIDE DEF e
    <3> QED BY <1>9, <3>3
  <2>2. \A i \in 1 .. Len(m.requests) : m.requests[i] = Ask(c)
    BY <1>11 DEF Queried, OwnLinks, Owned
  <2> QED BY <1>11, <2>1, <2>2 DEF Owned
<1> DEFINE l == Closed(m, x.closes)
<1>14. IF x.closes = 0 THEN l = m ELSE l.st = "closing" /\ Owned(l, c)
  BY <1>11, <1>12, ClosedIs, ClosedOwn
<1> HIDE DEF l
<1>15. Turned(c) /\ link'[c] = l
  <2>1. TurnedTo(c, l)
    BY <1>6 DEF l
  <2> QED BY <2>1, TurnsTo
<1>16. Owned(l, c) /\ l.st \notin {"idle", "connecting"} /\ link[c].st \in Alive /\ link[c].st # "idle"
  BY <1>6, <1>11, <1>13, <1>14 DEF Alive
<1>17. W \subseteq {c}
  <2>1. \A i \in 1 .. n : i \in 1 .. Len(q)
    BY <1>2
  <2>2. \A i \in 1 .. n : V[i].of = c
    BY <1>3, <1>9, <2>1
  <2> QED BY <1>5, <2>2
<1>18. ASSUME c \notin garbled
       PROVE  Undisturbed(c)
  <2> DEFINE a == Ask(c)
  <2>1. Heeded(link[c], c)
    <3>1. link[c].st # "connecting"
      BY <1>6
    <3> QED BY <1>16, <1>18, <3>1, QueryAlone
  <2>2. PICK p \in 0 .. 6, way \in {"straight", "astray"} :
          /\ Carries(link[c], p, a) /\ Heeds(first, p, a, parsed, way)
          /\ way = "straight" \/ c - 1 \in garbled
    BY <2>1 DEF Heeded, first
  <2>3. a.id = c /\ a.ok = TRUE
    BY DEF Ask
  <2> HIDE DEF a
  <2> DEFINE y == p + n
  <2>12. y = p + n
    OBVIOUS
  <2> HIDE DEF y
  <2>4. y \in 1 .. 6 /\ Carries(m, y, a) /\ \A i \in 1 .. n : q[i] = Answer(a.id, a.ok)[p + i]
    <3>1. m.requests = link[c].requests /\ m.stream = SubSeq(link[c].stream, n + 1, Len(link[c].stream))
      BY <1>11 DEF s
    <3>2. Carries(link[c], p, a)
      BY <2>2
    <3>3. MovesOn(link[c], m, p, n, y, a)
      BY <1>2, <2>12, <3>1, <3>2 DEF MovesOn
    <3>4. PICK u, w, d, z, b : u = link[c] /\ w = m /\ d = n /\ z = y /\ b = a
      OBVIOUS
    <3>5. MovesOn(u, w, p, d, z, b)
      BY <3>3, <3>4
    <3>6. z \in 1 .. 6
      BY <3>5, CarriesOn
    <3>7. Carries(w, z, b)
      BY <3>5, CarriesOn
    <3>8. \A i \in 1 .. d : u.stream[i] = Answer(b.id, b.ok)[p + i]
      BY <3>5, CarriesOn
    <3> QED BY <3>4, <3>6, <3>7, <3>8
  <2>5. p < 6 /\ y \in 1 .. 6
    <3>1. Len(q) \in Nat
      BY <1>2
    <3> HIDE DEF q
    <3>2. n \in 1 .. Len(q)
      BY DEF q
    <3> QED BY <2>4, <2>12, <3>1, <3>2
  <2>6. Continues(V, p, a)
    <3>1. p + Len(V) <= 6
      BY <1>3, <2>4, <2>12
    <3>2. \A i \in 1 .. Len(V) : V[i] = Answer(a.id, a.ok)[p + i]
      BY <1>3, <2>4
    <3> QED BY <1>2, <1>3, <2>3, <3>1, <3>2 DEF Continues
  <2>7. Heeds(first, p, a, first.documents, way)
    BY <2>2, <2>5 DEF Heeds, Straight
  <2>8. Heeds(x, y, a, x.documents, way)
    <3>1. Heeds(x, p + Len(V), a, x.documents, way)
      BY <1>3, <1>4, <1>10, <2>6, <2>7, HeedsAll
    <3> QED BY <1>3, <2>12, <3>1
  <2>9. l.st \notin Alive => parser'.state = 0
    <3>1. ASSUME x.closes # 0 PROVE x.parser.state = 0
      BY <2>5, <2>8, <3>1 DEF Heeds, Straight, Astray, Misread
    <3> QED BY <1>6, <1>11, <1>14, <1>16, <3>1
  <2>10. ASSUME l.st \in Alive PROVE Heeded(link[c], c)'
    <3>1. x.closes = 0 /\ l = m
      BY <1>14, <2>10 DEF Alive
    <3>2. PICK r, g, w, b, D, E : r = x /\ g = x.f /\ w = m /\ b = a /\ D = x.documents /\ E = parsed'
      OBVIOUS
    <3>3. PICK z : z = Reading(g)'
      OBVIOUS
    <3>4. z.f = r.f /\ z.parser = r.parser /\ z.closes = r.closes /\ D \subseteq E
      <4>1. z.f = g /\ z.parser = parser' /\ z.closes = 0
        BY <3>3 DEF Reading
      <4> QED BY <1>6, <3>1, <3>2, <4>1
    <3>5. Heeds(z, y, b, E, way)'
      <4>1. Heeds(r, y, b, D, way)
        BY <2>8, <3>2
      <4> QED BY <1>6, <3>4, <4>1, HeedsSame
    <3>6. Carries(w, y, b)'
      <4>1. Carries(w, y, b)
        BY <2>4, <3>2
      <4> QED BY <1>6, <4>1, CarriesSame
    <3>7. Ask(c)' = b
      BY <3>2 DEF Ask, a
    <3>8. link'[c] = w /\ link'[c].f = g
      BY <1>11, <1>15, <3>1, <3>2
    <3>9. Reading(link[c].f)' = z
      BY <3>3, <3>8 DEF Reading
    <3>10. y \in 0 .. 6 /\ (way = "straight" \/ c - 1 \in garbled')
      BY <1>7, <2>2, <2>5
    <3> QED BY <3>2, <3>5, <3>6, <3>7, <3>8, <3>9, <3>10 DEF Heeded
  <2>11. ASSUME c \in answered' PROVE c \in answered \/ c - 1 \in garbled' \/ c \in parsed'
    <3>1. CASE c \notin W
      BY <1>6, <2>11, <3>1
    <3>2. CASE c \in W
      <4>1. PICK i \in 1 .. n : V[i].last
        BY <1>5, <3>2
      <4>2. y = 6
        BY <1>3, <2>6, <2>12, <4>1, HeededEnds
      <4>3. CASE way = "straight"
        <5>1. c \in x.documents
          BY <2>3, <2>8, <4>2, <4>3 DEF Heeds, Straight
        <5> QED BY <1>6, <5>1
      <4>4. CASE way # "straight"
        BY <1>7, <2>2, <4>4
      <4> QED BY <4>3, <4>4
    <3> QED BY <3>1, <3>2
  <2> QED BY <1>15, <2>9, <2>10, <2>11 DEF Undisturbed
<1> QED BY <1>6, <1>7, <1>15, <1>16, <1>17, <1>18 DEF QueryTurn

LEMMA QueryBegins ==
  ASSUME RpcBase, NEW k \in 0 .. MaxQueries, Queried(k), query \/ stakes_timer
  PROVE  QueriesKept'
<1>1. k \in Nat /\ Begun = 1 .. k /\ Cardinality(1 .. k) = k
  BY FS_Interval, RpcAssumption DEF Queried
<1> DEFINE q == k + 1
           l == [link[q] EXCEPT !.st = "connecting"]
<1>2. q <= MaxQueries /\ link' = [link EXCEPT ![q].st = "connecting"]
      /\ garbled' = IF Unfinished = {} THEN garbled ELSE garbled \cup Unfinished \cup {q}
  <2>1. query_cb
    BY DEF query, stakes_timer
  <2>2. Cardinality(Begun) + 1 = q
    BY <1>1
  <2> QED BY <2>1, <2>2 DEF query_cb
<1>3. UNCHANGED <<client, parser, partial, block_store, parsed, answered>> /\ client \in Queries
  BY DEF query, stakes_timer, bookVars, Queries
<1>4. q \in Links /\ q \in 0 .. MaxQueries /\ q - 1 = k /\ 1 .. q = (1 .. k) \cup {q} /\ q \notin 1 .. k
  BY <1>1, <1>2, RpcAssumption DEF Links
<1> HIDE DEF q
<1>5. link[q].st = "idle" /\ link[q] \in LinksOf(Requests, Tokens)
  BY <1>1, <1>4, LinkTurns DEF Begun
<1>6. TurnedTo(q, l)
  BY <1>2 DEF TurnedTo
<1>7. l.st = "connecting" /\ l.requests = link[q].requests /\ l.stream = link[q].stream /\ l.f = link[q].f
  BY <1>5 DEF LinksOf
<1> HIDE DEF l
<1>8. link'[q] = l /\ \A x \in Links : x # q => link'[x] = link[x]
  BY <1>4, <1>6, TurnsTo, TurnedElse
<1>9. Begun' = 1 .. q
  <2>1. Begun' = Begun \cup {q}
    BY <1>4, <1>7, <1>8 DEF Begun
  <2> QED BY <1>1, <1>4, <2>1
<1>10. OwnLinks'
  <2>1. ASSUME NEW x \in Links
        PROVE  Owned(link'[x], x) /\ (link'[x].st \in {"idle", "connecting"} => link'[x].f.framing = "lines")
    <3>1. Owned(link[x], x) /\ (link[x].st \in {"idle", "connecting"} => link[x].f.framing = "lines")
      BY DEF Queried, OwnLinks
    <3>2. CASE x = q
      BY <1>5, <1>7, <1>8, <3>1, <3>2 DEF Owned
    <3>3. CASE x # q
      BY <1>8, <3>1, <3>3
    <3> QED BY <3>2, <3>3
  <2> QED BY <2>1 DEF OwnLinks, Owned, Ask
<1>11. Unfinished' = Unfinished \cup {q}
  BY <1>4, <1>7, <1>8 DEF Unfinished
<1>12. LastAlone(q)'
  BY <1>2, <1>11 DEF LastAlone
<1>13. LastHeeds(q)'
  <2>1. ASSUME q \notin garbled' PROVE k \in garbled' \/ parser'.state = 0
    <3>1. Unfinished = {} /\ garbled' = garbled
      BY <1>2, <2>1
    <3> QED BY <1>3, <3>1 DEF Queried, LastHeeds
  <2> QED BY <1>4, <1>7, <1>8, <1>11, <2>1 DEF LastHeeds
<1>14. StakesFollow'
  <2>1. garbled \subseteq garbled'
    BY <1>2
  <2> QED BY <1>3, <2>1 DEF Queried, StakesFollow
<1>15. Queried(q)'
  BY <1>9, <1>10, <1>12, <1>13, <1>14 DEF Queried
<1>16. PICK z \in 0 .. MaxQueries : z = q
  BY <1>4
<1>17. Queried(z)'
  BY <1>15, <1>16
<1> QED BY <1>16, <1>17 DEF QueriesKept

LEMMA QueriedSame ==
  ASSUME UNCHANGED <<client, link, parser, partial, block_store, parsed, answered, garbled>>, NEW k, Queried(k)
  PROVE  Queried(k)'
<1>1. Begun' = 1 .. k /\ Unfinished' = Unfinished
  BY DEF Queried, Begun, Unfinished
<1>2. OwnLinks'
  BY DEF Queried, OwnLinks, Owned, Ask
<1>3. LastAlone(k)'
  BY <1>1 DEF Queried, LastAlone
<1>4. LastHeeds(k)'
  <2>1. PICK l : l = link[k]
    OBVIOUS
  <2>2. Heeded(link[k], k) => Heeded(link[k], k)'
    <3>1. ASSUME Heeded(l, k) PROVE Heeded(l, k)'
      BY <3>1, HeededSame
    <3>2. link'[k] = l
      BY <2>1
    <3> QED BY <2>1, <3>1, <3>2
  <2> QED BY <1>1, <2>2 DEF Queried, LastHeeds
<1>5. StakesFollow'
  BY DEF Queried, StakesFollow
<1> QED BY <1>1, <1>2, <1>3, <1>4, <1>5 DEF Queried

LEMMA QueriesInitially ==
  ASSUME RpcInit
  PROVE  QueriesKept
<1>1. SUFFICES ASSUME client \in Queries PROVE Queried(0) /\ 0 \in 0 .. MaxQueries
  BY DEF QueriesKept
<1>2. client \notin Chains
  BY <1>1 DEF Queries, Chains
<1>3. \A c \in Links : link[c] = NoLink
  BY <1>2 DEF RpcInit
<1>4. NoLink.st = "idle" /\ NoLink.requests = <<>> /\ NoLink.stream = <<>> /\ NoLink.f.framing = "lines"
  BY DEF NoLink, Lines
<1>5. Begun = 1 .. 0 /\ Unfinished = {}
  BY <1>3, <1>4 DEF Begun, Unfinished
<1>6. OwnLinks
  <2>1. \A c \in Links : Owned(link[c], c)
    BY <1>3, <1>4, BareOwn
  <2> QED BY <1>3, <1>4, <2>1 DEF OwnLinks
<1>7. LastAlone(0) /\ LastHeeds(0)
  <2>1. parser.state = 0
    BY DEF RpcInit
  <2> QED BY <1>5, <2>1 DEF LastAlone, LastHeeds
<1>8. StakesFollow
  BY DEF RpcInit, StakesFollow
<1> QED BY <1>5, <1>6, <1>7, <1>8, RpcAssumption DEF Queried

LEMMA QueriesStepKept ==
  ASSUME RpcBase, QueriesKept, RpcNext \/ UNCHANGED rpcVars
  PROVE  QueriesKept'
<1>1. client' = client
  BY ClientKept
<1>2. SUFFICES ASSUME client \in Queries PROVE QueriesKept'
  BY <1>1 DEF QueriesKept
<1>3. PICK k \in 0 .. MaxQueries : Queried(k)
  BY <1>2 DEF QueriesKept
<1>4. ASSUME Queried(k)' PROVE QueriesKept'
  BY <1>4 DEF QueriesKept
<1>5. client \notin Chains
  BY <1>2 DEF Queries, Chains
<1>6. ASSUME NEW c \in Links, Answers(c) \/ AnswersUnsized(c) \/ Ends(c) \/ did_close(c) \/ recv_cb(c)
         \/ fiber_recv_cb_end(c) \/ recv_cb_error(c) \/ dial_cb(c, TRUE) \/ dial_cb(c, FALSE)
      PROVE  QueriesKept'
  <2>1. QueryTurn(c)
    BY <1>2, <1>3, <1>6, AnswersTurn, UnsizedTurn, EndsTurn, ClosingTurn, DialTurn, ReadTurn
  <2> QED BY <1>2, <1>3, <1>4, <2>1, QueryTurnKeeps
<1>7. CASE query \/ stakes_timer
  BY <1>3, <1>7, QueryBegins
<1>8. CASE dns_cb \/ UNCHANGED rpcVars
  <2>1. UNCHANGED <<client, link, parser, partial, block_store, parsed, answered, garbled>>
    BY <1>8 DEF dns_cb, rpcVars, bookVars, readVars
  <2> QED BY <1>3, <1>4, <2>1, QueriedSame
<1>9. /\ ~connect_timer_cb /\ ~connect_cb(TRUE) /\ ~connect_cb(FALSE) /\ \A c \in Links : ~recv_cb_end(c)
      /\ \A m \in Blocks, p \in Externals \cup Internals : ~did_recv_MESSAGE(m, p)
      /\ \A p \in Externals \cup Internals : ~PeerLeaves(p)
  BY <1>5 DEF connect_timer_cb, connect_cb, recv_cb_end, did_recv_MESSAGE, PeerLeaves
<1> QED BY <1>6, <1>7, <1>8, <1>9, RpcStepKinds

(* A query that is answered in full is understood, unless it or the one    *)
(* before it was disturbed: one bad answer costs at most one more          *)
(* (did_recv and dial_cb of StakeRequester and Grapher).                   *)
THEOREM StakesFollowAlways == RpcSpec => []StakesFollow
<1>1. RpcInit => RpcKept /\ QueriesKept
  BY RpcInitially, QueriesInitially
<1>2. RpcKept /\ QueriesKept /\ [RpcNext]_rpcVars => RpcKept' /\ QueriesKept'
  BY RpcKeptStep, QueriesStepKept DEF RpcKept
<1>3. QueriesKept => StakesFollow
  BY DEF QueriesKept, Queried, StakesFollow
<1> QED BY <1>1, <1>2, <1>3, PTL DEF RpcSpec
=============================================================================
