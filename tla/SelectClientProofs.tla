-------------------------- MODULE SelectClientProofs --------------------------
(* What both servers' proofs need to know of a step of a client and of a   *)
(* send to one.                                                            *)
EXTENDS SelectClient, SequenceTheorems, WellFoundedInduction, TLAPS

(* A set of natural numbers that is not empty has a least element.         *)
LEMMA LeastNatural ==
  ASSUME NEW S, S \subseteq Nat, S # {}
  PROVE  \E x \in S : \A y \in S : x <= y
<1>1. \E x \in S : \A y \in S : ~(<<y, x>> \in OpToRel(<, Nat))
  BY NatLessThanWellFounded, WFMin, Zenon
<1>2. PICK x \in S : \A y \in S : ~(<<y, x>> \in OpToRel(<, Nat))
  BY <1>1, Zenon
<1>3. OpToRel(<, Nat) = {ss \in Nat \X Nat : ss[1] < ss[2]}
  BY Zenon DEF OpToRel
<1>4. \A y \in S : ~(y < x)
  <2> SUFFICES ASSUME NEW y \in S, y < x PROVE FALSE
    OBVIOUS
  <2> DEFINE pair == <<y, x>>
  <2>1. pair \in Nat \X Nat /\ pair[1] < pair[2]
    OBVIOUS
  <2>2. pair \in {ss \in Nat \X Nat : ss[1] < ss[2]}
    BY <2>1
  <2> QED
    BY <1>2, <1>3, <2>2, Zenon
<1>5. \A y \in S : x <= y
  BY <1>4
<1> QED
  BY <1>5

(* The function that FlattenSeq defines by recursion.                      *)
IsFlattening(h, ss, n) == h = [i \in 1 .. n |-> IF i = 1 THEN ss[i] ELSE h[i - 1] \o ss[i]]

LEMMA FlatteningAt ==
  ASSUME NEW h, NEW ss, NEW n, IsFlattening(h, ss, n), NEW i \in 1 .. n
  PROVE  h[i] = IF i = 1 THEN ss[i] ELSE h[i - 1] \o ss[i]
BY Zenon DEF IsFlattening

(* There is one for each length, and its values are sequences.             *)
LEMMA FlatteningExists ==
  ASSUME NEW S, NEW ss \in Seq(Seq(S)), NEW n \in 1 .. Len(ss)
  PROVE  \E h \in [1 .. n -> Seq(S)] : IsFlattening(h, ss, n)
<1> DEFINE Has(k) == \E h \in [1 .. k -> Seq(S)] : IsFlattening(h, ss, k)
           Bad == {k \in 1 .. Len(ss) : ~Has(k)}
<1>1. Len(ss) \in Nat /\ \A k \in 1 .. Len(ss) : ss[k] \in Seq(S)
  BY LenProperties, ElementOfSeq
<1>2. Has(1) \/ Len(ss) = 0
  <2> SUFFICES ASSUME Len(ss) # 0 PROVE Has(1)
    OBVIOUS
  <2> DEFINE h == [i \in 1 .. 1 |-> ss[1]]
  <2>1. h \in [1 .. 1 -> Seq(S)]
    BY <1>1
  <2>2. IsFlattening(h, ss, 1)
    BY DEF IsFlattening
  <2> QED
    BY <2>1, <2>2
<1>3. ASSUME NEW k \in 1 .. Len(ss), k # 1, Has(k - 1) PROVE Has(k)
  <2>1. PICK g \in [1 .. k - 1 -> Seq(S)] : IsFlattening(g, ss, k - 1)
    BY <1>3
  <2>2. k \in Nat /\ k - 1 \in Nat /\ k - 1 \in 1 .. k - 1 /\ ss[k] \in Seq(S)
    BY <1>1, <1>3
  <2> DEFINE h == [i \in 1 .. k |-> IF i = k THEN g[k - 1] \o ss[k] ELSE g[i]]
  <2>3. g[k - 1] \o ss[k] \in Seq(S)
    BY <2>2, ConcatProperties
  <2>4. h \in [1 .. k -> Seq(S)]
    <3>1. \A i \in 1 .. k : i # k => i \in 1 .. k - 1
      BY <2>2
    <3> QED
      BY <2>3, <3>1
  <2>5. \A i \in 1 .. k : h[i] = IF i = 1 THEN ss[i] ELSE h[i - 1] \o ss[i]
    <3>1. ASSUME NEW i \in 1 .. k, i # k
          PROVE  h[i] = IF i = 1 THEN ss[i] ELSE h[i - 1] \o ss[i]
      <4>1. i \in 1 .. k - 1 /\ h[i] = g[i]
        BY <2>2, <3>1
      <4>2. i # 1 => i - 1 \in 1 .. k /\ i - 1 # k /\ h[i - 1] = g[i - 1]
        BY <2>2, <3>1
      <4>3. g[i] = IF i = 1 THEN ss[i] ELSE g[i - 1] \o ss[i]
        BY <2>1, <4>1, Zenon DEF IsFlattening
      <4> HIDE DEF h
      <4> QED
        BY <4>1, <4>2, <4>3
    <3>2. h[k] = h[k - 1] \o ss[k]
      <4>1. k \in 1 .. k /\ k - 1 \in 1 .. k /\ k - 1 # k
        BY <2>2
      <4>2. h[k] = g[k - 1] \o ss[k] /\ h[k - 1] = g[k - 1]
        BY <4>1, Zenon
      <4> HIDE DEF h
      <4> QED
        BY <4>2
    <3> HIDE DEF h
    <3> QED
      BY <1>3, <3>1, <3>2
  <2>6. IsFlattening(h, ss, k)
    <3>1. h = [i \in 1 .. k |-> h[i]]
      OBVIOUS
    <3> HIDE DEF h
    <3> QED
      BY <2>5, <3>1 DEF IsFlattening
  <2> QED
    BY <2>4, <2>6
<1> HIDE DEF Has
<1>4. Bad = {}
  <2> SUFFICES ASSUME Bad # {} PROVE FALSE
    OBVIOUS
  <2>1. Bad \subseteq Nat
    BY <1>1
  <2>2. PICK k \in Bad : \A j \in Bad : k <= j
    BY <2>1, LeastNatural
  <2>3. k # 1 /\ k \in 1 .. Len(ss)
    BY <1>1, <1>2
  <2>4. k - 1 \in 1 .. Len(ss) /\ ~(k <= k - 1)
    BY <1>1, <2>3
  <2>5. Has(k - 1)
    BY <2>2, <2>4
  <2> QED
    BY <1>3, <2>2, <2>3, <2>5
<1> QED
  BY <1>4 DEF Has

(* It depends on nothing after the place it is asked about.                *)
AgreeTo(n, f, g) == \A i \in 1 .. n : f[i] = g[i]

LEMMA FlatteningUnique ==
  ASSUME NEW n \in Nat, NEW m \in Nat, n <= m,
         NEW ss, NEW tt, AgreeTo(n, ss, tt),
         NEW g, IsFlattening(g, ss, n),
         NEW h, IsFlattening(h, tt, m)
  PROVE  AgreeTo(n, g, h)
<1> USE DEF AgreeTo
<1> DEFINE Bad == {i \in 1 .. n : g[i] # h[i]}
<1> SUFFICES ASSUME Bad # {} PROVE FALSE
  OBVIOUS
<1>1. PICK k \in Bad : \A j \in Bad : k <= j
  <2>1. Bad \subseteq Nat
    OBVIOUS
  <2> QED
    BY <2>1, LeastNatural
<1>2. k \in 1 .. n /\ k \in 1 .. m /\ g[k] # h[k]
  BY <1>1
<1>3. /\ g[k] = IF k = 1 THEN ss[k] ELSE g[k - 1] \o ss[k]
      /\ h[k] = IF k = 1 THEN tt[k] ELSE h[k - 1] \o tt[k]
  <2> HIDE DEF Bad
  <2> QED
    BY <1>2, Zenon DEF IsFlattening
<1>4. k # 1 => k - 1 \in 1 .. n /\ ~(k <= k - 1)
  BY <1>2
<1>5. k # 1 => g[k - 1] = h[k - 1]
  BY <1>1, <1>4
<1> QED
  BY <1>2, <1>3, <1>5

(* FlattenSeq by cases, and its type.                                      *)
LEMMA FlattenUnfold ==
  ASSUME NEW S, NEW ss \in Seq(Seq(S)), Len(ss) # 0
  PROVE  \E h \in [1 .. Len(ss) -> Seq(S)] :
            IsFlattening(h, ss, Len(ss)) /\ Seqs!FlattenSeq(ss) = h[Len(ss)]
<1>1. Len(ss) \in Nat /\ Len(ss) \in 1 .. Len(ss)
  BY LenProperties
<1>2. PICK g \in [1 .. Len(ss) -> Seq(S)] : IsFlattening(g, ss, Len(ss))
  BY <1>1, FlatteningExists
<1> DEFINE h == CHOOSE h : IsFlattening(h, ss, Len(ss))
<1>3. IsFlattening(h, ss, Len(ss))
  BY <1>2
<1>4. Seqs!FlattenSeq(ss) = h[Len(ss)]
  BY DEF Seqs!FlattenSeq, IsFlattening
<1> HIDE DEF h
<1>5. h = g
  <2>1. \A i \in 1 .. Len(ss) : g[i] = h[i]
    <3>1. AgreeTo(Len(ss), ss, ss) /\ Len(ss) <= Len(ss)
      BY <1>1 DEF AgreeTo
    <3> QED
      BY <1>1, <1>2, <1>3, <3>1, FlatteningUnique DEF AgreeTo
  <2>2. h = [i \in 1 .. Len(ss) |-> h[i]]
    BY <1>3, Zenon DEF IsFlattening
  <2> QED
    BY <2>1, <2>2
<1> QED
  BY <1>2, <1>4, <1>5

(* Flattening the empty sequence, or one with a last element.              *)
LEMMA FlattenEmpty == Seqs!FlattenSeq(<<>>) = <<>>
BY DEF Seqs!FlattenSeq

LEMMA FlattenAppend ==
  ASSUME NEW S, NEW ss \in Seq(Seq(S)), NEW x \in Seq(S)
  PROVE  /\ Seqs!FlattenSeq(ss) \in Seq(S)
         /\ Seqs!FlattenSeq(Append(ss, x)) = Seqs!FlattenSeq(ss) \o x
<1> DEFINE tt == Append(ss, x)
           n == Len(ss)
<1>1. /\ tt \in Seq(Seq(S)) /\ Len(tt) = n + 1 /\ n \in Nat /\ tt[n + 1] = x
      /\ \A i \in 1 .. n : ss[i] = tt[i]
  BY LenProperties, AppendProperties
<1> HIDE DEF tt
<1>2. PICK h \in [1 .. Len(tt) -> Seq(S)] : IsFlattening(h, tt, Len(tt)) /\ Seqs!FlattenSeq(tt) = h[Len(tt)]
  BY <1>1, FlattenUnfold
<1>3. Seqs!FlattenSeq(tt) = IF n = 0 THEN x ELSE h[n] \o x
  <2>0. n + 1 - 1 = n /\ (n + 1 = 1 <=> n = 0)
    BY <1>1
  <2>1. h[n + 1] = IF n + 1 = 1 THEN tt[n + 1] ELSE h[n + 1 - 1] \o tt[n + 1]
    <3>1. n + 1 \in 1 .. Len(tt)
      BY <1>1
    <3> QED
      BY <1>2, <3>1, FlatteningAt
  <2> QED
    BY <1>1, <1>2, <2>0, <2>1
<1>4. CASE n = 0
  <2>1. ss = <<>>
    BY <1>4, EmptySeq
  <2>2. Seqs!FlattenSeq(ss) = <<>> /\ <<>> \in Seq(S) /\ <<>> \o x = x
    BY <2>1, FlattenEmpty, EmptySeq, ConcatEmptySeq
  <2> QED
    BY <1>3, <1>4, <2>2 DEF tt
<1>5. CASE n # 0
  <2>1. PICK g \in [1 .. n -> Seq(S)] : IsFlattening(g, ss, n) /\ Seqs!FlattenSeq(ss) = g[n]
    BY <1>5, FlattenUnfold
  <2>2. AgreeTo(n, g, h)
    <3>1. n + 1 \in Nat /\ n <= n + 1 /\ IsFlattening(h, tt, n + 1) /\ AgreeTo(n, ss, tt)
      BY <1>1, <1>2 DEF AgreeTo
    <3> QED
      BY <1>1, <2>1, <3>1, FlatteningUnique
  <2>3. n \in 1 .. n
    BY <1>1, <1>5
  <2>4. Seqs!FlattenSeq(ss) = h[n] /\ h[n] \in Seq(S)
    BY <2>1, <2>2, <2>3 DEF AgreeTo
  <2>5. Seqs!FlattenSeq(tt) = h[n] \o x
    BY <1>3, <1>5
  <2> QED
    BY <2>4, <2>5 DEF tt
<1> QED
  BY <1>4, <1>5

(* A split of bytes in flight.                                             *)
LEMMA SplitTypes ==
  ASSUME NEW S, NEW s \in Seq(S), NEW n \in 0 .. Len(s)
  PROVE  First(s, n) \in Seq(S) /\ AllBut(s, n) \in Seq(S)
<1>1. Len(s) \in Nat /\ \A i \in 1 .. Len(s) : s[i] \in S
  BY LenProperties, ElementOfSeq
<1>2. SubSeq(s, 1, n) \in Seq(S)
  <2>1. \A i \in 1 .. n : s[i] \in S
    BY <1>1
  <2> QED
    BY <1>1, <2>1, SubSeqProperties
<1>3. SubSeq(s, n + 1, Len(s)) \in Seq(S)
  <2>1. \A i \in n + 1 .. Len(s) : s[i] \in S
    BY <1>1
  <2> QED
    BY <1>1, <2>1, SubSeqProperties
<1> QED
  BY <1>2, <1>3 DEF First, AllBut

LEMMA SplitJoins ==
  ASSUME NEW S, NEW s \in Seq(S), NEW n \in 0 .. Len(s)
  PROVE  First(s, n) \o AllBut(s, n) = s
<1>1. Len(s) \in Nat
  BY LenProperties
<1>2. 1 \in 1 .. Len(s) + 1 /\ n \in 1 - 1 .. Len(s) /\ Len(s) \in n .. Len(s)
  BY <1>1
<1>3. SubSeq(s, 1, n) \o SubSeq(s, n + 1, Len(s)) = SubSeq(s, 1, Len(s))
  BY <1>2, ConcatAdjacentSubSeq
<1> QED
  BY <1>3, SubSeqFull DEF First, AllBut

(* recv returns no more than there is and than it was asked for.           *)
LEMMA ReceivedRange ==
  ASSUME NEW S, NEW s \in Seq(S), NEW size \in Nat, NEW n \in Received(s, size)
  PROVE  n \in 0 .. Len(s) /\ n <= size
<1>1. Len(s) \in Nat
  BY LenProperties
<1> QED
  BY <1>1 DEF Received, Smaller

(* A reply, or the end of the stream, in the client.                       *)
LEMMA ReceivesTypes ==
  ASSUME ClientTypeOK, NEW c \in Clients, NEW n \in 0 .. Len(down[c]), ClientReceives(c, n)
  PROVE  ClientTypeOK'
<1>1. down[c] \in Seq(Byte) /\ got[c] \in Seq(Seq(Byte))
  BY DEF ClientTypeOK
<1>2. First(down[c], n) \in Seq(Byte) /\ AllBut(down[c], n) \in Seq(Byte)
  BY <1>1, SplitTypes
<1>3. Append(got[c], First(down[c], n)) \in Seq(Seq(Byte))
  BY <1>1, <1>2, AppendProperties
<1> QED
  BY <1>2, <1>3 DEF ClientTypeOK, ClientReceives

(* It takes nothing from the client's stream and adds nothing to it.       *)
LEMMA ReceivesStream ==
  ASSUME ClientTypeOK, NEW c \in Clients, NEW n \in 0 .. Len(down[c]), ClientReceives(c, n)
  PROVE  \A d \in Clients : Stream(d)' = Stream(d)
<1> DEFINE head == First(down[c], n)
           tail == AllBut(down[c], n)
<1>1. down[c] \in Seq(Byte) /\ got[c] \in Seq(Seq(Byte))
  BY DEF ClientTypeOK
<1>2. head \in Seq(Byte) /\ tail \in Seq(Byte) /\ head \o tail = down[c]
  BY <1>1, SplitTypes, SplitJoins
<1>3. got' = [got EXCEPT ![c] = Append(@, head)] /\ down' = [down EXCEPT ![c] = tail]
  BY DEF ClientReceives
<1> HIDE DEF head, tail
<1>4. got'[c] = Append(got[c], head) /\ down'[c] = tail
  BY <1>3 DEF ClientTypeOK
<1>5. /\ Seqs!FlattenSeq(got[c]) \in Seq(Byte)
      /\ Seqs!FlattenSeq(Append(got[c], head)) = Seqs!FlattenSeq(got[c]) \o head
  BY <1>1, <1>2, FlattenAppend
<1>6. (Seqs!FlattenSeq(got[c]) \o head) \o tail = Seqs!FlattenSeq(got[c]) \o down[c]
  <2> DEFINE flat == Seqs!FlattenSeq(got[c])
  <2>1. flat \in Seq(Byte)
    BY <1>5
  <2> HIDE DEF flat
  <2>2. (flat \o head) \o tail = flat \o (head \o tail)
    <3>1. head \in Seq(Byte) /\ tail \in Seq(Byte)
      BY <1>2
    <3> QED
      BY <2>1, <3>1, ConcatAssociative, SMTT(30)
  <2> QED
    BY <1>2, <2>2 DEF flat
<1>7. Stream(c)' = Stream(c)
  BY <1>4, <1>5, <1>6 DEF Stream
<1>8. ASSUME NEW d \in Clients, d # c PROVE Stream(d)' = Stream(d)
  <2>1. got'[d] = got[d] /\ down'[d] = down[d]
    BY <1>3, <1>8 DEF ClientTypeOK
  <2> QED
    BY <2>1 DEF Stream
<1> QED
  BY <1>7, <1>8

LEMMA BytesAssociate ==
  \A a, b, e \in Seq(Byte) : (a \o b) \o e = a \o (b \o e)
<1> TAKE a, b, e \in Seq(Byte)
<1> QED
  BY ConcatAssociative

LEMMA PrefixOfConcat ==
  ASSUME NEW S, NEW a \in Seq(S), NEW b \in Seq(S)
  PROVE  Len(a) \in 0 .. Len(a \o b) /\ SubSeq(a \o b, 1, Len(a)) = a
<1>1. a \o b \in Seq(S) /\ Len(a) \in Nat /\ Len(b) \in Nat /\ Len(a \o b) = Len(a) + Len(b)
  BY ConcatProperties, LenProperties
<1>2. \A i \in 1 .. Len(a) : (a \o b)[i] = a[i] /\ a[i] \in S
  BY <1>1, ConcatProperties, ElementOfSeq
<1> DEFINE p == SubSeq(a \o b, 1, Len(a))
<1>3. p \in Seq(S) /\ Len(p) = Len(a) /\ \A i \in 1 .. Len(a) : p[i] = (a \o b)[i]
  BY <1>1, <1>2, SubSeqProperties
<1>4. p = a
  BY <1>2, <1>3, SeqEqual
<1> QED
  BY <1>1, <1>4

LEMMA StreamType ==
  ASSUME ClientTypeOK, NEW c \in Clients
  PROVE  Stream(c) \in Seq(Byte)
<1>1. got[c] \in Seq(Seq(Byte)) /\ down[c] \in Seq(Byte)
  BY DEF ClientTypeOK
<1>2. Seqs!FlattenSeq(got[c]) \in Seq(Byte)
  BY <1>1, EmptySeq, FlattenAppend
<1> QED
  BY <1>1, <1>2, ConcatProperties DEF Stream

(* What is sent to a client is the end of its stream.                      *)
LEMMA StreamGrows ==
  ASSUME ClientTypeOK, NEW c \in Clients, NEW bytes \in Seq(Byte),
         got' = got, down' = [down EXCEPT ![c] = @ \o bytes]
  PROVE  \A d \in Clients : Stream(d)' = IF d = c THEN Stream(c) \o bytes ELSE Stream(d)
<1> DEFINE flat == Seqs!FlattenSeq(got[c])
<1>1. got[c] \in Seq(Seq(Byte)) /\ down[c] \in Seq(Byte)
  BY DEF ClientTypeOK
<1>2. flat \in Seq(Byte)
  BY <1>1, EmptySeq, FlattenAppend
<1>3. (flat \o down[c]) \o bytes = flat \o (down[c] \o bytes)
  <2>1. down[c] \in Seq(Byte)
    BY <1>1
  <2> HIDE DEF flat
  <2> QED
    BY <1>2, <2>1, BytesAssociate, Zenon
<1>4. down'[c] = down[c] \o bytes /\ \A d \in Clients : d # c => down'[d] = down[d]
  BY DEF ClientTypeOK
<1>5. Stream(c)' = Stream(c) \o bytes
  BY <1>3, <1>4 DEF Stream
<1>6. ASSUME NEW d \in Clients, d # c PROVE Stream(d)' = Stream(d)
  BY <1>4, <1>6 DEF Stream
<1> QED
  BY <1>5, <1>6

(* Every step of a client.                                                 *)
LEMMA ClientTypes ==
  ASSUME ClientTypeOK, NEW c \in Clients, ClientStep(c)
  PROVE  ClientTypeOK'
<1>1. CASE Connect(c)
  BY <1>1 DEF Connect, ClientTypeOK
<1>2. CASE SendRequest(c)
  <2>1. PICK text \in Texts[c] :
          /\ sent' = [sent EXCEPT ![c] = Append(@, text)]
          /\ up' = IF alive THEN [up EXCEPT ![c] = @ \o TextWithNul(text)] ELSE up
    BY <1>2 DEF SendRequest
  <2>2. text \in Seq(Byte \ {NUL})
    BY SelectClientAssumption
  <2>3. text \in Seq(Byte)
    BY <2>2, SeqMonotonic, Byte \ {NUL} \subseteq Byte
  <2>4. NUL \in Byte
    BY DEF NUL, Byte
  <2>5. TextWithNul(text) \in Seq(Byte)
    BY <2>3, <2>4, AppendProperties DEF TextWithNul
  <2>6. up[c] \in Seq(Byte) /\ sent[c] \in Seq(Seq(Byte))
    BY DEF ClientTypeOK
  <2>7. up[c] \o TextWithNul(text) \in Seq(Byte) /\ Append(sent[c], text) \in Seq(Seq(Byte))
    BY <2>3, <2>5, <2>6, ConcatProperties, AppendProperties
  <2>8. up' \in [Clients -> Seq(Byte)] /\ sent' \in [Clients -> Seq(Seq(Byte))]
    BY <2>1, <2>7 DEF ClientTypeOK
  <2> QED
    BY <1>2, <2>8 DEF SendRequest, ClientTypeOK
<1>3. CASE SendFails(c)
  BY <1>3 DEF SendFails, networkVars, ClientTypeOK
<1>4. CASE RecvReply(c)
  <2>1. PICK n \in Received(down[c], ReplyLimit) : ClientReceives(c, n)
    BY <1>4 DEF RecvReply
  <2>2. n \in 0 .. Len(down[c])
    BY SelectClientAssumption, ReceivedRange DEF ClientTypeOK, ReplyLimit
  <2> QED
    BY <2>1, <2>2, ReceivesTypes
<1>5. CASE RecvNothing(c)
  <2>1. CASE ClientReceives(c, 0)
    <3>1. 0 \in 0 .. Len(down[c])
      BY LenProperties DEF ClientTypeOK
    <3> QED
      BY <2>1, <3>1, ReceivesTypes
  <2>2. CASE ~ClientReceives(c, 0)
    BY <1>5, <2>2 DEF RecvNothing, networkVars, ClientTypeOK
  <2> QED
    BY <2>1, <2>2
<1>6. CASE HangUp(c)
  <2>1. <<>> \in Seq(Byte)
    BY EmptySeq
  <2> QED
    BY <1>6, <2>1 DEF HangUp, ClientTypeOK
<1> QED
  BY <1>1, <1>2, <1>3, <1>4, <1>5, <1>6 DEF ClientStep

(* A server's send.                                                        *)
LEMMA SendTypes ==
  ASSUME ClientTypeOK, NEW c \in Clients, NEW bytes \in Seq(Byte), ServerSends(c, bytes),
         UNCHANGED <<up, clientVars>>
  PROVE  ClientTypeOK'
<1>1. down[c] \o bytes \in Seq(Byte)
  BY ConcatProperties DEF ClientTypeOK
<1> QED
  BY <1>1 DEF ServerSends, ClientTypeOK, clientVars

(* A client takes no bytes from what is on its way to the server, and once *)
(* connected its connection stays, if only as one that was hung up.        *)
LEMMA ClientEffects ==
  ASSUME ClientTypeOK, OffUnconnected, NEW c \in Clients, ClientStep(c)
  PROVE  /\ OffUnconnected'
         /\ \A d \in Clients :
              /\ up[d] # <<>> => up'[d] # <<>>
              /\ link[d] \in {"fin", "rst"} => link'[d] \in {"fin", "rst"}
              /\ link[d] \in {"up", "fin", "rst"} => link'[d] \in {"up", "fin", "rst"}
<1>1. CASE Connect(c)
  BY <1>1 DEF Connect, OffUnconnected, ClientTypeOK
<1>2. CASE SendRequest(c)
  <2>1. PICK text \in Texts[c] :
          up' = IF alive THEN [up EXCEPT ![c] = @ \o TextWithNul(text)] ELSE up
    BY <1>2 DEF SendRequest
  <2>2. text \in Seq(Byte \ {NUL})
    BY SelectClientAssumption
  <2>3. text \in Seq(Byte)
    BY <2>2, SeqMonotonic, Byte \ {NUL} \subseteq Byte
  <2>4. NUL \in Byte
    BY DEF NUL, Byte
  <2>5. TextWithNul(text) \in Seq(Byte)
    BY <2>3, <2>4, AppendProperties DEF TextWithNul
  <2>6. up[c] # <<>> => up[c] \o TextWithNul(text) # <<>>
    BY <2>5, ConcatEqualIffEmpty DEF ClientTypeOK
  <2>7. \A d \in Clients : up[d] # <<>> => up'[d] # <<>>
    BY <2>1, <2>6 DEF ClientTypeOK
  <2> QED
    BY <1>2, <2>7 DEF SendRequest, OffUnconnected, ClientTypeOK
<1>3. CASE SendFails(c)
  BY <1>3 DEF SendFails, networkVars, OffUnconnected, ClientTypeOK
<1>4. CASE RecvReply(c) \/ RecvNothing(c)
  BY <1>4 DEF RecvReply, RecvNothing, ClientReceives, networkVars, OffUnconnected, ClientTypeOK
<1>5. CASE HangUp(c)
  BY <1>5 DEF HangUp, OffUnconnected, ClientTypeOK
<1> QED
  BY <1>1, <1>2, <1>3, <1>4, <1>5 DEF ClientStep

-----------------------------------------------------------------------------
(* The letters of a string within another.                                 *)
LEMMA WithinItself ==
  ASSUME NEW s
  PROVE  LettersWithin(s, s)
<1> DEFINE f == [i \in LetterAt(s) |-> i]
<1>1. f \in [LetterAt(s) -> LetterAt(s)]
  OBVIOUS
<1> QED
  BY <1>1 DEF LettersWithin

LEMMA WithinTransitive ==
  ASSUME NEW s, NEW t, NEW u, LettersWithin(s, t), LettersWithin(t, u)
  PROVE  LettersWithin(s, u)
<1>1. PICK f \in [LetterAt(s) -> LetterAt(t)] :
        /\ \A i \in LetterAt(s) : s[i] = t[f[i]]
        /\ \A i, j \in LetterAt(s) : i < j => f[i] < f[j]
  BY DEF LettersWithin
<1>2. PICK g \in [LetterAt(t) -> LetterAt(u)] :
        /\ \A i \in LetterAt(t) : t[i] = u[g[i]]
        /\ \A i, j \in LetterAt(t) : i < j => g[i] < g[j]
  BY DEF LettersWithin
<1> DEFINE h == [i \in LetterAt(s) |-> g[f[i]]]
<1>3. h \in [LetterAt(s) -> LetterAt(u)]
  BY <1>1, <1>2
<1>4. \A i \in LetterAt(s) : s[i] = u[h[i]]
  BY <1>1, <1>2
<1>5. \A i, j \in LetterAt(s) : i < j => h[i] < h[j]
  BY <1>1, <1>2
<1> QED
  BY <1>3, <1>4, <1>5 DEF LettersWithin

(* Where the letters of two joined strings are.                            *)
LEMMA LetterAtJoined ==
  ASSUME NEW s \in Seq(Byte), NEW t \in Seq(Byte), NEW i
  PROVE  i \in LetterAt(s \o t) <=>
           \/ i \in LetterAt(s)
           \/ i \in Nat /\ i > Len(s) /\ i - Len(s) \in LetterAt(t)
<1>1. PICK w : w = s \o t
  OBVIOUS
<1>2. /\ Len(s) \in Nat /\ Len(t) \in Nat /\ Len(w) = Len(s) + Len(t)
      /\ \A j \in 1 .. Len(s) + Len(t) : w[j] = IF j <= Len(s) THEN s[j] ELSE t[j - Len(s)]
  BY <1>1, ConcatProperties, LenProperties
<1>3. CASE i \in 1 .. Len(s)
  BY <1>1, <1>2, <1>3 DEF LetterAt
<1>4. CASE i \in Nat /\ i > Len(s)
  <2>1. i \notin LetterAt(s) /\ (i \in 1 .. Len(w) <=> i - Len(s) \in 1 .. Len(t))
    BY <1>2, <1>4 DEF LetterAt
  <2>2. i \in 1 .. Len(w) => w[i] = t[i - Len(s)]
    BY <1>2, <1>4
  <2> QED
    BY <1>1, <1>4, <2>1, <2>2 DEF LetterAt
<1>5. CASE i \notin 1 .. Len(s) /\ ~(i \in Nat /\ i > Len(s))
  BY <1>1, <1>2, <1>5 DEF LetterAt
<1> QED
  BY <1>3, <1>4, <1>5

LEMMA WithinJoined ==
  ASSUME NEW a \in Seq(Byte), NEW b \in Seq(Byte), NEW s \in Seq(Byte), NEW t \in Seq(Byte),
         LettersWithin(a, b), LettersWithin(s, t)
  PROVE  LettersWithin(a \o s, b \o t)
<1>1. PICK f \in [LetterAt(a) -> LetterAt(b)] :
        /\ \A i \in LetterAt(a) : a[i] = b[f[i]]
        /\ \A i, j \in LetterAt(a) : i < j => f[i] < f[j]
  BY DEF LettersWithin
<1>2. PICK g \in [LetterAt(s) -> LetterAt(t)] :
        /\ \A i \in LetterAt(s) : s[i] = t[g[i]]
        /\ \A i, j \in LetterAt(s) : i < j => g[i] < g[j]
  BY DEF LettersWithin
<1>3. Len(a) \in Nat /\ Len(b) \in Nat /\ Len(s) \in Nat /\ Len(t) \in Nat
  BY LenProperties
<1>4. PICK x, y : x = a \o s /\ y = b \o t
  OBVIOUS
<1>5. /\ \A i \in 1 .. Len(a) + Len(s) : x[i] = IF i <= Len(a) THEN a[i] ELSE s[i - Len(a)]
      /\ \A i \in 1 .. Len(b) + Len(t) : y[i] = IF i <= Len(b) THEN b[i] ELSE t[i - Len(b)]
  BY <1>4, ConcatProperties
<1>6. /\ \A i \in LetterAt(x) : i \in LetterAt(a) \/ (i \in Nat /\ i > Len(a) /\ i - Len(a) \in LetterAt(s))
      /\ \A i \in LetterAt(b) : i \in LetterAt(y)
      /\ \A i \in LetterAt(t) : Len(b) + i \in LetterAt(y)
  <2>1. \A i \in LetterAt(x) : i \in LetterAt(a) \/ (i \in Nat /\ i > Len(a) /\ i - Len(a) \in LetterAt(s))
    BY <1>4, LetterAtJoined
  <2>2. \A i \in LetterAt(b) : i \in LetterAt(y)
    BY <1>4, LetterAtJoined
  <2>3. ASSUME NEW i \in LetterAt(t) PROVE Len(b) + i \in LetterAt(y)
    <3>1. i \in Nat /\ i > 0
      BY <1>3 DEF LetterAt
    <3>2. PICK k \in Nat : k = Len(b) + i
      BY <1>3, <3>1
    <3>3. k > Len(b) /\ k - Len(b) = i
      BY <1>3, <3>1, <3>2
    <3>4. k \in LetterAt(y)
      BY <1>4, <3>3, LetterAtJoined
    <3> QED
      BY <3>2, <3>4
  <2> QED
    BY <2>1, <2>2, <2>3
<1>7. LetterAt(a) \subseteq 1 .. Len(a) /\ LetterAt(b) \subseteq 1 .. Len(b) /\ LetterAt(s) \subseteq 1 .. Len(s)
      /\ LetterAt(t) \subseteq 1 .. Len(t)
  BY DEF LetterAt
<1> DEFINE h == [i \in LetterAt(x) |-> IF i <= Len(a) THEN f[i] ELSE Len(b) + g[i - Len(a)]]
<1>8. ASSUME NEW i \in LetterAt(x)
      PROVE  \/ i \in LetterAt(a) /\ i \in 1 .. Len(a) /\ h[i] = f[i] /\ h[i] \in 1 .. Len(b)
             \/ /\ i \in Nat /\ i > Len(a) /\ i - Len(a) \in LetterAt(s) /\ i - Len(a) \in 1 .. Len(s)
                /\ h[i] = Len(b) + g[i - Len(a)] /\ g[i - Len(a)] \in LetterAt(t)
                /\ g[i - Len(a)] \in 1 .. Len(t)
  <2>1. CASE i \in LetterAt(a)
    BY <1>1, <1>3, <1>7, <2>1
  <2>2. CASE i \in Nat /\ i > Len(a) /\ i - Len(a) \in LetterAt(s)
    BY <1>2, <1>3, <1>7, <2>2
  <2> QED
    BY <1>6, <2>1, <2>2
<1>9. h \in [LetterAt(x) -> LetterAt(y)]
  <2>1. ASSUME NEW i \in LetterAt(x) PROVE h[i] \in LetterAt(y)
    BY <1>1, <1>6, <1>8
  <2> QED
    BY <2>1
<1>10. ASSUME NEW i \in LetterAt(x) PROVE x[i] = y[h[i]]
  <2>1. CASE i \in LetterAt(a) /\ i \in 1 .. Len(a) /\ h[i] = f[i] /\ h[i] \in 1 .. Len(b)
    <3> HIDE DEF h
    <3>1. i \in 1 .. Len(a) + Len(s) /\ i <= Len(a) /\ h[i] \in 1 .. Len(b) + Len(t) /\ h[i] <= Len(b)
      BY <1>3, <2>1
    <3>2. x[i] = a[i]
      BY <1>5, <3>1
    <3>3. y[h[i]] = b[h[i]]
      BY <1>5, <3>1
    <3>4. a[i] = b[f[i]] /\ h[i] = f[i]
      BY <1>1, <2>1
    <3> QED
      BY <3>2, <3>3, <3>4
  <2>2. CASE /\ i \in Nat /\ i > Len(a) /\ i - Len(a) \in LetterAt(s) /\ i - Len(a) \in 1 .. Len(s)
             /\ h[i] = Len(b) + g[i - Len(a)] /\ g[i - Len(a)] \in LetterAt(t)
             /\ g[i - Len(a)] \in 1 .. Len(t)
    <3>1. PICK j \in 1 .. Len(s), k \in 1 .. Len(t) : j = i - Len(a) /\ k = g[j]
      BY <2>2
    <3>2. h[i] = Len(b) + k /\ h[i] \in 1 .. Len(b) + Len(t) /\ ~(h[i] <= Len(b)) /\ h[i] - Len(b) = k
      BY <1>3, <2>2, <3>1
    <3>3. x[i] = s[j]
      <4>1. i \in 1 .. Len(a) + Len(s) /\ ~(i <= Len(a))
        BY <1>3, <2>2
      <4>2. x[i] = s[i - Len(a)]
        BY <1>5, <4>1
      <4> QED
        BY <3>1, <4>2
    <3>4. y[h[i]] = t[k]
      BY <1>5, <3>2
    <3>5. j \in LetterAt(s)
      BY <2>2, <3>1
    <3>6. s[j] = t[k]
      BY <1>2, <3>1, <3>5
    <3> QED
      BY <3>3, <3>4, <3>6
  <2> HIDE DEF h
  <2> QED
    BY <1>8, <2>1, <2>2
<1>11. ASSUME NEW i \in LetterAt(x), NEW j \in LetterAt(x), i < j PROVE h[i] < h[j]
  <2> HIDE DEF h
  <2>1. CASE j \in 1 .. Len(a)
    <3>1. i \in 1 .. Len(a)
      BY <1>3, <1>8, <1>11, <2>1
    <3>2. i \in LetterAt(a) /\ h[i] = f[i] /\ j \in LetterAt(a) /\ h[j] = f[j]
      BY <1>3, <1>8, <2>1, <3>1
    <3> QED
      BY <1>1, <1>11, <3>2
  <2>2. CASE i \in 1 .. Len(a) /\ j \notin 1 .. Len(a)
    <3>1. h[i] \in 1 .. Len(b)
      BY <1>3, <1>8, <2>2
    <3>2. \E k \in 1 .. Len(t) : h[j] = Len(b) + k
      BY <1>8, <2>2
    <3> QED
      BY <1>3, <3>1, <3>2
  <2>3. CASE i \notin 1 .. Len(a) /\ j \notin 1 .. Len(a)
    <3>1. /\ i \in Nat /\ i - Len(a) \in LetterAt(s) /\ h[i] = Len(b) + g[i - Len(a)] /\ g[i - Len(a)] \in 1 .. Len(t)
          /\ j \in Nat /\ j - Len(a) \in LetterAt(s) /\ h[j] = Len(b) + g[j - Len(a)] /\ g[j - Len(a)] \in 1 .. Len(t)
      BY <1>8, <2>3
    <3>2. i - Len(a) < j - Len(a)
      BY <1>3, <1>11, <3>1
    <3>3. g[i - Len(a)] < g[j - Len(a)]
      BY <1>2, <3>1, <3>2
    <3> QED
      BY <1>3, <3>1, <3>3
  <2> QED
    BY <2>1, <2>2, <2>3
<1> HIDE DEF h
<1>12. LettersWithin(x, y)
  BY <1>9, <1>10, <1>11 DEF LettersWithin
<1> QED
  BY <1>4, <1>12

LEMMA NoLetters ==
  ASSUME NEW s, NEW t, LetterAt(s) = {}
  PROVE  LettersWithin(s, t)
<1> DEFINE f == [i \in LetterAt(s) |-> i]
<1>1. f \in [LetterAt(s) -> LetterAt(t)]
  OBVIOUS
<1> QED
  BY <1>1 DEF LettersWithin

(* A string is within a longer one, and one with more that are not letters *)
(* is within it.                                                           *)
LEMMA WithinLonger ==
  ASSUME NEW s \in Seq(Byte), NEW t \in Seq(Byte)
  PROVE  LettersWithin(s, s \o t)
<1>1. <<>> \in Seq(Byte) /\ s \o <<>> = s
  BY EmptySeq, ConcatEmptySeq
<1>2. LettersWithin(<<>>, t)
  <2>1. LetterAt(<<>>) = {}
    BY EmptySeq DEF LetterAt
  <2> QED
    BY <2>1, NoLetters
<1>3. LettersWithin(s \o <<>>, s \o t)
  BY <1>1, <1>2, WithinItself, WithinJoined
<1> QED
  BY <1>1, <1>3

LEMMA WithoutLetters ==
  ASSUME NEW s \in Seq(Byte), NEW t \in Seq(Byte), LetterAt(t) = {}
  PROVE  LettersWithin(s \o t, s)
<1>1. <<>> \in Seq(Byte) /\ s \o <<>> = s
  BY EmptySeq, ConcatEmptySeq
<1>2. LettersWithin(s \o t, s \o <<>>)
  BY <1>1, NoLetters, WithinItself, WithinJoined
<1> QED
  BY <1>1, <1>2
================================================================================
