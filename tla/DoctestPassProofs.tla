-------------------------- MODULE DoctestPassProofs --------------------------
(***************************************************************************)
(* What holds of Context::run's test cases and their passes: which test    *)
(* cases are run, what an assertion's contexts are, and which SUBCASEs the *)
(* passes over a test function enter, for every program, every set of      *)
(* options and every interleaving of main, its threads and signals.        *)
(*                                                                         *)
(* Upon CoreInv, which DoctestRunProofs proves, stand three invariants of  *)
(* DoctestRun, each inductive together with CoreInv: ContextsInv (what     *)
(* main's INFOs are at each statement), SelectionInv (what is selected of  *)
(* the tests so far, and that they were run) and LeavesInv (what the       *)
(* passes so far entered and marked as passed). Before them stand the      *)
(* facts about the operators they are stated with: InOrder and Covering,   *)
(* wildcmp, Path and Admitted. The properties follow at the end.           *)
(***************************************************************************)
EXTENDS DoctestRunProofs

-----------------------------------------------------------------------------
(* Positions in order, and the contexts of a test function.                *)

(* upTo of InOrder.                                                        *)
Collects(f, S, n) ==
    f = [k \in 0..n |-> IF k = 0 THEN <<>> ELSE IF k \in S THEN Append(f[k - 1], k) ELSE f[k - 1]]

(* Such a function at 0 and at each later number.                          *)
LEMMA CollectsStep ==
    ASSUME NEW f, NEW S, NEW n \in Nat, Collects(f, S, n)
    PROVE  /\ DOMAIN f = 0..n /\ f[0] = <<>>
           /\ \A k \in 1..n : f[k] = IF k \in S THEN Append(f[k - 1], k) ELSE f[k - 1]
<1>1. DOMAIN f = 0..n
  BY DEF Collects
<1>2. \A k \in 0..n : f[k] = IF k = 0 THEN <<>> ELSE IF k \in S THEN Append(f[k - 1], k) ELSE f[k - 1]
  BY Zenon DEF Collects
<1>3. 0 \in 0..n /\ \A k \in 1..n : k \in 0..n /\ k # 0
  OBVIOUS
<1> QED
  BY <1>1, <1>2, <1>3

(* A statement about 0..n that holds at 0 and at each next number.         *)
LEMMA UpTo ==
    ASSUME NEW n \in Nat, NEW Good, 0 \in Good, \A k \in 1..n : k - 1 \in Good => k \in Good
    PROVE  0..n \subseteq Good
<1> DEFINE Bad == {k \in 0..n : k \notin Good}
<1>1. SUFFICES ASSUME Bad # {} PROVE FALSE
  OBVIOUS
<1>2. Bad \subseteq Nat
  OBVIOUS
<1> HIDE DEF Bad
<1>3. PICK k \in Bad : \A j \in Bad : k <= j
  BY <1>1, <1>2, LeastNatural
<1> USE DEF Bad
<1>4. k \in 1..n /\ k - 1 \in 0..n /\ ~(k <= k - 1)
  BY <1>3
<1>5. k - 1 \in Good
  BY <1>3, <1>4
<1> QED
  BY <1>3, <1>4, <1>5

(* There is such a function for each set and each bound.                   *)
LEMMA CollectsExists ==
    ASSUME NEW S, NEW n \in Nat
    PROVE  \E f : Collects(f, S, n)
<1> DEFINE Good == {m \in Nat : \E f : Collects(f, S, m)}
<1>1. 0 \in Good
  <2> DEFINE f == [k \in 0..0 |-> <<>>]
  <2>1. f = [k \in 0..0 |-> IF k = 0 THEN <<>> ELSE IF k \in S THEN Append(f[k - 1], k) ELSE f[k - 1]]
    OBVIOUS
  <2> HIDE DEF f
  <2>2. Collects(f, S, 0)
    BY <2>1 DEF Collects
  <2> QED
    BY <2>2
<1>2. ASSUME NEW m \in 1..n, m - 1 \in Good PROVE m \in Good
  <2>1. PICK f : Collects(f, S, m - 1)
    BY <1>2
  <2>2. /\ DOMAIN f = 0..m - 1 /\ f[0] = <<>>
        /\ \A k \in 1..m - 1 : f[k] = IF k \in S THEN Append(f[k - 1], k) ELSE f[k - 1]
    BY <1>2, <2>1, CollectsStep
  <2> DEFINE last == IF m \in S THEN Append(f[m - 1], m) ELSE f[m - 1]
             g == [k \in 0..m |-> IF k = m THEN last ELSE f[k]]
  <2> HIDE DEF last
  <2>3. \A k \in 0..m - 1 : g[k] = f[k]
    BY <1>2
  <2>4. g[m] = last /\ DOMAIN g = 0..m /\ g = [k \in 0..m |-> g[k]]
    BY <1>2
  <2> HIDE DEF g
  <2>5. ASSUME NEW k \in 0..m
        PROVE  g[k] = IF k = 0 THEN <<>> ELSE IF k \in S THEN Append(g[k - 1], k) ELSE g[k - 1]
    <3>1. CASE k = 0
      BY <1>2, <2>2, <2>3, <3>1
    <3>2. CASE k \in 1..m - 1
      <4>1. k - 1 \in 0..m - 1 /\ k \in 0..m - 1 /\ k # 0
        BY <1>2, <3>2
      <4> QED
        BY <2>2, <2>3, <3>2, <4>1
    <3>3. CASE k = m
      <4>1. m - 1 \in 0..m - 1 /\ m # 0
        BY <1>2
      <4> QED
        BY <2>3, <2>4, <3>3, <4>1 DEF last
    <3> QED
      BY <1>2, <3>1, <3>2, <3>3
  <2>6. Collects(g, S, m)
    BY <2>4, <2>5 DEF Collects
  <2> QED
    BY <1>2, <2>6
<1> HIDE DEF Good
<1>3. n \in 0..n /\ 0..n \subseteq Good
  BY <1>1, <1>2, UpTo
<1> QED
  BY <1>3 DEF Good

(* What it is at a number depends on nothing but the elements up to there  *)
(* and on no bound.                                                        *)
LEMMA CollectsSame ==
    ASSUME NEW f, NEW g, NEW S, NEW T, NEW n \in Nat, NEW m \in Nat, NEW l \in Nat, l <= m, l <= n,
           Collects(f, S, m), Collects(g, T, n), \A k \in 1..l : k \in S <=> k \in T
    PROVE  f[l] = g[l]
<1> DEFINE Good == {k \in Nat : k <= l => f[k] = g[k]}
<1>1. /\ f[0] = <<>> /\ \A k \in 1..m : f[k] = IF k \in S THEN Append(f[k - 1], k) ELSE f[k - 1]
      /\ g[0] = <<>> /\ \A k \in 1..n : g[k] = IF k \in T THEN Append(g[k - 1], k) ELSE g[k - 1]
  BY CollectsStep
<1>2. 0 \in Good
  BY <1>1
<1>3. ASSUME NEW k \in 1..l, k - 1 \in Good PROVE k \in Good
  BY <1>1, <1>3
<1> HIDE DEF Good
<1>4. l \in Good
  BY <1>2, <1>3, UpTo
<1> QED
  BY <1>4 DEF Good

(* InOrder is the value of such a function at the bound.                   *)
LEMMA InOrderIs ==
    ASSUME NEW S, NEW n \in Nat
    PROVE  \E f : Collects(f, S, n) /\ InOrder(S, n) = f[n]
<1> DEFINE upTo == CHOOSE f : Collects(f, S, n)
<1>1. Collects(upTo, S, n)
  BY CollectsExists, Zenon
<1>2. InOrder(S, n) = upTo[n]
  BY DEF InOrder, Collects
<1> QED
  BY <1>1, <1>2

(* Nothing is up to 0.                                                     *)
LEMMA InOrderNone ==
    ASSUME NEW S
    PROVE  InOrder(S, 0) = <<>>
BY InOrderIs, CollectsStep

(* What InOrder collects depends on the members up to n only.              *)
LEMMA InOrderSame ==
    ASSUME NEW S, NEW T, NEW n \in Nat, \A k \in 1..n : k \in S <=> k \in T
    PROVE  InOrder(S, n) = InOrder(T, n)
<1>1. PICK f : Collects(f, S, n) /\ InOrder(S, n) = f[n]
  BY InOrderIs
<1>2. PICK g : Collects(g, T, n) /\ InOrder(T, n) = g[n]
  BY InOrderIs
<1> QED
  BY <1>1, <1>2, CollectsSame

(* InOrder, one position further.                                          *)
LEMMA InOrderNext ==
    ASSUME NEW S, NEW n \in Nat \ {0}
    PROVE  InOrder(S, n) = IF n \in S THEN Append(InOrder(S, n - 1), n) ELSE InOrder(S, n - 1)
<1>1. PICK f : Collects(f, S, n) /\ InOrder(S, n) = f[n]
  BY InOrderIs
<1>2. n - 1 \in Nat /\ n - 1 <= n /\ n \in 1..n
  OBVIOUS
<1>3. PICK g : Collects(g, S, n - 1) /\ InOrder(S, n - 1) = g[n - 1]
  BY <1>2, InOrderIs
<1>4. f[n - 1] = g[n - 1]
  BY <1>1, <1>2, <1>3, CollectsSame
<1>5. f[n] = IF n \in S THEN Append(f[n - 1], n) ELSE f[n - 1]
  BY <1>1, <1>2, CollectsStep
<1> QED
  BY <1>1, <1>3, <1>4, <1>5

(* What InOrder collects are elements of S, in ascending order.            *)
LEMMA InOrderElements ==
    ASSUME NEW S, NEW n \in Nat
    PROVE  /\ InOrder(S, n) \in Seq({k \in 1..n : k \in S})
           /\ \A j, k \in 1..Len(InOrder(S, n)) : j < k => InOrder(S, n)[j] < InOrder(S, n)[k]
<1> DEFINE Elems(m) == {k \in 1..m : k \in S}
           Good == {m \in Nat : /\ InOrder(S, m) \in Seq(Elems(m))
                                /\ \A j, k \in 1..Len(InOrder(S, m)) : j < k => InOrder(S, m)[j] < InOrder(S, m)[k]}
<1>1. 0 \in Good
  <2>1. PICK q : q = InOrder(S, 0)
    OBVIOUS
  <2>2. q = <<>> /\ Len(q) = 0 /\ q \in Seq(Elems(0))
    <3> HIDE DEF Elems
    <3> QED
      BY <2>1, InOrderNone, EmptySeq
  <2> HIDE DEF Elems
  <2>3. \A j, k \in 1..Len(q) : j < k => q[j] < q[k]
    BY <2>2
  <2> QED
    BY <2>1, <2>2, <2>3
<1>2. ASSUME NEW m \in 1..n, m - 1 \in Good PROVE m \in Good
  <2>1. PICK q : q = InOrder(S, m - 1)
    OBVIOUS
  <2>2. q \in Seq(Elems(m - 1)) /\ (\A j, k \in 1..Len(q) : j < k => q[j] < q[k])
    BY <1>2, <2>1
  <2>3. Len(q) \in Nat /\ \A j \in 1..Len(q) : q[j] \in 1..m - 1 /\ q[j] \in S
    BY <2>2, ElementOfSeq, LenProperties
  <2>4. q \in Seq(Elems(m)) /\ m \in Nat
    <3>1. Elems(m - 1) \subseteq Elems(m)
      OBVIOUS
    <3> HIDE DEF Elems
    <3> QED
      BY <2>2, <3>1
  <2>5. CASE m \in S
    <3>1. InOrder(S, m) = Append(q, m)
      BY <2>1, <2>4, <2>5, <1>2, InOrderNext
    <3>2. m \in Elems(m)
      BY <2>5
    <3>3. PICK a : a = Append(q, m)
      OBVIOUS
    <3>4. /\ a \in Seq(Elems(m)) /\ Len(a) = Len(q) + 1 /\ a[Len(q) + 1] = m
          /\ \A j \in 1..Len(q) : a[j] = q[j]
      <4> HIDE DEF Elems
      <4> QED
        BY <2>4, <3>2, <3>3, AppendProperties
    <3>5. \A j, k \in 1..Len(a) : j < k => a[j] < a[k]
      <4> SUFFICES ASSUME NEW j \in 1..Len(a), NEW k \in 1..Len(a), j < k PROVE a[j] < a[k]
        OBVIOUS
      <4>1. j \in 1..Len(q) /\ a[j] = q[j] /\ q[j] \in 1..m - 1
        BY <2>3, <3>4
      <4> HIDE DEF Elems
      <4>2. CASE k \in 1..Len(q)
        BY <2>2, <3>4, <4>1, <4>2
      <4>3. CASE k = Len(q) + 1
        BY <3>4, <4>1, <4>3
      <4> QED
        BY <2>3, <3>4, <4>2, <4>3
    <3> HIDE DEF Elems
    <3> QED
      BY <2>4, <3>1, <3>3, <3>4, <3>5
  <2>6. CASE m \notin S
    <3>1. InOrder(S, m) = q
      BY <2>1, <2>4, <2>6, <1>2, InOrderNext
    <3> HIDE DEF Elems
    <3> QED
      BY <2>2, <2>4, <3>1
  <2> QED
    BY <2>5, <2>6
<1> HIDE DEF Good
<1>3. n \in Good
  BY <1>1, <1>2, UpTo
<1> QED
  BY <1>3 DEF Good

(* What it collects up to m comes first in what it collects up to n.       *)
LEMMA InOrderSplit ==
    ASSUME NEW S, NEW n \in Nat, NEW m \in Nat, m <= n
    PROVE  /\ Len(InOrder(S, m)) <= Len(InOrder(S, n)) /\ Len(InOrder(S, m)) \in Nat /\ Len(InOrder(S, n)) \in Nat
           /\ \A j \in 1..Len(InOrder(S, m)) : InOrder(S, n)[j] = InOrder(S, m)[j]
           /\ \A j \in Len(InOrder(S, m)) + 1..Len(InOrder(S, n)) : InOrder(S, n)[j] > m
<1> DEFINE Fits(k) ==
               /\ Len(InOrder(S, m)) <= Len(InOrder(S, k))
               /\ \A j \in 1..Len(InOrder(S, m)) : InOrder(S, k)[j] = InOrder(S, m)[j]
               /\ \A j \in Len(InOrder(S, m)) + 1..Len(InOrder(S, k)) : InOrder(S, k)[j] > m
           Good == {k \in Nat : k >= m => Fits(k)}
<1>1. \A k \in Nat : InOrder(S, k) \in Seq({j \in 1..k : j \in S}) /\ Len(InOrder(S, k)) \in Nat
  BY InOrderElements, LenProperties
<1>2. Fits(m)
  BY <1>1
<1> HIDE DEF Fits
<1>3. 0 \in Good
  BY <1>2
<1>4. ASSUME NEW k \in 1..n, k - 1 \in Good PROVE k \in Good
  <2>1. SUFFICES ASSUME k > m PROVE Fits(k)
    BY <1>2
  <2>2. Fits(k - 1)
    BY <1>4, <2>1
  <2>3. PICK q, r, s : q = InOrder(S, k - 1) /\ r = InOrder(S, m) /\ s = InOrder(S, k)
    OBVIOUS
  <2>4. /\ Len(r) <= Len(q) /\ \A j \in 1..Len(r) : q[j] = r[j]
        /\ \A j \in Len(r) + 1..Len(q) : q[j] > m
    BY <2>2, <2>3 DEF Fits
  <2>5. k \in Nat \ {0} /\ s = IF k \in S THEN Append(q, k) ELSE q
    BY <2>3, InOrderNext, SMTT(30)
  <2>6. q \in Seq(Nat) /\ Len(q) \in Nat /\ Len(r) \in Nat
    <3> DEFINE E == {j \in 1..k - 1 : j \in S}
    <3>1. E \subseteq Nat /\ k - 1 \in Nat
      OBVIOUS
    <3>2. q \in Seq(E) /\ Len(q) \in Nat /\ Len(r) \in Nat
      BY <1>1, <2>3, <3>1
    <3>3. \A j \in 1..Len(q) : q[j] \in Nat
      <4> HIDE DEF E
      <4> QED
        BY <3>1, <3>2, ElementOfSeq
    <3>4. q \in Seq(Nat)
      <4>1. q \in [1..Len(q) -> Nat]
        <5>1. DOMAIN q = 1..Len(q) /\ q = [j \in DOMAIN q |-> q[j]]
          <6> HIDE DEF E
          <6> QED
            BY <3>2, LenProperties
        <5> QED
          BY <3>3, <5>1
      <4> QED
        BY <3>2, <4>1, SeqDef
    <3> QED
      BY <3>2, <3>4
  <2>7. CASE k \in S
    <3>1. s = Append(q, k) /\ k \in Nat
      BY <2>5, <2>7
    <3>2. Len(s) = Len(q) + 1 /\ s[Len(q) + 1] = k /\ \A j \in 1..Len(q) : s[j] = q[j]
      BY <2>6, <3>1, AppendProperties
    <3>3. Len(r) <= Len(s) /\ \A j \in 1..Len(r) : s[j] = r[j]
      BY <2>4, <2>6, <3>2
    <3>4. ASSUME NEW j \in Len(r) + 1..Len(s) PROVE s[j] > m
      <4>1. (j \in Len(r) + 1..Len(q) /\ j \in 1..Len(q)) \/ j = Len(q) + 1
        BY <2>4, <2>6, <3>2
      <4> QED
        BY <2>1, <2>4, <3>2, <4>1
    <3> QED
      BY <2>3, <3>3, <3>4 DEF Fits
  <2>8. CASE k \notin S
    BY <2>2, <2>3, <2>5, <2>8 DEF Fits
  <2> QED
    BY <2>7, <2>8
<1> HIDE DEF Good
<1>5. n \in Good
  BY <1>3, <1>4, UpTo
<1> QED
  BY <1>1, <1>5 DEF Good, Fits

-----------------------------------------------------------------------------
(* The contexts that main is in.                                           *)

(* A test function's blocks: where each begins and ends, and how deep the  *)
(* statements are.                                                         *)
Nesting(body) ==
    /\ Len(body) \in Nat
    /\ \A k \in 1..Len(body) :
          /\ body[k].op = "open" => /\ body[k].end \in k + 1..Len(body) /\ body[body[k].end].op = "close"
                                    /\ \A j \in k + 1..body[k].end : Depth(body, j) > Depth(body, k)
                                    /\ Depth(body, body[k].end + 1) = Depth(body, k)
          /\ body[k].op = "close" => \E o \in 1..k - 1 : body[o].op = "open" /\ body[o].end = k

(* The blocks of a test function nest.                                     *)
LEMMA TestsNest ==
    ASSUME NEW t, IsTest(t)
    PROVE  Nesting(t.body) /\ DOMAIN t.body = 1..Len(t.body) /\ Depth(t.body, Len(t.body) + 1) = 0
<1>1. Len(t.body) \in Nat /\ DOMAIN t.body = 1..Len(t.body)
  BY LenProperties DEF IsTest
<1> QED
  BY <1>1 DEF IsTest, WellFormed, Nesting

(* While main is in the scope of an INFO it is no less deep.               *)
LEMMA NoLessDeep ==
    ASSUME NEW body, Nesting(body), NEW k \in 1..Len(body) + 1, NEW j \in 1..k - 1, Covers(body, j, k)
    PROVE  Depth(body, j) <= Depth(body, k)
<1>1. Len(body) \in Nat /\ k \in Nat /\ j \in Nat /\ j \in 1..Len(body)
  BY DEF Nesting
<1>2. \A x \in 1..Len(body) + 1 : Depth(body, x) \in Int
  BY <1>1, DepthNext
<1> DEFINE Bad == {x \in j..k : Depth(body, x) < Depth(body, j)}
<1>3. SUFFICES ASSUME Bad # {} PROVE FALSE
  BY <1>1, <1>2
<1>4. Bad \subseteq Nat
  BY <1>1
<1> HIDE DEF Bad
<1>5. PICK x \in Bad : \A y \in Bad : x <= y
  BY <1>3, <1>4, LeastNatural
<1> USE DEF Bad
<1>6. x \in j + 1..k /\ x - 1 \in j..k /\ x - 1 \in 1..Len(body) /\ ~(x <= x - 1)
  BY <1>1, <1>2, <1>5
<1>7. x - 1 \notin Bad
  BY <1>5, <1>6
<1>8. Depth(body, x - 1) >= Depth(body, j) /\ Depth(body, x) < Depth(body, j)
  BY <1>1, <1>2, <1>5, <1>6, <1>7
<1>9. \A y \in j..x - 1 : Depth(body, y) >= Depth(body, j)
  <2> SUFFICES ASSUME NEW y \in j..x - 1 PROVE Depth(body, y) >= Depth(body, j)
    OBVIOUS
  <2>1. y \in j..k /\ ~(x <= y) /\ y \in 1..Len(body) + 1
    BY <1>1, <1>6
  <2>2. y \notin Bad
    BY <1>5, <2>1
  <2> QED
    BY <1>1, <1>2, <2>1, <2>2
<1> HIDE DEF Bad
<1>10. body[x - 1].op = "close"
  <2>1. PICK z : z = x - 1
    OBVIOUS
  <2>2. z \in Nat \ {0} /\ z + 1 = x
    BY <1>1, <1>6, <2>1
  <2>3. Depth(body, z + 1) = Depth(body, z) + One(body[z].op = "open") - One(body[z].op = "close")
    BY <2>2, DepthNext
  <2>4. Depth(body, z) \in Int /\ Depth(body, z + 1) < Depth(body, z)
    BY <1>1, <1>2, <1>6, <1>8, <2>1, <2>2
  <2> QED
    BY <2>1, <2>3, <2>4 DEF One
<1>11. PICK o \in 1..x - 2 : body[o].op = "open" /\ body[o].end = x - 1
  <2>1. x - 1 - 1 = x - 2
    BY <1>6
  <2> QED
    BY <1>6, <1>10, <2>1 DEF Nesting
<1>12. o \in 1..Len(body) /\ Depth(body, x) = Depth(body, o)
  <2>1. o \in 1..Len(body) /\ (x - 1) + 1 = x
    BY <1>1, <1>6, <1>11
  <2> QED
    BY <1>11, <2>1 DEF Nesting
<1>13. o < j
  <2>1. body[j].op = "info"
    BY DEF Covers
  <2>2. o # j
    BY <1>11, <2>1
  <2>3. ~(o \in j..x - 1)
    BY <1>1, <1>2, <1>6, <1>8, <1>9, <1>12
  <2> QED
    BY <1>1, <1>6, <1>11, <2>2, <2>3
<1>14. body[o].end > j
  <2>1. j # x - 1
    BY <1>10 DEF Covers
  <2> QED
    BY <1>1, <1>6, <1>11, <2>1
<1>15. body[o].end >= k
  BY <1>1, <1>11, <1>13, <1>14 DEF Covers
<1> QED
  BY <1>1, <1>6, <1>11, <1>15

(* What was in scope at a statement was in scope wherever it was before.   *)
LEMMA CoversBefore ==
    ASSUME NEW body, NEW k \in Nat, NEW m \in 1..k, NEW j \in 1..m - 1, Covers(body, j, k),
           Nesting(body), k \in 1..Len(body) + 1
    PROVE  Covers(body, j, m)
<1>1. Len(body) \in Nat
  BY DEF Nesting
<1> SUFFICES ASSUME NEW o \in 1..j, body[o].op = "open", body[o].end > j PROVE body[o].end >= m
  BY DEF Covers
<1>2. o \in 1..Len(body)
  BY <1>1
<1>3. body[o].end \in Nat /\ body[o].end >= k
  BY <1>1, <1>2 DEF Covers, Nesting
<1> QED
  BY <1>3

(* The INFOs around a statement are before it, and no deeper.              *)
LEMMA CoveringIs ==
    ASSUME NEW body, Nesting(body), NEW k \in 1..Len(body) + 1
    PROVE  /\ Len(Covering(body, k)) \in Nat
           /\ \A j \in 1..Len(Covering(body, k)) :
                 /\ Covering(body, k)[j] \in 1..k - 1 /\ Covers(body, Covering(body, k)[j], k)
                 /\ Depth(body, Covering(body, k)[j]) <= Depth(body, k)
           /\ DOMAIN Covering(body, k) = 1..Len(Covering(body, k))
<1> DEFINE S == {j \in 1..k - 1 : Covers(body, j, k)}
           E == {j \in 1..k - 1 : j \in S}
<1>1. k - 1 \in Nat /\ k \in Nat
  BY DEF Nesting
<1>2. Covering(body, k) = InOrder(S, k - 1)
  BY DEF Covering
<1>3. Covering(body, k) \in Seq(E)
  <2> HIDE DEF S
  <2> QED
    BY <1>1, <1>2, InOrderElements
<1>4. PICK q : q = Covering(body, k)
  OBVIOUS
<1>5. Len(q) \in Nat /\ DOMAIN q = 1..Len(q) /\ \A j \in 1..Len(q) : q[j] \in E
  <2> HIDE DEF E
  <2> QED
    BY <1>3, <1>4, ElementOfSeq, LenProperties
<1>6. \A j \in 1..Len(q) : q[j] \in 1..k - 1 /\ Covers(body, q[j], k)
  BY <1>5
<1>7. \A j \in 1..Len(q) : Depth(body, q[j]) <= Depth(body, k)
  BY <1>6, NoLessDeep
<1> QED
  BY <1>4, <1>5, <1>6, <1>7

(* The INFOs in scope at a statement are those of the next, unless it ends *)
(* a block.                                                                *)
LEMMA CoversNext ==
    ASSUME NEW body, Nesting(body), NEW k \in 1..Len(body), body[k].op # "close", NEW j \in 1..k - 1
    PROVE  Covers(body, j, k + 1) <=> Covers(body, j, k)
<1>1. Len(body) \in Nat /\ k \in Nat
  BY DEF Nesting
<1>2. ASSUME NEW o \in 1..j, body[o].op = "open", body[o].end > j
      PROVE  body[o].end >= k + 1 <=> body[o].end >= k
  <2>1. o \in 1..Len(body)
    BY <1>1
  <2>2. body[o].end \in Nat /\ body[o].end # k
    BY <1>1, <1>2, <2>1 DEF Nesting
  <2> QED
    BY <1>1, <2>2
<1> QED
  BY <1>2 DEF Covers

(* A statement that begins no context and ends no block leaves the INFOs   *)
(* in scope as they are.                                                   *)
LEMMA CoveringSame ==
    ASSUME NEW body, Nesting(body), NEW k \in 1..Len(body), body[k].op \notin {"close", "info"}
    PROVE  Covering(body, k + 1) = Covering(body, k)
<1> DEFINE S == {j \in 1..k - 1 : Covers(body, j, k)}
           T == {j \in 1..k : Covers(body, j, k + 1)}
<1>1. k \in Nat \ {0} /\ k - 1 \in Nat /\ (k + 1) - 1 = k
  BY DEF Nesting
<1>2. Covering(body, k) = InOrder(S, k - 1) /\ Covering(body, k + 1) = InOrder(T, k)
  BY <1>1 DEF Covering
<1>3. k \notin T
  BY DEF Covers
<1>4. \A j \in 1..k - 1 : j \in S <=> j \in T
  BY <1>1, CoversNext
<1> HIDE DEF S, T
<1>5. InOrder(T, k) = InOrder(T, k - 1)
  BY <1>1, <1>3, InOrderNext
<1>6. InOrder(T, k - 1) = InOrder(S, k - 1)
  BY <1>1, <1>4, InOrderSame
<1> QED
  BY <1>2, <1>5, <1>6

(* After an INFO it is in scope too, as the innermost.                     *)
LEMMA CoveringInfo ==
    ASSUME NEW body, Nesting(body), NEW k \in 1..Len(body), body[k].op = "info"
    PROVE  Covering(body, k + 1) = Append(Covering(body, k), k)
<1> DEFINE S == {j \in 1..k - 1 : Covers(body, j, k)}
           T == {j \in 1..k : Covers(body, j, k + 1)}
<1>1. k \in Nat \ {0} /\ k - 1 \in Nat /\ (k + 1) - 1 = k
  BY DEF Nesting
<1>2. Covering(body, k) = InOrder(S, k - 1) /\ Covering(body, k + 1) = InOrder(T, k)
  BY <1>1 DEF Covering
<1>3. k \in T
  <2> SUFFICES ASSUME NEW o \in 1..k, body[o].op = "open", body[o].end > k PROVE body[o].end >= k + 1
    BY <1>1 DEF Covers
  <2>1. o \in 1..Len(body) /\ Len(body) \in Nat
    BY <1>1 DEF Nesting
  <2>2. body[o].end \in Nat
    BY <2>1 DEF Nesting
  <2> QED
    BY <1>1, <2>2
<1>4. \A j \in 1..k - 1 : j \in S <=> j \in T
  BY <1>1, CoversNext
<1> HIDE DEF S, T
<1>5. InOrder(T, k) = Append(InOrder(T, k - 1), k)
  BY <1>1, <1>3, InOrderNext
<1>6. InOrder(T, k - 1) = InOrder(S, k - 1)
  BY <1>1, <1>4, InOrderSame
<1> QED
  BY <1>2, <1>5, <1>6

(* After the end of a block the INFOs of before the block are in scope     *)
(* again: so to skip it changes nothing.                                   *)
LEMMA CoveringSkip ==
    ASSUME NEW body, Nesting(body), NEW k \in 1..Len(body), body[k].op = "open"
    PROVE  Covering(body, body[k].end + 1) = Covering(body, k)
<1> DEFINE e == body[k].end
           S == {j \in 1..k - 1 : Covers(body, j, k)}
           T == {j \in 1..e : Covers(body, j, e + 1)}
<1>1. /\ k \in Nat \ {0} /\ k - 1 \in Nat /\ e \in k + 1..Len(body) /\ e \in Nat /\ Len(body) \in Nat
      /\ (e + 1) - 1 = e /\ body[e].op = "close"
  BY DEF Nesting
<1>2. Covering(body, k) = InOrder(S, k - 1) /\ Covering(body, e + 1) = InOrder(T, e)
  BY <1>1 DEF Covering
<1>3. \A x \in 1..Len(body) + 1 : Depth(body, x) \in Int
  BY <1>1, DepthNext
<1>4. ASSUME NEW o \in 1..k - 1, body[o].op = "open" PROVE body[o].end >= k => body[o].end > e
  <2> DEFINE f == body[o].end
  <2>1. /\ o \in 1..Len(body) /\ f \in o + 1..Len(body) /\ body[f].op = "close"
        /\ \A x \in o + 1..f : Depth(body, x) > Depth(body, o)
        /\ Depth(body, f + 1) = Depth(body, o)
    BY <1>1, <1>4, SMTT(30) DEF Nesting
  <2>2. /\ \A x \in k + 1..e : Depth(body, x) > Depth(body, k)
        /\ Depth(body, e + 1) = Depth(body, k)
    BY DEF Nesting
  <2> HIDE DEF e, f
  <2>3. SUFFICES ASSUME f >= k, f <= e PROVE FALSE
    BY <1>1, <2>1 DEF f
  <2>4. f # k
    BY <2>1
  <2>5. Depth(body, k) > Depth(body, o)
    BY <1>1, <2>1, <2>3
  <2>6. CASE f = e
    BY <1>1, <1>3, <2>1, <2>2, <2>5, <2>6
  <2>7. CASE f # e
    <3>1. f + 1 \in k + 1..e
      BY <1>1, <2>1, <2>3, <2>7
    <3>2. Depth(body, f + 1) > Depth(body, k)
      BY <2>2, <3>1
    <3>3. /\ Depth(body, f + 1) \in Int /\ Depth(body, k) \in Int /\ Depth(body, o) \in Int
      BY <1>1, <1>3, <2>1, <3>1
    <3> QED
      BY <2>1, <2>5, <3>2, <3>3
  <2> QED
    BY <2>6, <2>7
<1>5. ASSUME NEW j \in 1..k - 1 PROVE j \in S <=> j \in T
  <2>1. ASSUME NEW o \in 1..j, body[o].op = "open", body[o].end > j
        PROVE  body[o].end >= e + 1 <=> body[o].end >= k
    <3>1. o \in 1..k - 1 /\ o \in 1..Len(body)
      BY <1>1
    <3>2. body[o].end \in Nat
      BY <1>1, <2>1, <3>1 DEF Nesting
    <3> HIDE DEF e
    <3> QED
      BY <1>1, <1>4, <2>1, <3>1, <3>2
  <2>2. Covers(body, j, e + 1) <=> Covers(body, j, k)
    BY <2>1 DEF Covers
  <2> QED
    BY <1>1, <2>2
<1>6. ASSUME NEW j \in k..e PROVE j \notin T
  <2>1. SUFFICES ASSUME Covers(body, j, e + 1) PROVE FALSE
    OBVIOUS
  <2>2. j # e /\ k \in 1..j
    BY <1>1, <2>1 DEF Covers
  <2>3. body[k].end > j
    BY <1>1, <2>2
  <2>4. body[k].end >= e + 1
    BY <2>1, <2>2, <2>3 DEF Covers
  <2> QED
    BY <1>1, <2>4
<1> HIDE DEF S, T, e
<1>7. InOrder(T, e) = InOrder(T, k - 1)
  <2> DEFINE Good == {m \in Nat : InOrder(T, k - 1 + m) = InOrder(T, k - 1)}
             n == e - (k - 1)
  <2>1. 0 \in Good
    BY <1>1
  <2>2. ASSUME NEW m \in 1..n, m - 1 \in Good PROVE m \in Good
    <3>1. /\ k - 1 + m \in Nat \ {0} /\ k - 1 + m \in k..e /\ (k - 1 + m) - 1 = k - 1 + (m - 1) /\ m \in Nat
      BY <1>1
    <3>2. InOrder(T, k - 1 + m) = InOrder(T, k - 1 + (m - 1))
      BY <1>6, <3>1, InOrderNext
    <3> QED
      BY <2>2, <3>1, <3>2
  <2>3. n \in Nat /\ n \in 0..n /\ k - 1 + n = e
    BY <1>1
  <2> HIDE DEF Good, n
  <2>4. n \in Good
    BY <2>1, <2>2, <2>3, UpTo
  <2> QED
    BY <2>3, <2>4 DEF Good
<1>8. InOrder(T, k - 1) = InOrder(S, k - 1)
  BY <1>1, <1>5, InOrderSame
<1> QED
  BY <1>2, <1>7, <1>8 DEF e

(* The end of a block: the INFOs before the block remain, the others are   *)
(* as deep as its end.                                                     *)
LEMMA CoveringClose ==
    ASSUME NEW body, Nesting(body), NEW k \in 1..Len(body), body[k].op = "close"
    PROVE  LET q == Covering(body, k)
               r == Covering(body, k + 1)
           IN /\ Len(r) <= Len(q) /\ Len(r) \in Nat /\ Len(q) \in Nat
              /\ \A j \in 1..Len(r) : r[j] = q[j] /\ Depth(body, q[j]) < Depth(body, k)
              /\ \A j \in Len(r) + 1..Len(q) : Depth(body, q[j]) = Depth(body, k)
<1> DEFINE S == {j \in 1..k - 1 : Covers(body, j, k)}
           T == {j \in 1..k : Covers(body, j, k + 1)}
           q == Covering(body, k)
           r == Covering(body, k + 1)
<1>1. /\ k \in Nat \ {0} /\ k - 1 \in Nat /\ Len(body) \in Nat /\ (k + 1) - 1 = k
  BY DEF Nesting
<1>2. q = InOrder(S, k - 1) /\ r = InOrder(T, k)
  BY <1>1 DEF Covering
<1>3. \A x \in 1..Len(body) + 1 : Depth(body, x) \in Int
  BY <1>1, DepthNext
<1>4. PICK o \in 1..k - 1 : body[o].op = "open" /\ body[o].end = k
  BY DEF Nesting
<1>5. /\ o \in 1..Len(body) /\ o \in Nat \ {0} /\ \A j \in o + 1..k : Depth(body, j) > Depth(body, o)
      /\ Depth(body, k + 1) = Depth(body, o)
  BY <1>1, <1>4 DEF Nesting
<1>6. Depth(body, k) = Depth(body, o) + 1
  <2>1. Depth(body, k + 1) = Depth(body, k) + One(body[k].op = "open") - One(body[k].op = "close")
    BY <1>1, DepthNext
  <2>2. Depth(body, k + 1) = Depth(body, k) - 1
    BY <1>1, <1>3, <2>1 DEF One
  <2> QED
    BY <1>1, <1>3, <1>5, <2>2
<1>7. \A j \in 1..o - 1 : j \in S <=> j \in T
  <2> SUFFICES ASSUME NEW j \in 1..o - 1 PROVE Covers(body, j, k) <=> Covers(body, j, k + 1)
    BY <1>1, <1>4
  <2>1. ASSUME NEW x \in 1..j, body[x].op = "open", body[x].end > j
        PROVE  body[x].end >= k + 1 <=> body[x].end >= k
    <3>1. x \in 1..Len(body) /\ x < o /\ x \in 1..k - 1
      BY <1>1, <1>4, <1>5
    <3>2. /\ body[x].end \in Nat /\ \A y \in x + 1..body[x].end : Depth(body, y) > Depth(body, x)
          /\ Depth(body, body[x].end + 1) = Depth(body, x)
      BY <1>1, <2>1, <3>1 DEF Nesting
    <3>3. body[x].end # k
      <4>1. SUFFICES ASSUME body[x].end = k PROVE FALSE
        OBVIOUS
      <4>2. o \in x + 1..k
        BY <1>1, <1>4, <3>1
      <4>3. Depth(body, o) > Depth(body, x) /\ Depth(body, k + 1) = Depth(body, x)
        BY <3>2, <4>1, <4>2
      <4> QED
        BY <1>3, <1>5, <3>1, <4>3
    <3> QED
      BY <1>1, <3>2, <3>3
  <2> QED
    BY <2>1 DEF Covers
<1>8. \A j \in o..k : j \notin T
  <2> SUFFICES ASSUME NEW j \in o..k, Covers(body, j, k + 1) PROVE FALSE
    OBVIOUS
  <2>1. j # k
    BY DEF Covers
  <2>2. j \in Nat /\ o \in 1..j /\ body[o].end > j
    BY <1>1, <1>4, <1>5, <2>1
  <2>3. body[o].end >= k + 1
    BY <1>4, <2>2 DEF Covers
  <2> QED
    BY <1>1, <1>4, <2>3
<1>9. o \notin S
  BY <1>4 DEF Covers
<1>10. /\ Len(q) \in Nat /\ \A j \in 1..Len(q) : /\ q[j] \in 1..k - 1 /\ Covers(body, q[j], k)
                                                /\ Depth(body, q[j]) <= Depth(body, k)
  BY CoveringIs
<1> HIDE DEF S, T, q, r
<1>11. r = InOrder(T, o - 1)
  <2> DEFINE Good == {m \in Nat : InOrder(T, o - 1 + m) = InOrder(T, o - 1)}
             n == k - (o - 1)
  <2>1. 0 \in Good
    BY <1>5
  <2>2. ASSUME NEW m \in 1..n, m - 1 \in Good PROVE m \in Good
    <3>1. /\ o - 1 + m \in Nat \ {0} /\ o - 1 + m \in o..k /\ (o - 1 + m) - 1 = o - 1 + (m - 1) /\ m \in Nat
      BY <1>1, <1>4, <1>5, <2>2
    <3>2. InOrder(T, o - 1 + m) = InOrder(T, o - 1 + (m - 1))
      BY <1>8, <3>1, InOrderNext
    <3> QED
      BY <2>2, <3>1, <3>2
  <2>3. n \in Nat /\ n \in 0..n /\ o - 1 + n = k
    BY <1>1, <1>4, <1>5
  <2> HIDE DEF Good, n
  <2>4. n \in Good
    BY <2>1, <2>2, <2>3, UpTo
  <2> QED
    BY <1>2, <2>3, <2>4 DEF Good
<1>12. r = InOrder(S, o - 1) /\ o - 1 \in Nat /\ o - 1 <= k - 1
  BY <1>1, <1>4, <1>5, <1>7, <1>11, InOrderSame
<1>13. /\ Len(r) <= Len(q) /\ Len(r) \in Nat
       /\ \A j \in 1..Len(r) : q[j] = r[j]
       /\ \A j \in Len(r) + 1..Len(q) : q[j] > o - 1
  BY <1>1, <1>2, <1>12, InOrderSplit
<1>14. \A j \in 1..Len(r) : q[j] < o
  <2> DEFINE E == {j \in 1..o - 1 : j \in S}
  <2>1. r \in Seq(E)
    BY <1>12, InOrderElements
  <2>2. \A x \in E : x < o
    BY <1>5
  <2> HIDE DEF E
  <2>3. \A j \in 1..Len(r) : r[j] \in E
    BY <1>13, <2>1, ElementOfSeq
  <2> QED
    BY <1>13, <2>2, <2>3
<1>15. ASSUME NEW j \in 1..Len(r) PROVE Depth(body, q[j]) < Depth(body, k)
  <2>1. PICK x : x = q[j]
    OBVIOUS
  <2>2. x \in 1..o - 1 /\ Covers(body, x, k) /\ x \in 1..Len(body) + 1
    BY <1>1, <1>5, <1>10, <1>13, <1>14, <2>1
  <2>3. o \in 1..k /\ k \in 1..Len(body) + 1 /\ o \in 1..Len(body) + 1
    BY <1>1, <1>4, <1>5
  <2>4. Covers(body, x, o)
    BY <1>1, <2>2, <2>3, CoversBefore
  <2>5. Depth(body, x) <= Depth(body, o)
    BY <2>2, <2>3, <2>4, NoLessDeep
  <2> QED
    BY <1>3, <1>6, <2>1, <2>2, <2>3, <2>5
<1>16. ASSUME NEW j \in Len(r) + 1..Len(q) PROVE Depth(body, q[j]) = Depth(body, k)
  <2>1. PICK x : x = q[j]
    OBVIOUS
  <2>2. j \in 1..Len(q)
    BY <1>13, <1>10
  <2>3. x \in 1..k - 1 /\ Covers(body, x, k) /\ Depth(body, x) <= Depth(body, k) /\ x > o - 1
    BY <1>10, <1>13, <2>1, <2>2
  <2>4. x # o
    BY <1>4, <2>3 DEF Covers
  <2>5. x \in o + 1..k /\ x \in 1..Len(body) + 1 /\ o \in 1..Len(body) + 1 /\ k \in 1..Len(body) + 1
    BY <1>1, <1>4, <1>5, <2>3, <2>4
  <2>6. Depth(body, x) > Depth(body, o)
    BY <1>5, <2>5
  <2> QED
    BY <1>3, <1>6, <2>1, <2>3, <2>5, <2>6
<1> QED
  BY <1>10, <1>13, <1>15, <1>16 DEF q, r

-----------------------------------------------------------------------------
(* INFO: the contexts that an assertion is logged with.                    *)

(* ContextsInv without the case of a signal, in parts: the contexts of main*)
(* while no exception passes, what is left of them and of their texts while*)
(* one does, and what a console quotes.                                    *)
Here(at) ==
    /\ Len(sub.infos) = Len(Covering(Test.body, at))
    /\ \A j \in 1..Len(sub.infos) : sub.infos[j] = [text |-> Test.body[Covering(Test.body, at)[j]].text,
                                                   depth |-> Depth(Test.body, Covering(Test.body, at)[j])]

(* The quotation of one reporter.                                          *)
QuotedIn(c) ==
    /\ (phase = "after" /\ exception = "other") => c.quoted = InScope(Test.body, ip)
    /\ \A t \in Threads : asserting[t].pc = "logging" =>
           c.quoted = IF t = Main THEN InScope(Test.body, ip) ELSE <<>>

MainContexts ==
    /\ ~InBody => sub.infos = <<>>
    /\ (InBody /\ exception = "none") =>
           /\ sub.stringified = <<>>
           /\ phase # "leaving" => ContextsAreThose(ip)
           /\ phase = "leaving" => ContextsAreThose(ip + 1)
    /\ (InBody /\ exception # "none") =>
           ActiveContexts(Main) \o Reverse(sub.stringified) = InScope(Test.body, ip)

(* ContextsInv by its parts, and the same after a step.                    *)
LEMMA ContextsParts ==
    ContextsInv <=> (fatal.pc = "no" => MainContexts /\ \A r \in ConsoleReporters : QuotedIn(rep[r]))
BY DEF ContextsInv, MainContexts, QuotedIn, InfoIsCurrent

(* The same after a step.                                                  *)
LEMMA ContextsPrimed ==
    ASSUME fatal'.pc = "no" => MainContexts' /\ \A r \in ConsoleReporters' : QuotedIn(rep[r])'
    PROVE  ContextsInv'
BY DEF ContextsInv, MainContexts, QuotedIn, InfoIsCurrent

(* The fields of sub that hold the contexts.                               *)
LEMMA InfosHere ==
    ASSUME InfosInv
    PROVE  /\ {"infos", "stringified"} \subseteq DOMAIN sub
           /\ sub.infos \in Seq(ToSet(sub.infos)) /\ Len(sub.infos) \in Nat
           /\ sub.stringified \in Seq(ToSet(sub.stringified)) /\ Len(sub.stringified) \in Nat
           /\ DOMAIN sub.infos = 1..Len(sub.infos)
BY LenProperties DEF InfosInv

(* At a statement that neither ends a block nor the test function main has *)
(* all the contexts around it.                                             *)
LEMMA AllHere ==
    ASSUME TypeOK, PointsInv, InfosInv, MainContexts, InBody, exception = "none", ~AtEnd, ~AtStatement("close")
    PROVE  /\ phase # "leaving" => Here(ip)
           /\ phase = "leaving" => Here(ip + 1)
<1>1. IsTest(Test) /\ Len(Test.body) \in Nat /\ ip \in 1..Len(Test.body) + 1
  BY StatementHere
<1>2. ASSUME NEW at \in 1..Len(Test.body) + 1, ContextsAreThose(at) PROVE Here(at)
  <2>1. Len(sub.infos) \in Nat
    BY InfosHere
  <2>2. Len(Covering(Test.body, at)) \in Nat
    BY <1>1, TestsNest, CoveringIs
  <2>3. /\ Len(sub.infos) <= Len(Covering(Test.body, at))
        /\ \A j \in Len(sub.infos) + 1..Len(Covering(Test.body, at)) : FALSE
        /\ \A j \in 1..Len(sub.infos) : sub.infos[j] = [text |-> Test.body[Covering(Test.body, at)[j]].text,
                                                       depth |-> Depth(Test.body, Covering(Test.body, at)[j])]
    BY <1>2 DEF ContextsAreThose
  <2>4. Len(sub.infos) = Len(Covering(Test.body, at))
    BY <2>1, <2>2, <2>3
  <2> QED
    BY <2>3, <2>4 DEF Here
<1>3. phase = "leaving" => ip + 1 \in 1..Len(Test.body) + 1
  BY <1>1 DEF PointsInv
<1> QED
  BY <1>1, <1>2, <1>3 DEF MainContexts

(* Contexts that are all there fit ContextsAreThose.                       *)
LEMMA HereIsThose ==
    ASSUME NEW at, Here(at), Len(sub.infos) \in Nat
    PROVE  ContextsAreThose(at)
<1>1. \A j \in Len(sub.infos) + 1..Len(Covering(Test.body, at)) : FALSE
  BY DEF Here
<1> QED
  BY <1>1 DEF Here, ContextsAreThose

(* Contexts that are all there have the texts of the INFOs in scope.       *)
LEMMA HereSays ==
    ASSUME InfosInv, NEW at, Here(at), Nesting(Test.body), at \in 1..Len(Test.body) + 1
    PROVE  ActiveContexts(Main) = InScope(Test.body, at)
<1>1. DOMAIN sub.infos = 1..Len(sub.infos)
  BY InfosHere
<1>2. DOMAIN Covering(Test.body, at) = 1..Len(sub.infos)
  BY CoveringIs DEF Here
<1>3. \A j \in 1..Len(sub.infos) : sub.infos[j].text = Test.body[Covering(Test.body, at)[j]].text
  <2>1. PICK q, body, infos : q = Covering(Test.body, at) /\ body = Test.body /\ infos = sub.infos
    OBVIOUS
  <2>2. \A j \in 1..Len(infos) : infos[j] = [text |-> body[q[j]].text, depth |-> Depth(body, q[j])]
    BY <2>1 DEF Here
  <2>3. ASSUME NEW j \in 1..Len(infos) PROVE infos[j].text = body[q[j]].text
    <3>1. PICK x, d : x = body[q[j]].text /\ infos[j] = [text |-> x, depth |-> d]
      BY <2>2
    <3> QED
      BY <3>1
  <2> QED
    BY <2>1, <2>3
<1> QED
  BY <1>1, <1>2, <1>3 DEF ActiveContexts, InScope

(* A sequence read from its end.                                           *)
LEMMA Reversed ==
    ASSUME NEW T, NEW s \in Seq(T)
    PROVE  /\ Reverse(s) \in Seq(T) /\ Len(Reverse(s)) = Len(s)
           /\ \A j \in 1..Len(s) : Reverse(s)[j] = s[(Len(s) - j) + 1]
<1>1. Len(s) \in Nat
  BY LenProperties
<1> DEFINE n == Len(s)
           r == [j \in 1..n |-> s[(n - j) + 1]]
<1>2. \A j \in 1..n : s[(n - j) + 1] \in T
  <2> SUFFICES ASSUME NEW j \in 1..n PROVE s[(n - j) + 1] \in T
    OBVIOUS
  <2>1. (n - j) + 1 \in 1..Len(s)
    BY <1>1
  <2> QED
    BY <2>1, ElementOfSeq
<1>3. n \in Nat /\ Reverse(s) = r
  BY <1>1 DEF Reverse
<1> HIDE DEF n
<1>4. r \in [1..n -> T]
  BY <1>2
<1>5. r \in Seq(T) /\ Len(r) = n
  BY <1>3, <1>4, SeqDef
<1>6. \A j \in 1..n : r[j] = s[(n - j) + 1]
  OBVIOUS
<1> QED
  BY <1>3, <1>5, <1>6 DEF n

(* The last of a sequence becomes the first of a reversed one.             *)
LEMMA MovedOver ==
    ASSUME NEW T, NEW a \in Seq(T), a # <<>>, NEW b \in Seq(T)
    PROVE  Front(a) \o Reverse(Append(b, Last(a))) = a \o Reverse(b)
<1>1. Len(a) \in Nat \ {0} /\ Len(b) \in Nat /\ DOMAIN a = 1..Len(a) /\ DOMAIN b = 1..Len(b)
  BY LenProperties, EmptySeq
<1> DEFINE n == Len(a) - 1
           m == Len(b)
           c == Append(b, Last(a))
           f == Front(a)
           rb == Reverse(b)
           rc == Reverse(c)
<1>2. n \in Nat /\ m \in Nat /\ Len(a) = n + 1 /\ Last(a) = a[n + 1]
  BY <1>1 DEF Last
<1>3. Len(c) = m + 1 /\ c[m + 1] = a[n + 1] /\ \A j \in 1..m : c[j] = b[j]
  <2>1. Last(a) \in T
    BY <1>1, ElementOfSeq DEF Last
  <2> QED
    BY <1>2, <2>1, AppendProperties
<1>4. Len(f) = n /\ DOMAIN f = 1..n /\ \A j \in 1..n : f[j] = a[j]
  <2>1. f = SubSeq(a, 1, n)
    BY DEF Front
  <2>2. \A j \in 1..n : a[j] \in T
    BY <1>1, ElementOfSeq
  <2> HIDE DEF n
  <2>3. /\ SubSeq(a, 1, n) \in Seq(T) /\ Len(SubSeq(a, 1, n)) = n
        /\ \A j \in 1..n : SubSeq(a, 1, n)[j] = a[1 + j - 1]
    BY <1>2, <2>2, SubSeqProperties
  <2>4. \A j \in 1..n : 1 + j - 1 = j
    BY <1>2
  <2>5. DOMAIN SubSeq(a, 1, n) = 1..n
    BY <2>3, LenProperties
  <2> QED
    BY <2>1, <2>3, <2>4, <2>5
<1>5. /\ rb \in Seq(T) /\ Len(rb) = m /\ \A j \in 1..m : rb[j] = b[(m - j) + 1]
      /\ rc \in Seq(T) /\ Len(rc) = m + 1 /\ \A j \in 1..m + 1 : rc[j] = c[(m + 1 - j) + 1]
  <2>1. c \in Seq(T)
    <3>1. Last(a) \in T
      BY <1>1, ElementOfSeq DEF Last
    <3> QED
      BY <3>1, AppendProperties
  <2> HIDE DEF c
  <2> QED
    BY <1>3, <2>1, Reversed
<1>6. f \in Seq(T)
  <2>1. \A j \in 1..n : a[j] \in T
    BY <1>1, ElementOfSeq
  <2>2. f = SubSeq(a, 1, n)
    BY DEF Front
  <2> HIDE DEF n
  <2> QED
    BY <1>2, <2>1, <2>2, SubSeqProperties
<1> HIDE DEF n, m, c, f, rb, rc
<1>7. /\ f \o rc \in Seq(T) /\ Len(f \o rc) = n + (m + 1)
      /\ \A j \in 1..n + (m + 1) : (f \o rc)[j] = IF j <= n THEN f[j] ELSE rc[j - n]
      /\ a \o rb \in Seq(T) /\ Len(a \o rb) = n + (m + 1)
      /\ \A j \in 1..n + (m + 1) : (a \o rb)[j] = IF j <= n + 1 THEN a[j] ELSE rb[j - (n + 1)]
  <2>1. /\ f \o rc \in Seq(T) /\ Len(f \o rc) = n + (m + 1)
        /\ \A j \in 1..n + (m + 1) : (f \o rc)[j] = IF j <= n THEN f[j] ELSE rc[j - n]
    <3>1. f \in Seq(T) /\ rc \in Seq(T)
      BY <1>5, <1>6
    <3>2. /\ f \o rc \in Seq(T) /\ Len(f \o rc) = Len(f) + Len(rc)
          /\ \A j \in 1..Len(f) + Len(rc) : (f \o rc)[j] = IF j <= Len(f) THEN f[j] ELSE rc[j - Len(f)]
      BY <3>1, ConcatProperties, Zenon
    <3>3. Len(f) = n /\ Len(rc) = m + 1
      BY <1>4, <1>5
    <3> QED
      BY <3>2, <3>3
  <2>2. /\ a \o rb \in Seq(T) /\ Len(a \o rb) = (n + 1) + m
        /\ \A j \in 1..(n + 1) + m : (a \o rb)[j] = IF j <= n + 1 THEN a[j] ELSE rb[j - (n + 1)]
    <3>1. a \in Seq(T) /\ rb \in Seq(T)
      BY <1>5
    <3>2. /\ a \o rb \in Seq(T) /\ Len(a \o rb) = Len(a) + Len(rb)
          /\ \A j \in 1..Len(a) + Len(rb) : (a \o rb)[j] = IF j <= Len(a) THEN a[j] ELSE rb[j - Len(a)]
      BY <3>1, ConcatProperties, Zenon
    <3>3. Len(a) = n + 1 /\ Len(rb) = m
      BY <1>2, <1>5
    <3> QED
      BY <3>2, <3>3
  <2>3. n + (m + 1) = (n + 1) + m
    BY <1>2
  <2> QED
    BY <2>1, <2>2, <2>3
<1>8. ASSUME NEW j \in 1..n + (m + 1)
      PROVE  (IF j <= n THEN f[j] ELSE rc[j - n]) = (IF j <= n + 1 THEN a[j] ELSE rb[j - (n + 1)])
  <2>1. CASE j <= n
    BY <1>2, <1>4, <2>1
  <2>2. CASE j = n + 1
    <3>1. j - n = 1 /\ 1 \in 1..m + 1 /\ (m + 1 - 1) + 1 = m + 1 /\ ~(j <= n)
      BY <1>2, <2>2
    <3>2. rc[1] = a[n + 1]
      BY <1>3, <1>5, <3>1
    <3> QED
      BY <2>2, <3>1, <3>2
  <2>3. CASE j > n + 1
    <3>1. /\ j - n \in 1..m + 1 /\ (m + 1 - (j - n)) + 1 = (m - (j - (n + 1))) + 1 /\ (m + 1 - (j - n)) + 1 \in 1..m
          /\ j - (n + 1) \in 1..m /\ ~(j <= n) /\ ~(j <= n + 1)
      BY <1>2, <2>3
    <3>2. rc[j - n] = b[(m + 1 - (j - n)) + 1] /\ rb[j - (n + 1)] = b[(m - (j - (n + 1))) + 1]
      BY <1>3, <1>5, <3>1
    <3> QED
      BY <3>1, <3>2
  <2> QED
    BY <1>2, <2>1, <2>2, <2>3
<1>9. f \o rc = a \o rb
  <2>1. \A j \in 1..n + (m + 1) : (f \o rc)[j] = (a \o rb)[j]
    BY <1>7, <1>8
  <2> QED
    BY <1>7, <2>1, SeqEqual
<1> QED
  BY <1>9 DEF f, rc, rb, c

(* A log and an exception make a console quote the contexts that they come *)
(* with; other events change nothing of it.                                *)
LEMMA QuotedNow ==
    ASSUME NEW c, IsConsole(c), NEW e
    PROVE  /\ e.on = "log" => ToConsole(c, e).quoted = e.contexts
           /\ e.on = "test_case_exception" => ToConsole(c, e).quoted = Reverse(e.contexts)
           /\ e.on \in {"test_run_start", "test_case_start", "test_case_skipped", "test_case_end", "subcase_start",
                        "subcase_end", "log_ends", "report_query", "test_run_end"} =>
                  ToConsole(c, e).quoted = c.quoted
<1> DEFINE l == logTestStart(c)
<1>1. IsConsole(l) /\ l.quoted = c.quoted
  <2>1. IsConsole(l)
    BY Logs
  <2>2. l.quoted = c.quoted
    BY DEF logTestStart, IsConsole
  <2> QED
    BY <2>1, <2>2
<1>2. CASE e.on = "log"
  <2>1. ToConsole(c, e) = [l EXCEPT !.quoted = e.contexts]
    BY <1>2 DEF ToConsole, console_log, log_contexts
  <2> HIDE DEF l
  <2> QED
    BY <1>1, <1>2, <2>1 DEF IsConsole
<1>3. CASE e.on = "test_case_exception"
  <2>1. ToConsole(c, e) = [l EXCEPT !.quoted = Reverse(e.contexts)]
    BY <1>3 DEF ToConsole, console_test_case_exception
  <2> HIDE DEF l
  <2> QED
    BY <1>1, <1>3, <2>1 DEF IsConsole
<1>4. CASE e.on = "test_case_end"
  <2> DEFINE n == Remark(e.flags) \cup (e.flags \cap {"Timeout", "TooManyFailedAsserts"})
  <2>1. ToConsole(c, e) = [l EXCEPT !.notes = n] \/ ToConsole(c, e) = [c EXCEPT !.notes = n]
    BY <1>4 DEF ToConsole, console_test_case_end
  <2> HIDE DEF n, l
  <2> QED
    BY <1>1, <1>4, <2>1 DEF IsConsole
<1>5. CASE e.on = "test_run_end"
  <2>1. ToConsole(c, e) = console_test_run_end(c, e.stats)
    BY <1>5 DEF ToConsole
  <2>2. PICK s : console_test_run_end(c, e.stats) = [c EXCEPT !.summary = s]
    BY DEF console_test_run_end
  <2> HIDE DEF l
  <2> QED
    BY <1>5, <2>1, <2>2 DEF IsConsole
<1>6. CASE e.on = "test_case_start"
  BY <1>6 DEF ToConsole, console_test_case_start, IsConsole
<1>7. CASE e.on \in {"subcase_start", "subcase_end"}
  BY <1>7 DEF ToConsole, console_subcase_start, console_subcase_end, IsConsole
<1>8. CASE e.on = "report_query"
  BY <1>8 DEF ToConsole, console_report_query, IsConsole
<1>9. CASE e.on \in {"test_run_start", "test_case_skipped", "log_ends"}
  BY <1>9 DEF ToConsole
<1>10. CASE e.on \notin {"log", "test_case_exception", "test_run_start", "test_case_start", "test_case_skipped",
                        "test_case_end", "subcase_start", "subcase_end", "log_ends", "report_query", "test_run_end"}
  BY <1>10
<1> QED
  BY <1>2, <1>3, <1>4, <1>5, <1>6, <1>7, <1>8, <1>9, <1>10

(* Where no thread logs and no exception has been caught nothing need be   *)
(* quoted.                                                                 *)
LEMMA NothingQuoted ==
    ASSUME phase' # "after" \/ exception' # "other", \A t \in Threads : asserting'[t].pc # "logging"
    PROVE  \A r \in ConsoleReporters' : QuotedIn(rep[r])'
BY DEF QuotedIn

(* run itself: a test function starts and ends without contexts, and when  *)
(* it ended by an exception the console is told of those it was thrown in. *)
LEMMA ContextsRun ==
    ASSUME TypeOK, PointsInv, HeaderInv, InfosInv, ContextsInv, fatal.by # Main, ~Ended, RunStep
    PROVE  ContextsInv'
<1>1. /\ fatal.pc = "no" /\ fatal' = fatal /\ asserting' = asserting
      /\ \A t \in Threads : asserting[t] = Idle
  BY RunAlone
<1>2. \A t \in Threads : asserting'[t].pc # "logging"
  BY <1>1 DEF Idle
<1>3. MainContexts /\ {"infos", "stringified"} \subseteq DOMAIN sub
  BY <1>1, ContextsParts, InfosHere
<1>4. CASE StartPass
  <2>1. /\ phase = "pass" /\ phase' = "body" /\ ip' = 1 /\ exception' = "none" /\ sub'.infos = sub.infos
        /\ sub'.stringified = <<>> /\ Test' = Test
    BY <1>4 DEF StartPass, ResetSubcases, NoSubcases, Test
  <2>2. sub'.infos = <<>>
    BY <1>3, <2>1 DEF MainContexts, InBody
  <2>3. Len(sub'.infos) = 0 /\ Covering(Test.body, 1) = <<>>
    <3>1. 1 - 1 = 0
      OBVIOUS
    <3> QED
      BY <2>2, <3>1, EmptySeq, InOrderNone DEF Covering
  <2>4. ContextsAreThose(1)'
    <3>1. Covering(Test'.body, 1) = <<>> /\ Len(sub'.infos) = 0 /\ Len(<<>>) = 0
      BY <2>1, <2>3, EmptySeq
    <3>2. Len(Covering(Test'.body, 1)) = 0
      BY <3>1, Zenon
    <3> QED
      BY <3>1, <3>2 DEF ContextsAreThose
  <2>5. MainContexts'
    BY <2>1, <2>4 DEF MainContexts, InBody
  <2> QED
    BY <1>2, <2>1, <2>5, NothingQuoted, ContextsPrimed
<1>5. CASE BodyReturns
  <2>1. /\ phase = "body" /\ phase' = "after" /\ sub' = sub /\ exception' = exception /\ sub.infos = <<>>
    BY <1>5 DEF BodyReturns, AtEnd, contextVars
  <2>2. exception = "none"
    BY <2>1 DEF PointsInv
  <2>3. MainContexts'
    BY <2>1 DEF MainContexts, InBody
  <2> QED
    BY <1>2, <2>1, <2>2, <2>3, NothingQuoted, ContextsPrimed
<1>6. CASE Catch
  <2>1. /\ phase = "unwind" /\ phase' = "after" /\ sub' = sub /\ exception' = exception /\ sub.infos = <<>>
        /\ Test' = Test /\ ip' = ip
    BY <1>6 DEF Catch, Test
  <2>2. MainContexts'
    BY <2>1 DEF MainContexts, InBody
  <2>3. InScope(Test.body, ip) = Reverse(sub.stringified)
    <3>1. ActiveContexts(Main) \o Reverse(sub.stringified) = InScope(Test.body, ip)
      BY <1>3, <2>1 DEF MainContexts, InBody, PointsInv
    <3>2. ActiveContexts(Main) = <<>>
      BY <2>1 DEF ActiveContexts
    <3>3. PICK T : Reverse(sub.stringified) \in Seq(T)
      BY InfosHere, Reversed
    <3> QED
      BY <3>1, <3>2, <3>3, ConcatEmptySeq
  <2>4. ASSUME NEW r \in ConsoleReporters', exception' = "other"
        PROVE  rep'[r].quoted = InScope(Test.body, ip)
    <3>1. Notify(ExceptionEvent)
      BY <1>6, <2>1, <2>4 DEF Catch
    <3>2. r \in ConsoleReporters /\ rep'[r] = ToConsole(rep[r], ExceptionEvent)
      BY <3>1, ToldConsoles
    <3>3. IsConsole(rep[r])
      BY <3>2, HeaderParts
    <3>4. ExceptionEvent.on = "test_case_exception" /\ ExceptionEvent.contexts = sub.stringified
      BY DEF ExceptionEvent
    <3> QED
      BY <2>3, <3>2, <3>3, <3>4, QuotedNow
  <2>5. \A r \in ConsoleReporters' : QuotedIn(rep[r])'
    BY <1>2, <2>1, <2>4 DEF QuotedIn
  <2> QED
    BY <2>2, <2>5, ContextsPrimed
<1>7. CASE ~StartPass /\ ~BodyReturns /\ ~Catch
  <2>1. ~InBody /\ ~InBody' /\ phase' # "after" /\ sub'.infos = sub.infos
    BY <1>3, <1>7 DEF RunStep, UseReporters, RunNothing, CollectTests, SkipTest, ListTest, AtTest, StartTest,
         AfterPass, EndTest, LeaveTest, EndRun, Cleanup, InBody, contextVars
  <2>2. MainContexts'
    BY <1>3, <2>1 DEF MainContexts
  <2> QED
    BY <1>2, <2>1, <2>2, NothingQuoted, ContextsPrimed
<1> QED
  BY <1>4, <1>5, <1>6, <1>7

(* Contexts are still those around a point when neither they nor the test  *)
(* function change.                                                        *)
LEMMA HerePrimed ==
    ASSUME NEW at, NEW to, Here(at), sub'.infos = sub.infos, Test' = Test, Len(sub.infos) \in Nat,
           Covering(Test.body, to) = Covering(Test.body, at)
    PROVE  /\ to = ip' => ContextsAreThose(ip)'
           /\ to = ip' + 1 => ContextsAreThose(ip + 1)'
<1>1. /\ Len(sub'.infos) = Len(Covering(Test'.body, to)) /\ Len(sub'.infos) \in Nat
      /\ \A j \in 1..Len(sub'.infos) : sub'.infos[j] = [text |-> Test'.body[Covering(Test'.body, to)[j]].text,
                                                       depth |-> Depth(Test'.body, Covering(Test'.body, to)[j])]
  BY DEF Here
<1>2. \A j \in Len(sub'.infos) + 1..Len(Covering(Test'.body, to)) : FALSE
  BY <1>1
<1> QED
  BY <1>1, <1>2 DEF ContextsAreThose

(* MainContexts when a subcase is skipped, entered or left ...             *)
LEMMA ContextsSubcase ==
    ASSUME TypeOK, SkipInv, PointsInv, DepthInv, InfosInv, MainContexts, fatal.pc = "no", exception = "none",
           SkipSubcase \/ EnterSubcase \/ EnteredSubcase \/ LeaveSubcase \/ LeftSubcase \/ LockReporters
    PROVE  MainContexts'
<1>1. /\ sub'.infos = sub.infos /\ sub'.stringified = sub.stringified /\ exception' = exception /\ Test' = Test
      /\ InBody /\ InBody' /\ phase # "unwind"
  <2>1. phase # "unwind"
    BY DEF PointsInv
  <2> QED
    BY <2>1, InfosHere
       DEF SkipSubcase, EnterSubcase, EnteredSubcase, LeaveSubcase, LeftSubcase, LockReporters, Leaving,
           AtStatement, InBody, contextVars, runVars, Test
<1>2. Nesting(Test.body) /\ Len(Test.body) \in Nat /\ ip \in 1..Len(Test.body) + 1 /\ ip \in Nat
  BY <1>1, StatementHere, TestsNest
<1>3. Len(sub.infos) \in Nat /\ sub.infos \in Seq(ToSet(sub.infos))
  BY InfosHere
<1>4. sub.stringified = <<>>
  BY <1>1 DEF MainContexts
<1>5. ASSUME phase' # "leaving", ContextsAreThose(ip)' PROVE MainContexts'
  BY <1>1, <1>4, <1>5 DEF MainContexts
<1>6. CASE SkipSubcase
  <2>1. /\ phase = "body" /\ phase' = "body" /\ ip' = Statement.end + 1 /\ Statement.op = "open" /\ ip <= Len(Test.body)
    BY <1>6 DEF SkipSubcase, AtStatement
  <2>2. Here(ip)
    BY <1>1, <1>2, <2>1, AllHere DEF AtEnd, AtStatement
  <2>3. Covering(Test.body, ip') = Covering(Test.body, ip)
    BY <1>2, <2>1, CoveringSkip DEF Statement
  <2>4. ContextsAreThose(ip)'
    BY <1>1, <1>3, <2>2, <2>3, HerePrimed
  <2> QED
    BY <1>5, <2>1, <2>4
<1>7. CASE EnterSubcase
  <2>1. phase = "body" /\ phase' = "entering" /\ ip' = ip /\ Statement.op = "open" /\ ip <= Len(Test.body)
    BY <1>7 DEF EnterSubcase, AtStatement
  <2>2. Here(ip)
    BY <1>1, <1>2, <2>1, AllHere DEF AtEnd, AtStatement
  <2>3. ContextsAreThose(ip)'
    BY <1>1, <1>3, <2>1, <2>2, HerePrimed
  <2> QED
    BY <1>5, <2>1, <2>3
<1>8. CASE EnteredSubcase
  <2>1. phase = "entering" /\ phase' = "body" /\ ip' = ip + 1
    BY <1>8 DEF EnteredSubcase
  <2>2. Here(ip)
    BY <1>1, <1>2, <2>1, AllHere DEF AtEnd, AtStatement
  <2>3. ip <= Len(Test.body) /\ Statement.op = "open"
    BY <2>1 DEF PointsInv
  <2>4. Covering(Test.body, ip + 1) = Covering(Test.body, ip)
    BY <1>2, <2>3, CoveringSame DEF Statement
  <2>5. ContextsAreThose(ip)'
    BY <1>1, <1>3, <2>1, <2>2, <2>4, HerePrimed
  <2> QED
    BY <1>5, <2>1, <2>5
<1>9. CASE LeaveSubcase
  <2>1. /\ phase = "body" /\ phase' = "leaving" /\ ip' = ip /\ Statement.op = "close" /\ ip <= Len(Test.body)
        /\ ~InfoOnTop
    BY <1>1, <1>9 DEF LeaveSubcase, Leaving, AtStatement
  <2>2. ContextsAreThose(ip)
    BY <1>1, <2>1 DEF MainContexts
  <2> DEFINE q == Covering(Test.body, ip)
             r == Covering(Test.body, ip + 1)
             n == Len(sub.infos)
  <2>3. /\ Len(r) <= Len(q) /\ Len(r) \in Nat /\ Len(q) \in Nat
        /\ \A j \in 1..Len(r) : r[j] = q[j] /\ Depth(Test.body, q[j]) < Depth(Test.body, ip)
        /\ \A j \in Len(r) + 1..Len(q) : Depth(Test.body, q[j]) = Depth(Test.body, ip)
    <3>1. PICK body, k : body = Test.body /\ k = ip
      OBVIOUS
    <3>2. Nesting(body) /\ k \in 1..Len(body) /\ body[k].op = "close"
      BY <1>2, <2>1, <3>1 DEF Statement
    <3>3. /\ Len(Covering(body, k + 1)) <= Len(Covering(body, k))
          /\ Len(Covering(body, k + 1)) \in Nat /\ Len(Covering(body, k)) \in Nat
          /\ \A j \in 1..Len(Covering(body, k + 1)) :
                /\ Covering(body, k + 1)[j] = Covering(body, k)[j]
                /\ Depth(body, Covering(body, k)[j]) < Depth(body, k)
          /\ \A j \in Len(Covering(body, k + 1)) + 1..Len(Covering(body, k)) :
                Depth(body, Covering(body, k)[j]) = Depth(body, k)
      BY <3>2, CoveringClose, Zenon
    <3> QED
      BY <3>1, <3>3
  <2>4. /\ n <= Len(q) /\ n \in Nat
        /\ \A j \in 1..n : sub.infos[j] = [text |-> Test.body[q[j]].text, depth |-> Depth(Test.body, q[j])]
        /\ \A j \in n + 1..Len(q) : Depth(Test.body, q[j]) = Len(sub.stack)
    BY <1>3, <2>2 DEF ContextsAreThose
  <2>5. Len(sub.stack) = Depth(Test.body, ip) /\ Depth(Test.body, ip) \in Int
    <3>1. Depth(Test.body, ip) \in Int
      BY <1>2, DepthNext
    <3> QED
      BY <2>1, <3>1 DEF DepthInv
  <2> HIDE DEF q, r
  <2>6. ~(n < Len(r))
    <3> SUFFICES ASSUME n < Len(r) PROVE FALSE
      OBVIOUS
    <3>1. n + 1 \in 1..Len(r) /\ n + 1 \in n + 1..Len(q)
      BY <2>3, <2>4
    <3>2. Depth(Test.body, q[n + 1]) < Depth(Test.body, ip) /\ Depth(Test.body, q[n + 1]) = Depth(Test.body, ip)
      BY <2>3, <2>4, <2>5, <3>1
    <3> QED
      BY <2>5, <3>2
  <2>7. ~(n > Len(r))
    <3> SUFFICES ASSUME n > Len(r) PROVE FALSE
      OBVIOUS
    <3>1. n \in 1..n /\ n \in Len(r) + 1..Len(q) /\ sub.infos # <<>>
      <4>1. n # 0
        BY <2>3, <2>4
      <4> QED
        BY <2>3, <2>4, <4>1, EmptySeq
    <3>2. sub.infos[n].depth = Depth(Test.body, q[n])
      <4>1. PICK x, d : d = Depth(Test.body, q[n]) /\ sub.infos[n] = [text |-> x, depth |-> d]
        BY <2>4, <3>1
      <4> QED
        BY <4>1
    <3>3. Depth(Test.body, q[n]) = Len(sub.stack)
      BY <2>3, <2>5, <3>1
    <3>4. Last(sub.infos).depth = Len(sub.stack)
      BY <3>2, <3>3 DEF Last
    <3> QED
      BY <2>1, <3>1, <3>4 DEF InfoOnTop
  <2>8. n = Len(r)
    BY <2>3, <2>4, <2>6, <2>7
  <2>9. Here(ip + 1)
    <3>1. \A j \in 1..n : sub.infos[j] = [text |-> Test.body[r[j]].text, depth |-> Depth(Test.body, r[j])]
      BY <2>3, <2>4, <2>8
    <3> QED
      BY <2>8, <3>1 DEF Here, r
  <2>10. ContextsAreThose(ip + 1)'
    BY <1>1, <1>3, <2>1, <2>9, HerePrimed
  <2> QED
    BY <1>1, <1>4, <2>1, <2>10 DEF MainContexts
<1>10. CASE LeftSubcase
  <2>1. phase = "leaving" /\ phase' = "body" /\ ip' = ip + 1
    BY <1>10 DEF LeftSubcase
  <2>2. Here(ip + 1)
    BY <1>1, <1>2, <2>1, AllHere DEF AtEnd, AtStatement
  <2>3. ContextsAreThose(ip)'
    BY <1>1, <1>3, <2>1, <2>2, HerePrimed
  <2> QED
    BY <1>5, <2>1, <2>3
<1>11. CASE LockReporters
  <2>1. phase \in {"entering", "leaving"} /\ phase' = phase /\ ip' = ip
    BY <1>11 DEF LockReporters, runVars
  <2>2. CASE phase = "entering"
    <3>1. Here(ip)
      BY <1>1, <1>2, <2>2, AllHere DEF AtEnd, AtStatement
    <3>2. ContextsAreThose(ip)'
      BY <1>1, <1>3, <2>1, <3>1, HerePrimed
    <3> QED
      BY <1>5, <2>1, <2>2, <3>2
  <2>3. CASE phase = "leaving"
    <3>1. Here(ip + 1)
      BY <1>1, <1>2, <2>3, AllHere DEF AtEnd, AtStatement
    <3>2. ContextsAreThose(ip + 1)'
      BY <1>1, <1>3, <2>1, <3>1, HerePrimed
    <3> QED
      BY <1>1, <1>4, <2>1, <2>3, <3>2 DEF MainContexts
  <2> QED
    BY <2>1, <2>2, <2>3
<1> QED
  BY <1>6, <1>7, <1>8, <1>9, <1>10, <1>11

(* ... and when one is left by an exception, which leaves the contexts     *)
(* alone.                                                                  *)
LEMMA ContextsUnwind ==
    ASSUME PointsInv, InfosInv, MainContexts, exception # "none",
           LeaveSubcase \/ AnnounceException \/ LeftSubcase \/ LockReporters
    PROVE  MainContexts'
<1>1. /\ sub'.infos = sub.infos /\ sub'.stringified = sub.stringified /\ exception' = exception /\ Test' = Test
      /\ InBody /\ InBody' /\ ip' = ip
  BY InfosHere DEF LeaveSubcase, AnnounceException, LeftSubcase, LockReporters, Leaving, AtStatement, InBody,
                   PointsInv, contextVars, runVars, Test
<1>2. ActiveContexts(Main)' = ActiveContexts(Main)
  BY <1>1 DEF ActiveContexts
<1> QED
  BY <1>1, <1>2 DEF MainContexts

(* While main is at a statement it is in a test function whose blocks      *)
(* nest.                                                                   *)
LEMMA InBodyHere ==
    ASSUME TypeOK, PointsInv, phase = "body"
    PROVE  /\ Nesting(Test.body) /\ Len(Test.body) \in Nat /\ ip \in 1..Len(Test.body) + 1 /\ ip \in Nat
           /\ exception = "none" /\ InBody
<1>1. InBody /\ exception = "none"
  BY DEF InBody, PointsInv
<1> QED
  BY <1>1, StatementHere, TestsNest

(* MainContexts after an INFO, whose context is as deep as its statement.  *)
LEMMA ContextsBegin ==
    ASSUME TypeOK, SkipInv, PointsInv, DepthInv, InfosInv, MainContexts, fatal.pc = "no", BeginContext
    PROVE  MainContexts'
<1>1. /\ phase = "body" /\ phase' = "body" /\ ip <= Len(Test.body) /\ Statement.op = "info" /\ ip' = ip + 1
      /\ Test' = Test /\ exception' = exception /\ sub'.stringified = sub.stringified
      /\ sub'.infos = Append(sub.infos, [text |-> Statement.text, depth |-> Len(sub.stack)])
  BY InfosHere DEF BeginContext, AtStatement, Test
<1>2. /\ Nesting(Test.body) /\ Len(Test.body) \in Nat /\ ip \in 1..Len(Test.body) + 1 /\ ip \in Nat
      /\ exception = "none" /\ InBody
  BY <1>1, InBodyHere
<1>3. Here(ip) /\ sub.stringified = <<>>
  BY <1>1, <1>2, AllHere DEF AtEnd, AtStatement, MainContexts
<1>4. Len(sub.stack) = Depth(Test.body, ip)
  BY <1>1 DEF DepthInv
<1> DEFINE q == Covering(Test.body, ip)
           r == Covering(Test.body, ip + 1)
           n == Len(sub.infos)
           e == [text |-> Statement.text, depth |-> Len(sub.stack)]
<1>5. r = Append(q, ip)
  BY <1>1, <1>2, CoveringInfo DEF Statement
<1>6. /\ Len(q) = n /\ n \in Nat
      /\ \A j \in 1..n : sub.infos[j] = [text |-> Test.body[q[j]].text, depth |-> Depth(Test.body, q[j])]
  BY <1>3, InfosHere DEF Here
<1>7. q \in Seq(Nat)
  <2>1. \A j \in 1..Len(q) : q[j] \in 1..ip - 1
    BY <1>2, CoveringIs
  <2>2. DOMAIN q = 1..Len(q) /\ Len(q) \in Nat
    BY <1>2, CoveringIs
  <2>3. q \in [1..Len(q) -> Nat]
    <3>1. q = InOrder({j \in 1..ip - 1 : Covers(Test.body, j, ip)}, ip - 1)
      BY DEF Covering
    <3>2. PICK T : q \in Seq(T)
      <4>1. ip - 1 \in Nat
        BY <1>2
      <4> QED
        BY <3>1, <4>1, InOrderElements, ZenonT(40)
    <3>3. q = [j \in DOMAIN q |-> q[j]]
      BY <3>2, LenProperties
    <3> HIDE DEF q
    <3> QED
      BY <1>2, <2>1, <2>2, <3>3
  <2> QED
    BY <2>2, <2>3, SeqDef
<1> HIDE DEF q, r, n
<1>8. Len(r) = n + 1 /\ r[n + 1] = ip /\ \A j \in 1..n : r[j] = q[j]
  BY <1>2, <1>5, <1>6, <1>7, AppendProperties
<1>9. PICK infos : infos = Append(sub.infos, e)
  OBVIOUS
<1>10. Len(infos) = n + 1 /\ infos[n + 1] = e /\ \A j \in 1..n : infos[j] = sub.infos[j]
  <2>1. PICK T : sub.infos \in Seq(T) /\ e \in T
    <3>1. sub.infos \in Seq(ToSet(sub.infos))
      BY DEF InfosInv
    <3>2. sub.infos \in Seq(ToSet(sub.infos) \cup {e})
      BY <3>1, SeqMonotonic
    <3> QED
      BY <3>2
  <2> HIDE DEF e
  <2> QED
    BY <1>9, <2>1, AppendProperties DEF n
<1>11. ASSUME NEW j \in 1..n + 1
       PROVE  infos[j] = [text |-> Test.body[r[j]].text, depth |-> Depth(Test.body, r[j])]
  <2>1. CASE j = n + 1
    BY <1>4, <1>8, <1>10, <2>1 DEF Statement
  <2>2. CASE j \in 1..n
    BY <1>6, <1>8, <1>10, <2>2
  <2> QED
    BY <1>6, <2>1, <2>2
<1>12. ContextsAreThose(ip)'
  <2>1. sub'.infos = infos /\ Test' = Test /\ ip' = ip + 1
    BY <1>1, <1>9
  <2>2. \A j \in n + 1 + 1..n + 1 : FALSE
    BY <1>6
  <2>3. n + 1 <= n + 1
    BY <1>6
  <2> HIDE DEF e
  <2> QED
    BY <1>8, <1>10, <1>11, <2>1, <2>2, <2>3 DEF ContextsAreThose, r
<1> QED
  BY <1>1, <1>2, <1>3, <1>12 DEF MainContexts, InBody

(* MainContexts when the innermost context is destroyed at the end of its  *)
(* scope ...                                                               *)
LEMMA ContextsEnd ==
    ASSUME TypeOK, PointsInv, InfosInv, MainContexts, exception = "none", DestroyContext
    PROVE  MainContexts'
<1>1. /\ sub.infos # <<>> /\ Last(sub.infos).depth = Len(sub.stack) /\ sub'.infos = Front(sub.infos)
      /\ sub'.stringified = sub.stringified /\ sub'.stack = sub.stack
      /\ UNCHANGED <<phase, ip, exception, asserting>> /\ Test' = Test
  <2>1. "infos" \in DOMAIN sub /\ "stringified" \in DOMAIN sub
    BY InfosHere
  <2> QED
    BY <2>1 DEF DestroyContext, InfoOnTop, runVars, Test
<1>2. phase = "body" /\ (AtEnd \/ AtStatement("close")) /\ (AtEnd' \/ AtStatement("close")')
  <2>1. phase # "unwind"
    BY DEF PointsInv
  <2> QED
    BY <1>1, <2>1 DEF DestroyContext, Leaving, AtEnd, AtStatement, Statement
<1>3. sub.stringified = <<>> /\ ContextsAreThose(ip)
  BY <1>2 DEF MainContexts, InBody
<1> DEFINE q == Covering(Test.body, ip)
           n == Len(sub.infos) - 1
<1>4. /\ n \in Nat /\ Len(sub.infos) = n + 1
      /\ Len(Front(sub.infos)) = n /\ \A j \in 1..n : Front(sub.infos)[j] = sub.infos[j]
  <2>1. PICK T : sub.infos \in Seq(T)
    BY InfosHere
  <2>2. Len(sub.infos) \in Nat \ {0} /\ \A j \in 1..Len(sub.infos) : sub.infos[j] \in T
    BY <1>1, <2>1, EmptySeq, ElementOfSeq
  <2>3. n \in Nat /\ Len(sub.infos) = n + 1 /\ \A j \in 1..n : sub.infos[j] \in T
    BY <2>2
  <2>4. Front(sub.infos) = SubSeq(sub.infos, 1, n)
    BY DEF Front
  <2> HIDE DEF n
  <2>5. /\ Len(SubSeq(sub.infos, 1, n)) = n
        /\ \A j \in 1..n : SubSeq(sub.infos, 1, n)[j] = sub.infos[1 + j - 1]
    BY <2>3, SubSeqProperties
  <2>6. \A j \in 1..n : 1 + j - 1 = j
    BY <2>3
  <2> QED
    BY <2>3, <2>4, <2>5, <2>6
<1>5. /\ n + 1 <= Len(q) /\ Len(q) \in Nat
      /\ \A j \in 1..n + 1 : sub.infos[j] = [text |-> Test.body[q[j]].text, depth |-> Depth(Test.body, q[j])]
      /\ \A j \in n + 1 + 1..Len(q) : Depth(Test.body, q[j]) = Len(sub.stack)
  <2>1. Len(q) \in Nat
    BY <1>2, InBodyHere, CoveringIs
  <2> HIDE DEF n
  <2> QED
    BY <1>3, <1>4, <2>1 DEF ContextsAreThose
<1> HIDE DEF q, n
<1>6. Depth(Test.body, q[n + 1]) = Len(sub.stack)
  <2>1. PICK x, d : d = Depth(Test.body, q[n + 1]) /\ sub.infos[n + 1] = [text |-> x, depth |-> d]
    <3>1. n + 1 \in 1..n + 1
      BY <1>4
    <3> QED
      BY <1>5, <3>1
  <2> QED
    BY <1>1, <1>4, <2>1 DEF Last
<1>7. ContextsAreThose(ip)'
  <2>1. PICK infos : infos = Front(sub.infos)
    OBVIOUS
  <2>2. Len(infos) = n /\ \A j \in 1..n : infos[j] = sub.infos[j]
    BY <1>4, <2>1
  <2>3. \A j \in 1..n : infos[j] = [text |-> Test.body[q[j]].text, depth |-> Depth(Test.body, q[j])]
    <3> TAKE j \in 1..n
    <3>1. j \in 1..n + 1 /\ infos[j] = sub.infos[j]
      BY <1>4, <2>2
    <3> QED
      BY <1>5, <3>1
  <2>4. \A j \in n + 1..Len(q) : Depth(Test.body, q[j]) = Len(sub.stack)
    BY <1>4, <1>5, <1>6
  <2>5. n <= Len(q) /\ sub'.infos = infos /\ Test' = Test /\ ip' = ip /\ sub'.stack = sub.stack
    BY <1>1, <1>4, <1>5, <2>1
  <2> QED
    BY <1>2, <2>2, <2>3, <2>4, <2>5 DEF ContextsAreThose, q
<1> QED
  BY <1>1, <1>2, <1>3, <1>7 DEF MainContexts, InBody

(* ... or by an exception, which moves its text to stringifiedContexts.    *)
LEMMA ContextsMoved ==
    ASSUME TypeOK, PointsInv, InfosInv, MainContexts, exception # "none", DestroyContext
    PROVE  MainContexts'
<1>1. /\ sub.infos # <<>> /\ sub'.infos = Front(sub.infos)
      /\ sub'.stringified = Append(sub.stringified, Last(sub.infos).text)
      /\ UNCHANGED <<phase, ip, exception>> /\ Test' = Test
  <2>1. "infos" \in DOMAIN sub /\ "stringified" \in DOMAIN sub
    BY InfosHere
  <2> QED
    BY <2>1 DEF DestroyContext, InfoOnTop, runVars, Test
<1>2. InBody
  BY DEF DestroyContext, Leaving, AtEnd, AtStatement, InBody
<1>3. ActiveContexts(Main) \o Reverse(sub.stringified) = InScope(Test.body, ip)
  BY <1>2 DEF MainContexts
<1> DEFINE a == [k \in DOMAIN sub.infos |-> sub.infos[k].text]
           b == sub.stringified
           n == Len(sub.infos) - 1
           T == {a[k] : k \in DOMAIN a} \cup ToSet(b)
<1>4. /\ sub.infos \in Seq(ToSet(sub.infos)) /\ n \in Nat /\ Len(sub.infos) = n + 1 /\ DOMAIN sub.infos = 1..n + 1
  <2>1. Len(sub.infos) \in Nat \ {0}
    BY <1>1, InfosHere, EmptySeq
  <2> QED
    BY <2>1, InfosHere
<1>5. a \in Seq(T) /\ Len(a) = n + 1 /\ a # <<>> /\ DOMAIN a = 1..n + 1
  <2>1. DOMAIN a = 1..n + 1 /\ \A k \in 1..n + 1 : a[k] \in T
    BY <1>4
  <2>2. a = [k \in 1..n + 1 |-> a[k]]
    BY <1>4
  <2>3. n + 1 \in Nat
    BY <1>4
  <2> HIDE DEF a, n, T
  <2>4. a \in [1..n + 1 -> T]
    BY <2>1, <2>2
  <2>5. a \in Seq(T) /\ Len(a) = n + 1
    BY <2>3, <2>4, SeqDef, LenProperties
  <2> QED
    BY <1>4, <2>1, <2>5, EmptySeq
<1>6. b \in Seq(T)
  <2>1. b \in Seq(ToSet(b)) /\ ToSet(b) \subseteq T
    BY InfosHere
  <2> HIDE DEF a, T
  <2> QED
    BY <2>1, SeqMonotonic
<1>7. Last(a) = Last(sub.infos).text
  <2>1. n + 1 \in DOMAIN sub.infos
    BY <1>4
  <2> QED
    BY <1>4, <1>5, <2>1 DEF Last
<1>8. Front(a) = [k \in DOMAIN Front(sub.infos) |-> Front(sub.infos)[k].text]
  <2>1. Front(a) = [k \in 1..n |-> a[k]] /\ Front(sub.infos) = [k \in 1..n |-> sub.infos[k]]
    <3>1. ASSUME NEW s, NEW S, s \in Seq(S), Len(s) = n + 1 PROVE Front(s) = [k \in 1..n |-> s[k]]
      <4>1. Front(s) = SubSeq(s, 1, n)
        <5>1. Len(s) - 1 = n
          BY <1>4, <3>1
        <5> QED
          BY <5>1 DEF Front
      <4>2. SubSeq(s, 1, n) = [k \in 1..1 + n - 1 |-> s[1 + k - 1]]
        BY <1>4 DEF SubSeq
      <4> HIDE DEF n
      <4>3. 1 + n - 1 = n /\ \A k \in 1..n : 1 + k - 1 = k
        BY <1>4
      <4> QED
        BY <4>1, <4>2, <4>3
    <3> HIDE DEF a, n, T
    <3> QED
      BY <1>4, <1>5, <3>1
  <2>2. \A k \in 1..n : k \in DOMAIN sub.infos
    BY <1>4
  <2> QED
    BY <2>1, <2>2
<1>9. Front(a) \o Reverse(Append(b, Last(a))) = a \o Reverse(b)
  <2> HIDE DEF a, b, n, T
  <2> QED
    BY <1>5, <1>6, MovedOver
<1>10. ActiveContexts(Main) = a /\ ActiveContexts(Main)' = [k \in DOMAIN Front(sub.infos) |-> Front(sub.infos)[k].text]
  BY <1>1 DEF ActiveContexts
<1> HIDE DEF a, b, n, T
<1>11. ActiveContexts(Main)' \o Reverse(sub'.stringified) = InScope(Test'.body, ip')
  BY <1>1, <1>3, <1>7, <1>8, <1>9, <1>10 DEF b
<1> QED
  BY <1>1, <1>2, <1>11 DEF MainContexts, InBody

(* MainContexts after statements that are no contexts.                     *)
LEMMA ContextsQuiet ==
    ASSUME TypeOK, PointsInv, InfosInv, MainContexts,
           SkipAssertion \/ MakeAssertion \/ CreateThreads \/ JoinThreads
    PROVE  MainContexts'
<1>1. /\ phase = "body" /\ phase' = "body" /\ ip <= Len(Test.body) /\ ip' = ip + 1 /\ exception' = exception
      /\ Statement.op \notin {"close", "info"} /\ Test' = Test /\ sub' = sub
  BY DEF SkipAssertion, MakeAssertion, CreateThreads, JoinThreads, AtStatement, Test, contextVars
<1>2. /\ Nesting(Test.body) /\ Len(Test.body) \in Nat /\ ip \in 1..Len(Test.body) + 1 /\ ip \in Nat
      /\ exception = "none" /\ InBody
  BY <1>1, InBodyHere
<1>3. Here(ip) /\ sub.stringified = <<>>
  BY <1>1, <1>2, AllHere DEF AtEnd, AtStatement, MainContexts
<1>4. Covering(Test.body, ip + 1) = Covering(Test.body, ip)
  BY <1>1, <1>2, CoveringSame DEF Statement
<1>5. ContextsAreThose(ip)'
  BY <1>1, <1>3, <1>4, HerePrimed, InfosHere
<1> QED
  BY <1>1, <1>2, <1>3, <1>5 DEF MainContexts, InBody

(* MainContexts when an exception is thrown: nothing is destroyed yet.     *)
LEMMA ContextsThrown ==
    ASSUME TypeOK, PointsInv, InfosInv, MainContexts, fatal.pc = "no", ~Ended, Throw \/ throwException
    PROVE  MainContexts'
<1>1. /\ phase' = "unwind" /\ ip' = ip /\ exception' # "none"
      /\ Test' = Test /\ sub'.infos = sub.infos /\ sub'.stringified = sub.stringified
  <2>1. "infos" \in DOMAIN sub /\ "stringified" \in DOMAIN sub
    BY InfosHere
  <2> QED
    BY <2>1 DEF Throw, throwException, Test, contextVars
<1>2. phase = "body" /\ ~AtEnd /\ ~AtStatement("close")
  <2>1. CASE Throw
    <3>1. phase = "body" /\ ip <= Len(Test.body) /\ Statement.op = "throw"
      BY <2>1 DEF Throw, AtStatement
    <3> QED
      BY <3>1, InBodyHere DEF AtEnd, AtStatement
  <2>2. CASE throwException
    <3>1. asserting[Main] # Idle
      BY <2>2 DEF throwException, Idle
    <3> QED
      BY <3>1 DEF PointsInv, Ended, Working, AtEnd, AtStatement
  <2> QED
    BY <2>1, <2>2
<1>3. /\ Nesting(Test.body) /\ ip \in 1..Len(Test.body) + 1 /\ exception = "none" /\ InBody
  BY <1>2, InBodyHere
<1>4. Here(ip) /\ sub.stringified = <<>>
  BY <1>2, <1>3, AllHere DEF MainContexts
<1>5. ActiveContexts(Main) = InScope(Test.body, ip)
  BY <1>3, <1>4, HereSays
<1>6. ActiveContexts(Main)' = ActiveContexts(Main)
  BY <1>1 DEF ActiveContexts
<1>7. ActiveContexts(Main) \o Reverse(<<>>) = ActiveContexts(Main)
  <2>1. Reverse(<<>>) = <<>>
    <3>1. PICK T : <<>> \in Seq(T)
      BY EmptySeq
    <3>2. Reverse(<<>>) \in Seq(T) /\ Len(Reverse(<<>>)) = 0
      BY <3>1, Reversed, EmptySeq
    <3> QED
      BY <3>2, EmptySeq
  <2>2. PICK T : ActiveContexts(Main) \in Seq(T)
    <3> DEFINE a == [k \in DOMAIN sub.infos |-> sub.infos[k].text]
               T == {a[k] : k \in DOMAIN a}
    <3>1. a \in [1..Len(sub.infos) -> T] /\ Len(sub.infos) \in Nat
      BY InfosHere
    <3> HIDE DEF T
    <3>2. a \in Seq(T)
      BY <3>1, SeqDef
    <3> QED
      BY <3>2 DEF ActiveContexts
  <2> QED
    BY <2>1, <2>2, ConcatEmptySeq
<1> QED
  BY <1>1, <1>3, <1>4, <1>5, <1>6, <1>7 DEF MainContexts, InBody

(* ContextsInv when a thread logs: it is told of its own contexts only,    *)
(* and the others stay where they are.                                     *)
LEMMA ContextsAssert ==
    ASSUME TypeOK, PointsInv, MutexInv, HeaderInv, InfosInv, ContextsInv, ~Ended, NEW t \in Threads, AssertStep(t)
    PROVE  ContextsInv'
<1>1. /\ \A u \in Threads : u # t => asserting'[u] = asserting[u]
      /\ ~Log(t) => asserting'[t].pc # "logging"
      /\ Logged(t) <=> asserting[t].pc = "logging"
      /\ ~Log(t) /\ ~Logged(t) => rep' = rep
      /\ phase' = phase /\ fatal' = fatal /\ sub' = sub
  BY AssertMoves
<1>2. exception' = exception /\ ip' = ip /\ Test' = Test
  BY DEF AssertStep, AddAssert, LogSkipped, Log, Logged, AddFailedAssert, AssertReturns, runVars, Test
<1>3. Working(t)
  BY AssertWorks
<1>4. phase = "body"
  BY <1>3 DEF Threads, PointsInv, Ended, Confined
<1>5. /\ Nesting(Test.body) /\ Len(Test.body) \in Nat /\ ip \in 1..Len(Test.body) + 1 /\ ip \in Nat
      /\ exception = "none" /\ InBody
  BY <1>4, InBodyHere
<1>6. SUFFICES ASSUME fatal.pc = "no"
               PROVE  MainContexts' /\ \A r \in ConsoleReporters' : QuotedIn(rep[r])'
  BY <1>1, ContextsPrimed
<1>7. MainContexts /\ \A r \in ConsoleReporters : QuotedIn(rep[r])
  BY <1>6, ContextsParts
<1>8. t = Main => Here(ip)
  <2> SUFFICES ASSUME t = Main PROVE Here(ip)
    OBVIOUS
  <2>1. ~AtEnd /\ ~AtStatement("close")
    BY <1>3 DEF AtEnd, AtStatement, Working
  <2> QED
    BY <1>4, <1>5, <1>7, <2>1, AllHere
<1>9. MainContexts'
  <2>1. sub.stringified = <<>> /\ ContextsAreThose(ip)
    BY <1>4, <1>5, <1>7 DEF MainContexts
  <2>2. CASE t = Main
    <3>1. ContextsAreThose(ip)'
      BY <1>1, <1>2, <1>8, <2>2, HerePrimed, InfosHere
    <3> QED
      BY <1>1, <1>2, <1>4, <1>5, <2>1, <3>1 DEF MainContexts, InBody
  <2>3. CASE t # Main
    <3>1. asserting'[Main] = asserting[Main]
      BY <1>1, <2>3 DEF Threads
    <3>2. ContextsAreThose(ip)'
      BY <1>1, <1>2, <2>1, <3>1 DEF ContextsAreThose, AtEnd, AtStatement, Statement
    <3> QED
      BY <1>1, <1>2, <1>4, <1>5, <2>1, <3>2 DEF MainContexts, InBody
  <2> QED
    BY <2>2, <2>3
<1>10. ASSUME NEW r \in ConsoleReporters'
       PROVE  QuotedIn(rep[r])'
  <2>1. SUFFICES ASSUME NEW u \in Threads, asserting'[u].pc = "logging"
                 PROVE  rep'[r].quoted = IF u = Main THEN InScope(Test.body, ip) ELSE <<>>
    BY <1>1, <1>2, <1>4 DEF QuotedIn
  <2>2. CASE Log(t)
    <3>1. \A v \in Threads : asserting[v].pc # "logging"
      BY <2>2, MutexLog
    <3>2. u = t
      BY <1>1, <2>1, <3>1
    <3>3. rep'[r].quoted = ActiveContexts(t)
      <4>1. PICK e : Notify(e) /\ e.on = "log" /\ e.contexts = ActiveContexts(t)
        BY <2>2 DEF Log
      <4>2. r \in ConsoleReporters /\ rep'[r] = ToConsole(rep[r], e)
        BY <4>1, ToldConsoles
      <4>3. IsConsole(rep[r])
        BY <4>2, HeaderParts
      <4> QED
        BY <4>1, <4>2, <4>3, QuotedNow
    <3>4. CASE t = Main
      BY <1>5, <1>8, <3>2, <3>3, <3>4, HereSays
    <3>5. CASE t # Main
      BY <3>2, <3>3, <3>5 DEF ActiveContexts
    <3> QED
      BY <3>4, <3>5
  <2>3. CASE ~Log(t)
    <3>1. u # t /\ asserting[u].pc = "logging"
      BY <1>1, <2>1, <2>3
    <3>2. r \in ConsoleReporters /\ rep'[r].quoted = rep[r].quoted
      <4>1. CASE Logged(t)
        <5>1. PICK e : Notify(e) /\ e.on = "log_ends"
          BY <4>1 DEF Logged
        <5>2. r \in ConsoleReporters /\ rep'[r] = ToConsole(rep[r], e)
          BY <5>1, ToldConsoles
        <5>3. IsConsole(rep[r])
          BY <5>2, HeaderParts
        <5> QED
          BY <5>1, <5>2, <5>3, QuotedNow
      <4>2. CASE ~Logged(t)
        BY <1>1, <2>3, <4>2 DEF ConsoleReporters
      <4> QED
        BY <4>1, <4>2
    <3> QED
      BY <1>7, <3>1, <3>2 DEF QuotedIn
  <2> QED
    BY <2>2, <2>3
<1> QED
  BY <1>9, <1>10

(* ContextsInv after any of main's steps through a test function.          *)
LEMMA ContextsBody ==
    ASSUME TypeOK, SkipInv, PointsInv, MutexInv, InfosInv, DepthInv, HeaderInv, ContextsInv,
           ~Ended, fatal.by # Main, BodyStep
    PROVE  ContextsInv'
<1>1. CASE AssertStep(Main)
  BY <1>1, ContextsAssert DEF Threads
<1>2. CASE MoveStep
  <2>1. /\ fatal.pc = "no" /\ fatal' = fatal /\ asserting' = asserting /\ InBody'
        /\ \A t \in Threads : asserting[t] = Idle
    BY <1>2, MoveAlone
  <2>2. MainContexts
    BY <2>1, ContextsParts
  <2>3. MainContexts'
    <3>1. CASE exception = "none"
      <4>1. ~AnnounceException
        BY <3>1 DEF AnnounceException, Announces
      <4> QED
        BY <1>2, <2>1, <2>2, <3>1, <4>1, ContextsSubcase, ContextsBegin, ContextsEnd, ContextsThrown
           DEF MoveStep
    <3>2. CASE exception # "none"
      <4>1. LeaveSubcase \/ AnnounceException \/ LeftSubcase \/ LockReporters \/ DestroyContext
        BY <1>2, <3>2 DEF MoveStep, SkipSubcase, EnterSubcase, EnteredSubcase, BeginContext, Throw,
                          AtStatement, PointsInv
      <4> QED
        BY <2>2, <3>2, <4>1, ContextsUnwind, ContextsMoved
    <3> QED
      BY <3>1, <3>2
  <2>4. phase' # "after" /\ \A t \in Threads : asserting'[t].pc # "logging"
    BY <2>1 DEF InBody, Idle
  <2> QED
    BY <2>3, <2>4, NothingQuoted, ContextsPrimed
<1>3. CASE SkipAssertion \/ MakeAssertion \/ throwException \/ CreateThreads \/ JoinThreads
  <2>1. /\ rep' = rep /\ fatal'.pc = fatal.pc
        /\ \A t \in Threads : asserting'[t].pc = "logging" => asserting[t].pc = "logging"
    <3>1. fatal'.pc = fatal.pc
      BY <1>3 DEF SkipAssertion, MakeAssertion, throwException, CreateThreads, JoinThreads, TypeOK
    <3> QED
      BY <1>3, <3>1, QuietLogging DEF QuietStep
  <2>2. asserting[Main].pc # "logging" /\ phase' \in {"body", "unwind"} /\ Test' = Test
    BY <1>3 DEF SkipAssertion, MakeAssertion, throwException, CreateThreads, JoinThreads, AtStatement, Idle,
                Test
  <2>3. SUFFICES ASSUME fatal.pc = "no"
                 PROVE  MainContexts' /\ \A r \in ConsoleReporters' : QuotedIn(rep[r])'
    BY <2>1, ContextsPrimed
  <2>4. MainContexts /\ \A r \in ConsoleReporters : QuotedIn(rep[r])
    BY <2>3, ContextsParts
  <2>5. MainContexts'
    BY <1>3, <2>3, <2>4, ContextsQuiet, ContextsThrown
  <2>6. \A r \in ConsoleReporters' : QuotedIn(rep[r])'
    <3> SUFFICES ASSUME NEW r \in ConsoleReporters' PROVE QuotedIn(rep[r])'
      OBVIOUS
    <3>1. r \in ConsoleReporters /\ rep'[r] = rep[r]
      BY <2>1 DEF ConsoleReporters
    <3>2. ASSUME NEW t \in Threads, asserting'[t].pc = "logging" PROVE t # Main /\ rep[r].quoted = <<>>
      <4>1. asserting[t].pc = "logging" /\ t # Main
        BY <2>1, <2>2, <3>2
      <4> QED
        BY <2>4, <3>1, <4>1 DEF QuotedIn
    <3>3. phase' # "after"
      BY <2>2
    <3> QED
      BY <3>1, <3>2, <3>3 DEF QuotedIn
  <2> QED
    BY <2>5, <2>6
<1> QED
  BY <1>1, <1>2, <1>3 DEF BodyStep, MoveStep

(* ContextsInv is kept by every step.                                      *)
LEMMA ContextsSteps ==
    ASSUME CoreInv, ContextsInv, [Next]_vars
    PROVE  ContextsInv'
<1>1. TypeOK /\ SkipInv /\ PointsInv /\ MutexInv /\ InfosInv /\ DepthInv /\ HeaderInv
  BY DEF CoreInv
<1>2. CASE UNCHANGED vars
  <2>1. /\ UNCHANGED <<sub, phase, ip, exception, fatal, rep, asserting>> /\ Test' = Test
    BY <1>2 DEF vars, contextVars, runVars, reportVars, Test
  <2>2. /\ AtEnd' <=> AtEnd
        /\ AtStatement("close")' <=> AtStatement("close")
        /\ ActiveContexts(Main)' = ActiveContexts(Main)
    BY <2>1 DEF AtEnd, AtStatement, Statement, ActiveContexts
  <2>3. /\ ContextsAreThose(ip)' <=> ContextsAreThose(ip)
        /\ ContextsAreThose(ip + 1)' <=> ContextsAreThose(ip + 1)
    BY <2>1, <2>2 DEF ContextsAreThose
  <2> QED
    BY <2>1, <2>2, <2>3 DEF ContextsInv, InfoIsCurrent, ConsoleReporters, InBody
<1>3. CASE MainStep
  <2>1. ~Ended /\ fatal.by # Main /\ (RunStep \/ BodyStep)
    BY <1>3 DEF MainStep
  <2> QED
    BY <1>1, <2>1, ContextsRun, ContextsBody
<1>4. ASSUME NEW w \in Workers, WorkerStep(w) PROVE ContextsInv'
  <2>1. ~Ended /\ (AssertStep(w) \/ Terminate(w))
    BY <1>4 DEF WorkerStep
  <2>2. CASE AssertStep(w)
    BY <1>1, <2>1, <2>2, ContextsAssert DEF Threads
  <2>3. CASE Terminate(w)
    BY <1>1, <2>1, <2>3, SignalStays DEF ContextsInv
  <2> QED
    BY <2>1, <2>2, <2>3
<1>5. CASE HandlerStep \/ (~Ended /\ Interrupt)
  <2>1. ~Ended /\ (FatalStep \/ Interrupt)
    BY <1>5 DEF HandlerStep
  <2>2. fatal'.pc # "no"
    BY <1>1, <2>1, SignalStays
  <2> QED
    BY <2>2 DEF ContextsInv
<1> QED
  BY <1>2, <1>3, <1>4, <1>5 DEF Next

(* No context is stacked at first.                                         *)
LEMMA ContextsInit == Init => ContextsInv
<1> SUFFICES ASSUME Init PROVE ContextsInv
  OBVIOUS
<1>1. sub.infos = <<>> /\ phase = "run" /\ rep = <<>> /\ ConsoleReporters = {}
  BY DEF Init, NoSubcases, ConsoleReporters
<1> QED
  BY <1>1 DEF ContextsInv, InfoIsCurrent, InBody

-----------------------------------------------------------------------------
(* Masks.                                                                  *)

(* for of Glob.                                                            *)
StandsFor(f, str, wild, caseSensitive) ==
    f = [j \in 1..Len(wild) + 1 |->
            IF j = Len(wild) + 1 THEN {Len(str) + 1}
            ELSE IF wild[j] = "*" THEN {a \in 1..Len(str) + 1 : \E k \in f[j + 1] : a <= k}
            ELSE {a \in 1..Len(str) : a + 1 \in f[j + 1] /\ Agree(wild[j], str[a], caseSensitive)}]

(* A name, which has no NUL, and a mask.                                   *)
NameAndMask(str, wild) ==
    Len(str) \in Nat /\ Len(wild) \in Nat /\ \A k \in 1..Len(str) : str[k] # NUL

(* Glob's function position by position of the mask: its values are        *)
(* positions of the name or the one after it.                              *)
LEMMA StandsForStep ==
    ASSUME NEW f, NEW str, NEW wild, NEW cs, NameAndMask(str, wild), StandsFor(f, str, wild, cs)
    PROVE  /\ f[Len(wild) + 1] = {Len(str) + 1}
           /\ \A j \in 1..Len(wild) :
                 f[j] = IF wild[j] = "*" THEN {a \in 1..Len(str) + 1 : \E k \in f[j + 1] : a <= k}
                        ELSE {a \in 1..Len(str) : a + 1 \in f[j + 1] /\ Agree(wild[j], str[a], cs)}
           /\ \A j \in 1..Len(wild) + 1 : f[j] \subseteq 1..Len(str) + 1
<1>1. Len(wild) + 1 \in 1..Len(wild) + 1 /\ \A j \in 1..Len(wild) : j \in 1..Len(wild) + 1 /\ j # Len(wild) + 1
  BY DEF NameAndMask
<1>2. \A j \in 1..Len(wild) + 1 :
          f[j] = IF j = Len(wild) + 1 THEN {Len(str) + 1}
                 ELSE IF wild[j] = "*" THEN {a \in 1..Len(str) + 1 : \E k \in f[j + 1] : a <= k}
                 ELSE {a \in 1..Len(str) : a + 1 \in f[j + 1] /\ Agree(wild[j], str[a], cs)}
  BY Zenon DEF StandsFor
<1>3. /\ f[Len(wild) + 1] = {Len(str) + 1}
      /\ \A j \in 1..Len(wild) :
            f[j] = IF wild[j] = "*" THEN {a \in 1..Len(str) + 1 : \E k \in f[j + 1] : a <= k}
                   ELSE {a \in 1..Len(str) : a + 1 \in f[j + 1] /\ Agree(wild[j], str[a], cs)}
  BY <1>1, <1>2
<1>4. ASSUME NEW j \in 1..Len(wild) + 1 PROVE f[j] \subseteq 1..Len(str) + 1
  <2>1. CASE j = Len(wild) + 1
    BY <1>3, <2>1 DEF NameAndMask
  <2>2. CASE j \in 1..Len(wild)
    <3>1. CASE wild[j] = "*"
      <4>1. f[j] = {a \in 1..Len(str) + 1 : \E k \in f[j + 1] : a <= k}
        BY <1>3, <2>2, <3>1
      <4> QED
        BY <4>1
    <3>2. CASE wild[j] # "*"
      <4>1. f[j] = {a \in 1..Len(str) : a + 1 \in f[j + 1] /\ Agree(wild[j], str[a], cs)}
        BY <1>3, <2>2, <3>2
      <4>2. 1..Len(str) \subseteq 1..Len(str) + 1
        BY DEF NameAndMask
      <4> QED
        BY <4>1, <4>2
    <3> QED
      BY <3>1, <3>2
  <2> QED
    BY <2>1, <2>2 DEF NameAndMask
<1> QED
  BY <1>3, <1>4

(* Glob's function at a '*': what is after it matches there or further on. *)
LEMMA AtStar ==
    ASSUME NEW f, NEW str, NEW wild, NEW cs, NameAndMask(str, wild), StandsFor(f, str, wild, cs),
           NEW j \in 1..Len(wild), wild[j] = "*"
    PROVE  \A a \in 1..Len(str) + 1 : a \in f[j] <=> \E k \in f[j + 1] : a <= k
<1>1. \A x \in 1..Len(wild) + 1 :
          f[x] = IF x = Len(wild) + 1 THEN {Len(str) + 1}
                 ELSE IF wild[x] = "*" THEN {a \in 1..Len(str) + 1 : \E k \in f[x + 1] : a <= k}
                 ELSE {a \in 1..Len(str) : a + 1 \in f[x + 1] /\ Agree(wild[x], str[a], cs)}
  BY Zenon DEF StandsFor
<1>2. j \in 1..Len(wild) + 1 /\ j # Len(wild) + 1
  BY DEF NameAndMask
<1>3. f[j] = {a \in 1..Len(str) + 1 : \E k \in f[j + 1] : a <= k}
  BY <1>1, <1>2
<1> QED
  BY <1>3

(* ... and at another character: it agrees, and what is after it matches   *)
(* one further on.                                                         *)
LEMMA AtCharacter ==
    ASSUME NEW f, NEW str, NEW wild, NEW cs, NameAndMask(str, wild), StandsFor(f, str, wild, cs),
           NEW j \in 1..Len(wild), wild[j] # "*"
    PROVE  \A a : a \in f[j] <=> a \in 1..Len(str) /\ a + 1 \in f[j + 1] /\ Agree(wild[j], str[a], cs)
<1>1. \A x \in 1..Len(wild) + 1 :
          f[x] = IF x = Len(wild) + 1 THEN {Len(str) + 1}
                 ELSE IF wild[x] = "*" THEN {a \in 1..Len(str) + 1 : \E k \in f[x + 1] : a <= k}
                 ELSE {a \in 1..Len(str) : a + 1 \in f[x + 1] /\ Agree(wild[x], str[a], cs)}
  BY Zenon DEF StandsFor
<1>2. j \in 1..Len(wild) + 1 /\ j # Len(wild) + 1
  BY DEF NameAndMask
<1>3. f[j] = {a \in 1..Len(str) : a + 1 \in f[j + 1] /\ Agree(wild[j], str[a], cs)}
  BY <1>1, <1>2
<1> QED
  BY <1>3

(* What is left of a mask matches from positions of the name or the one    *)
(* after it.                                                               *)
LEMMA Positions ==
    ASSUME NEW f, NEW str, NEW wild, NEW cs, NameAndMask(str, wild), StandsFor(f, str, wild, cs),
           NEW j \in 1..Len(wild) + 1
    PROVE  f[j] \subseteq 1..Len(str) + 1
BY StandsForStep, Zenon

(* Such a function exists for each name and mask.                          *)
LEMMA StandsForExists ==
    ASSUME NEW str, NEW wild, NEW cs, NameAndMask(str, wild)
    PROVE  \E f : StandsFor(f, str, wild, cs)
<1> DEFINE n == Len(wild)
           Body(f, j) == IF j = n + 1 THEN {Len(str) + 1}
                         ELSE IF wild[j] = "*" THEN {a \in 1..Len(str) + 1 : \E k \in f[j + 1] : a <= k}
                         ELSE {a \in 1..Len(str) : a + 1 \in f[j + 1] /\ Agree(wild[j], str[a], cs)}
           Good == {d \in Nat : d <= n =>
                        \E f : \A j \in n + 1 - d..n + 1 : f[j] = Body(f, j)}
<1>1. n \in Nat
  BY DEF NameAndMask
<1>2. \A f, g, j : f[j + 1] = g[j + 1] => Body(f, j) = Body(g, j)
  OBVIOUS
<1>3. \A f : Body(f, n + 1) = {Len(str) + 1}
  OBVIOUS
<1> HIDE DEF Body
<1>4. 0 \in Good
  <2> DEFINE f == [j \in {n + 1} |-> {Len(str) + 1}]
  <2>1. f[n + 1] = {Len(str) + 1}
    BY <1>1
  <2> HIDE DEF f
  <2>2. \A j \in n + 1 - 0..n + 1 : f[j] = Body(f, j)
    <3>1. \A j \in n + 1 - 0..n + 1 : j = n + 1
      BY <1>1
    <3>2. f[n + 1] = Body(f, n + 1)
      BY <1>3, <2>1
    <3> QED
      BY <3>1, <3>2
  <2> QED
    BY <2>2
<1>5. ASSUME NEW d \in 1..n, d - 1 \in Good PROVE d \in Good
  <2>1. PICK f : \A j \in n + 1 - (d - 1)..n + 1 : f[j] = Body(f, j)
    BY <1>1, <1>5
  <2> DEFINE m == n + 1 - d
             g == [j \in m..n + 1 |-> IF j = m THEN Body(f, m) ELSE f[j]]
  <2>2. m \in 1..n /\ m + 1 = n + 1 - (d - 1)
    BY <1>1
  <2>3. g[m] = Body(f, m) /\ \A j \in m + 1..n + 1 : g[j] = f[j]
    BY <1>1, <2>2
  <2> HIDE DEF g
  <2>4. ASSUME NEW j \in m..n + 1 PROVE g[j] = Body(g, j)
    <3>1. CASE j = m
      <4>1. m + 1 \in m + 1..n + 1
        BY <1>1, <2>2
      <4>2. g[m + 1] = f[m + 1]
        BY <2>3, <4>1
      <4>3. Body(f, m) = Body(g, m)
        BY <1>2, <4>2
      <4> QED
        BY <2>3, <3>1, <4>3
    <3>2. CASE j = n + 1
      <4>1. j \in m + 1..n + 1
        BY <1>1, <2>2, <3>2
      <4>2. g[j] = f[j] /\ f[j] = Body(f, j)
        BY <2>1, <2>2, <2>3, <4>1
      <4> QED
        BY <1>3, <3>2, <4>2
    <3>3. CASE j \in m + 1..n
      <4>1. j \in m + 1..n + 1 /\ j + 1 \in m + 1..n + 1
        BY <1>1, <2>2, <3>3
      <4>2. g[j] = f[j] /\ f[j] = Body(f, j) /\ g[j + 1] = f[j + 1]
        BY <2>1, <2>2, <2>3, <4>1
      <4>3. Body(f, j) = Body(g, j)
        BY <1>2, <4>2
      <4> QED
        BY <4>2, <4>3
    <3> QED
      BY <1>1, <2>2, <3>1, <3>2, <3>3
  <2>5. \E h : \A j \in n + 1 - d..n + 1 : h[j] = Body(h, j)
    BY <2>4
  <2> QED
    BY <2>5
<1> HIDE DEF Good
<1>6. n \in Good
  <2>1. n \in 0..n
    BY <1>1
  <2> QED
    BY <1>1, <1>4, <1>5, <2>1, UpTo
<1>7. PICK f : \A j \in 1..n + 1 : f[j] = Body(f, j)
  <2>1. n + 1 - n = 1
    BY <1>1
  <2> QED
    BY <1>6, <2>1 DEF Good
<1> DEFINE g == [j \in 1..n + 1 |-> f[j]]
<1>8. \A j \in 1..n + 1 : g[j] = f[j]
  OBVIOUS
<1>9. g = [j \in 1..n + 1 |-> g[j]]
  OBVIOUS
<1> HIDE DEF g
<1>10. ASSUME NEW j \in 1..n + 1 PROVE g[j] = Body(g, j)
  <2>1. CASE j = n + 1
    BY <1>3, <1>7, <1>8, <2>1
  <2>2. CASE j \in 1..n
    <3>1. j + 1 \in 1..n + 1
      BY <1>1, <2>2
    <3>2. Body(f, j) = Body(g, j)
      BY <1>2, <1>8, <3>1
    <3> QED
      BY <1>7, <1>8, <3>2
  <2> QED
    BY <1>1, <2>1, <2>2
<1>11. g = [j \in 1..n + 1 |-> Body(g, j)]
  BY <1>9, <1>10
<1>12. StandsFor(g, str, wild, cs)
  BY <1>11 DEF StandsFor, Body
<1> QED
  BY <1>12

(* A mask can stand for a name when 1 is a position of the whole mask.     *)
LEMMA GlobIs ==
    ASSUME NEW str, NEW wild, NEW cs, NameAndMask(str, wild)
    PROVE  \E f : StandsFor(f, str, wild, cs) /\ (Glob(str, wild, cs) <=> 1 \in f[1])
<1> DEFINE for == CHOOSE f : StandsFor(f, str, wild, cs)
<1>1. StandsFor(for, str, wild, cs)
  BY StandsForExists, Zenon
<1>2. Glob(str, wild, cs) <=> 1 \in for[1]
  BY DEF Glob, StandsFor
<1> QED
  BY <1>1, <1>2

(* At the end of the name what is left of the mask can only be stars.      *)
LEMMA EndOfName ==
    ASSUME NEW f, NEW str, NEW wild, NEW cs, NameAndMask(str, wild), StandsFor(f, str, wild, cs),
           NEW w \in 1..Len(wild) + 1
    PROVE  Len(str) + 1 \in f[w] <=> OnlyStars(wild, w)
<1> DEFINE n == Len(wild)
           Good == {d \in Nat : d <= n => (Len(str) + 1 \in f[n + 1 - d] <=> OnlyStars(wild, n + 1 - d))}
<1>1. n \in Nat /\ Len(str) \in Nat
  BY DEF NameAndMask
<1>2. 0 \in Good
  <2>1. \A j \in n + 1..n : FALSE
    BY <1>1
  <2>2. n + 1 - 0 = n + 1
    BY <1>1
  <2>3. OnlyStars(wild, n + 1)
    BY <2>1 DEF OnlyStars
  <2>4. Len(str) + 1 \in f[n + 1]
    BY StandsForStep
  <2> QED
    BY <2>2, <2>3, <2>4
<1>3. ASSUME NEW d \in 1..n, d - 1 \in Good PROVE d \in Good
  <2>1. PICK j : j = n + 1 - d
    OBVIOUS
  <2>2. j \in 1..n /\ n + 1 - (d - 1) = j + 1
    BY <1>1, <2>1
  <2>3. Len(str) + 1 \in f[j + 1] <=> OnlyStars(wild, j + 1)
    BY <1>1, <1>3, <2>2
  <2>4. f[j + 1] \subseteq 1..Len(str) + 1
    <3>1. j + 1 \in 1..n + 1
      BY <1>1, <2>2
    <3> QED
      BY <3>1, Positions
  <2>5. OnlyStars(wild, j) <=> wild[j] = "*" /\ OnlyStars(wild, j + 1)
    <3>1. \A k : k \in j..n <=> k = j \/ k \in j + 1..n
      BY <1>1, <2>2
    <3> QED
      BY <3>1 DEF OnlyStars
  <2>6. Len(str) + 1 \in f[j] <=> OnlyStars(wild, j)
    <3>1. CASE wild[j] = "*"
      <4>1. Len(str) + 1 \in f[j] <=> \E k \in f[j + 1] : Len(str) + 1 <= k
        BY <1>1, <2>2, <3>1, AtStar
      <4>2. (\E k \in f[j + 1] : Len(str) + 1 <= k) <=> Len(str) + 1 \in f[j + 1]
        BY <1>1, <2>4
      <4> QED
        BY <2>3, <2>5, <3>1, <4>1, <4>2
    <3>2. CASE wild[j] # "*"
      <4>1. Len(str) + 1 \notin f[j]
        BY <1>1, <2>2, <3>2, AtCharacter
      <4> QED
        BY <2>5, <3>2, <4>1
    <3> QED
      BY <3>1, <3>2
  <2> QED
    BY <2>1, <2>6
<1> HIDE DEF Good
<1>4. 0..n \subseteq Good
  BY <1>1, <1>2, <1>3, UpTo
<1>5. n + 1 - w \in 0..n /\ n + 1 - (n + 1 - w) = w
  BY <1>1
<1>6. n + 1 - w \in Good
  BY <1>4, <1>5
<1> QED
  BY <1>1, <1>5, <1>6 DEF Good

(* The condition on which both loops of wildcmp go on.                     *)
Goes(str, wild, s, w, cs, j) ==
    At(str, s + j) # NUL /\ At(wild, w + j) # "*" /\ Agree(At(wild, w + j), str[s + j], cs)

(* NUL agrees with no character.                                           *)
LEMMA NoneAgree ==
    ASSUME NEW c, NEW cs, Agree(NUL, c, cs)
    PROVE  c = NUL
<1>1. NUL # "?" /\ NUL \notin DOMAIN LowerCase /\ \A x \in DOMAIN LowerCase : LowerCase[x] # NUL
  BY DEF NUL, LowerCase
<1>2. CASE cs
  BY <1>1, <1>2 DEF Agree
<1>3. CASE ~cs
  <2>1. tolower(NUL) = NUL /\ tolower(c) = NUL
    BY <1>1, <1>3 DEF Agree, tolower
  <2> QED
    BY <1>1, <2>1 DEF tolower
<1> QED
  BY <1>2, <1>3

(* Where the loops go on, both sequences have a character.                 *)
LEMMA GoesOn ==
    ASSUME NEW str, NEW wild, NEW cs, NameAndMask(str, wild), NEW s \in Nat, NEW w \in Nat, NEW j \in Nat,
           Goes(str, wild, s, w, cs, j)
    PROVE  s + j <= Len(str) /\ w + j <= Len(wild) /\ wild[w + j] # "*" /\ Agree(wild[w + j], str[s + j], cs)
<1>1. Len(str) \in Nat /\ Len(wild) \in Nat
  BY DEF NameAndMask
<1>2. s + j <= Len(str) /\ str[s + j] # NUL
  BY <1>1 DEF Goes, At
<1>3. w + j <= Len(wild)
  <2>1. SUFFICES ASSUME ~(w + j <= Len(wild)) PROVE FALSE
    OBVIOUS
  <2>2. At(wild, w + j) = NUL
    BY <2>1 DEF At
  <2>3. Agree(NUL, str[s + j], cs)
    BY <2>2 DEF Goes
  <2> QED
    BY <1>2, <2>3, NoneAgree
<1>4. At(wild, w + j) = wild[w + j]
  BY <1>3 DEF At
<1> QED
  BY <1>2, <1>3, <1>4 DEF Goes

(* The inner loop of wildcmp stops, and where: it is the first place at    *)
(* which it does not go on.                                                *)
LEMMA AgreeingStops ==
    ASSUME NEW str, NEW wild, NEW cs, NameAndMask(str, wild), NEW s \in 1..Len(str) + 1, NEW w \in 1..Len(wild) + 1
    PROVE  LET n == Agreeing(str, wild, s, w, cs)
           IN /\ n \in 0..Len(str)
              /\ ~Goes(str, wild, s, w, cs, n)
              /\ \A j \in 0..n - 1 : Goes(str, wild, s, w, cs, j)
<1>1. Len(str) \in Nat /\ Len(wild) \in Nat
  BY DEF NameAndMask
<1> DEFINE Stops == {n \in Nat : ~Goes(str, wild, s, w, cs, n)}
<1>2. Len(str) \in Stops
  <2>1. ~(s + Len(str) <= Len(str))
    BY <1>1
  <2> QED
    BY <1>1, <2>1, GoesOn
<1>3. PICK n \in Stops : \A k \in Stops : n <= k
  BY <1>2, LeastNatural
<1>4. \E x \in 0..Len(str) : /\ ~Goes(str, wild, s, w, cs, x)
                             /\ \A j \in 0..x - 1 : Goes(str, wild, s, w, cs, j)
  <2>1. n \in 0..Len(str)
    BY <1>1, <1>2, <1>3
  <2>2. ASSUME NEW j \in 0..n - 1 PROVE Goes(str, wild, s, w, cs, j)
    <3>1. j \in Nat /\ ~(n <= j)
      BY <1>3
    <3> QED
      BY <1>3, <3>1
  <2> QED
    BY <1>3, <2>1, <2>2
<1> QED
  BY <1>4 DEF Agreeing, Goes

(* What is before the place where the inner loop stops matches exactly     *)
(* when what is after it does, and at any other position of the name only  *)
(* if that does.                                                           *)
LEMMA Through ==
    ASSUME NEW f, NEW str, NEW wild, NEW cs, NameAndMask(str, wild), StandsFor(f, str, wild, cs),
           NEW s \in 1..Len(str) + 1, NEW w \in 1..Len(wild) + 1, NEW n \in Nat,
           \A j \in 0..n - 1 : Goes(str, wild, s, w, cs, j)
    PROVE  /\ s + n \in 1..Len(str) + 1 /\ w + n \in 1..Len(wild) + 1
           /\ s \in f[w] <=> s + n \in f[w + n]
           /\ \A k \in f[w] : k + n \in f[w + n]
<1>1. Len(str) \in Nat /\ Len(wild) \in Nat
  BY DEF NameAndMask
<1> DEFINE Good == {m \in Nat : m <= n =>
                       /\ s + m \in 1..Len(str) + 1 /\ w + m \in 1..Len(wild) + 1
                       /\ s \in f[w] <=> s + m \in f[w + m]
                       /\ \A k \in f[w] : k + m \in f[w + m]}
<1>2. f[w] \subseteq 1..Len(str) + 1
  BY Positions
<1>3. 0 \in Good
  <2>1. s + 0 = s /\ w + 0 = w /\ \A k \in f[w] : k + 0 = k
    BY <1>1, <1>2
  <2> QED
    BY <2>1
<1>4. ASSUME NEW m \in 1..n, m - 1 \in Good PROVE m \in Good
  <2>1. PICK l, u, v : l = m - 1 /\ u = s + l /\ v = w + l
    OBVIOUS
  <2>2. l \in 0..n - 1 /\ u \in 1..Len(str) + 1 /\ v \in 1..Len(wild) + 1 /\ (s \in f[w] <=> u \in f[v])
        /\ \A k \in f[w] : k + l \in f[v]
    BY <1>4, <2>1
  <2>3. u <= Len(str) /\ v <= Len(wild) /\ wild[v] # "*" /\ Agree(wild[v], str[u], cs)
    <3>1. l \in Nat /\ s \in Nat /\ w \in Nat /\ Goes(str, wild, s, w, cs, l)
      BY <1>1, <2>2
    <3>2. /\ s + l <= Len(str) /\ w + l <= Len(wild) /\ wild[w + l] # "*"
          /\ Agree(wild[w + l], str[s + l], cs)
      BY <3>1, GoesOn
    <3> QED
      BY <2>1, <3>2
  <2>4. v \in 1..Len(wild) /\ u \in 1..Len(str)
    BY <1>1, <2>2, <2>3
  <2>5. \A x : x \in f[v] <=> x \in 1..Len(str) /\ x + 1 \in f[v + 1] /\ Agree(wild[v], str[x], cs)
    BY <2>3, <2>4, AtCharacter
  <2>6. s + m = u + 1 /\ w + m = v + 1 /\ \A k \in f[w] : k + m = k + l + 1
    BY <1>1, <1>2, <2>1, <2>2, SMTT(30)
  <2>7. s \in f[w] <=> s + m \in f[w + m]
    BY <2>2, <2>3, <2>4, <2>5, <2>6
  <2>8. \A k \in f[w] : k + m \in f[w + m]
    BY <2>2, <2>5, <2>6
  <2>9. s + m \in 1..Len(str) + 1 /\ w + m \in 1..Len(wild) + 1
    BY <1>1, <2>4, <2>6
  <2> QED
    BY <2>7, <2>8, <2>9
<1> HIDE DEF Good
<1>5. n \in Good
  <2>1. n \in 0..n
    OBVIOUS
  <2> QED
    BY <1>3, <1>4, <2>1, UpTo
<1> QED
  BY <1>5 DEF Good

(* From w the mask can stand for what the name has from some position not  *)
(* before s.                                                               *)
Later(f, s, w) == \E k \in f[w] : k >= s

(* What one comparison of the second loop finds out.                       *)
Compared(f, str, wild, s, w, n) ==
    /\ n \in Nat /\ s + n \in 1..Len(str) + 1 /\ w + n \in 1..Len(wild) + 1
    /\ At(str, s + n) = NUL =>
          /\ s \in f[w] <=> OnlyStars(wild, w + n)
          /\ Later(f, s, w) <=> s \in f[w]
    /\ (At(str, s + n) # NUL /\ At(wild, w + n) = "*") =>
          /\ w + n \in 1..Len(wild)
          /\ s \in f[w] <=> (w + n = Len(wild) \/ Later(f, s + n, w + n + 1))
          /\ Later(f, s, w) <=> s \in f[w]
    /\ (At(str, s + n) # NUL /\ At(wild, w + n) # "*") =>
          /\ s \notin f[w] /\ s \in 1..Len(str)
          /\ Later(f, s, w) <=> Later(f, s + 1, w)

(* The inner loop of wildcmp is right about where it stops.                *)
LEMMA Comparison ==
    ASSUME NEW f, NEW str, NEW wild, NEW cs, NameAndMask(str, wild), StandsFor(f, str, wild, cs),
           NEW s \in 1..Len(str) + 1, NEW w \in 1..Len(wild) + 1, NEW n, n = Agreeing(str, wild, s, w, cs)
    PROVE  Compared(f, str, wild, s, w, n)
<1>1. Len(str) \in Nat /\ Len(wild) \in Nat
  BY DEF NameAndMask
<1>2. n \in 0..Len(str) /\ ~Goes(str, wild, s, w, cs, n) /\ \A j \in 0..n - 1 : Goes(str, wild, s, w, cs, j)
  BY AgreeingStops
<1>3. n \in Nat
  BY <1>1, <1>2
<1>4. PICK u, v : u = s + n /\ v = w + n
  OBVIOUS
<1>5. /\ u \in 1..Len(str) + 1 /\ v \in 1..Len(wild) + 1
      /\ s \in f[w] <=> u \in f[v]
      /\ \A k \in f[w] : k + n \in f[v]
  BY <1>2, <1>3, <1>4, Through, SMTT(30)
<1>6. f[w] \subseteq 1..Len(str) + 1 /\ f[v] \subseteq 1..Len(str) + 1
  BY <1>5, Positions
<1>7. ASSUME At(str, u) = NUL
      PROVE  (s \in f[w] <=> OnlyStars(wild, v)) /\ (Later(f, s, w) <=> s \in f[w])
  <2>1. u = Len(str) + 1
    BY <1>1, <1>5, <1>7 DEF At, NameAndMask
  <2>2. s \in f[w] <=> OnlyStars(wild, v)
    BY <1>5, <2>1, EndOfName
  <2>3. ASSUME NEW k \in f[w], k >= s PROVE k = s
    <3>1. k + n \in 1..Len(str) + 1 /\ k \in Nat
      BY <1>5, <1>6
    <3> QED
      BY <1>1, <1>3, <1>4, <2>1, <2>3, <3>1
  <2>4. s >= s
    BY <1>1
  <2> QED
    BY <2>2, <2>3, <2>4 DEF Later
<1>8. ASSUME At(str, u) # NUL, At(wild, v) = "*"
      PROVE  /\ v \in 1..Len(wild)
             /\ s \in f[w] <=> (v = Len(wild) \/ Later(f, u, v + 1))
             /\ Later(f, s, w) <=> s \in f[w]
  <2>1. v \in 1..Len(wild) /\ wild[v] = "*"
    BY <1>1, <1>5, <1>8 DEF At, NUL
  <2>2. \A x \in 1..Len(str) + 1 : x \in f[v] <=> \E k \in f[v + 1] : x <= k
    BY <2>1, AtStar
  <2>3. f[v + 1] \subseteq 1..Len(str) + 1
    <3>1. v + 1 \in 1..Len(wild) + 1
      BY <1>1, <2>1
    <3> QED
      BY <3>1, Positions
  <2>4. u \in f[v] <=> Later(f, u, v + 1)
    <3>1. \A k \in f[v + 1] : u <= k <=> k >= u
      BY <1>1, <1>5, <2>3
    <3> QED
      BY <1>5, <2>2, <3>1 DEF Later
  <2>5. v = Len(wild) => Later(f, u, v + 1)
    <3>1. f[Len(wild) + 1] = {Len(str) + 1} /\ Len(str) + 1 >= u
      BY <1>1, <1>5, StandsForStep
    <3> QED
      BY <3>1 DEF Later
  <2>6. ASSUME NEW k \in f[w], k >= s PROVE s \in f[w]
    <3>1. k + n \in f[v] /\ k \in Nat /\ k + n >= u
      BY <1>1, <1>3, <1>4, <1>5, <1>6, <2>6, SMTT(30)
    <3>2. PICK x \in f[v + 1] : k + n <= x
      BY <1>6, <2>2, <3>1
    <3>3. u <= x
      BY <1>1, <1>3, <1>5, <2>3, <3>1, <3>2
    <3> QED
      BY <1>5, <2>2, <3>3
  <2>7. s >= s
    BY <1>1
  <2> QED
    BY <1>5, <2>1, <2>4, <2>5, <2>6, <2>7 DEF Later
<1>9. ASSUME At(str, u) # NUL, At(wild, v) # "*"
      PROVE  s \notin f[w] /\ s \in 1..Len(str) /\ (Later(f, s, w) <=> Later(f, s + 1, w))
  <2>1. u \in 1..Len(str)
    BY <1>1, <1>5, <1>9 DEF At
  <2>2. s \in 1..Len(str)
    BY <1>1, <1>3, <1>4, <2>1
  <2>3. ~Agree(At(wild, v), str[u], cs)
    BY <1>2, <1>4, <1>9 DEF Goes
  <2>4. u \notin f[v]
    <3>1. CASE v = Len(wild) + 1
      <4>1. f[v] = {Len(str) + 1}
        BY <3>1, StandsForStep
      <4> QED
        BY <1>1, <2>1, <4>1
    <3>2. CASE v \in 1..Len(wild)
      <4>1. At(wild, v) = wild[v]
        BY <1>1, <3>2 DEF At
      <4> QED
        BY <1>9, <2>3, <3>2, <4>1, AtCharacter
    <3> QED
      BY <1>1, <1>5, <3>1, <3>2
  <2>5. s \notin f[w]
    BY <1>5, <2>4
  <2>6. \A k \in f[w] : k >= s <=> k >= s + 1
    BY <1>1, <1>6, <2>2, <2>5
  <2> QED
    BY <2>2, <2>5, <2>6 DEF Later
<1> QED
  BY <1>3, <1>4, <1>5, <1>7, <1>8, <1>9 DEF Compared

(* scan of wildcmp.                                                        *)
Scans(scan, str, wild, cs) ==
    scan = [at \in (1..Len(str) + 1) \X (1..Len(wild) + 1) |->
               LET s == at[1]
                   w == at[2]
                   m == Agreeing(str, wild, s, w, cs)
               IN IF At(str, s + m) = NUL THEN OnlyStars(wild, w + m)
                  ELSE IF At(wild, w + m) = "*" THEN w + m = Len(wild) \/ scan[<<s + m, w + m + 1>>]
                  ELSE scan[<<s + 1, w>>]]

(* The same for one position of the name and of the mask.                  *)
OneScan(scan, str, wild, cs, s, w, m) ==
    IF At(str, s + m) = NUL THEN OnlyStars(wild, w + m)
    ELSE IF At(wild, w + m) = "*" THEN w + m = Len(wild) \/ scan[<<s + m, w + m + 1>>]
    ELSE scan[<<s + 1, w>>]

(* One unfolding of scan.                                                  *)
LEMMA ScansStep ==
    ASSUME NEW scan, NEW str, NEW wild, NEW cs, NameAndMask(str, wild), Scans(scan, str, wild, cs),
           NEW s \in 1..Len(str) + 1, NEW w \in 1..Len(wild) + 1
    PROVE  scan[<<s, w>>] = OneScan(scan, str, wild, cs, s, w, Agreeing(str, wild, s, w, cs))
<1>1. <<s, w>> \in (1..Len(str) + 1) \X (1..Len(wild) + 1) /\ <<s, w>>[1] = s /\ <<s, w>>[2] = w
  OBVIOUS
<1> QED
  BY <1>1 DEF Scans, OneScan

(* There is a function that scan can be: the one that says whether the     *)
(* mask from w matches the name from s or from a later position.           *)
LEMMA ScansExists ==
    ASSUME NEW f, NEW str, NEW wild, NEW cs, NameAndMask(str, wild), StandsFor(f, str, wild, cs)
    PROVE  \E scan : Scans(scan, str, wild, cs)
<1> DEFINE D == (1..Len(str) + 1) \X (1..Len(wild) + 1)
           g == [at \in D |-> Later(f, at[1], at[2])]
<1>1. \A s \in 1..Len(str) + 1, w \in 1..Len(wild) + 1 : g[<<s, w>>] = Later(f, s, w)
  OBVIOUS
<1>2. g = [at \in D |-> g[at]] /\ \A at \in D : g[at] \in BOOLEAN
  BY DEF Later
<1>3. Len(str) \in Nat /\ Len(wild) \in Nat
  BY DEF NameAndMask
<1> HIDE DEF g
<1>4. ASSUME NEW s \in 1..Len(str) + 1, NEW w \in 1..Len(wild) + 1
      PROVE  g[<<s, w>>] = OneScan(g, str, wild, cs, s, w, Agreeing(str, wild, s, w, cs))
  <2>1. PICK n : n = Agreeing(str, wild, s, w, cs)
    OBVIOUS
  <2>2. Compared(f, str, wild, s, w, n)
    BY <2>1, Comparison
  <2>3. n \in Nat /\ s + n \in 1..Len(str) + 1 /\ w + n \in 1..Len(wild) + 1
    BY <2>2 DEF Compared
  <2>4. g[<<s, w>>] = Later(f, s, w)
    BY <1>1
  <2>5. CASE At(str, s + n) = NUL
    <3>1. Later(f, s, w) <=> OnlyStars(wild, w + n)
      BY <2>2, <2>5 DEF Compared
    <3> QED
      BY <2>1, <2>4, <2>5, <3>1 DEF OneScan, OnlyStars, Later
  <2>6. CASE At(str, s + n) # NUL /\ At(wild, w + n) = "*"
    <3>1. w + n \in 1..Len(wild) /\ (Later(f, s, w) <=> (w + n = Len(wild) \/ Later(f, s + n, w + n + 1)))
      BY <2>2, <2>6 DEF Compared
    <3>2. w + n + 1 \in 1..Len(wild) + 1
      BY <1>3, <3>1
    <3>3. g[<<s + n, w + n + 1>>] = Later(f, s + n, w + n + 1)
      BY <1>1, <2>3, <3>2
    <3> QED
      BY <2>1, <2>4, <2>6, <3>1, <3>3 DEF OneScan, Later
  <2>7. CASE At(str, s + n) # NUL /\ At(wild, w + n) # "*"
    <3>1. s \in 1..Len(str) /\ (Later(f, s, w) <=> Later(f, s + 1, w))
      BY <2>2, <2>7 DEF Compared
    <3>2. s + 1 \in 1..Len(str) + 1
      BY <1>3, <3>1
    <3>3. g[<<s + 1, w>>] = Later(f, s + 1, w)
      BY <1>1, <3>2
    <3> QED
      BY <2>1, <2>4, <2>7, <3>1, <3>3 DEF OneScan, Later
  <2> QED
    BY <2>5, <2>6, <2>7
<1>5. \A at \in D : at = <<at[1], at[2]>> /\ at[1] \in 1..Len(str) + 1 /\ at[2] \in 1..Len(wild) + 1
  OBVIOUS
<1>6. \A at \in D : g[at] = OneScan(g, str, wild, cs, at[1], at[2], Agreeing(str, wild, at[1], at[2], cs))
  BY <1>4, <1>5
<1>7. Scans(g, str, wild, cs)
  BY <1>2, <1>6 DEF Scans, OneScan
<1> QED
  BY <1>7

(* It is the only one: scan has no other values.                           *)
LEMMA ScansIs ==
    ASSUME NEW f, NEW scan, NEW str, NEW wild, NEW cs, NameAndMask(str, wild), StandsFor(f, str, wild, cs),
           Scans(scan, str, wild, cs)
    PROVE  \A s \in 1..Len(str) + 1, w \in 1..Len(wild) + 1 : scan[<<s, w>>] = Later(f, s, w)
<1>1. PICK n, l : n = Len(wild) /\ l = Len(str) /\ n \in Nat /\ l \in Nat
  BY DEF NameAndMask
<1> DEFINE Wrong(s, w) == s \in 1..l + 1 /\ w \in 1..n + 1 /\ scan[<<s, w>>] # Later(f, s, w)
           Ws == {d \in Nat : d <= n /\ \E s : Wrong(s, n + 1 - d)}
<1>2. SUFFICES ASSUME NEW s0, NEW w0, Wrong(s0, w0) PROVE FALSE
  BY <1>1
<1> HIDE DEF Wrong
<1>3. \A s, w : Wrong(s, w) => s \in 1..l + 1 /\ w \in 1..n + 1
  BY DEF Wrong
<1>4. n + 1 - w0 \in Ws
  <2>1. n + 1 - w0 \in Nat /\ n + 1 - w0 <= n /\ n + 1 - (n + 1 - w0) = w0
    BY <1>1, <1>2, <1>3
  <2> QED
    BY <1>2, <2>1
<1>5. PICK d \in Ws : \A e \in Ws : d <= e
  BY <1>4, LeastNatural
<1>6. PICK w : w = n + 1 - d /\ w \in 1..n + 1
  BY <1>1, <1>5
<1>7. \A s, v : Wrong(s, v) => v <= w
  <2> SUFFICES ASSUME NEW s, NEW v, Wrong(s, v) PROVE v <= w
    OBVIOUS
  <2>1. v \in 1..n + 1 /\ n + 1 - v \in Nat /\ n + 1 - v <= n /\ n + 1 - (n + 1 - v) = v
    BY <1>1, <1>3, SMTT(30)
  <2>2. d <= n + 1 - v
    BY <1>5, <2>1
  <2> QED
    BY <1>1, <1>5, <1>6, <2>1, <2>2
<1> DEFINE Ss == {d1 \in Nat : d1 <= l /\ Wrong(l + 1 - d1, w)}
<1>8. PICK s1 : Wrong(s1, w)
  BY <1>5, <1>6
<1>9. l + 1 - s1 \in Ss
  <2>1. l + 1 - s1 \in Nat /\ l + 1 - s1 <= l /\ l + 1 - (l + 1 - s1) = s1
    BY <1>1, <1>3, <1>8, SMTT(30)
  <2> QED
    BY <1>8, <2>1
<1>10. PICK c \in Ss : \A e \in Ss : c <= e
  BY <1>9, LeastNatural
<1>11. PICK s : s = l + 1 - c /\ s \in 1..l + 1 /\ Wrong(s, w)
  BY <1>1, <1>10
<1>12. \A t : Wrong(t, w) => t <= s
  <2> SUFFICES ASSUME NEW t, Wrong(t, w) PROVE t <= s
    OBVIOUS
  <2>1. t \in 1..l + 1
    BY <1>3
  <2>2. t \in 1..l + 1 /\ l + 1 - t \in Nat /\ l + 1 - t <= l /\ l + 1 - (l + 1 - t) = t
    BY <1>1, <2>1
  <2>3. c <= l + 1 - t
    BY <1>10, <2>2
  <2> QED
    BY <1>1, <1>10, <1>11, <2>2, <2>3
<1>13. PICK m : m = Agreeing(str, wild, s, w, cs)
  OBVIOUS
<1>14. scan[<<s, w>>] = OneScan(scan, str, wild, cs, s, w, m) /\ scan[<<s, w>>] # Later(f, s, w)
  BY <1>1, <1>6, <1>11, <1>13, ScansStep DEF Wrong
<1>15. Compared(f, str, wild, s, w, m)
  BY <1>1, <1>6, <1>11, <1>13, Comparison
<1>16. m \in Nat /\ s + m \in 1..l + 1 /\ w + m \in 1..n + 1
  BY <1>1, <1>15 DEF Compared
<1>17. CASE At(str, s + m) = NUL
  <2>1. Later(f, s, w) <=> OnlyStars(wild, w + m)
    BY <1>1, <1>17, <1>15 DEF Compared
  <2> QED
    BY <1>14, <1>17, <2>1 DEF OneScan, OnlyStars, Later
<1>18. CASE At(str, s + m) # NUL /\ At(wild, w + m) = "*"
  <2>1. w + m \in 1..n /\ (Later(f, s, w) <=> (w + m = n \/ Later(f, s + m, w + m + 1)))
    BY <1>1, <1>18, <1>15 DEF Compared
  <2>2. w + m + 1 \in 1..n + 1 /\ ~(w + m + 1 <= w)
    BY <1>1, <1>6, <1>16, <2>1
  <2>3. scan[<<s + m, w + m + 1>>] = Later(f, s + m, w + m + 1)
    BY <1>7, <1>16, <2>2 DEF Wrong
  <2> QED
    BY <1>1, <1>14, <1>18, <2>1, <2>3 DEF OneScan, Later
<1>19. CASE At(str, s + m) # NUL /\ At(wild, w + m) # "*"
  <2>1. s \in 1..l /\ (Later(f, s, w) <=> Later(f, s + 1, w))
    BY <1>1, <1>19, <1>15 DEF Compared
  <2>2. s + 1 \in 1..l + 1 /\ ~(s + 1 <= s)
    BY <1>1, <2>1
  <2>3. scan[<<s + 1, w>>] = Later(f, s + 1, w)
    BY <1>6, <1>12, <2>2 DEF Wrong
  <2> QED
    BY <1>14, <1>19, <2>1, <2>3 DEF OneScan, Later
<1> QED
  BY <1>17, <1>18, <1>19

(* wildcmp with its backtracking accepts exactly the names that the mask   *)
(* can stand for.                                                          *)
THEOREM MasksAreRight ==
    ASSUME NEW str, NEW wild, NEW cs, NameAndMask(str, wild)
    PROVE  wildcmp(str, wild, cs) <=> Glob(str, wild, cs)
<1>1. Len(str) \in Nat /\ Len(wild) \in Nat /\ 1 \in 1..Len(str) + 1 /\ 1 \in 1..Len(wild) + 1
  BY DEF NameAndMask
<1>2. PICK f : StandsFor(f, str, wild, cs) /\ (Glob(str, wild, cs) <=> 1 \in f[1])
  BY GlobIs
<1> DEFINE scan == CHOOSE g : Scans(g, str, wild, cs)
<1>3. Scans(scan, str, wild, cs)
  BY <1>2, ScansExists, Zenon
<1>4. PICK n : n = Agreeing(str, wild, 1, 1, cs)
  OBVIOUS
<1>5. wildcmp(str, wild, cs) <=>
          IF At(str, 1 + n) = NUL THEN OnlyStars(wild, 1 + n)
          ELSE At(wild, 1 + n) = "*" /\ (1 + n = Len(wild) \/ scan[<<1 + n, 1 + n + 1>>])
  BY <1>4 DEF wildcmp, Scans
<1> HIDE DEF scan
<1>6. Compared(f, str, wild, 1, 1, n)
  BY <1>1, <1>2, <1>4, Comparison
<1>7. n \in Nat /\ 1 + n \in 1..Len(str) + 1 /\ 1 + n \in 1..Len(wild) + 1
  BY <1>6 DEF Compared
<1>8. CASE At(str, 1 + n) = NUL
  <2>1. 1 \in f[1] <=> OnlyStars(wild, 1 + n)
    BY <1>8, <1>6 DEF Compared
  <2> QED
    BY <1>2, <1>5, <1>8, <2>1
<1>9. CASE At(str, 1 + n) # NUL /\ At(wild, 1 + n) = "*"
  <2>1. 1 + n \in 1..Len(wild) /\ (1 \in f[1] <=> (1 + n = Len(wild) \/ Later(f, 1 + n, 1 + n + 1)))
    BY <1>9, <1>6 DEF Compared
  <2>2. 1 + n + 1 \in 1..Len(wild) + 1
    BY <1>1, <2>1
  <2>3. scan[<<1 + n, 1 + n + 1>>] = Later(f, 1 + n, 1 + n + 1)
    BY <1>2, <1>3, <1>7, <2>2, ScansIs
  <2> QED
    BY <1>2, <1>5, <1>9, <2>1, <2>3
<1>10. CASE At(str, 1 + n) # NUL /\ At(wild, 1 + n) # "*"
  <2>1. 1 \notin f[1]
    BY <1>10, <1>6 DEF Compared
  <2> QED
    BY <1>2, <1>5, <1>10, <2>1
<1> QED
  BY <1>8, <1>9, <1>10

-----------------------------------------------------------------------------
(* Which test cases are run.                                               *)

(* The characters of a string are not its terminator.                      *)
LEMMA StringIs ==
    ASSUME NEW s, IsString(s)
    PROVE  Len(s) \in Nat /\ \A k \in 1..Len(s) : s[k] # NUL
<1>1. Len(s) \in Nat /\ DOMAIN s = 1..Len(s)
  BY LenProperties DEF IsString
<1>2. \A k \in DOMAIN s : s[k] \in ToSet(s)
  BY DEF ToSet
<1> QED
  BY <1>1, <1>2 DEF IsString

(* matchesAny is right: a list of masks selects what one of them can stand *)
(* for, and with matchEmpty an empty one selects everything.               *)
LEMMA ListsAreRight ==
    ASSUME NEW name, NEW filters, NEW empty, NEW cs, IsString(name), \A mask \in ToSet(filters) : IsString(mask)
    PROVE  matchesAny(name, filters, empty, cs) <=> (filters = <<>> /\ empty) \/ Selects(filters, name, cs)
<1>1. ASSUME NEW k \in DOMAIN filters PROVE wildcmp(name, filters[k], cs) <=> Glob(name, filters[k], cs)
  <2>1. IsString(filters[k])
    BY DEF ToSet
  <2>2. NameAndMask(name, filters[k])
    BY <2>1, StringIs DEF NameAndMask
  <2> QED
    BY <2>2, MasksAreRight
<1> QED
  BY <1>1 DEF matchesAny, Selects

(* run leaves out a test case exactly when the masks or its decorators do. *)
LEMMA ExcludedIs ==
    ASSUME AreOptions(p), NEW t, IsTest(t)
    PROVE  Excluded(t) <=> ~Wanted(t)
<1>1. \A k \in 0..8 : \A mask \in ToSet(Filter(k)) : IsString(mask)
  <2> SUFFICES ASSUME NEW k \in 0..8 PROVE \A mask \in ToSet(p.filters[k + 1]) : IsString(mask)
    BY DEF Filter
  <2>1. k + 1 \in 1..9
    OBVIOUS
  <2> QED
    BY <2>1 DEF AreOptions
<1>2. IsString(t.file) /\ IsString(t.suite) /\ IsString(t.name)
  BY DEF IsTest
<1>3. \A k \in 0..8, name \in {t.file, t.suite, t.name} :
          /\ matchesAny(name, Filter(k), TRUE, p.case_sensitive)
                 <=> Filter(k) = <<>> \/ Selects(Filter(k), name, p.case_sensitive)
          /\ matchesAny(name, Filter(k), FALSE, p.case_sensitive) <=> Selects(Filter(k), name, p.case_sensitive)
  BY <1>1, <1>2, ListsAreRight
<1>4. /\ 0 \in 0..8 /\ 1 \in 0..8 /\ 2 \in 0..8 /\ 3 \in 0..8 /\ 4 \in 0..8 /\ 5 \in 0..8
  OBVIOUS
<1>5. /\ matchesAny(t.file, Filter(0), TRUE, p.case_sensitive)
             <=> Filter(0) = <<>> \/ Selects(Filter(0), t.file, p.case_sensitive)
      /\ matchesAny(t.suite, Filter(2), TRUE, p.case_sensitive)
             <=> Filter(2) = <<>> \/ Selects(Filter(2), t.suite, p.case_sensitive)
      /\ matchesAny(t.name, Filter(4), TRUE, p.case_sensitive)
             <=> Filter(4) = <<>> \/ Selects(Filter(4), t.name, p.case_sensitive)
      /\ matchesAny(t.file, Filter(1), FALSE, p.case_sensitive) <=> Selects(Filter(1), t.file, p.case_sensitive)
      /\ matchesAny(t.suite, Filter(3), FALSE, p.case_sensitive) <=> Selects(Filter(3), t.suite, p.case_sensitive)
      /\ matchesAny(t.name, Filter(5), FALSE, p.case_sensitive) <=> Selects(Filter(5), t.name, p.case_sensitive)
  BY <1>3, <1>4
<1> QED
  BY <1>5, Zenon DEF Excluded, Wanted

(* The tests at some positions of an array.                                *)
Those(a, q) == [j \in DOMAIN q |-> a[q[j]]]

(* The tests at positions and at one more.                                 *)
LEMMA ThoseNext ==
    ASSUME NEW a, Len(a) \in Nat, NEW q \in Seq(1..Len(a)), NEW k \in 1..Len(a)
    PROVE  Those(a, Append(q, k)) = Append(Those(a, q), a[k])
<1> DEFINE E == {a[j] : j \in 1..Len(a)}
<1>1. /\ Append(q, k) \in Seq(1..Len(a)) /\ Len(Append(q, k)) = Len(q) + 1 /\ Append(q, k)[Len(q) + 1] = k
      /\ \A j \in 1..Len(q) : Append(q, k)[j] = q[j]
  BY AppendProperties
<1>2. Len(q) \in Nat /\ DOMAIN q = 1..Len(q) /\ \A j \in 1..Len(q) : q[j] \in 1..Len(a)
  BY LenProperties, ElementOfSeq
<1>3. PICK b : b = Append(q, k)
  OBVIOUS
<1>4. DOMAIN b = 1..Len(q) + 1 /\ \A j \in 1..Len(q) + 1 : b[j] \in 1..Len(a)
  BY <1>1, <1>2, <1>3, LenProperties, ElementOfSeq
<1>5. PICK s, t : s = Those(a, q) /\ t = Those(a, b)
  OBVIOUS
<1>6. s = [j \in 1..Len(q) |-> a[q[j]]] /\ t = [j \in 1..Len(q) + 1 |-> a[b[j]]]
  BY <1>2, <1>4, <1>5 DEF Those
<1>7. \A j \in 1..Len(a) : a[j] \in E
  OBVIOUS
<1> HIDE DEF E
<1>8. s \in Seq(E) /\ Len(s) = Len(q) /\ t \in Seq(E) /\ Len(t) = Len(q) + 1
  <2>1. s \in [1..Len(q) -> E] /\ t \in [1..Len(q) + 1 -> E]
    BY <1>2, <1>4, <1>6, <1>7
  <2>2. s \in Seq(E) /\ t \in Seq(E)
    <3>1. Len(q) + 1 \in Nat
      BY <1>2
    <3>2. \A m \in Nat : \A x \in [1..m -> E] : x \in Seq(E)
      BY SeqDef
    <3> QED
      BY <1>2, <2>1, <3>1, <3>2
  <2>3. DOMAIN s = 1..Len(q) /\ DOMAIN t = 1..Len(q) + 1
    BY <1>6
  <2>4. DOMAIN s = 1..Len(s) /\ Len(s) \in Nat /\ DOMAIN t = 1..Len(t) /\ Len(t) \in Nat
    BY <2>2, LenProperties
  <2> QED
    BY <1>2, <2>2, <2>3, <2>4
<1>9. PICK c : c = Append(s, a[k])
  OBVIOUS
<1>10. c \in Seq(E) /\ Len(c) = Len(q) + 1 /\ c[Len(q) + 1] = a[k] /\ \A j \in 1..Len(q) : c[j] = s[j]
  BY <1>7, <1>8, <1>9, AppendProperties
<1>11. \A j \in 1..Len(q) + 1 : t[j] = c[j]
  <2> SUFFICES ASSUME NEW j \in 1..Len(q) + 1 PROVE t[j] = c[j]
    OBVIOUS
  <2>1. CASE j = Len(q) + 1
    BY <1>1, <1>3, <1>6, <1>10, <2>1
  <2>2. CASE j \in 1..Len(q)
    BY <1>1, <1>3, <1>6, <1>10, <2>2
  <2> QED
    BY <1>2, <2>1, <2>2
<1>12. t = c
  BY <1>8, <1>10, <1>11, SeqEqual
<1> QED
  BY <1>3, <1>5, <1>9, <1>12

(* The positions of the selected test cases.                               *)
SelectedAt == {k \in DOMAIN testArray : Wanted(testArray[k]) /\ InRange(Ordinal(k))}

(* SelectedUpTo selects the tests at the positions that InOrder collects.  *)
LEMMA SelectedIs ==
    \A n : SelectedUpTo(n) = Those(testArray, InOrder(SelectedAt, n))
BY DEF SelectedUpTo, Those, SelectedAt

(* Before the first test case none is counted or selected.                 *)
LEMMA NoneYet ==
    /\ SelectedUpTo(0) = <<>> /\ Ordinal(0) = 0
    /\ SelectedUpTo(0)' = <<>> /\ Ordinal(0)' = 0
<1>1. \A S : InOrder(S, 0) = <<>>
  BY InOrderNone
<1>2. \A a : [j \in DOMAIN <<>> |-> a[<<>>[j]]] = <<>>
  OBVIOUS
<1>3. \A S : {j \in 1..0 : j \in S} = {}
  OBVIOUS
<1>4. Cardinality({}) = 0
  BY FS_EmptySet
<1>5. {j \in 1..0 : Wanted(testArray[j])} = {} /\ {j \in 1..0 : Wanted(testArray[j])'} = {}
  OBVIOUS
<1>6. Ordinal(0) = 0 /\ Ordinal(0)' = 0
  BY <1>4, <1>5 DEF Ordinal
<1> QED
  BY <1>1, <1>2, <1>6 DEF SelectedUpTo

(* The next test case is counted when it is wanted.                        *)
LEMMA OrdinalNext ==
    ASSUME NEW k \in Nat \ {0}
    PROVE  Ordinal(k - 1) \in Nat /\ Ordinal(k) = Ordinal(k - 1) + (IF Wanted(testArray[k]) THEN 1 ELSE 0)
<1> DEFINE S == {j \in Nat : Wanted(testArray[j])}
<1>1. /\ {j \in 1..k : Wanted(testArray[j])} = {j \in 1..k : j \in S}
      /\ {j \in 1..k - 1 : Wanted(testArray[j])} = {j \in 1..k - 1 : j \in S}
      /\ k \in S <=> Wanted(testArray[k])
  OBVIOUS
<1> HIDE DEF S
<1>2. Ordinal(k) = Cardinality({j \in 1..k : j \in S}) /\ Ordinal(k - 1) = Cardinality({j \in 1..k - 1 : j \in S})
  BY <1>1 DEF Ordinal
<1>3. /\ Cardinality({j \in 1..k - 1 : j \in S}) \in Nat
      /\ Cardinality({j \in 1..k : j \in S}) = Cardinality({j \in 1..k - 1 : j \in S}) + One(k \in S)
  BY OneMore
<1> QED
  BY <1>1, <1>2, <1>3 DEF One

(* ... and selected when the range takes its number.                       *)
LEMMA SelectedNext ==
    ASSUME TypeOK, NEW k \in 1..Len(testArray)
    PROVE  SelectedUpTo(k) = IF Wanted(testArray[k]) /\ InRange(Ordinal(k))
                             THEN Append(SelectedUpTo(k - 1), testArray[k]) ELSE SelectedUpTo(k - 1)
<1>1. DOMAIN testArray = 1..Len(testArray) /\ Len(testArray) \in Nat
  BY LenProperties DEF TypeOK
<1>2. k \in Nat \ {0} /\ k - 1 \in Nat
  BY <1>1
<1>3. InOrder(SelectedAt, k) = IF k \in SelectedAt THEN Append(InOrder(SelectedAt, k - 1), k) ELSE InOrder(SelectedAt, k - 1)
  BY <1>2, InOrderNext
<1>4. k \in SelectedAt <=> Wanted(testArray[k]) /\ InRange(Ordinal(k))
  BY <1>1 DEF SelectedAt
<1>5. InOrder(SelectedAt, k - 1) \in Seq(1..Len(testArray))
  <2>1. PICK q : q = InOrder(SelectedAt, k - 1)
    OBVIOUS
  <2> DEFINE E == {j \in 1..k - 1 : j \in SelectedAt}
  <2>2. q \in Seq(E)
    BY <1>2, <2>1, InOrderElements
  <2>3. E \subseteq 1..Len(testArray)
    BY <1>1
  <2> HIDE DEF E
  <2>4. q \in Seq(1..Len(testArray))
    BY <2>2, <2>3, SeqMonotonic
  <2> QED
    BY <2>1, <2>4
<1>6. Those(testArray, Append(InOrder(SelectedAt, k - 1), k))
          = Append(Those(testArray, InOrder(SelectedAt, k - 1)), testArray[k])
  BY <1>1, <1>5, ThoseNext
<1> QED
  BY <1>3, <1>4, <1>6, SelectedIs

(* What is selected up to a test case comes first in what is selected.     *)
LEMMA SelectedFirst ==
    ASSUME TypeOK, NEW n \in 0..Len(testArray)
    PROVE  IsPrefix(SelectedUpTo(n), Selected)
<1>1. DOMAIN testArray = 1..Len(testArray) /\ Len(testArray) \in Nat
  BY LenProperties DEF TypeOK
<1>2. PICK q, r : q = InOrder(SelectedAt, n) /\ r = InOrder(SelectedAt, Len(testArray))
  OBVIOUS
<1>3. Len(q) <= Len(r) /\ Len(q) \in Nat /\ Len(r) \in Nat /\ \A j \in 1..Len(q) : r[j] = q[j]
  BY <1>1, <1>2, InOrderSplit
<1>4. DOMAIN q = 1..Len(q) /\ DOMAIN r = 1..Len(r)
  <2> DEFINE E == {j \in 1..n : j \in SelectedAt}
             F == {j \in 1..Len(testArray) : j \in SelectedAt}
  <2>1. q \in Seq(E) /\ r \in Seq(F)
    BY <1>1, <1>2, InOrderElements
  <2> HIDE DEF E, F
  <2> QED
    BY <2>1, LenProperties
<1>5. PICK s, t : s = SelectedUpTo(n) /\ t = Selected
  OBVIOUS
<1>6. s = [j \in 1..Len(q) |-> testArray[q[j]]] /\ t = [j \in 1..Len(r) |-> testArray[r[j]]]
  BY <1>2, <1>4, <1>5, SelectedIs DEF Selected, Those
<1>7. Len(s) = Len(q) /\ Len(t) = Len(r)
  BY <1>3, <1>6
<1>8. \A j \in 1..Len(s) : s[j] = t[j]
  BY <1>3, <1>6, <1>7
<1>9. SubSeq(s, 1, Len(s)) = SubSeq(t, 1, Len(s))
  <2>1. SubSeq(s, 1, Len(s)) = [j \in 1..Len(s) |-> s[j]] /\ SubSeq(t, 1, Len(s)) = [j \in 1..Len(s) |-> t[j]]
    BY <1>3, <1>7
  <2> QED
    BY <1>8, <2>1
<1> QED
  BY <1>3, <1>5, <1>7, <1>9 DEF IsPrefix

(* Options and tests that stay as they are leave the selection as it is.   *)
LEMMA SelectionStays ==
    ASSUME p' = p, testArray' = testArray
    PROVE  /\ \A k : Ordinal(k)' = Ordinal(k)
           /\ \A k : SelectedUpTo(k)' = SelectedUpTo(k)
           /\ \A t : Wanted(t)' <=> Wanted(t)
           /\ \A n : InRange(n)' <=> InRange(n)
           /\ \A n : EnoughFailed(n)' <=> EnoughFailed(n)
           /\ Selected' = Selected /\ QueryMode' = QueryMode /\ ListsTests' = ListsTests
           /\ NothingToRun' = NothingToRun
<1>1. \A t : Wanted(t)' <=> Wanted(t)
  BY DEF Wanted, Filter
<1>2. \A n : InRange(n)' <=> InRange(n)
  BY DEF InRange
<1>3. \A k : Ordinal(k)' = Ordinal(k)
  <2> SUFFICES ASSUME NEW k PROVE Ordinal(k)' = Ordinal(k)
    OBVIOUS
  <2>1. {j \in 1..k : Wanted(testArray[j])'} = {j \in 1..k : Wanted(testArray[j])}
    BY <1>1 DEF Wanted, Filter
  <2> QED
    BY <2>1 DEF Ordinal
<1>4. SelectedAt' = SelectedAt
  <2>1. \A k : Wanted(testArray[k])' <=> Wanted(testArray[k])
    BY DEF Wanted, Filter
  <2>2. \A k : InRange(Ordinal(k))' <=> InRange(Ordinal(k))
    BY <1>3 DEF InRange
  <2> QED
    BY <2>1, <2>2 DEF SelectedAt
<1>5. \A k : SelectedUpTo(k)' = SelectedUpTo(k)
  <2> SUFFICES ASSUME NEW k PROVE SelectedUpTo(k)' = SelectedUpTo(k)
    OBVIOUS
  <2>1. SelectedUpTo(k) = Those(testArray, InOrder(SelectedAt, k))
    BY DEF SelectedUpTo, Those, SelectedAt
  <2>2. SelectedUpTo(k)' = Those(testArray', InOrder(SelectedAt', k))
    BY DEF SelectedUpTo, Those, SelectedAt
  <2> QED
    BY <1>4, <2>1, <2>2
<1>6. Selected' = Selected
  <2>1. Selected = Those(testArray, InOrder(SelectedAt, Len(testArray)))
    BY DEF Selected, SelectedUpTo, Those, SelectedAt
  <2>2. Selected' = Those(testArray', InOrder(SelectedAt', Len(testArray')))
    BY DEF Selected, SelectedUpTo, Those, SelectedAt
  <2> QED
    BY <1>4, <2>1, <2>2
<1>7. /\ \A n : EnoughFailed(n)' <=> EnoughFailed(n)
      /\ QueryMode' = QueryMode /\ ListsTests' = ListsTests /\ NothingToRun' = NothingToRun
  BY DEF EnoughFailed, QueryMode, ListsTests, NothingToRun
<1> QED
  BY <1>1, <1>2, <1>3, <1>5, <1>6, <1>7

(* SelectedSoFar is kept by a step inside a test case, or before the       *)
(* first, that leaves options, tests, counts and verdicts alone.           *)
LEMMA SelectionFrame ==
    ASSUME SelectedSoFar, p' = p, testArray' = testArray, i' = i, query' = query, hist'.verdicts = hist.verdicts,
           stats'.numTestCasesPassingFilters = stats.numTestCasesPassingFilters,
           \/ InTest /\ InTest' /\ phase # "end" /\ phase' # "end"
           \/ {phase, phase'} \subseteq {"run", "start"}
    PROVE  SelectedSoFar'
<1>1. /\ Ordinal(i)' = Ordinal(i) /\ (Wanted(Test)' <=> Wanted(Test)) /\ (InRange(Ordinal(i))' <=> InRange(Ordinal(i)))
      /\ SelectedUpTo(i - 1)' = SelectedUpTo(i - 1) /\ QueryMode' = QueryMode
  <2>1. Ordinal(i)' = Ordinal(i) /\ SelectedUpTo(i - 1)' = SelectedUpTo(i - 1)
    BY SelectionStays
  <2> QED
    BY <2>1, SelectionStays DEF Test, InRange, Wanted, Filter
<1>2. Ran' = Ran
  BY DEF Ran
<1>3. CASE {phase, phase'} \subseteq {"run", "start"}
  BY <1>3 DEF SelectedSoFar, InTest, InBody
<1>4. CASE InTest /\ InTest' /\ phase # "end" /\ phase' # "end"
  <2>1. phase \notin {"run", "start", "next", "last"} /\ phase' \notin {"run", "start", "next", "last"}
    BY <1>4 DEF InTest, InBody
  <2> QED
    BY <1>1, <1>2, <1>4, <2>1 DEF SelectedSoFar
<1> QED
  BY <1>3, <1>4

(* run's loop counts and selects the test case that it is at.              *)
LEMMA SelectedHere ==
    ASSUME TypeOK, AreOptions(p), SelectedSoFar, AtTest
    PROVE  /\ i \in 1..Len(testArray) /\ i \in Nat \ {0}
           /\ Passing = Ordinal(i) /\ (SkipMe <=> ~(Wanted(Test) /\ InRange(Ordinal(i))))
           /\ SelectedUpTo(i) = IF SkipMe THEN SelectedUpTo(i - 1) ELSE Append(SelectedUpTo(i - 1), Test)
<1>1. i \in 1..Len(testArray) /\ i \in Nat \ {0} /\ Len(testArray) \in Nat
  BY LenProperties DEF TypeOK, AtTest
<1>2. IsTest(Test)
  BY TestHere DEF AtTest
<1>3. Excluded(Test) <=> ~Wanted(Test)
  BY <1>2, ExcludedIs
<1>4. stats.numTestCasesPassingFilters = Ordinal(i - 1) /\ phase = "next"
  BY DEF SelectedSoFar, AtTest
<1>5. Ordinal(i - 1) \in Nat /\ Ordinal(i) = Ordinal(i - 1) + (IF Wanted(Test) THEN 1 ELSE 0)
  BY <1>1, OrdinalNext DEF Test
<1>6. Passing = Ordinal(i) /\ Ordinal(i) \in Nat
  BY <1>3, <1>4, <1>5 DEF Passing
<1>7. OutOfRange <=> ~InRange(Ordinal(i))
  <2>1. p.first \in Int /\ p.last \in Int
    BY DEF AreOptions
  <2> QED
    BY <1>6, <2>1 DEF OutOfRange, InRange
<1>8. SkipMe <=> ~(Wanted(Test) /\ InRange(Ordinal(i)))
  BY <1>3, <1>7 DEF SkipMe
<1> QED
  BY <1>1, <1>6, <1>8, SelectedNext DEF Test

(* run's loop passes test cases that are left out or only listed.          *)
LEMMA SelectionSkips ==
    ASSUME TypeOK, AreOptions(p), SelectedSoFar, SkipTest \/ ListTest
    PROVE  SelectedSoFar'
<1>1. /\ AtTest /\ phase = "next" /\ phase' = "next" /\ p' = p /\ testArray' = testArray /\ i' = i + 1 /\ hist' = hist
      /\ stats'.numTestCasesPassingFilters = Passing
  BY DEF SkipTest, ListTest, AtTest, TypeOK
<1>2. /\ i \in 1..Len(testArray) /\ i \in Nat \ {0}
      /\ Passing = Ordinal(i) /\ (SkipMe <=> ~(Wanted(Test) /\ InRange(Ordinal(i))))
      /\ SelectedUpTo(i) = IF SkipMe THEN SelectedUpTo(i - 1) ELSE Append(SelectedUpTo(i - 1), Test)
  BY <1>1, SelectedHere
<1>3. i' - 1 = i
  BY <1>1, <1>2
<1>4. Ordinal(i - 1)' = Ordinal(i) /\ SelectedUpTo(i - 1)' = SelectedUpTo(i)
  BY <1>1, <1>3, SelectionStays
<1>5. QueryMode' = QueryMode /\ ListsTests' = ListsTests /\ Ran' = Ran
  BY <1>1, SelectionStays DEF Ran
<1>6. ~QueryMode => Ran = SelectedUpTo(i - 1) /\ SkipMe
  BY <1>1 DEF SelectedSoFar, SkipTest, ListTest
<1>7. ListsTests => query = SelectedUpTo(i - 1)
  BY <1>1 DEF SelectedSoFar
<1>8. ListsTests => query' = SelectedUpTo(i)
  <2>1. ListsTests /\ SkipTest => query' = query /\ SkipMe
    BY DEF SkipTest
  <2>2. ListsTests /\ ListTest => query' = Append(query, Test) /\ ~SkipMe
    BY DEF ListTest, ListsTests
  <2> QED
    BY <1>2, <1>7, <2>1, <2>2
<1>9. ~InTest'
  BY <1>1 DEF InTest, InBody
<1> QED
  BY <1>1, <1>2, <1>4, <1>5, <1>6, <1>8, <1>9 DEF SelectedSoFar

(* One more verdict appends its test case to those that ran.               *)
LEMMA TestsNext ==
    ASSUME NEW V, V \in Seq(ToSet(V)), NEW v
    PROVE  [k \in DOMAIN Append(V, v) |-> Append(V, v)[k].test] = Append([k \in DOMAIN V |-> V[k].test], v.test)
<1> DEFINE S == ToSet(V) \cup {v}
           T == {x.test : x \in S}
<1>1. V \in Seq(S) /\ v \in S
  BY SeqMonotonic
<1>2. \A x \in S : x.test \in T
  OBVIOUS
<1> HIDE DEF S, T
<1>3. Len(V) \in Nat /\ DOMAIN V = 1..Len(V) /\ \A k \in 1..Len(V) : V[k] \in S
  BY <1>1, LenProperties, ElementOfSeq
<1>4. PICK W, s, t : /\ W = Append(V, v) /\ s = [k \in DOMAIN V |-> V[k].test]
                     /\ t = [k \in DOMAIN W |-> W[k].test]
  OBVIOUS
<1>5. /\ W \in Seq(S) /\ Len(W) = Len(V) + 1 /\ W[Len(V) + 1] = v /\ \A k \in 1..Len(V) : W[k] = V[k]
  BY <1>1, <1>4, AppendProperties
<1>6. DOMAIN W = 1..Len(V) + 1 /\ \A k \in 1..Len(V) + 1 : W[k] \in S
  BY <1>5, LenProperties, ElementOfSeq
<1>7. s \in [1..Len(V) -> T] /\ t \in [1..Len(V) + 1 -> T]
  BY <1>2, <1>3, <1>4, <1>6
<1>8. s \in Seq(T) /\ t \in Seq(T)
  <2>1. \A m \in Nat : \A x \in [1..m -> T] : x \in Seq(T)
    BY SeqDef
  <2>2. Len(V) + 1 \in Nat
    BY <1>3
  <2> QED
    BY <1>3, <1>7, <2>1, <2>2
<1>9. Len(s) = Len(V) /\ Len(t) = Len(V) + 1
  <2>1. DOMAIN s = 1..Len(V) /\ DOMAIN t = 1..Len(V) + 1
    BY <1>7
  <2>2. DOMAIN s = 1..Len(s) /\ Len(s) \in Nat /\ DOMAIN t = 1..Len(t) /\ Len(t) \in Nat
    BY <1>8, LenProperties
  <2> QED
    BY <1>3, <2>1, <2>2
<1>10. PICK a : a = Append(s, v.test)
  OBVIOUS
<1>11. a \in Seq(T) /\ Len(a) = Len(V) + 1 /\ a[Len(V) + 1] = v.test /\ \A k \in 1..Len(V) : a[k] = s[k]
  BY <1>1, <1>2, <1>8, <1>9, <1>10, AppendProperties
<1>12. \A k \in 1..Len(V) + 1 : t[k] = a[k]
  <2> SUFFICES ASSUME NEW k \in 1..Len(V) + 1 PROVE t[k] = a[k]
    OBVIOUS
  <2>1. CASE k = Len(V) + 1
    BY <1>4, <1>5, <1>6, <1>11, <2>1
  <2>2. CASE k \in 1..Len(V)
    BY <1>3, <1>4, <1>5, <1>6, <1>11, <2>2
  <2> QED
    BY <1>3, <2>1, <2>2
<1>13. t = a
  BY <1>8, <1>9, <1>11, <1>12, SeqEqual
<1> QED
  BY <1>4, <1>10, <1>13

(* SelectedSoFar when a test case is begun or ended.                       *)
LEMMA SelectionTests ==
    ASSUME TypeOK, PointsInv, CountsInv, AreOptions(p), SelectedSoFar, fatal.pc = "no",
           StartTest \/ EndTest \/ LeaveTest
    PROVE  SelectedSoFar'
<1>1. CASE StartTest
  <2>1. /\ AtTest /\ phase = "next" /\ phase' = "pass" /\ p' = p /\ testArray' = testArray /\ i' = i /\ ~SkipMe
        /\ hist'.verdicts = hist.verdicts /\ stats'.numTestCasesPassingFilters = Passing
    BY <1>1 DEF StartTest, AtTest, TypeOK
  <2>2. Passing = Ordinal(i) /\ Wanted(Test) /\ InRange(Ordinal(i))
    BY <2>1, SelectedHere
  <2>3. /\ Ordinal(i)' = Ordinal(i) /\ (Wanted(Test)' <=> Wanted(Test)) /\ (InRange(Ordinal(i))' <=> InRange(Ordinal(i)))
        /\ SelectedUpTo(i - 1)' = SelectedUpTo(i - 1) /\ QueryMode' = QueryMode /\ Ran' = Ran
    BY <2>1, SelectionStays DEF Test, InRange, Wanted, Filter, Ran
  <2>4. ~QueryMode => Ran = SelectedUpTo(i - 1)
    BY <2>1 DEF SelectedSoFar
  <2> QED
    BY <2>1, <2>2, <2>3, <2>4 DEF SelectedSoFar
<1>2. CASE EndTest
  <2>1. /\ phase = "finalize" /\ phase' = "end" /\ p' = p /\ testArray' = testArray /\ i' = i
    BY <1>2 DEF EndTest
  <2>2. PICK late : finalizeTestCaseData(late)
    BY <1>2 DEF EndTest
  <2>3. stats'.numTestCasesPassingFilters = stats.numTestCasesPassingFilters
    BY <2>2 DEF finalizeTestCaseData, TypeOK
  <2>4. cur.test = <<Test>> /\ i \in 1..Len(testArray) /\ InTest /\ ~QueryMode
    BY <2>1 DEF PointsInv, InTest, TypeOK
  <2>5. PICK v : hist'.verdicts = Append(hist.verdicts, v) /\ v.test = Test
    <3>1. hist'.verdicts = Append(hist.verdicts, [test |-> cur.test[1], failing |-> hist.failing,
                                                  threw |-> hist.threw, late |-> late])
      BY <2>2 DEF finalizeTestCaseData, TypeOK
    <3>2. cur.test[1] = Test
      BY <2>4
    <3> QED
      BY <3>1, <3>2
  <2>6. Ran' = Append(Ran, Test)
    <3>1. PICK V : V = hist.verdicts
      OBVIOUS
    <3>2. V \in Seq(ToSet(V))
      BY <3>1 DEF TypeOK
    <3>3. [k \in DOMAIN Append(V, v) |-> Append(V, v)[k].test] = Append([k \in DOMAIN V |-> V[k].test], v.test)
      BY <3>2, TestsNext
    <3>4. Ran = [k \in DOMAIN V |-> V[k].test]
      BY <3>1, Zenon DEF Ran
    <3>5. Ran' = [k \in DOMAIN Append(V, v) |-> Append(V, v)[k].test]
      BY <2>5, <3>1 DEF Ran
    <3> QED
      BY <2>5, <3>3, <3>4, <3>5
  <2>7. /\ stats.numTestCasesPassingFilters = Ordinal(i) /\ Wanted(Test) /\ InRange(Ordinal(i))
        /\ Ran = SelectedUpTo(i - 1)
    BY <2>1, <2>4 DEF SelectedSoFar
  <2>8. SelectedUpTo(i) = Append(SelectedUpTo(i - 1), Test)
    BY <2>4, <2>7, SelectedNext DEF Test
  <2>9. /\ Ordinal(i)' = Ordinal(i) /\ (Wanted(Test)' <=> Wanted(Test)) /\ (InRange(Ordinal(i))' <=> InRange(Ordinal(i)))
        /\ SelectedUpTo(i)' = SelectedUpTo(i)
    BY <2>1, SelectionStays DEF Test, InRange, Wanted, Filter
  <2> QED
    BY <2>1, <2>3, <2>6, <2>7, <2>8, <2>9 DEF SelectedSoFar
<1>3. CASE LeaveTest
  <2>1. /\ phase = "end" /\ phase' \in {"last", "next"} /\ p' = p /\ testArray' = testArray /\ i' = i + 1
        /\ stats' = stats /\ hist' = hist /\ (phase' = "last" => EnoughFailed(stats.numAssertsFailed))
    BY <1>3 DEF LeaveTest
  <2>2. i \in 1..Len(testArray) /\ InTest /\ ~QueryMode
    BY <2>1 DEF PointsInv, InTest, TypeOK
  <2>3. i' - 1 = i
    BY <2>1, <2>2
  <2>4. Ran = SelectedUpTo(i) /\ stats.numTestCasesPassingFilters = Ordinal(i)
    BY <2>1, <2>2 DEF SelectedSoFar
  <2>5. Ordinal(i - 1)' = Ordinal(i) /\ SelectedUpTo(i - 1)' = SelectedUpTo(i) /\ Ran' = Ran
    BY <2>1, <2>3, SelectionStays DEF Ran
  <2>6. QueryMode' = QueryMode /\ (ListsTests => QueryMode) /\ ListsTests' = ListsTests
    BY <2>1, SelectionStays DEF ListsTests, QueryMode
  <2>7. ~InTest' /\ (EnoughFailed(stats.numAssertsFailed)' <=> EnoughFailed(stats.numAssertsFailed))
    BY <2>1 DEF InTest, InBody, EnoughFailed
  <2> QED
    BY <2>1, <2>2, <2>4, <2>5, <2>6, <2>7 DEF SelectedSoFar
<1> QED
  BY <1>1, <1>2, <1>3

(* SelectionInv after any step of run.                                     *)
LEMMA SelectionRun ==
    ASSUME TypeOK, PointsInv, CountsInv, SelectionInv, fatal.pc = "no", RunStep
    PROVE  SelectionInv'
<1>1. AreOptions(p) /\ SelectedSoFar
  BY DEF SelectionInv
<1>2. AreOptions(p)'
  BY <1>1 DEF RunStep, UseReporters, RunNothing, CollectTests, SkipTest, ListTest, AtTest, StartTest,
              StartPass, BodyReturns, Catch, AfterPass, EndTest, LeaveTest, EndRun, Cleanup, contextVars,
              AreOptions
<1>3. SUFFICES SelectedSoFar' /\ SelectedAreRun'
  BY <1>2 DEF SelectionInv
<1>4. CASE SkipTest \/ ListTest
  <2>1. phase' = "next"
    BY <1>4 DEF SkipTest, ListTest, AtTest
  <2> QED
    BY <1>1, <1>4, <2>1, SelectionSkips DEF SelectedAreRun
<1>5. CASE StartTest \/ EndTest \/ LeaveTest
  <2>1. phase' # "cleanup"
    BY <1>5 DEF StartTest, EndTest, LeaveTest
  <2> QED
    BY <1>1, <1>5, <2>1, SelectionTests DEF SelectedAreRun
<1>6. CASE UseReporters \/ StartPass \/ BodyReturns \/ Catch \/ AfterPass
  <2>1. /\ p' = p /\ testArray' = testArray /\ i' = i /\ query' = query /\ hist' = hist /\ stats' = stats
        /\ \/ InTest /\ InTest' /\ phase # "end" /\ phase' # "end"
           \/ {phase, phase'} \subseteq {"run", "start"}
    BY <1>6 DEF UseReporters, StartPass, BodyReturns, Catch, AfterPass, AtEnd, contextVars, InTest, InBody
  <2>2. phase' # "cleanup"
    BY <2>1 DEF InTest, InBody
  <2> QED
    BY <1>1, <2>1, <2>2, SelectionFrame DEF SelectedAreRun
<1>7. CASE RunNothing \/ Cleanup
  <2>1. p' = p /\ phase' \in {"cleanup", "EXIT_SUCCESS", "EXIT_FAILURE"} /\ (phase' = "cleanup" => NothingToRun)
    BY <1>7 DEF RunNothing, Cleanup, contextVars
  <2> QED
    BY <2>1 DEF SelectedSoFar, SelectedAreRun, NothingToRun, InTest, InBody
<1>8. CASE CollectTests
  <2>1. /\ phase = "start" /\ phase' = "next" /\ i' = i /\ query' = query /\ hist' = hist /\ i = 1
        /\ stats'.numTestCasesPassingFilters = stats.numTestCasesPassingFilters
    BY <1>8 DEF CollectTests, PointsInv, TypeOK
  <2>2. hist.verdicts = <<>> /\ query = <<>> /\ stats.numTestCasesPassingFilters = 0
    BY <1>1, <2>1 DEF SelectedSoFar
  <2>3. i' - 1 = 0 /\ Ran' = <<>>
    BY <2>1, <2>2 DEF Ran
  <2>4. Ordinal(i - 1)' = 0 /\ SelectedUpTo(i - 1)' = <<>>
    BY <2>3, NoneYet
  <2>5. ~InTest' /\ phase' # "cleanup"
    BY <2>1 DEF InTest, InBody
  <2> QED
    BY <2>1, <2>2, <2>3, <2>4, <2>5 DEF SelectedSoFar, SelectedAreRun
<1>9. CASE EndRun
  <2>1. /\ phase' = "cleanup" /\ p' = p /\ testArray' = testArray /\ query' = query /\ hist' = hist
        /\ phase \in {"next", "last"} /\ (phase = "next" => i > Len(testArray))
    BY <1>9 DEF EndRun, contextVars
  <2>2. i \in 1..Len(testArray) + 1 /\ Len(testArray) \in Nat
    BY LenProperties DEF TypeOK
  <2>3. phase = "next" => SelectedUpTo(i - 1) = Selected
    <3>1. phase = "next" => i - 1 = Len(testArray)
      BY <2>1, <2>2
    <3> QED
      BY <3>1 DEF Selected
  <2>4. ~QueryMode => Ran = Selected \/ (EnoughFailed(hist.total) /\ IsPrefix(Ran, Selected))
    <3> SUFFICES ASSUME ~QueryMode PROVE Ran = Selected \/ (EnoughFailed(hist.total) /\ IsPrefix(Ran, Selected))
      OBVIOUS
    <3>1. Ran = SelectedUpTo(i - 1)
      BY <1>1, <2>1 DEF SelectedSoFar
    <3>2. IsPrefix(Ran, Selected)
      <4>1. i - 1 \in 0..Len(testArray)
        BY <2>2
      <4> QED
        BY <3>1, <4>1, SelectedFirst
    <3>3. phase = "last" => EnoughFailed(hist.total)
      <4>1. phase = "last" => hist.total = stats.numAssertsFailed + 0 /\ stats.numAssertsFailed \in Nat
        BY DEF CountsInv, InTest, InBody, TypeOK
      <4>2. phase = "last" => hist.total = stats.numAssertsFailed
        BY <4>1
      <4> QED
        BY <1>1, <4>2 DEF SelectedSoFar
    <3> QED
      BY <2>1, <2>3, <3>1, <3>2, <3>3
  <2>5. ListsTests => query = Selected
    <3>1. phase = "last" => ~ListsTests
      BY <1>1 DEF SelectedSoFar, ListsTests, QueryMode
    <3> QED
      BY <1>1, <2>1, <2>3, <3>1 DEF SelectedSoFar
  <2>6. SelectedAreRun'
    <3>1. /\ QueryMode' = QueryMode /\ ListsTests' = ListsTests /\ Selected' = Selected /\ Ran' = Ran
          /\ (EnoughFailed(hist.total)' <=> EnoughFailed(hist.total))
      BY <2>1, SelectionStays DEF Ran, EnoughFailed
    <3> QED
      BY <2>1, <2>4, <2>5, <3>1 DEF SelectedAreRun
  <2>7. SelectedSoFar'
    BY <2>1 DEF SelectedSoFar, InTest, InBody
  <2> QED
    BY <2>6, <2>7
<1> QED
  BY <1>4, <1>5, <1>6, <1>7, <1>8, <1>9 DEF RunStep

(* SelectionInv after a step that changes nothing of the selection and     *)
(* stays in a test case.                                                   *)
LEMMA SelectionQuiet ==
    ASSUME SelectionInv, fatal.pc = "no", InBody, InBody', p' = p, testArray' = testArray, i' = i, query' = query,
           hist'.verdicts = hist.verdicts, stats' = stats
    PROVE  SelectionInv'
<1>1. InTest /\ InTest' /\ phase # "end" /\ phase' # "end" /\ phase' # "cleanup"
  BY DEF InTest, InBody
<1>2. SelectedSoFar'
  BY <1>1, SelectionFrame DEF SelectionInv
<1> QED
  BY <1>1, <1>2 DEF SelectionInv, SelectedAreRun, AreOptions

(* SelectionInv is kept by every step.                                     *)
LEMMA SelectionSteps ==
    ASSUME TypeOK, PointsInv, CountsInv, SelectionInv, [Next]_vars, PointsInv'
    PROVE  SelectionInv'
<1>1. CASE UNCHANGED vars
  <2>1. UNCHANGED <<p, testArray, i, query, hist, stats, phase, fatal>>
    BY <1>1 DEF vars, contextVars, runVars
  <2>2. /\ Ordinal(i)' = Ordinal(i) /\ Ordinal(i - 1)' = Ordinal(i - 1) /\ (Wanted(Test)' <=> Wanted(Test))
        /\ (InRange(Ordinal(i))' <=> InRange(Ordinal(i))) /\ Ran' = Ran /\ Selected' = Selected
        /\ SelectedUpTo(i)' = SelectedUpTo(i) /\ SelectedUpTo(i - 1)' = SelectedUpTo(i - 1)
        /\ QueryMode' = QueryMode /\ ListsTests' = ListsTests /\ NothingToRun' = NothingToRun
    BY <2>1, SelectionStays DEF Test, InRange, Wanted, Filter, Ran
  <2>3. SelectedSoFar' <=> SelectedSoFar
    BY <2>1, <2>2 DEF SelectedSoFar, InTest, InBody, EnoughFailed
  <2>4. SelectedAreRun' <=> SelectedAreRun
    BY <2>1, <2>2 DEF SelectedAreRun, EnoughFailed
  <2> QED
    BY <2>1, <2>3, <2>4 DEF SelectionInv, AreOptions
<1>2. SUFFICES ASSUME Next PROVE SelectionInv'
  BY <1>1
<1>3. p' = p
  BY <1>2
     DEF Next, MainStep, RunStep, BodyStep, WorkerStep, HandlerStep, FatalStep, AssertStep, Interrupt,
         HandleSignal, UseReporters, RunNothing, CollectTests, SkipTest, ListTest, AtTest, StartTest,
         StartPass, BodyReturns, Catch, AfterPass, EndTest, LeaveTest, EndRun, Cleanup, SkipSubcase,
         EnterSubcase, EnteredSubcase, LeaveSubcase, AnnounceException, LeftSubcase, LockReporters,
         BeginContext, DestroyContext, SkipAssertion, MakeAssertion, throwException, Throw, CreateThreads,
         JoinThreads, AddAssert, LogSkipped, Log, Logged, AddFailedAssert, AssertReturns, Terminate,
         FatalException, FatalPop, FatalFinalize, FatalTestEnd, FatalRunEnd, contextVars
<1>4. CASE fatal'.pc # "no"
  <2>1. phase' # "cleanup"
    BY <1>4 DEF PointsInv, InBody
  <2> QED
    BY <1>3, <1>4, <2>1 DEF SelectionInv, SelectedAreRun, AreOptions
<1>5. CASE fatal'.pc = "no" /\ MainStep
  <2>1. CASE RunStep
    <3>1. fatal.pc = "no"
      BY <1>5, <2>1 DEF RunStep, UseReporters, RunNothing, CollectTests, SkipTest, ListTest, StartTest,
                        StartPass, BodyReturns, Catch, AfterPass, EndTest, LeaveTest, EndRun, Cleanup
    <3> QED
      BY <2>1, <3>1, SelectionRun
  <2>2. CASE BodyStep
    <3>1. Working(Main) => InBody
      BY <1>5 DEF MainStep, PointsInv, Ended, InBody
    <3>2. InBody /\ InBody'
      BY <2>2, <3>1
         DEF BodyStep, AssertStep, SkipSubcase, EnterSubcase, EnteredSubcase, LeaveSubcase, AnnounceException,
             LeftSubcase, LockReporters, BeginContext, DestroyContext, SkipAssertion, MakeAssertion,
             throwException, Throw, CreateThreads, JoinThreads,
             AddAssert, LogSkipped, Log, Logged, AddFailedAssert, AssertReturns, runVars, AtStatement, AtEnd, Leaving,
             InBody, Working, Idle
    <3>3. /\ fatal.pc = "no" /\ testArray' = testArray /\ i' = i /\ query' = query
          /\ hist'.verdicts = hist.verdicts /\ stats' = stats
      BY <1>5, <2>2
         DEF BodyStep, AssertStep, SkipSubcase, EnterSubcase, EnteredSubcase, LeaveSubcase, AnnounceException,
             LeftSubcase, LockReporters, BeginContext, DestroyContext, SkipAssertion, MakeAssertion,
             throwException, Throw, CreateThreads, JoinThreads,
             AddAssert, LogSkipped, Log, Logged, AddFailedAssert, AssertReturns, runVars, contextVars, TypeOK
    <3> QED
      BY <1>3, <3>2, <3>3, SelectionQuiet
  <2> QED
    BY <1>5, <2>1, <2>2 DEF MainStep
<1>6. ASSUME fatal'.pc = "no", NEW w \in Workers, WorkerStep(w) PROVE SelectionInv'
  <2>1. AssertStep(w)
    <3>1. ~Ended
      BY <1>6 DEF WorkerStep
    <3> QED
      BY <1>6, <3>1, SignalStays DEF WorkerStep
  <2>2. /\ fatal.pc = "no" /\ testArray' = testArray /\ i' = i /\ query' = query /\ hist' = hist /\ stats' = stats
        /\ phase' = phase
    BY <1>6, <2>1 DEF AssertStep, AddAssert, LogSkipped, Log, Logged, AddFailedAssert, AssertReturns,
                      runVars, contextVars
  <2>3. InBody /\ InBody'
    <3>1. Working(w)
      BY <2>1, AssertWorks DEF Threads
    <3> QED
      BY <1>6, <2>2, <3>1 DEF PointsInv, Confined, WorkerStep, Ended, InBody
  <2> QED
    BY <1>3, <2>2, <2>3, SelectionQuiet
<1>7. CASE fatal'.pc = "no" /\ (HandlerStep \/ (~Ended /\ Interrupt))
  BY <1>7, SignalStays DEF HandlerStep
<1> QED
  BY <1>2, <1>4, <1>5, <1>6, <1>7 DEF Next

(* No test case is selected or run at first.                               *)
LEMMA SelectionInit == Init => SelectionInv
<1> SUFFICES ASSUME Init PROVE SelectionInv
  OBVIOUS
<1>1. AreOptions(p)
  BY DoctestAssumption DEF Init
<1>2. phase = "run" /\ hist.verdicts = <<>> /\ query = <<>> /\ stats.numTestCasesPassingFilters = 0
  BY DEF Init
<1> QED
  BY <1>1, <1>2 DEF SelectionInv, SelectedSoFar, SelectedAreRun, InTest, InBody

-----------------------------------------------------------------------------
(* Prefixes of sequences, and blocks.                                      *)

(* A sequence is a prefix of another whose first elements are its own.     *)
LEMMA PrefixIs ==
    ASSUME NEW s, NEW t, Len(s) \in Nat, Len(t) \in Nat
    PROVE  IsPrefix(s, t) <=> Len(s) <= Len(t) /\ \A j \in 1..Len(s) : s[j] = t[j]
<1>1. /\ SubSeq(s, 1, Len(s)) = [j \in 1..Len(s) |-> s[j]]
      /\ SubSeq(t, 1, Len(s)) = [j \in 1..Len(s) |-> t[j]]
  OBVIOUS
<1>2. SubSeq(s, 1, Len(s)) = SubSeq(t, 1, Len(s)) <=> \A j \in 1..Len(s) : s[j] = t[j]
  <2>1. PICK f, g : f = [j \in 1..Len(s) |-> s[j]] /\ g = [j \in 1..Len(s) |-> t[j]]
    OBVIOUS
  <2>2. f = g <=> \A j \in 1..Len(s) : f[j] = g[j]
    BY <2>1
  <2> QED
    BY <1>1, <2>1, <2>2
<1> QED
  BY <1>2 DEF IsPrefix

(* A sequence with an element more: its front, its last, and that it is    *)
(* not empty.                                                              *)
LEMMA AppendEnds ==
    ASSUME NEW T, NEW s \in Seq(T), NEW e \in T
    PROVE  /\ Append(s, e) \in Seq(T) /\ Append(s, e) # <<>> /\ Len(Append(s, e)) = Len(s) + 1
           /\ Front(Append(s, e)) = s /\ Last(Append(s, e)) = e
<1>1. PICK a : a = Append(s, e)
  OBVIOUS
<1>2. /\ a \in Seq(T) /\ Len(a) = Len(s) + 1 /\ a[Len(s) + 1] = e /\ a # <<>>
      /\ \A j \in 1..Len(s) : a[j] = s[j]
  BY <1>1, AppendProperties
<1>3. Len(s) \in Nat /\ Len(a) \in Nat
  BY <1>2, LenProperties
<1>4. Last(a) = e
  BY <1>2 DEF Last
<1>5. Front(a) = s
  <2>1. Front(a) = SubSeq(a, 1, Len(s))
    <3>1. Len(a) - 1 = Len(s)
      BY <1>2, <1>3
    <3> QED
      BY <3>1 DEF Front
  <2>2. \A j \in 1..Len(s) : a[j] \in T
    BY <1>2, <1>3, ElementOfSeq
  <2>3. PICK b : b = SubSeq(a, 1, Len(s))
    OBVIOUS
  <2>4. b \in Seq(T) /\ Len(b) = Len(s) /\ \A j \in 1..Len(s) : b[j] = a[j]
    <3>1. /\ b \in Seq(T) /\ Len(b) = IF 1 <= Len(s) THEN Len(s) - 1 + 1 ELSE 0
          /\ \A j \in 1..Len(s) - 1 + 1 : b[j] = a[1 + j - 1]
      BY <1>3, <2>2, <2>3, SubSeqProperties
    <3> QED
      BY <1>3, <3>1
  <2>5. b = s
    BY <1>2, <2>4, SeqEqual
  <2> QED
    BY <2>1, <2>3, <2>5
<1> QED
  BY <1>1, <1>2, <1>4, <1>5

(* The prefixes of a sequence with an element more are those of the        *)
(* sequence and itself.                                                    *)
LEMMA PrefixNext ==
    ASSUME NEW T, NEW s \in Seq(T), NEW e \in T, NEW q \in Seq(T)
    PROVE  /\ IsPrefix(q, Append(s, e)) <=> q = Append(s, e) \/ IsPrefix(q, s)
           /\ ~IsPrefix(Append(s, e), s)
<1>1. PICK a : a = Append(s, e)
  OBVIOUS
<1>2. /\ a \in Seq(T) /\ Len(a) = Len(s) + 1 /\ \A j \in 1..Len(s) : a[j] = s[j]
  BY <1>1, AppendProperties
<1>3. Len(s) \in Nat /\ Len(q) \in Nat /\ Len(a) \in Nat
  BY <1>2, LenProperties
<1>4. IsPrefix(q, a) <=> q = a \/ IsPrefix(q, s)
  <2>1. CASE Len(q) > Len(s)
    <3>1. IsPrefix(q, a) <=> Len(q) = Len(a) /\ \A j \in 1..Len(q) : q[j] = a[j]
      BY <1>2, <1>3, <2>1, PrefixIs
    <3>2. (Len(q) = Len(a) /\ \A j \in 1..Len(q) : q[j] = a[j]) <=> q = a
      BY <1>2, SeqEqual
    <3>3. ~IsPrefix(q, s)
      BY <1>3, <2>1, PrefixIs
    <3> QED
      BY <3>1, <3>2, <3>3
  <2>2. CASE Len(q) <= Len(s)
    <3>1. q # a /\ \A j \in 1..Len(q) : j \in 1..Len(s)
      BY <1>2, <1>3, <2>2
    <3>2. (\A j \in 1..Len(q) : q[j] = a[j]) <=> (\A j \in 1..Len(q) : q[j] = s[j])
      BY <1>2, <3>1
    <3> QED
      BY <1>2, <1>3, <2>2, <3>1, <3>2, PrefixIs
  <2> QED
    BY <1>3, <2>1, <2>2
<1>5. ~IsPrefix(a, s)
  BY <1>2, <1>3, PrefixIs
<1> QED
  BY <1>1, <1>4, <1>5

(* What InOrder collects up to n is what it collects up to m, when nothing *)
(* between them is in the set.                                             *)
LEMMA InOrderGap ==
    ASSUME NEW S, NEW n \in Nat, NEW m \in Nat, m <= n, \A k \in m + 1..n : k \notin S
    PROVE  InOrder(S, n) = InOrder(S, m)
<1> DEFINE Good == {k \in Nat : InOrder(S, m + k) = InOrder(S, m)}
           l == n - m
<1>1. 0 \in Good
  OBVIOUS
<1>2. ASSUME NEW k \in 1..l, k - 1 \in Good PROVE k \in Good
  <2>1. /\ m + k \in Nat \ {0} /\ m + k \in m + 1..n /\ (m + k) - 1 = m + (k - 1) /\ k \in Nat
    OBVIOUS
  <2>2. InOrder(S, m + k) = InOrder(S, m + (k - 1))
    BY <2>1, InOrderNext
  <2> QED
    BY <1>2, <2>1, <2>2
<1>3. l \in Nat /\ l \in 0..l /\ m + l = n
  OBVIOUS
<1> HIDE DEF Good, l
<1>4. l \in Good
  BY <1>1, <1>2, <1>3, UpTo
<1> QED
  BY <1>3, <1>4 DEF Good

(* The SUBCASEs whose blocks statement k is in, the outermost first.       *)
OpenAt(body, k) == {o \in 1..k : body[o].op = "open" /\ body[o].end > k}
Enclosing(body, k) == InOrder(OpenAt(body, k), k)

(* Blocks that overlap are one in the other.                               *)
LEMMA BlocksNest ==
    ASSUME NEW body, Nesting(body), NEW k \in 1..Len(body), body[k].op = "open",
           NEW o \in 1..k - 1, body[o].op = "open", body[o].end >= k
    PROVE  body[o].end > body[k].end
<1>1. /\ k \in Nat \ {0} /\ k - 1 \in Nat /\ Len(body) \in Nat
  BY DEF Nesting
<1>2. PICK e, f : e = body[k].end /\ f = body[o].end
  OBVIOUS
<1>3. /\ e \in k + 1..Len(body) /\ body[e].op = "close" /\ \A x \in k + 1..e : Depth(body, x) > Depth(body, k)
      /\ Depth(body, e + 1) = Depth(body, k)
  BY <1>2 DEF Nesting
<1>4. /\ o \in 1..Len(body) /\ f \in o + 1..Len(body) /\ body[f].op = "close"
      /\ \A x \in o + 1..f : Depth(body, x) > Depth(body, o)
      /\ Depth(body, f + 1) = Depth(body, o)
  BY <1>1, <1>2 DEF Nesting
<1>5. \A x \in 1..Len(body) + 1 : Depth(body, x) \in Int
  BY <1>1, DepthNext
<1>6. SUFFICES ASSUME f >= k, f <= e PROVE FALSE
  BY <1>1, <1>2, <1>3, <1>4
<1>7. f # k
  BY <1>4
<1>8. Depth(body, k) > Depth(body, o)
  BY <1>1, <1>4, <1>6
<1>9. CASE f = e
  BY <1>1, <1>3, <1>4, <1>5, <1>8, <1>9
<1>10. CASE f # e
  <2>1. f + 1 \in k + 1..e
    BY <1>1, <1>3, <1>4, <1>6, <1>10
  <2>2. Depth(body, f + 1) > Depth(body, k)
    BY <1>3, <2>1
  <2>3. /\ Depth(body, f + 1) \in Int /\ Depth(body, k) \in Int /\ Depth(body, o) \in Int
    BY <1>1, <1>3, <1>4, <1>5, <2>1
  <2> QED
    BY <1>4, <1>8, <2>2, <2>3
<1> QED
  BY <1>9, <1>10

(* A SUBCASE's block is inside those that the statement before it is in,   *)
(* what is in the block is inside the block too, and after its end it is   *)
(* as before.                                                              *)
LEMMA EnclosingBlock ==
    ASSUME NEW body, Nesting(body), NEW k \in 1..Len(body), body[k].op = "open"
    PROVE  /\ Enclosing(body, k) = Append(Enclosing(body, k - 1), k)
           /\ Enclosing(body, body[k].end - 1) = Enclosing(body, k)
           /\ Enclosing(body, body[k].end) = Enclosing(body, k - 1)
           /\ \A c \in k..body[k].end - 1 : InOrder(OpenAt(body, c), k) = Enclosing(body, k)
<1>1. /\ k \in Nat \ {0} /\ k - 1 \in Nat /\ Len(body) \in Nat
      /\ \A o \in 1..Len(body) : body[o].op = "open" => body[o].end \in o + 1..Len(body) /\ body[body[o].end].op = "close"
  BY SMTT(30) DEF Nesting
<1>2. PICK e : e = body[k].end
  OBVIOUS
<1>3. e \in k + 1..Len(body) /\ e \in Nat /\ e - 1 \in Nat /\ k <= e - 1 /\ body[e].op = "close"
  BY <1>1, <1>2
<1>4. ASSUME NEW o \in 1..k - 1, body[o].op = "open" PROVE body[o].end >= k => body[o].end > e
  BY <1>2, <1>4, BlocksNest
<1>5. ASSUME NEW o \in k + 1..e, body[o].op = "open" PROVE body[o].end < e
  <2>1. o \in 1..Len(body) /\ k \in 1..o - 1 /\ body[k].end >= o
    BY <1>1, <1>2, <1>3
  <2> QED
    BY <1>2, <1>5, <2>1, BlocksNest
<1>6. ASSUME NEW o \in 1..k - 1, body[o].op = "open" PROVE body[o].end \in Nat /\ body[o].end # k
  <2>1. o \in 1..Len(body)
    BY <1>1
  <2> QED
    BY <1>1, <1>6, <2>1
<1>7. ASSUME NEW c \in k..e - 1, NEW o \in 1..k PROVE o \in OpenAt(body, c) <=> o \in OpenAt(body, k)
  <2>1. o \in 1..c /\ k \in 1..k /\ c \in Nat
    BY <1>1, <1>3
  <2>2. CASE o = k
    BY <1>1, <1>2, <1>3, <2>1, <2>2 DEF OpenAt
  <2>3. CASE o # k
    <3>1. o \in 1..k - 1
      BY <1>1, <2>3
    <3>2. body[o].op = "open" => (body[o].end > c <=> body[o].end > k)
      BY <1>1, <1>3, <1>4, <1>6, <3>1
    <3> QED
      BY <2>1, <3>2 DEF OpenAt
  <2> QED
    BY <2>2, <2>3
<1>8. \A c \in k..e - 1 : InOrder(OpenAt(body, c), k) = Enclosing(body, k)
  <2> SUFFICES ASSUME NEW c \in k..e - 1 PROVE InOrder(OpenAt(body, c), k) = InOrder(OpenAt(body, k), k)
    BY DEF Enclosing
  <2>1. k \in Nat /\ \A o \in 1..k : o \in OpenAt(body, c) <=> o \in OpenAt(body, k)
    BY <1>1, <1>7
  <2> QED
    BY <2>1, InOrderSame
<1>9. Enclosing(body, k) = Append(Enclosing(body, k - 1), k)
  <2>1. k \in OpenAt(body, k)
    BY <1>1, <1>2, <1>3 DEF OpenAt
  <2>2. ASSUME NEW o \in 1..k - 1 PROVE o \in OpenAt(body, k) <=> o \in OpenAt(body, k - 1)
    BY <1>1, <1>6 DEF OpenAt
  <2>3. InOrder(OpenAt(body, k), k - 1) = InOrder(OpenAt(body, k - 1), k - 1)
    BY <1>1, <2>2, InOrderSame
  <2> QED
    BY <1>1, <2>1, <2>3, InOrderNext DEF Enclosing
<1>10. Enclosing(body, e - 1) = Enclosing(body, k)
  <2>1. ASSUME NEW o \in k + 1..e - 1 PROVE o \notin OpenAt(body, e - 1)
    <3>1. o \in k + 1..e /\ o \in 1..Len(body)
      BY <1>1, <1>3
    <3>2. body[o].op = "open" => body[o].end < e /\ body[o].end \in Int
      BY <1>1, <1>5, <3>1
    <3> QED
      BY <1>3, <3>2 DEF OpenAt
  <2>2. InOrder(OpenAt(body, e - 1), e - 1) = InOrder(OpenAt(body, e - 1), k)
    BY <1>1, <1>3, <2>1, InOrderGap
  <2>3. e - 1 \in k..e - 1
    BY <1>1, <1>3
  <2> QED
    BY <1>8, <2>2, <2>3 DEF Enclosing
<1>11. Enclosing(body, e) = Enclosing(body, k - 1)
  <2>1. ASSUME NEW o \in (k - 1) + 1..e PROVE o \notin OpenAt(body, e)
    <3>1. o = k \/ o \in k + 1..e
      BY <1>1, <1>3
    <3>2. CASE o = k
      BY <1>2, <1>3, <3>2 DEF OpenAt
    <3>3. CASE o \in k + 1..e
      <4>1. o \in 1..Len(body)
        BY <1>1, <1>3, <3>3
      <4>2. body[o].op = "open" => body[o].end < e /\ body[o].end \in Int
        BY <1>1, <1>5, <3>3, <4>1
      <4> QED
        BY <1>3, <4>2 DEF OpenAt
    <3> QED
      BY <3>1, <3>2, <3>3
  <2>2. InOrder(OpenAt(body, e), e) = InOrder(OpenAt(body, e), k - 1)
    BY <1>1, <1>3, <2>1, InOrderGap
  <2>3. ASSUME NEW o \in 1..k - 1 PROVE o \in OpenAt(body, e) <=> o \in OpenAt(body, k - 1)
    <3>1. o \in 1..e
      BY <1>1, <1>3
    <3>2. body[o].op = "open" => (body[o].end > e <=> body[o].end > k - 1)
      BY <1>1, <1>3, <1>4, <1>6
    <3> QED
      BY <3>1, <3>2 DEF OpenAt
  <2>4. InOrder(OpenAt(body, e), k - 1) = InOrder(OpenAt(body, k - 1), k - 1)
    BY <1>1, <2>3, InOrderSame
  <2> QED
    BY <2>2, <2>4 DEF Enclosing
<1> QED
  BY <1>2, <1>8, <1>9, <1>10, <1>11

(* Statements that neither begin nor end a block are in the blocks that    *)
(* the statement before is in.                                             *)
LEMMA EnclosingSame ==
    ASSUME NEW body, Nesting(body), NEW k \in 1..Len(body), body[k].op \notin {"open", "close"}
    PROVE  Enclosing(body, k) = Enclosing(body, k - 1)
<1>1. /\ k \in Nat \ {0} /\ k - 1 \in Nat /\ Len(body) \in Nat
  BY DEF Nesting
<1>2. k \notin OpenAt(body, k)
  BY DEF OpenAt
<1>3. ASSUME NEW o \in 1..k - 1 PROVE o \in OpenAt(body, k) <=> o \in OpenAt(body, k - 1)
  <2>1. o \in 1..Len(body) /\ o \in 1..k
    BY <1>1
  <2>2. body[o].op = "open" => body[o].end \in Nat /\ body[o].end # k
    BY <1>1, <2>1 DEF Nesting
  <2> QED
    BY <1>1, <2>1, <2>2 DEF OpenAt
<1>4. InOrder(OpenAt(body, k), k - 1) = InOrder(OpenAt(body, k - 1), k - 1)
  BY <1>1, <1>3, InOrderSame
<1> QED
  BY <1>1, <1>2, <1>4, InOrderNext DEF Enclosing

-----------------------------------------------------------------------------
(* SUBCASEs: their paths, and which the filters admit.                     *)

(* The signatures of SUBCASEs.                                             *)
Signs(body) == [o \in 1..Len(body) |-> [name |-> body[o].name, line |-> body[o].line]]
SignSet(body) == {[name |-> body[o].name, line |-> body[o].line] : o \in 1..Len(body)}

(* A path is the signatures of the blocks around a statement.              *)
LEMMA PathIs ==
    ASSUME NEW body, Nesting(body), NEW k \in 0..Len(body)
    PROVE  /\ Path(body, k) = Those(Signs(body), Enclosing(body, k))
           /\ Enclosing(body, k) \in Seq(1..Len(body)) /\ Path(body, k) \in Seq(SignSet(body))
           /\ Len(Path(body, k)) = Len(Enclosing(body, k)) /\ Len(Path(body, k)) \in Nat
           /\ \A j \in 1..Len(Path(body, k)) : Path(body, k)[j] = Signs(body)[Enclosing(body, k)[j]]
<1>1. Len(body) \in Nat /\ k \in Nat
  BY DEF Nesting
<1>2. PICK q, s : q = Enclosing(body, k) /\ s = Path(body, k)
  OBVIOUS
<1>3. q \in Seq(1..Len(body))
  <2> DEFINE E == {j \in 1..k : j \in OpenAt(body, k)}
  <2>1. q \in Seq(E)
    BY <1>1, <1>2, InOrderElements DEF Enclosing
  <2>2. E \subseteq 1..Len(body)
    BY <1>1
  <2> HIDE DEF E
  <2> QED
    BY <2>1, <2>2, SeqMonotonic
<1>4. Len(q) \in Nat /\ DOMAIN q = 1..Len(q) /\ \A j \in 1..Len(q) : q[j] \in 1..Len(body)
  BY <1>3, LenProperties, ElementOfSeq
<1>5. s = [j \in 1..Len(q) |-> [name |-> body[q[j]].name, line |-> body[q[j]].line]]
  BY <1>2, <1>4 DEF Path, Enclosing, OpenAt
<1>6. \A j \in 1..Len(q) : s[j] = Signs(body)[q[j]] /\ s[j] \in SignSet(body)
  BY <1>4, <1>5 DEF Signs, SignSet
<1>7. s = Those(Signs(body), q)
  BY <1>4, <1>5, <1>6 DEF Those
<1>8. s \in Seq(SignSet(body)) /\ Len(s) = Len(q)
  <2>1. s \in [1..Len(q) -> SignSet(body)]
    BY <1>5, <1>6
  <2>2. \A m \in Nat : \A x \in [1..m -> SignSet(body)] : x \in Seq(SignSet(body))
    BY SeqDef
  <2>3. s \in Seq(SignSet(body))
    BY <1>4, <2>1, <2>2
  <2>4. Len(s) = Len(q)
    BY <1>4, <1>5
  <2> QED
    BY <2>3, <2>4
<1> QED
  BY <1>2, <1>3, <1>4, <1>6, <1>7, <1>8

(* The path of a SUBCASE is that of the statement before it and its own    *)
(* signature; it is a prefix of the paths in the block; and a block ends   *)
(* where it began.                                                         *)
LEMMA PathBlock ==
    ASSUME NEW body, Nesting(body), NEW k \in 1..Len(body), body[k].op = "open"
    PROVE  /\ Path(body, k) = Append(Path(body, k - 1), [name |-> body[k].name, line |-> body[k].line])
           /\ Path(body, body[k].end - 1) = Path(body, k)
           /\ Path(body, body[k].end) = Path(body, k - 1)
           /\ \A c \in k..body[k].end - 1 : IsPrefix(Path(body, k), Path(body, c))
<1>1. /\ k \in Nat \ {0} /\ k - 1 \in 0..Len(body) /\ k \in 0..Len(body) /\ Len(body) \in Nat
      /\ body[k].end \in 0..Len(body) /\ body[k].end - 1 \in 0..Len(body)
  BY DEF Nesting
<1>2. /\ Enclosing(body, k) = Append(Enclosing(body, k - 1), k)
      /\ Enclosing(body, body[k].end - 1) = Enclosing(body, k)
      /\ Enclosing(body, body[k].end) = Enclosing(body, k - 1)
  BY EnclosingBlock
<1>3. Path(body, body[k].end - 1) = Path(body, k) /\ Path(body, body[k].end) = Path(body, k - 1)
  <2>1. \A c \in 0..Len(body) : Path(body, c) = Those(Signs(body), Enclosing(body, c))
    BY PathIs
  <2> QED
    BY <1>1, <1>2, <2>1
<1>4. Path(body, k) = Append(Path(body, k - 1), [name |-> body[k].name, line |-> body[k].line])
  <2>1. PICK a, q : a = Signs(body) /\ q = Enclosing(body, k - 1)
    OBVIOUS
  <2>2. q \in Seq(1..Len(body))
    BY <1>1, <2>1, PathIs
  <2>3. a = [o \in 1..Len(body) |-> [name |-> body[o].name, line |-> body[o].line]]
    BY <2>1 DEF Signs
  <2>4. Len(a) = Len(body) /\ a[k] = [name |-> body[k].name, line |-> body[k].line]
    BY <1>1, <2>3
  <2>5. Those(a, Append(q, k)) = Append(Those(a, q), a[k])
    BY <1>1, <2>2, <2>4, ThoseNext
  <2>6. Path(body, k) = Those(a, Append(q, k)) /\ Path(body, k - 1) = Those(a, q)
    <3>1. \A c \in 0..Len(body) : Path(body, c) = Those(Signs(body), Enclosing(body, c))
      BY PathIs
    <3> QED
      BY <1>1, <1>2, <2>1, <3>1
  <2> QED
    BY <2>4, <2>5, <2>6
<1>5. ASSUME NEW c \in k..body[k].end - 1 PROVE IsPrefix(Path(body, k), Path(body, c))
  <2>1. c \in 0..Len(body) /\ c \in Nat /\ k \in Nat /\ k <= c
    BY <1>1
  <2>2. PICK q, r : q = Enclosing(body, k) /\ r = Enclosing(body, c)
    OBVIOUS
  <2>3. InOrder(OpenAt(body, c), k) = q /\ InOrder(OpenAt(body, c), c) = r
    BY <2>2, EnclosingBlock DEF Enclosing
  <2>4. Len(q) <= Len(r) /\ Len(q) \in Nat /\ Len(r) \in Nat /\ \A j \in 1..Len(q) : r[j] = q[j]
    BY <2>1, <2>3, InOrderSplit
  <2>5. PICK s, t : s = Path(body, k) /\ t = Path(body, c)
    OBVIOUS
  <2>6. /\ Len(s) = Len(q) /\ \A j \in 1..Len(s) : s[j] = Signs(body)[q[j]]
        /\ Len(t) = Len(r) /\ \A j \in 1..Len(t) : t[j] = Signs(body)[r[j]]
    BY <1>1, <2>1, <2>2, <2>5, PathIs
  <2>7. Len(s) <= Len(t) /\ \A j \in 1..Len(s) : s[j] = t[j]
    BY <2>4, <2>6
  <2>8. IsPrefix(s, t)
    BY <2>4, <2>6, <2>7, PrefixIs
  <2> QED
    BY <2>5, <2>8
<1> QED
  BY <1>3, <1>4, <1>5

(* Statements that neither begin nor end a block have the path of the one  *)
(* before.                                                                 *)
LEMMA PathSame ==
    ASSUME NEW body, Nesting(body), NEW k \in 1..Len(body), body[k].op \notin {"open", "close"}
    PROVE  Path(body, k) = Path(body, k - 1)
<1>1. k - 1 \in 0..Len(body) /\ k \in 0..Len(body)
  BY DEF Nesting
<1> QED
  BY <1>1, EnclosingSame, PathIs

(* Before the first statement the path is empty.                           *)
LEMMA PathNone ==
    ASSUME NEW body, Nesting(body)
    PROVE  Path(body, 0) = <<>>
<1>1. 0 \in 0..Len(body)
  BY DEF Nesting
<1>2. Enclosing(body, 0) = <<>>
  BY InOrderNone DEF Enclosing
<1>3. Len(Path(body, 0)) = 0 /\ Path(body, 0) \in Seq(SignSet(body))
  BY <1>1, <1>2, PathIs
<1> QED
  BY <1>3, EmptySeq

(* A path with an element more is admitted if it was and the filters let   *)
(* the new level through.                                                  *)
LEMMA AdmittedNext ==
    ASSUME NEW T, NEW path \in Seq(T), NEW e \in T
    PROVE  /\ Admitted(Append(path, e)) <=>
              /\ Admitted(path)
              /\ Len(path) + 1 <= SizeT(p.subcase_filter_levels) =>
                    /\ Filter(6) = <<>> \/ Selects(Filter(6), e.name, p.case_sensitive)
                    /\ ~Selects(Filter(7), e.name, p.case_sensitive)
<1>1. PICK a : a = Append(path, e)
  OBVIOUS
<1>2. /\ a \in Seq(T) /\ Len(a) = Len(path) + 1 /\ a[Len(path) + 1] = e /\ \A j \in 1..Len(path) : a[j] = path[j]
  BY <1>1, AppendProperties
<1>3. Len(path) \in Nat /\ DOMAIN path = 1..Len(path) /\ DOMAIN a = 1..Len(path) + 1
  BY <1>2, LenProperties
<1> DEFINE Fine(j, s) == j <= SizeT(p.subcase_filter_levels) =>
                             /\ Filter(6) = <<>> \/ Selects(Filter(6), s.name, p.case_sensitive)
                             /\ ~Selects(Filter(7), s.name, p.case_sensitive)
<1>4. /\ Admitted(a) <=> \A j \in DOMAIN a : Fine(j, a[j])
      /\ Admitted(path) <=> \A j \in DOMAIN path : Fine(j, path[j])
  BY DEF Admitted
<1> HIDE DEF Fine
<1>5. (\A j \in DOMAIN a : Fine(j, a[j])) <=> (\A j \in DOMAIN path : Fine(j, path[j])) /\ Fine(Len(path) + 1, e)
  <2>1. \A j \in 1..Len(path) : j \in 1..Len(path) + 1 /\ a[j] = path[j]
    BY <1>2, <1>3
  <2>2. Len(path) + 1 \in 1..Len(path) + 1
    BY <1>3
  <2>3. \A j \in 1..Len(path) + 1 : j \in 1..Len(path) \/ j = Len(path) + 1
    BY <1>3
  <2> QED
    BY <1>2, <1>3, <2>1, <2>2, <2>3
<1> QED
  BY <1>1, <1>4, <1>5 DEF Fine

(* The prefixes of an admitted path are admitted.                          *)
LEMMA AdmittedPrefix ==
    ASSUME NEW s, NEW t, Len(s) \in Nat, Len(t) \in Nat, DOMAIN s = 1..Len(s), DOMAIN t = 1..Len(t),
           IsPrefix(s, t), Admitted(t)
    PROVE  Admitted(s)
<1>1. \A j \in 1..Len(s) : j \in 1..Len(t) /\ s[j] = t[j]
  BY PrefixIs
<1> QED
  BY <1>1 DEF Admitted

Nests(body) == Nesting(body) /\ DOMAIN body = 1..Len(body)

(* The admitted paths are those of SUBCASEs, and a leaf leads to no other. *)
LEMMA AdmittedIs ==
    ASSUME NEW body, Nests(body)
    PROVE  /\ \A q \in AdmittedPaths(body) : /\ q \in Seq(SignSet(body)) /\ Len(q) \in Nat \ {0} /\ Admitted(q)
                                             /\ \E c \in Opens(body) : q = Path(body, c)
           /\ \A o \in Opens(body) : Admitted(Path(body, o)) <=> Path(body, o) \in AdmittedPaths(body)
           /\ \A leaf \in Leaves(body) : /\ leaf \in AdmittedPaths(body)
                                         /\ \A q \in AdmittedPaths(body) : IsPrefix(leaf, q) => leaf = q
<1>1. Nesting(body) /\ Len(body) \in Nat /\ \A o \in Opens(body) : o \in 1..Len(body) /\ body[o].op = "open"
  BY DEF Nests, Nesting, Opens
<1>2. ASSUME NEW c \in Opens(body) PROVE Path(body, c) \in Seq(SignSet(body)) /\ Len(Path(body, c)) \in Nat \ {0}
  <2>1. c - 1 \in 0..Len(body) /\ c \in 0..Len(body)
    BY <1>1
  <2>2. Path(body, c - 1) \in Seq(SignSet(body)) /\ Path(body, c) \in Seq(SignSet(body)) /\ Len(Path(body, c)) \in Nat
    BY <1>1, <2>1, PathIs
  <2>3. Path(body, c) = Append(Path(body, c - 1), [name |-> body[c].name, line |-> body[c].line])
    BY <1>1, PathBlock
  <2>4. [name |-> body[c].name, line |-> body[c].line] \in SignSet(body)
    BY <1>1 DEF SignSet
  <2>5. Path(body, c) # <<>>
    BY <2>2, <2>3, <2>4, AppendProperties
  <2> QED
    BY <2>2, <2>5, EmptySeq
<1>3. \A leaf \in Leaves(body) : /\ leaf \in AdmittedPaths(body)
                                 /\ \A q \in AdmittedPaths(body) : IsPrefix(leaf, q) => leaf = q
  BY DEF Leaves, IsStrictPrefix
<1>4. \A q \in AdmittedPaths(body) : Admitted(q) /\ \E c \in Opens(body) : q = Path(body, c)
  BY DEF AdmittedPaths
<1>5. \A o \in Opens(body) : Admitted(Path(body, o)) <=> Path(body, o) \in AdmittedPaths(body)
  BY DEF AdmittedPaths
<1> QED
  BY <1>2, <1>3, <1>4, <1>5

(* The entries of a path in a list.                                        *)
EntriesIn(entered, path) == {k \in DOMAIN entered : entered[k] = path}

(* An entry more is one of the path entered, and of no other.              *)
LEMMA EntriesNext ==
    ASSUME NEW A, NEW entered \in Seq(A), NEW new \in A, NEW q
    PROVE  /\ IsFiniteSet(EntriesIn(entered, q))
           /\ q # new => EntriesIn(Append(entered, new), q) = EntriesIn(entered, q)
           /\ Cardinality(EntriesIn(entered, new)) = 0 => Cardinality(EntriesIn(Append(entered, new), new)) = 1
<1>1. PICK e : e = Append(entered, new)
  OBVIOUS
<1>2. /\ e \in Seq(A) /\ Len(e) = Len(entered) + 1 /\ e[Len(entered) + 1] = new
      /\ \A j \in 1..Len(entered) : e[j] = entered[j]
  BY <1>1, AppendProperties
<1>3. Len(entered) \in Nat /\ DOMAIN entered = 1..Len(entered) /\ DOMAIN e = 1..Len(entered) + 1
  BY <1>2, LenProperties
<1>4. \A x : IsFiniteSet(EntriesIn(entered, x))
  <2> SUFFICES ASSUME NEW x PROVE IsFiniteSet(EntriesIn(entered, x))
    OBVIOUS
  <2>1. IsFiniteSet(1..Len(entered)) /\ EntriesIn(entered, x) \subseteq 1..Len(entered)
    BY <1>3, FS_Interval DEF EntriesIn
  <2> QED
    BY <2>1, FS_Subset
<1>5. \A j \in 1..Len(entered) + 1 : j \in 1..Len(entered) \/ j = Len(entered) + 1
  BY <1>3
<1>6. ASSUME q # new PROVE EntriesIn(e, q) = EntriesIn(entered, q)
  BY <1>2, <1>3, <1>5, <1>6 DEF EntriesIn
<1>7. ASSUME Cardinality(EntriesIn(entered, new)) = 0 PROVE Cardinality(EntriesIn(e, new)) = 1
  <2>1. EntriesIn(entered, new) = {}
    BY <1>4, <1>7, FS_EmptySet
  <2>2. \A j \in 1..Len(entered) : entered[j] # new
    BY <1>3, <2>1 DEF EntriesIn
  <2>3. EntriesIn(e, new) = {Len(entered) + 1}
    BY <1>2, <1>3, <1>5, <2>2 DEF EntriesIn
  <2> QED
    BY <2>3, FS_Singleton
<1> QED
  BY <1>1, <1>4, <1>6, <1>7

(* LeavesSoFar as of what it is about.                                     *)
Counts(L, entered, passed, stack) ==
    \A leaf \in L : Cardinality(EntriesIn(entered, leaf)) =
                        IF leaf \in passed \/ IsPrefix(leaf, stack) THEN 1 ELSE 0

(* When a path is entered that is neither passed nor open, its entries     *)
(* become one and the others stay.                                         *)
LEMMA CountsNext ==
    ASSUME NEW A, NEW entered \in Seq(A), NEW new \in A, NEW L, NEW passed, NEW stack,
           Counts(L, entered, passed, stack), new \notin passed, ~IsPrefix(new, stack),
           \A leaf \in L : IsPrefix(leaf, new) <=> leaf = new \/ IsPrefix(leaf, stack)
    PROVE  Counts(L, Append(entered, new), passed, new)
<1> SUFFICES ASSUME NEW leaf \in L
             PROVE  Cardinality(EntriesIn(Append(entered, new), leaf)) =
                        IF leaf \in passed \/ IsPrefix(leaf, new) THEN 1 ELSE 0
  BY DEF Counts
<1>1. Cardinality(EntriesIn(entered, leaf)) = IF leaf \in passed \/ IsPrefix(leaf, stack) THEN 1 ELSE 0
  BY DEF Counts
<1>2. CASE leaf = new
  <2>1. Cardinality(EntriesIn(entered, new)) = 0
    BY <1>1, <1>2
  <2> QED
    BY <1>2, <2>1, EntriesNext
<1>3. CASE leaf # new
  <2>1. EntriesIn(Append(entered, new), leaf) = EntriesIn(entered, leaf)
    BY <1>3, EntriesNext
  <2> QED
    BY <1>1, <1>3, <2>1
<1> QED
  BY <1>2, <1>3

Trail(A, entered, stack, maxLevel) ==
    /\ entered \in Seq(A)
    /\ maxLevel > 0 => entered # <<>> /\ Len(Last(entered)) = maxLevel /\ IsPrefix(stack, Last(entered))

(* Entering a SUBCASE extends the trail.                                   *)
LEMMA TrailNext ==
    ASSUME NEW A, NEW entered \in Seq(A), NEW new \in A, IsPrefix(new, new)
    PROVE  Trail(A, Append(entered, new), new, Len(new))
<1>1. /\ Append(entered, new) \in Seq(A) /\ Append(entered, new) # <<>> /\ Last(Append(entered, new)) = new
  BY AppendEnds
<1> QED
  BY <1>1 DEF Trail

AllBelow(A, passed) == \A path \in passed, q \in A : IsPrefix(path, q) => q \in passed

Passes(body, A, passed, reenter, n) ==
    Uniform(body) =>
        /\ AllBelow(A, passed)
        /\ ~reenter => \A o \in Opens(body) : (body[o].end <= n /\ Path(body, o) \in A) => Path(body, o) \in passed

(* What LeavesInv says of a pass, when a subcase is entered.               *)
LEMMA LeavesEnter ==
    ASSUME NEW body, Nests(body), NEW k \in Opens(body), NEW A, A = AdmittedPaths(body),
           NEW L, L = Leaves(body), NEW entered, NEW passed, NEW maxLevel, NEW reenter, NEW stack, NEW new,
           stack = Path(body, k - 1), new = Append(stack, [name |-> body[k].name, line |-> body[k].line]),
           Admitted(new), new \notin passed,
           Trail(A, entered, stack, maxLevel), Counts(L, entered, passed, stack), Passes(body, A, passed, reenter, k - 1)
    PROVE  /\ new = Path(body, k) /\ Trail(A, Append(entered, new), new, Len(new))
           /\ Counts(L, Append(entered, new), passed, new) /\ Passes(body, A, passed, reenter, k)
<1>1. /\ Nesting(body) /\ k \in 1..Len(body) /\ body[k].op = "open" /\ Len(body) \in Nat /\ k - 1 \in 0..Len(body)
      /\ k \in Nat
  <2>1. Nesting(body) /\ DOMAIN body = 1..Len(body)
    BY DEF Nests
  <2>2. Len(body) \in Nat
    BY <2>1 DEF Nesting
  <2>3. k \in 1..Len(body) /\ body[k].op = "open"
    BY <2>1 DEF Opens
  <2> QED
    BY <2>1, <2>2, <2>3
<1>2. new = Path(body, k)
  BY <1>1, PathBlock
<1>3. new \in A
  BY <1>2, AdmittedIs
<1>4. stack \in Seq(SignSet(body)) /\ [name |-> body[k].name, line |-> body[k].line] \in SignSet(body)
  BY <1>1, PathIs DEF SignSet
<1>5. Len(stack) \in Nat /\ Len(new) \in Nat /\ new \in Seq(SignSet(body))
  BY <1>3, <1>4, LenProperties, AdmittedIs
<1>6. entered \in Seq(A)
  BY DEF Trail
<1>7. Trail(A, Append(entered, new), new, Len(new))
  <2>1. IsPrefix(new, new)
    BY <1>5, PrefixIs
  <2> QED
    BY <1>3, <1>6, <2>1, TrailNext
<1>8. Counts(L, Append(entered, new), passed, new)
  <2>1. ASSUME NEW leaf \in L
        PROVE  (IsPrefix(leaf, new) <=> leaf = new \/ IsPrefix(leaf, stack)) /\ ~IsPrefix(new, stack)
    <3>1. leaf \in Seq(SignSet(body))
      BY AdmittedIs
    <3> QED
      BY <1>4, <3>1, PrefixNext
  <2>2. ~IsPrefix(new, stack)
    BY <1>5, <1>4, PrefixNext
  <2> QED
    BY <1>3, <1>6, <2>1, <2>2, CountsNext
<1>9. Passes(body, A, passed, reenter, k)
  <2>1. \A o \in Opens(body) : body[o].end <= k => body[o].end <= k - 1
    <3> SUFFICES ASSUME NEW o \in Opens(body) PROVE body[o].end \in Nat /\ body[o].end # k
      BY <1>1
    <3> QED
      BY <1>1 DEF Opens, Nests, Nesting
  <2> QED
    BY <2>1 DEF Passes
<1> QED
  BY <1>2, <1>7, <1>8, <1>9

(* The same when one is skipped: it is excluded, or passed with all that   *)
(* is in it, or there will be another pass.                                *)
LEMMA LeavesSkip ==
    ASSUME NEW body, Nests(body), NEW k \in Opens(body), NEW A, A = AdmittedPaths(body), NEW passed,
           NEW reenter, NEW again, ~again => ~reenter, NEW stack, NEW new,
           stack = Path(body, k - 1), new = Append(stack, [name |-> body[k].name, line |-> body[k].line]),
           again \/ ~Admitted(new) \/ new \in passed, Passes(body, A, passed, reenter, k - 1)
    PROVE  Passes(body, A, passed, again, body[k].end) /\ stack = Path(body, body[k].end)
<1>1. /\ Nesting(body) /\ k \in 1..Len(body) /\ body[k].op = "open" /\ Len(body) \in Nat /\ k \in Nat
  BY DEF Nests, Nesting, Opens
<1>2. /\ new = Path(body, k) /\ stack = Path(body, body[k].end)
      /\ \A c \in k..body[k].end - 1 : IsPrefix(new, Path(body, c))
  BY <1>1, PathBlock
<1>3. ASSUME Uniform(body), ~again, NEW o \in Opens(body), body[o].end <= body[k].end, Path(body, o) \in A
      PROVE  Path(body, o) \in passed
  <2>1. /\ o \in 1..Len(body) /\ body[o].end \in o + 1..Len(body) /\ body[k].end \in k + 1..Len(body)
        /\ o \in Nat /\ body[o].op = "open"
    BY <1>1 DEF Opens, Nests, Nesting
  <2>2. CASE body[o].end <= k - 1
    BY <1>3, <2>2 DEF Passes
  <2>3. CASE body[o].end > k - 1
    <3>1. o >= k
      <4>1. SUFFICES ASSUME o < k PROVE FALSE
        BY <1>1, <2>1
      <4>2. o \in 1..k - 1 /\ body[o].end >= k
        BY <1>1, <2>1, <2>3, <4>1
      <4>3. body[o].end > body[k].end
        BY <1>1, <2>1, <4>2, BlocksNest
      <4> QED
        BY <1>3, <2>1, <4>3
    <3>2. o \in k..body[k].end - 1
      BY <1>1, <1>3, <2>1, <3>1, SMTT(30)
    <3>3. IsPrefix(new, Path(body, o))
      BY <1>2, <3>2
    <3>4. new \in Seq(SignSet(body)) /\ Path(body, o) \in Seq(SignSet(body))
      <4>1. k \in 0..Len(body) /\ o \in 0..Len(body)
        BY <1>1, <2>1
      <4> QED
        BY <1>1, <1>2, <4>1, PathIs
    <3>5. Admitted(Path(body, o))
      BY <1>3, AdmittedIs
    <3>6. Admitted(new)
      BY <3>3, <3>4, <3>5, AdmittedPrefix, LenProperties
    <3> QED
      BY <1>3, <3>3, <3>6 DEF Passes, AllBelow
  <2> QED
    BY <1>1, <2>1, <2>2, <2>3
<1> QED
  BY <1>2, <1>3 DEF Passes

(* The same at a statement that neither begins a block nor ends one.       *)
LEMMA LeavesMove ==
    ASSUME NEW body, Nests(body), NEW k \in 1..Len(body), body[k].op \notin {"open", "close"},
           NEW A, NEW passed, NEW reenter, Passes(body, A, passed, reenter, k - 1)
    PROVE  Passes(body, A, passed, reenter, k) /\ Path(body, k) = Path(body, k - 1)
<1>1. Nesting(body) /\ k \in Nat
  BY DEF Nests, Nesting
<1>2. \A o \in Opens(body) : body[o].end <= k => body[o].end <= k - 1
  <2> SUFFICES ASSUME NEW o \in Opens(body) PROVE body[o].end \in Nat /\ body[o].end # k
    BY <1>1
  <2> QED
    BY <1>1 DEF Opens, Nests, Nesting
<1> QED
  BY <1>1, <1>2, PathSame DEF Passes

(* The SUBCASE whose block ends at a brace, which is the only one.         *)
LEMMA BlockBefore ==
    ASSUME NEW body, Nests(body), NEW k \in 1..Len(body), body[k].op = "close"
    PROVE  \E o \in Opens(body) :
              /\ body[o].end = k /\ o \in 1..k - 1 /\ o \in 1..Len(body) /\ body[o].op = "open"
              /\ \A d \in Opens(body) : (d # o /\ d \in o..k) => body[d].end <= k - 1
              /\ \A d \in Opens(body) : body[d].end <= k => d = o \/ body[d].end <= k - 1
<1>1. Nesting(body) /\ DOMAIN body = 1..Len(body) /\ Len(body) \in Nat /\ k \in Nat
  BY DEF Nests, Nesting
<1>2. PICK o \in 1..k - 1 : body[o].op = "open" /\ body[o].end = k
  BY <1>1 DEF Nesting
<1>3. o \in Opens(body) /\ o \in 1..Len(body) /\ o \in Nat
  BY <1>1, <1>2 DEF Opens
<1>4. ASSUME NEW d \in Opens(body) PROVE d \in 1..Len(body) /\ body[d].op = "open" /\ body[d].end \in d + 1..Len(body)
  <2>1. d \in 1..Len(body) /\ body[d].op = "open"
    BY <1>1 DEF Opens
  <2> QED
    BY <1>1, <2>1 DEF Nesting
<1>5. ASSUME NEW d \in Opens(body), d # o, d \in o..k PROVE body[d].end <= k - 1
  <2>1. o \in 1..d - 1 /\ body[o].end >= d /\ d \in 1..Len(body) /\ body[d].op = "open"
    BY <1>1, <1>2, <1>3, <1>4, <1>5
  <2>2. body[o].end > body[d].end
    BY <1>1, <1>2, <2>1, BlocksNest
  <2> QED
    BY <1>1, <1>2, <1>4, <2>2
<1>6. ASSUME NEW d \in Opens(body), body[d].end <= k, d # o PROVE body[d].end <= k - 1
  <2>1. d \in 1..Len(body) /\ body[d].end \in d + 1..Len(body) /\ body[d].op = "open"
    BY <1>4
  <2>2. CASE d > o
    BY <1>1, <1>3, <1>5, <1>6, <2>1, <2>2
  <2>3. CASE d < o
    <3>1. SUFFICES ASSUME body[d].end = k PROVE FALSE
      BY <1>1, <1>6, <2>1
    <3>2. d \in 1..o - 1 /\ body[d].end >= o
      BY <1>1, <1>2, <1>3, <2>1, <2>3, <3>1
    <3>3. body[d].end > body[o].end
      BY <1>1, <1>2, <1>3, <2>1, <3>2, BlocksNest
    <3> QED
      BY <1>1, <1>2, <3>1, <3>3
  <2> QED
    BY <1>3, <1>6, <2>1, <2>2, <2>3
<1> QED
  BY <1>2, <1>3, <1>5, <1>6

(* A path and the one without its last signature.                          *)
OneLonger(T, stack, front) ==
    /\ Front(stack) = front /\ stack \in Seq(T) /\ Len(stack) = Len(front) + 1
    /\ \A j \in 1..Len(front) : stack[j] = front[j]
    /\ \A q \in Seq(T) : IsPrefix(q, stack) <=> q = stack \/ IsPrefix(q, front)

(* The path of a SUBCASE is one longer than that of the block around it.   *)
LEMMA PathBefore ==
    ASSUME NEW T, NEW front \in Seq(T), NEW e \in T
    PROVE  OneLonger(T, Append(front, e), front)
<1> DEFINE stack == Append(front, e)
<1>1. Front(stack) = front
  BY AppendEnds
<1>2. /\ stack \in Seq(T) /\ Len(stack) = Len(front) + 1 /\ \A j \in 1..Len(front) : stack[j] = front[j]
  BY AppendProperties
<1>3. \A q \in Seq(T) : IsPrefix(q, Append(front, e)) <=> q = Append(front, e) \/ IsPrefix(q, front)
  BY PrefixNext
<1> QED
  BY <1>1, <1>2, <1>3 DEF OneLonger

(* The same when a subcase is left, and marked as passed unless something  *)
(* was skipped.                                                            *)
LEMMA LeavesLeave ==
    ASSUME NEW body, Nests(body), NEW k \in 1..Len(body), body[k].op = "close", NEW A, A = AdmittedPaths(body),
           NEW L, L = Leaves(body), NEW entered, NEW passed, NEW maxLevel \in Nat, NEW reenter, NEW stack,
           stack = Path(body, k - 1), Admitted(stack), reenter => Len(stack) < maxLevel,
           Trail(A, entered, stack, maxLevel), Counts(L, entered, passed, stack),
           Passes(body, A, passed, reenter, k - 1),
           NEW after, after = IF reenter THEN passed ELSE passed \cup {stack}
    PROVE  /\ Front(stack) = Path(body, k) /\ Admitted(Front(stack)) /\ Trail(A, entered, Front(stack), maxLevel)
           /\ Counts(L, entered, after, Front(stack)) /\ Passes(body, A, after, reenter, k)
<1>1. Nesting(body) /\ DOMAIN body = 1..Len(body) /\ Len(body) \in Nat /\ k \in Nat
  BY DEF Nests, Nesting
<1>2. PICK o \in Opens(body) :
          /\ body[o].end = k /\ o \in 1..k - 1 /\ o \in 1..Len(body) /\ body[o].op = "open"
          /\ \A d \in Opens(body) : (d # o /\ d \in o..k) => body[d].end <= k - 1
          /\ \A d \in Opens(body) : body[d].end <= k => d = o \/ body[d].end <= k - 1
  BY BlockBefore
<1>3. PICK front, e : front = Path(body, o - 1) /\ e = [name |-> body[o].name, line |-> body[o].line]
  OBVIOUS
<1>4. Path(body, o) = Append(front, e) /\ Path(body, k - 1) = Path(body, o) /\ Path(body, k) = front
  BY <1>1, <1>2, <1>3, PathBlock
<1>5. front \in Seq(SignSet(body)) /\ e \in SignSet(body)
  <2>1. o - 1 \in 0..Len(body)
    BY <1>1, <1>2
  <2> QED
    BY <1>1, <1>2, <1>3, <2>1, PathIs DEF SignSet
<1>6. stack = Append(front, e) /\ stack = Path(body, o)
  BY <1>4
<1>7. /\ Front(stack) = front /\ stack \in Seq(SignSet(body)) /\ Len(stack) = Len(front) + 1
      /\ \A j \in 1..Len(front) : stack[j] = front[j]
      /\ \A q \in Seq(SignSet(body)) : IsPrefix(q, stack) <=> q = stack \/ IsPrefix(q, front)
  <2>1. OneLonger(SignSet(body), Append(front, e), front)
    BY <1>5, PathBefore
  <2> QED
    BY <1>6, <2>1 DEF OneLonger
<1>8. Len(front) \in Nat /\ Len(stack) \in Nat
  BY <1>5, <1>7, LenProperties
<1>9. Admitted(front)
  BY <1>5, <1>6, AdmittedNext
<1>10. maxLevel > 0 => /\ Last(entered) \in A /\ Last(entered) \in Seq(SignSet(body))
                       /\ Len(Last(entered)) = maxLevel /\ IsPrefix(stack, Last(entered))
  <2> SUFFICES ASSUME maxLevel > 0 PROVE Last(entered) \in A /\ Last(entered) \in Seq(SignSet(body))
    BY DEF Trail
  <2>1. entered \in Seq(A) /\ entered # <<>>
    BY DEF Trail
  <2>2. Last(entered) \in A
    <3>1. Len(entered) \in 1..Len(entered)
      BY <2>1, EmptySeq, LenProperties
    <3> QED
      BY <2>1, <3>1, ElementOfSeq DEF Last
  <2> QED
    BY <2>2, AdmittedIs
<1>11. Trail(A, entered, front, maxLevel)
  <2> SUFFICES ASSUME maxLevel > 0 PROVE IsPrefix(front, Last(entered))
    BY DEF Trail
  <2>1. PICK last : last = Last(entered)
    OBVIOUS
  <2>2. Len(last) \in Nat /\ Len(stack) <= Len(last) /\ \A j \in 1..Len(stack) : stack[j] = last[j]
    BY <1>8, <1>10, <2>1, PrefixIs, LenProperties
  <2>3. Len(front) <= Len(last) /\ \A j \in 1..Len(front) : front[j] = last[j]
    BY <1>7, <1>8, <2>2
  <2> QED
    BY <1>8, <2>1, <2>2, <2>3, PrefixIs
<1>12. \A leaf \in L : /\ IsPrefix(leaf, stack) <=> leaf = stack \/ IsPrefix(leaf, front)
                       /\ reenter => leaf # stack
  <2> SUFFICES ASSUME NEW leaf \in L
               PROVE  (IsPrefix(leaf, stack) <=> leaf = stack \/ IsPrefix(leaf, front)) /\ (reenter => leaf # stack)
    OBVIOUS
  <2>1. leaf \in Seq(SignSet(body)) /\ \A q \in A : IsPrefix(leaf, q) => leaf = q
    BY AdmittedIs
  <2>2. IsPrefix(leaf, stack) <=> leaf = stack \/ IsPrefix(leaf, front)
    BY <1>7, <2>1
  <2>3. ASSUME reenter, leaf = stack PROVE FALSE
    <3>1. Len(stack) < maxLevel /\ maxLevel > 0
      BY <1>8, <2>3
    <3>2. leaf = Last(entered) /\ Len(Last(entered)) = maxLevel
      BY <1>10, <2>1, <2>3, <3>1
    <3> QED
      BY <1>8, <2>3, <3>1, <3>2
  <2> QED
    BY <2>2, <2>3
<1>13. Counts(L, entered, after, front)
  <2> SUFFICES ASSUME NEW leaf \in L
               PROVE  leaf \in after \/ IsPrefix(leaf, front) <=> leaf \in passed \/ IsPrefix(leaf, stack)
    BY DEF Counts
  <2> QED
    BY <1>12
<1>14. ASSUME Uniform(body), ~reenter PROVE AllBelow(A, after)
  <2> SUFFICES ASSUME NEW path \in after, NEW q \in A, IsPrefix(path, q) PROVE q \in after
    BY DEF AllBelow
  <2>1. CASE path \in passed
    BY <1>14, <2>1 DEF Passes, AllBelow
  <2>2. CASE path = stack
    <3>1. PICK c \in Opens(body) : q = Path(body, c)
      BY AdmittedIs
    <3>2. PICK d \in Opens(body) \cap (o..body[o].end) : Path(body, d) = q
      BY <1>2, <1>6, <1>14, <2>2, <3>1 DEF Uniform
    <3>3. CASE d = o
      BY <1>6, <1>14, <3>2, <3>3
    <3>4. CASE d # o
      <4>1. body[d].end <= k - 1
        BY <1>2, <3>2, <3>4
      <4> QED
        BY <1>14, <3>2, <4>1 DEF Passes
    <3> QED
      BY <3>3, <3>4
  <2> QED
    BY <1>14, <2>1, <2>2
<1>15. ASSUME Uniform(body), ~reenter, NEW d \in Opens(body), body[d].end <= k, Path(body, d) \in A
       PROVE  Path(body, d) \in after
  <2>1. d = o \/ body[d].end <= k - 1
    BY <1>2, <1>15
  <2> QED
    BY <1>6, <1>15, <2>1 DEF Passes
<1>16. Passes(body, A, after, reenter, k)
  <2>1. CASE reenter
    BY <2>1 DEF Passes
  <2>2. CASE ~reenter
    BY <1>14, <1>15, <2>2 DEF Passes
  <2> QED
    BY <2>1, <2>2
<1> QED
  BY <1>4, <1>7, <1>9, <1>11, <1>13, <1>16

-----------------------------------------------------------------------------
(* Each leaf is entered once.                                              *)

(* LeavesSoFar inside a test function, and outside.                        *)
Inside(body) ==
    /\ Trail(AdmittedPaths(body), hist.entered, sub.stack, sub.maxLevel)
    /\ Counts(Leaves(body), hist.entered, sub.passed, sub.stack)
    /\ Passes(body, AdmittedPaths(body), sub.passed, sub.reenter, Behind)
    /\ sub.stack = Path(body, Behind) /\ Admitted(sub.stack)

CountsAll(L, entered, passed) ==
    \A leaf \in L : Cardinality(EntriesIn(entered, leaf)) = IF leaf \in passed THEN 1 ELSE 0

Outside(body) ==
    /\ hist.entered \in Seq(AdmittedPaths(body))
    /\ CountsAll(Leaves(body), hist.entered, sub.passed)
    /\ Uniform(body) =>
          /\ AllBelow(AdmittedPaths(body), sub.passed)
          /\ phase \in {"after", "finalize"} /\ ~sub.reenter => AdmittedPaths(body) \subseteq sub.passed
    /\ (phase = "finalize" /\ "TooManyFailedAsserts" \notin cur.flags) => ~sub.reenter

(* LeavesSoFar by its parts.                                               *)
LEMMA LeavesParts ==
    ASSUME LeavesSoFar
    PROVE  (InBody => Inside(Test.body)) /\ (~InBody => Outside(Test.body))
<1>1. ASSUME InBody PROVE Inside(Test.body)
  <2>1. Counts(Leaves(Test.body), hist.entered, sub.passed, sub.stack)
    BY <1>1 DEF LeavesSoFar, Counts, Entries, EntriesIn
  <2>2. Passes(Test.body, AdmittedPaths(Test.body), sub.passed, sub.reenter, Behind)
    BY <1>1 DEF LeavesSoFar, Passes, AllBelow
  <2>3. Trail(AdmittedPaths(Test.body), hist.entered, sub.stack, sub.maxLevel)
    BY <1>1 DEF LeavesSoFar, Trail
  <2> QED
    BY <1>1, <2>1, <2>2, <2>3 DEF LeavesSoFar, Inside
<1>2. ASSUME ~InBody PROVE Outside(Test.body)
  <2>1. CountsAll(Leaves(Test.body), hist.entered, sub.passed)
    BY <1>2 DEF LeavesSoFar, CountsAll, Entries, EntriesIn
  <2>2. Uniform(Test.body) =>
          /\ AllBelow(AdmittedPaths(Test.body), sub.passed)
          /\ phase \in {"after", "finalize"} /\ ~sub.reenter => AdmittedPaths(Test.body) \subseteq sub.passed
    BY <1>2 DEF LeavesSoFar, AllBelow
  <2> QED
    BY <1>2, <2>1, <2>2 DEF LeavesSoFar, Outside
<1> QED
  BY <1>1, <1>2

(* The same after a step, inside a test function and outside.              *)
LEMMA InsidePrimed ==
    ASSUME NEW body, Test'.body = body, InBody', Inside(body)'
    PROVE  LeavesInv'
<1>1. PICK A, L : A = AdmittedPaths(body)' /\ L = Leaves(body)'
  OBVIOUS
<1>2. A = AdmittedPaths(Test.body)' /\ L = Leaves(Test.body)'
  BY <1>1
<1>3. /\ Trail(A, hist'.entered, sub'.stack, sub'.maxLevel) /\ Counts(L, hist'.entered, sub'.passed, sub'.stack)
      /\ Passes(body, A, sub'.passed, sub'.reenter, Behind')
      /\ sub'.stack = Path(body, Behind') /\ Admitted(sub.stack)'
  BY <1>1 DEF Inside
<1>4. phase' \notin {"finalize", "after"}
  BY DEF InBody
<1>5. \A leaf \in L : Cardinality(Entries(leaf)') =
          IF leaf \in sub'.passed \/ (InBody' /\ IsPrefix(leaf, sub'.stack)) THEN 1 ELSE 0
  BY <1>3 DEF Counts, Entries, EntriesIn
<1>6. \/ /\ \A path \in sub'.passed, q \in A : IsPrefix(path, q) => q \in sub'.passed
         /\ (InBody' /\ ~sub'.reenter) =>
               \A o \in Opens(body) : (body[o].end <= Behind' /\ Path(body, o) \in A) => Path(body, o) \in sub'.passed
      \/ ~Uniform(body)
  BY <1>3 DEF Passes, AllBelow
<1>7. LeavesSoFar'
  BY <1>2, <1>3, <1>4, <1>5, <1>6 DEF LeavesSoFar, Trail
<1> QED
  BY <1>7 DEF LeavesInv

(* The same, outside.                                                      *)
LEMMA OutsidePrimed ==
    ASSUME NEW body, Test'.body = body, ~InBody', Outside(body)'
    PROVE  LeavesInv'
<1>1. PICK A, L : A = AdmittedPaths(body)' /\ L = Leaves(body)'
  OBVIOUS
<1>2. A = AdmittedPaths(Test.body)' /\ L = Leaves(Test.body)'
  BY <1>1
<1>3. /\ hist'.entered \in Seq(A) /\ CountsAll(L, hist'.entered, sub'.passed)
      /\ Uniform(body) => /\ AllBelow(A, sub'.passed)
                          /\ phase' \in {"after", "finalize"} /\ ~sub'.reenter => A \subseteq sub'.passed
      /\ (phase' = "finalize" /\ "TooManyFailedAsserts" \notin cur'.flags) => ~sub'.reenter
  BY <1>1 DEF Outside
<1>4. \A leaf \in L : Cardinality(Entries(leaf)') =
          IF leaf \in sub'.passed \/ (InBody' /\ IsPrefix(leaf, sub'.stack)) THEN 1 ELSE 0
  BY <1>3 DEF CountsAll, Entries, EntriesIn
<1>5. \/ /\ \A path \in sub'.passed, q \in A : IsPrefix(path, q) => q \in sub'.passed
         /\ phase' \in {"after", "finalize"} /\ ~sub'.reenter => A \subseteq sub'.passed
      \/ ~Uniform(body)
  BY <1>3 DEF AllBelow
<1>6. LeavesSoFar'
  BY <1>2, <1>3, <1>4, <1>5 DEF LeavesSoFar
<1> QED
  BY <1>6 DEF LeavesInv

(* While the options stay the same the same paths are admitted.            *)
LEMMA AdmittedStays ==
    ASSUME p' = p
    PROVE  /\ \A path : Admitted(path)' <=> Admitted(path)
           /\ \A body : AdmittedPaths(body)' = AdmittedPaths(body)
           /\ \A body : Leaves(body)' = Leaves(body)
<1>1. \A path : Admitted(path)' <=> Admitted(path)
  BY DEF Admitted, Filter
<1>2. \A body : AdmittedPaths(body)' = AdmittedPaths(body)
  <2> SUFFICES ASSUME NEW body PROVE AdmittedPaths(body)' = AdmittedPaths(body)
    OBVIOUS
  <2>1. PICK P : P = {Path(body, k) : k \in Opens(body)}
    OBVIOUS
  <2>2. AdmittedPaths(body) = {path \in P : Admitted(path)} /\ AdmittedPaths(body)' = {path \in P : Admitted(path)'}
    BY <2>1 DEF AdmittedPaths
  <2> QED
    BY <1>1, <2>2
<1>3. \A body : Leaves(body)' = Leaves(body)
  BY <1>2 DEF Leaves
<1> QED
  BY <1>1, <1>2, <1>3

(* A step that leaves alone what Inside is about.                          *)
LEMMA InsideFrame ==
    ASSUME NEW body, Inside(body), p' = p, hist'.entered = hist.entered, Behind' = Behind, sub'.stack = sub.stack,
           sub'.passed = sub.passed, sub'.maxLevel = sub.maxLevel, sub'.reenter = sub.reenter
    PROVE  Inside(body)'
<1>1. /\ AdmittedPaths(body)' = AdmittedPaths(body) /\ Leaves(body)' = Leaves(body)
      /\ Admitted(sub.stack)' <=> Admitted(sub.stack)
  <2>1. Admitted(sub.stack)' <=> Admitted(sub.stack)
    BY DEF Admitted, Filter
  <2> QED
    BY <2>1, AdmittedStays
<1> QED
  BY <1>1 DEF Inside, Trail, Counts, Passes

(* LeavesInv inside a test case that has thrown nothing, without the       *)
(* conditions.                                                             *)
LEMMA LeavesHere ==
    ASSUME TypeOK, SkipInv, PointsInv, VerdictsInv, LeavesInv, fatal.pc = "no", InBody, ~hist.threw
    PROVE  /\ Nests(Test.body) /\ Inside(Test.body) /\ exception = "none" /\ phase # "unwind"
           /\ Len(Test.body) \in Nat /\ ip \in Nat \ {0} /\ ip \in 1..Len(Test.body) + 1
           /\ sub.maxLevel \in Nat /\ sub.reenter \in BOOLEAN /\ (sub.reenter => Len(sub.stack) < sub.maxLevel)
           /\ Len(sub.stack) \in Nat
<1>1. /\ IsTest(Test) /\ Len(Test.body) \in Nat /\ DOMAIN Test.body = 1..Len(Test.body)
      /\ ip \in 1..Len(Test.body) + 1 /\ ip \in Nat
  BY StatementHere
<1>2. Nests(Test.body)
  BY <1>1, TestsNest DEF Nests
<1>3. InTest /\ phase # "end"
  BY DEF InBody, InTest
<1>4. Inside(Test.body)
  BY <1>3, LeavesParts DEF LeavesInv
<1>5. exception = "none" /\ phase # "unwind"
  BY <1>3 DEF PointsInv, VerdictsInv, InBody
<1>6. /\ sub.maxLevel \in Nat /\ sub.reenter \in BOOLEAN /\ (sub.reenter => Len(sub.stack) < sub.maxLevel)
      /\ Len(sub.stack) \in Nat
  BY LenProperties DEF SkipInv, SubcaseFields, AboveDeepest
<1> QED
  BY <1>1, <1>2, <1>4, <1>5, <1>6

(* What an int becomes as a size_t.                                        *)
LEMMA SizeTIsANumber ==
    ASSUME NEW n \in Int
    PROVE  SizeT(n) \in Nat
<1>1. INT_MAX \in Nat
  BY WidthAssumption
<1>2. UINT_MAX \in Nat
  BY <1>1 DEF UINT_MAX
<1>3. ASSUME NEW a \in Nat PROVE (a + 1) * (a + 1) \in Nat \ {0}
  <2>1. (a + 1) * (a + 1) = a * a + 2 * a + 1 /\ a * a \in Nat
    OBVIOUS
  <2> QED
    BY <2>1
<1>4. PICK size : size = SIZE_MAX + 1
  OBVIOUS
<1>5. size \in Nat \ {0}
  <2>1. (UINT_MAX + 1) * (UINT_MAX + 1) \in Nat \ {0}
    BY <1>2, <1>3
  <2> QED
    BY <1>4, <2>1 DEF SIZE_MAX
<1>6. n % size \in 0..size - 1
  BY <1>5
<1> QED
  BY <1>4, <1>5, <1>6 DEF SizeT

(* The filters exclude a subcase exactly when its path is not admitted.    *)
LEMMA FilteredIs ==
    ASSUME AreOptions(p), NEW name, IsString(name), NEW T, sub.stack \in Seq(T), NEW e \in T, e.name = name,
           Admitted(sub.stack)
    PROVE  Filtered(name) <=> ~Admitted(Append(sub.stack, e))
<1>1. \A k \in {6, 7} : \A mask \in ToSet(Filter(k)) : IsString(mask)
  <2> SUFFICES ASSUME NEW k \in {6, 7} PROVE \A mask \in ToSet(p.filters[k + 1]) : IsString(mask)
    BY DEF Filter
  <2>1. k + 1 \in 1..9
    OBVIOUS
  <2> QED
    BY <2>1 DEF AreOptions
<1>2. /\ matchesAny(name, Filter(6), TRUE, p.case_sensitive) <=>
             Filter(6) = <<>> \/ Selects(Filter(6), name, p.case_sensitive)
      /\ matchesAny(name, Filter(7), FALSE, p.case_sensitive) <=> Selects(Filter(7), name, p.case_sensitive)
  <2>1. \A mask \in ToSet(Filter(6)) : IsString(mask)
    BY <1>1
  <2>2. \A mask \in ToSet(Filter(7)) : IsString(mask)
    BY <1>1
  <2> QED
    BY <2>1, <2>2, ListsAreRight
<1>3. SizeT(p.subcase_filter_levels) \in Nat /\ Len(sub.stack) \in Nat
  <2>1. p.subcase_filter_levels \in Int
    BY WidthAssumption DEF AreOptions
  <2> QED
    BY <2>1, LenProperties, SizeTIsANumber
<1>4. Admitted(Append(sub.stack, e)) <=>
          (Len(sub.stack) + 1 <= SizeT(p.subcase_filter_levels) =>
              /\ Filter(6) = <<>> \/ Selects(Filter(6), name, p.case_sensitive)
              /\ ~Selects(Filter(7), name, p.case_sensitive))
  <2>1. PICK s : s = sub.stack
    OBVIOUS
  <2> QED
    BY <2>1, AdmittedNext
<1>5. Len(sub.stack) < SizeT(p.subcase_filter_levels) <=> Len(sub.stack) + 1 <= SizeT(p.subcase_filter_levels)
  BY <1>3
<1> QED
  BY <1>2, <1>4, <1>5, Zenon DEF Filtered

(* LeavesInv when main enters or skips a SUBCASE.                          *)
LEMMA LeavesAtOpen ==
    ASSUME TypeOK, SkipInv, PointsInv, VerdictsInv, LeavesInv, fatal.pc = "no", AreOptions(p), ~hist'.threw,
           SkipSubcase \/ EnterSubcase
    PROVE  LeavesInv'
<1>1. /\ phase = "body" /\ ip <= Len(Test.body) /\ Statement.op = "open" /\ InBody
      /\ p' = p /\ Test' = Test
  BY DEF SkipSubcase, EnterSubcase, AtStatement, InBody, Test
<1>2. ~hist.threw
  BY DEF SkipSubcase, EnterSubcase, TypeOK
<1>3. PICK B, k : B = Test.body /\ k = ip
  OBVIOUS
<1>4. /\ Nests(B) /\ Inside(B) /\ Len(B) \in Nat /\ k \in Nat \ {0} /\ k \in 1..Len(B)
      /\ (sub.reenter => Len(sub.stack) < sub.maxLevel)
  BY <1>1, <1>2, <1>3, LeavesHere
<1>5. B[k] = Statement /\ Behind = k - 1 /\ Test'.body = B
  BY <1>1, <1>3 DEF Statement, Behind
<1>6. k \in Opens(B) /\ B[k].end \in Nat /\ IsString(B[k].name)
  <2>1. WellFormed(B, k) /\ B[k].op = "open"
    BY <1>1, <1>3, <1>5, StatementHere
  <2>2. Nesting(B) /\ DOMAIN B = 1..Len(B)
    BY <1>4 DEF Nests
  <2> QED
    BY <1>4, <2>1, <2>2 DEF Opens, WellFormed, Nesting
<1>7. PICK stack, e, new : /\ stack = sub.stack /\ e = [name |-> B[k].name, line |-> B[k].line] /\ new = Append(stack, e)
  OBVIOUS
<1>8. e = Signature /\ new = Append(sub.stack, Signature)
  BY <1>5, <1>7 DEF Signature
<1>9. stack \in Seq(SignSet(B)) /\ e \in SignSet(B) /\ e.name = B[k].name /\ stack = Path(B, k - 1) /\ Admitted(stack)
  <2>1. k - 1 \in 0..Len(B) /\ Nesting(B)
    BY <1>4 DEF Nests
  <2>2. stack = Path(B, k - 1) /\ Admitted(stack)
    BY <1>4, <1>5, <1>7 DEF Inside
  <2>3. stack \in Seq(SignSet(B))
    BY <2>1, <2>2, PathIs
  <2>4. e \in SignSet(B) /\ e.name = B[k].name
    BY <1>4, <1>7 DEF SignSet
  <2> QED
    BY <2>2, <2>3, <2>4
<1>10. Filtered(Statement.name) <=> ~Admitted(new)
  <2>1. Filtered(B[k].name) <=> ~Admitted(Append(sub.stack, e))
    BY <1>6, <1>7, <1>9, FilteredIs
  <2> QED
    BY <1>5, <1>7, <2>1
<1>11. PICK A, L : A = AdmittedPaths(B) /\ L = Leaves(B)
  OBVIOUS
<1>12. /\ AdmittedPaths(B)' = A /\ Leaves(B)' = L /\ (\A path : Admitted(path)' <=> Admitted(path))
  BY <1>1, <1>11, AdmittedStays
<1>13. /\ Trail(A, hist.entered, stack, sub.maxLevel) /\ Counts(L, hist.entered, sub.passed, stack)
       /\ Passes(B, A, sub.passed, sub.reenter, k - 1)
  BY <1>4, <1>5, <1>7, <1>11 DEF Inside
<1>14. "stack" \in DOMAIN sub /\ "passed" \in DOMAIN sub /\ "maxLevel" \in DOMAIN sub /\ "reenter" \in DOMAIN sub
  BY DEF SkipInv, SubcaseFields
<1>15. CASE EnterSubcase
  <2>1. Admitted(new) /\ new \notin sub.passed
    BY <1>8, <1>10, <1>15 DEF EnterSubcase
  <2>2. /\ sub'.stack = new /\ sub'.maxLevel = Len(new) /\ sub'.passed = sub.passed /\ sub'.reenter = sub.reenter
    BY <1>8, <1>14, <1>15 DEF EnterSubcase
  <2>3. hist'.entered = Append(hist.entered, new) /\ phase' = "entering" /\ ip' = ip
    BY <1>8, <1>15 DEF EnterSubcase, TypeOK
  <2>4. Behind' = k /\ InBody'
    BY <1>3, <2>3 DEF Behind, InBody
  <2>5. /\ new = Path(B, k) /\ Trail(A, Append(hist.entered, new), new, Len(new))
        /\ Counts(L, Append(hist.entered, new), sub.passed, new) /\ Passes(B, A, sub.passed, sub.reenter, k)
    BY <1>4, <1>6, <1>7, <1>9, <1>11, <1>13, <2>1, LeavesEnter, ZenonT(40)
  <2>6. Admitted(sub.stack)'
    BY <1>1, <2>1, <2>2 DEF Admitted, Filter
  <2>7. Inside(B)'
    BY <1>12, <2>2, <2>3, <2>4, <2>5, <2>6 DEF Inside
  <2> QED
    BY <1>5, <2>4, <2>7, InsidePrimed
<1>16. CASE SkipSubcase
  <2>1. PICK again : again = sub'.reenter
    OBVIOUS
  <2>2. /\ sub'.stack = stack /\ sub'.passed = sub.passed /\ sub'.maxLevel = sub.maxLevel
        /\ ~again => ~sub.reenter
        /\ again \/ ~Admitted(new) \/ new \in sub.passed
    BY <1>7, <1>8, <1>10, <1>14, <1>16, <2>1 DEF SkipSubcase
  <2>3. hist' = hist /\ phase' = "body" /\ ip' = B[k].end + 1
    BY <1>1, <1>5, <1>16 DEF SkipSubcase
  <2>4. Behind' = B[k].end /\ InBody'
    BY <1>6, <2>3 DEF Behind, InBody
  <2>5. Passes(B, A, sub.passed, again, B[k].end) /\ stack = Path(B, B[k].end)
    <3>1. PICK passed, reenter : passed = sub.passed /\ reenter = sub.reenter
      OBVIOUS
    <3>2. (~again => ~reenter) /\ (again \/ ~Admitted(new) \/ new \in passed) /\ Passes(B, A, passed, reenter, k - 1)
      BY <1>13, <2>2, <3>1
    <3>3. Nests(B) /\ A = AdmittedPaths(B) /\ stack = Path(B, k - 1)
          /\ new = Append(stack, [name |-> B[k].name, line |-> B[k].line])
      BY <1>4, <1>7, <1>9, <1>11
    <3>4. Passes(B, A, passed, again, B[k].end) /\ stack = Path(B, B[k].end)
      BY <1>6, <3>2, <3>3, LeavesSkip
    <3> QED
      BY <3>1, <3>4
  <2>6. Admitted(sub.stack)'
    BY <1>1, <1>9, <2>2 DEF Admitted, Filter
  <2>7. Inside(B)'
    BY <1>12, <1>13, <2>1, <2>2, <2>3, <2>4, <2>5, <2>6 DEF Inside
  <2> QED
    BY <1>5, <2>4, <2>7, InsidePrimed
<1> QED
  BY <1>15, <1>16

(* LeavesInv when main leaves a SUBCASE's block.                           *)
LEMMA LeavesAtClose ==
    ASSUME TypeOK, SkipInv, PointsInv, VerdictsInv, LeavesInv, fatal.pc = "no", InBody, ~hist'.threw, LeaveSubcase
    PROVE  LeavesInv'
<1>1. p' = p /\ Test' = Test /\ hist' = hist /\ ip' = ip /\ phase' = "leaving" /\ InBody'
  BY DEF LeaveSubcase, Test, InBody
<1>2. PICK B, k : B = Test.body /\ k = ip
  OBVIOUS
<1>3. /\ Nests(B) /\ Inside(B) /\ Len(B) \in Nat /\ k \in Nat \ {0} /\ k \in 1..Len(B) + 1
      /\ phase # "unwind" /\ sub.maxLevel \in Nat /\ (sub.reenter => Len(sub.stack) < sub.maxLevel)
  BY <1>1, <1>2, LeavesHere
<1>4. phase = "body" /\ k \in 1..Len(B) /\ B[k].op = "close" /\ Behind = k - 1 /\ Test'.body = B
  BY <1>1, <1>2, <1>3 DEF LeaveSubcase, Leaving, AtStatement, Statement, Behind
<1>5. PICK A, L, stack, after : /\ A = AdmittedPaths(B) /\ L = Leaves(B) /\ stack = sub.stack
                                /\ after = IF sub.reenter THEN sub.passed ELSE sub.passed \cup {stack}
  OBVIOUS
<1>6. /\ AdmittedPaths(B)' = A /\ Leaves(B)' = L
  BY <1>1, <1>5, AdmittedStays
<1>7. /\ sub'.stack = Front(stack) /\ sub'.passed = after /\ sub'.maxLevel = sub.maxLevel /\ sub'.reenter = sub.reenter
  <2>1. "stack" \in DOMAIN sub /\ "passed" \in DOMAIN sub /\ "maxLevel" \in DOMAIN sub /\ "reenter" \in DOMAIN sub
    BY DEF SkipInv, SubcaseFields
  <2> QED
    BY <1>5, <2>1 DEF LeaveSubcase, PassedAfter
<1>8. /\ stack = Path(B, k - 1) /\ Admitted(stack)
      /\ Trail(A, hist.entered, stack, sub.maxLevel) /\ Counts(L, hist.entered, sub.passed, stack)
      /\ Passes(B, A, sub.passed, sub.reenter, k - 1)
  BY <1>3, <1>4, <1>5 DEF Inside
<1>9. /\ Front(stack) = Path(B, k) /\ Admitted(Front(stack)) /\ Trail(A, hist.entered, Front(stack), sub.maxLevel)
      /\ Counts(L, hist.entered, after, Front(stack)) /\ Passes(B, A, after, sub.reenter, k)
  <2>1. PICK entered, passed, maxLevel, reenter :
            /\ entered = hist.entered /\ passed = sub.passed /\ maxLevel = sub.maxLevel /\ reenter = sub.reenter
    OBVIOUS
  <2>2. /\ maxLevel \in Nat /\ (reenter => Len(stack) < maxLevel) /\ Nests(B) /\ A = AdmittedPaths(B) /\ L = Leaves(B)
        /\ stack = Path(B, k - 1) /\ Admitted(stack) /\ after = IF reenter THEN passed ELSE passed \cup {stack}
        /\ Trail(A, entered, stack, maxLevel) /\ Counts(L, entered, passed, stack)
        /\ Passes(B, A, passed, reenter, k - 1)
    BY <1>3, <1>5, <1>8, <2>1
  <2>3. /\ Front(stack) = Path(B, k) /\ Admitted(Front(stack)) /\ Trail(A, entered, Front(stack), maxLevel)
        /\ Counts(L, entered, after, Front(stack)) /\ Passes(B, A, after, reenter, k)
    BY <1>4, <2>2, LeavesLeave
  <2> QED
    BY <2>1, <2>3
<1>10. Behind' = k
  BY <1>1, <1>2 DEF Behind
<1>11. Admitted(sub.stack)'
  BY <1>1, <1>7, <1>9 DEF Admitted, Filter
<1>12. Inside(B)'
  BY <1>1, <1>6, <1>7, <1>9, <1>10, <1>11 DEF Inside
<1> QED
  BY <1>1, <1>4, <1>12, InsidePrimed

(* LeavesInv when main, or another thread, goes on in the block that main  *)
(* is in.                                                                  *)
LEMMA LeavesQuiet ==
    ASSUME TypeOK, SkipInv, PointsInv, VerdictsInv, LeavesInv, fatal.pc = "no", InBody, ~hist'.threw,
           \/ EnteredSubcase \/ LeftSubcase \/ LockReporters
           \/ BeginContext \/ DestroyContext \/ SkipAssertion \/ MakeAssertion
           \/ CreateThreads \/ JoinThreads \/ \E t \in Threads : AssertStep(t)
    PROVE  LeavesInv'
<1>1. /\ p' = p /\ Test' = Test
      /\ hist'.entered = hist.entered /\ hist'.threw = hist.threw
  BY DEF EnteredSubcase, LeftSubcase, LockReporters, BeginContext, DestroyContext, SkipAssertion,
         MakeAssertion, CreateThreads, JoinThreads, AssertStep, AddAssert, LogSkipped, Log, Logged,
         AddFailedAssert, AssertReturns, contextVars, runVars, Test, TypeOK
<1>2. sub'.stack = sub.stack /\ sub'.passed = sub.passed /\ sub'.maxLevel = sub.maxLevel /\ sub'.reenter = sub.reenter
  BY DEF EnteredSubcase, LeftSubcase, LockReporters, BeginContext, DestroyContext, SkipAssertion,
         MakeAssertion, CreateThreads, JoinThreads, AssertStep, AddAssert, LogSkipped, Log, Logged,
         AddFailedAssert, AssertReturns, contextVars, SkipInv, SubcaseFields
<1>3. PICK B, k : B = Test.body /\ k = ip
  OBVIOUS
<1>4. /\ Nests(B) /\ Inside(B) /\ Len(B) \in Nat /\ k \in Nat \ {0} /\ k \in 1..Len(B) + 1
      /\ exception = "none" /\ phase # "unwind" /\ Test'.body = B
  BY <1>1, <1>3, LeavesHere
<1>5. CASE EnteredSubcase \/ LeftSubcase \/ LockReporters \/ DestroyContext \/ \E t \in Threads : AssertStep(t)
  <2>1. Behind' = Behind /\ InBody'
    <3>1. CASE EnteredSubcase \/ LeftSubcase
      <4>1. phase \in {"entering", "leaving"} /\ phase' = "body" /\ ip' = k + 1
        BY <1>3, <1>4, <3>1 DEF EnteredSubcase, LeftSubcase
      <4> QED
        BY <1>3, <1>4, <4>1 DEF Behind, InBody
    <3>2. CASE LockReporters \/ DestroyContext \/ \E t \in Threads : AssertStep(t)
      <4>1. phase' = phase /\ ip' = ip
        BY <3>2 DEF LockReporters, DestroyContext, AssertStep, AddAssert, LogSkipped, Log, Logged,
                    AddFailedAssert, AssertReturns, runVars
      <4> QED
        BY <4>1 DEF Behind, InBody
    <3> QED
      BY <1>5, <3>1, <3>2
  <2>2. Inside(B)'
    BY <1>1, <1>2, <1>4, <2>1, InsideFrame
  <2> QED
    BY <1>4, <2>1, <2>2, InsidePrimed
<1>6. CASE BeginContext \/ SkipAssertion \/ MakeAssertion \/ CreateThreads \/ JoinThreads
  <2>1. /\ phase = "body" /\ phase' = "body" /\ ip' = k + 1 /\ k <= Len(B)
        /\ B[k].op \in {"info", "assert", "create", "join"}
    BY <1>3, <1>6 DEF BeginContext, SkipAssertion, MakeAssertion, CreateThreads, JoinThreads, AtStatement,
                      Statement
  <2>2. k \in 1..Len(B) /\ Behind = k - 1 /\ Behind' = k /\ InBody'
    BY <1>3, <1>4, <2>1 DEF Behind, InBody
  <2>3. PICK A, L : A = AdmittedPaths(B) /\ L = Leaves(B)
    OBVIOUS
  <2>4. AdmittedPaths(B)' = A /\ Leaves(B)' = L
    BY <1>1, <2>3, AdmittedStays
  <2>5. /\ sub.stack = Path(B, k - 1) /\ Admitted(sub.stack)
        /\ Trail(A, hist.entered, sub.stack, sub.maxLevel) /\ Counts(L, hist.entered, sub.passed, sub.stack)
        /\ Passes(B, A, sub.passed, sub.reenter, k - 1)
    BY <1>4, <2>2, <2>3 DEF Inside
  <2>6. B[k].op \notin {"open", "close"}
    BY <2>1
  <2>7. Passes(B, A, sub.passed, sub.reenter, k) /\ Path(B, k) = Path(B, k - 1)
    BY <1>4, <2>2, <2>5, <2>6, LeavesMove
  <2>8. Admitted(sub.stack)'
    BY <1>1, <1>2, <2>5 DEF Admitted, Filter
  <2>9. Inside(B)'
    BY <1>1, <1>2, <2>2, <2>4, <2>5, <2>7, <2>8 DEF Inside
  <2> QED
    BY <1>4, <2>2, <2>9, InsidePrimed
<1> QED
  BY <1>5, <1>6

(* LeavesInv after the steps of run: a pass ends with every admitted path  *)
(* passed, or with one skipped and another pass to come.                   *)
LEMMA LeavesRun ==
    ASSUME TypeOK, SkipInv, PointsInv, VerdictsInv, DepthInv, LeavesInv, fatal.pc = "no", RunStep,
           InTest', phase' # "end", ~hist'.threw
    PROVE  LeavesInv'
<1>1. StartTest \/ StartPass \/ BodyReturns \/ Catch \/ AfterPass
  BY DEF RunStep, UseReporters, RunNothing, CollectTests, SkipTest, ListTest, AtTest, EndTest, LeaveTest,
         EndRun, Cleanup, InTest, InBody
<1>2. PICK B, A, L : B = Test.body /\ A = AdmittedPaths(B) /\ L = Leaves(B)
  OBVIOUS
<1>3. Test'.body = B /\ AdmittedPaths(B)' = A /\ Leaves(B)' = L
  <2>1. p' = p /\ Test' = Test
    BY <1>1 DEF StartTest, StartPass, BodyReturns, Catch, AfterPass, contextVars, Test
  <2> QED
    BY <1>2, <2>1, AdmittedStays
<1>4. /\ "stack" \in DOMAIN sub /\ "passed" \in DOMAIN sub /\ "maxLevel" \in DOMAIN sub /\ "reenter" \in DOMAIN sub
      /\ sub.reenter \in BOOLEAN /\ sub.stack \in Seq(ToSet(sub.stack))
  BY DEF SkipInv, SubcaseFields
<1>5. Nests(B)
  <2>1. i <= Len(testArray)
    BY <1>1 DEF StartTest, StartPass, BodyReturns, Catch, AfterPass, AtTest, AtEnd, PointsInv, InTest, InBody
  <2> QED
    BY <1>2, <2>1, TestHere, TestsNest DEF Nests
<1>6. /\ L \subseteq A
      /\ \A q \in A : q \in Seq(SignSet(B)) /\ Len(q) \in Nat \ {0} /\ \E c \in Opens(B) : q = Path(B, c)
  BY <1>2, <1>5, AdmittedIs
<1>7. Len(B) \in Nat /\ \A c \in Opens(B) : B[c].end \in 1..Len(B)
  <2>1. Nesting(B) /\ DOMAIN B = 1..Len(B)
    BY <1>5 DEF Nests
  <2>2. Len(B) \in Nat
    BY <2>1 DEF Nesting
  <2>3. ASSUME NEW c \in Opens(B) PROVE B[c].end \in 1..Len(B)
    <3>1. c \in 1..Len(B) /\ B[c].end \in c + 1..Len(B)
      BY <2>1 DEF Opens, Nesting
    <3> QED
      BY <2>2, <3>1
  <2> QED
    BY <2>2, <2>3
<1>8. CASE StartTest
  <2>1. /\ hist'.entered = <<>> /\ phase' = "pass" /\ sub'.passed = {}
    BY <1>4, <1>8 DEF StartTest, TypeOK
  <2>2. ~InBody'
    BY <2>1 DEF InBody
  <2>3. CountsAll(L, <<>>, {})
    <3> SUFFICES ASSUME NEW leaf \in L PROVE Cardinality(EntriesIn(<<>>, leaf)) = 0
      BY DEF CountsAll
    <3>1. EntriesIn(<<>>, leaf) = {}
      BY DEF EntriesIn
    <3> QED
      BY <3>1, FS_EmptySet
  <2>4. <<>> \in Seq(A) /\ AllBelow(A, {})
    BY EmptySeq DEF AllBelow
  <2>5. Outside(B)'
    BY <1>3, <2>1, <2>3, <2>4 DEF Outside
  <2> QED
    BY <1>3, <2>2, <2>5, OutsidePrimed
<1>9. CASE StartPass
  <2>1. /\ phase = "pass" /\ hist' = hist /\ phase' = "body" /\ ip' = 1 /\ sub'.stack = <<>> /\ sub'.maxLevel = 0
        /\ sub'.passed = sub.passed /\ sub'.reenter = FALSE
    BY <1>9 DEF StartPass, ResetSubcases, NoSubcases
  <2>2. InBody' /\ Behind' = 0 /\ ~InBody /\ InTest
    BY <2>1 DEF InBody, Behind, InTest
  <2>3. Outside(B)
    BY <1>2, <2>1, <2>2, LeavesParts DEF LeavesInv
  <2>4. hist.entered \in Seq(A) /\ CountsAll(L, hist.entered, sub.passed) /\ (Uniform(B) => AllBelow(A, sub.passed))
    BY <1>2, <2>3 DEF Outside
  <2>5. Counts(L, hist.entered, sub.passed, <<>>)
    <3> SUFFICES ASSUME NEW leaf \in L PROVE ~IsPrefix(leaf, <<>>)
      BY <2>4 DEF Counts, CountsAll
    <3>1. Len(leaf) \in Nat \ {0} /\ Len(<<>>) = 0
      BY <1>6
    <3> QED
      BY <3>1 DEF IsPrefix
  <2>6. Passes(B, A, sub.passed, FALSE, 0)
    BY <1>7, <2>4 DEF Passes
  <2>7. Path(B, 0) = <<>>
    BY <1>5, PathNone DEF Nests
  <2>8. Admitted(sub.stack)'
    BY <2>1 DEF Admitted
  <2>9. Trail(A, hist.entered, <<>>, 0)
    BY <2>4 DEF Trail
  <2>10. Inside(B)'
    BY <1>3, <2>1, <2>2, <2>5, <2>6, <2>7, <2>8, <2>9 DEF Inside
  <2> QED
    BY <1>3, <2>2, <2>10, InsidePrimed
<1>10. CASE BodyReturns \/ Catch
  <2>1. /\ hist' = hist /\ phase' = "after" /\ sub' = sub /\ InBody
    BY <1>10 DEF BodyReturns, Catch, AtEnd, InBody, contextVars
  <2>2. Inside(B) /\ phase # "unwind" /\ ip \in 1..Len(B) + 1
    BY <1>2, <2>1, LeavesHere
  <2>3. phase = "body" /\ ip > Len(B)
    BY <1>2, <1>10, <2>2 DEF BodyReturns, Catch, AtEnd
  <2>4. ip = Len(B) + 1 /\ Behind = Len(B)
    BY <1>7, <2>2, <2>3 DEF Behind
  <2>5. sub.stack = <<>>
    <3>1. Len(sub.stack) = Depth(B, Len(B) + 1)
      BY <1>2, <2>3, <2>4 DEF DepthInv
    <3>2. Depth(B, Len(B) + 1) = 0
      BY <1>2, <2>1, StatementHere, TestsNest
    <3> QED
      BY <1>4, <3>1, <3>2, EmptySeq
  <2>6. /\ hist.entered \in Seq(A) /\ Counts(L, hist.entered, sub.passed, <<>>)
        /\ Passes(B, A, sub.passed, sub.reenter, Len(B))
    BY <1>2, <2>2, <2>4, <2>5 DEF Inside, Trail
  <2>7. CountsAll(L, hist.entered, sub.passed)
    <3> SUFFICES ASSUME NEW leaf \in L PROVE ~IsPrefix(leaf, <<>>)
      BY <2>6 DEF Counts, CountsAll
    <3>1. Len(leaf) \in Nat \ {0} /\ Len(<<>>) = 0
      BY <1>6
    <3> QED
      BY <3>1 DEF IsPrefix
  <2>8. ASSUME Uniform(B), ~sub.reenter PROVE A \subseteq sub.passed
    <3> SUFFICES ASSUME NEW q \in A PROVE q \in sub.passed
      OBVIOUS
    <3>1. PICK c \in Opens(B) : q = Path(B, c)
      BY <1>6
    <3>2. B[c].end <= Len(B)
      BY <1>7
    <3> QED
      BY <2>6, <2>8, <3>1, <3>2 DEF Passes
  <2>9. Outside(B)'
    BY <1>3, <2>1, <2>6, <2>7, <2>8 DEF Outside, Passes
  <2>10. ~InBody'
    BY <2>1 DEF InBody
  <2> QED
    BY <1>3, <2>9, <2>10, OutsidePrimed
<1>11. CASE AfterPass
  <2>1. /\ phase = "after" /\ phase' \in {"pass", "finalize"} /\ hist' = hist /\ sub' = sub
        /\ (phase' = "finalize" /\ "TooManyFailedAsserts" \notin cur'.flags) => ~sub.reenter
    BY <1>11 DEF AfterPass, TypeOK
  <2>2. ~InBody /\ ~InBody' /\ InTest
    BY <2>1 DEF InBody, InTest
  <2>3. Outside(B)
    BY <1>2, <2>1, <2>2, LeavesParts DEF LeavesInv
  <2>4. Outside(B)'
    BY <1>2, <1>3, <2>1, <2>3 DEF Outside
  <2> QED
    BY <1>3, <2>2, <2>4, OutsidePrimed
<1> QED
  BY <1>1, <1>8, <1>9, <1>10, <1>11

(* LeavesInv is kept by every step.                                        *)
LEMMA LeavesSteps ==
    ASSUME CoreInv, SelectionInv, LeavesInv, [Next]_vars
    PROVE  LeavesInv'
<1>1. TypeOK /\ SkipInv /\ PointsInv /\ VerdictsInv /\ DepthInv /\ AreOptions(p)
  BY DEF CoreInv, SelectionInv
<1>2. CASE UNCHANGED vars
  <2>1. UNCHANGED <<p, cur, sub, testArray, i, phase, ip, fatal, hist>>
    BY <1>2 DEF vars, contextVars, runVars
  <2>2. /\ Test' = Test /\ Behind' = Behind /\ (InBody' <=> InBody) /\ (InTest' <=> InTest)
        /\ (Admitted(sub.stack)' <=> Admitted(sub.stack))
        /\ \A path : Entries(path)' = Entries(path)
    BY <2>1 DEF Test, Behind, InBody, InTest, Admitted, Filter, Entries
  <2>3. AdmittedPaths(Test.body)' = AdmittedPaths(Test.body) /\ Leaves(Test.body)' = Leaves(Test.body)
    <3>1. PICK B : B = Test.body
      OBVIOUS
    <3>2. AdmittedPaths(B)' = AdmittedPaths(B) /\ Leaves(B)' = Leaves(B)
      BY <2>1, AdmittedStays
    <3> QED
      BY <2>2, <3>1, <3>2
  <2>4. LeavesSoFar' <=> LeavesSoFar
    BY <2>1, <2>2, <2>3 DEF LeavesSoFar
  <2> QED
    BY <2>1, <2>2, <2>4 DEF LeavesInv
<1>3. SUFFICES ASSUME Next, fatal'.pc = "no", InTest', phase' # "end", ~hist'.threw PROVE LeavesInv'
  BY <1>2 DEF LeavesInv
<1>4. CASE MainStep
  <2>1. CASE RunStep
    <3>1. fatal.pc = "no"
      BY <1>3, <2>1 DEF RunStep, UseReporters, RunNothing, CollectTests, SkipTest, ListTest, StartTest,
                        StartPass, BodyReturns, Catch, AfterPass, EndTest, LeaveTest, EndRun, Cleanup
    <3> QED
      BY <1>1, <1>3, <2>1, <3>1, LeavesRun
  <2>2. CASE BodyStep
    <3>1. Working(Main) => InBody
      BY <1>1, <1>4 DEF MainStep, PointsInv, Ended, InBody
    <3>2. InBody
      BY <2>2, <3>1
         DEF BodyStep, AssertStep, SkipSubcase, EnterSubcase, EnteredSubcase, LeaveSubcase, AnnounceException,
             LeftSubcase, LockReporters, BeginContext, DestroyContext, SkipAssertion, MakeAssertion,
             throwException, Throw, CreateThreads, JoinThreads,
             AddAssert, LogSkipped, Log, Logged, AddFailedAssert, AssertReturns, AtStatement, AtEnd, Leaving,
             runVars, InBody, Working, Idle
    <3>3. fatal.pc = "no"
      <4>1. CASE MakeAssertion
        <5>1. fatal' = [fatal EXCEPT !.calm = @ /\ fatal.pc = "no"]
          BY <4>1 DEF MakeAssertion
        <5>2. "pc" \in DOMAIN fatal
          BY <1>1 DEF TypeOK
        <5> QED
          BY <1>3, <5>1, <5>2
      <4>2. CASE ~MakeAssertion
        BY <1>3, <2>2, <4>2
           DEF BodyStep, AssertStep, SkipSubcase, EnterSubcase, EnteredSubcase, LeaveSubcase,
               AnnounceException, LeftSubcase, LockReporters, BeginContext, DestroyContext, SkipAssertion,
               throwException, Throw, CreateThreads, JoinThreads, AddAssert, LogSkipped, Log, Logged,
               AddFailedAssert, AssertReturns
      <4> QED
        BY <4>1, <4>2
    <3>4. ~throwException /\ ~Throw
      <4>1. (throwException \/ Throw) => hist' = [hist EXCEPT !.threw = TRUE]
        BY DEF throwException, Throw
      <4>2. hist = [entered |-> hist.entered, failing |-> hist.failing, total |-> hist.total,
                    threw |-> hist.threw, verdicts |-> hist.verdicts]
        BY <1>1 DEF TypeOK
      <4>3. "threw" \in DOMAIN hist
        BY <4>2
      <4>4. (throwException \/ Throw) => hist'.threw
        BY <4>1, <4>3
      <4> QED
        BY <1>3, <4>4
    <3>5. CASE SkipSubcase \/ EnterSubcase
      BY <1>1, <1>3, <3>3, <3>5, LeavesAtOpen
    <3>6. CASE LeaveSubcase
      BY <1>1, <1>3, <3>2, <3>3, <3>6, LeavesAtClose
    <3>7. CASE ~(SkipSubcase \/ EnterSubcase \/ LeaveSubcase)
      <4>1. ~AnnounceException
        <5> SUFFICES ASSUME AnnounceException PROVE FALSE
          OBVIOUS
        <5>1. hist'.threw = hist.threw /\ phase = "leaving" /\ exception # "none" /\ InTest /\ phase # "end"
          BY <3>2 DEF AnnounceException, Announces, InTest
        <5> QED
          BY <1>1, <1>3, <3>3, <5>1 DEF VerdictsInv
      <4>2. \/ EnteredSubcase \/ LeftSubcase \/ LockReporters
            \/ BeginContext \/ DestroyContext \/ SkipAssertion \/ MakeAssertion
            \/ CreateThreads \/ JoinThreads \/ \E t \in Threads : AssertStep(t)
        BY <2>2, <3>4, <3>7, <4>1 DEF BodyStep, Threads
      <4> QED
        BY <1>1, <1>3, <3>2, <3>3, <4>2, LeavesQuiet
    <3> QED
      BY <3>5, <3>6, <3>7
  <2> QED
    BY <1>4, <2>1, <2>2 DEF MainStep
<1>5. ASSUME NEW w \in Workers, WorkerStep(w) PROVE LeavesInv'
  <2>1. ~Ended
    BY <1>5 DEF WorkerStep
  <2>2. AssertStep(w)
    BY <1>1, <1>3, <1>5, <2>1, SignalStays DEF WorkerStep
  <2>3. fatal.pc = "no"
    BY <1>3, <2>2 DEF AssertStep, AddAssert, LogSkipped, Log, Logged, AddFailedAssert, AssertReturns
  <2>4. InBody
    <3>1. Working(w)
      BY <2>2, AssertWorks DEF Threads
    <3> QED
      BY <1>1, <2>1, <3>1 DEF PointsInv, Confined, Ended, InBody
  <2>5. \E t \in Threads : AssertStep(t)
    BY <2>2 DEF Threads
  <2> QED
    BY <1>1, <1>3, <2>3, <2>4, <2>5, LeavesQuiet
<1>6. CASE HandlerStep \/ (~Ended /\ Interrupt)
  BY <1>1, <1>3, <1>6, SignalStays DEF HandlerStep
<1> QED
  BY <1>3, <1>4, <1>5, <1>6 DEF Next

(* No test case is begun at first.                                         *)
LEMMA LeavesInit == Init => LeavesInv
BY DEF Init, LeavesInv, InTest, InBody

(* At the end of a test case LeavesInv says what EachLeafOnce asks.        *)
LEMMA LeavesLast ==
    ASSUME CoreInv, LeavesInv
    PROVE  EachLeafOnce
<1> SUFFICES ASSUME phase = "finalize", ~hist.threw, "TooManyFailedAsserts" \notin cur.flags
             PROVE  /\ \A leaf \in Leaves(Test.body) :
                           /\ Cardinality(Entries(leaf)) <= 1
                           /\ Uniform(Test.body) => Cardinality(Entries(leaf)) = 1
                    /\ ToSet(hist.entered) \subseteq AdmittedPaths(Test.body)
  BY DEF EachLeafOnce
<1>1. ~InBody /\ InTest /\ fatal.pc = "no"
  BY DEF InBody, InTest, CoreInv, PointsInv
<1>2. Outside(Test.body)
  BY <1>1, LeavesParts DEF LeavesInv
<1>3. ToSet(hist.entered) \subseteq AdmittedPaths(Test.body)
  <2>1. PICK e, A : e = hist.entered /\ A = AdmittedPaths(Test.body)
    OBVIOUS
  <2>2. e \in Seq(A)
    BY <1>2, <2>1 DEF Outside
  <2>3. \A k \in DOMAIN e : e[k] \in A
    BY <2>2, LenProperties, ElementOfSeq
  <2> QED
    BY <2>1, <2>3 DEF ToSet
<1>4. ASSUME NEW leaf \in Leaves(Test.body)
      PROVE  Cardinality(Entries(leaf)) <= 1 /\ (Uniform(Test.body) => Cardinality(Entries(leaf)) = 1)
  <2>1. Cardinality(Entries(leaf)) = IF leaf \in sub.passed THEN 1 ELSE 0
    BY <1>2 DEF Outside, CountsAll, Entries, EntriesIn
  <2>2. Uniform(Test.body) => leaf \in sub.passed
    BY <1>2 DEF Outside, Leaves
  <2> QED
    BY <2>1, <2>2
<1> QED
  BY <1>3, <1>4

-----------------------------------------------------------------------------
(* The properties.                                                         *)

(* The inductive invariant that TLC checks holds throughout.               *)
THEOREM Inductive == Spec => []IInv
<1>1. Spec => []CoreInv
  BY CoreInductive
<1>2. Spec => []ContextsInv
  <2>1. CoreInv /\ ContextsInv /\ [Next]_vars => ContextsInv'
    BY ContextsSteps
  <2> QED
    BY <1>1, <2>1, ContextsInit, PTL DEF Spec
<1>3. Spec => []SelectionInv
  <2>1. CoreInv /\ CoreInv' /\ SelectionInv /\ [Next]_vars => SelectionInv'
    BY SelectionSteps DEF CoreInv
  <2> QED
    BY <1>1, <2>1, SelectionInit, PTL DEF Spec
<1>4. Spec => []LeavesInv
  <2>1. CoreInv /\ SelectionInv /\ LeavesInv /\ [Next]_vars => LeavesInv'
    BY LeavesSteps
  <2> QED
    BY <1>1, <1>3, <2>1, LeavesInit, PTL DEF Spec
<1>5. CoreInv /\ ContextsInv /\ SelectionInv /\ LeavesInv => IInv
  BY DEF IInv
<1> QED
  BY <1>1, <1>2, <1>3, <1>4, <1>5, PTL

(* What the console quotes with an assertion are the INFOs in whose scope  *)
(* it stands, outermost first, and with an exception those in whose scope  *)
(* it was thrown (InfoIsCurrent), through any number of passes that throw. *)
THEOREM ContextsAreCurrent == Spec => []InfoIsCurrent
<1>1. IInv => InfoIsCurrent
  <2>1. CASE fatal.pc = "no"
    BY <2>1 DEF IInv, ContextsInv
  <2>2. CASE fatal.pc # "no"
    BY <2>2 DEF InfoIsCurrent
  <2> QED
    BY <2>1, <2>2
<1> QED
  BY <1>1, Inductive, PTL

(* A run executes the test cases that the masks and the range select, in   *)
(* order, each once, and all of them unless abort-after is reached; a      *)
(* listing lists the same (SelectedAreRun).                                *)
THEOREM SelectionIsRun == Spec => []SelectedAreRun
<1>1. IInv => SelectedAreRun
  BY DEF IInv, SelectionInv
<1> QED
  BY <1>1, Inductive, PTL

(* The passes over a test case that throws nothing and is not aborted      *)
(* enter no leaf twice and nothing that the filters exclude, and leave no  *)
(* leaf out unless a SUBCASE in a loop has others in it the second time    *)
(* (EachLeafOnce).                                                         *)
THEOREM EachLeafIsEnteredOnce == Spec => []EachLeafOnce
<1>1. IInv => EachLeafOnce
  BY LeavesLast DEF IInv
<1> QED
  BY <1>1, Inductive, PTL
=============================================================================
