----------------------------- MODULE AOServerProofs -----------------------------
(***************************************************************************)
(* The active-object server: where capsules are, the order they pass in,   *)
(* what becomes of their letters, and of a request that arrives whole.     *)
(* First the conversions (Ciphers): they never move the end of the string  *)
(* they convert, so what the second active object and send see is all of   *)
(* what the first saw.                                                     *)
(***************************************************************************)
EXTENDS AOServer, SelectClientProofs, FiniteSetTheorems, SequenceTheorems, TLAPS

-----------------------------------------------------------------------------
(* The conversions.                                                        *)

(* The string at the start of a buffer has length n: the buffer's first    *)
(* NUL is byte n + 1.                                                      *)
EndsAt(buffer, n) ==
    /\ n \in 0 .. (Len(buffer) - 1)
    /\ buffer[n + 1] = NUL
    /\ \A i \in 1 .. n : buffer[i] # NUL

(* Letters go to letters, other bytes stay, NUL and only NUL goes to NUL.  *)
LEMMA ByteConversions ==
  \A b \in Byte :
      /\ OppositeCase(b) \in Byte /\ (OppositeCase(b) = NUL <=> b = NUL)
      /\ OppositeCase(b) \in Letter <=> b \in Letter
      /\ b \notin Letter => OppositeCase(b) = b
      /\ Caesar(b) \in Byte /\ (Caesar(b) = NUL <=> b = NUL)
      /\ Caesar(b) \in Letter <=> b \in Letter
      /\ b \notin Letter => Caesar(b) = b
BY DEF Byte, NUL, Lower, Upper, Letter, OppositeCase, Caesar, CaesarLower, CaesarUpper

(***************************************************************************)
(* No two bytes are converted to one: the client can recover what it sent. *)
(* 'z' and 'Z' wrap onto the letters that nothing else is moved to, and    *)
(* the if for big letters does not act on the result of the one for small  *)
(* letters.                                                                *)
(***************************************************************************)
THEOREM ConversionsAreInjective ==
  /\ \A a, b \in Byte : OppositeCase(a) = OppositeCase(b) => a = b
  /\ \A a, b \in Byte : Caesar(a) = Caesar(b) => a = b
<1>1. \A a, b \in Byte : OppositeCase(a) = OppositeCase(b) => a = b
  BY DEF Byte, Lower, Upper, OppositeCase
<1>2. \A a, b \in Byte : Caesar(a) = Caesar(b) => a = b
  BY DEF Byte, Lower, Upper, Caesar, CaesarLower, CaesarUpper
<1> QED
  BY <1>1, <1>2

(* strlen is the position of the first NUL.                                *)
LEMMA StrLenIs ==
  ASSUME NEW buffer \in Seq(Byte), NEW n, EndsAt(buffer, n)
  PROVE  StrLen(buffer) = n
<1> DEFINE P(m) == buffer[m + 1] = NUL /\ \A i \in 1 .. m : buffer[i] # NUL
<1>1. Len(buffer) \in Nat /\ n \in 0 .. (Len(buffer) - 1) /\ P(n)
  BY LenProperties DEF EndsAt
<1>2. ASSUME NEW m \in 0 .. (Len(buffer) - 1), P(m)
      PROVE  m = n
  <2>1. m \in Nat /\ n \in Nat
    BY <1>1
  <2>2. CASE m < n
    <3>1. m + 1 \in 1 .. n
      BY <2>1, <2>2
    <3> QED
      BY <1>1, <1>2, <3>1
  <2>3. CASE n < m
    <3>1. n + 1 \in 1 .. m
      BY <2>1, <2>3
    <3> QED
      BY <1>1, <1>2, <3>1
  <2> QED
    BY <2>1, <2>2, <2>3
<1>3. StrLen(buffer) = CHOOSE m \in 0 .. (Len(buffer) - 1) : P(m)
  BY DEF StrLen
<1> HIDE DEF P
<1>4. P(StrLen(buffer)) /\ StrLen(buffer) \in 0 .. (Len(buffer) - 1)
  BY <1>1, <1>3
<1> QED
  BY <1>2, <1>4

(* The case conversion leaves a string of the same length.                  *)
LEMMA Converted ==
  ASSUME NEW buffer \in Seq(Byte), NEW n, EndsAt(buffer, n)
  PROVE  LET c == convert_opposite_case_letters(buffer) IN
         /\ c \in Seq(Byte) /\ EndsAt(c, n)
         /\ \A i \in 1 .. n : c[i] = OppositeCase(buffer[i])
<1> DEFINE c == convert_opposite_case_letters(buffer)
           Image(i) == IF i <= n THEN OppositeCase(buffer[i]) ELSE buffer[i]
<1>1. Len(buffer) \in Nat /\ n \in 0 .. (Len(buffer) - 1)
  BY LenProperties DEF EndsAt
<1>2. \A i \in 1 .. Len(buffer) : buffer[i] \in Byte
  BY ElementOfSeq
<1>3. \A i \in 1 .. Len(buffer) : Image(i) \in Byte
  BY <1>2, ByteConversions
<1>4. c = [i \in 1 .. Len(buffer) |-> Image(i)]
  BY StrLenIs DEF convert_opposite_case_letters
<1> HIDE DEF c, Image
<1>5. c \in Seq(Byte) /\ Len(c) = Len(buffer)
  BY <1>1, <1>3, <1>4, IsASeq
<1>6. \A i \in 1 .. n : i \in 1 .. Len(buffer) /\ c[i] = OppositeCase(buffer[i])
  BY <1>1, <1>4 DEF Image
<1>7. c[n + 1] = NUL
  <2>1. n + 1 \in 1 .. Len(buffer) /\ ~(n + 1 <= n)
    BY <1>1
  <2> QED
    BY <1>4, <2>1 DEF EndsAt, Image
<1>8. \A i \in 1 .. n : c[i] # NUL
  BY <1>2, <1>6, ByteConversions DEF EndsAt
<1>9. EndsAt(c, n)
  BY <1>1, <1>5, <1>7, <1>8 DEF EndsAt
<1> QED
  BY <1>5, <1>6, <1>9 DEF c

(* And so does the cipher.                                                  *)
LEMMA Ciphered ==
  ASSUME NEW buffer \in Seq(Byte), NEW n, EndsAt(buffer, n)
  PROVE  LET c == caesar_cipher_1(buffer) IN
         /\ c \in Seq(Byte) /\ EndsAt(c, n)
         /\ \A i \in 1 .. n : c[i] = Caesar(buffer[i])
<1> DEFINE c == caesar_cipher_1(buffer)
           Image(i) == IF i <= n THEN Caesar(buffer[i]) ELSE buffer[i]
<1>1. Len(buffer) \in Nat /\ n \in 0 .. (Len(buffer) - 1)
  BY LenProperties DEF EndsAt
<1>2. \A i \in 1 .. Len(buffer) : buffer[i] \in Byte
  BY ElementOfSeq
<1>3. \A i \in 1 .. Len(buffer) : Image(i) \in Byte
  BY <1>2, ByteConversions
<1>4. c = [i \in 1 .. Len(buffer) |-> Image(i)]
  BY StrLenIs DEF caesar_cipher_1
<1> HIDE DEF c, Image
<1>5. c \in Seq(Byte) /\ Len(c) = Len(buffer)
  BY <1>1, <1>3, <1>4, IsASeq
<1>6. \A i \in 1 .. n : i \in 1 .. Len(buffer) /\ c[i] = Caesar(buffer[i])
  BY <1>1, <1>4 DEF Image
<1>7. c[n + 1] = NUL
  <2>1. n + 1 \in 1 .. Len(buffer) /\ ~(n + 1 <= n)
    BY <1>1
  <2> QED
    BY <1>4, <2>1 DEF EndsAt, Image
<1>8. \A i \in 1 .. n : c[i] # NUL
  BY <1>2, <1>6, ByteConversions DEF EndsAt
<1>9. EndsAt(c, n)
  BY <1>1, <1>5, <1>7, <1>8 DEF EndsAt
<1> QED
  BY <1>5, <1>6, <1>9 DEF c

(***************************************************************************)
(* The two active objects together turn the string of a buffer into the    *)
(* answer to it, whatever follows the string in the buffer.                *)
(***************************************************************************)
THEOREM PipelineAnswers ==
  ASSUME NEW buffer \in Seq(Byte), NEW n, EndsAt(buffer, n)
  PROVE  CString(caesar_cipher_1(convert_opposite_case_letters(buffer)))
           = Answer(CString(buffer))
<1> DEFINE b1 == convert_opposite_case_letters(buffer)
           b2 == caesar_cipher_1(b1)
<1>1. n \in Nat /\ Len(buffer) \in Nat /\ n <= Len(buffer)
  BY LenProperties DEF EndsAt
<1>2. /\ b1 \in Seq(Byte) /\ EndsAt(b1, n)
      /\ \A i \in 1 .. n : b1[i] = OppositeCase(buffer[i])
  BY Converted
<1> HIDE DEF b1
<1>3. /\ b2 \in Seq(Byte) /\ EndsAt(b2, n)
      /\ \A i \in 1 .. n : b2[i] = Caesar(b1[i])
  BY <1>2, Ciphered
<1> HIDE DEF b2
<1>4. CString(buffer) = [i \in 1 .. n |-> buffer[i]]
  BY <1>1, StrLenIs DEF CString
<1>5. CString(b2) = [i \in 1 .. n |-> b2[i]]
  BY <1>1, <1>3, StrLenIs DEF CString
<1>6. Len(CString(buffer)) = n
  BY <1>1, <1>4
<1>7. Answer(CString(buffer)) =
        [i \in 1 .. n |-> Caesar(OppositeCase(CString(buffer)[i]))]
  BY <1>6 DEF Answer
<1>8. \A i \in 1 .. n : b2[i] = Caesar(OppositeCase(CString(buffer)[i]))
  BY <1>2, <1>3, <1>4
<1>9. CString(b2) = Answer(CString(buffer))
  BY <1>5, <1>7, <1>8
<1> QED
  BY <1>9 DEF b1, b2

-----------------------------------------------------------------------------
(* The server.                                                             *)

(* A buffer with a NUL holds a string.                                     *)
LEMMA FirstNul ==
  ASSUME NEW buffer \in Seq(Byte), NEW i \in 1 .. Len(buffer), buffer[i] = NUL
  PROVE  \E n : EndsAt(buffer, n)
<1> DEFINE S == {j \in 1 .. Len(buffer) : buffer[j] = NUL}
<1>1. Len(buffer) \in Nat /\ S \subseteq Nat /\ i \in S
  BY LenProperties
<1>2. PICK j \in S : \A k \in S : j <= k
  BY <1>1, LeastNatural
<1>3. EndsAt(buffer, j - 1)
  BY <1>1, <1>2 DEF EndsAt
<1> QED
  BY <1>3

(* What the two before functions make of a string, and what is sent of it. *)
LEMMA ConversionTypes ==
  ASSUME NEW buffer \in Seq(Byte), NEW i \in 1 .. Len(buffer), buffer[i] = NUL,
         NEW role \in {"convert", "cipher"}
  PROVE  /\ BeforeFunc(role, buffer) \in Seq(Byte)
         /\ \E k \in 1 .. Len(BeforeFunc(role, buffer)) : BeforeFunc(role, buffer)[k] = NUL
         /\ ReplyBytes(buffer) \in Seq(Byte) /\ ReplyBytes(buffer) # <<>>
<1>1. PICK n : EndsAt(buffer, n)
  BY FirstNul
<1>2. BeforeFunc(role, buffer) \in Seq(Byte) /\ EndsAt(BeforeFunc(role, buffer), n)
  BY <1>1, Converted, Ciphered DEF BeforeFunc
<1>3. \E k \in 1 .. Len(BeforeFunc(role, buffer)) : BeforeFunc(role, buffer)[k] = NUL
  <2>1. Len(BeforeFunc(role, buffer)) \in Nat
    BY <1>2, LenProperties
  <2> QED
    BY <1>2, <2>1 DEF EndsAt
<1>4. CString(buffer) \in Seq(Byte)
  <2>1. StrLen(buffer) = n /\ Len(buffer) \in Nat /\ n \in 0 .. (Len(buffer) - 1)
    BY <1>1, StrLenIs, LenProperties DEF EndsAt
  <2>2. SubSeq(buffer, 1, n) \in Seq(Byte)
    BY <2>1, SplitTypes DEF First
  <2> QED
    BY <2>1, <2>2 DEF CString
<1>5. NUL \in Byte
  BY DEF NUL, Byte
<1>6. ReplyBytes(buffer) \in Seq(Byte) /\ ReplyBytes(buffer) # <<>>
  BY <1>4, <1>5, AppendProperties DEF ReplyBytes
<1> QED
  BY <1>2, <1>3, <1>6

(* A capsule's name is a pair.                                             *)
LEMMA PairNotEmpty == \A a, b : <<a, b>> # <<>>
<1> SUFFICES ASSUME NEW a, NEW b PROVE <<a, b>> # <<>>
  OBVIOUS
<1>1. Len(<<a, b>>) = 2
  OBVIOUS
<1>2. Len(<<>>) = 0
  OBVIOUS
<1> QED
  BY <1>1, <1>2

LEMMA NotACapsule == NoCapsule \notin CapsuleId
<1>1. \A id \in CapsuleId : id = <<id[1], id[2]>>
  BY DEF CapsuleId
<1> QED
  BY <1>1, PairNotEmpty DEF NoCapsule

(* The first conjunct of induction.                                        *)
LEMMA InitIInv == Init => PlacesInv
<1> SUFFICES ASSUME Init PROVE PlacesInv
  OBVIOUS
<1> USE AOServerAssumption DEF Init
<1>1. ClientTypeOK /\ \A c \in Clients : client[c] = "off"
  BY EmptySeq DEF ClientInit, ClientTypeOK
<1>2. \A t \in Threads : thread[t].at = "none" /\ thread[t].capsule = NoCapsule
  OBVIOUS
<1>3. \A q \in Queues : queue[q] = <<>> /\ Len(queue[q]) = 0
  BY EmptySeq
<1>4. \A c \in Clients : heap[c] = <<>> /\ Len(heap[c]) = 0
  BY EmptySeq
<1>5. TypeOK
  <2>1. thread \in [Threads -> [at : ThreadPoints, capsule : CapsuleId \cup {NoCapsule}]]
    BY DEF ThreadPoints
  <2>2. queue \in [Queues -> Seq(CapsuleId)] /\ heap \in [Clients -> Seq(Capsule)]
    BY EmptySeq
  <2> QED
    BY <1>1, <2>1, <2>2 DEF TypeOK
<1>6. ExclusiveCapsules /\ AllocatedOnly
  BY <1>2, <1>3 DEF ExclusiveCapsules, AllocatedOnly, Holds, Working
<1>7. BuffersEnd /\ Connected /\ NobodyForgotten
  BY <1>1, <1>4 DEF BuffersEnd, Connected, NobodyForgotten
<1>8. StartedOnce
  BY <1>2 DEF StartedOnce, Roles, ActiveObjects, Threads
<1> QED
  BY <1>5, <1>6, <1>7, <1>8 DEF PlacesInv

-----------------------------------------------------------------------------
(* What the invariant says of the place of a capsule.                      *)

(* A thread at work holds an allocated capsule, with a string in it.       *)
LEMMA HeldCapsule ==
  ASSUME PlacesInv, NEW t \in Threads, thread[t].at \in Working
  PROVE  LET id == thread[t].capsule IN
         /\ id \in CapsuleId /\ id # NoCapsule /\ Allocated(id)
         /\ id[1] \in Clients /\ id[2] \in 1 .. Len(heap[id[1]])
         /\ Held(t) \in Capsule
         /\ \E i \in 1 .. Len(Held(t).buffer) : Held(t).buffer[i] = NUL
<1> DEFINE id == thread[t].capsule
<1>1. Allocated(id) /\ id \in CapsuleId
  BY DEF PlacesInv, AllocatedOnly, Allocated
<1>2. id[1] \in Clients /\ id[2] \in 1 .. MaxCapsules /\ id[2] <= Len(heap[id[1]])
  BY <1>1 DEF Allocated, CapsuleId
<1>3. heap[id[1]] \in Seq(Capsule) /\ Len(heap[id[1]]) \in Nat
  BY <1>2, LenProperties DEF PlacesInv, TypeOK
<1>4. id[2] \in 1 .. Len(heap[id[1]])
  BY <1>2, <1>3, AOServerAssumption
<1>5. Held(t) \in Capsule
  BY <1>3, <1>4, ElementOfSeq DEF Held
<1>6. \E i \in 1 .. Len(Held(t).buffer) : Held(t).buffer[i] = NUL
  BY <1>2, <1>4 DEF PlacesInv, BuffersEnd, Held
<1>7. id # NoCapsule
  BY <1>1, NotACapsule
<1> QED
  BY <1>1, <1>2, <1>4, <1>5, <1>6, <1>7

(* Nobody is forgotten by a step that loses no capsule and leaves the      *)
(* clients and the network alone.                                          *)
LEMMA StillOnTheWay ==
  ASSUME NobodyForgotten, UNCHANGED <<alive, up, down, clientVars>>,
         \A id \in CapsuleId :
            Somewhere(id) => Somewhere(id)' /\ heap'[id[1]][id[2]].socket = heap[id[1]][id[2]].socket
  PROVE  NobodyForgotten'
BY DEF NobodyForgotten, OnTheWay, clientVars

(* Steps that move no capsule and allocate none.                           *)
LEMMA SamePlaces ==
  ASSUME PlacesInv, UNCHANGED <<queue, heap, alive, up, down, clientVars>>,
         \A t \in Threads : thread'[t].capsule = thread[t].capsule
                            /\ (thread'[t].at \in Working <=> thread[t].at \in Working)
  PROVE  ExclusiveCapsules' /\ AllocatedOnly' /\ BuffersEnd' /\ NobodyForgotten'
<1>1. ExclusiveCapsules' /\ AllocatedOnly' /\ BuffersEnd'
  BY DEF PlacesInv, ExclusiveCapsules, AllocatedOnly, BuffersEnd, Holds, Allocated
<1>2. \A id \in CapsuleId :
        Somewhere(id) => Somewhere(id)' /\ heap'[id[1]][id[2]].socket = heap[id[1]][id[2]].socket
  BY DEF Somewhere, Holds
<1> QED
  BY <1>1, <1>2, StillOnTheWay DEF PlacesInv

-----------------------------------------------------------------------------
(* main.                                                                   *)
LEMMA MainPreserves ==
  ASSUME PlacesInv, StartThread \/ \E c \in Clients : Accept(c)
  PROVE  PlacesInv'
<1> USE AOServerAssumption
<1>1. CASE StartThread
  <2> DEFINE s == <<main.at, main.conn>>
  <2>1. s \in Threads /\ thread[s].at = "none" /\ main.at \in Roles /\ main.conn \in Clients
    BY <1>1 DEF PlacesInv, StartedOnce, StartThread, Threads
  <2>2. /\ thread' = [thread EXCEPT ![s] = [thread[s] EXCEPT !.at = FirstPoint(main.at)]]
        /\ main' = [main EXCEPT !.at = NextToStart[main.at]]
        /\ UNCHANGED <<queue, heap, alive, networkVars, clientVars>>
    BY <1>1 DEF StartThread
  <2>3. thread \in [Threads -> [at : ThreadPoints, capsule : CapsuleId \cup {NoCapsule}]]
    BY DEF PlacesInv, TypeOK
  <2>4. FirstPoint(main.at) \in {"recv", "deQ"}
    BY DEF FirstPoint
  <2>5. /\ thread'[s].at = FirstPoint(main.at) /\ thread'[s].capsule = thread[s].capsule
        /\ \A t \in Threads : t # s => thread'[t] = thread[t]
    BY <2>1, <2>2, <2>3
  <2>6. NextToStart[main.at] \in Roles \cup {"accept"}
    BY <2>1 DEF NextToStart, Roles
  <2>7. TypeOK'
    <3>1. thread' \in [Threads -> [at : ThreadPoints, capsule : CapsuleId \cup {NoCapsule}]]
      BY <2>1, <2>2, <2>3, <2>4 DEF ThreadPoints
    <3>2. main' \in [at : Roles \cup {"accept"}, conn : Clients \cup {NoClient}]
      BY <2>2, <2>6 DEF PlacesInv, TypeOK
    <3> QED
      BY <2>2, <3>1, <3>2 DEF PlacesInv, TypeOK, ClientTypeOK, networkVars, clientVars
  <2>8. \A t \in Threads : thread'[t].capsule = thread[t].capsule
                           /\ (thread'[t].at \in Working <=> thread[t].at \in Working)
    BY <2>1, <2>4, <2>5 DEF Working
  <2>9. ExclusiveCapsules' /\ AllocatedOnly' /\ BuffersEnd' /\ NobodyForgotten'
    BY <2>2, <2>8, SamePlaces DEF networkVars
  <2>10. StartedOnce'
    <3>1. main'.conn = main.conn
          /\ main'.at = (IF main.at = "listen" THEN "convert"
                         ELSE IF main.at = "convert" THEN "cipher" ELSE "accept")
      BY <2>1, <2>2 DEF PlacesInv, TypeOK, NextToStart, Roles
    <3>2. \A t \in ActiveObjects : /\ t \in Threads /\ <<"listen", t[2]>> \in Threads
                                   /\ t = <<t[1], t[2]>> /\ t[1] \in {"convert", "cipher"}
      BY DEF ActiveObjects, Threads, Roles
    <3>3. main.at = "listen" => thread'[<<"convert", main.conn>>].at = "none"
                                /\ thread'[<<"cipher", main.conn>>].at = "none"
      BY <2>1, <2>5 DEF PlacesInv, StartedOnce, ActiveObjects, Threads, Roles
    <3>4. main.at = "convert" => thread'[<<"cipher", main.conn>>].at = "none"
      BY <2>1, <2>5 DEF PlacesInv, StartedOnce, ActiveObjects, Threads, Roles
    <3>5. ASSUME NEW t \in ActiveObjects, thread'[<<"listen", t[2]>>].at = "none"
          PROVE  thread'[t].at = "none"
      <4>1. <<"listen", t[2]>> # s
        BY <2>4, <2>5, <3>5
      <4>2. thread[<<"listen", t[2]>>].at = "none"
        BY <2>5, <3>2, <3>5, <4>1
      <4>3. t # s
        <5>1. ASSUME t = s PROVE FALSE
          <6>1. main.at \in {"convert", "cipher"} /\ t[2] = main.conn
            BY <3>2, <5>1
          <6> QED
            BY <4>2, <6>1 DEF PlacesInv, StartedOnce
        <5> QED
          BY <5>1
      <4> QED
        BY <2>5, <3>2, <4>2, <4>3 DEF PlacesInv, StartedOnce
    <3>6. main'.at \in {"convert", "cipher"} => thread'[<<"listen", main.conn>>].at # "none"
      <4>1. <<"listen", main.conn>> \in Threads
        BY <2>1 DEF Threads, Roles
      <4>2. CASE main.at = "listen"
        BY <2>4, <2>5, <4>2
      <4>3. CASE main.at = "convert"
        BY <2>5, <4>1, <4>3 DEF PlacesInv, StartedOnce
      <4> QED
        BY <3>1, <4>2, <4>3
    <3> QED
      BY <2>1, <3>1, <3>3, <3>4, <3>5, <3>6 DEF StartedOnce, Roles
  <2>11. Connected'
    BY <2>2 DEF PlacesInv, Connected, networkVars, clientVars
  <2> QED
    BY <2>7, <2>9, <2>10, <2>11 DEF PlacesInv
<1>2. ASSUME NEW c \in Clients, Accept(c)
      PROVE  PlacesInv'
  <2> USE <1>2 DEF Accept, networkVars, clientVars
  <2>1. TypeOK'
    BY DEF PlacesInv, TypeOK, ClientTypeOK, Roles
  <2>2. ExclusiveCapsules' /\ AllocatedOnly' /\ BuffersEnd' /\ NobodyForgotten'
    BY SamePlaces
  <2>3. StartedOnce'
    BY DEF PlacesInv, StartedOnce, Roles
  <2>4. Connected'
    BY DEF PlacesInv, Connected
  <2> QED
    BY <2>1, <2>2, <2>3, <2>4 DEF PlacesInv
<1> QED
  BY <1>1, <1>2

-----------------------------------------------------------------------------
(* The listening thread.                                                   *)

(* What follows the received bytes up to the end of the string.            *)
LEMMA UnwrittenEnds ==
  ASSUME NEW bytes \in Seq(Byte), NEW rest \in Unwritten(bytes)
  PROVE  /\ rest \in Seq(Byte)
         /\ \/ rest = <<>> /\ \E i \in 1 .. Len(bytes) : bytes[i] = NUL
            \/ Len(rest) \in Nat \ {0} /\ rest[Len(rest)] = NUL
<1>1. NUL \in Byte
  BY DEF NUL, Byte
<1>2. CASE \E i \in 1 .. Len(bytes) : bytes[i] = NUL
  <2>1. rest = <<>>
    BY <1>2 DEF Unwritten
  <2> QED
    BY <1>2, <2>1, EmptySeq
<1>3. CASE ~\E i \in 1 .. Len(bytes) : bytes[i] = NUL
  <2>1. PICK old \in Residue : rest = Append(old, NUL)
    BY <1>3 DEF Unwritten
  <2>2. old \in Seq(Byte)
    <3>1. old \in Seq(Byte \ {NUL})
      BY AOServerAssumption
    <3> QED
      BY <3>1, SeqMonotonic, Byte \ {NUL} \subseteq Byte
  <2>3. /\ Append(old, NUL) \in Seq(Byte) /\ Len(Append(old, NUL)) = Len(old) + 1
        /\ Append(old, NUL)[Len(old) + 1] = NUL
    BY <1>1, <2>2, AppendProperties
  <2>4. Len(old) \in Nat
    BY <2>2, LenProperties
  <2> QED
    BY <2>1, <2>3, <2>4
<1> QED
  BY <1>2, <1>3

(* A new capsule is nowhere yet, so it may be put in the thread's hands.   *)
LEMMA EncapsulatePreserves ==
  ASSUME PlacesInv, NEW c \in Clients, NEW bytes \in Seq(Byte), Encapsulate(c, bytes),
         thread[<<"listen", c>>].at = "recv",
         UNCHANGED <<main, queue, alive, link, down, clientVars>>,
         \/ up' = up
         \/ \E rest \in Seq(Byte) : up' = [up EXCEPT ![c] = rest]
  PROVE  PlacesInv'
<1> DEFINE t == <<"listen", c>>
<1>1. t \in Threads
  BY DEF Threads, Roles
<1>2. heap[c] \in Seq(Capsule) /\ Len(heap[c]) \in Nat /\ Len(heap[c]) < MaxCapsules
  BY LenProperties DEF PlacesInv, TypeOK, Encapsulate
<1>3. PICK new \in CapsuleId : new = <<c, Len(heap[c]) + 1>>
  <2>1. Len(heap[c]) + 1 \in 1 .. MaxCapsules
    BY <1>2, AOServerAssumption
  <2>2. <<c, Len(heap[c]) + 1>> \in CapsuleId
    BY <2>1 DEF CapsuleId
  <2> QED
    BY <2>2
<1>4. new[1] = c /\ new[2] = Len(heap[c]) + 1
  BY <1>3
<1>5. new # NoCapsule /\ ~Allocated(new)
  BY <1>2, <1>4, NotACapsule DEF Allocated
<1>6. PICK rest \in Unwritten(bytes) :
        heap' = [heap EXCEPT ![c] =
                   Append(heap[c], [q |-> ReplyQueue(c), buffer |-> bytes \o rest, socket |-> c,
                                    received |-> Len(bytes)])]
  BY DEF Encapsulate
<1>7. bytes \o rest \in Seq(Byte)
      /\ \E i \in 1 .. Len(bytes \o rest) : (bytes \o rest)[i] = NUL
  <2>1. rest \in Seq(Byte)
    BY UnwrittenEnds
  <2>2. Len(bytes) \in Nat
    BY LenProperties
  <2>3. CASE rest = <<>> /\ \E i \in 1 .. Len(bytes) : bytes[i] = NUL
    <3>1. bytes \o rest = bytes
      BY <2>3, ConcatEmptySeq
    <3> QED
      BY <2>3, <3>1
  <2>4. CASE Len(rest) \in Nat \ {0} /\ rest[Len(rest)] = NUL
    <3>1. /\ bytes \o rest \in Seq(Byte)
          /\ Len(bytes \o rest) = Len(bytes) + Len(rest)
          /\ (bytes \o rest)[Len(bytes) + Len(rest)] = rest[Len(rest)]
      <4>1. Len(bytes) + Len(rest) \in 1 .. Len(bytes) + Len(rest)
        BY <2>2, <2>4
      <4>2. ~(Len(bytes) + Len(rest) <= Len(bytes)) /\ Len(bytes) + Len(rest) - Len(bytes) = Len(rest)
        BY <2>2, <2>4
      <4> QED
        BY <2>1, <4>1, <4>2, ConcatProperties
    <3> QED
      BY <2>2, <2>4, <3>1
  <2> QED
    BY <2>3, <2>4, UnwrittenEnds
<1> HIDE DEF t
<1>8. PICK made : made = [q |-> ReplyQueue(c), buffer |-> bytes \o rest, socket |-> c,
                          received |-> Len(bytes)]
  OBVIOUS
<1>9. made \in Capsule /\ made.socket = c /\ made.buffer = bytes \o rest
  BY <1>7, <1>8, LenProperties DEF Capsule, ReplyQueue, Queues
<1>10. heap' = [heap EXCEPT ![c] = Append(heap[c], made)]
  BY <1>6, <1>8
<1>11. /\ heap' \in [Clients -> Seq(Capsule)]
       /\ \A d \in Clients : Len(heap[d]) \in Nat /\ Len(heap'[d]) \in Nat /\ Len(heap[d]) <= Len(heap'[d])
       /\ \A d \in Clients : \A k \in 1 .. Len(heap[d]) : heap'[d][k] = heap[d][k]
       /\ Len(heap'[c]) = Len(heap[c]) + 1 /\ heap'[c][Len(heap[c]) + 1] = made
       /\ \A d \in Clients : d # c => heap'[d] = heap[d]
  <2>1. heap \in [Clients -> Seq(Capsule)]
    BY DEF PlacesInv, TypeOK
  <2>2. /\ Append(heap[c], made) \in Seq(Capsule)
        /\ Len(Append(heap[c], made)) = Len(heap[c]) + 1
        /\ \A k \in 1 .. Len(heap[c]) : Append(heap[c], made)[k] = heap[c][k]
        /\ Append(heap[c], made)[Len(heap[c]) + 1] = made
    BY <1>2, <1>9, AppendProperties
  <2>3. \A d \in Clients : Len(heap[d]) \in Nat
    BY <2>1, LenProperties
  <2> QED
    BY <1>10, <2>1, <2>2, <2>3
<1>12. thread' = [thread EXCEPT ![t] = [at |-> "enQ", capsule |-> new]]
  BY <1>3 DEF Encapsulate, t
<1>13. /\ thread'[t].at = "enQ" /\ thread'[t].capsule = new /\ thread[t].capsule = NoCapsule
       /\ \A u \in Threads : u # t => thread'[u] = thread[u]
  BY <1>1, <1>12 DEF PlacesInv, TypeOK, AllocatedOnly, Working, t
<1>14. TypeOK'
  <2>1. thread' \in [Threads -> [at : ThreadPoints, capsule : CapsuleId \cup {NoCapsule}]]
    BY <1>5, <1>12 DEF PlacesInv, TypeOK, ThreadPoints
  <2>2. up' \in [Clients -> Seq(Byte)]
    BY DEF PlacesInv, TypeOK, ClientTypeOK
  <2> QED
    BY <1>11, <2>1, <2>2 DEF PlacesInv, TypeOK, ClientTypeOK, clientVars
<1>15. heap'[c] = Append(heap[c], made) /\ \A d \in Clients : d # c => heap'[d] = heap[d]
  BY <1>10 DEF PlacesInv, TypeOK
<1>16. /\ Len(heap[c]) \in Nat /\ Len(heap'[c]) = Len(heap[c]) + 1
       /\ heap'[c][Len(heap[c]) + 1] = made
  BY <1>2, <1>9, <1>15, AppendProperties
<1>17. \A id \in CapsuleId : Allocated(id) => Allocated(id)'
                             /\ heap'[id[1]][id[2]] = heap[id[1]][id[2]]
  BY <1>11 DEF Allocated, CapsuleId
<1>18. Allocated(new)' /\ heap'[new[1]][new[2]] = made
  BY <1>4, <1>16 DEF Allocated
<1>19. AllocatedOnly'
  <2>1. ASSUME NEW u \in Threads
        PROVE  (IF thread[u].at \in Working THEN Allocated(thread[u].capsule)
                ELSE thread[u].capsule = NoCapsule)'
    <3>1. CASE u = t
      BY <1>13, <1>18, <3>1 DEF Working, Allocated
    <3>2. CASE u # t
      <4>1. thread[u].at \in Working => Allocated(thread[u].capsule)
        BY DEF PlacesInv, AllocatedOnly
      <4>2. thread[u].at \notin Working => thread[u].capsule = NoCapsule
        BY DEF PlacesInv, AllocatedOnly
      <4> QED
        BY <1>13, <1>17, <3>2, <4>1, <4>2 DEF Allocated
    <3> QED
      BY <3>1, <3>2
  <2>2. \A q \in Queues : \A i \in 1 .. Len(queue[q]) : Allocated(queue[q][i])'
    BY <1>17 DEF PlacesInv, AllocatedOnly, Allocated
  <2> QED
    BY <2>1, <2>2 DEF AllocatedOnly
<1>20. ExclusiveCapsules'
  <2>1. \A u \in Threads : thread[u].capsule # new
    BY <1>5 DEF PlacesInv, AllocatedOnly
  <2>2. \A q \in Queues : \A i \in 1 .. Len(queue[q]) : queue[q][i] # new
    BY <1>5 DEF PlacesInv, AllocatedOnly
  <2>3. \A u, v \in Threads : Holds(u, thread[v].capsule)' /\ thread'[v].capsule # NoCapsule => u = v
    BY <1>13, <2>1 DEF PlacesInv, ExclusiveCapsules, Holds
  <2>4. \A u \in Threads, q \in Queues : \A i \in 1 .. Len(queue[q]) : thread'[u].capsule # queue[q][i]
    BY <1>13, <2>2 DEF PlacesInv, ExclusiveCapsules, Holds
  <2> QED
    BY <2>3, <2>4 DEF PlacesInv, ExclusiveCapsules, Holds
<1>21. BuffersEnd'
  <2>1. ASSUME NEW d \in Clients, NEW k \in 1 .. Len(heap'[d])
        PROVE  \E i \in 1 .. Len(heap'[d][k].buffer) : heap'[d][k].buffer[i] = NUL
    <3>1. CASE k \in 1 .. Len(heap[d])
      <4>1. heap'[d][k] = heap[d][k]
        BY <1>11, <3>1
      <4>2. \E i \in 1 .. Len(heap[d][k].buffer) : heap[d][k].buffer[i] = NUL
        BY <3>1 DEF PlacesInv, BuffersEnd
      <4> QED
        BY <4>1, <4>2
    <3>2. CASE k \notin 1 .. Len(heap[d])
      <4>1. d = c
        BY <1>15, <3>2
      <4>2. k = Len(heap[c]) + 1
        BY <1>16, <3>2, <4>1
      <4>3. heap'[d][k].buffer = bytes \o rest
        BY <1>9, <1>16, <4>1, <4>2
      <4> QED
        BY <1>7, <4>3, Zenon
    <3> QED
      BY <3>1, <3>2
  <2> QED
    BY <2>1 DEF BuffersEnd
<1>22. StartedOnce'
  <2>1. \A u \in Threads : thread'[u].at = "none" <=> thread[u].at = "none"
    BY <1>13 DEF t
  <2>2. /\ main.at \in Roles => <<main.at, main.conn>> \in Threads \/ main.conn \notin Clients
        /\ \A u \in ActiveObjects : u \in Threads /\ <<"listen", u[2]>> \in Threads
    BY DEF Threads, ActiveObjects, Roles
  <2>3. main.at \in {"convert", "cipher"} =>
           <<"listen", main.conn>> \in Threads /\ <<"cipher", main.conn>> \in Threads
    BY DEF PlacesInv, StartedOnce, Threads, Roles
  <2> QED
    BY <2>1, <2>2, <2>3 DEF PlacesInv, StartedOnce
<1>23. Connected'
  BY DEF PlacesInv, Connected, clientVars
<1>24. NobodyForgotten'
  <2>1. \A id \in CapsuleId :
          Somewhere(id) => /\ Somewhere(id)'
                           /\ heap'[id[1]][id[2]].socket = heap[id[1]][id[2]].socket
    <3>1. \A id \in CapsuleId : Somewhere(id) => Somewhere(id)'
      <4>1. \A id \in CapsuleId, u \in Threads : Holds(u, id) => Holds(u, id)'
        BY <1>13, NotACapsule DEF Holds
      <4> QED
        BY <4>1 DEF Somewhere
    <3>2. \A id \in CapsuleId : Somewhere(id) => Allocated(id)
      BY NotACapsule DEF PlacesInv, AllocatedOnly, Somewhere, Holds
    <3> QED
      BY <1>17, <3>1, <3>2
  <2>2. Somewhere(new)' /\ heap'[new[1]][new[2]].socket = c
    BY <1>1, <1>9, <1>13, <1>18 DEF Somewhere, Holds
  <2>3. \A d \in Clients : d # c => up'[d] = up[d]
    BY DEF PlacesInv, TypeOK, ClientTypeOK
  <2>4. OnTheWay(c)'
    BY <1>3, <2>2 DEF OnTheWay
  <2>5. \A d \in Clients : d # c /\ OnTheWay(d) => OnTheWay(d)'
    BY <2>1, <2>3 DEF OnTheWay
  <2> QED
    BY <2>4, <2>5 DEF PlacesInv, NobodyForgotten, clientVars
<1> QED
  BY <1>14, <1>19, <1>20, <1>21, <1>22, <1>23, <1>24 DEF PlacesInv

(* recv of listenAO.                                                       *)
LEMMA ListenPreserves ==
  ASSUME PlacesInv, NEW c \in Clients, ListenReceives(c) \/ ListenReceivesNothing(c)
  PROVE  PlacesInv'
<1>1. CASE ListenReceives(c)
  <2>1. PICK n \in Received(up[c], BufferSize) :
          Encapsulate(c, First(up[c], n)) /\ up' = [up EXCEPT ![c] = AllBut(@, n)]
    BY <1>1 DEF ListenReceives
  <2>2. up[c] \in Seq(Byte)
    BY DEF PlacesInv, TypeOK, ClientTypeOK
  <2>3. First(up[c], n) \in Seq(Byte) /\ AllBut(up[c], n) \in Seq(Byte)
    BY <2>2, AOServerAssumption, ReceivedRange, SplitTypes
  <2> QED
    BY <1>1, <2>1, <2>3, EncapsulatePreserves DEF ListenReceives, At
<1>2. CASE ListenReceivesNothing(c)
  BY <1>2, EmptySeq, EncapsulatePreserves DEF ListenReceivesNothing, At, networkVars
<1> QED
  BY <1>1, <1>2

(* The points of a thread that has started do not matter to StartedOnce.   *)
LEMMA StartedStays ==
  ASSUME PlacesInv, main' = main, \A u \in Threads : thread'[u].at = "none" <=> thread[u].at = "none"
  PROVE  StartedOnce'
<1>1. /\ main.at \in Roles => <<main.at, main.conn>> \in Threads \/ main.conn \notin Clients
      /\ \A u \in ActiveObjects : u \in Threads /\ <<"listen", u[2]>> \in Threads
  BY DEF Threads, ActiveObjects, Roles
<1>2. main.at \in {"convert", "cipher"} =>
         <<"listen", main.conn>> \in Threads /\ <<"cipher", main.conn>> \in Threads
  BY DEF PlacesInv, StartedOnce, Threads, Roles
<1> QED
  BY <1>1, <1>2 DEF PlacesInv, StartedOnce

(* recv returns -1.                                                        *)
LEMMA FailsPreserves ==
  ASSUME PlacesInv, NEW c \in Clients, ListenFails(c)
  PROVE  PlacesInv'
<1> DEFINE t == <<"listen", c>>
<1>1. t \in Threads /\ thread[t].at = "recv"
  BY DEF ListenFails, At, Threads, Roles
<1>2. thread' = [thread EXCEPT ![t] = [thread[t] EXCEPT !.at = "done"]]
      /\ UNCHANGED <<main, queue, heap, alive, networkVars, clientVars>>
  BY DEF ListenFails, Moves
<1>3. thread \in [Threads -> [at : ThreadPoints, capsule : CapsuleId \cup {NoCapsule}]]
  BY DEF PlacesInv, TypeOK
<1> HIDE DEF t
<1>4. /\ thread'[t].at = "done" /\ thread'[t].capsule = thread[t].capsule
      /\ \A u \in Threads : u # t => thread'[u] = thread[u]
  BY <1>1, <1>2, <1>3
<1>5. TypeOK'
  <2>1. thread' \in [Threads -> [at : ThreadPoints, capsule : CapsuleId \cup {NoCapsule}]]
    BY <1>1, <1>2, <1>3 DEF ThreadPoints
  <2> QED
    BY <1>2, <2>1 DEF PlacesInv, TypeOK, ClientTypeOK, networkVars, clientVars
<1>6. ExclusiveCapsules' /\ AllocatedOnly' /\ BuffersEnd' /\ NobodyForgotten'
  BY <1>1, <1>2, <1>4, SamePlaces DEF Working, networkVars
<1>7. StartedOnce'
  BY <1>1, <1>2, <1>4, StartedStays
<1>8. Connected'
  BY <1>2 DEF PlacesInv, Connected, networkVars, clientVars
<1> QED
  BY <1>5, <1>6, <1>7, <1>8 DEF PlacesInv

-----------------------------------------------------------------------------
(* The queues.                                                             *)

(* A thread puts the capsule it holds at the end of a queue.               *)
LEMMA EnQPreserves ==
  ASSUME PlacesInv, NEW t \in Threads, NEW q \in Queues, NEW point \in {"recv", "deQ"},
         thread[t].at \in Working, Releases(t, point), EnQ(q, thread[t].capsule),
         UNCHANGED <<main, heap, alive, networkVars, clientVars>>
  PROVE  PlacesInv'
<1>1. PICK id : id = thread[t].capsule
  OBVIOUS
<1>2. id \in CapsuleId /\ id # NoCapsule /\ Allocated(id)
  BY <1>1, HeldCapsule
<1>3. /\ thread \in [Threads -> [at : ThreadPoints, capsule : CapsuleId \cup {NoCapsule}]]
      /\ queue \in [Queues -> Seq(CapsuleId)] /\ queue[q] \in Seq(CapsuleId)
      /\ \A p \in Queues : Len(queue[p]) \in Nat
  BY LenProperties DEF PlacesInv, TypeOK
<1>4. /\ Append(queue[q], id) \in Seq(CapsuleId)
      /\ Len(Append(queue[q], id)) = Len(queue[q]) + 1
      /\ \A i \in 1 .. Len(queue[q]) : Append(queue[q], id)[i] = queue[q][i]
      /\ Append(queue[q], id)[Len(queue[q]) + 1] = id
  BY <1>2, <1>3, AppendProperties
<1>5. /\ queue' \in [Queues -> Seq(CapsuleId)]
      /\ Len(queue'[q]) = Len(queue[q]) + 1 /\ queue'[q][Len(queue[q]) + 1] = id
      /\ \A i \in 1 .. Len(queue[q]) : queue'[q][i] = queue[q][i]
      /\ \A p \in Queues : p # q => queue'[p] = queue[p]
  BY <1>1, <1>3, <1>4 DEF EnQ
<1>6. /\ thread' \in [Threads -> [at : ThreadPoints, capsule : CapsuleId \cup {NoCapsule}]]
      /\ thread'[t].at = point /\ thread'[t].capsule = NoCapsule
      /\ \A u \in Threads : u # t => thread'[u] = thread[u]
  BY <1>3 DEF Releases, ThreadPoints
<1>7. TypeOK'
  BY <1>5, <1>6 DEF PlacesInv, TypeOK, ClientTypeOK, networkVars, clientVars
<1>8. \A d : Allocated(d)' <=> Allocated(d)
  BY DEF Allocated
(* Every place of a queue after the step held its capsule before, or is    *)
(* the new one.                                                            *)
<1>9. \A p \in Queues : \A i \in 1 .. Len(queue'[p]) :
        \/ i \in 1 .. Len(queue[p]) /\ queue'[p][i] = queue[p][i]
        \/ p = q /\ i = Len(queue[q]) + 1 /\ queue'[p][i] = id
  BY <1>3, <1>5
<1>10. AllocatedOnly'
  <2>1. \A p \in Queues : \A i \in 1 .. Len(queue'[p]) : Allocated(queue[p][i])'
    BY <1>2, <1>8, <1>9 DEF PlacesInv, AllocatedOnly, Allocated
  <2>2. \A u \in Threads : (IF thread[u].at \in Working THEN Allocated(thread[u].capsule)
                            ELSE thread[u].capsule = NoCapsule)'
    BY <1>6 DEF PlacesInv, AllocatedOnly, Allocated, Working
  <2> QED
    BY <2>1, <2>2 DEF AllocatedOnly
<1>11. ExclusiveCapsules'
  <2>1. \A u \in Threads : thread'[u].capsule = id => FALSE
    BY <1>1, <1>2, <1>6 DEF PlacesInv, ExclusiveCapsules, Holds
  <2>2. \A p \in Queues : \A i \in 1 .. Len(queue[p]) : queue[p][i] # id
    BY <1>1 DEF PlacesInv, ExclusiveCapsules, Holds
  <2>3. \A u, v \in Threads : thread'[u].capsule = thread'[v].capsule /\ thread'[v].capsule # NoCapsule => u = v
    BY <1>6 DEF PlacesInv, ExclusiveCapsules, Holds
  <2>4. ASSUME NEW p \in Queues, NEW r \in Queues,
               NEW i \in 1 .. Len(queue'[p]), NEW j \in 1 .. Len(queue'[r]),
               queue'[p][i] = queue'[r][j]
        PROVE  p = r /\ i = j
    BY <1>9, <2>2, <2>4, SMTT(30) DEF PlacesInv, ExclusiveCapsules
  <2>5. ASSUME NEW u \in Threads, NEW p \in Queues, NEW i \in 1 .. Len(queue'[p]),
               thread'[u].capsule = queue'[p][i]
        PROVE  FALSE
    <3>1. CASE i \in 1 .. Len(queue[p]) /\ queue'[p][i] = queue[p][i]
      <4>1. queue[p][i] \in CapsuleId /\ queue[p][i] # NoCapsule
        <5>1. queue[p][i] \in CapsuleId
          BY <3>1 DEF PlacesInv, AllocatedOnly, Allocated
        <5> QED
          BY <5>1, NotACapsule
      <4> QED
        BY <1>6, <2>5, <3>1, <4>1 DEF PlacesInv, ExclusiveCapsules, Holds
    <3>2. CASE queue'[p][i] = id
      BY <2>1, <2>5, <3>2
    <3> QED
      BY <1>9, <3>1, <3>2
  <2> QED
    BY <2>3, <2>4, <2>5 DEF ExclusiveCapsules, Holds
<1>12. BuffersEnd' /\ Connected'
  BY DEF PlacesInv, BuffersEnd, Connected, networkVars, clientVars
<1>13. StartedOnce'
  BY <1>6, StartedStays DEF Working
<1>14. NobodyForgotten'
  <2>1. ASSUME NEW d \in CapsuleId, Somewhere(d)
        PROVE  Somewhere(d)'
    <3>1. CASE d = id
      <4>1. Len(queue[q]) + 1 \in 1 .. Len(queue'[q])
        BY <1>3, <1>5
      <4> QED
        BY <1>5, <3>1, <4>1 DEF Somewhere
    <3>2. CASE d # id /\ \E u \in Threads : Holds(u, d)
      BY <1>1, <1>6, <3>2 DEF Somewhere, Holds
    <3>3. CASE \E p \in Queues : \E i \in 1 .. Len(queue[p]) : queue[p][i] = d
      <4>1. PICK p \in Queues : \E i \in 1 .. Len(queue[p]) : queue[p][i] = d
        BY <3>3
      <4>2. PICK i \in 1 .. Len(queue[p]) : queue[p][i] = d
        BY <4>1
      <4>3. i \in 1 .. Len(queue'[p]) /\ queue'[p][i] = d
        <5>1. CASE p = q
          BY <1>3, <1>5, <4>2, <5>1
        <5>2. CASE p # q
          BY <1>5, <4>2, <5>2
        <5> QED
          BY <5>1, <5>2
      <4> QED
        BY <4>3 DEF Somewhere
    <3> QED
      BY <2>1, <3>1, <3>2, <3>3 DEF Somewhere
  <2> QED
    BY <2>1, StillOnTheWay DEF PlacesInv, networkVars
<1> QED
  BY <1>7, <1>10, <1>11, <1>12, <1>13, <1>14 DEF PlacesInv

(* An active object takes the capsule at the head of its queue.            *)
LEMMA DeQPreserves ==
  ASSUME PlacesInv, NEW t \in ActiveObjects, DeQ(t)
  PROVE  PlacesInv'
<1> DEFINE q == InputQueue(t)
<1>1. t \in Threads /\ q \in Queues
  BY DEF ActiveObjects, Threads, Roles, InputQueue, Queues
<1> HIDE DEF q
<1>2. /\ thread \in [Threads -> [at : ThreadPoints, capsule : CapsuleId \cup {NoCapsule}]]
      /\ queue \in [Queues -> Seq(CapsuleId)] /\ queue[q] \in Seq(CapsuleId)
      /\ \A p \in Queues : Len(queue[p]) \in Nat
  BY <1>1, LenProperties DEF PlacesInv, TypeOK
<1>3. /\ queue[q] # <<>>
      /\ thread' = [thread EXCEPT ![t] = [at |-> "before", capsule |-> Head(queue[q])]]
      /\ queue' = [queue EXCEPT ![q] = Tail(queue[q])]
      /\ thread[t].at = "deQ"
      /\ UNCHANGED <<main, heap, alive, networkVars, clientVars>>
  BY <1>1, <1>2 DEF DeQ, At, AfterTake, q
<1>4. /\ Head(queue[q]) = queue[q][1] /\ Tail(queue[q]) \in Seq(CapsuleId)
      /\ Len(Tail(queue[q])) = Len(queue[q]) - 1 /\ Len(queue[q]) > 0
      /\ \A i \in 1 .. Len(Tail(queue[q])) : Tail(queue[q])[i] = queue[q][i + 1]
  <2>1. Len(queue[q]) \in Nat \ {0}
    BY <1>2, <1>3, EmptySeq
  <2> QED
    BY <1>2, <1>3, <2>1, HeadTailProperties
<1>5. PICK id : id = queue[q][1]
  OBVIOUS
<1>6. id \in CapsuleId /\ id # NoCapsule /\ Allocated(id)
  <2>1. Allocated(id)
    BY <1>1, <1>2, <1>4, <1>5 DEF PlacesInv, AllocatedOnly
  <2>2. id \in CapsuleId
    BY <2>1 DEF Allocated
  <2> QED
    BY <2>1, <2>2, NotACapsule
<1>7. /\ thread' \in [Threads -> [at : ThreadPoints, capsule : CapsuleId \cup {NoCapsule}]]
      /\ thread'[t].at = "before" /\ thread'[t].capsule = id
      /\ \A u \in Threads : u # t => thread'[u] = thread[u]
  BY <1>1, <1>2, <1>3, <1>4, <1>5, <1>6 DEF ThreadPoints
<1>8. queue' \in [Queues -> Seq(CapsuleId)] /\ \A p \in Queues : Len(queue'[p]) \in Nat
  BY <1>2, <1>3, <1>4, LenProperties
(* Every place of a queue after the step is one before, but not q's first. *)
<1>9. \A p \in Queues : \A i \in 1 .. Len(queue'[p]) :
        IF p = q THEN i + 1 \in 1 .. Len(queue[p]) /\ i + 1 # 1 /\ queue'[p][i] = queue[p][i + 1]
        ELSE i \in 1 .. Len(queue[p]) /\ queue'[p][i] = queue[p][i]
  BY <1>1, <1>2, <1>3, <1>4, <1>8
<1>10. TypeOK'
  BY <1>3, <1>7, <1>8 DEF PlacesInv, TypeOK, ClientTypeOK, networkVars, clientVars
<1>11. \A d : Allocated(d)' <=> Allocated(d)
  BY <1>3 DEF Allocated
<1>12. AllocatedOnly'
  <2>1. \A p \in Queues : \A i \in 1 .. Len(queue'[p]) : Allocated(queue[p][i])'
    BY <1>9, <1>11, ZenonT(40) DEF PlacesInv, AllocatedOnly, Allocated
  <2>2. ASSUME NEW u \in Threads
        PROVE (IF thread[u].at \in Working THEN Allocated(thread[u].capsule)
               ELSE thread[u].capsule = NoCapsule)'
    <3>1. CASE u = t
      BY <1>6, <1>7, <1>11, <3>1 DEF Allocated, Working
    <3>2. CASE u # t
      BY <1>3, <1>7, <3>2 DEF PlacesInv, AllocatedOnly, Allocated, Working
    <3> QED
      BY <3>1, <3>2
  <2> QED
    BY <2>1, <2>2 DEF AllocatedOnly
<1>13. thread[t].capsule = NoCapsule
  BY <1>1, <1>3 DEF PlacesInv, AllocatedOnly, Working
<1>14. ExclusiveCapsules'
  <2>1. 1 \in 1 .. Len(queue[q])
    BY <1>2, <1>4
  <2>2. \A u \in Threads : thread[u].capsule # id
    BY <1>1, <1>5, <2>1 DEF PlacesInv, ExclusiveCapsules, Holds
  <2>3. \A u, v \in Threads : thread'[u].capsule = thread'[v].capsule /\ thread'[v].capsule # NoCapsule => u = v
    BY <1>1, <1>7, <2>2 DEF PlacesInv, ExclusiveCapsules, Holds
  <2>4. ASSUME NEW p \in Queues, NEW i \in 1 .. Len(queue'[p])
        PROVE  queue'[p][i] # id
    <3>1. CASE p = q
      BY <1>1, <1>5, <1>9, <2>1, <3>1 DEF PlacesInv, ExclusiveCapsules
    <3>2. CASE p # q
      BY <1>1, <1>5, <1>9, <2>1, <3>2 DEF PlacesInv, ExclusiveCapsules
    <3> QED
      BY <3>1, <3>2
  <2>5. ASSUME NEW p \in Queues, NEW r \in Queues,
               NEW i \in 1 .. Len(queue'[p]), NEW j \in 1 .. Len(queue'[r]),
               queue'[p][i] = queue'[r][j]
        PROVE  p = r /\ i = j
    <3>1. CASE p = q /\ r = q
      <4>1. i + 1 = j + 1
        BY <1>1, <1>9, <2>5, <3>1 DEF PlacesInv, ExclusiveCapsules
      <4> QED
        BY <1>8, <3>1, <4>1
    <3>2. CASE p = q /\ r # q
      BY <1>1, <1>9, <2>5, <3>2 DEF PlacesInv, ExclusiveCapsules
    <3>3. CASE p # q /\ r = q
      BY <1>1, <1>9, <2>5, <3>3 DEF PlacesInv, ExclusiveCapsules
    <3>4. CASE p # q /\ r # q
      BY <1>9, <2>5, <3>4 DEF PlacesInv, ExclusiveCapsules
    <3> QED
      BY <3>1, <3>2, <3>3, <3>4
  <2>6. ASSUME NEW u \in Threads, NEW p \in Queues, NEW i \in 1 .. Len(queue'[p])
        PROVE  thread'[u].capsule # queue'[p][i]
    <3>1. CASE u = t
      BY <1>7, <2>4, <3>1
    <3>2. CASE u # t
      BY <1>7, <1>9, <3>2 DEF PlacesInv, ExclusiveCapsules, Holds
    <3> QED
      BY <3>1, <3>2
  <2> QED
    BY <2>3, <2>5, <2>6 DEF ExclusiveCapsules, Holds
<1>15. BuffersEnd' /\ Connected'
  BY <1>3 DEF PlacesInv, BuffersEnd, Connected, networkVars, clientVars
<1>16. StartedOnce'
  BY <1>3, <1>7, StartedStays
<1>17. NobodyForgotten'
  <2>1. ASSUME NEW d \in CapsuleId, Somewhere(d)
        PROVE  Somewhere(d)'
    <3>1. CASE d = id
      BY <1>1, <1>7, <3>1 DEF Somewhere, Holds
    <3>2. CASE \E u \in Threads : Holds(u, d)
      <4>1. PICK u \in Threads : thread[u].capsule = d
        BY <3>2 DEF Holds
      <4>2. u # t
        BY <1>13, <4>1, NotACapsule
      <4> QED
        BY <1>7, <4>1, <4>2 DEF Somewhere, Holds
    <3>3. CASE d # id /\ \E p \in Queues : \E i \in 1 .. Len(queue[p]) : queue[p][i] = d
      <4>1. PICK p \in Queues : \E i \in 1 .. Len(queue[p]) : queue[p][i] = d
        BY <3>3
      <4>2. PICK i \in 1 .. Len(queue[p]) : queue[p][i] = d
        BY <4>1
      <4>3. CASE p = q
        <5>1. i # 1
          BY <1>5, <3>3, <4>2, <4>3
        <5>2. i - 1 \in 1 .. Len(Tail(queue[q])) /\ (i - 1) + 1 = i
          BY <1>2, <1>4, <4>3, <5>1
        <5>3. i - 1 \in 1 .. Len(queue'[q]) /\ queue'[q][i - 1] = d
          BY <1>1, <1>2, <1>3, <1>4, <4>2, <4>3, <5>2
        <5> QED
          BY <1>1, <5>3 DEF Somewhere
      <4>4. CASE p # q
        BY <1>2, <1>3, <4>2, <4>4 DEF Somewhere
      <4> QED
        BY <4>3, <4>4
    <3> QED
      BY <2>1, <3>1, <3>2, <3>3 DEF Somewhere
  <2> QED
    BY <1>3, <2>1, StillOnTheWay DEF PlacesInv, networkVars
<1> QED
  BY <1>10, <1>12, <1>14, <1>15, <1>16, <1>17 DEF PlacesInv

-----------------------------------------------------------------------------
(* What the threads do to the capsule they hold.                           *)

(* The conversion leaves a string in the buffer and the capsule where it   *)
(* is.                                                                     *)
LEMMA BeforePreserves ==
  ASSUME PlacesInv, NEW t \in ActiveObjects, Before(t)
  PROVE  PlacesInv'
<1> DEFINE id == thread[t].capsule
           c == id[1]
           k == id[2]
           converted == [heap[c][k] EXCEPT !.buffer = BeforeFunc(t[1], @)]
<1>1. t \in Threads /\ t[1] \in {"convert", "cipher"} /\ thread[t].at = "before"
  BY DEF ActiveObjects, Threads, Roles, Before, At
<1>2. c \in Clients /\ k \in 1 .. Len(heap[c]) /\ heap[c][k] \in Capsule
      /\ \E i \in 1 .. Len(heap[c][k].buffer) : heap[c][k].buffer[i] = NUL
  <2>1. thread[t].at \in Working
    BY <1>1 DEF Working
  <2> QED
    BY <1>1, <2>1, HeldCapsule DEF Held
<1>3. heap[c] \in Seq(Capsule) /\ heap \in [Clients -> Seq(Capsule)]
  BY <1>2 DEF PlacesInv, TypeOK
<1>4. /\ heap' = [heap EXCEPT ![c] = [heap[c] EXCEPT ![k] = converted]]
      /\ thread' = [thread EXCEPT ![t] = [thread[t] EXCEPT !.at = "after"]]
      /\ UNCHANGED <<main, queue, alive, networkVars, clientVars>>
  BY <1>3 DEF Before, Moves
<1>5. thread \in [Threads -> [at : ThreadPoints, capsule : CapsuleId \cup {NoCapsule}]]
  BY DEF PlacesInv, TypeOK
<1>6. /\ heap[c][k].buffer \in Seq(Byte)
      /\ BeforeFunc(t[1], heap[c][k].buffer) \in Seq(Byte)
      /\ \E i \in 1 .. Len(BeforeFunc(t[1], heap[c][k].buffer)) :
            BeforeFunc(t[1], heap[c][k].buffer)[i] = NUL
  <2>1. heap[c][k].buffer \in Seq(Byte)
    BY <1>2 DEF Capsule
  <2>2. PICK i \in 1 .. Len(heap[c][k].buffer) : heap[c][k].buffer[i] = NUL
    BY <1>2
  <2> QED
    BY <1>1, <2>1, <2>2, ConversionTypes
<1>7. /\ converted \in Capsule /\ converted.socket = heap[c][k].socket
      /\ converted.buffer = BeforeFunc(t[1], heap[c][k].buffer)
  BY <1>2, <1>6 DEF Capsule
<1> HIDE DEF id, c, k, converted
<1>8. /\ [heap[c] EXCEPT ![k] = converted] \in Seq(Capsule)
      /\ Len([heap[c] EXCEPT ![k] = converted]) = Len(heap[c])
      /\ \A j \in 1 .. Len(heap[c]) :
            [heap[c] EXCEPT ![k] = converted][j] = IF j = k THEN converted ELSE heap[c][j]
  BY <1>2, <1>3, <1>7, ExceptSeq
<1>9. /\ heap' \in [Clients -> Seq(Capsule)]
      /\ \A d \in Clients : Len(heap'[d]) = Len(heap[d])
      /\ \A d \in Clients : \A j \in 1 .. Len(heap[d]) :
            heap'[d][j] = IF d = c /\ j = k THEN converted ELSE heap[d][j]
  BY <1>3, <1>4, <1>8
<1>10. /\ thread' \in [Threads -> [at : ThreadPoints, capsule : CapsuleId \cup {NoCapsule}]]
       /\ thread'[t].at = "after" /\ thread'[t].capsule = thread[t].capsule
       /\ \A u \in Threads : u # t => thread'[u] = thread[u]
  BY <1>1, <1>4, <1>5 DEF ThreadPoints
<1>11. TypeOK'
  BY <1>4, <1>9, <1>10 DEF PlacesInv, TypeOK, ClientTypeOK, networkVars, clientVars
<1>12. \A u \in Threads : thread'[u].capsule = thread[u].capsule
                          /\ (thread'[u].at \in Working <=> thread[u].at \in Working)
  BY <1>1, <1>10 DEF Working
<1>13. \A d \in CapsuleId : Allocated(d) => Allocated(d)' /\ heap'[d[1]][d[2]].socket = heap[d[1]][d[2]].socket
  <2>1. ASSUME NEW d \in CapsuleId, Allocated(d)
        PROVE  Allocated(d)' /\ heap'[d[1]][d[2]].socket = heap[d[1]][d[2]].socket
    <3>1. d[1] \in Clients /\ d[2] \in 1 .. MaxCapsules /\ d[2] <= Len(heap[d[1]])
      BY <2>1 DEF Allocated, CapsuleId
    <3>2. d[2] \in 1 .. Len(heap[d[1]])
      BY <3>1, LenProperties, AOServerAssumption DEF PlacesInv, TypeOK
    <3>3. Allocated(d)'
      BY <1>9, <3>1 DEF Allocated
    <3> QED
      BY <1>7, <1>9, <3>1, <3>2, <3>3
  <2> QED
    BY <2>1
<1>14. AllocatedOnly'
  <2>1. \A d : Allocated(d) => Allocated(d)'
    BY <1>13 DEF Allocated
  <2> QED
    BY <1>4, <1>12, <2>1 DEF PlacesInv, AllocatedOnly, Allocated
<1>15. ExclusiveCapsules' /\ Connected'
  BY <1>4, <1>12 DEF PlacesInv, ExclusiveCapsules, Holds, Connected, networkVars, clientVars
<1>16. BuffersEnd'
  <2>1. ASSUME NEW d \in Clients, NEW j \in 1 .. Len(heap'[d])
        PROVE  \E i \in 1 .. Len(heap'[d][j].buffer) : heap'[d][j].buffer[i] = NUL
    <3>1. j \in 1 .. Len(heap[d])
      BY <1>9
    <3>2. CASE d = c /\ j = k
      <4>1. heap'[d][j].buffer = BeforeFunc(t[1], heap[c][k].buffer)
        BY <1>7, <1>9, <3>1, <3>2
      <4> QED
        BY <1>6, <4>1
    <3>3. CASE ~(d = c /\ j = k)
      <4>1. heap'[d][j] = heap[d][j]
        BY <1>9, <3>1, <3>3
      <4> QED
        BY <3>1, <4>1 DEF PlacesInv, BuffersEnd
    <3> QED
      BY <3>2, <3>3
  <2> QED
    BY <2>1 DEF BuffersEnd
<1>17. StartedOnce'
  BY <1>1, <1>4, <1>10, StartedStays
<1>18. NobodyForgotten'
  <2>1. \A d \in CapsuleId : Somewhere(d) => Somewhere(d)' /\ Allocated(d)
    BY <1>4, <1>12, NotACapsule DEF PlacesInv, AllocatedOnly, Somewhere, Holds
  <2> QED
    BY <1>4, <1>13, <2>1, StillOnTheWay DEF PlacesInv, networkVars
<1> QED
  BY <1>11, <1>14, <1>15, <1>16, <1>17, <1>18 DEF PlacesInv

(* The steps that put a capsule on a queue.                                *)
LEMMA HandOnPreserves ==
  ASSUME PlacesInv, (\E c \in Clients : ListenEnQ(c)) \/ (\E t \in ActiveObjects : insert_to_queue(t))
  PROVE  PlacesInv'
<1>1. ASSUME NEW c \in Clients, ListenEnQ(c)
      PROVE  PlacesInv'
  <2>1. <<"listen", c>> \in Threads /\ SendQueue(c) \in Queues
    BY DEF Threads, Roles, SendQueue, Queues
  <2> QED
    BY <1>1, <2>1, EnQPreserves DEF ListenEnQ, At, Working
<1>2. ASSUME NEW t \in ActiveObjects, insert_to_queue(t)
      PROVE  PlacesInv'
  <2>1. t \in Threads /\ thread[t].at \in Working
    BY <1>2 DEF ActiveObjects, Threads, Roles, insert_to_queue, At, Working
  <2>2. Held(t).q \in Queues
    BY <2>1, HeldCapsule DEF Capsule
  <2> QED
    BY <1>2, <2>1, <2>2, EnQPreserves DEF insert_to_queue
<1> QED
  BY <1>1, <1>2

(* The capsule whose string is sent to a waiting client is gone, but the   *)
(* reply, which is not empty, is on its way.                               *)
LEMMA SendPreserves ==
  ASSUME PlacesInv, NEW t \in ActiveObjects, send_message(t)
  PROVE  PlacesInv'
<1> DEFINE c == Held(t).socket
           bytes == ReplyBytes(Held(t).buffer)
<1>1. PICK id : id = thread[t].capsule
  OBVIOUS
<1>2. t \in Threads /\ thread[t].at \in Working
  BY DEF ActiveObjects, Threads, Roles, send_message, At, Working
<1>3. /\ Held(t) \in Capsule /\ c \in Clients /\ Held(t).buffer \in Seq(Byte)
      /\ id \in CapsuleId /\ Held(t) = heap[id[1]][id[2]]
      /\ \E i \in 1 .. Len(Held(t).buffer) : Held(t).buffer[i] = NUL
  BY <1>1, <1>2, HeldCapsule DEF Capsule, Held
<1>4. bytes \in Seq(Byte) /\ bytes # <<>>
  BY <1>3, ConversionTypes
<1>5. /\ alive /\ ServerSends(c, bytes)
      /\ thread' = [thread EXCEPT ![t] = [at |-> "deQ", capsule |-> NoCapsule]]
      /\ UNCHANGED <<main, queue, heap, up, clientVars>>
  BY DEF send_message, Releases
<1>6. heap[id[1]][id[2]].socket = c
  BY <1>3
<1> HIDE DEF c, bytes
<1>7. ClientTypeOK'
  <2>1. ClientTypeOK /\ UNCHANGED <<up, clientVars>>
    BY <1>5 DEF PlacesInv, TypeOK
  <2> QED
    BY <1>3, <1>4, <1>5, <2>1, SendTypes
<1>8. /\ thread' \in [Threads -> [at : ThreadPoints, capsule : CapsuleId \cup {NoCapsule}]]
      /\ thread'[t].at = "deQ" /\ thread'[t].capsule = NoCapsule
      /\ \A u \in Threads : u # t => thread'[u] = thread[u]
  BY <1>2, <1>5 DEF PlacesInv, TypeOK, ThreadPoints
<1>9. TypeOK'
  BY <1>5, <1>7, <1>8 DEF PlacesInv, TypeOK
<1>10. AllocatedOnly'
  BY <1>5, <1>8 DEF PlacesInv, AllocatedOnly, Allocated, Working
<1>11. ExclusiveCapsules'
  <2>1. \A u, v \in Threads : thread'[u].capsule = thread'[v].capsule /\ thread'[v].capsule # NoCapsule => u = v
    BY <1>8 DEF PlacesInv, ExclusiveCapsules, Holds
  <2>2. \A q \in Queues : \A i \in 1 .. Len(queue[q]) : queue[q][i] # NoCapsule
    BY NotACapsule DEF PlacesInv, AllocatedOnly, Allocated
  <2>3. \A u \in Threads, q \in Queues : \A i \in 1 .. Len(queue[q]) : thread'[u].capsule # queue[q][i]
    BY <1>8, <2>2 DEF PlacesInv, ExclusiveCapsules, Holds
  <2> QED
    BY <1>5, <2>1, <2>3 DEF PlacesInv, ExclusiveCapsules, Holds
<1>12. BuffersEnd'
  BY <1>5 DEF PlacesInv, BuffersEnd
<1>13. StartedOnce'
  BY <1>2, <1>5, <1>8, StartedStays DEF Working
<1>14. link[c] = "up" => link' = link /\ down' = [down EXCEPT ![c] = @ \o bytes]
  BY <1>5 DEF ServerSends
<1>15. \A d \in Clients : (link[d] = "up" => link'[d] = "up") /\ (d # c => down'[d] = down[d])
  BY <1>3, <1>5 DEF ServerSends, PlacesInv, TypeOK, ClientTypeOK
<1>16. Connected'
  BY <1>5, <1>15 DEF PlacesInv, Connected, clientVars
<1>17. NobodyForgotten'
  <2>1. ASSUME alive', NEW d \in Clients, client'[d] = "recv"
        PROVE  OnTheWay(d)'
    <3>1. OnTheWay(d) /\ link[d] = "up"
      BY <1>5, <2>1 DEF PlacesInv, NobodyForgotten, Connected, clientVars
    <3>2. CASE d = c
      <4>1. down'[c] = down[c] \o bytes /\ down[c] \in Seq(Byte)
        BY <1>3, <1>14, <3>1, <3>2 DEF PlacesInv, TypeOK, ClientTypeOK
      <4>2. down'[c] # <<>>
        BY <1>4, <4>1, ConcatEqualIffEmpty
      <4> QED
        BY <3>2, <4>2 DEF OnTheWay
    <3>3. CASE d # c
      <4>1. \A e \in CapsuleId : e # id /\ Somewhere(e) => Somewhere(e)'
        BY <1>1, <1>5, <1>8 DEF Somewhere, Holds
      <4>2. CASE up[d] # <<>> \/ down[d] # <<>>
        BY <1>5, <1>15, <3>3, <4>2 DEF OnTheWay
      <4>3. CASE \E e \in CapsuleId : Somewhere(e) /\ heap[e[1]][e[2]].socket = d
        <5>1. PICK e \in CapsuleId : Somewhere(e) /\ heap[e[1]][e[2]].socket = d
          BY <4>3
        <5>2. e # id
          BY <1>6, <3>3, <5>1
        <5>3. Somewhere(e)' /\ heap'[e[1]][e[2]].socket = d
          BY <1>5, <4>1, <5>1, <5>2
        <5> QED
          BY <5>3 DEF OnTheWay
      <4> QED
        BY <3>1, <4>2, <4>3 DEF OnTheWay
    <3> QED
      BY <3>2, <3>3
  <2> QED
    BY <2>1 DEF NobodyForgotten
<1> QED
  BY <1>9, <1>10, <1>11, <1>12, <1>13, <1>16, <1>17 DEF PlacesInv

-----------------------------------------------------------------------------
(* The clients: only sending a request makes one wait, and then the        *)
(* request is on its way.                                                  *)
LEMMA ClientPreserves ==
  ASSUME PlacesInv, NEW c \in Clients, ClientStep(c), UNCHANGED serverVars
  PROVE  PlacesInv'
<1>1. UNCHANGED <<main, thread, queue, heap>>
  BY DEF serverVars
<1>2. ClientTypeOK'
  BY ClientTypes DEF PlacesInv, TypeOK
<1>3. TypeOK'
  BY <1>1, <1>2 DEF PlacesInv, TypeOK
<1>4. ExclusiveCapsules' /\ AllocatedOnly' /\ BuffersEnd' /\ StartedOnce'
  BY <1>1 DEF PlacesInv, ExclusiveCapsules, AllocatedOnly, BuffersEnd, StartedOnce, Holds, Allocated
<1>5. /\ \A d \in Clients : d # c => /\ client'[d] = client[d] /\ link'[d] = link[d]
                                     /\ up'[d] = up[d] /\ down'[d] = down[d]
      /\ alive' = alive
      /\ client'[c] \in {"prompt", "recv"} => link'[c] = "up"
  <2>1. CASE Connect(c)
    BY <2>1 DEF Connect, PlacesInv, TypeOK, ClientTypeOK, Connected
  <2>2. CASE SendRequest(c)
    <3>1. \E text \in Texts[c] : up' = IF alive THEN [up EXCEPT ![c] = @ \o TextWithNul(text)] ELSE up
      BY <2>2 DEF SendRequest
    <3> QED
      BY <2>2, <3>1 DEF SendRequest, PlacesInv, TypeOK, ClientTypeOK, Connected
  <2>3. CASE SendFails(c)
    BY <2>3 DEF SendFails, networkVars, PlacesInv, TypeOK, ClientTypeOK, Connected
  <2>4. CASE RecvReply(c) \/ RecvNothing(c)
    BY <2>4 DEF RecvReply, RecvNothing, ClientReceives, networkVars, PlacesInv, TypeOK, ClientTypeOK, Connected
  <2>5. CASE HangUp(c)
    BY <2>5 DEF HangUp, PlacesInv, TypeOK, ClientTypeOK
  <2> QED
    BY <2>1, <2>2, <2>3, <2>4, <2>5 DEF ClientStep
<1>6. Connected'
  BY <1>5 DEF PlacesInv, Connected
<1>7. alive /\ client'[c] = "recv" => up'[c] # <<>>
  <2>1. SUFFICES ASSUME alive, client'[c] = "recv" PROVE up'[c] # <<>>
    OBVIOUS
  <2>2. SendRequest(c)
    BY <2>1 DEF ClientStep, Connect, SendFails, RecvReply, RecvNothing, ClientReceives, HangUp,
                PlacesInv, TypeOK, ClientTypeOK
  <2>3. PICK text \in Texts[c] : up' = [up EXCEPT ![c] = @ \o TextWithNul(text)]
    BY <2>1, <2>2 DEF SendRequest
  <2>4. text \in Seq(Byte \ {NUL}) /\ NUL \in Byte
    BY SelectClientAssumption DEF NUL, Byte
  <2>5. text \in Seq(Byte)
    BY <2>4, SeqMonotonic, Byte \ {NUL} \subseteq Byte
  <2>6. TextWithNul(text) \in Seq(Byte) /\ TextWithNul(text) # <<>>
    BY <2>4, <2>5, AppendProperties DEF TextWithNul
  <2>7. up[c] \o TextWithNul(text) # <<>>
    BY <2>6, ConcatEqualIffEmpty DEF PlacesInv, TypeOK, ClientTypeOK
  <2> QED
    BY <2>3, <2>7 DEF PlacesInv, TypeOK, ClientTypeOK
<1>8. NobodyForgotten'
  <2>1. ASSUME alive', NEW d \in Clients, client'[d] = "recv"
        PROVE  OnTheWay(d)'
    <3>1. CASE d = c
      BY <1>5, <1>7, <2>1, <3>1 DEF OnTheWay
    <3>2. CASE d # c
      <4>1. OnTheWay(d)
        BY <1>5, <2>1, <3>2 DEF PlacesInv, NobodyForgotten
      <4> QED
        BY <1>1, <1>5, <3>2, <4>1 DEF OnTheWay, Somewhere, Holds
    <3> QED
      BY <3>1, <3>2
  <2> QED
    BY <2>1 DEF NobodyForgotten
<1> QED
  BY <1>3, <1>4, <1>6, <1>8 DEF PlacesInv

-----------------------------------------------------------------------------
(* Whatever is queued or held was allocated and ends, no two hold it, main *)
(* starts a thread once, and whoever waits is remembered.                  *)
THEOREM PlacesInductive == Spec => []PlacesInv
<1>1. PlacesInv /\ [Next]_vars => PlacesInv'
  <2> SUFFICES ASSUME PlacesInv, [Next]_vars PROVE PlacesInv'
    OBVIOUS
  <2>1. CASE StartThread \/ \E c \in Clients : Accept(c)
    BY <2>1, MainPreserves
  <2>2. CASE \E c \in Clients : ListenStep(c)
    BY <2>2, ListenPreserves, FailsPreserves, HandOnPreserves DEF ListenStep
  <2>3. CASE \E t \in ActiveObjects : ActiveObjectStep(t)
    BY <2>3, DeQPreserves, BeforePreserves, HandOnPreserves, SendPreserves DEF ActiveObjectStep
  <2>4. CASE \E c \in Clients : ClientStep(c) /\ UNCHANGED serverVars
    BY <2>4, ClientPreserves
  <2>5. CASE UNCHANGED vars
    BY <2>5 DEF PlacesInv, TypeOK, ClientTypeOK, ExclusiveCapsules, AllocatedOnly, BuffersEnd, StartedOnce,
                Connected, NobodyForgotten, OnTheWay, Somewhere, Holds, Allocated,
                vars, serverVars, networkVars, clientVars
  <2> QED
    BY <2>1, <2>2, <2>3, <2>4, <2>5 DEF Next
<1> QED
  BY InitIInv, <1>1, PTL DEF Spec

(* Types, for any clients and texts, and any way TCP splits them.          *)
THEOREM TypeCorrect == Spec => []TypeOK
BY PlacesInductive, PTL DEF PlacesInv

(* The threads may convert buffers without a lock: a capsule is never in   *)
(* two hands, nor in one and on a queue, nor twice on the queues.          *)
THEOREM CapsulesAreExclusive == Spec => []ExclusiveCapsules
BY PlacesInductive, PTL DEF PlacesInv

(* While the server lives, what a waiting client waits for is on its way,  *)
(* however the threads, the other clients and departures interleave.       *)
THEOREM NobodyIsForgotten == Spec => []NobodyForgotten
BY PlacesInductive, PTL DEF PlacesInv

-----------------------------------------------------------------------------
(* The order in which capsules pass.                                       *)

(* A connection that a step does not touch.                                *)
Untouched(d) ==
  /\ \A r \in Roles : thread'[<<r, d>>] = thread[<<r, d>>]
  /\ queue'[<<"q2", d>>] = queue[<<"q2", d>>] /\ queue'[<<"q3", d>>] = queue[<<"q3", d>>]
  /\ heap'[d] = heap[d]

LEMMA ElsewhereInTurn ==
  ASSUME NEW d \in Clients, Untouched(d)
  PROVE  /\ InTurn(d) => InTurn(d)'
         /\ OwnCapsules(d) => OwnCapsules(d)'
         /\ Answered(d)' = Answered(d) /\ Replies(d)' = Replies(d) /\ OwnReplies(d)' = OwnReplies(d)
<1>1. /\ thread'[<<"listen", d>>] = thread[<<"listen", d>>]
      /\ thread'[<<"convert", d>>] = thread[<<"convert", d>>]
      /\ thread'[<<"cipher", d>>] = thread[<<"cipher", d>>]
  BY DEF Untouched, Roles
<1>2. /\ Listened(d)' = Listened(d) /\ TakenToConvert(d)' = TakenToConvert(d)
      /\ TakenToCipher(d)' = TakenToCipher(d) /\ Answered(d)' = Answered(d)
  BY <1>1 DEF Untouched, Listened, TakenToConvert, HandedOn, TakenToCipher, Answered, InHand
<1>3. InTurn(d) => InTurn(d)'
  BY <1>1, <1>2 DEF Untouched, InTurn, Holds
<1>4. OwnCapsules(d) => OwnCapsules(d)'
  BY DEF Untouched, OwnCapsules
<1>5. ConvertedUpTo(d)' = ConvertedUpTo(d) /\ CipheredUpTo(d)' = CipheredUpTo(d)
  BY <1>1, <1>2 DEF ConvertedUpTo, CipheredUpTo, At
<1>6. Replies(d)' = Replies(d) /\ OwnReplies(d)' = OwnReplies(d)
  BY <1>5 DEF Untouched, Replies, OwnReplies, OwnPart, Reply
<1> QED
  BY <1>2, <1>3, <1>4, <1>6

(* The counts are integers.                                                *)
LEMMA Counts ==
  ASSUME PlacesInv, NEW c \in Clients
  PROVE  /\ Len(heap[c]) \in Nat /\ Len(queue[<<"q2", c>>]) \in Nat /\ Len(queue[<<"q3", c>>]) \in Nat
         /\ \A r \in Roles : <<r, c>> \in Threads /\ InHand(<<r, c>>) \in {0, 1}
         /\ <<"q2", c>> \in Queues /\ <<"q3", c>> \in Queues
         /\ Listened(c) \in Int /\ TakenToConvert(c) \in Int /\ HandedOn(c) \in Int
         /\ TakenToCipher(c) \in Int /\ Answered(c) \in Int
<1>1. /\ \A r \in Roles : <<r, c>> \in Threads /\ InHand(<<r, c>>) \in {0, 1}
      /\ <<"q2", c>> \in Queues /\ <<"q3", c>> \in Queues
  BY DEF Threads, Queues, InHand
<1>2. Len(heap[c]) \in Nat /\ Len(queue[<<"q2", c>>]) \in Nat /\ Len(queue[<<"q3", c>>]) \in Nat
  BY <1>1, LenProperties DEF PlacesInv, TypeOK
<1>3. InHand(<<"listen", c>>) \in Int /\ InHand(<<"convert", c>>) \in Int /\ InHand(<<"cipher", c>>) \in Int
  BY <1>1 DEF Roles
<1>4. Listened(c) \in Int
  BY <1>2, <1>3 DEF Listened
<1>5. TakenToConvert(c) \in Int
  BY <1>2, <1>4 DEF TakenToConvert
<1>6. HandedOn(c) \in Int
  BY <1>3, <1>5 DEF HandedOn
<1>7. TakenToCipher(c) \in Int
  BY <1>2, <1>6 DEF TakenToCipher
<1>8. Answered(c) \in Int
  BY <1>3, <1>7 DEF Answered
<1> QED
  BY <1>1, <1>2, <1>4, <1>5, <1>6, <1>7, <1>8

(* A new capsule, in the hands of the listening thread, is the last one.   *)
LEMMA EncapsulateInTurn ==
  ASSUME PlacesInv, NEW c \in Clients, NEW bytes \in Seq(Byte), Encapsulate(c, bytes),
         thread[<<"listen", c>>].at = "recv", InTurn(c), OwnCapsules(c), UNCHANGED queue
  PROVE  /\ InTurn(c)' /\ OwnCapsules(c)' /\ Answered(c)' = Answered(c)
         /\ \A d \in Clients : d # c => Untouched(d)
         /\ ConvertedUpTo(c)' = ConvertedUpTo(c) /\ CipheredUpTo(c)' = CipheredUpTo(c)
         /\ \E rest \in Unwritten(bytes) :
               heap'[c] = Append(heap[c], [q |-> <<"q3", c>>, buffer |-> bytes \o rest, socket |-> c, received |-> Len(bytes)])
<1>1. PICK rest \in Unwritten(bytes) :
        heap' = [heap EXCEPT ![c] =
                   Append(heap[c], [q |-> <<"q3", c>>, buffer |-> bytes \o rest, socket |-> c,
                                    received |-> Len(bytes)])]
  BY DEF Encapsulate, ReplyQueue
<1>2. PICK capsule : capsule = [q |-> <<"q3", c>>, buffer |-> bytes \o rest, socket |-> c, received |-> Len(bytes)]
  OBVIOUS
<1>3. /\ heap'[c] = Append(heap[c], capsule) /\ \A d \in Clients : d # c => heap'[d] = heap[d]
      /\ capsule.q = <<"q3", c>> /\ capsule.socket = c
  BY <1>1, <1>2 DEF PlacesInv, TypeOK
<1>4. /\ thread'[<<"listen", c>>] = [at |-> "enQ", capsule |-> <<c, Len(heap[c]) + 1>>]
      /\ \A t \in Threads : t # <<"listen", c>> => thread'[t] = thread[t]
  BY Counts DEF Encapsulate, PlacesInv, TypeOK, Roles
<1>5. /\ thread'[<<"convert", c>>] = thread[<<"convert", c>>]
      /\ thread'[<<"cipher", c>>] = thread[<<"cipher", c>>]
      /\ \A d \in Clients : d # c => Untouched(d)
  BY <1>3, <1>4 DEF Threads, Roles, Untouched
<1>6. /\ Len(heap[c]) \in Nat /\ Len(heap'[c]) = Len(heap[c]) + 1
      /\ heap'[c][Len(heap[c]) + 1] = capsule
      /\ \A k \in 1 .. Len(heap[c]) : heap'[c][k] = heap[c][k]
  <2>1. heap[c] \in Seq(Capsule)
    BY DEF PlacesInv, TypeOK
  <2>2. heap[c] \in Seq(Capsule \cup {capsule})
    BY <2>1, SeqMonotonic, Capsule \subseteq Capsule \cup {capsule}
  <2> QED
    BY <1>3, <2>2, AppendProperties, LenProperties
<1>7. InHand(<<"listen", c>>) = 0 /\ InHand(<<"listen", c>>)' = 1
      /\ InHand(<<"convert", c>>)' = InHand(<<"convert", c>>)
      /\ InHand(<<"cipher", c>>)' = InHand(<<"cipher", c>>)
  BY <1>4, <1>5 DEF InHand, Working
<1>8. Listened(c)' = Listened(c)
  BY <1>6, <1>7 DEF Listened
<1>9. /\ TakenToConvert(c)' = TakenToConvert(c) /\ TakenToCipher(c)' = TakenToCipher(c)
      /\ Answered(c)' = Answered(c)
  BY <1>7, <1>8 DEF TakenToConvert, HandedOn, TakenToCipher, Answered
<1>10. InTurn(c)'
  <2>1. Holds(<<"listen", c>>, <<c, Len(heap[c])>>)'
    BY <1>4, <1>6 DEF Holds
  <2>2. Answered(c)' \in Nat
    BY <1>9 DEF InTurn
  <2>3. /\ (thread[<<"convert", c>>].at \in Working => Holds(<<"convert", c>>, <<c, TakenToConvert(c)>>))'
        /\ (thread[<<"cipher", c>>].at \in Working => Holds(<<"cipher", c>>, <<c, TakenToCipher(c)>>))'
    BY <1>5, <1>9 DEF InTurn, Holds
  <2>4. /\ (\A i \in 1 .. Len(queue[<<"q2", c>>]) : queue[<<"q2", c>>][i] = <<c, TakenToConvert(c) + i>>)'
        /\ (\A i \in 1 .. Len(queue[<<"q3", c>>]) : queue[<<"q3", c>>][i] = <<c, TakenToCipher(c) + i>>)'
    BY <1>9 DEF InTurn
  <2> QED
    BY <2>1, <2>2, <2>3, <2>4 DEF InTurn
<1>11. OwnCapsules(c)'
  BY <1>3, <1>6 DEF OwnCapsules
<1>12. ConvertedUpTo(c)' = ConvertedUpTo(c) /\ CipheredUpTo(c)' = CipheredUpTo(c)
  BY <1>5, <1>9 DEF ConvertedUpTo, CipheredUpTo, At
<1> QED
  BY <1>2, <1>3, <1>5, <1>9, <1>10, <1>11, <1>12

(* Steps after which each thread has the same capsule in hand as before.   *)
LEMMA SameHandsInTurn ==
  ASSUME NEW d \in Clients,
         \A r \in Roles : /\ thread'[<<r, d>>].capsule = thread[<<r, d>>].capsule
                          /\ thread'[<<r, d>>].at \in Working <=> thread[<<r, d>>].at \in Working,
         queue'[<<"q2", d>>] = queue[<<"q2", d>>], queue'[<<"q3", d>>] = queue[<<"q3", d>>],
         Len(heap'[d]) = Len(heap[d])
  PROVE  /\ InTurn(d) => InTurn(d)'
         /\ TakenToConvert(d)' = TakenToConvert(d) /\ TakenToCipher(d)' = TakenToCipher(d)
         /\ Answered(d)' = Answered(d)
<1>1. /\ thread'[<<"listen", d>>].capsule = thread[<<"listen", d>>].capsule
      /\ thread'[<<"convert", d>>].capsule = thread[<<"convert", d>>].capsule
      /\ thread'[<<"cipher", d>>].capsule = thread[<<"cipher", d>>].capsule
      /\ thread'[<<"listen", d>>].at \in Working <=> thread[<<"listen", d>>].at \in Working
      /\ thread'[<<"convert", d>>].at \in Working <=> thread[<<"convert", d>>].at \in Working
      /\ thread'[<<"cipher", d>>].at \in Working <=> thread[<<"cipher", d>>].at \in Working
  BY DEF Roles
<1>2. /\ InHand(<<"listen", d>>)' = InHand(<<"listen", d>>)
      /\ InHand(<<"convert", d>>)' = InHand(<<"convert", d>>)
      /\ InHand(<<"cipher", d>>)' = InHand(<<"cipher", d>>)
  BY <1>1 DEF InHand
<1>3. /\ Listened(d)' = Listened(d) /\ TakenToConvert(d)' = TakenToConvert(d)
      /\ TakenToCipher(d)' = TakenToCipher(d) /\ Answered(d)' = Answered(d)
  BY <1>2 DEF Listened, TakenToConvert, HandedOn, TakenToCipher, Answered
<1>4. InTurn(d) => InTurn(d)'
  BY <1>1, <1>3 DEF InTurn, Holds
<1> QED
  BY <1>3, <1>4

(* A capsule goes from the hands of a thread to the end of a queue.        *)
LEMMA AppendedQueue ==
  ASSUME PlacesInv, NEW t \in Threads, NEW q \in Queues, NEW point \in {"recv", "deQ"},
         thread[t].at \in Working, Releases(t, point), EnQ(q, thread[t].capsule)
  PROVE  /\ thread'[t].at \notin Working /\ thread'[t].at # "before"
         /\ \A u \in Threads : u # t => thread'[u] = thread[u]
         /\ Len(queue[q]) \in Nat /\ Len(queue'[q]) = Len(queue[q]) + 1
         /\ \A i \in 1 .. Len(queue[q]) : queue'[q][i] = queue[q][i]
         /\ queue'[q][Len(queue[q]) + 1] = thread[t].capsule
         /\ \A p \in Queues : p # q => queue'[p] = queue[p]
<1>1. thread[t].capsule \in CapsuleId
  BY HeldCapsule
<1>2. queue[q] \in Seq(CapsuleId) /\ queue'[q] = Append(queue[q], thread[t].capsule)
      /\ \A p \in Queues : p # q => queue'[p] = queue[p]
  BY DEF EnQ, PlacesInv, TypeOK
<1>3. /\ Len(queue[q]) \in Nat /\ Len(queue'[q]) = Len(queue[q]) + 1
      /\ \A i \in 1 .. Len(queue[q]) : queue'[q][i] = queue[q][i]
      /\ queue'[q][Len(queue[q]) + 1] = thread[t].capsule
  BY <1>1, <1>2, AppendProperties, LenProperties
<1>4. thread'[t].at = point /\ \A u \in Threads : u # t => thread'[u] = thread[u]
  BY DEF Releases, PlacesInv, TypeOK
<1> QED
  BY <1>2, <1>3, <1>4 DEF Working

(* The listening thread hands its capsule on.                              *)
LEMMA ListenEnQInTurn ==
  ASSUME PlacesInv, NEW c \in Clients, ListenEnQ(c), InTurn(c)
  PROVE  /\ InTurn(c)' /\ Answered(c)' = Answered(c)
         /\ TakenToConvert(c)' = TakenToConvert(c) /\ TakenToCipher(c)' = TakenToCipher(c)
         /\ \A d \in Clients : d # c => Untouched(d)
         /\ \A r \in {"convert", "cipher"} : thread'[<<r, c>>] = thread[<<r, c>>]
<1> DEFINE t == <<"listen", c>>
           q == <<"q2", c>>
<1>1. /\ thread'[t].at \notin Working /\ thread[t].at \in Working /\ t \in Threads /\ q \in Queues
      /\ \A u \in Threads : u # t => thread'[u] = thread[u]
      /\ Len(queue[q]) \in Nat /\ Len(queue'[q]) = Len(queue[q]) + 1
      /\ \A i \in 1 .. Len(queue[q]) : queue'[q][i] = queue[q][i]
      /\ queue'[q][Len(queue[q]) + 1] = thread[t].capsule
      /\ \A p \in Queues : p # q => queue'[p] = queue[p]
  <2>1. t \in Threads /\ q \in Queues
    BY Counts DEF Roles
  <2>2. thread[t].at \in Working /\ Releases(t, "recv") /\ EnQ(q, thread[t].capsule)
    BY DEF ListenEnQ, At, Working, SendQueue
  <2> QED
    BY <2>1, <2>2, AppendedQueue
<1>2. /\ thread'[<<"convert", c>>] = thread[<<"convert", c>>]
      /\ thread'[<<"cipher", c>>] = thread[<<"cipher", c>>]
      /\ queue'[<<"q3", c>>] = queue[<<"q3", c>>] /\ heap' = heap
  BY <1>1, Counts DEF Roles, ListenEnQ
<1>3. \A d \in Clients : d # c => Untouched(d)
  BY <1>1, <1>2 DEF Threads, Roles, Queues, Untouched
<1>4. InHand(t) = 1 /\ InHand(t)' = 0 /\ InHand(<<"convert", c>>)' = InHand(<<"convert", c>>)
      /\ InHand(<<"cipher", c>>)' = InHand(<<"cipher", c>>)
  BY <1>1, <1>2 DEF InHand
<1>5. Len(heap[c]) \in Nat /\ Len(heap'[c]) = Len(heap[c])
  BY <1>2, Counts
<1>6. Listened(c) = Len(heap[c]) - 1 /\ Listened(c)' = Len(heap[c])
  BY <1>4, <1>5 DEF Listened
<1>7. /\ TakenToConvert(c) = Len(heap[c]) - 1 - Len(queue[q]) /\ TakenToConvert(c) \in Int
      /\ TakenToConvert(c)' = TakenToConvert(c)
  BY <1>1, <1>5, <1>6 DEF TakenToConvert
<1>8. TakenToCipher(c)' = TakenToCipher(c) /\ Answered(c)' = Answered(c)
  BY <1>2, <1>4, <1>7 DEF HandedOn, TakenToCipher, Answered
<1>9. InTurn(c)'
  <2>1. (\A i \in 1 .. Len(queue[<<"q2", c>>]) : queue[<<"q2", c>>][i] = <<c, TakenToConvert(c) + i>>)'
    <3>1. queue'[q][Len(queue[q]) + 1] = <<c, Len(heap[c])>>
      BY <1>1 DEF InTurn, Holds
    <3>2. Len(heap[c]) = TakenToConvert(c) + (Len(queue[q]) + 1)
      <4>1. PICK h \in Nat, l \in Nat, n \in Int :
              h = Len(heap[c]) /\ l = Len(queue[q]) /\ n = TakenToConvert(c)
        BY <1>1, <1>5, <1>7
      <4>2. n = h - 1 - l
        BY <1>7, <4>1
      <4>3. h = n + (l + 1)
        BY <4>2
      <4> QED
        BY <4>1, <4>3
    <3>3. \A i \in 1 .. Len(queue[q]) : queue'[q][i] = <<c, TakenToConvert(c) + i>>
      BY <1>1 DEF InTurn
    <3>4. \A i \in 1 .. Len(queue'[q]) : i \in 1 .. Len(queue[q]) \/ i = Len(queue[q]) + 1
      BY <1>1
    <3> QED
      BY <1>7, <3>1, <3>2, <3>3, <3>4
  <2>2. Answered(c)' \in Nat
    BY <1>8 DEF InTurn
  <2>3. /\ (thread[<<"convert", c>>].at \in Working => Holds(<<"convert", c>>, <<c, TakenToConvert(c)>>))'
        /\ (thread[<<"cipher", c>>].at \in Working => Holds(<<"cipher", c>>, <<c, TakenToCipher(c)>>))'
    BY <1>2, <1>7, <1>8 DEF InTurn, Holds
  <2>4. (\A i \in 1 .. Len(queue[<<"q3", c>>]) : queue[<<"q3", c>>][i] = <<c, TakenToCipher(c) + i>>)'
    BY <1>2, <1>8 DEF InTurn
  <2> QED
    BY <1>1, <2>1, <2>2, <2>3, <2>4 DEF InTurn
<1> QED
  BY <1>2, <1>3, <1>7, <1>8, <1>9

(* "convert" hands its capsule on: to the queue of its own connection.     *)
LEMMA InsertInTurn ==
  ASSUME PlacesInv, NEW t \in ActiveObjects, NEW c, c = t[2], insert_to_queue(t),
         InTurn(c), OwnCapsules(c)
  PROVE  /\ InTurn(c)' /\ Answered(c)' = Answered(c) /\ c \in Clients
         /\ TakenToConvert(c)' = TakenToConvert(c) /\ TakenToCipher(c)' = TakenToCipher(c)
         /\ \A d \in Clients : d # c => Untouched(d)
         /\ thread'[<<"cipher", c>>] = thread[<<"cipher", c>>]
         /\ thread'[<<"convert", c>>].at # "before" /\ thread[<<"convert", c>>].at # "before"
<1> DEFINE q == <<"q3", c>>
<1>1. t = <<"convert", c>> /\ c \in Clients /\ t \in Threads /\ thread[t].at = "after"
      /\ thread[t].at \in Working
  BY DEF ActiveObjects, Threads, Roles, insert_to_queue, At, Working
<1>2. Held(t).q = q
  <2>1. /\ thread[t].capsule = <<c, TakenToConvert(c)>>
        /\ thread[t].capsule[1] \in Clients /\ thread[t].capsule[2] \in 1 .. Len(heap[thread[t].capsule[1]])
    BY <1>1, HeldCapsule DEF InTurn, Holds
  <2> QED
    BY <2>1 DEF Held, OwnCapsules
<1>3. /\ thread'[t].at \notin Working /\ thread'[t].at # "before" /\ q \in Queues
      /\ \A u \in Threads : u # t => thread'[u] = thread[u]
      /\ Len(queue[q]) \in Nat /\ Len(queue'[q]) = Len(queue[q]) + 1
      /\ \A i \in 1 .. Len(queue[q]) : queue'[q][i] = queue[q][i]
      /\ queue'[q][Len(queue[q]) + 1] = thread[t].capsule
      /\ \A p \in Queues : p # q => queue'[p] = queue[p]
  <2>1. q \in Queues
    BY <1>1, Counts
  <2>2. Releases(t, "deQ") /\ EnQ(q, thread[t].capsule)
    BY <1>2 DEF insert_to_queue
  <2> QED
    BY <1>1, <2>1, <2>2, AppendedQueue
<1>4. /\ thread'[<<"listen", c>>] = thread[<<"listen", c>>]
      /\ thread'[<<"cipher", c>>] = thread[<<"cipher", c>>]
      /\ queue'[<<"q2", c>>] = queue[<<"q2", c>>] /\ heap' = heap
  BY <1>1, <1>3, Counts, SMTT(30) DEF Roles, insert_to_queue
<1>5. \A d \in Clients : d # c => Untouched(d)
  BY <1>1, <1>3, <1>4 DEF Threads, Roles, Queues, Untouched
<1>6. InHand(<<"convert", c>>) = 1 /\ InHand(<<"convert", c>>)' = 0
      /\ InHand(<<"listen", c>>)' = InHand(<<"listen", c>>)
      /\ InHand(<<"cipher", c>>)' = InHand(<<"cipher", c>>)
  BY <1>1, <1>3, <1>4 DEF InHand
<1>7. TakenToConvert(c)' = TakenToConvert(c) /\ TakenToConvert(c) \in Int
  BY <1>1, <1>4, <1>6, Counts DEF TakenToConvert, Listened
<1>8. HandedOn(c) = TakenToConvert(c) - 1 /\ HandedOn(c)' = TakenToConvert(c)
  BY <1>6, <1>7 DEF HandedOn
<1>9. TakenToCipher(c) = TakenToConvert(c) - 1 - Len(queue[q]) /\ TakenToCipher(c)' = TakenToCipher(c)
  BY <1>3, <1>7, <1>8, SMTT(30) DEF TakenToCipher
<1>10. Answered(c)' = Answered(c)
  BY <1>6, <1>9 DEF Answered
<1>11. InTurn(c)'
  <2>1. (\A i \in 1 .. Len(queue[<<"q3", c>>]) : queue[<<"q3", c>>][i] = <<c, TakenToCipher(c) + i>>)'
    <3>1. queue'[q][Len(queue[q]) + 1] = <<c, TakenToConvert(c)>>
      BY <1>1, <1>3 DEF InTurn, Holds
    <3>2. TakenToConvert(c) = TakenToCipher(c) + (Len(queue[q]) + 1)
      BY <1>3, <1>7, <1>9
    <3>3. \A i \in 1 .. Len(queue[q]) : queue'[q][i] = <<c, TakenToCipher(c) + i>>
      BY <1>3 DEF InTurn
    <3>4. \A i \in 1 .. Len(queue'[q]) : i \in 1 .. Len(queue[q]) \/ i = Len(queue[q]) + 1
      BY <1>3
    <3> QED
      BY <1>9, <3>1, <3>2, <3>3, <3>4
  <2>2. Answered(c)' \in Nat
    BY <1>10 DEF InTurn
  <2>3. /\ (thread[<<"listen", c>>].at \in Working => Holds(<<"listen", c>>, <<c, Len(heap[c])>>))'
        /\ (thread[<<"cipher", c>>].at \in Working => Holds(<<"cipher", c>>, <<c, TakenToCipher(c)>>))'
    BY <1>4, <1>9 DEF InTurn, Holds
  <2>4. (\A i \in 1 .. Len(queue[<<"q2", c>>]) : queue[<<"q2", c>>][i] = <<c, TakenToConvert(c) + i>>)'
    BY <1>4, <1>7 DEF InTurn
  <2> QED
    BY <1>1, <1>3, <2>1, <2>2, <2>3, <2>4 DEF InTurn
<1> QED
  BY <1>1, <1>3, <1>4, <1>5, <1>7, <1>9, <1>10, <1>11

(* A capsule goes from the head of a queue to the hands of a thread.       *)
LEMMA TakenFromQueue ==
  ASSUME PlacesInv, NEW t \in ActiveObjects, DeQ(t)
  PROVE  LET q == InputQueue(t) IN
         /\ t \in Threads /\ q \in Queues
         /\ thread[t].at = "deQ" /\ thread'[t].at = "before"
         /\ thread'[t].capsule = queue[q][1]
         /\ \A u \in Threads : u # t => thread'[u] = thread[u]
         /\ Len(queue[q]) \in Nat /\ Len(queue[q]) > 0 /\ Len(queue'[q]) = Len(queue[q]) - 1
         /\ \A i \in 1 .. Len(queue'[q]) : i + 1 \in 1 .. Len(queue[q]) /\ queue'[q][i] = queue[q][i + 1]
         /\ \A p \in Queues : p # q => queue'[p] = queue[p]
<1>1. PICK q : q = InputQueue(t)
  OBVIOUS
<1>2. t \in Threads /\ q \in Queues
  BY <1>1 DEF ActiveObjects, Threads, Roles, InputQueue, Queues
<1>3. /\ queue[q] \in Seq(CapsuleId) /\ queue[q] # <<>> /\ thread[t].at = "deQ"
      /\ thread' = [thread EXCEPT ![t] = [at |-> "before", capsule |-> Head(queue[q])]]
      /\ queue' = [queue EXCEPT ![q] = Tail(queue[q])]
  BY <1>1, <1>2 DEF DeQ, At, AfterTake, PlacesInv, TypeOK
<1>4. /\ Head(queue[q]) = queue[q][1] /\ Len(queue[q]) \in Nat /\ Len(queue[q]) > 0
      /\ Len(Tail(queue[q])) = Len(queue[q]) - 1
      /\ \A i \in 1 .. Len(Tail(queue[q])) : Tail(queue[q])[i] = queue[q][i + 1]
  <2>1. Len(queue[q]) \in Nat \ {0}
    BY <1>3, EmptySeq, LenProperties
  <2> QED
    BY <1>3, <2>1, HeadTailProperties
<1>5. queue'[q] = Tail(queue[q]) /\ \A p \in Queues : p # q => queue'[p] = queue[p]
  BY <1>2, <1>3 DEF PlacesInv, TypeOK
<1>6. /\ thread'[t].at = "before" /\ thread'[t].capsule = queue[q][1]
      /\ \A u \in Threads : u # t => thread'[u] = thread[u]
  BY <1>2, <1>3, <1>4 DEF PlacesInv, TypeOK
<1>7. /\ Len(queue'[q]) = Len(queue[q]) - 1
      /\ \A i \in 1 .. Len(queue'[q]) : i + 1 \in 1 .. Len(queue[q]) /\ queue'[q][i] = queue[q][i + 1]
  BY <1>4, <1>5
<1> QED
  BY <1>1, <1>2, <1>3, <1>4, <1>5, <1>6, <1>7

(* What the thread takes is next in turn, and the rest follows.            *)
Numbered(s, c, n) == \A i \in 1 .. Len(s) : s[i] = <<c, n + i>>

IsRest(r, s) == \A i \in 1 .. Len(r) : i + 1 \in 1 .. Len(s) /\ r[i] = s[i + 1]

LEMMA NextInTurn ==
  ASSUME NEW c, NEW s, NEW r, NEW n \in Int, NEW m \in Int, m = n + 1,
         Len(s) \in Nat, Len(s) > 0, IsRest(r, s), Numbered(s, c, n)
  PROVE  s[1] = <<c, m>> /\ Numbered(r, c, m)
<1> USE DEF IsRest, Numbered
<1>1. s[1] = <<c, m>>
  <2>1. 1 \in 1 .. Len(s)
    OBVIOUS
  <2> QED
    BY <2>1
<1>2. ASSUME NEW i \in 1 .. Len(r) PROVE r[i] = <<c, m + i>>
  <2>1. i + 1 \in 1 .. Len(s) /\ r[i] = s[i + 1]
    OBVIOUS
  <2>2. s[i + 1] = <<c, n + (i + 1)>>
    BY <2>1
  <2>3. n + (i + 1) = m + i
    OBVIOUS
  <2> QED
    BY <2>1, <2>2, <2>3
<1> QED
  BY <1>1, <1>2

LEMMA DeQInTurn ==
  ASSUME PlacesInv, NEW t \in ActiveObjects, NEW c, c = t[2], DeQ(t), InTurn(c)
  PROVE  /\ InTurn(c)' /\ Answered(c)' = Answered(c) /\ c \in Clients
         /\ ConvertedUpTo(c)' = ConvertedUpTo(c) /\ CipheredUpTo(c)' = CipheredUpTo(c)
         /\ \A d \in Clients : d # c => Untouched(d)
<1> DEFINE q == InputQueue(t)
<1>1. c \in Clients /\ (t = <<"convert", c>> \/ t = <<"cipher", c>>)
  BY DEF ActiveObjects
<1>2. /\ t \in Threads /\ q \in Queues /\ thread[t].at = "deQ" /\ thread'[t].at = "before"
      /\ thread'[t].capsule = queue[q][1]
      /\ \A u \in Threads : u # t => thread'[u] = thread[u]
      /\ Len(queue[q]) \in Nat /\ Len(queue[q]) > 0 /\ Len(queue'[q]) = Len(queue[q]) - 1
      /\ \A i \in 1 .. Len(queue'[q]) : i + 1 \in 1 .. Len(queue[q]) /\ queue'[q][i] = queue[q][i + 1]
      /\ \A p \in Queues : p # q => queue'[p] = queue[p]
  BY TakenFromQueue
<1> HIDE DEF q
<1>3. heap' = heap
  BY DEF DeQ
<1>4. /\ <<"listen", c>> \in Threads /\ <<"convert", c>> \in Threads /\ <<"cipher", c>> \in Threads
      /\ <<"q2", c>> \in Queues /\ <<"q3", c>> \in Queues
      /\ Len(heap[c]) \in Nat /\ TakenToConvert(c) \in Int /\ TakenToCipher(c) \in Int
      /\ HandedOn(c) \in Int /\ Answered(c) \in Int
  BY <1>1, Counts DEF Roles
<1>5. \A d \in Clients : d # c => Untouched(d)
  BY <1>1, <1>2, <1>3 DEF Threads, Roles, Queues, Untouched, InputQueue, q
<1>6. CASE t = <<"convert", c>>
  <2>1. q = <<"q2", c>>
    BY <1>6 DEF InputQueue, q
  <2>2. /\ thread'[<<"listen", c>>] = thread[<<"listen", c>>]
        /\ thread'[<<"cipher", c>>] = thread[<<"cipher", c>>]
        /\ queue'[<<"q3", c>>] = queue[<<"q3", c>>]
    BY <1>2, <1>4, <1>6, <2>1
  <2>3. InHand(<<"convert", c>>) = 0 /\ InHand(<<"convert", c>>)' = 1
        /\ InHand(<<"listen", c>>)' = InHand(<<"listen", c>>)
        /\ InHand(<<"cipher", c>>)' = InHand(<<"cipher", c>>)
    BY <1>2, <1>6, <2>2 DEF InHand, Working
  <2>4. Listened(c)' = Listened(c) /\ Listened(c) \in Int
    BY <1>1, <1>3, <2>3, Counts DEF Listened
  <2>5. TakenToConvert(c)' = TakenToConvert(c) + 1
    BY <1>2, <2>1, <2>4 DEF TakenToConvert
  <2>6. HandedOn(c)' = HandedOn(c)
    BY <1>4, <2>3, <2>5 DEF HandedOn
  <2>7. TakenToCipher(c)' = TakenToCipher(c) /\ Answered(c)' = Answered(c)
    BY <2>2, <2>3, <2>6 DEF TakenToCipher, Answered
  <2>8. /\ queue[<<"q2", c>>][1] = <<c, TakenToConvert(c)'>>
        /\ \A i \in 1 .. Len(queue'[<<"q2", c>>]) : queue'[<<"q2", c>>][i] = <<c, TakenToConvert(c)' + i>>
    <3>1. PICK n, m, s, r :
            /\ n \in Int /\ m \in Int
            /\ n = TakenToConvert(c) /\ m = TakenToConvert(c)'
            /\ s = queue[<<"q2", c>>] /\ r = queue'[<<"q2", c>>]
      BY <1>4, <2>5
    <3>2. Len(s) \in Nat /\ Len(s) > 0 /\ m = n + 1
          /\ IsRest(r, s)
      <4>1. s = queue[q] /\ r = queue'[q]
        BY <2>1, <3>1
      <4>2. m = n + 1
        BY <2>5, <3>1
      <4> QED
        BY <1>2, <4>1, <4>2 DEF IsRest
    <3>3. Numbered(s, c, n)
      BY <3>1 DEF InTurn, Numbered
    <3>4. s[1] = <<c, m>> /\ Numbered(r, c, m)
      BY <3>1, <3>2, <3>3, NextInTurn
    <3> QED
      BY <3>1, <3>4 DEF Numbered
  <2>9. InTurn(c)'
    <3>1. (thread[<<"convert", c>>].at \in Working => Holds(<<"convert", c>>, <<c, TakenToConvert(c)>>))'
      BY <1>2, <1>6, <2>1, <2>8 DEF Holds
    <3>2. (\A i \in 1 .. Len(queue[<<"q2", c>>]) : queue[<<"q2", c>>][i] = <<c, TakenToConvert(c) + i>>)'
      BY <2>8
    <3>3. Answered(c)' \in Nat
      BY <2>7 DEF InTurn
    <3>4. /\ (thread[<<"listen", c>>].at \in Working => Holds(<<"listen", c>>, <<c, Len(heap[c])>>))'
          /\ (thread[<<"cipher", c>>].at \in Working => Holds(<<"cipher", c>>, <<c, TakenToCipher(c)>>))'
      BY <1>3, <2>2, <2>7 DEF InTurn, Holds
    <3>5. (\A i \in 1 .. Len(queue[<<"q3", c>>]) : queue[<<"q3", c>>][i] = <<c, TakenToCipher(c) + i>>)'
      BY <2>2, <2>7 DEF InTurn
    <3> QED
      BY <3>1, <3>2, <3>3, <3>4, <3>5 DEF InTurn
  <2>10. ConvertedUpTo(c)' = ConvertedUpTo(c) /\ CipheredUpTo(c)' = CipheredUpTo(c)
    <3>1. ConvertedUpTo(c) = TakenToConvert(c) - 0 /\ ConvertedUpTo(c)' = TakenToConvert(c)' - 1
      BY <1>2, <1>6 DEF ConvertedUpTo, At
    <3>2. CipheredUpTo(c)' = CipheredUpTo(c)
      BY <2>2, <2>7 DEF CipheredUpTo, At
    <3> QED
      BY <1>4, <2>5, <3>1, <3>2
  <2> QED
    BY <1>1, <1>5, <2>7, <2>9, <2>10
<1>7. CASE t = <<"cipher", c>>
  <2>1. q = <<"q3", c>>
    BY <1>7 DEF InputQueue, q
  <2>2. /\ thread'[<<"listen", c>>] = thread[<<"listen", c>>]
        /\ thread'[<<"convert", c>>] = thread[<<"convert", c>>]
        /\ queue'[<<"q2", c>>] = queue[<<"q2", c>>]
    BY <1>2, <1>4, <1>7, <2>1
  <2>3. InHand(<<"cipher", c>>) = 0 /\ InHand(<<"cipher", c>>)' = 1
        /\ InHand(<<"listen", c>>)' = InHand(<<"listen", c>>)
        /\ InHand(<<"convert", c>>)' = InHand(<<"convert", c>>)
    BY <1>2, <1>7, <2>2 DEF InHand, Working
  <2>4. TakenToConvert(c)' = TakenToConvert(c) /\ HandedOn(c)' = HandedOn(c)
    BY <1>3, <2>2, <2>3 DEF Listened, TakenToConvert, HandedOn
  <2>5. TakenToCipher(c)' = TakenToCipher(c) + 1
    BY <1>2, <1>4, <2>1, <2>4 DEF TakenToCipher
  <2>6. Answered(c)' = Answered(c)
    BY <1>4, <2>3, <2>5 DEF Answered
  <2>7. /\ queue[<<"q3", c>>][1] = <<c, TakenToCipher(c)'>>
        /\ \A i \in 1 .. Len(queue'[<<"q3", c>>]) : queue'[<<"q3", c>>][i] = <<c, TakenToCipher(c)' + i>>
    <3>1. PICK n, m, s, r :
            n \in Int /\ m \in Int /\ n = TakenToCipher(c) /\ m = TakenToCipher(c)'
            /\ s = queue[<<"q3", c>>] /\ r = queue'[<<"q3", c>>]
      BY <1>4, <2>5
    <3>2. Len(s) \in Nat /\ Len(s) > 0 /\ m = n + 1
          /\ IsRest(r, s)
      <4>1. s = queue[q] /\ r = queue'[q]
        BY <2>1, <3>1
      <4>2. m = n + 1
        BY <2>5, <3>1
      <4> QED
        BY <1>2, <4>1, <4>2 DEF IsRest
    <3>3. Numbered(s, c, n)
      BY <3>1 DEF InTurn, Numbered
    <3>4. s[1] = <<c, m>> /\ Numbered(r, c, m)
      BY <3>1, <3>2, <3>3, NextInTurn
    <3> QED
      BY <3>1, <3>4 DEF Numbered
  <2>8. InTurn(c)'
    <3>1. (thread[<<"cipher", c>>].at \in Working => Holds(<<"cipher", c>>, <<c, TakenToCipher(c)>>))'
      BY <1>2, <1>7, <2>1, <2>7 DEF Holds
    <3>2. (\A i \in 1 .. Len(queue[<<"q3", c>>]) : queue[<<"q3", c>>][i] = <<c, TakenToCipher(c) + i>>)'
      BY <2>7
    <3>3. Answered(c)' \in Nat
      BY <2>6 DEF InTurn
    <3>4. /\ (thread[<<"listen", c>>].at \in Working => Holds(<<"listen", c>>, <<c, Len(heap[c])>>))'
          /\ (thread[<<"convert", c>>].at \in Working => Holds(<<"convert", c>>, <<c, TakenToConvert(c)>>))'
      BY <1>3, <2>2, <2>4 DEF InTurn, Holds
    <3>5. (\A i \in 1 .. Len(queue[<<"q2", c>>]) : queue[<<"q2", c>>][i] = <<c, TakenToConvert(c) + i>>)'
      BY <2>2, <2>4 DEF InTurn
    <3> QED
      BY <3>1, <3>2, <3>3, <3>4, <3>5 DEF InTurn
  <2>9. ConvertedUpTo(c)' = ConvertedUpTo(c) /\ CipheredUpTo(c)' = CipheredUpTo(c)
    <3>1. CipheredUpTo(c) = TakenToCipher(c) - 0 /\ CipheredUpTo(c)' = TakenToCipher(c)' - 1
      BY <1>2, <1>7 DEF CipheredUpTo, At
    <3>2. ConvertedUpTo(c)' = ConvertedUpTo(c)
      BY <2>2, <2>4 DEF ConvertedUpTo, At
    <3> QED
      BY <1>4, <2>5, <3>1, <3>2
  <2> QED
    BY <1>1, <1>5, <2>6, <2>8, <2>9
<1> QED
  BY <1>1, <1>6, <1>7

(* The conversion: the capsule keeps its place, its queue and its socket.  *)
LEMMA BeforeInTurn ==
  ASSUME PlacesInv, NEW t \in ActiveObjects, NEW c, c = t[2], Before(t), InTurn(c), OwnCapsules(c)
  PROVE  LET k == IF t[1] = "convert" THEN TakenToConvert(c) ELSE TakenToCipher(c) IN
         /\ InTurn(c)' /\ OwnCapsules(c)' /\ Answered(c)' = Answered(c) /\ c \in Clients
         /\ TakenToConvert(c)' = TakenToConvert(c) /\ TakenToCipher(c)' = TakenToCipher(c)
         /\ t = <<t[1], c>> /\ t[1] \in {"convert", "cipher"} /\ t \in Threads
         /\ thread[t].at = "before" /\ thread'[t].at = "after"
         /\ \A u \in Threads : u # t => thread'[u] = thread[u]
         /\ \A d \in Clients : d # c => Untouched(d)
         /\ k \in 1 .. Len(heap[c]) /\ Len(heap'[c]) = Len(heap[c])
         /\ heap'[c][k].buffer = BeforeFunc(t[1], heap[c][k].buffer)
         /\ heap'[c][k].received = heap[c][k].received
         /\ \A j \in 1 .. Len(heap[c]) : j # k => heap'[c][j] = heap[c][j]
<1>1. /\ t \in Threads /\ t = <<t[1], c>> /\ t[1] \in {"convert", "cipher"} /\ c \in Clients
      /\ thread[t].at = "before" /\ thread[t].at \in Working
  BY SMTT(30) DEF ActiveObjects, Threads, Roles, Before, At, Working
<1>2. PICK k \in Int : k = IF t[1] = "convert" THEN TakenToConvert(c) ELSE TakenToCipher(c)
  BY <1>1, Counts
<1>3. thread[t].capsule = <<c, k>>
  <2>1. CASE t = <<"convert", c>>
    BY <1>1, <1>2, <2>1 DEF InTurn, Holds
  <2>2. CASE t = <<"cipher", c>>
    BY <1>1, <1>2, <2>2 DEF InTurn, Holds
  <2> QED
    BY <1>1, <2>1, <2>2
<1>4. k \in 1 .. Len(heap[c]) /\ heap[c][k] \in Capsule
  BY <1>1, <1>3, HeldCapsule, SMTT(30) DEF Held
<1>5. heap[c] \in Seq(Capsule) /\ heap \in [Clients -> Seq(Capsule)]
  BY <1>1 DEF PlacesInv, TypeOK
<1>6. PICK converted : converted = [heap[c][k] EXCEPT !.buffer = BeforeFunc(t[1], heap[c][k].buffer)]
  OBVIOUS
<1>7. /\ heap' = [heap EXCEPT ![c] = [heap[c] EXCEPT ![k] = converted]]
      /\ thread' = [thread EXCEPT ![t] = [thread[t] EXCEPT !.at = "after"]]
      /\ queue' = queue
  <2>1. thread[t].capsule[1] = c /\ thread[t].capsule[2] = k
    BY <1>3
  <2>2. heap' = [heap EXCEPT ![c] = [heap[c] EXCEPT ![k] = [heap[c][k] EXCEPT !.buffer = BeforeFunc(t[1], heap[c][k].buffer)]]]
    BY <1>1, <1>5, <2>1 DEF Before
  <2> QED
    BY <1>6, <2>2 DEF Before, Moves
<1>8. /\ converted.buffer = BeforeFunc(t[1], heap[c][k].buffer)
      /\ converted.q = heap[c][k].q /\ converted.socket = heap[c][k].socket
      /\ converted.received = heap[c][k].received
  BY <1>4, <1>6 DEF Capsule
<1>9. /\ heap'[c] = [heap[c] EXCEPT ![k] = converted]
      /\ \A d \in Clients : d # c => heap'[d] = heap[d]
  BY <1>1, <1>5, <1>7
<1>10. /\ Len(heap'[c]) = Len(heap[c])
       /\ \A j \in 1 .. Len(heap[c]) : heap'[c][j] = IF j = k THEN converted ELSE heap[c][j]
  <2>1. PICK T : T = Capsule \cup {converted}
    OBVIOUS
  <2>2. heap[c] \in Seq(T) /\ converted \in T
    BY <1>5, <2>1, SeqMonotonic, Capsule \subseteq T
  <2> QED
    BY <1>4, <1>9, <2>2, ExceptSeq
<1>11. /\ thread'[t].at = "after" /\ thread'[t].capsule = thread[t].capsule
       /\ \A u \in Threads : u # t => thread'[u] = thread[u]
  BY <1>1, <1>7 DEF PlacesInv, TypeOK
<1>12. \A d \in Clients : d # c => Untouched(d)
  BY <1>1, <1>7, <1>9, <1>11 DEF Untouched, Threads, Roles
<1>13. \A r \in Roles : /\ thread'[<<r, c>>].capsule = thread[<<r, c>>].capsule
                        /\ thread'[<<r, c>>].at \in Working <=> thread[<<r, c>>].at \in Working
  <2>1. ASSUME NEW r \in Roles
        PROVE /\ thread'[<<r, c>>].capsule = thread[<<r, c>>].capsule
              /\ thread'[<<r, c>>].at \in Working <=> thread[<<r, c>>].at \in Working
    <3>1. CASE <<r, c>> = t
      BY <1>1, <1>11, <3>1 DEF Working
    <3>2. CASE <<r, c>> # t
      BY <1>1, <1>11, <3>2 DEF Threads
    <3> QED
      BY <3>1, <3>2
  <2> QED
    BY <2>1
<1>14. /\ InTurn(c)' /\ Answered(c)' = Answered(c)
       /\ TakenToConvert(c)' = TakenToConvert(c) /\ TakenToCipher(c)' = TakenToCipher(c)
  BY <1>1, <1>7, <1>10, <1>13, SameHandsInTurn
<1>15. OwnCapsules(c)'
  BY <1>8, <1>10 DEF OwnCapsules
<1> QED
  BY <1>1, <1>2, <1>4, <1>8, <1>10, <1>11, <1>12, <1>14, <1>15

(* The reply is sent: one more capsule is done with, and the reply goes to *)
(* the client it was made for.                                             *)
LEMMA SendInTurn ==
  ASSUME PlacesInv, NEW t \in ActiveObjects, NEW c, c = t[2], send_message(t),
         InTurn(c), OwnCapsules(c)
  PROVE  /\ InTurn(c)' /\ OwnCapsules(c)' /\ c \in Clients
         /\ Answered(c)' = Answered(c) + 1 /\ Answered(c) + 1 = TakenToCipher(c)
         /\ TakenToConvert(c)' = TakenToConvert(c) /\ TakenToCipher(c)' = TakenToCipher(c)
         /\ \A d \in Clients : d # c => Untouched(d)
         /\ thread'[<<"convert", c>>] = thread[<<"convert", c>>]
         /\ thread'[<<"cipher", c>>].at # "before" /\ thread[<<"cipher", c>>].at # "before"
         /\ TakenToCipher(c) \in 1 .. Len(heap[c]) /\ heap' = heap
         /\ Held(t) = heap[c][TakenToCipher(c)]
         /\ ServerSends(c, ReplyBytes(heap[c][TakenToCipher(c)].buffer))
<1>1. /\ t = <<"cipher", c>> /\ c \in Clients /\ t \in Threads /\ thread[t].at = "after"
      /\ thread[t].at \in Working /\ heap' = heap /\ queue' = queue
  BY DEF ActiveObjects, Threads, Roles, send_message, At, Working
<1>2. PICK k \in Int : k = TakenToCipher(c)
  BY <1>1, Counts
<1>3. thread[t].capsule = <<c, k>>
  BY <1>1, <1>2 DEF InTurn, Holds
<1>4. k \in 1 .. Len(heap[c]) /\ Held(t) = heap[c][k]
  BY <1>1, <1>3, HeldCapsule, SMTT(30) DEF Held
<1>5. heap[c][k].socket = c
  BY <1>4 DEF OwnCapsules
<1>6. ServerSends(c, ReplyBytes(heap[c][k].buffer))
  BY <1>4, <1>5 DEF send_message
<1>7. /\ thread'[t] = [at |-> "deQ", capsule |-> NoCapsule]
      /\ \A u \in Threads : u # t => thread'[u] = thread[u]
  BY <1>1 DEF send_message, Releases, PlacesInv, TypeOK
<1>8. /\ thread'[<<"listen", c>>] = thread[<<"listen", c>>]
      /\ thread'[<<"convert", c>>] = thread[<<"convert", c>>]
  BY <1>1, <1>7 DEF Threads, Roles
<1>9. \A d \in Clients : d # c => Untouched(d)
  BY <1>1, <1>7 DEF Untouched, Threads, Roles
<1>10. InHand(<<"cipher", c>>) = 1 /\ InHand(<<"cipher", c>>)' = 0
       /\ InHand(<<"listen", c>>)' = InHand(<<"listen", c>>)
       /\ InHand(<<"convert", c>>)' = InHand(<<"convert", c>>)
  BY <1>1, <1>7, <1>8 DEF InHand, Working
<1>11. TakenToConvert(c)' = TakenToConvert(c) /\ TakenToCipher(c)' = TakenToCipher(c)
  BY <1>1, <1>10 DEF Listened, TakenToConvert, HandedOn, TakenToCipher
<1>12. Answered(c) = k - 1 /\ Answered(c)' = k - 0
  BY <1>2, <1>10, <1>11 DEF Answered
<1>13. InTurn(c)'
  <2>1. Answered(c)' \in Nat
    BY <1>4, <1>12
  <2>2. /\ (thread[<<"listen", c>>].at \in Working => Holds(<<"listen", c>>, <<c, Len(heap[c])>>))'
        /\ (thread[<<"convert", c>>].at \in Working => Holds(<<"convert", c>>, <<c, TakenToConvert(c)>>))'
        /\ (thread[<<"cipher", c>>].at \in Working => Holds(<<"cipher", c>>, <<c, TakenToCipher(c)>>))'
    BY <1>1, <1>7, <1>8, <1>11 DEF InTurn, Holds, Working
  <2>3. /\ (\A i \in 1 .. Len(queue[<<"q2", c>>]) : queue[<<"q2", c>>][i] = <<c, TakenToConvert(c) + i>>)'
        /\ (\A i \in 1 .. Len(queue[<<"q3", c>>]) : queue[<<"q3", c>>][i] = <<c, TakenToCipher(c) + i>>)'
    BY <1>1, <1>11 DEF InTurn
  <2> QED
    BY <2>1, <2>2, <2>3 DEF InTurn
<1>14. OwnCapsules(c)'
  BY <1>1 DEF OwnCapsules
<1>15. Answered(c)' = Answered(c) + 1 /\ Answered(c) + 1 = TakenToCipher(c)
  BY <1>2, <1>12
<1>16. thread'[<<"cipher", c>>].at # "before" /\ thread[<<"cipher", c>>].at # "before"
  BY <1>1, <1>7
<1> QED
  BY <1>1, <1>2, <1>4, <1>6, <1>8, <1>9, <1>11, <1>13, <1>14, <1>15, <1>16

-----------------------------------------------------------------------------
(* Replies and departures.                                                 *)

(* Every reply adds one NUL to a stream.                                   *)
LEMMA NulsFinite ==
  ASSUME NEW s \in Seq(Byte)
  PROVE  IsFiniteSet(Nuls(s)) /\ Cardinality(Nuls(s)) \in Nat
<1>1. Len(s) \in Nat
  BY LenProperties
<1>2. IsFiniteSet(1 .. Len(s)) /\ Nuls(s) \subseteq 1 .. Len(s)
  BY <1>1, FS_Interval DEF Nuls
<1> QED
  BY <1>2, FS_Subset, FS_CardinalityType

LEMMA NulsOfPrefix ==
  ASSUME NEW s \in Seq(Byte), NEW t \in Seq(Byte)
  PROVE  Cardinality(Nuls(s)) <= Cardinality(Nuls(s \o t))
<1>1. /\ s \o t \in Seq(Byte) /\ Len(s \o t) = Len(s) + Len(t) /\ Len(s) \in Nat /\ Len(t) \in Nat
      /\ \A i \in 1 .. Len(s) : (s \o t)[i] = s[i]
  BY ConcatProperties, LenProperties
<1>2. Nuls(s) \subseteq Nuls(s \o t)
  BY <1>1 DEF Nuls
<1> QED
  BY <1>1, <1>2, NulsFinite, FS_Subset

LEMMA NulsOfReply ==
  ASSUME NEW s \in Seq(Byte), NEW buffer \in Seq(Byte), NEW i \in 1 .. Len(buffer), buffer[i] = NUL
  PROVE  Cardinality(Nuls(s \o ReplyBytes(buffer))) = Cardinality(Nuls(s)) + 1
<1>1. PICK n : EndsAt(buffer, n)
  BY FirstNul
<1>2. PICK t : t = CString(buffer)
  OBVIOUS
<1>3. n \in Nat /\ t \in Seq(Byte) /\ Len(t) = n /\ \A j \in 1 .. n : t[j] # NUL
  <2>1. StrLen(buffer) = n /\ Len(buffer) \in Nat /\ n \in 0 .. (Len(buffer) - 1)
    BY <1>1, StrLenIs, LenProperties DEF EndsAt
  <2>2. SubSeq(buffer, 1, n) \in Seq(Byte)
    BY <2>1, SplitTypes DEF First
  <2>3. \A j \in 1 .. n : buffer[j] \in Byte
    BY <2>1, ElementOfSeq
  <2>4. Len(SubSeq(buffer, 1, n)) = n /\ \A j \in 1 .. n : SubSeq(buffer, 1, n)[j] = buffer[j]
    BY <2>1, <2>3, SubSeqProperties
  <2> QED
    BY <1>1, <1>2, <2>1, <2>2, <2>4 DEF CString, EndsAt
<1>4. NUL \in Byte
  BY DEF NUL, Byte
<1>5. PICK r : r = ReplyBytes(buffer)
  OBVIOUS
<1>6. /\ r \in Seq(Byte) /\ Len(r) = n + 1 /\ r[n + 1] = NUL /\ \A j \in 1 .. n : r[j] # NUL
  BY <1>2, <1>3, <1>4, <1>5, AppendProperties DEF ReplyBytes
<1>7. PICK w : w = s \o r
  OBVIOUS
<1>8. /\ Len(s) \in Nat /\ Len(w) = Len(s) + (n + 1)
      /\ \A j \in 1 .. Len(w) : w[j] = IF j <= Len(s) THEN s[j] ELSE r[j - Len(s)]
  <2>1. Len(w) = Len(s) + Len(r) /\ Len(s) \in Nat
    BY <1>6, <1>7, ConcatProperties, LenProperties
  <2>2. \A j \in 1 .. Len(s) + Len(r) : w[j] = IF j <= Len(s) THEN s[j] ELSE r[j - Len(s)]
    BY <1>6, <1>7, ConcatProperties
  <2>3. Len(r) = n + 1
    BY <1>6
  <2> QED
    BY <2>1, <2>2, <2>3
<1>9. Nuls(w) = Nuls(s) \cup {Len(s) + (n + 1)}
  <2>1. ASSUME NEW j \in 1 .. Len(w)
        PROVE  w[j] = NUL <=> j \in Nuls(s) \/ j = Len(s) + (n + 1)
    <3>1. CASE j <= Len(s)
      BY <1>3, <1>8, <3>1 DEF Nuls
    <3>2. CASE j = Len(s) + (n + 1)
      <4>1. j - Len(s) = n + 1 /\ ~(j <= Len(s))
        BY <1>3, <1>8, <3>2
      <4> QED
        BY <1>6, <1>8, <3>2, <4>1
    <3>3. CASE j > Len(s) /\ j # Len(s) + (n + 1)
      <4>1. j - Len(s) \in 1 .. n /\ ~(j <= Len(s)) /\ j \notin Nuls(s)
        BY <1>3, <1>8, <3>3 DEF Nuls
      <4> QED
        BY <1>6, <1>8, <3>3, <4>1
    <3> QED
      BY <1>8, <3>1, <3>2, <3>3
  <2>2. Nuls(s) \subseteq 1 .. Len(w) /\ Len(s) + (n + 1) \in 1 .. Len(w)
    BY <1>3, <1>8 DEF Nuls
  <2> QED
    BY <2>1, <2>2 DEF Nuls
<1>10. Len(s) + (n + 1) \notin Nuls(s)
  BY <1>3, <1>8 DEF Nuls
<1> QED
  BY <1>5, <1>7, <1>9, <1>10, NulsFinite, FS_AddElement, ZenonT(40)

(* Steps of the server that send nothing.                                  *)
LEMMA QuietOrder ==
  ASSUME OrderInv, alive', UNCHANGED <<link, down, client, got>>,
         \A d \in Clients : InTurn(d)' /\ OwnCapsules(d)' /\ Answered(d)' = Answered(d)
  PROVE  OrderInv'
<1>1. ASSUME NEW d \in Clients PROVE Orderly(d)'
  <2>1. Stream(d)' = Stream(d)
    BY DEF Stream
  <2> QED
    BY <2>1 DEF OrderInv, Orderly, Departed, Nuls
<1>2. DiesOfDeparture'
  BY DEF DiesOfDeparture
<1> QED
  BY <1>1, <1>2 DEF OrderInv

LEMMA ThreadsOrder ==
  ASSUME PlacesInv, OrderInv,
         \/ StartThread \/ \E c \in Clients : Accept(c) \/ ListenStep(c)
         \/ \E t \in ActiveObjects : DeQ(t) \/ Before(t) \/ insert_to_queue(t)
  PROVE  OrderInv'
<1>1. \A d \in Clients : InTurn(d) /\ OwnCapsules(d)
  BY DEF OrderInv, Orderly
<1>2. CASE StartThread \/ \E c \in Clients : Accept(c) \/ ListenFails(c)
  <2>1. UNCHANGED <<queue, heap, alive, networkVars, clientVars>> /\ alive
    BY <1>2 DEF StartThread, Accept, ListenFails
  <2>2. \A u \in Threads : /\ thread'[u].capsule = thread[u].capsule
                           /\ thread'[u].at \in Working <=> thread[u].at \in Working
    <3>1. CASE StartThread
      <4>1. PICK s : s = <<main.at, main.conn>>
        OBVIOUS
      <4>2. thread' = [thread EXCEPT ![s] = [thread[s] EXCEPT !.at = FirstPoint(main.at)]]
        BY <3>1, <4>1 DEF StartThread
      <4>3. s \in Threads /\ thread[s].at = "none"
        BY <3>1, <4>1 DEF StartThread, PlacesInv, StartedOnce, Threads
      <4> QED
        BY <4>2, <4>3 DEF PlacesInv, TypeOK, FirstPoint, Working
    <3>2. CASE \E c \in Clients : Accept(c)
      BY <3>2 DEF Accept
    <3>3. CASE \E c \in Clients : ListenFails(c)
      <4>1. PICK c \in Clients : ListenFails(c)
        BY <3>3
      <4>2. PICK s : s = <<"listen", c>>
        OBVIOUS
      <4>3. /\ thread' = [thread EXCEPT ![s] = [thread[s] EXCEPT !.at = "done"]]
            /\ thread[s].at = "recv" /\ s \in Threads
        BY <4>1, <4>2 DEF ListenFails, Moves, At, Threads, Roles
      <4> QED
        BY <4>3 DEF PlacesInv, TypeOK, Working
    <3> QED
      BY <1>2, <3>1, <3>2, <3>3
  <2>3. ASSUME NEW d \in Clients
        PROVE  InTurn(d)' /\ OwnCapsules(d)' /\ Answered(d)' = Answered(d)
    <3>1. \A r \in Roles : <<r, d>> \in Threads
      BY DEF Threads
    <3>2. InTurn(d)' /\ Answered(d)' = Answered(d)
      BY <1>1, <2>1, <2>2, <3>1, SameHandsInTurn
    <3> QED
      BY <1>1, <2>1, <3>2 DEF OwnCapsules
  <2> QED
    BY <2>1, <2>3, QuietOrder DEF networkVars, clientVars
<1>3. ASSUME NEW c \in Clients, ListenReceives(c) \/ ListenReceivesNothing(c)
      PROVE  OrderInv'
  <2>1. PICK bytes \in Seq(Byte) : Encapsulate(c, bytes)
    <3>1. CASE ListenReceives(c)
      <4>1. PICK n \in Received(up[c], BufferSize) : Encapsulate(c, First(up[c], n))
        BY <3>1 DEF ListenReceives
      <4>2. up[c] \in Seq(Byte)
        BY DEF PlacesInv, TypeOK, ClientTypeOK
      <4>3. First(up[c], n) \in Seq(Byte)
        BY <4>2, AOServerAssumption, ReceivedRange, SplitTypes
      <4> QED
        BY <4>1, <4>3
    <3>2. CASE ListenReceivesNothing(c)
      BY <3>2, EmptySeq DEF ListenReceivesNothing
    <3> QED
      BY <1>3, <3>1, <3>2
  <2>2. /\ thread[<<"listen", c>>].at = "recv" /\ alive /\ UNCHANGED <<queue, alive, link, down, clientVars>>
    BY <1>3 DEF ListenReceives, ListenReceivesNothing, At, networkVars
  <2>3. /\ InTurn(c)' /\ OwnCapsules(c)' /\ Answered(c)' = Answered(c)
        /\ \A d \in Clients : d # c => Untouched(d)
    BY <1>1, <2>1, <2>2, EncapsulateInTurn
  <2> QED
    BY <1>1, <2>2, <2>3, ElsewhereInTurn, QuietOrder DEF clientVars
<1>4. ASSUME NEW c \in Clients, ListenEnQ(c)
      PROVE  OrderInv'
  <2>1. heap' = heap /\ alive /\ UNCHANGED <<alive, networkVars, clientVars>>
    BY <1>4 DEF ListenEnQ
  <2>2. InTurn(c)' /\ Answered(c)' = Answered(c) /\ \A d \in Clients : d # c => Untouched(d)
    BY <1>1, <1>4, ListenEnQInTurn
  <2>3. OwnCapsules(c)'
    BY <1>1, <2>1 DEF OwnCapsules
  <2> QED
    BY <1>1, <2>1, <2>2, <2>3, ElsewhereInTurn, QuietOrder DEF networkVars, clientVars
<1>5. ASSUME NEW t \in ActiveObjects, DeQ(t) \/ Before(t) \/ insert_to_queue(t)
      PROVE  OrderInv'
  <2>1. PICK c : c = t[2] /\ c \in Clients
    BY DEF ActiveObjects
  <2>2. alive /\ UNCHANGED <<alive, networkVars, clientVars>>
    BY <1>5 DEF DeQ, Before, insert_to_queue
  <2>3. /\ InTurn(c)' /\ OwnCapsules(c)' /\ Answered(c)' = Answered(c)
        /\ \A d \in Clients : d # c => Untouched(d)
    <3>1. CASE DeQ(t)
      BY <1>1, <2>1, <3>1, DeQInTurn DEF OwnCapsules, DeQ
    <3>2. CASE Before(t)
      BY <1>1, <2>1, <3>2, BeforeInTurn
    <3>3. CASE insert_to_queue(t)
      BY <1>1, <2>1, <3>3, InsertInTurn DEF OwnCapsules, insert_to_queue
    <3> QED
      BY <1>5, <3>1, <3>2, <3>3
  <2> QED
    BY <1>1, <2>1, <2>2, <2>3, ElsewhereInTurn, QuietOrder DEF networkVars, clientVars
<1> QED
  BY <1>2, <1>3, <1>4, <1>5 DEF ListenStep

(* A send after an RST may end the server; then the capsule that was being *)
(* answered is one more than the replies the client can have read.         *)
LEMMA SendOrder ==
  ASSUME PlacesInv, OrderInv, NEW t \in ActiveObjects, send_message(t)
  PROVE  OrderInv'
<1>1. \A d \in Clients : InTurn(d) /\ OwnCapsules(d) /\ Departed(d)
  BY DEF OrderInv, Orderly
<1>2. PICK c : c = t[2] /\ c \in Clients
  BY DEF ActiveObjects
<1>3. PICK buffer : buffer = heap[c][TakenToCipher(c)].buffer
  OBVIOUS
<1>4. /\ InTurn(c)' /\ OwnCapsules(c)' /\ Answered(c)' = Answered(c) + 1
      /\ Answered(c) + 1 = TakenToCipher(c) /\ TakenToCipher(c) \in 1 .. Len(heap[c])
      /\ \A d \in Clients : d # c => Untouched(d)
      /\ ServerSends(c, ReplyBytes(buffer)) /\ heap' = heap /\ Held(t).buffer = buffer
  BY <1>1, <1>2, <1>3, SendInTurn
<1>5. alive /\ UNCHANGED <<up, clientVars>>
  BY DEF send_message
<1>6. \E i \in 1 .. Len(buffer) : buffer[i] = NUL
  BY <1>2, <1>3, <1>4, ZenonT(40) DEF PlacesInv, BuffersEnd
<1>7. buffer \in Seq(Byte)
  <2>1. t \in Threads /\ thread[t].at \in Working
    BY DEF ActiveObjects, Threads, Roles, send_message, At, Working
  <2>2. Held(t) \in Capsule
    BY <2>1, HeldCapsule
  <2> QED
    BY <1>4, <2>2 DEF Capsule
<1>8. ReplyBytes(buffer) \in Seq(Byte)
  BY <1>6, <1>7, ConversionTypes
<1>9. ClientTypeOK
  BY DEF PlacesInv, TypeOK
<1>10. \A d \in Clients : Stream(d) \in Seq(Byte) /\ Cardinality(Nuls(Stream(d))) \in Nat
  BY <1>9, StreamType, NulsFinite
<1>11. /\ \A d \in Clients : d # c => Stream(d)' = Stream(d)
       /\ Cardinality(Nuls(Stream(c)')) \in Nat
       /\ Cardinality(Nuls(Stream(c)')) <= Cardinality(Nuls(Stream(c))) + 1
  <2>1. CASE link[c] = "up"
    <3>1. got' = got /\ down' = [down EXCEPT ![c] = @ \o ReplyBytes(buffer)]
      BY <1>4, <1>5, <2>1 DEF ServerSends, clientVars
    <3>2. \A d \in Clients : Stream(d)' = IF d = c THEN Stream(c) \o ReplyBytes(buffer) ELSE Stream(d)
      BY <1>2, <1>8, <1>9, <3>1, StreamGrows
    <3>3. Cardinality(Nuls(Stream(c) \o ReplyBytes(buffer))) = Cardinality(Nuls(Stream(c))) + 1
      <4>1. PICK i \in 1 .. Len(buffer) : buffer[i] = NUL
        BY <1>6
      <4>2. Stream(c) \in Seq(Byte)
        BY <1>2, <1>10
      <4> QED
        BY <1>7, <4>1, <4>2, NulsOfReply
    <3>4. Cardinality(Nuls(Stream(c))) \in Nat /\ Stream(c)' = Stream(c) \o ReplyBytes(buffer)
      BY <1>2, <1>10, <3>2
    <3>5. Cardinality(Nuls(Stream(c)')) = Cardinality(Nuls(Stream(c))) + 1
      BY <3>3, <3>4
    <3>6. \A d \in Clients : d # c => Stream(d)' = Stream(d)
      BY <3>2
    <3> QED
      BY <3>4, <3>5, <3>6
  <2>2. CASE link[c] # "up"
    <3>1. got' = got /\ down' = down
      BY <1>4, <1>5, <2>2 DEF ServerSends, clientVars
    <3>2. \A d \in Clients : Stream(d)' = Stream(d)
      BY <3>1 DEF Stream
    <3>3. Cardinality(Nuls(Stream(c))) \in Nat
      BY <1>2, <1>10
    <3> QED
      BY <1>2, <3>2, <3>3
  <2> QED
    BY <2>1, <2>2
<1>12. \A d \in Clients : Answered(d) \in Nat
  BY <1>1 DEF InTurn
<1>13. /\ \A d \in Clients : d # c => link'[d] = link[d]
       /\ link'[c] \in {"fin", "rst"} => link[c] \in {"fin", "rst"}
  BY <1>2, <1>4, <1>9 DEF ServerSends, ClientTypeOK
<1>14. ASSUME NEW d \in Clients PROVE Orderly(d)'
  <2>1. Departed(d)'
    BY <1>1, <1>5, <1>13 DEF Departed, clientVars
  <2>2. Cardinality(Nuls(Stream(d))) <= Answered(d)
    BY DEF OrderInv, Orderly
  <2>3. CASE d = c
    <3>1. Cardinality(Nuls(Stream(c))) \in Nat /\ Cardinality(Nuls(Stream(c)')) \in Nat
      BY <1>2, <1>10, <1>11
    <3>2. Cardinality(Nuls(Stream(c)')) <= Answered(c)'
      BY <1>2, <1>4, <1>11, <1>12, <2>2, <2>3, <3>1
    <3> QED
      BY <1>4, <2>1, <2>3, <3>2 DEF Orderly, Nuls
  <2>4. CASE d # c
    <3>1. InTurn(d)' /\ OwnCapsules(d)' /\ Answered(d)' = Answered(d)
      BY <1>1, <1>4, <2>4, ElsewhereInTurn
    <3>2. Cardinality(Nuls(Stream(d)')) <= Answered(d)'
      BY <1>10, <1>11, <1>12, <2>2, <2>4, <3>1
    <3> QED
      BY <2>1, <3>1, <3>2 DEF Orderly, Nuls
  <2> QED
    BY <2>3, <2>4
<1>15. ASSUME ~alive' PROVE DiesOfDeparture'
  <2>1. link[c] = "rst" /\ link' = link
    BY <1>4, <1>5, <1>15 DEF ServerSends
  <2>2. c \in Leaving /\ client[c] = "gone"
    BY <1>1, <1>2, <2>1 DEF Departed
  <2>3. PICK flat : flat = Seqs!FlattenSeq(got[c])
    OBVIOUS
  <2>4. flat \in Seq(Byte) /\ down[c] \in Seq(Byte)
    <3>1. got[c] \in Seq(Seq(Byte)) /\ <<>> \in Seq(Byte)
      BY <1>2, <1>9, EmptySeq DEF ClientTypeOK
    <3>2. Seqs!FlattenSeq(got[c]) \in Seq(Byte)
      BY <3>1, FlattenAppend
    <3> QED
      BY <1>2, <1>9, <2>3, <3>2 DEF ClientTypeOK
  <2>5. Cardinality(Nuls(flat)) <= Cardinality(Nuls(Stream(c))) /\ Cardinality(Nuls(flat)) \in Nat
    BY <2>3, <2>4, NulsOfPrefix, NulsFinite DEF Stream
  <2>6. Cardinality(Nuls(Stream(c))) <= Answered(c)
    BY <1>2 DEF OrderInv, Orderly
  <2>7. Len(heap[c]) > Cardinality(Nuls(flat))
    BY <1>2, <1>4, <1>10, <1>12, <2>5, <2>6, Counts
  <2>8. client'[c] = "gone" /\ link'[c] = "rst" /\ Len(heap'[c]) > RepliesRead(c)'
    BY <1>4, <1>5, <2>1, <2>2, <2>3, <2>7 DEF RepliesRead, Nuls, clientVars
  <2> QED
    BY <2>2, <2>8 DEF DiesOfDeparture
<1> QED
  BY <1>14, <1>15 DEF OrderInv, DiesOfDeparture

(* A client takes from its stream, loses what it has not read when it      *)
(* leaves, and is the only one to end its connection.                      *)
LEMMA ClientOrder ==
  ASSUME PlacesInv, OrderInv, NEW c \in Clients, ClientStep(c), UNCHANGED serverVars
  PROVE  OrderInv'
<1>1. \A d \in Clients : InTurn(d) /\ OwnCapsules(d) /\ Departed(d) /\ Cardinality(Nuls(Stream(d))) <= Answered(d)
  BY DEF OrderInv, Orderly
<1>2. UNCHANGED <<main, thread, queue, heap>>
  BY DEF serverVars
<1>3. \A d \in Clients : InTurn(d)' /\ OwnCapsules(d)' /\ Answered(d)' = Answered(d)
  BY <1>1, <1>2, ElsewhereInTurn DEF Untouched
<1>4. ClientTypeOK
  BY DEF PlacesInv, TypeOK
<1>5. \A d \in Clients : Stream(d) \in Seq(Byte) /\ Cardinality(Nuls(Stream(d))) \in Nat /\ Answered(d) \in Nat
  BY <1>1, <1>4, StreamType, NulsFinite DEF InTurn
<1>6. /\ alive' = alive
      /\ \A d \in Clients : link'[d] \in {"fin", "rst"} =>
            \/ link[d] \in {"fin", "rst"} /\ client'[d] = client[d]
            \/ d \in Leaving /\ client'[d] = "gone"
      /\ \A d \in Clients : client[d] = "gone" =>
            client'[d] = "gone" /\ link'[d] = link[d] /\ got'[d] = got[d]
  <2>1. CASE Connect(c)
    BY <1>4, <2>1 DEF Connect, ClientTypeOK
  <2>2. CASE SendRequest(c)
    BY <1>1, <1>4, <2>2 DEF SendRequest, ClientTypeOK, Departed
  <2>3. CASE SendFails(c)
    BY <1>1, <1>4, <2>3 DEF SendFails, networkVars, ClientTypeOK, Departed
  <2>4. CASE RecvReply(c) \/ RecvNothing(c)
    BY <1>1, <1>4, <2>4 DEF RecvReply, RecvNothing, ClientReceives, networkVars, ClientTypeOK, Departed
  <2>5. CASE HangUp(c)
    BY <1>4, <2>5 DEF HangUp, ClientTypeOK
  <2> QED
    BY <2>1, <2>2, <2>3, <2>4, <2>5 DEF ClientStep
<1>7. \A d \in Clients : Departed(d)'
  BY <1>1, <1>6 DEF Departed
<1>8. \A d \in Clients : /\ Cardinality(Nuls(Stream(d)')) \in Nat
                         /\ Cardinality(Nuls(Stream(d)')) <= Cardinality(Nuls(Stream(d)))
  <2>1. CASE UNCHANGED <<got, down>>
    <3>1. \A d \in Clients : Stream(d)' = Stream(d)
      BY <2>1 DEF Stream
    <3> QED
      BY <1>5, <3>1
  <2>2. CASE \E n \in 0 .. Len(down[c]) : ClientReceives(c, n)
    <3>1. \A d \in Clients : Stream(d)' = Stream(d)
      BY <1>4, <2>2, ReceivesStream
    <3> QED
      BY <1>5, <3>1
  <2>3. CASE HangUp(c)
    <3>1. got' = got /\ \A d \in Clients : down'[d] = IF d = c THEN <<>> ELSE down[d]
      BY <1>4, <2>3 DEF HangUp, ClientTypeOK
    <3>2. ASSUME NEW d \in Clients
          PROVE  /\ Cardinality(Nuls(Stream(d)')) \in Nat
                 /\ Cardinality(Nuls(Stream(d)')) <= Cardinality(Nuls(Stream(d)))
      <4>1. PICK flat : flat = Seqs!FlattenSeq(got[d])
        OBVIOUS
      <4>2. flat \in Seq(Byte) /\ down[d] \in Seq(Byte)
        <5>1. got[d] \in Seq(Seq(Byte)) /\ <<>> \in Seq(Byte)
          BY <1>4, EmptySeq DEF ClientTypeOK
        <5>2. Seqs!FlattenSeq(got[d]) \in Seq(Byte)
          BY <5>1, FlattenAppend
        <5> QED
          BY <1>4, <4>1, <5>2 DEF ClientTypeOK
      <4>3. CASE d = c
        <5>1. Stream(d)' = flat \o <<>> /\ Stream(d) = flat \o down[d]
          BY <3>1, <4>1, <4>3 DEF Stream
        <5>2. flat \o <<>> = flat
          BY <4>2, ConcatEmptySeq
        <5> QED
          BY <4>2, <5>1, <5>2, NulsOfPrefix, NulsFinite
      <4>4. CASE d # c
        <5>1. Stream(d)' = Stream(d)
          BY <3>1, <4>4 DEF Stream
        <5> QED
          BY <1>5, <5>1
      <4> QED
        BY <4>3, <4>4
    <3> QED
      BY <3>2
  <2>4. 0 \in 0 .. Len(down[c])
    BY <1>4, LenProperties DEF ClientTypeOK
  <2>5. RecvReply(c) => \E n \in 0 .. Len(down[c]) : ClientReceives(c, n)
    <3>1. down[c] \in Seq(Byte) /\ ReplyLimit \in Nat
      BY <1>4, SelectClientAssumption DEF ClientTypeOK, ReplyLimit
    <3> QED
      BY <3>1, ReceivedRange DEF RecvReply
  <2> QED
    BY <2>1, <2>2, <2>3, <2>4, <2>5 DEF ClientStep, Connect, SendRequest, SendFails, RecvNothing, networkVars
<1>9. \A d \in Clients : Orderly(d)'
  <2>1. ASSUME NEW d \in Clients PROVE Orderly(d)'
    <3>1. ClientTypeOK'
      BY <1>4, ClientTypes
    <3>2. Cardinality(Nuls(Stream(d)')) \in Nat
      BY <1>8
    <3>3. Cardinality(Nuls(Stream(d)')) <= Answered(d)'
      BY <1>1, <1>3, <1>5, <1>8, <3>2
    <3> QED
      BY <1>3, <1>7, <3>3 DEF Orderly, Nuls
  <2> QED
    BY <2>1
<1>10. DiesOfDeparture'
  <2>1. ASSUME ~alive'
        PROVE  \E d \in Leaving : client'[d] = "gone" /\ link'[d] = "rst" /\ Len(heap'[d]) > RepliesRead(d)'
    <3>1. PICK d \in Leaving : client[d] = "gone" /\ link[d] = "rst" /\ Len(heap[d]) > RepliesRead(d)
      BY <1>6, <2>1 DEF OrderInv, DiesOfDeparture
    <3>2. d \in Clients
      BY SelectClientAssumption
    <3>3. client'[d] = "gone" /\ link'[d] = "rst" /\ got'[d] = got[d]
      BY <1>6, <3>1, <3>2
    <3> QED
      BY <1>2, <3>1, <3>3 DEF RepliesRead, Nuls
  <2> QED
    BY <2>1 DEF DiesOfDeparture
<1> QED
  BY <1>9, <1>10 DEF OrderInv

LEMMA InitOrder == Init => OrderInv
<1> SUFFICES ASSUME Init PROVE OrderInv
  OBVIOUS
<1>1. /\ \A t \in Threads : thread[t].at = "none" /\ thread[t].capsule = NoCapsule
      /\ \A q \in Queues : Len(queue[q]) = 0
      /\ \A c \in Clients : heap[c] = <<>> /\ Len(heap[c]) = 0
  BY EmptySeq DEF Init
<1>2. alive /\ \A c \in Clients : link[c] = "none" /\ got[c] = <<>> /\ down[c] = <<>>
  BY DEF Init, ClientInit
<1>3. ASSUME NEW c \in Clients PROVE Orderly(c)
  <2>1. /\ \A r \in Roles : <<r, c>> \in Threads
        /\ <<"q2", c>> \in Queues /\ <<"q3", c>> \in Queues
    BY DEF Threads, Queues
  <2>2. /\ InHand(<<"listen", c>>) = 0 /\ InHand(<<"convert", c>>) = 0 /\ InHand(<<"cipher", c>>) = 0
        /\ Len(queue[<<"q2", c>>]) = 0 /\ Len(queue[<<"q3", c>>]) = 0
    BY <1>1, <2>1 DEF InHand, Working, Roles
  <2>3. Answered(c) = 0
    BY <1>1, <2>2 DEF Answered, TakenToCipher, HandedOn, TakenToConvert, Listened
  <2>4. InTurn(c)
    BY <1>1, <2>1, <2>2, <2>3 DEF InTurn, Working, Roles
  <2>5. OwnCapsules(c) /\ Departed(c)
    BY <1>1, <1>2 DEF OwnCapsules, Departed
  <2>6. Stream(c) = <<>> \o <<>>
    BY <1>2, FlattenEmpty DEF Stream
  <2>7. <<>> \o <<>> = <<>>
    <3>1. <<>> \in Seq(Byte)
      BY EmptySeq
    <3> QED
      BY <3>1, ConcatEmptySeq
  <2>8. Nuls(Stream(c)) = {}
    BY <2>6, <2>7, EmptySeq DEF Nuls
  <2>9. Cardinality(Nuls(Stream(c))) <= Answered(c)
    BY <2>3, <2>8, FS_EmptySet
  <2> QED
    BY <2>4, <2>5, <2>9 DEF Orderly
<1> QED
  BY <1>2, <1>3 DEF OrderInv, DiesOfDeparture

(* Every capsule's place tells its number, and the server dies of a        *)
(* departure only.                                                         *)
THEOREM OrderInductive == Spec => []OrderInv
<1>1. PlacesInv /\ OrderInv /\ [Next]_vars => OrderInv'
  <2> SUFFICES ASSUME PlacesInv, OrderInv, [Next]_vars PROVE OrderInv'
    OBVIOUS
  <2>1. CASE \/ StartThread \/ \E c \in Clients : Accept(c) \/ ListenStep(c)
             \/ \E t \in ActiveObjects : DeQ(t) \/ Before(t) \/ insert_to_queue(t)
    BY <2>1, ThreadsOrder
  <2>2. CASE \E t \in ActiveObjects : send_message(t)
    BY <2>2, SendOrder
  <2>3. CASE \E c \in Clients : ClientStep(c) /\ UNCHANGED serverVars
    BY <2>3, ClientOrder
  <2>4. CASE UNCHANGED vars
    <3>1. UNCHANGED <<main, thread, queue, heap, alive, link, up, down, client, sent, got>>
      BY <2>4 DEF vars, serverVars, networkVars, clientVars
    <3>2. \A d \in Clients : Untouched(d) /\ Stream(d)' = Stream(d)
      BY <3>1 DEF Untouched, Stream
    <3>3. \A d \in Clients : Orderly(d)'
      BY <3>1, <3>2, ElsewhereInTurn DEF OrderInv, Orderly, Departed, Nuls
    <3>4. DiesOfDeparture'
      BY <3>1 DEF OrderInv, DiesOfDeparture, RepliesRead, Nuls
    <3> QED
      BY <3>3, <3>4 DEF OrderInv
  <2> QED
    BY <2>1, <2>2, <2>3, <2>4 DEF Next, ActiveObjectStep
<1> QED
  BY InitOrder, PlacesInductive, <1>1, PTL DEF Spec

(* However the threads interleave, if the server died, some client that    *)
(* was ended left without reading a reply to each capsule of its own.      *)
THEOREM DeathIsOfDeparture == Spec => []DiesOfDeparture
BY OrderInductive, PTL DEF OrderInv

-----------------------------------------------------------------------------
(* What is received, what it will be answered with, and in what order.     *)

(* The string at the start of a buffer that holds a NUL.                   *)
LEMMA CStringIs ==
  ASSUME NEW buffer \in Seq(Byte), NEW n, EndsAt(buffer, n)
  PROVE  /\ CString(buffer) \in Seq(Byte) /\ Len(CString(buffer)) = n
         /\ n \in Nat /\ n < Len(buffer) /\ Len(buffer) \in Nat
         /\ \A i \in 1 .. n : CString(buffer)[i] = buffer[i]
<1>1. StrLen(buffer) = n /\ Len(buffer) \in Nat /\ n \in 0 .. (Len(buffer) - 1)
  BY StrLenIs, LenProperties DEF EndsAt
<1>2. SubSeq(buffer, 1, n) \in Seq(Byte)
  BY <1>1, SplitTypes DEF First
<1>3. \A i \in 1 .. n : buffer[i] \in Byte
  BY <1>1, ElementOfSeq
<1>4. Len(SubSeq(buffer, 1, n)) = n /\ \A i \in 1 .. n : SubSeq(buffer, 1, n)[i] = buffer[i]
  BY <1>1, <1>3, SubSeqProperties
<1> QED
  BY <1>1, <1>2, <1>4 DEF CString

(* What is left to do for a string once it is converted, or ciphered.      *)
LEMMA StillToCipher ==
  ASSUME NEW buffer \in Seq(Byte), NEW i \in 1 .. Len(buffer), buffer[i] = NUL,
         NEW text, text = CString(convert_opposite_case_letters(buffer))
  PROVE  [j \in 1 .. Len(text) |-> Caesar(text[j])] = Answer(CString(buffer))
<1>1. PICK n : EndsAt(buffer, n)
  BY FirstNul
<1>2. PICK b1 : b1 = convert_opposite_case_letters(buffer)
  OBVIOUS
<1>3. b1 \in Seq(Byte) /\ EndsAt(b1, n) /\ \A j \in 1 .. n : b1[j] = OppositeCase(buffer[j])
  BY <1>1, <1>2, Converted
<1>4. Len(text) = n /\ \A j \in 1 .. n : text[j] = b1[j]
  BY <1>2, <1>3, CStringIs
<1>5. Len(CString(buffer)) = n /\ \A j \in 1 .. n : CString(buffer)[j] = buffer[j]
  BY <1>1, CStringIs
<1>6. Answer(CString(buffer)) = [j \in 1 .. n |-> Caesar(OppositeCase(CString(buffer)[j]))]
  BY <1>5 DEF Answer
<1>7. \A j \in 1 .. n : Caesar(text[j]) = Caesar(OppositeCase(CString(buffer)[j]))
  BY <1>3, <1>4, <1>5
<1> QED
  BY <1>4, <1>6, <1>7

LEMMA NothingToDo ==
  ASSUME NEW buffer \in Seq(Byte), NEW i \in 1 .. Len(buffer), buffer[i] = NUL,
         NEW text, text = CString(buffer)
  PROVE  CString(caesar_cipher_1(buffer)) = [j \in 1 .. Len(text) |-> Caesar(text[j])]
<1>1. PICK n : EndsAt(buffer, n)
  BY FirstNul
<1>2. PICK b1 : b1 = caesar_cipher_1(buffer)
  OBVIOUS
<1>3. b1 \in Seq(Byte) /\ EndsAt(b1, n) /\ \A j \in 1 .. n : b1[j] = Caesar(buffer[j])
  BY <1>1, <1>2, Ciphered
<1>4. Len(text) = n /\ \A j \in 1 .. n : text[j] = buffer[j]
  BY <1>1, CStringIs
<1>5. PICK s : s = CString(b1)
  OBVIOUS
<1>6. s \in Seq(Byte) /\ Len(s) = n /\ n \in Nat /\ \A j \in 1 .. n : s[j] = b1[j]
  BY <1>3, <1>5, CStringIs
<1>7. s = [j \in 1 .. n |-> s[j]]
  BY <1>6
<1>8. \A j \in 1 .. n : s[j] = Caesar(text[j])
  BY <1>3, <1>4, <1>6
<1>9. s = [j \in 1 .. n |-> Caesar(text[j])]
  BY <1>7, <1>8
<1> QED
  BY <1>2, <1>4, <1>5, <1>9

-----------------------------------------------------------------------------
(* The answer to a string, to joined strings and to part of a string.      *)
LEMMA AnswerIs ==
  ASSUME NEW text \in Seq(Byte)
  PROVE  /\ Answer(text) \in Seq(Byte) /\ Len(Answer(text)) = Len(text) /\ Len(text) \in Nat
         /\ \A i \in 1 .. Len(text) :
              /\ Answer(text)[i] = Caesar(OppositeCase(text[i]))
              /\ text[i] \in Byte
              /\ Answer(text)[i] \in Letter <=> text[i] \in Letter
              /\ Answer(text)[i] = NUL <=> text[i] = NUL
<1>1. Len(text) \in Nat /\ \A i \in 1 .. Len(text) : text[i] \in Byte
  BY LenProperties, ElementOfSeq
<1>2. PICK f : f = [i \in 1 .. Len(text) |-> Caesar(OppositeCase(text[i]))]
  OBVIOUS
<1>3. \A i \in 1 .. Len(text) : f[i] \in Byte /\ (f[i] \in Letter <=> text[i] \in Letter) /\ (f[i] = NUL <=> text[i] = NUL)
  BY <1>1, <1>2, ByteConversions
<1>4. f \in Seq(Byte) /\ Len(f) = Len(text)
  <2>1. f = [i \in 1 .. Len(text) |-> f[i]]
    BY <1>2
  <2>2. f \in [1 .. Len(text) -> Byte]
    BY <1>2, <1>3
  <2> QED
    BY <1>1, <2>2, SeqDef, LenProperties
<1> QED
  BY <1>1, <1>2, <1>3, <1>4 DEF Answer

LEMMA AnswerJoined ==
  ASSUME NEW s \in Seq(Byte), NEW t \in Seq(Byte)
  PROVE  Answer(s \o t) = Answer(s) \o Answer(t)
<1>1. PICK w : w = s \o t
  OBVIOUS
<1>2. PICK a, b : a = Answer(s) /\ b = Answer(t)
  OBVIOUS
<1>3. /\ Len(s) \in Nat /\ Len(t) \in Nat /\ a \in Seq(Byte) /\ b \in Seq(Byte)
      /\ Len(a) = Len(s) /\ Len(b) = Len(t)
      /\ \A i \in 1 .. Len(s) : a[i] = Caesar(OppositeCase(s[i]))
      /\ \A i \in 1 .. Len(t) : b[i] = Caesar(OppositeCase(t[i]))
  BY <1>2, AnswerIs
<1>4. PICK v : v = a \o b
  OBVIOUS
<1>5. /\ w \in Seq(Byte) /\ Len(w) = Len(s) + Len(t)
      /\ \A i \in 1 .. Len(s) + Len(t) : w[i] = IF i <= Len(s) THEN s[i] ELSE t[i - Len(s)]
  BY <1>1, ConcatProperties
<1>6. /\ v \in Seq(Byte) /\ Len(v) = Len(s) + Len(t)
      /\ \A i \in 1 .. Len(s) + Len(t) : v[i] = IF i <= Len(s) THEN a[i] ELSE b[i - Len(s)]
  <2>1. a \in Seq(Byte) /\ b \in Seq(Byte)
    BY <1>3
  <2>2. /\ v \in Seq(Byte) /\ Len(v) = Len(a) + Len(b)
        /\ \A i \in 1 .. Len(a) + Len(b) : v[i] = IF i <= Len(a) THEN a[i] ELSE b[i - Len(a)]
    BY <1>4, <2>1, ConcatProperties
  <2>3. Len(a) = Len(s) /\ Len(b) = Len(t)
    BY <1>3
  <2> QED
    BY <2>2, <2>3
<1>7. PICK u : u = Answer(w)
  OBVIOUS
<1>8. /\ u \in Seq(Byte) /\ Len(u) = Len(s) + Len(t)
      /\ \A i \in 1 .. Len(s) + Len(t) : u[i] = Caesar(OppositeCase(w[i]))
  BY <1>5, <1>7, AnswerIs
<1>9. ASSUME NEW i \in 1 .. Len(s) + Len(t)
      PROVE  u[i] = v[i]
  <2>1. CASE i <= Len(s)
    <3>1. i \in 1 .. Len(s)
      BY <1>3, <2>1
    <3> QED
      BY <1>3, <1>5, <1>6, <1>8, <2>1, <3>1
  <2>2. CASE ~(i <= Len(s))
    <3>1. i - Len(s) \in 1 .. Len(t)
      BY <1>3, <2>2
    <3> QED
      BY <1>3, <1>5, <1>6, <1>8, <2>2, <3>1
  <2> QED
    BY <2>1, <2>2
<1>10. u = v
  BY <1>6, <1>8, <1>9, SeqEqual
<1> QED
  BY <1>1, <1>2, <1>4, <1>7, <1>10

LEMMA AnswerEmpty == Answer(<<>>) = <<>>
<1>1. <<>> \in Seq(Byte) /\ Len(<<>>) = 0
  BY EmptySeq
<1>2. Answer(<<>>) \in Seq(Byte) /\ Len(Answer(<<>>)) = 0
  BY <1>1, AnswerIs
<1> QED
  BY <1>2, EmptySeq

LEMMA WithinAnswers ==
  ASSUME NEW s \in Seq(Byte), NEW t \in Seq(Byte), LettersWithin(s, t)
  PROVE  LettersWithin(Answer(s), Answer(t))
<1>1. PICK f \in [LetterAt(s) -> LetterAt(t)] :
        /\ \A i \in LetterAt(s) : s[i] = t[f[i]]
        /\ \A i, j \in LetterAt(s) : i < j => f[i] < f[j]
  BY DEF LettersWithin
<1>2. PICK a, b : a = Answer(s) /\ b = Answer(t)
  OBVIOUS
<1>3. /\ LetterAt(a) = LetterAt(s) /\ LetterAt(b) = LetterAt(t)
      /\ \A i \in LetterAt(s) : a[i] = Caesar(OppositeCase(s[i]))
      /\ \A i \in LetterAt(t) : b[i] = Caesar(OppositeCase(t[i]))
  BY <1>2, AnswerIs DEF LetterAt
<1>4. \A i \in LetterAt(a) : a[i] = b[f[i]]
  BY <1>1, <1>3
<1>5. LettersWithin(a, b)
  BY <1>1, <1>3, <1>4 DEF LettersWithin
<1> QED
  BY <1>2, <1>5

LEMMA CutIs ==
  ASSUME NEW s \in Seq(Byte), NEW n \in Nat
  PROVE  /\ CutTo(s, n) \in Seq(Byte)
         /\ Len(CutTo(s, n)) = IF Len(s) < n THEN Len(s) ELSE n
         /\ Len(CutTo(s, n)) \in Nat /\ Len(CutTo(s, n)) <= Len(s) /\ Len(CutTo(s, n)) <= n
         /\ \A i \in 1 .. Len(CutTo(s, n)) : CutTo(s, n)[i] = s[i]
<1>1. Len(s) \in Nat /\ \A i \in 1 .. Len(s) : s[i] \in Byte
  BY LenProperties, ElementOfSeq
<1>2. PICK m \in Nat : m = (IF Len(s) < n THEN Len(s) ELSE n) /\ m <= Len(s) /\ m <= n
  BY <1>1
<1>3. PICK x : x = SubSeq(s, 1, m)
  OBVIOUS
<1>4. x \in Seq(Byte) /\ Len(x) = m /\ \A i \in 1 .. m : x[i] = s[i]
  <2>1. \A i \in 1 .. m : s[i] \in Byte
    BY <1>1, <1>2
  <2>2. x \in Seq(Byte) /\ Len(x) = (IF 1 <= m THEN m - 1 + 1 ELSE 0)
        /\ \A i \in 1 .. m - 1 + 1 : x[i] = s[1 + i - 1]
    BY <1>1, <1>2, <1>3, <2>1, SubSeqProperties
  <2>3. Len(x) = m
    BY <1>2, <2>2
  <2>4. \A i \in 1 .. m : i \in 1 .. m - 1 + 1 /\ 1 + i - 1 = i
    BY <1>2
  <2> QED
    BY <2>2, <2>3, <2>4
<1>5. CutTo(s, n) = x
  BY <1>2, <1>3 DEF CutTo
<1> QED
  BY <1>2, <1>4, <1>5

(* A part of an answer is the answer to that part.                         *)
LEMMA CutAnswer ==
  ASSUME NEW s \in Seq(Byte), NEW n \in Nat
  PROVE  CutTo(Answer(s), n) = Answer(CutTo(s, n))
<1>1. PICK a : a = Answer(s)
  OBVIOUS
<1>2. a \in Seq(Byte) /\ Len(a) = Len(s) /\ \A i \in 1 .. Len(s) : a[i] = Caesar(OppositeCase(s[i]))
  BY <1>1, AnswerIs
<1>3. PICK x, y : x = CutTo(a, n) /\ y = CutTo(s, n)
  OBVIOUS
<1>4. /\ x \in Seq(Byte) /\ y \in Seq(Byte) /\ Len(x) = Len(y) /\ Len(y) \in Nat /\ Len(y) <= Len(s)
      /\ \A i \in 1 .. Len(y) : x[i] = a[i] /\ y[i] = s[i]
  BY <1>2, <1>3, CutIs
<1>5. PICK z : z = Answer(y)
  OBVIOUS
<1>6. z \in Seq(Byte) /\ Len(z) = Len(y) /\ \A i \in 1 .. Len(y) : z[i] = Caesar(OppositeCase(y[i]))
  BY <1>4, <1>5, AnswerIs
<1>7. Len(s) \in Nat
  BY LenProperties
<1>8. \A i \in 1 .. Len(y) : i \in 1 .. Len(s)
  BY <1>4, <1>7
<1>9. \A i \in 1 .. Len(y) : x[i] = z[i]
  BY <1>2, <1>4, <1>6, <1>8
<1>10. x = z
  BY <1>4, <1>6, <1>9, SeqEqual
<1> QED
  BY <1>1, <1>3, <1>5, <1>10

(* What strlen finds in the memory that a message was received into: as    *)
(* far as the message goes, none but letters of the message, if not all.   *)
LEMMA StringOfReceived ==
  ASSUME NEW bytes \in Seq(Byte), NEW rest \in Unwritten(bytes)
  PROVE  /\ bytes \o rest \in Seq(Byte)
         /\ \E i \in 1 .. Len(bytes \o rest) : (bytes \o rest)[i] = NUL
         /\ CString(bytes \o rest) \in Seq(Byte)
         /\ LettersWithin(CutTo(CString(bytes \o rest), Len(bytes)), bytes)
<1>1. PICK w : w = bytes \o rest
  OBVIOUS
<1>2. /\ rest \in Seq(Byte) /\ Len(rest) \in Nat
      /\ \/ Len(rest) = 0 /\ \E i \in 1 .. Len(bytes) : bytes[i] = NUL
         \/ Len(rest) > 0 /\ rest[Len(rest)] = NUL
  <2>1. CASE rest = <<>> /\ \E i \in 1 .. Len(bytes) : bytes[i] = NUL
    BY <2>1, EmptySeq
  <2>2. CASE Len(rest) \in Nat \ {0} /\ rest[Len(rest)] = NUL
    BY <2>2, UnwrittenEnds
  <2> QED
    BY <2>1, <2>2, UnwrittenEnds
<1>3. /\ w \in Seq(Byte) /\ Len(w) = Len(bytes) + Len(rest) /\ Len(bytes) \in Nat
      /\ \A i \in 1 .. Len(bytes) + Len(rest) : w[i] = IF i <= Len(bytes) THEN bytes[i] ELSE rest[i - Len(bytes)]
  BY <1>1, <1>2, ConcatProperties, LenProperties
<1>4. \E i \in 1 .. Len(w) : w[i] = NUL
  <2>1. CASE \E i \in 1 .. Len(bytes) : bytes[i] = NUL
    BY <1>2, <1>3, <2>1
  <2>2. CASE Len(rest) > 0 /\ rest[Len(rest)] = NUL
    <3>1. PICK i : i = Len(bytes) + Len(rest)
      OBVIOUS
    <3>2. i \in 1 .. Len(w) /\ ~(i <= Len(bytes)) /\ i - Len(bytes) = Len(rest)
      BY <1>2, <1>3, <2>2, <3>1
    <3>3. w[i] = rest[i - Len(bytes)]
      BY <1>3, <3>2
    <3> QED
      BY <2>2, <3>2, <3>3
  <2> QED
    BY <1>2, <2>1, <2>2
<1>5. PICK n : EndsAt(w, n)
  BY <1>3, <1>4, FirstNul
<1>6. PICK s : s = CString(w)
  OBVIOUS
<1>7. s \in Seq(Byte) /\ Len(s) = n /\ n \in Nat /\ n < Len(w) /\ \A i \in 1 .. n : s[i] = w[i]
  BY <1>3, <1>5, <1>6, CStringIs
<1>8. PICK x : x = CutTo(s, Len(bytes))
  OBVIOUS
<1>9. /\ Len(x) \in Nat /\ Len(x) <= n /\ Len(x) <= Len(bytes)
       /\ \A i \in 1 .. Len(x) : x[i] = s[i]
  BY <1>3, <1>7, <1>8, CutIs
<1>10. \A i \in 1 .. Len(x) : i \in 1 .. Len(bytes) /\ x[i] = bytes[i]
  <2>1. ASSUME NEW i \in 1 .. Len(x) PROVE i \in 1 .. Len(bytes) /\ x[i] = bytes[i]
    <3>1. i \in 1 .. n /\ i \in 1 .. Len(bytes) /\ i \in 1 .. Len(bytes) + Len(rest) /\ i <= Len(bytes)
      BY <1>2, <1>3, <1>7, <1>9
    <3>2. x[i] = s[i] /\ s[i] = w[i]
      BY <1>7, <1>9, <3>1
    <3>3. w[i] = bytes[i]
      BY <1>3, <3>1
    <3> QED
      BY <3>1, <3>2, <3>3
  <2> QED
    BY <2>1
<1> DEFINE f == [i \in LetterAt(x) |-> i]
<1>11. f \in [LetterAt(x) -> LetterAt(bytes)] /\ \A i \in LetterAt(x) : x[i] = bytes[f[i]]
  BY <1>10 DEF LetterAt
<1>12. \A i, j \in LetterAt(x) : i < j => f[i] < f[j]
  OBVIOUS
<1>13. LettersWithin(x, bytes)
  BY <1>11, <1>12 DEF LettersWithin
<1> QED
  BY <1>1, <1>3, <1>4, <1>6, <1>7, <1>8, <1>13

(* No stage is ahead of the one before it.                                 *)
LEMMA Stages ==
  ASSUME PlacesInv, NEW c \in Clients, InTurn(c)
  PROVE  /\ Answered(c) \in Nat /\ CipheredUpTo(c) \in Nat /\ TakenToCipher(c) \in Nat
         /\ ConvertedUpTo(c) \in Nat /\ TakenToConvert(c) \in Nat /\ Len(heap[c]) \in Nat
         /\ Answered(c) <= CipheredUpTo(c) /\ CipheredUpTo(c) <= TakenToCipher(c)
         /\ TakenToCipher(c) <= ConvertedUpTo(c) /\ ConvertedUpTo(c) <= TakenToConvert(c)
         /\ TakenToConvert(c) <= Len(heap[c])
<1>1. PICK h \in Nat, l2 \in Nat, l3 \in Nat, i1 \in {0, 1}, i2 \in {0, 1}, i3 \in {0, 1} :
        /\ h = Len(heap[c]) /\ l2 = Len(queue[<<"q2", c>>]) /\ l3 = Len(queue[<<"q3", c>>])
        /\ i1 = InHand(<<"listen", c>>) /\ i2 = InHand(<<"convert", c>>) /\ i3 = InHand(<<"cipher", c>>)
  BY Counts DEF Roles
<1>2. PICK b2 \in {0, 1}, b3 \in {0, 1} :
        /\ b2 = (IF At(<<"convert", c>>, "before") THEN 1 ELSE 0)
        /\ b3 = (IF At(<<"cipher", c>>, "before") THEN 1 ELSE 0)
  OBVIOUS
<1>3. b2 <= i2 /\ b3 <= i3
  BY <1>1, <1>2 DEF InHand, At, Working
<1>4. PICK w, z, v, y, a : w = TakenToConvert(c) /\ z = TakenToCipher(c) /\ v = ConvertedUpTo(c)
        /\ y = CipheredUpTo(c) /\ a = Answered(c)
  OBVIOUS
<1>5. w = (h - i1) - l2 /\ z = (w - i2) - l3 /\ a = z - i3
  BY <1>1, <1>4 DEF TakenToConvert, Listened, TakenToCipher, HandedOn, Answered
<1>6. v = w - b2 /\ y = z - b3
  BY <1>2, <1>4 DEF ConvertedUpTo, CipheredUpTo
<1>7. a \in Nat
  BY <1>4 DEF InTurn
<1>8. w \in Int /\ z \in Int /\ v \in Int /\ y \in Int
  BY <1>5, <1>6
<1>9. a <= y /\ y <= z /\ z <= v /\ v <= w /\ w <= h
  BY <1>3, <1>5, <1>6, <1>8
<1>10. y \in Nat /\ z \in Nat /\ v \in Nat /\ w \in Nat
  BY <1>7, <1>8, <1>9
<1> QED
  BY <1>1, <1>4, <1>7, <1>9, <1>10

(* What a capsule will be sent as.                                         *)
LEMMA Ciphering ==
  ASSUME NEW text \in Seq(Byte)
  PROVE  [i \in 1 .. Len(text) |-> Caesar(text[i])] \in Seq(Byte)
<1>1. Len(text) \in Nat /\ \A i \in 1 .. Len(text) : text[i] \in Byte
  BY LenProperties, ElementOfSeq
<1>2. \A i \in 1 .. Len(text) : Caesar(text[i]) \in Byte
  BY <1>1, ByteConversions
<1>3. PICK f : f = [i \in 1 .. Len(text) |-> Caesar(text[i])]
  OBVIOUS
<1>4. f \in [1 .. Len(text) -> Byte]
  BY <1>2, <1>3
<1> QED
  BY <1>1, <1>3, <1>4, SeqDef

LEMMA Buffers ==
  ASSUME PlacesInv, NEW c \in Clients, NEW k \in 1 .. Len(heap[c])
  PROVE  /\ heap[c][k] \in Capsule /\ heap[c][k].buffer \in Seq(Byte)
         /\ \E i \in 1 .. Len(heap[c][k].buffer) : heap[c][k].buffer[i] = NUL
         /\ CString(heap[c][k].buffer) \in Seq(Byte)
<1>1. heap[c] \in Seq(Capsule) /\ heap[c][k] \in Capsule
  BY ElementOfSeq DEF PlacesInv, TypeOK
<1>2. heap[c][k].buffer \in Seq(Byte)
  BY <1>1 DEF Capsule
<1>3. PICK i \in 1 .. Len(heap[c][k].buffer) : heap[c][k].buffer[i] = NUL
  BY DEF PlacesInv, BuffersEnd
<1>4. PICK buffer : buffer = heap[c][k].buffer
  OBVIOUS
<1>5. CString(buffer) \in Seq(Byte)
  BY <1>2, <1>3, <1>4, FirstNul, CStringIs
<1> QED
  BY <1>1, <1>2, <1>3, <1>4, <1>5

LEMMA RepliesTypes ==
  ASSUME PlacesInv, NEW c \in Clients
  PROVE  /\ \A k \in 1 .. Len(heap[c]) : Reply(c, k) \in Seq(Byte) /\ Replies(c)[k] = Reply(c, k)
         /\ Replies(c) \in Seq(Seq(Byte)) /\ Len(Replies(c)) = Len(heap[c])
<1>1. ASSUME NEW k \in 1 .. Len(heap[c]) PROVE Reply(c, k) \in Seq(Byte)
  <2>1. PICK text \in Seq(Byte) : text = CString(heap[c][k].buffer)
    BY Buffers
  <2>2. [i \in 1 .. Len(text) |-> Caesar(text[i])] \in Seq(Byte) /\ Answer(text) \in Seq(Byte)
    BY Ciphering, AnswerIs
  <2> QED
    BY <2>1, <2>2 DEF Reply
<1>2. PICK f : f = Replies(c)
  OBVIOUS
<1>3. Len(heap[c]) \in Nat
  BY Counts
<1>4. f \in [1 .. Len(heap[c]) -> Seq(Byte)]
  BY <1>1, <1>2 DEF Replies
<1>5. f \in Seq(Seq(Byte)) /\ Len(f) = Len(heap[c])
  BY <1>3, <1>4, SeqDef, LenProperties
<1>6. \A k \in 1 .. Len(heap[c]) : f[k] = Reply(c, k)
  BY <1>2 DEF Replies
<1> QED
  BY <1>1, <1>2, <1>5, <1>6

LEMMA OwnRepliesTypes ==
  ASSUME PlacesInv, NEW c \in Clients
  PROVE  /\ \A k \in 1 .. Len(heap[c]) :
               heap[c][k].received \in Nat /\ OwnPart(c, k) \in Seq(Byte) /\ OwnReplies(c)[k] = OwnPart(c, k)
         /\ OwnReplies(c) \in Seq(Seq(Byte)) /\ Len(OwnReplies(c)) = Len(heap[c])
<1>1. ASSUME NEW k \in 1 .. Len(heap[c]) PROVE heap[c][k].received \in Nat /\ OwnPart(c, k) \in Seq(Byte)
  <2>1. heap[c][k].received \in Nat
    BY Buffers DEF Capsule
  <2>2. Reply(c, k) \in Seq(Byte)
    BY RepliesTypes
  <2> QED
    BY <2>1, <2>2, CutIs DEF OwnPart
<1>2. PICK f : f = OwnReplies(c)
  OBVIOUS
<1>3. Len(heap[c]) \in Nat
  BY Counts
<1>4. f \in [1 .. Len(heap[c]) -> Seq(Byte)]
  BY <1>1, <1>2 DEF OwnReplies
<1>5. f \in Seq(Seq(Byte)) /\ Len(f) = Len(heap[c])
  BY <1>3, <1>4, SeqDef, LenProperties
<1>6. \A k \in 1 .. Len(heap[c]) : f[k] = OwnPart(c, k)
  BY <1>2 DEF OwnReplies
<1> QED
  BY <1>1, <1>2, <1>5, <1>6

(* The flattening of a prefix is a prefix of the flattening.               *)
LEMMA PrefixOneLonger ==
  ASSUME NEW S, NEW ss \in Seq(S), NEW m \in 1 .. Len(ss)
  PROVE  /\ SubSeq(ss, 1, m - 1) \in Seq(S) /\ ss[m] \in S
         /\ SubSeq(ss, 1, m) = Append(SubSeq(ss, 1, m - 1), ss[m])
<1>1. Len(ss) \in Nat /\ m \in Nat /\ m - 1 \in Nat /\ m - 1 <= Len(ss) /\ m <= Len(ss)
  BY LenProperties
<1>2. \A i \in 1 .. Len(ss) : ss[i] \in S
  BY ElementOfSeq
<1>3. PICK p, q : p = SubSeq(ss, 1, m - 1) /\ q = SubSeq(ss, 1, m)
  OBVIOUS
<1>4. p \in Seq(S) /\ Len(p) = m - 1 /\ \A i \in 1 .. m - 1 : p[i] = ss[i]
  <2>1. \A i \in 1 .. m - 1 : ss[i] \in S
    BY <1>1, <1>2
  <2>2. p \in Seq(S) /\ Len(p) = (IF 1 <= m - 1 THEN m - 1 - 1 + 1 ELSE 0)
        /\ \A i \in 1 .. m - 1 - 1 + 1 : p[i] = ss[1 + i - 1]
    BY <1>1, <1>3, <2>1, SubSeqProperties
  <2>3. Len(p) = m - 1
    BY <1>1, <2>2
  <2>4. \A i \in 1 .. m - 1 : i \in 1 .. m - 1 - 1 + 1 /\ 1 + i - 1 = i
    BY <1>1
  <2> QED
    BY <2>2, <2>3, <2>4
<1>5. q \in Seq(S) /\ Len(q) = m /\ \A i \in 1 .. m : q[i] = ss[i]
  <2>1. \A i \in 1 .. m : ss[i] \in S
    BY <1>1, <1>2
  <2>2. q \in Seq(S) /\ Len(q) = m - 1 + 1 /\ \A i \in 1 .. m - 1 + 1 : q[i] = ss[1 + i - 1]
    BY <1>1, <1>3, <2>1, SubSeqProperties
  <2>3. \A i \in 1 .. m : i \in 1 .. m - 1 + 1 /\ 1 + i - 1 = i
    BY <1>1
  <2> QED
    BY <1>1, <2>2, <2>3
<1>6. PICK a : a = Append(p, ss[m])
  OBVIOUS
<1>7. /\ a \in Seq(S) /\ Len(a) = m /\ a[m] = ss[m] /\ \A i \in 1 .. m - 1 : a[i] = ss[i]
  <2>1. ss[m] \in S
    BY <1>2
  <2>2. a \in Seq(S) /\ Len(a) = Len(p) + 1 /\ a[Len(p) + 1] = ss[m] /\ \A i \in 1 .. Len(p) : a[i] = p[i]
    BY <1>4, <1>6, <2>1, AppendProperties
  <2>3. Len(p) = m - 1 /\ Len(p) + 1 = m
    BY <1>1, <1>4
  <2> QED
    BY <1>4, <2>2, <2>3
<1>8. \A i \in 1 .. m : i \in 1 .. m - 1 \/ i = m
  BY <1>1
<1>9. a = q
  BY <1>5, <1>7, <1>8, SeqEqual
<1> QED
  BY <1>2, <1>3, <1>4, <1>6, <1>9

LEMMA FlattenedPrefix ==
  ASSUME NEW ss \in Seq(Seq(Byte)), NEW n \in 0 .. Len(ss)
  PROVE  LettersWithin(Seqs!FlattenSeq(SubSeq(ss, 1, n)), Seqs!FlattenSeq(ss))
<1> DEFINE Flat(m) == Seqs!FlattenSeq(SubSeq(ss, 1, m))
           Bad == {m \in n .. Len(ss) : ~LettersWithin(Flat(n), Flat(m))}
<1>1. Len(ss) \in Nat /\ n \in Nat
  BY LenProperties
<1>2. SubSeq(ss, 1, Len(ss)) = ss
  BY SubSeqFull
<1>3. Bad = {}
  <2>1. ASSUME NEW b \in Bad PROVE FALSE
    <3>1. Bad \subseteq Nat
      BY <1>1
    <3>2. PICK m \in Bad : \A k \in Bad : m <= k
      BY <2>1, <3>1, LeastNatural
    <3>3. m # n
      BY <3>2, WithinItself
    <3>4. m \in 1 .. Len(ss) /\ m - 1 \in n .. Len(ss)
      BY <1>1, <3>2, <3>3
    <3>5. LettersWithin(Flat(n), Flat(m - 1))
      BY <1>1, <3>2, <3>4
    <3>6. /\ SubSeq(ss, 1, m - 1) \in Seq(Seq(Byte)) /\ ss[m] \in Seq(Byte)
          /\ SubSeq(ss, 1, m) = Append(SubSeq(ss, 1, m - 1), ss[m])
      BY <3>4, PrefixOneLonger
    <3>7. Flat(m) = Flat(m - 1) \o ss[m] /\ Flat(m - 1) \in Seq(Byte)
      BY <3>6, FlattenAppend
    <3> HIDE DEF Flat
    <3>8. LettersWithin(Flat(m - 1), Flat(m))
      BY <3>6, <3>7, WithinLonger
    <3>9. LettersWithin(Flat(n), Flat(m))
      BY <3>5, <3>8, WithinTransitive
    <3> QED
      BY <3>2, <3>9
  <2> QED
    BY <2>1
<1>4. LettersWithin(Flat(n), Flat(Len(ss)))
  BY <1>1, <1>3
<1> QED
  BY <1>2, <1>4

-----------------------------------------------------------------------------
(* What the steps make of the replies to come.                             *)

LEMMA SameReplies ==
  ASSUME NEW d \in Clients, heap'[d] = heap[d],
         ConvertedUpTo(d)' = ConvertedUpTo(d), CipheredUpTo(d)' = CipheredUpTo(d)
  PROVE  Replies(d)' = Replies(d)
BY DEF Replies, Reply

LEMMA SameOwnReplies ==
  ASSUME NEW d \in Clients, Replies(d)' = Replies(d), Len(heap'[d]) = Len(heap[d]),
         \A k \in 1 .. Len(heap[d]) : heap'[d][k].received = heap[d][k].received
  PROVE  OwnReplies(d)' = OwnReplies(d)
<1>1. PICK n : n = Len(heap[d])
  OBVIOUS
<1>2. \A k \in 1 .. n : Reply(d, k)' = Reply(d, k)
  <2>1. Replies(d)' = [k \in 1 .. n |-> Reply(d, k)'] /\ Replies(d) = [k \in 1 .. n |-> Reply(d, k)]
    BY <1>1 DEF Replies
  <2>2. ASSUME NEW k \in 1 .. n PROVE Reply(d, k)' = Reply(d, k)
    <3>1. Replies(d)'[k] = Reply(d, k)' /\ Replies(d)[k] = Reply(d, k)
      BY <2>1
    <3> QED
      BY <3>1
  <2> QED
    BY <2>2
<1>3. \A k \in 1 .. n : OwnPart(d, k)' = OwnPart(d, k)
  BY <1>1, <1>2 DEF OwnPart
<1> QED
  BY <1>1, <1>3 DEF OwnReplies

(* A conversion in place is the next step of what was to be done anyway.   *)
LEMMA BeforeKeepsReplies ==
  ASSUME PlacesInv, NEW t \in ActiveObjects, NEW c, c = t[2], Before(t), InTurn(c), OwnCapsules(c)
  PROVE  Replies(c)' = Replies(c) /\ OwnReplies(c)' = OwnReplies(c)
<1>1. PICK k : k = IF t[1] = "convert" THEN TakenToConvert(c) ELSE TakenToCipher(c)
  OBVIOUS
<1>2. /\ c \in Clients /\ t = <<t[1], c>> /\ t[1] \in {"convert", "cipher"} /\ t \in Threads
      /\ TakenToConvert(c)' = TakenToConvert(c) /\ TakenToCipher(c)' = TakenToCipher(c)
      /\ thread[t].at = "before" /\ thread'[t].at = "after"
      /\ \A u \in Threads : u # t => thread'[u] = thread[u]
      /\ k \in 1 .. Len(heap[c]) /\ Len(heap'[c]) = Len(heap[c])
      /\ heap'[c][k].buffer = BeforeFunc(t[1], heap[c][k].buffer)
      /\ \A j \in 1 .. Len(heap[c]) : j # k => heap'[c][j] = heap[c][j]
  BY <1>1, BeforeInTurn
<1>3. /\ CipheredUpTo(c) \in Nat /\ TakenToCipher(c) \in Nat /\ ConvertedUpTo(c) \in Nat
      /\ TakenToConvert(c) \in Nat /\ Len(heap[c]) \in Nat /\ CipheredUpTo(c) <= TakenToCipher(c)
      /\ TakenToCipher(c) <= ConvertedUpTo(c) /\ ConvertedUpTo(c) <= TakenToConvert(c)
  BY <1>2, Stages
<1>4. PICK buffer : buffer = heap[c][k].buffer
  OBVIOUS
<1>5. buffer \in Seq(Byte) /\ \E i \in 1 .. Len(buffer) : buffer[i] = NUL
  BY <1>2, <1>4, Buffers
<1>6. PICK i \in 1 .. Len(buffer) : buffer[i] = NUL
  BY <1>5
<1>7. <<"convert", c>> \in Threads /\ <<"cipher", c>> \in Threads /\ <<"convert", c>> # <<"cipher", c>>
  BY <1>2 DEF Threads, Roles
<1>8. ASSUME NEW j \in 1 .. Len(heap[c]) PROVE Reply(c, j)' = Reply(c, j)
  <2>1. CASE t[1] = "convert"
    <3>1. /\ thread[<<"convert", c>>].at = "before" /\ thread'[<<"convert", c>>].at = "after"
          /\ thread'[<<"cipher", c>>] = thread[<<"cipher", c>>] /\ k = TakenToConvert(c)
      BY <1>1, <1>2, <1>7, <2>1
    <3>2. ConvertedUpTo(c) = k - 1 /\ ConvertedUpTo(c)' = k - 0
      BY <1>2, <3>1 DEF ConvertedUpTo, At
    <3>3. CipheredUpTo(c)' = CipheredUpTo(c)
      BY <1>2, <3>1 DEF CipheredUpTo, At
    <3>4. CASE j # k
      <4>1. heap'[c][j] = heap[c][j] /\ (j <= k <=> j <= k - 1)
        BY <1>2, <1>3, <3>4
      <4>2. j <= CipheredUpTo(c)' <=> j <= CipheredUpTo(c)
        BY <3>3
      <4>3. j <= ConvertedUpTo(c)' <=> j <= ConvertedUpTo(c)
        BY <1>2, <3>2, <4>1
      <4> QED
        BY <4>1, <4>2, <4>3 DEF Reply
    <3>5. CASE j = k
      <4>1. ~(k <= CipheredUpTo(c)) /\ ~(k <= ConvertedUpTo(c)) /\ k <= ConvertedUpTo(c)'
        BY <1>2, <1>3, <3>2
      <4>2. Reply(c, j) = Answer(CString(buffer))
        BY <1>4, <3>5, <4>1 DEF Reply
      <4>3. PICK text : text = CString(convert_opposite_case_letters(buffer))
        OBVIOUS
      <4>4. CString(heap'[c][k].buffer) = text
        BY <1>2, <1>4, <2>1, <4>3 DEF BeforeFunc
      <4>5. Reply(c, j)' = [n \in 1 .. Len(text) |-> Caesar(text[n])]
        BY <3>3, <3>5, <4>1, <4>4 DEF Reply
      <4> QED
        BY <1>5, <1>6, <4>2, <4>3, <4>5, StillToCipher
    <3> QED
      BY <3>4, <3>5
  <2>2. CASE t[1] = "cipher"
    <3>1. /\ thread[<<"cipher", c>>].at = "before" /\ thread'[<<"cipher", c>>].at = "after"
          /\ thread'[<<"convert", c>>] = thread[<<"convert", c>>] /\ k = TakenToCipher(c)
      BY <1>1, <1>2, <1>7, <2>2
    <3>2. CipheredUpTo(c) = k - 1 /\ CipheredUpTo(c)' = k - 0
      BY <1>2, <3>1 DEF CipheredUpTo, At
    <3>3. ConvertedUpTo(c)' = ConvertedUpTo(c)
      BY <1>2, <3>1 DEF ConvertedUpTo, At
    <3>4. CASE j # k
      <4>1. heap'[c][j] = heap[c][j] /\ (j <= k <=> j <= k - 1)
        BY <1>2, <1>3, <3>4
      <4>2. j <= ConvertedUpTo(c)' <=> j <= ConvertedUpTo(c)
        BY <3>3
      <4>3. j <= CipheredUpTo(c)' <=> j <= CipheredUpTo(c)
        BY <1>2, <3>2, <4>1
      <4> QED
        BY <4>1, <4>2, <4>3 DEF Reply
    <3>5. CASE j = k
      <4>1. ~(k <= CipheredUpTo(c)) /\ k <= ConvertedUpTo(c) /\ k <= CipheredUpTo(c)'
        BY <1>2, <1>3, <3>1, <3>2
      <4>2. PICK text : text = CString(buffer)
        OBVIOUS
      <4>3. Reply(c, j) = [n \in 1 .. Len(text) |-> Caesar(text[n])]
        BY <1>4, <3>5, <4>1, <4>2 DEF Reply
      <4>4. Reply(c, j)' = CString(heap'[c][k].buffer)
        BY <3>5, <4>1 DEF Reply
      <4>5. heap'[c][k].buffer = caesar_cipher_1(buffer)
        BY <1>2, <1>4, <2>2 DEF BeforeFunc
      <4>6. CString(caesar_cipher_1(buffer)) = [n \in 1 .. Len(text) |-> Caesar(text[n])]
        BY <1>5, <1>6, <4>2, NothingToDo
      <4> QED
        BY <4>3, <4>4, <4>5, <4>6
    <3> QED
      BY <3>4, <3>5
  <2> QED
    BY <1>2, <2>1, <2>2
<1>9. Replies(c)' = [j \in 1 .. Len(heap[c]) |-> Reply(c, j)']
  BY <1>2 DEF Replies
<1>10. Replies(c)' = Replies(c)
  BY <1>8, <1>9 DEF Replies
<1>11. heap'[c][k].received = heap[c][k].received
  BY <1>1, BeforeInTurn
<1>12. \A j \in 1 .. Len(heap[c]) : heap'[c][j].received = heap[c][j].received
  BY <1>2, <1>11
<1> QED
  BY <1>2, <1>10, <1>12, SameOwnReplies

(* Taking a capsule, handing it on and starting a thread change none.      *)
LEMMA QuietReplies ==
  ASSUME PlacesInv, OrderInv,
         \/ StartThread \/ \E c \in Clients : Accept(c) \/ ListenFails(c) \/ ListenEnQ(c)
         \/ \E t \in ActiveObjects : DeQ(t) \/ Before(t) \/ insert_to_queue(t)
  PROVE  /\ UNCHANGED <<alive, networkVars, clientVars>>
         /\ \A d \in Clients : /\ Replies(d)' = Replies(d) /\ Answered(d)' = Answered(d)
                               /\ OwnReplies(d)' = OwnReplies(d) /\ Len(heap'[d]) = Len(heap[d])
<1>1. \A d \in Clients : InTurn(d) /\ OwnCapsules(d)
  BY DEF OrderInv, Orderly
<1>2. ASSUME StartThread \/ \E c \in Clients : Accept(c) \/ ListenFails(c)
      PROVE  /\ UNCHANGED <<heap, alive, networkVars, clientVars>>
             /\ \A d \in Clients : Replies(d)' = Replies(d) /\ Answered(d)' = Answered(d)
  <2>1. UNCHANGED <<queue, heap, alive, networkVars, clientVars>> /\ alive
    BY <1>2 DEF StartThread, Accept, ListenFails
  <2>2. \A u \in Threads : /\ thread'[u].capsule = thread[u].capsule
                           /\ thread'[u].at \in Working <=> thread[u].at \in Working
                           /\ thread'[u].at = "before" <=> thread[u].at = "before"
    <3>1. CASE StartThread
      <4>1. PICK s : s = <<main.at, main.conn>>
        OBVIOUS
      <4>2. thread' = [thread EXCEPT ![s] = [thread[s] EXCEPT !.at = FirstPoint(main.at)]]
        BY <3>1, <4>1 DEF StartThread
      <4>3. s \in Threads /\ thread[s].at = "none"
        BY <3>1, <4>1 DEF StartThread, PlacesInv, StartedOnce, Threads
      <4> QED
        BY <4>2, <4>3 DEF PlacesInv, TypeOK, FirstPoint, Working
    <3>2. CASE \E c \in Clients : Accept(c)
      BY <3>2 DEF Accept
    <3>3. CASE \E c \in Clients : ListenFails(c)
      <4>1. PICK c \in Clients : ListenFails(c)
        BY <3>3
      <4>2. PICK s : s = <<"listen", c>>
        OBVIOUS
      <4>3. /\ thread' = [thread EXCEPT ![s] = [thread[s] EXCEPT !.at = "done"]]
            /\ thread[s].at = "recv" /\ s \in Threads
        BY <4>1, <4>2 DEF ListenFails, Moves, At, Threads, Roles
      <4> QED
        BY <4>3 DEF PlacesInv, TypeOK, Working
    <3> QED
      BY <1>2, <3>1, <3>2, <3>3
  <2>3. ASSUME NEW d \in Clients
        PROVE  Replies(d)' = Replies(d) /\ Answered(d)' = Answered(d)
    <3>1. \A r \in Roles : <<r, d>> \in Threads
      BY DEF Threads
    <3>2. /\ Answered(d)' = Answered(d) /\ TakenToConvert(d)' = TakenToConvert(d)
          /\ TakenToCipher(d)' = TakenToCipher(d)
      BY <1>1, <2>1, <2>2, <3>1, SameHandsInTurn
    <3>3. ConvertedUpTo(d)' = ConvertedUpTo(d) /\ CipheredUpTo(d)' = CipheredUpTo(d)
      BY <2>2, <3>1, <3>2 DEF ConvertedUpTo, CipheredUpTo, At, Roles
    <3> QED
      BY <2>1, <3>2, <3>3, SameReplies
  <2> QED
    BY <2>1, <2>3
<1>3. ASSUME NEW c \in Clients, ListenEnQ(c)
      PROVE  /\ UNCHANGED <<heap, alive, networkVars, clientVars>>
             /\ \A d \in Clients : Replies(d)' = Replies(d) /\ Answered(d)' = Answered(d)
  <2>1. UNCHANGED <<heap, alive, networkVars, clientVars>>
    BY <1>3 DEF ListenEnQ
  <2>2. /\ Answered(c)' = Answered(c) /\ TakenToConvert(c)' = TakenToConvert(c)
        /\ TakenToCipher(c)' = TakenToCipher(c) /\ \A d \in Clients : d # c => Untouched(d)
        /\ thread'[<<"convert", c>>] = thread[<<"convert", c>>]
        /\ thread'[<<"cipher", c>>] = thread[<<"cipher", c>>]
    BY <1>1, <1>3, ListenEnQInTurn
  <2>3. ConvertedUpTo(c)' = ConvertedUpTo(c) /\ CipheredUpTo(c)' = CipheredUpTo(c)
    BY <2>2 DEF ConvertedUpTo, CipheredUpTo, At
  <2> QED
    BY <1>1, <2>1, <2>2, <2>3, SameReplies, ElsewhereInTurn
<1>4. ASSUME NEW t \in ActiveObjects, DeQ(t) \/ insert_to_queue(t)
      PROVE  /\ UNCHANGED <<heap, alive, networkVars, clientVars>>
             /\ \A d \in Clients : Replies(d)' = Replies(d) /\ Answered(d)' = Answered(d)
  <2>1. UNCHANGED <<heap, alive, networkVars, clientVars>>
    BY <1>4 DEF DeQ, insert_to_queue
  <2>2. PICK c : c = t[2] /\ c \in Clients
    BY DEF ActiveObjects
  <2>3. /\ Answered(c)' = Answered(c) /\ \A d \in Clients : d # c => Untouched(d)
        /\ ConvertedUpTo(c)' = ConvertedUpTo(c) /\ CipheredUpTo(c)' = CipheredUpTo(c)
    <3>1. CASE DeQ(t)
      BY <1>1, <2>2, <3>1, DeQInTurn
    <3>2. CASE insert_to_queue(t)
      <4>1. /\ Answered(c)' = Answered(c) /\ \A d \in Clients : d # c => Untouched(d)
            /\ TakenToConvert(c)' = TakenToConvert(c) /\ TakenToCipher(c)' = TakenToCipher(c)
            /\ thread'[<<"cipher", c>>] = thread[<<"cipher", c>>]
            /\ thread'[<<"convert", c>>].at # "before" /\ thread[<<"convert", c>>].at # "before"
        BY <1>1, <2>2, <3>2, InsertInTurn
      <4> QED
        BY <4>1 DEF ConvertedUpTo, CipheredUpTo, At
    <3> QED
      BY <1>4, <3>1, <3>2
  <2> QED
    BY <1>1, <2>1, <2>2, <2>3, SameReplies, ElsewhereInTurn
<1>5. ASSUME NEW t \in ActiveObjects, Before(t)
      PROVE  /\ UNCHANGED <<alive, networkVars, clientVars>>
             /\ \A d \in Clients : /\ Replies(d)' = Replies(d) /\ Answered(d)' = Answered(d)
                                   /\ OwnReplies(d)' = OwnReplies(d) /\ Len(heap'[d]) = Len(heap[d])
  <2>1. UNCHANGED <<alive, networkVars, clientVars>>
    BY <1>5 DEF Before
  <2>2. PICK c : c = t[2] /\ c \in Clients
    BY DEF ActiveObjects
  <2>3. /\ Answered(c)' = Answered(c) /\ \A d \in Clients : d # c => Untouched(d)
        /\ Len(heap'[c]) = Len(heap[c])
    BY <1>1, <1>5, <2>2, BeforeInTurn
  <2>4. Replies(c)' = Replies(c) /\ OwnReplies(c)' = OwnReplies(c)
    BY <1>1, <1>5, <2>2, BeforeKeepsReplies
  <2>5. \A d \in Clients : d # c => heap'[d] = heap[d]
    BY <2>3 DEF Untouched
  <2>6. \A d \in Clients : /\ Replies(d)' = Replies(d) /\ Answered(d)' = Answered(d)
                            /\ Len(heap'[d]) = Len(heap[d])
    BY <1>1, <2>1, <2>3, <2>4, <2>5, ElsewhereInTurn
  <2>7. \A d \in Clients : d # c => OwnReplies(d)' = OwnReplies(d)
    BY <2>3, ElsewhereInTurn
  <2> QED
    BY <2>1, <2>4, <2>6, <2>7
<1>6. heap' = heap /\ (\A d \in Clients : Replies(d)' = Replies(d))
        => \A d \in Clients : OwnReplies(d)' = OwnReplies(d) /\ Len(heap'[d]) = Len(heap[d])
  BY SameOwnReplies
<1> QED
  BY <1>2, <1>3, <1>4, <1>5, <1>6

(* A new capsule will be answered after the others.                        *)
LEMMA EncapsulateReplies ==
  ASSUME PlacesInv, NEW c \in Clients, NEW bytes \in Seq(Byte), Encapsulate(c, bytes),
         thread[<<"listen", c>>].at = "recv", InTurn(c), OwnCapsules(c), UNCHANGED queue
  PROVE  /\ Answered(c)' = Answered(c) /\ Len(heap'[c]) = Len(heap[c]) + 1
         /\ \A d \in Clients : d # c => Untouched(d)
         /\ \E rest \in Unwritten(bytes) :
               LET text == CString(bytes \o rest) IN
               /\ Replies(c)' = Append(Replies(c), Answer(text))
               /\ OwnReplies(c)' = Append(OwnReplies(c), Answer(CutTo(text, Len(bytes))))
<1>1. PICK rest \in Unwritten(bytes) :
        heap'[c] = Append(heap[c], [q |-> <<"q3", c>>, buffer |-> bytes \o rest, socket |-> c, received |-> Len(bytes)])
  BY EncapsulateInTurn
<1>2. PICK capsule : capsule = [q |-> <<"q3", c>>, buffer |-> bytes \o rest, socket |-> c, received |-> Len(bytes)]
  OBVIOUS
<1>3. /\ heap'[c] = Append(heap[c], capsule) /\ capsule.buffer = bytes \o rest
      /\ capsule.received = Len(bytes)
      /\ Answered(c)' = Answered(c) /\ \A d \in Clients : d # c => Untouched(d)
      /\ ConvertedUpTo(c)' = ConvertedUpTo(c) /\ CipheredUpTo(c)' = CipheredUpTo(c)
  BY <1>1, <1>2, EncapsulateInTurn
<1>4. PICK n \in Nat : n = Len(heap[c])
  BY Counts
<1>5. /\ Len(heap'[c]) = n + 1 /\ heap'[c][n + 1] = capsule
      /\ \A k \in 1 .. n : heap'[c][k] = heap[c][k]
  <2>1. heap[c] \in Seq(Capsule)
    BY DEF PlacesInv, TypeOK
  <2>2. heap[c] \in Seq(Capsule \cup {capsule})
    BY <2>1, SeqMonotonic, Capsule \subseteq Capsule \cup {capsule}
  <2> QED
    BY <1>3, <1>4, <2>2, AppendProperties, LenProperties
<1>6. PICK text : text = Answer(CString(bytes \o rest))
  OBVIOUS
<1>7. text \in Seq(Byte)
  <2>1. CString(bytes \o rest) \in Seq(Byte)
    BY StringOfReceived
  <2> QED
    BY <1>6, <2>1, AnswerIs
<1>8. \A k \in 1 .. n : Reply(c, k)' = Reply(c, k)
  BY <1>3, <1>5 DEF Reply
<1>9. Reply(c, n + 1)' = text
  <2>1. CipheredUpTo(c) <= n /\ ConvertedUpTo(c) <= n /\ CipheredUpTo(c) \in Nat /\ ConvertedUpTo(c) \in Nat
    BY <1>4, Stages
  <2>2. ~(n + 1 <= CipheredUpTo(c)') /\ ~(n + 1 <= ConvertedUpTo(c)')
    BY <1>3, <2>1
  <2>3. heap'[c][n + 1].buffer = bytes \o rest
    BY <1>3, <1>5
  <2> QED
    BY <1>6, <2>2, <2>3 DEF Reply
<1>10. PICK f, g, a : f = Replies(c) /\ g = Replies(c)' /\ a = Append(f, text)
  OBVIOUS
<1>11. f \in Seq(Seq(Byte)) /\ Len(f) = n /\ \A k \in 1 .. n : f[k] = Reply(c, k)
  BY <1>4, <1>10, RepliesTypes
<1>12. /\ a \in Seq(Seq(Byte)) /\ Len(a) = n + 1 /\ a[n + 1] = text
       /\ \A k \in 1 .. n : a[k] = Reply(c, k)
  <2>1. /\ a \in Seq(Seq(Byte)) /\ Len(a) = Len(f) + 1 /\ a[Len(f) + 1] = text
        /\ \A k \in 1 .. Len(f) : a[k] = f[k]
    BY <1>7, <1>10, <1>11, AppendProperties
  <2> QED
    BY <1>11, <2>1
<1>13. \A k \in 1 .. n + 1 : k \in 1 .. n \/ k = n + 1
  OBVIOUS
<1>14. a = [k \in 1 .. n + 1 |-> a[k]]
  <2>1. a \in [1 .. n + 1 -> Seq(Byte)]
    BY <1>12, LenProperties
  <2> QED
    BY <2>1
<1>15. \A k \in 1 .. n + 1 : Reply(c, k)' = a[k]
  BY <1>8, <1>9, <1>12, <1>13
<1>16. g = [k \in 1 .. n + 1 |-> Reply(c, k)']
  BY <1>5, <1>10 DEF Replies
<1>17. g = a
  BY <1>14, <1>15, <1>16
<1>18. PICK own : own = CutTo(text, Len(bytes))
  OBVIOUS
<1>19. own \in Seq(Byte) /\ own = Answer(CutTo(CString(bytes \o rest), Len(bytes)))
  <2>1. CString(bytes \o rest) \in Seq(Byte) /\ Len(bytes) \in Nat
    BY StringOfReceived, LenProperties
  <2> QED
    BY <1>6, <1>7, <1>18, <2>1, CutIs, CutAnswer
<1>20. \A k \in 1 .. n : OwnPart(c, k)' = OwnPart(c, k)
  BY <1>5, <1>8 DEF OwnPart
<1>21. OwnPart(c, n + 1)' = own
  <2>1. heap'[c][n + 1].received = Len(bytes)
    BY <1>3, <1>5
  <2> QED
    BY <1>9, <1>18, <2>1 DEF OwnPart
<1>22. PICK v, w, b : v = OwnReplies(c) /\ w = OwnReplies(c)' /\ b = Append(v, own)
  OBVIOUS
<1>23. v \in Seq(Seq(Byte)) /\ Len(v) = n /\ \A k \in 1 .. n : v[k] = OwnPart(c, k)
  BY <1>4, <1>22, OwnRepliesTypes
<1>24. /\ b \in Seq(Seq(Byte)) /\ Len(b) = n + 1 /\ b[n + 1] = own
       /\ \A k \in 1 .. n : b[k] = OwnPart(c, k)
  <2>1. /\ b \in Seq(Seq(Byte)) /\ Len(b) = Len(v) + 1 /\ b[Len(v) + 1] = own
        /\ \A k \in 1 .. Len(v) : b[k] = v[k]
    BY <1>19, <1>22, <1>23, AppendProperties
  <2> QED
    BY <1>23, <2>1
<1>25. b = [k \in 1 .. n + 1 |-> b[k]]
  <2>1. b \in [1 .. n + 1 -> Seq(Byte)]
    BY <1>24, LenProperties
  <2> QED
    BY <2>1
<1>26. \A k \in 1 .. n + 1 : OwnPart(c, k)' = b[k]
  BY <1>13, <1>20, <1>21, <1>24
<1>27. w = [k \in 1 .. n + 1 |-> OwnPart(c, k)']
  BY <1>5, <1>22 DEF OwnReplies
<1>28. w = b
  BY <1>25, <1>26, <1>27
<1>29. /\ Replies(c)' = Append(Replies(c), Answer(CString(bytes \o rest)))
       /\ OwnReplies(c)' = Append(OwnReplies(c), Answer(CutTo(CString(bytes \o rest), Len(bytes))))
  BY <1>6, <1>10, <1>17, <1>19, <1>22, <1>28
<1> QED
  BY <1>3, <1>4, <1>5, <1>29

-----------------------------------------------------------------------------
(* The letters on their way.                                               *)
LettersOf(c) ==
  /\ LettersWithin(Seqs!FlattenSeq(OwnReplies(c)) \o Answer(up[c]), Answer(Seqs!FlattenSeq(sent[c])))
  /\ LettersWithin(Stream(c), Seqs!FlattenSeq(SubSeq(Replies(c), 1, Answered(c))))

LEMMA SameLetters ==
  ASSUME NEW d \in Clients, LettersOf(d), Replies(d)' = Replies(d), Answered(d)' = Answered(d),
         OwnReplies(d)' = OwnReplies(d), up'[d] = up[d], sent'[d] = sent[d], Stream(d)' = Stream(d)
  PROVE  LettersOf(d)'
BY DEF LettersOf

LEMMA NulIsNoLetter == NUL \in Byte /\ <<NUL>> \in Seq(Byte) /\ LetterAt(<<NUL>>) = {}
<1>1. NUL \in Byte /\ NUL \notin Letter
  BY DEF NUL, Byte, Letter, Lower, Upper
<1> QED
  BY <1>1 DEF LetterAt

(* Joining is associative; named, so that a prover need not look for it.   *)
Associative(a, b, e) == (a \o b) \o e = a \o (b \o e)

LEMMA JoiningAssociates ==
  ASSUME NEW a \in Seq(Byte), NEW b \in Seq(Byte), NEW e \in Seq(Byte)
  PROVE  Associative(a, b, e)
BY ConcatAssociative DEF Associative

(* Of the bytes that recv returned, the letters up to the first NUL stay.  *)
LEMMA LettersReceived ==
  ASSUME NEW R \in Seq(Byte), NEW T \in Seq(Byte), NEW head \in Seq(Byte), NEW tail \in Seq(Byte),
         NEW text \in Seq(Byte)
  PROVE  LettersWithin(text, head) /\ LettersWithin(R \o Answer(head \o tail), T)
           => LettersWithin((R \o Answer(text)) \o Answer(tail), T)
<1>1. PICK x \in Seq(Byte), y \in Seq(Byte), z \in Seq(Byte) :
        x = Answer(text) /\ y = Answer(head) /\ z = Answer(tail)
  BY AnswerIs
<1>2. Associative(R, x, z)
  BY JoiningAssociates
<1> SUFFICES ASSUME LettersWithin(text, head), LettersWithin(R \o Answer(head \o tail), T)
             PROVE  LettersWithin((R \o Answer(text)) \o Answer(tail), T)
  OBVIOUS
<1>3. LettersWithin(R \o (y \o z), T)
  BY <1>1, AnswerJoined
<1>4. y \o z \in Seq(Byte) /\ x \o z \in Seq(Byte) /\ R \o (y \o z) \in Seq(Byte)
  BY ConcatProperties
<1>5. LettersWithin(x, y)
  BY <1>1, WithinAnswers
<1>6. LettersWithin(x \o z, y \o z)
  BY <1>5, WithinItself, WithinJoined
<1>7. LettersWithin(R \o (x \o z), R \o (y \o z))
  BY <1>4, <1>6, WithinItself, WithinJoined
<1>8. LettersWithin(R \o (x \o z), T)
  BY <1>3, <1>7, WithinTransitive
<1> QED
  BY <1>1, <1>2, <1>8 DEF Associative

LEMMA FlattenType ==
  ASSUME NEW ss \in Seq(Seq(Byte))
  PROVE  Seqs!FlattenSeq(ss) \in Seq(Byte)
BY EmptySeq, FlattenAppend

LEMMA ListenLetters ==
  ASSUME PlacesInv, NEW c \in Clients, ListenReceives(c) \/ ListenReceivesNothing(c),
         \A d \in Clients : InTurn(d) /\ OwnCapsules(d) /\ LettersOf(d)
  PROVE  \A d \in Clients : LettersOf(d)'
<1>1. up[c] \in Seq(Byte) /\ sent[c] \in Seq(Seq(Byte))
  BY DEF PlacesInv, TypeOK, ClientTypeOK
<1>2. /\ thread[<<"listen", c>>].at = "recv" /\ UNCHANGED <<queue, sent, got, down>>
      /\ \A d \in Clients : d # c => up'[d] = up[d]
  BY DEF ListenReceives, ListenReceivesNothing, At, networkVars, clientVars, PlacesInv, TypeOK, ClientTypeOK
<1>3. PICK head \in Seq(Byte), tail \in Seq(Byte) :
        up[c] = head \o tail /\ up'[c] = tail /\ Encapsulate(c, head)
  <2>1. CASE ListenReceives(c)
    <3>1. PICK n \in Received(up[c], BufferSize) :
            Encapsulate(c, First(up[c], n)) /\ up' = [up EXCEPT ![c] = AllBut(@, n)]
      BY <2>1 DEF ListenReceives
    <3>2. n \in 0 .. Len(up[c])
      BY <1>1, AOServerAssumption, ReceivedRange
    <3>3. /\ First(up[c], n) \in Seq(Byte) /\ AllBut(up[c], n) \in Seq(Byte)
          /\ First(up[c], n) \o AllBut(up[c], n) = up[c]
      BY <1>1, <3>2, SplitTypes, SplitJoins
    <3>4. up'[c] = AllBut(up[c], n)
      BY <3>1 DEF PlacesInv, TypeOK, ClientTypeOK
    <3> QED
      BY <3>1, <3>3, <3>4
  <2>2. CASE ListenReceivesNothing(c)
    <3>1. up[c] = <<>> /\ up'[c] = <<>> /\ Encapsulate(c, <<>>) /\ <<>> \in Seq(Byte)
      BY <2>2, EmptySeq DEF ListenReceivesNothing, networkVars
    <3>2. <<>> \o <<>> = <<>>
      BY <3>1, ConcatEmptySeq
    <3> QED
      BY <3>1, <3>2
  <2> QED
    BY <2>1, <2>2
<1>4. PICK rest \in Unwritten(head) :
        /\ Replies(c)' = Append(Replies(c), Answer(CString(head \o rest)))
        /\ OwnReplies(c)' = Append(OwnReplies(c), Answer(CutTo(CString(head \o rest), Len(head))))
        /\ Answered(c)' = Answered(c) /\ \A d \in Clients : d # c => Untouched(d)
  BY <1>2, <1>3, EncapsulateReplies
<1>5. PICK text, own : text = CString(head \o rest) /\ own = CutTo(text, Len(head))
  OBVIOUS
<1>6. /\ text \in Seq(Byte) /\ Answer(text) \in Seq(Byte)
      /\ own \in Seq(Byte) /\ LettersWithin(own, head) /\ Answer(own) \in Seq(Byte)
  <2>1. text \in Seq(Byte) /\ LettersWithin(own, head) /\ Len(head) \in Nat
    BY <1>5, StringOfReceived, LenProperties
  <2>2. own \in Seq(Byte)
    BY <1>5, <2>1, CutIs
  <2> QED
    BY <2>1, <2>2, AnswerIs
<1>7. PICK rs, n, owns : rs = Replies(c) /\ n = Answered(c) /\ owns = OwnReplies(c)
  OBVIOUS
<1>8. rs \in Seq(Seq(Byte)) /\ n \in 0 .. Len(rs) /\ Len(rs) \in Nat /\ owns \in Seq(Seq(Byte))
  BY <1>7, RepliesTypes, OwnRepliesTypes, Stages
<1>9. /\ Seqs!FlattenSeq(Append(owns, Answer(own))) = Seqs!FlattenSeq(owns) \o Answer(own)
      /\ Seqs!FlattenSeq(owns) \in Seq(Byte)
  BY <1>6, <1>8, FlattenAppend
<1>10. LettersWithin(Seqs!FlattenSeq(OwnReplies(c)') \o Answer(up'[c]), Answer(Seqs!FlattenSeq(sent'[c])))
  <2>1. PICK T, R : T = Answer(Seqs!FlattenSeq(sent[c])) /\ R = Seqs!FlattenSeq(owns)
    OBVIOUS
  <2>2. T \in Seq(Byte) /\ R \in Seq(Byte)
    BY <1>1, <1>9, <2>1, FlattenType, AnswerIs
  <2>3. LettersWithin(R \o Answer(head \o tail), T)
    BY <1>3, <1>7, <2>1 DEF LettersOf
  <2>4. LettersWithin((R \o Answer(own)) \o Answer(tail), T)
    BY <1>6, <2>2, <2>3, LettersReceived
  <2>5. Seqs!FlattenSeq(OwnReplies(c)') = R \o Answer(own)
    BY <1>4, <1>5, <1>7, <1>9, <2>1
  <2> QED
    BY <1>2, <1>3, <2>1, <2>4, <2>5
<1>11. LettersWithin(Stream(c)', Seqs!FlattenSeq(SubSeq(Replies(c)', 1, Answered(c)')))
  <2>1. Stream(c)' = Stream(c)
    BY <1>2 DEF Stream
  <2>2. SubSeq(Append(rs, Answer(text)), 1, n) = SubSeq(rs, 1, n)
    <3>1. PICK x \in Seq(Byte) : x = Answer(text)
      BY <1>6
    <3>2. SubSeq(Append(rs, x), 1, n) = SubSeq(rs, 1, n)
      <4>1. PICK a : a = Append(rs, x)
        OBVIOUS
      <4>2. a \in Seq(Seq(Byte)) /\ Len(a) = Len(rs) + 1 /\ \A i \in 1 .. Len(rs) : a[i] = rs[i]
        BY <1>8, <4>1, AppendProperties
      <4>3. n \in 0 .. Len(rs) /\ Len(rs) \in Nat
        BY <1>8
      <4>4. n \in Nat /\ \A i \in 1 .. n : i \in 1 .. Len(rs)
        BY <4>3
      <4>5. n \in Nat /\ \A i \in 1 .. n : i \in 1 .. Len(rs) /\ a[i] = rs[i]
        BY <4>2, <4>4
      <4>6. SubSeq(a, 1, n) = [i \in 1 .. n |-> a[i]] /\ SubSeq(rs, 1, n) = [i \in 1 .. n |-> rs[i]]
        BY <4>5
      <4> QED
        BY <4>1, <4>5, <4>6
    <3> QED
      BY <3>1, <3>2
  <2> QED
    BY <1>4, <1>5, <1>7, <2>1, <2>2 DEF LettersOf
<1>12. LettersOf(c)'
  BY <1>10, <1>11 DEF LettersOf
<1>13. ASSUME NEW d \in Clients, d # c PROVE LettersOf(d)'
  <2>1. Replies(d)' = Replies(d) /\ OwnReplies(d)' = OwnReplies(d) /\ Answered(d)' = Answered(d)
    BY <1>4, <1>13, ElsewhereInTurn
  <2>2. Stream(d)' = Stream(d)
    BY <1>2 DEF Stream
  <2> QED
    BY <1>2, <1>13, <2>1, <2>2, SameLetters
<1> QED
  BY <1>12, <1>13

LEMMA SendLetters ==
  ASSUME PlacesInv, NEW t \in ActiveObjects, send_message(t),
         \A d \in Clients : InTurn(d) /\ OwnCapsules(d) /\ LettersOf(d)
  PROVE  \A d \in Clients : LettersOf(d)'
<1>1. PICK c : c = t[2] /\ c \in Clients
  BY DEF ActiveObjects
<1>2. PICK k, buffer : k = TakenToCipher(c) /\ buffer = heap[c][k].buffer
  OBVIOUS
<1>3. /\ Answered(c)' = k /\ Answered(c) + 1 = k /\ k \in 1 .. Len(heap[c]) /\ heap' = heap
      /\ TakenToConvert(c)' = TakenToConvert(c) /\ TakenToCipher(c)' = TakenToCipher(c)
      /\ \A d \in Clients : d # c => Untouched(d)
      /\ thread'[<<"convert", c>>] = thread[<<"convert", c>>]
      /\ thread'[<<"cipher", c>>].at # "before" /\ thread[<<"cipher", c>>].at # "before"
      /\ ServerSends(c, ReplyBytes(buffer))
  BY <1>1, <1>2, SendInTurn
<1>4. UNCHANGED <<up, sent, got>>
  BY DEF send_message, clientVars
<1>5. Replies(c)' = Replies(c) /\ OwnReplies(c)' = OwnReplies(c) /\ k <= CipheredUpTo(c)
  <2>1. ConvertedUpTo(c)' = ConvertedUpTo(c) /\ CipheredUpTo(c)' = CipheredUpTo(c)
    BY <1>3 DEF ConvertedUpTo, CipheredUpTo, At
  <2>2. TakenToCipher(c) \in Nat
    BY <1>1, Stages
  <2>3. CipheredUpTo(c) = TakenToCipher(c)
    BY <1>3, <2>2 DEF CipheredUpTo, At
  <2> QED
    BY <1>1, <1>2, <1>3, <2>1, <2>2, <2>3, SameReplies, SameOwnReplies
<1>6. PICK text : text = CString(buffer)
  OBVIOUS
<1>7. text \in Seq(Byte) /\ Reply(c, k) = text /\ Replies(c)[k] = text
  BY <1>1, <1>2, <1>3, <1>5, <1>6, Buffers, RepliesTypes DEF Reply
<1>8. ReplyBytes(buffer) = text \o <<NUL>> /\ text \o <<NUL>> \in Seq(Byte)
  BY <1>6, <1>7, NulIsNoLetter, AppendIsConcat, ConcatProperties DEF ReplyBytes
<1>9. PICK n \in Nat : n = Answered(c) /\ n = k - 1
  BY <1>1, <1>3, Stages
<1>10. PICK rs : rs = Replies(c)
  OBVIOUS
<1>11. rs \in Seq(Seq(Byte)) /\ k \in 1 .. Len(rs) /\ rs[k] = text
  BY <1>1, <1>3, <1>7, <1>10, RepliesTypes
<1>12. PICK F : F = Seqs!FlattenSeq(SubSeq(rs, 1, n))
  OBVIOUS
<1>13. F \in Seq(Byte) /\ Seqs!FlattenSeq(SubSeq(rs, 1, k)) = F \o text
  <2>1. /\ SubSeq(rs, 1, k - 1) \in Seq(Seq(Byte))
        /\ SubSeq(rs, 1, k) = Append(SubSeq(rs, 1, k - 1), rs[k])
    BY <1>11, PrefixOneLonger
  <2>2. SubSeq(rs, 1, n) \in Seq(Seq(Byte)) /\ SubSeq(rs, 1, k) = Append(SubSeq(rs, 1, n), text)
    BY <1>9, <1>11, <2>1
  <2> QED
    BY <1>7, <1>12, <2>2, FlattenAppend
<1>14. Stream(c) \in Seq(Byte) /\ LettersWithin(Stream(c), F) /\ ClientTypeOK
  BY <1>1, <1>9, <1>10, <1>12, StreamType DEF LettersOf, PlacesInv, TypeOK
<1>15. /\ \A d \in Clients : d # c => Stream(d)' = Stream(d)
       /\ Stream(c)' \in {Stream(c), Stream(c) \o (text \o <<NUL>>)}
  <2>1. CASE link[c] = "up"
    <3>1. got' = got /\ down' = [down EXCEPT ![c] = @ \o (text \o <<NUL>>)]
      BY <1>3, <1>4, <1>8, <2>1 DEF ServerSends
    <3> QED
      BY <1>1, <1>8, <1>14, <3>1, StreamGrows
  <2>2. CASE link[c] # "up"
    <3>1. got' = got /\ down' = down
      BY <1>3, <1>4, <2>2 DEF ServerSends
    <3> QED
      BY <3>1 DEF Stream
  <2> QED
    BY <2>1, <2>2
<1>16. LettersWithin(Stream(c)', F \o text)
  <2>1. LettersWithin(F, F \o text)
    BY <1>7, <1>13, WithinLonger
  <2>2. LettersWithin(Stream(c), F \o text)
    BY <1>14, <2>1, WithinTransitive
  <2>3. LettersWithin(text \o <<NUL>>, text)
    BY <1>7, NulIsNoLetter, WithoutLetters
  <2>4. PICK s : s = Stream(c)
    OBVIOUS
  <2>5. LettersWithin(s \o (text \o <<NUL>>), F \o text)
    BY <1>7, <1>8, <1>13, <1>14, <2>3, <2>4, WithinJoined
  <2> QED
    BY <1>15, <2>2, <2>4, <2>5
<1>17. LettersOf(c)'
  BY <1>1, <1>3, <1>4, <1>5, <1>10, <1>13, <1>16 DEF LettersOf
<1>18. ASSUME NEW d \in Clients, d # c PROVE LettersOf(d)'
  <2>1. Replies(d)' = Replies(d) /\ OwnReplies(d)' = OwnReplies(d) /\ Answered(d)' = Answered(d)
    BY <1>3, <1>18, ElsewhereInTurn
  <2> QED
    BY <1>4, <1>15, <1>18, <2>1, SameLetters
<1> QED
  BY <1>17, <1>18

(* What a client does to its stream: at most, it loses the end of it.      *)
LEMMA ClientStream ==
  ASSUME ClientTypeOK, NEW c \in Clients, ClientStep(c)
  PROVE  \A d \in Clients : LettersWithin(Stream(d)', Stream(d))
<1>1. CASE UNCHANGED <<got, down>>
  BY <1>1, WithinItself DEF Stream
<1>2. CASE \E n \in 0 .. Len(down[c]) : ClientReceives(c, n)
  BY <1>2, ReceivesStream, WithinItself
<1>3. CASE HangUp(c)
  <2>1. got' = got /\ \A d \in Clients : down'[d] = IF d = c THEN <<>> ELSE down[d]
    BY <1>3 DEF HangUp, ClientTypeOK
  <2>2. ASSUME NEW d \in Clients PROVE LettersWithin(Stream(d)', Stream(d))
    <3>1. CASE d = c
      <4>1. PICK flat \in Seq(Byte) : flat = Seqs!FlattenSeq(got[d])
        BY FlattenType DEF ClientTypeOK
      <4>2. down[d] \in Seq(Byte) /\ flat \o <<>> = flat
        BY ConcatEmptySeq DEF ClientTypeOK
      <4>3. LettersWithin(flat, flat \o down[d])
        BY <4>2, WithinLonger
      <4> QED
        BY <2>1, <3>1, <4>1, <4>2, <4>3 DEF Stream
    <3>2. CASE d # c
      BY <2>1, <3>2, WithinItself DEF Stream
    <3> QED
      BY <3>1, <3>2
  <2> QED
    BY <2>2
<1>4. 0 \in 0 .. Len(down[c])
  BY LenProperties DEF ClientTypeOK
<1>5. RecvReply(c) => \E n \in 0 .. Len(down[c]) : ClientReceives(c, n)
  <2>1. down[c] \in Seq(Byte) /\ ReplyLimit \in Nat
    BY SelectClientAssumption DEF ClientTypeOK, ReplyLimit
  <2> QED
    BY <2>1, ReceivedRange DEF RecvReply
<1> QED
  BY <1>1, <1>2, <1>3, <1>4, <1>5 DEF ClientStep, Connect, SendRequest, SendFails, RecvNothing, networkVars

(* Appending a text to what was sent, and its letters to what is in flight. *)
LEMMA LettersSent ==
  ASSUME NEW R \in Seq(Byte), NEW bytes \in Seq(Byte), NEW S \in Seq(Byte), NEW text \in Seq(Byte)
  PROVE  LettersWithin(R \o Answer(bytes), Answer(S)) =>
           /\ LettersWithin(R \o Answer(bytes), Answer(S \o text))
           /\ LettersWithin(R \o Answer(bytes \o (text \o <<NUL>>)), Answer(S \o text))
<1>1. PICK sending \in Seq(Byte) : sending = text \o <<NUL>>
  BY NulIsNoLetter, ConcatProperties
<1>2. PICK x \in Seq(Byte), y \in Seq(Byte), z \in Seq(Byte), w \in Seq(Byte) :
        x = Answer(bytes) /\ y = Answer(S) /\ z = Answer(text) /\ w = Answer(sending)
  BY AnswerIs
<1>3. Associative(R, x, w)
  BY JoiningAssociates
<1>4. Answer(S \o text) = y \o z /\ Answer(bytes \o sending) = x \o w
  BY <1>2, AnswerJoined
<1>5. LettersWithin(w, z)
  <2>1. LettersWithin(sending, text)
    BY <1>1, NulIsNoLetter, WithoutLetters
  <2> QED
    BY <1>2, <2>1, WithinAnswers
<1>6. R \o x \in Seq(Byte)
  BY ConcatProperties
<1> SUFFICES ASSUME LettersWithin(R \o x, y)
             PROVE  LettersWithin(R \o x, y \o z) /\ LettersWithin(R \o (x \o w), y \o z)
  BY <1>1, <1>2, <1>4
<1>7. LettersWithin(R \o x, y \o z)
  BY WithinLonger, WithinTransitive
<1>8. LettersWithin((R \o x) \o w, y \o z)
  BY <1>5, <1>6, WithinJoined
<1> QED
  BY <1>3, <1>7, <1>8 DEF Associative

LEMMA ClientLetters ==
  ASSUME PlacesInv, NEW c \in Clients, ClientStep(c), UNCHANGED serverVars,
         \A d \in Clients : LettersOf(d)
  PROVE  \A d \in Clients : LettersOf(d)'
<1>1. \A d \in Clients : Untouched(d)
  BY DEF serverVars, Untouched
<1>2. \A d \in Clients : /\ Replies(d)' = Replies(d) /\ Answered(d)' = Answered(d)
                        /\ OwnReplies(d)' = OwnReplies(d)
  BY <1>1, ElsewhereInTurn
<1>3. ClientTypeOK
  BY DEF PlacesInv, TypeOK
<1>4. \A d \in Clients :
        LettersWithin(Seqs!FlattenSeq(OwnReplies(d)) \o Answer(up'[d]), Answer(Seqs!FlattenSeq(sent'[d])))
  <2>1. CASE UNCHANGED <<up, sent>>
    BY <2>1 DEF LettersOf
  <2>2. CASE SendRequest(c)
    <3>1. PICK text \in Texts[c] :
            /\ sent' = [sent EXCEPT ![c] = Append(@, text)]
            /\ up' = IF alive THEN [up EXCEPT ![c] = @ \o TextWithNul(text)] ELSE up
      BY <2>2 DEF SendRequest
    <3>2. text \in Seq(Byte)
      <4>1. text \in Seq(Byte \ {NUL})
        BY SelectClientAssumption
      <4> QED
        BY <4>1, SeqMonotonic, Byte \ {NUL} \subseteq Byte
    <3>3. TextWithNul(text) = text \o <<NUL>>
      BY <3>2, NulIsNoLetter, AppendIsConcat DEF TextWithNul
    <3>4. /\ sent'[c] = Append(sent[c], text) /\ \A d \in Clients : d # c => sent'[d] = sent[d] /\ up'[d] = up[d]
          /\ up'[c] \in {up[c], up[c] \o (text \o <<NUL>>)}
      BY <1>3, <3>1, <3>3 DEF ClientTypeOK
    <3>5. PICK R \in Seq(Byte), S \in Seq(Byte), bytes \in Seq(Byte) :
            R = Seqs!FlattenSeq(OwnReplies(c)) /\ S = Seqs!FlattenSeq(sent[c]) /\ bytes = up[c]
      BY <1>3, OwnRepliesTypes, FlattenType DEF ClientTypeOK
    <3>6. Seqs!FlattenSeq(sent'[c]) = S \o text
      <4>1. sent[c] \in Seq(Seq(Byte))
        BY <1>3 DEF ClientTypeOK
      <4>2. Seqs!FlattenSeq(Append(sent[c], text)) = Seqs!FlattenSeq(sent[c]) \o text
        BY <3>2, <4>1, FlattenAppend
      <4> QED
        BY <3>4, <3>5, <4>2
    <3>7. LettersWithin(R \o Answer(bytes), Answer(S))
      BY <3>5 DEF LettersOf
    <3>8. /\ LettersWithin(R \o Answer(bytes), Answer(S \o text))
          /\ LettersWithin(R \o Answer(bytes \o (text \o <<NUL>>)), Answer(S \o text))
      BY <3>2, <3>7, LettersSent
    <3>9. LettersWithin(R \o Answer(up'[c]), Answer(Seqs!FlattenSeq(sent'[c])))
      BY <3>4, <3>5, <3>6, <3>8
    <3> QED
      BY <3>4, <3>5, <3>9 DEF LettersOf
  <2> QED
    BY <2>1, <2>2 DEF ClientStep, Connect, SendFails, RecvReply, RecvNothing, ClientReceives, HangUp, networkVars
<1>5. \A d \in Clients : LettersWithin(Stream(d)', Seqs!FlattenSeq(SubSeq(Replies(d), 1, Answered(d))))
  <2>1. ASSUME NEW d \in Clients
        PROVE  LettersWithin(Stream(d)', Seqs!FlattenSeq(SubSeq(Replies(d), 1, Answered(d))))
    <3>1. LettersWithin(Stream(d)', Stream(d))
      BY <1>3, ClientStream
    <3>2. LettersWithin(Stream(d), Seqs!FlattenSeq(SubSeq(Replies(d), 1, Answered(d))))
      BY DEF LettersOf
    <3> QED
      BY <3>1, <3>2, WithinTransitive
  <2> QED
    BY <2>1
<1> QED
  BY <1>2, <1>4, <1>5 DEF LettersOf

LEMMA InitLetters == Init => LettersInv
<1> SUFFICES ASSUME Init PROVE LettersInv
  OBVIOUS
<1>1. ASSUME NEW c \in Clients PROVE LettersOf(c)
  <2>1. heap[c] = <<>> /\ up[c] = <<>> /\ down[c] = <<>> /\ got[c] = <<>> /\ sent[c] = <<>>
    BY DEF Init, ClientInit
  <2>2. <<>> \in Seq(Byte) /\ <<>> \o <<>> = <<>> /\ LetterAt(<<>>) = {}
    BY EmptySeq, ConcatEmptySeq DEF LetterAt
  <2>3. OwnReplies(c) = <<>>
    BY <2>1 DEF OwnReplies
  <2>4. Seqs!FlattenSeq(OwnReplies(c)) \o Answer(up[c]) = <<>> /\ Stream(c) = <<>>
    BY <2>1, <2>2, <2>3, FlattenEmpty, AnswerEmpty DEF Stream
  <2> QED
    BY <2>2, <2>4, NoLetters DEF LettersOf
<1> QED
  BY <1>1 DEF LettersInv, LettersOf

(* What the buffers and the bytes in flight owe to the client are letters  *)
(* of its texts in order, and what was sent are letters of the replies.    *)
THEOREM LettersInductive == Spec => []LettersInv
<1>1. PlacesInv /\ OrderInv /\ LettersInv /\ [Next]_vars => LettersInv'
  <2> SUFFICES ASSUME PlacesInv, OrderInv, LettersInv, [Next]_vars PROVE LettersInv'
    OBVIOUS
  <2>1. \A d \in Clients : InTurn(d) /\ OwnCapsules(d) /\ LettersOf(d)
    BY DEF OrderInv, Orderly, LettersInv, LettersOf
  <2>2. CASE \/ StartThread \/ \E c \in Clients : Accept(c) \/ ListenFails(c) \/ ListenEnQ(c)
             \/ \E t \in ActiveObjects : DeQ(t) \/ Before(t) \/ insert_to_queue(t)
    <3>1. UNCHANGED <<up, sent, got, down>>
          /\ \A d \in Clients : /\ Replies(d)' = Replies(d) /\ Answered(d)' = Answered(d)
                                /\ OwnReplies(d)' = OwnReplies(d)
      BY <2>2, QuietReplies DEF networkVars, clientVars
    <3>2. \A d \in Clients : LettersOf(d)'
      BY <2>1, <3>1, SameLetters DEF Stream
    <3> QED
      BY <3>2 DEF LettersInv, LettersOf
  <2>3. CASE \E c \in Clients : ListenReceives(c) \/ ListenReceivesNothing(c)
    <3>1. \A d \in Clients : LettersOf(d)'
      BY <2>1, <2>3, ListenLetters
    <3> QED
      BY <3>1 DEF LettersInv, LettersOf
  <2>4. CASE \E t \in ActiveObjects : send_message(t)
    <3>1. \A d \in Clients : LettersOf(d)'
      BY <2>1, <2>4, SendLetters
    <3> QED
      BY <3>1 DEF LettersInv, LettersOf
  <2>5. CASE \E c \in Clients : ClientStep(c) /\ UNCHANGED serverVars
    <3>1. \A d \in Clients : LettersOf(d)'
      BY <2>1, <2>5, ClientLetters
    <3> QED
      BY <3>1 DEF LettersInv, LettersOf
  <2>6. CASE UNCHANGED vars
    <3>1. UNCHANGED <<thread, queue, heap, up, sent, got, down>>
      BY <2>6 DEF vars, serverVars, networkVars, clientVars
    <3>2. \A d \in Clients : /\ Replies(d)' = Replies(d) /\ Answered(d)' = Answered(d)
                            /\ OwnReplies(d)' = OwnReplies(d)
      BY <3>1, ElsewhereInTurn DEF Untouched
    <3>3. \A d \in Clients : LettersOf(d)'
      BY <2>1, <3>1, <3>2, SameLetters DEF Stream
    <3> QED
      BY <3>3 DEF LettersInv, LettersOf
  <2> QED
    BY <2>2, <2>3, <2>4, <2>5, <2>6 DEF Next, ListenStep, ActiveObjectStep
<1> QED
  BY InitLetters, PlacesInductive, OrderInductive, <1>1, PTL DEF Spec

(* However TCP cuts the streams and the threads interleave, and whatever    *)
(* the memory held that strlen runs into, letters included: the letters a  *)
(* client is sent are those of the replies, in order; what the replies owe *)
(* to its texts are their converted letters, in order; and a client none   *)
(* of whose capsules met anything but a NUL there is sent no other.        *)
THEOREM LettersKeepOrder == Spec => []LettersInOrder
<1>1. PlacesInv /\ OrderInv /\ LettersInv => LettersInOrder
  <2> SUFFICES ASSUME PlacesInv, OrderInv, LettersInv, NEW c \in Clients
               PROVE  /\ LettersWithin(Stream(c), Seqs!FlattenSeq(SubSeq(Replies(c), 1, Answered(c))))
                      /\ LettersWithin(Seqs!FlattenSeq(OwnReplies(c)), Answer(Seqs!FlattenSeq(sent[c])))
                      /\ NothingOfMemory(c) => LettersWithin(Stream(c), Answer(Seqs!FlattenSeq(sent[c])))
    BY DEF LettersInOrder
  <2>1. PICK rs, n, owns, T :
          /\ rs = Replies(c) /\ n = Answered(c) /\ owns = OwnReplies(c)
          /\ T = Answer(Seqs!FlattenSeq(sent[c]))
    OBVIOUS
  <2>2. rs \in Seq(Seq(Byte)) /\ n \in 0 .. Len(rs) /\ owns \in Seq(Seq(Byte))
    BY <2>1, RepliesTypes, OwnRepliesTypes, Stages DEF OrderInv, Orderly
  <2>3. /\ LettersWithin(Stream(c), Seqs!FlattenSeq(SubSeq(rs, 1, n)))
        /\ LettersWithin(Seqs!FlattenSeq(owns) \o Answer(up[c]), T)
    BY <2>1 DEF LettersInv
  <2>4. Seqs!FlattenSeq(owns) \in Seq(Byte) /\ Answer(up[c]) \in Seq(Byte)
    BY <2>2, FlattenType, AnswerIs DEF PlacesInv, TypeOK, ClientTypeOK
  <2>5. LettersWithin(Seqs!FlattenSeq(owns), T)
    BY <2>3, <2>4, WithinLonger, WithinTransitive
  <2>6. NothingOfMemory(c) => owns = rs
    BY <2>1 DEF NothingOfMemory, OwnReplies, Replies
  <2>7. LettersWithin(Seqs!FlattenSeq(SubSeq(rs, 1, n)), Seqs!FlattenSeq(rs))
    BY <2>2, FlattenedPrefix
  <2>8. ASSUME NothingOfMemory(c) PROVE LettersWithin(Stream(c), T)
    <3>1. LettersWithin(Seqs!FlattenSeq(rs), T)
      BY <2>5, <2>6, <2>8
    <3> QED
      BY <2>3, <2>7, <3>1, WithinTransitive
  <2> QED
    BY <2>1, <2>3, <2>5, <2>8
<1> QED
  BY PlacesInductive, OrderInductive, LettersInductive, <1>1, PTL

-----------------------------------------------------------------------------
(* Whole messages.                                                         *)

LEMMA StringBefore ==
  ASSUME NEW w \in Seq(Byte), NEW a \in Seq(Byte), Len(a) < Len(w), w[Len(a) + 1] = NUL,
         \A i \in 1 .. Len(a) : w[i] = a[i] /\ a[i] # NUL
  PROVE  CString(w) = a
<1>1. Len(a) \in Nat /\ Len(w) \in Nat
  BY LenProperties
<1>2. PICK n \in Nat : n = Len(a)
  BY <1>1
<1>3. EndsAt(w, n)
  BY <1>1, <1>2 DEF EndsAt
<1>4. PICK s : s = CString(w)
  OBVIOUS
<1>5. s \in Seq(Byte) /\ Len(s) = n /\ \A i \in 1 .. n : s[i] = w[i]
  BY <1>3, <1>4, CStringIs
<1>6. s = a
  BY <1>2, <1>5, SeqEqual
<1> QED
  BY <1>4, <1>6

NoNul(text) == text \in Seq(Byte) /\ \A i \in 1 .. Len(text) : text[i] # NUL

LEMMA TextIsString ==
  ASSUME NEW c \in Clients, NEW text \in Texts[c]
  PROVE  NoNul(text) /\ NoNul(Answer(text))
<1>1. text \in Seq(Byte \ {NUL})
  BY SelectClientAssumption
<1>2. text \in Seq(Byte)
  BY <1>1, SeqMonotonic, Byte \ {NUL} \subseteq Byte
<1>3. \A i \in 1 .. Len(text) : text[i] # NUL
  BY <1>1, ElementOfSeq
<1>4. NoNul(text)
  BY <1>2, <1>3 DEF NoNul
<1>5. PICK a : a = Answer(text)
  OBVIOUS
<1>6. a \in Seq(Byte) /\ Len(a) = Len(text) /\ \A i \in 1 .. Len(text) : (a[i] = NUL <=> text[i] = NUL)
  BY <1>2, <1>5, AnswerIs
<1> QED
  BY <1>3, <1>4, <1>5, <1>6 DEF NoNul

LEMMA TerminatedString ==
  ASSUME NEW a, NoNul(a)
  PROVE  /\ Append(a, NUL) \in Seq(Byte) /\ Len(Append(a, NUL)) = Len(a) + 1 /\ Len(a) \in Nat
         /\ Append(a, NUL)[Len(a) + 1] = NUL
         /\ CString(Append(a, NUL)) = a
         /\ Printed(Append(a, NUL)) = a
<1>1. a \in Seq(Byte) /\ Len(a) \in Nat /\ NUL \in Byte
  BY NulIsNoLetter, LenProperties DEF NoNul
<1>2. PICK w, v, n : w = Append(a, NUL) /\ v = Append(w, NUL) /\ n = Len(a)
  OBVIOUS
<1>3. /\ w \in Seq(Byte) /\ Len(w) = n + 1 /\ w[n + 1] = NUL
      /\ \A i \in 1 .. n : w[i] = a[i]
  BY <1>1, <1>2, AppendProperties
<1>4. n \in Nat /\ \A i \in 1 .. n : a[i] # NUL
  BY <1>1, <1>2 DEF NoNul
<1>5. CString(w) = a
  <2>1. w \in Seq(Byte) /\ n < Len(w) /\ w[n + 1] = NUL /\ \A i \in 1 .. n : w[i] = a[i] /\ a[i] # NUL
    BY <1>3, <1>4
  <2>2. Len(a) < Len(w) /\ w[Len(a) + 1] = NUL /\ \A i \in 1 .. Len(a) : w[i] = a[i] /\ a[i] # NUL
    BY <1>2, <2>1
  <2> QED
    BY <1>1, <2>1, <2>2, StringBefore
<1>6. /\ v \in Seq(Byte) /\ Len(v) = n + 2 /\ v[n + 1] = NUL
      /\ \A i \in 1 .. n : v[i] = a[i]
  <2>1. v \in Seq(Byte) /\ Len(v) = Len(w) + 1 /\ \A i \in 1 .. Len(w) : v[i] = w[i]
    BY <1>1, <1>2, <1>3, AppendProperties
  <2>2. \A i \in 1 .. n + 1 : v[i] = w[i]
    BY <1>3, <2>1
  <2>3. n + 1 \in 1 .. n + 1 /\ \A i \in 1 .. n : i \in 1 .. n + 1
    BY <1>4
  <2> QED
    BY <1>3, <1>4, <2>1, <2>2, <2>3
<1>7. CString(v) = a
  <2>1. v \in Seq(Byte) /\ n < Len(v) /\ v[n + 1] = NUL /\ \A i \in 1 .. n : v[i] = a[i] /\ a[i] # NUL
    BY <1>6, <1>4
  <2>2. Len(a) < Len(v) /\ v[Len(a) + 1] = NUL /\ \A i \in 1 .. Len(a) : v[i] = a[i] /\ a[i] # NUL
    BY <1>2, <2>1
  <2> QED
    BY <1>1, <2>1, <2>2, StringBefore
<1> QED
  BY <1>1, <1>2, <1>3, <1>5, <1>7 DEF Printed

(* recv returns all of what fits.                                          *)
LEMMA WholeReceived ==
  ASSUME Whole, NEW bytes \in Seq(Byte), NEW size \in Nat, Len(bytes) <= size,
         NEW n \in Received(bytes, size)
  PROVE  First(bytes, n) = bytes /\ AllBut(bytes, n) = <<>> /\ n \in 0 .. Len(bytes)
<1>1. Len(bytes) \in Nat /\ n = Len(bytes)
  BY LenProperties DEF Received, Smaller
<1>2. SubSeq(bytes, 1, Len(bytes)) = bytes
  BY SubSeqFull
<1>3. SubSeq(bytes, Len(bytes) + 1, Len(bytes)) = <<>>
  BY <1>1, SubSeqEmpty
<1> QED
  BY <1>1, <1>2, <1>3 DEF First, AllBut

-----------------------------------------------------------------------------
(* The one request of a client that has not left.                          *)
RequestOf(c) == client[c] # "gone" => OneRequest(c)

LEMMA SameRequest ==
  ASSUME NEW d \in Clients, RequestOf(d), Answered(d) \in Nat, Len(heap[d]) \in Nat,
         Replies(d)' = Replies(d), Answered(d)' = Answered(d), Len(heap'[d]) = Len(heap[d]),
         client'[d] = client[d], sent'[d] = sent[d], got'[d] = got[d], up'[d] = up[d],
         down'[d] = down[d], alive' => alive
  PROVE  RequestOf(d)'
<1>1. PICK n : n = Len(heap[d])
  OBVIOUS
<1>2. n \in Nat /\ Len(heap'[d]) = n
  BY <1>1
<1>3. n \in 1 .. n => Reply(d, n)' = Reply(d, n)
  <2>1. Replies(d)' = [k \in 1 .. n |-> Reply(d, k)'] /\ Replies(d) = [k \in 1 .. n |-> Reply(d, k)]
    BY <1>1, <1>2 DEF Replies
  <2> QED
    BY <2>1
<1>4. Answered(d) + 1 = n => n \in 1 .. n
  BY <1>2
<1>5. Reply(d, Len(heap[d]))' = Reply(d, n)'
  BY <1>2
<1>6. LastSent(d)' = LastSent(d)
  BY DEF LastSent
<1> QED
  BY <1>1, <1>2, <1>3, <1>4, <1>5, <1>6 DEF RequestOf, OneRequest

(* While the client waits, its text and its reply are as they should be.   *)
LEMMA WaitingText ==
  ASSUME MessagesWhole, NEW c \in Clients, client[c] = "recv", OneRequest(c)
  PROVE  LET text == LastSent(c) IN
         /\ text \in Texts[c] /\ NoNul(text) /\ NoNul(Answer(text))
         /\ Len(Answer(text)) = Len(text) /\ Len(text) < BufferSize /\ Len(text) < ReplyLimit
<1>1. LastSent(c) \in Texts[c]
  BY DEF OneRequest
<1>2. NoNul(LastSent(c)) /\ NoNul(Answer(LastSent(c)))
  BY <1>1, TextIsString
<1>3. Len(LastSent(c)) < BufferSize /\ Len(LastSent(c)) < ReplyLimit
  BY <1>1 DEF MessagesWhole
<1>4. Len(Answer(LastSent(c))) = Len(LastSent(c))
  BY <1>2, AnswerIs DEF NoNul
<1> QED
  BY <1>1, <1>2, <1>3, <1>4

(* The listening thread receives all of a request, and nothing else.       *)
LEMMA ListenRequest ==
  ASSUME MessagesWhole, PlacesInv, OrderInv, NEW c \in Clients,
         ListenReceives(c) \/ ListenReceivesNothing(c), \A d \in Clients : RequestOf(d)
  PROVE  \A d \in Clients : RequestOf(d)'
<1>1. /\ alive /\ alive' = alive /\ thread[<<"listen", c>>].at = "recv"
      /\ UNCHANGED <<queue, link, client, sent, got, down>>
      /\ \A d \in Clients : d # c => up'[d] = up[d]
  BY DEF ListenReceives, ListenReceivesNothing, At, networkVars, clientVars, PlacesInv, TypeOK, ClientTypeOK
<1>2. \A d \in Clients : InTurn(d) /\ OwnCapsules(d) /\ Departed(d)
  BY DEF OrderInv, Orderly
<1>3. PICK bytes \in Seq(Byte) : Encapsulate(c, bytes)
  <2>1. CASE ListenReceives(c)
    <3>1. PICK n \in Received(up[c], BufferSize) : Encapsulate(c, First(up[c], n))
      BY <2>1 DEF ListenReceives
    <3>2. up[c] \in Seq(Byte)
      BY DEF PlacesInv, TypeOK, ClientTypeOK
    <3>3. First(up[c], n) \in Seq(Byte)
      BY <3>2, AOServerAssumption, ReceivedRange, SplitTypes
    <3> QED
      BY <3>1, <3>3
  <2>2. CASE ListenReceivesNothing(c)
    BY <2>2, EmptySeq DEF ListenReceivesNothing
  <2> QED
    BY <2>1, <2>2
<1>4. \A d \in Clients : d # c => Untouched(d)
  BY <1>1, <1>2, <1>3, EncapsulateReplies
<1>5. ASSUME NEW d \in Clients, d # c PROVE RequestOf(d)'
  <2>1. Replies(d)' = Replies(d) /\ Answered(d)' = Answered(d) /\ heap'[d] = heap[d]
    BY <1>4, <1>5, ElsewhereInTurn DEF Untouched
  <2>2. Answered(d) \in Nat /\ Len(heap[d]) \in Nat
    BY <1>2, Counts DEF InTurn
  <2> QED
    BY <1>1, <1>5, <2>1, <2>2, SameRequest
<1>6. CASE client[c] = "gone"
  BY <1>1, <1>5, <1>6 DEF RequestOf
<1>7. CASE client[c] # "gone"
  <2>1. OneRequest(c) /\ ListenReceives(c) /\ up[c] # <<>>
    <3>1. link[c] \notin {"fin", "rst"}
      BY <1>2, <1>7 DEF Departed
    <3> QED
      BY <1>7, <3>1 DEF RequestOf, ListenReceives, ListenReceivesNothing
  <2>2. PICK text : text = LastSent(c)
    OBVIOUS
  <2>3. /\ client[c] = "recv" /\ up[c] = TextWithNul(text) /\ down[c] = <<>>
        /\ Answered(c) = Len(heap[c]) /\ Len(sent[c]) = Len(got[c]) + 1
        /\ text \in Texts[c]
    BY <1>1, <2>1, <2>2 DEF OneRequest
  <2>4. NoNul(text) /\ Len(text) < BufferSize
    BY <2>1, <2>2, <2>3, WaitingText
  <2>5. PICK w : w = TextWithNul(text)
    OBVIOUS
  <2>6. w \in Seq(Byte) /\ Len(w) <= BufferSize /\ w[Len(w)] = NUL /\ Len(w) \in 1 .. Len(w) /\ CString(w) = text
    <3>1. w \in Seq(Byte) /\ Len(w) = Len(text) + 1 /\ w[Len(text) + 1] = NUL /\ CString(w) = text /\ Len(text) \in Nat
      BY <2>4, <2>5, TerminatedString DEF TextWithNul
    <3> QED
      BY <2>4, <3>1, AOServerAssumption
  <2>7. Encapsulate(c, w) /\ up'[c] = <<>>
    <3>1. PICK n \in Received(w, BufferSize) :
            Encapsulate(c, First(w, n)) /\ up' = [up EXCEPT ![c] = AllBut(w, n)]
      BY <2>1, <2>3, <2>5 DEF ListenReceives, PlacesInv, TypeOK, ClientTypeOK
    <3>2. First(w, n) = w /\ AllBut(w, n) = <<>>
      BY <2>6, AOServerAssumption, WholeReceived DEF MessagesWhole
    <3> QED
      BY <3>1, <3>2 DEF PlacesInv, TypeOK, ClientTypeOK
  <2>8. PICK rest \in Unwritten(w) :
          /\ Replies(c)' = Append(Replies(c), Answer(CString(w \o rest)))
          /\ Answered(c)' = Answered(c) /\ Len(heap'[c]) = Len(heap[c]) + 1
    BY <1>1, <1>2, <2>6, <2>7, EncapsulateReplies
  <2>9. CString(w \o rest) = text
    <3>1. rest = <<>>
      BY <2>6 DEF Unwritten
    <3>2. w \o <<>> = w
      BY <2>6, ConcatEmptySeq
    <3> QED
      BY <2>6, <3>1, <3>2
  <2>10. PICK n \in Nat : n = Len(heap[c])
    BY Counts
  <2>11. Reply(c, n + 1)' = Answer(text)
    <3>1. PICK rs, x : rs = Replies(c) /\ x = Answer(text)
      OBVIOUS
    <3>2. rs \in Seq(Seq(Byte)) /\ Len(rs) = n /\ x \in Seq(Byte)
      BY <2>4, <2>10, <3>1, RepliesTypes, AnswerIs DEF NoNul
    <3>3. Append(rs, x)[n + 1] = x
      BY <3>2, AppendProperties
    <3>4. Replies(c)' = [k \in 1 .. n + 1 |-> Reply(c, k)']
      BY <2>8, <2>10 DEF Replies
    <3>5. n + 1 \in 1 .. n + 1
      BY <2>10
    <3>6. Replies(c)'[n + 1] = Reply(c, n + 1)'
      BY <3>4, <3>5
    <3> QED
      BY <2>8, <2>9, <3>1, <3>3, <3>6
  <2>12. Reply(c, Len(heap[c]))' = Answer(text)
    BY <2>8, <2>10, <2>11
  <2>13. /\ client'[c] = "recv" /\ up'[c] = <<>> /\ down'[c] = <<>>
         /\ Answered(c)' + 1 = Len(heap'[c]) /\ Len(sent'[c]) = Len(got'[c]) + 1
         /\ LastSent(c)' = text
    BY <1>1, <2>2, <2>3, <2>7, <2>8 DEF LastSent
  <2>14. OneRequest(c)'
    BY <2>3, <2>12, <2>13 DEF OneRequest
  <2> QED
    BY <1>5, <2>14 DEF RequestOf
<1> QED
  BY <1>6, <1>7

LEMMA SendAnswers ==
  ASSUME MessagesWhole, PlacesInv, OrderInv, NEW t \in ActiveObjects, send_message(t),
         \A d \in Clients : RequestOf(d)
  PROVE  \A d \in Clients : RequestOf(d)'
<1>1. \A d \in Clients : InTurn(d) /\ OwnCapsules(d)
  BY DEF OrderInv, Orderly
<1>2. PICK c : c = t[2] /\ c \in Clients
  BY DEF ActiveObjects
<1>3. PICK k, buffer : k = TakenToCipher(c) /\ buffer = heap[c][k].buffer
  OBVIOUS
<1>4. /\ Answered(c)' = k /\ Answered(c) + 1 = k /\ k \in 1 .. Len(heap[c]) /\ heap' = heap
      /\ \A d \in Clients : d # c => Untouched(d)
      /\ thread[<<"cipher", c>>].at # "before"
      /\ ServerSends(c, ReplyBytes(buffer))
  BY <1>1, <1>2, <1>3, SendInTurn
<1>5. UNCHANGED <<up, client, sent, got>> /\ alive /\ (alive' => alive)
  BY DEF send_message, clientVars
<1>6. \A d \in Clients : d # c => down'[d] = down[d]
  BY <1>4 DEF ServerSends, PlacesInv, TypeOK, ClientTypeOK
<1>7. Answered(c) \in Nat /\ TakenToCipher(c) \in Nat
  BY <1>1, <1>2, Stages
<1>8. Reply(c, k) = CString(buffer)
  <2>1. CipheredUpTo(c) = TakenToCipher(c)
    BY <1>4, <1>7 DEF CipheredUpTo, At
  <2>2. k <= CipheredUpTo(c)
    BY <1>3, <1>7, <2>1
  <2> QED
    BY <1>3, <2>2 DEF Reply
<1>9. ASSUME NEW d \in Clients, d # c PROVE RequestOf(d)'
  <2>1. Replies(d)' = Replies(d) /\ Answered(d)' = Answered(d)
    BY <1>1, <1>4, <1>9, ElsewhereInTurn
  <2>2. Answered(d) \in Nat /\ Len(heap[d]) \in Nat
    BY <1>1, Counts DEF InTurn
  <2> QED
    BY <1>4, <1>5, <1>6, <1>9, <2>1, <2>2, SameRequest
<1>10. CASE client[c] = "gone"
  BY <1>5, <1>9, <1>10 DEF RequestOf
<1>11. CASE client[c] # "gone"
  <2>1. OneRequest(c)
    BY <1>2, <1>11 DEF RequestOf
  <2>2. PICK text : text = LastSent(c)
    OBVIOUS
  <2>3. Answered(c) # Len(heap[c])
    BY <1>4, <1>7
  <2>4. /\ client[c] = "recv" /\ up[c] = <<>> /\ down[c] = <<>>
        /\ Answered(c) + 1 = Len(heap[c]) /\ Reply(c, Len(heap[c])) = Answer(text)
        /\ Len(sent[c]) = Len(got[c]) + 1 /\ text \in Texts[c]
    BY <1>5, <2>1, <2>2, <2>3 DEF OneRequest
  <2>5. Len(heap[c]) = k /\ CString(buffer) = Answer(text)
    BY <1>4, <1>8, <2>4
  <2>6. ReplyBytes(buffer) = Append(Answer(text), NUL)
    BY <2>5 DEF ReplyBytes
  <2>7. link[c] = "up"
    BY <1>2, <2>4 DEF PlacesInv, Connected
  <2>8. alive' = alive /\ down'[c] = Append(Answer(text), NUL)
    <3>1. alive' = alive /\ down' = [down EXCEPT ![c] = @ \o Append(Answer(text), NUL)]
      BY <1>4, <2>6, <2>7 DEF ServerSends
    <3>2. down'[c] = <<>> \o Append(Answer(text), NUL)
      BY <1>2, <2>4, <3>1 DEF PlacesInv, TypeOK, ClientTypeOK
    <3>3. Append(Answer(text), NUL) \in Seq(Byte)
      BY <1>2, <2>4, TextIsString, TerminatedString
    <3>4. PICK r \in Seq(Byte) : r = Append(Answer(text), NUL)
      BY <3>3
    <3>5. <<>> \o r = r
      BY ConcatEmptySeq
    <3> QED
      BY <3>1, <3>2, <3>4, <3>5
  <2>9. /\ client'[c] = "recv" /\ up'[c] = <<>> /\ Answered(c)' = Len(heap'[c])
        /\ Len(sent'[c]) = Len(got'[c]) + 1 /\ LastSent(c)' = text
    BY <1>4, <1>5, <2>2, <2>4, <2>5 DEF LastSent
  <2>10. OneRequest(c)'
    BY <2>4, <2>8, <2>9 DEF OneRequest
  <2> QED
    BY <1>9, <2>10 DEF RequestOf
<1> QED
  BY <1>10, <1>11

(* The client takes all of its reply.                                      *)
LEMMA ReplyReceived ==
  ASSUME MessagesWhole, ClientTypeOK, NEW c \in Clients, RecvReply(c), OneRequest(c)
  PROVE  LET reply == Append(Answer(LastSent(c)), NUL) IN
         /\ down[c] = reply /\ down'[c] = <<>> /\ got'[c] = Append(got[c], reply)
         /\ client'[c] = "prompt" /\ Len(got'[c]) = Len(got[c]) + 1
         /\ UNCHANGED <<alive, link, up, sent>>
         /\ \A d \in Clients : d # c => client'[d] = client[d] /\ got'[d] = got[d] /\ down'[d] = down[d]
<1>1. PICK reply : reply = Append(Answer(LastSent(c)), NUL)
  OBVIOUS
<1>2. client[c] = "recv" /\ down[c] = reply
  BY <1>1 DEF RecvReply, OneRequest
<1>3. reply \in Seq(Byte) /\ Len(reply) <= ReplyLimit /\ ReplyLimit \in Nat
  <2>1. NoNul(Answer(LastSent(c))) /\ Len(Answer(LastSent(c))) < ReplyLimit
    BY <1>2, WaitingText
  <2>2. reply \in Seq(Byte) /\ Len(reply) = Len(Answer(LastSent(c))) + 1 /\ Len(Answer(LastSent(c))) \in Nat
    BY <1>1, <2>1, TerminatedString
  <2>3. ReplyLimit \in Nat
    BY SelectClientAssumption DEF ReplyLimit
  <2> QED
    BY <2>1, <2>2, <2>3
<1>4. PICK n \in Received(reply, ReplyLimit) : ClientReceives(c, n)
  BY <1>2 DEF RecvReply
<1>5. First(down[c], n) = reply /\ AllBut(down[c], n) = <<>>
  BY <1>2, <1>3, WholeReceived DEF MessagesWhole
<1>6. /\ got' = [got EXCEPT ![c] = Append(got[c], reply)] /\ down' = [down EXCEPT ![c] = <<>>]
      /\ client' = [client EXCEPT ![c] = "prompt"] /\ UNCHANGED <<alive, link, up, sent>>
  BY <1>4, <1>5 DEF ClientReceives, ClientTypeOK
<1>7. Len(Append(got[c], reply)) = Len(got[c]) + 1
  BY <1>3, AppendProperties DEF ClientTypeOK
<1> QED
  BY <1>1, <1>2, <1>6, <1>7 DEF ClientTypeOK

(* Or nothing at all from a dead server.                                   *)
LEMMA NothingReceived ==
  ASSUME ClientTypeOK, NEW c \in Clients, RecvNothing(c), client'[c] # "gone"
  PROVE  /\ ~alive /\ client[c] = "recv" /\ client'[c] = "prompt"
         /\ down[c] = <<>> /\ down'[c] = <<>>
         /\ got'[c] = Append(got[c], <<>>) /\ Len(got'[c]) = Len(got[c]) + 1
         /\ UNCHANGED <<alive, link, up, sent>>
         /\ \A d \in Clients : d # c => client'[d] = client[d] /\ got'[d] = got[d] /\ down'[d] = down[d]
<1>1. client[c] = "recv" /\ down[c] = <<>> /\ ~alive /\ ClientReceives(c, 0)
  BY DEF RecvNothing, ClientTypeOK
<1>2. First(<<>>, 0) = <<>> /\ AllBut(<<>>, 0) = <<>>
  BY EmptySeq, SubSeqEmpty DEF First, AllBut
<1>3. /\ got' = [got EXCEPT ![c] = Append(got[c], <<>>)] /\ down' = [down EXCEPT ![c] = <<>>]
      /\ client' = [client EXCEPT ![c] = "prompt"] /\ UNCHANGED <<alive, link, up, sent>>
  BY <1>1, <1>2 DEF ClientReceives, ClientTypeOK
<1>4. Len(Append(got[c], <<>>)) = Len(got[c]) + 1
  BY EmptySeq, AppendProperties DEF ClientTypeOK
<1> QED
  BY <1>1, <1>3, <1>4 DEF ClientTypeOK

(* A request is made once the last one is done with.                       *)
LEMMA RequestMade ==
  ASSUME ClientTypeOK, NEW c \in Clients, SendRequest(c)
  PROVE  \E text \in Texts[c] :
            /\ client[c] = "prompt" /\ client' = [client EXCEPT ![c] = "recv"]
            /\ Len(sent[c]) < MaxRequests
            /\ sent' = [sent EXCEPT ![c] = Append(@, text)]
            /\ up' = IF alive THEN [up EXCEPT ![c] = @ \o TextWithNul(text)] ELSE up
            /\ sent'[c] = Append(sent[c], text) /\ Len(sent'[c]) = Len(sent[c]) + 1
            /\ sent'[c][Len(sent'[c])] = text
            /\ UNCHANGED <<alive, link, down, got>>
            /\ \A d \in Clients : d # c => client'[d] = client[d] /\ sent'[d] = sent[d] /\ up'[d] = up[d]
<1>1. PICK text \in Texts[c] :
        /\ sent' = [sent EXCEPT ![c] = Append(@, text)]
        /\ up' = IF alive THEN [up EXCEPT ![c] = @ \o TextWithNul(text)] ELSE up
  BY DEF SendRequest
<1>2. text \in Seq(Byte)
  BY TextIsString DEF NoNul
<1>3. sent'[c] = Append(sent[c], text) /\ sent[c] \in Seq(Seq(Byte))
  BY <1>1 DEF ClientTypeOK
<1>4. Len(Append(sent[c], text)) = Len(sent[c]) + 1 /\ Append(sent[c], text)[Len(sent[c]) + 1] = text
  BY <1>2, <1>3, AppendProperties
<1> QED
  BY <1>1, <1>3, <1>4 DEF SendRequest, ClientTypeOK

LEMMA ClientRequests ==
  ASSUME MessagesWhole, PlacesInv, OrderInv, NEW c \in Clients, ClientStep(c), UNCHANGED serverVars,
         \A d \in Clients : RequestOf(d)
  PROVE  \A d \in Clients : RequestOf(d)'
<1>1. UNCHANGED <<thread, queue, heap>>
  BY DEF serverVars
<1>2. /\ ClientTypeOK
      /\ \A d \in Clients : /\ Replies(d)' = Replies(d) /\ Answered(d)' = Answered(d)
                            /\ Len(heap'[d]) = Len(heap[d])
                            /\ Answered(d) \in Nat /\ Len(heap[d]) \in Nat
  BY <1>1, ElsewhereInTurn, Counts DEF Untouched, OrderInv, Orderly, InTurn, PlacesInv, TypeOK
<1>3. alive' = alive /\ \A d \in Clients : d # c =>
         client'[d] = client[d] /\ sent'[d] = sent[d] /\ got'[d] = got[d] /\ up'[d] = up[d] /\ down'[d] = down[d]
  BY <1>2 DEF ClientStep, Connect, SendRequest, SendFails, RecvReply, RecvNothing, ClientReceives, HangUp,
              networkVars, ClientTypeOK
<1>4. ASSUME NEW d \in Clients, d # c PROVE RequestOf(d)'
  BY <1>2, <1>3, <1>4, SameRequest
<1>5. RequestOf(c)'
  <2>1. CASE Connect(c)
    <3>1. /\ client[c] = "off" /\ client'[c] = "prompt"
          /\ sent'[c] = sent[c] /\ got'[c] = got[c] /\ up'[c] = up[c] /\ down'[c] = down[c]
      BY <1>2, <2>1 DEF Connect, ClientTypeOK
    <3> QED
      BY <1>2, <1>3, <3>1 DEF RequestOf, OneRequest
  <2>2. CASE SendRequest(c)
    <3>1. PICK text \in Texts[c] :
            /\ client[c] = "prompt" /\ client' = [client EXCEPT ![c] = "recv"]
            /\ up' = IF alive THEN [up EXCEPT ![c] = @ \o TextWithNul(text)] ELSE up
            /\ Len(sent'[c]) = Len(sent[c]) + 1 /\ sent'[c][Len(sent'[c])] = text
            /\ down' = down /\ got' = got
      BY <1>2, <2>2, RequestMade
    <3>2. /\ OneRequest(c) /\ client[c] # "recv" /\ client'[c] = "recv"
          /\ alive => up'[c] = up[c] \o TextWithNul(text)
      BY <1>2, <3>1 DEF RequestOf, ClientTypeOK
    <3>3. /\ Len(sent[c]) = Len(got[c]) /\ down[c] = <<>>
          /\ alive => up[c] = <<>> /\ Answered(c) = Len(heap[c])
      BY <3>2 DEF OneRequest
    <3>4. alive => up'[c] = TextWithNul(text)
      <4>1. PICK w \in Seq(Byte) : w = TextWithNul(text)
        BY TextIsString, TerminatedString DEF TextWithNul
      <4>2. <<>> \o w = w
        BY ConcatEmptySeq
      <4> QED
        BY <3>2, <3>3, <4>1, <4>2
    <3>5. LastSent(c)' = text
      BY <3>1 DEF LastSent
    <3>6. /\ Len(sent'[c]) = Len(got'[c]) + 1 /\ down'[c] = <<>>
          /\ alive' => Answered(c)' = Len(heap'[c])
      BY <1>2, <1>3, <3>1, <3>3
    <3> QED
      BY <1>3, <3>2, <3>4, <3>5, <3>6 DEF RequestOf, OneRequest
  <2>3. CASE RecvReply(c)
    <3>1. OneRequest(c)
      BY <2>3 DEF RecvReply, RequestOf
    <3>2. PICK reply : reply = Append(Answer(LastSent(c)), NUL)
      OBVIOUS
    <3>3. /\ client[c] = "recv" /\ down[c] # <<>>
          /\ down[c] = reply /\ down'[c] = <<>> /\ client'[c] = "prompt"
          /\ Len(got'[c]) = Len(got[c]) + 1 /\ UNCHANGED <<alive, up, sent>>
      BY <1>2, <2>3, <3>1, <3>2, ReplyReceived DEF RecvReply
    <3>4. Len(sent[c]) = Len(got[c]) + 1 /\ (alive => up[c] = <<>> /\ Answered(c) = Len(heap[c]))
      BY <3>1, <3>3 DEF OneRequest
    <3>5. Len(sent'[c]) = Len(got'[c])
      BY <3>3, <3>4
    <3> QED
      BY <1>2, <3>3, <3>4, <3>5 DEF RequestOf, OneRequest
  <2>4. CASE RecvNothing(c) /\ client'[c] # "gone"
    <3>1. /\ ~alive /\ client[c] = "recv" /\ client'[c] = "prompt" /\ down'[c] = <<>>
          /\ Len(got'[c]) = Len(got[c]) + 1 /\ UNCHANGED <<alive, up, sent>>
      BY <1>2, <2>4, NothingReceived
    <3>2. Len(sent[c]) = Len(got[c]) + 1
      BY <3>1 DEF RequestOf, OneRequest
    <3>3. Len(sent'[c]) = Len(got'[c])
      BY <3>1, <3>2
    <3> QED
      BY <3>1, <3>3 DEF RequestOf, OneRequest
  <2>5. CASE client'[c] = "gone"
    BY <2>5 DEF RequestOf
  <2>6. SendFails(c) \/ HangUp(c) => client'[c] = "gone"
    BY <1>2 DEF SendFails, HangUp, ClientTypeOK
  <2> QED
    BY <2>1, <2>2, <2>3, <2>4, <2>5, <2>6 DEF ClientStep
<1> QED
  BY <1>4, <1>5

(* While messages arrive whole, the request of a waiting client is in one  *)
(* place and its answer is the only reply there is.                        *)
THEOREM RequestInductive == Spec => []RequestInv
<1>1. Init => RequestInv
  <2> SUFFICES ASSUME Init, NEW c \in Clients PROVE OneRequest(c)
    BY DEF RequestInv
  <2>1. /\ client[c] = "off" /\ sent[c] = <<>> /\ got[c] = <<>> /\ up[c] = <<>> /\ down[c] = <<>>
        /\ heap[c] = <<>> /\ Len(heap[c]) = 0
    BY EmptySeq DEF Init, ClientInit
  <2>2. /\ \A r \in Roles : thread[<<r, c>>].at = "none"
        /\ Len(queue[<<"q2", c>>]) = 0 /\ Len(queue[<<"q3", c>>]) = 0
    BY EmptySeq DEF Init, Threads, Queues
  <2>3. Answered(c) = 0
    BY <2>1, <2>2 DEF Answered, TakenToCipher, HandedOn, TakenToConvert, Listened, InHand, Working, Roles
  <2> QED
    BY <2>1, <2>3 DEF OneRequest
<1>2. PlacesInv /\ OrderInv /\ RequestInv /\ [Next]_vars => RequestInv'
  <2> SUFFICES ASSUME PlacesInv, OrderInv, RequestInv, [Next]_vars, MessagesWhole, NEW c \in Clients
               PROVE  RequestOf(c)'
    BY DEF RequestInv, RequestOf, MessagesWhole
  <2>1. \A d \in Clients : RequestOf(d) /\ Answered(d) \in Nat /\ Len(heap[d]) \in Nat
    BY Counts DEF RequestInv, RequestOf, OrderInv, Orderly, InTurn
  <2>2. CASE \/ StartThread \/ \E d \in Clients : Accept(d) \/ ListenFails(d) \/ ListenEnQ(d)
             \/ \E t \in ActiveObjects : DeQ(t) \/ Before(t) \/ insert_to_queue(t)
    <3>1. /\ UNCHANGED <<alive, client, up, sent, got, down>>
          /\ Replies(c)' = Replies(c) /\ Answered(c)' = Answered(c) /\ Len(heap'[c]) = Len(heap[c])
      BY <2>2, QuietReplies DEF networkVars, clientVars
    <3> QED
      BY <2>1, <3>1, SameRequest
  <2>3. CASE \E d \in Clients : ListenReceives(d) \/ ListenReceivesNothing(d)
    BY <2>1, <2>3, ListenRequest
  <2>4. CASE \E t \in ActiveObjects : send_message(t)
    BY <2>1, <2>4, SendAnswers
  <2>5. CASE \E d \in Clients : ClientStep(d) /\ UNCHANGED serverVars
    BY <2>1, <2>5, ClientRequests
  <2>6. CASE UNCHANGED vars
    <3>1. UNCHANGED <<thread, queue, heap, alive, client, up, sent, got, down>>
      BY <2>6 DEF vars, serverVars, networkVars, clientVars
    <3>2. Replies(c)' = Replies(c) /\ Answered(c)' = Answered(c)
      BY <3>1, ElsewhereInTurn DEF Untouched
    <3> QED
      BY <2>1, <3>1, <3>2, SameRequest
  <2> QED
    BY <2>2, <2>3, <2>4, <2>5, <2>6 DEF Next, ListenStep, ActiveObjectStep
<1> QED
  BY <1>1, <1>2, PlacesInductive, OrderInductive, PTL DEF Spec

(* All of it, in every reachable state.                                    *)
THEOREM Inductive == Spec => []IInv
BY PlacesInductive, OrderInductive, LettersInductive, RequestInductive, PTL DEF IInv

-----------------------------------------------------------------------------
(* What the client of a whole-message server has been answered.            *)
Heard(c) == [i \in 1 .. Len(got[c]) |-> Printed(got[c][i])]

Absent == {c \in Clients : client[c] = "gone"}

LEMMA HeardLength ==
  ASSUME ClientTypeOK, NEW c \in Clients
  PROVE  Len(Heard(c)) = Len(got[c]) /\ Len(got[c]) \in Nat
<1>1. PICK n \in Nat : n = Len(got[c])
  BY LenProperties DEF ClientTypeOK
<1>2. PICK S : S = {Printed(got[c][i]) : i \in 1 .. n}
  OBVIOUS
<1>3. PICK h : h = Heard(c)
  OBVIOUS
<1>4. h \in [1 .. n -> S]
  BY <1>1, <1>2, <1>3 DEF Heard
<1>5. h \in Seq(S)
  BY <1>4, SeqDef
<1>6. Len(h) = n
  BY <1>4, <1>5, LenProperties
<1> QED
  BY <1>1, <1>3, <1>6

(* The printed texts are read in the order of the chunks.                  *)
LEMMA HeardOneMore ==
  ASSUME NEW g \in Seq(Seq(Byte)), NEW chunk \in Seq(Byte), NEW h, NEW after,
         h = [i \in 1 .. Len(g) |-> Printed(g[i])], NEW more, more = Append(g, chunk),
         after = [i \in 1 .. Len(more) |-> Printed(more[i])]
  PROVE  after = Append(h, Printed(chunk))
<1>1. PICK n \in Nat : n = Len(g)
  BY LenProperties
<1>2. Len(more) = n + 1 /\ more[n + 1] = chunk /\ \A i \in 1 .. n : more[i] = g[i]
  BY <1>1, AppendProperties
<1>3. PICK text : text = Printed(chunk)
  OBVIOUS
<1>4. PICK S : S = {Printed(g[i]) : i \in 1 .. n} \cup {text}
  OBVIOUS
<1>5. h \in [1 .. n -> S] /\ text \in S
  BY <1>1, <1>4
<1>6. h \in Seq(S) /\ Len(h) = n
  <2>1. h \in Seq(S)
    BY <1>5, SeqDef
  <2> QED
    BY <1>5, <2>1, LenProperties
<1>7. PICK a : a = Append(h, text)
  OBVIOUS
<1>8. /\ a \in Seq(S) /\ Len(a) = n + 1 /\ a[n + 1] = text /\ \A i \in 1 .. n : a[i] = h[i]
  BY <1>5, <1>6, <1>7, AppendProperties
<1>9. \A i \in 1 .. n + 1 : (i \in 1 .. n \/ i = n + 1)
  BY <1>1
<1>10. \A i \in 1 .. n + 1 : after[i] = a[i]
  <2>1. ASSUME NEW i \in 1 .. n + 1 PROVE after[i] = a[i]
    <3>1. after[i] = Printed(more[i])
      BY <1>2
    <3>2. CASE i \in 1 .. n
      BY <1>1, <1>2, <1>8, <3>1, <3>2
    <3>3. CASE i = n + 1
      BY <1>2, <1>3, <1>8, <3>1, <3>3
    <3> QED
      BY <1>9, <3>2, <3>3
  <2> QED
    BY <2>1
<1>11. a \in [1 .. n + 1 -> S]
  BY <1>8, LenProperties
<1>12. after = a
  BY <1>2, <1>10, <1>11
<1> QED
  BY <1>3, <1>7, <1>12

(* Steps that neither a user nor a client sees.                            *)
LEMMA EchoStutters ==
  ASSUME UNCHANGED <<sent, got, client, alive>>
  PROVE  UNCHANGED Echo!vars
<1>1. [c \in Clients |-> Heard(c)]' = [c \in Clients |-> Heard(c)] /\ Absent' = Absent
  BY DEF Heard, Absent
<1> QED
  BY <1>1 DEF Echo!vars, Heard, Absent

(* The functions the replies and the clients that left are read from.      *)
LEMMA HeardOf ==
  ASSUME ClientTypeOK, NEW c \in Clients, NEW chunk \in Seq(Byte),
         got' = [got EXCEPT ![c] = Append(@, chunk)]
  PROVE  LET replies == [d \in Clients |-> Heard(d)] IN
         replies' = [replies EXCEPT ![c] = Append(@, Printed(chunk))]
<1>1. Heard(c)' = Append(Heard(c), Printed(chunk))
  <2>1. got[c] \in Seq(Seq(Byte)) /\ got'[c] = Append(got[c], chunk)
    BY DEF ClientTypeOK
  <2>2. PICK h, after, more : h = Heard(c) /\ after = Heard(c)' /\ more = got'[c]
    OBVIOUS
  <2>3. h = [i \in 1 .. Len(got[c]) |-> Printed(got[c][i])] /\ after = [i \in 1 .. Len(more) |-> Printed(more[i])]
    BY <2>2 DEF Heard
  <2>4. after = Append(h, Printed(chunk))
    BY <2>1, <2>2, <2>3, HeardOneMore
  <2> QED
    BY <2>2, <2>4
<1>2. \A d \in Clients : d # c => Heard(d)' = Heard(d)
  BY DEF Heard, ClientTypeOK
<1> QED
  BY <1>1, <1>2

LEMMA SameAnswer == \A text : Echo!Answer(text) = Answer(text)
BY DEF Answer, Caesar, CaesarUpper, CaesarLower, OppositeCase, Lower, Upper,
       Echo!Answer, Echo!Caesar, Echo!CaesarUpper, Echo!CaesarLower, Echo!OppositeCase, Echo!Lower, Echo!Upper

(* A client's step is one of the service, or the service's silence.        *)
LEMMA ClientEchoes ==
  ASSUME MessagesWhole, IInv, NEW c \in Clients, ClientStep(c), UNCHANGED serverVars
  PROVE  [Echo!Next]_(Echo!vars)
<1>1. ClientTypeOK
  BY DEF IInv, PlacesInv, TypeOK
<1>2. CASE Connect(c)
  <2>1. UNCHANGED <<sent, got, alive>> /\ client[c] = "off" /\ client' = [client EXCEPT ![c] = "prompt"]
    BY <1>2 DEF Connect
  <2>2. Absent' = Absent
    BY <1>1, <2>1 DEF Absent, ClientTypeOK
  <2>3. [d \in Clients |-> Heard(d)]' = [d \in Clients |-> Heard(d)]
    BY <2>1 DEF Heard
  <2> QED
    BY <2>1, <2>2, <2>3 DEF Echo!vars, Heard, Absent
<1>3. CASE SendRequest(c)
  <2>1. PICK text \in Texts[c] :
          /\ client[c] = "prompt" /\ client' = [client EXCEPT ![c] = "recv"]
          /\ Len(sent[c]) < MaxRequests /\ sent' = [sent EXCEPT ![c] = Append(@, text)]
          /\ UNCHANGED <<alive, got>>
    BY <1>1, <1>3, RequestMade
  <2>2. Absent' = Absent /\ c \notin Absent
    BY <1>1, <2>1 DEF Absent, ClientTypeOK
  <2>3. [d \in Clients |-> Heard(d)]' = [d \in Clients |-> Heard(d)]
    BY <2>1 DEF Heard
  <2>4. Len(sent[c]) = Len(Heard(c))
    <3>1. OneRequest(c)
      BY <2>1 DEF IInv, RequestInv
    <3> QED
      BY <1>1, <2>1, <3>1, HeardLength DEF OneRequest
  <2>5. Len([d \in Clients |-> Heard(d)][c]) = Len(sent[c])
    BY <2>4
  <2>6. Echo!Request(c)
    BY <2>1, <2>2, <2>3, <2>5 DEF Echo!Request, Heard, Absent
  <2> QED
    BY <2>6 DEF Echo!Next
<1>4. CASE RecvReply(c) \/ (RecvNothing(c) /\ client'[c] # "gone")
  <2>1. client[c] = "recv" /\ client' = [client EXCEPT ![c] = "prompt"] /\ UNCHANGED <<alive, sent>>
    BY <1>1, <1>4 DEF RecvReply, RecvNothing, ClientReceives, ClientTypeOK
  <2>2. OneRequest(c)
    BY <2>1 DEF IInv, RequestInv
  <2>3. Absent' = Absent /\ c \notin Absent
    BY <1>1, <2>1 DEF Absent, ClientTypeOK
  <2>4. /\ Len(sent[c]) = Len(got[c]) + 1 /\ Len(Heard(c)) = Len(got[c]) /\ Len(got[c]) \in Nat
    BY <1>1, <2>1, <2>2, HeardLength DEF OneRequest
  <2>5. Len([d \in Clients |-> Heard(d)][c]) = Len(got[c])
    BY <2>4
  <2>6. Echo!Waiting(c)
    <3>1. c \notin Absent /\ Len([d \in Clients |-> Heard(d)][c]) < Len(sent[c])
      BY <2>3, <2>4, <2>5
    <3> QED
      BY <3>1 DEF Echo!Waiting, Heard, Absent
  <2>7. CASE RecvReply(c)
    <3>1. PICK text, reply : text = LastSent(c) /\ reply = Append(Answer(text), NUL)
      OBVIOUS
    <3>2. got'[c] = Append(got[c], reply)
      BY <1>1, <2>2, <2>7, <3>1, ReplyReceived
    <3>3. NoNul(Answer(text))
      BY <2>1, <2>2, <3>1, WaitingText
    <3>4. reply \in Seq(Byte) /\ Printed(reply) = Answer(text)
      BY <3>1, <3>3, TerminatedString
    <3>5. got' = [got EXCEPT ![c] = Append(@, reply)]
      <4>1. \E chunk : got' = [got EXCEPT ![c] = Append(@, chunk)]
        BY <2>7 DEF RecvReply, ClientReceives
      <4>2. got' = [got EXCEPT ![c] = got'[c]]
        BY <1>1, <4>1 DEF ClientTypeOK
      <4> QED
        BY <1>1, <3>2, <4>2 DEF ClientTypeOK
    <3>6. LET replies == [d \in Clients |-> Heard(d)] IN
          replies' = [replies EXCEPT ![c] = Append(@, Answer(text))]
      BY <1>1, <3>4, <3>5, HeardOf
    <3>7. text = sent[c][Len([d \in Clients |-> Heard(d)][c]) + 1]
      BY <2>4, <2>5, <3>1 DEF LastSent
    <3>8. LET replies == [d \in Clients |-> Heard(d)] IN
          replies' = [replies EXCEPT ![c] = Append(@, Answer(sent[c][Len(replies[c]) + 1]))]
      BY <3>6, <3>7
    <3>9. LET replies == [d \in Clients |-> Heard(d)] IN
          replies' = [replies EXCEPT ![c] = Append(@, Echo!Answer(sent[c][Len(replies[c]) + 1]))]
      BY <3>8, SameAnswer
    <3>10. Echo!Reply(c)
      BY <2>1, <2>3, <2>6, <3>9 DEF Echo!Reply, Heard, Absent
    <3> QED
      BY <3>10 DEF Echo!Next
  <2>8. CASE RecvNothing(c) /\ client'[c] # "gone"
    <3>1. ~alive /\ got'[c] = Append(got[c], <<>>)
      BY <1>1, <2>8, NothingReceived
    <3>2. got' = [got EXCEPT ![c] = Append(@, <<>>)]
      <4>1. \E chunk : got' = [got EXCEPT ![c] = Append(@, chunk)]
        BY <1>1, <2>8 DEF RecvNothing, ClientReceives, ClientTypeOK
      <4>2. got' = [got EXCEPT ![c] = got'[c]]
        BY <1>1, <4>1 DEF ClientTypeOK
      <4> QED
        BY <1>1, <3>1, <4>2 DEF ClientTypeOK
    <3>3. <<>> \in Seq(Byte) /\ Printed(<<>>) = <<>>
      <4>1. NoNul(<<>>)
        BY EmptySeq DEF NoNul
      <4>2. CString(Append(<<>>, NUL)) = <<>>
        BY <4>1, TerminatedString
      <4> QED
        BY <4>2, EmptySeq DEF Printed
    <3>4. LET replies == [d \in Clients |-> Heard(d)] IN
          replies' = [replies EXCEPT ![c] = Append(@, <<>>)]
      BY <1>1, <3>2, <3>3, HeardOf
    <3>5. Echo!Silence(c)
      BY <2>1, <2>3, <2>6, <3>1, <3>4 DEF Echo!Silence, Heard, Absent
    <3> QED
      BY <3>5 DEF Echo!Next
  <2> QED
    BY <1>4, <2>7, <2>8
<1>5. CASE client'[c] = "gone"
  <2>1. /\ UNCHANGED <<sent, got, alive>> /\ client' = [client EXCEPT ![c] = "gone"]
        /\ c \in Leaving \/ ~alive
    BY <1>1, <1>5 DEF ClientStep, Connect, SendRequest, SendFails, RecvReply, RecvNothing, ClientReceives, HangUp,
                      ClientTypeOK
  <2>2. Absent' = Absent \cup {c}
    BY <1>1, <2>1 DEF Absent, ClientTypeOK
  <2>3. [d \in Clients |-> Heard(d)]' = [d \in Clients |-> Heard(d)]
    BY <2>1 DEF Heard
  <2>4. Echo!Leave(c)
    BY <2>1, <2>2, <2>3 DEF Echo!Leave, Heard, Absent
  <2> QED
    BY <2>4 DEF Echo!Next
<1>6. SendFails(c) \/ HangUp(c) => client'[c] = "gone"
  BY <1>1 DEF SendFails, HangUp, ClientTypeOK
<1> QED
  BY <1>2, <1>3, <1>4, <1>5, <1>6 DEF ClientStep

(* A send that ends the server is to a client that left.                   *)
LEMMA SendEchoes ==
  ASSUME IInv, NEW t \in ActiveObjects, send_message(t)
  PROVE  [Echo!Next]_(Echo!vars)
<1>1. \A d \in Clients : InTurn(d) /\ OwnCapsules(d) /\ Departed(d)
  BY DEF IInv, OrderInv, Orderly
<1>2. PICK c : c = t[2] /\ c \in Clients
  BY DEF ActiveObjects
<1>3. PICK bytes : ServerSends(c, bytes)
  BY <1>1, <1>2, SendInTurn DEF IInv
<1>4. UNCHANGED <<sent, got, client>>
  BY DEF send_message, clientVars
<1>5. CASE alive' = alive
  BY <1>4, <1>5, EchoStutters
<1>6. CASE alive' # alive
  <2>1. alive' = FALSE /\ link[c] = "rst"
    <3>1. alive = TRUE
      BY DEF send_message, IInv, PlacesInv, TypeOK, ClientTypeOK
    <3>2. link[c] = "rst" /\ alive' \in BOOLEAN
      BY <1>3, <1>6 DEF ServerSends
    <3> QED
      BY <1>6, <3>1, <3>2
  <2>2. c \in Absent
    BY <1>1, <1>2, <2>1 DEF Departed, Absent
  <2>3. UNCHANGED <<[d \in Clients |-> Heard(d)], Absent>>
    BY <1>4 DEF Heard, Absent
  <2>4. Echo!BreakDown
    BY <1>4, <2>1, <2>2, <2>3 DEF Echo!BreakDown, Heard, Absent
  <2> QED
    BY <2>4 DEF Echo!Next
<1> QED
  BY <1>5, <1>6

(* Whatever the threads and the sockets do, while messages arrive whole    *)
(* the clients see EchoService: each request answered with its text        *)
(* converted and ciphered, before the next is made.                        *)
THEOREM RefinesEcho ==
  ASSUME MessagesWhole PROVE Spec => ImplementsEcho
<1>1. Init => Echo!Init
  <2> SUFFICES ASSUME Init PROVE Echo!Init
    OBVIOUS
  <2>1. sent = [c \in Clients |-> <<>>] /\ alive = TRUE /\ Absent = {}
    BY DEF Init, ClientInit, Absent
  <2>2. ASSUME NEW c \in Clients PROVE Heard(c) = <<>>
    <3>1. got[c] = <<>> /\ Len(got[c]) = 0
      BY EmptySeq DEF Init, ClientInit
    <3> QED
      BY <3>1 DEF Heard
  <2>3. [c \in Clients |-> Heard(c)] = [c \in Clients |-> <<>>]
    BY <2>2
  <2> QED
    BY <2>1, <2>3 DEF Echo!Init, Heard, Absent
<1>2. IInv /\ [Next]_vars => [Echo!Next]_(Echo!vars)
  <2> SUFFICES ASSUME IInv, [Next]_vars PROVE [Echo!Next]_(Echo!vars)
    OBVIOUS
  <2>1. CASE \/ StartThread \/ \E c \in Clients : Accept(c) \/ ListenStep(c)
             \/ \E t \in ActiveObjects : DeQ(t) \/ Before(t) \/ insert_to_queue(t)
    <3>1. UNCHANGED <<sent, got, client, alive>>
      BY <2>1 DEF StartThread, Accept, ListenStep, ListenReceives, ListenReceivesNothing, ListenFails, ListenEnQ,
                  DeQ, Before, insert_to_queue, clientVars, networkVars
    <3> QED
      BY <3>1, EchoStutters
  <2>2. CASE \E t \in ActiveObjects : send_message(t)
    BY <2>2, SendEchoes
  <2>3. CASE \E c \in Clients : ClientStep(c) /\ UNCHANGED serverVars
    BY <2>3, ClientEchoes
  <2>4. CASE UNCHANGED vars
    <3>1. UNCHANGED <<sent, got, client, alive>>
      BY <2>4 DEF vars, clientVars
    <3> QED
      BY <3>1, EchoStutters
  <2> QED
    BY <2>1, <2>2, <2>3, <2>4 DEF Next, ActiveObjectStep
<1> QED
  BY <1>1, <1>2, Inductive, PTL DEF Spec, ImplementsEcho, Echo!Spec
================================================================================
