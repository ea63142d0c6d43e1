----------------------------- MODULE QueueProofs -----------------------------
EXTENDS Queue, SequenceTheorems, TLAPS

(* The length of the list of Nodes, and what each Node holds.              *)
LEMMA NodeTypes ==
  ASSUME TypeOK
  PROVE  /\ Len(nodes) \in Nat
         /\ \A k \in 1 .. Len(nodes) :
               /\ nodes[k] \in NodeType
               /\ nodes[k].current[1] \in Producers
               /\ nodes[k].current[2] \in 1 .. MaxCalls
               /\ nodes[k].next \in Nat
<1>1. nodes \in Seq(NodeType)
  BY DEF TypeOK
<1>2. Len(nodes) \in Nat
  BY <1>1, LenProperties
<1>3. \A k \in 1 .. Len(nodes) : nodes[k] \in NodeType
  BY <1>1, ElementOfSeq
<1> QED
  BY <1>2, <1>3 DEF Member, NodeType

(* The first conjunct of induction.                                        *)
LEMMA InitIInv == Init => IInv
<1> SUFFICES ASSUME Init PROVE IInv
  OBVIOUS
<1> USE QueueAssumption DEF Init, Null
<1>1. TypeOK
  BY DEF TypeOK, Locations
<1>2. MutualExclusion
  BY DEF MutualExclusion, InCriticalSection
<1>3. Chain /\ Prefix /\ SizeCountsInsertions
  BY DEF Chain, Prefix, SizeCountsInsertions, Threads
<1>4. BranchValid /\ PopFindsNode
  BY DEF BranchValid, WalkStaysInList, PopFindsNode, Threads
<1>5. NoLostWakeup /\ LinkOrder
  BY DEF NoLostWakeup, LinkOrder, BeforeLinking, Sleepers, Threads
<1> QED
  BY <1>1, <1>2, <1>3, <1>4, <1>5 DEF IInv

(* The thread that gets the mutex is the only one in its critical section. *)
LEMMA AcquirePreserves ==
  ASSUME IInv, NEW t \in Threads, Acquire(t)
  PROVE  IInv'
<1> USE QueueAssumption DEF IInv, Acquire, MutexFree, Goto
<1>1. TypeOK'
  BY DEF TypeOK, Locations, InCriticalSection
<1>2. MutualExclusion'
  BY DEF MutualExclusion, InCriticalSection, TypeOK
<1>3. Chain' /\ Prefix'
  BY DEF Chain, Prefix
<1>4. SizeCountsInsertions' /\ BranchValid' /\ PopFindsNode'
  BY DEF SizeCountsInsertions, BranchValid, WalkStaysInList, PopFindsNode,
         TypeOK, Threads
<1>5. NoLostWakeup'
  BY DEF NoLostWakeup, Sleepers, TypeOK, Threads
<1>6. LinkOrder'
  BY DEF LinkOrder, BeforeLinking, TypeOK, Threads
<1> QED
  BY <1>1, <1>2, <1>3, <1>4, <1>5, <1>6

(* Leaving the critical section disturbs nothing but the owner.            *)
LEMMA UnlockPreserves ==
  ASSUME IInv, NEW t \in Threads, Unlock(t)
  PROVE  IInv'
<1> USE QueueAssumption DEF IInv, Unlock, Goto, Threads
<1>1. TypeOK'
  BY DEF TypeOK, Locations, InCriticalSection
<1>2. MutualExclusion'
  BY DEF MutualExclusion, InCriticalSection, TypeOK
<1>3. Chain' /\ Prefix'
  BY DEF Chain, Prefix
<1>4. SizeCountsInsertions' /\ BranchValid' /\ PopFindsNode'
  BY DEF SizeCountsInsertions, BranchValid, WalkStaysInList, PopFindsNode,
         TypeOK
<1>5. NoLostWakeup'
  BY DEF NoLostWakeup, Sleepers, TypeOK
<1>6. LinkOrder'
  BY DEF LinkOrder, BeforeLinking, TypeOK
<1> QED
  BY <1>1, <1>2, <1>3, <1>4, <1>5, <1>6

(* A new call raises the call number above every linked one.               *)
LEMMA EnQPreserves ==
  ASSUME IInv, NEW t \in Producers, EnQ(t)
  PROVE  IInv'
<1> USE QueueAssumption DEF IInv, EnQ, EnQEntry, Goto, Threads
<1>1. TypeOK'
  BY DEF TypeOK, Locations, InCriticalSection
<1>2. MutualExclusion'
  BY DEF MutualExclusion, InCriticalSection, TypeOK
<1>3. Chain' /\ Prefix'
  BY DEF Chain, Prefix
<1>4. SizeCountsInsertions' /\ BranchValid' /\ PopFindsNode'
  BY DEF SizeCountsInsertions, BranchValid, WalkStaysInList, PopFindsNode,
         TypeOK
<1>5. NoLostWakeup'
  BY DEF NoLostWakeup, Sleepers, TypeOK
<1>6. LinkOrder'
  BY NodeTypes, SMTT(30) DEF LinkOrder, BeforeLinking, TypeOK
<1> QED
  BY <1>1, <1>2, <1>3, <1>4, <1>5, <1>6

(* size goes up before the Node is linked; the branch taken fits head.     *)
LEMMA CountPreserves ==
  ASSUME IInv, NEW t \in Producers, Count(t)
  PROVE  IInv'
<1> USE QueueAssumption DEF IInv, Count, SizeIncremented, Goto, Threads
<1>1. TypeOK'
  <2>1. pc' \in [Threads -> Locations]
    BY DEF TypeOK, Locations, InCriticalSection
  <2>2. size' \in Nat /\ curr' \in [Threads -> Nat]
    BY DEF TypeOK
  <2> QED
    BY <2>1, <2>2 DEF TypeOK
<1>2. MutualExclusion'
  BY DEF MutualExclusion, InCriticalSection, TypeOK
<1>3. Chain' /\ Prefix'
  BY DEF Chain, Prefix
<1>4. SizeCountsInsertions' /\ BranchValid' /\ PopFindsNode'
  BY NodeTypes DEF SizeCountsInsertions, BranchValid, WalkStaysInList,
                   PopFindsNode, TypeOK, Chain, MutualExclusion,
                   InCriticalSection, Null
<1>5. NoLostWakeup'
  BY DEF NoLostWakeup, Sleepers, TypeOK
<1>6. LinkOrder'
  BY DEF LinkOrder, BeforeLinking, TypeOK
<1> QED
  BY <1>1, <1>2, <1>3, <1>4, <1>5, <1>6

(* curr moves to the next Node allocated, which the list still holds.      *)
LEMMA WalkPreserves ==
  ASSUME IInv, NEW t \in Producers, Walk(t)
  PROVE  IInv'
<1> USE QueueAssumption DEF IInv, Walk, Threads
<1>1. TypeOK'
  BY NodeTypes DEF TypeOK, BranchValid, WalkStaysInList, Null
<1>2. MutualExclusion'
  BY DEF MutualExclusion, InCriticalSection, TypeOK
<1>3. Chain' /\ Prefix'
  BY DEF Chain, Prefix
<1>4. SizeCountsInsertions' /\ PopFindsNode'
  BY DEF SizeCountsInsertions, PopFindsNode, TypeOK
<1>5. BranchValid'
  <2>1. head # Null /\ curr[t] \in head .. Len(nodes)
    BY DEF BranchValid, WalkStaysInList
  <2>2. curr[t] # Len(nodes)
    <3>1. Len(nodes) > 0
      BY <2>1, NodeTypes DEF TypeOK, Null
    <3>2. nodes[Len(nodes)].next = Null
      BY <3>1 DEF Chain
    <3> QED
      BY <3>2
  <2>3. nodes[curr[t]].next = curr[t] + 1
    <3>1. curr[t] \in head .. (Len(nodes) - 1)
      BY <2>1, <2>2, NodeTypes DEF TypeOK
    <3> QED
      BY <2>1, <3>1 DEF Chain
  <2>4. curr'[t] \in head .. Len(nodes)
    BY <2>1, <2>2, <2>3, NodeTypes DEF TypeOK
  <2> QED
    BY <2>1, <2>4 DEF BranchValid, WalkStaysInList, TypeOK
<1>6. NoLostWakeup'
  BY DEF NoLostWakeup, Sleepers, TypeOK
<1>7. LinkOrder'
  BY DEF LinkOrder, BeforeLinking, TypeOK
<1> QED
  BY <1>1, <1>2, <1>3, <1>4, <1>5, <1>6, <1>7

(* Nobody sleeps after the broadcast.                                      *)
LEMMA BroadcastPreserves ==
  ASSUME IInv, NEW t \in Producers, Broadcast(t)
  PROVE  IInv'
<1> USE QueueAssumption DEF IInv, Broadcast, Woken, Threads
<1>1. TypeOK'
  BY DEF TypeOK, Locations, InCriticalSection
<1>2. MutualExclusion'
  BY DEF MutualExclusion, InCriticalSection, TypeOK
<1>3. Chain' /\ Prefix'
  BY DEF Chain, Prefix
<1>4. SizeCountsInsertions' /\ BranchValid' /\ PopFindsNode'
  BY DEF SizeCountsInsertions, BranchValid, WalkStaysInList, PopFindsNode,
         TypeOK
<1>5. NoLostWakeup'
  BY DEF NoLostWakeup, Sleepers, TypeOK
<1>6. LinkOrder'
  BY DEF LinkOrder, BeforeLinking, TypeOK
<1> QED
  BY <1>1, <1>2, <1>3, <1>4, <1>5, <1>6

(* A call of deQ touches its caller only.                                  *)
LEMMA DeQPreserves ==
  ASSUME IInv, NEW t \in Consumers, DeQ(t)
  PROVE  IInv'
<1> USE QueueAssumption DEF IInv, DeQ, Goto, Threads
<1>1. TypeOK'
  BY DEF TypeOK, Locations, InCriticalSection
<1>2. MutualExclusion'
  BY DEF MutualExclusion, InCriticalSection, TypeOK
<1>3. Chain' /\ Prefix'
  BY DEF Chain, Prefix
<1>4. SizeCountsInsertions' /\ BranchValid' /\ PopFindsNode'
  BY DEF SizeCountsInsertions, BranchValid, WalkStaysInList, PopFindsNode,
         TypeOK
<1>5. NoLostWakeup'
  BY DEF NoLostWakeup, Sleepers, TypeOK
<1>6. LinkOrder'
  BY DEF LinkOrder, BeforeLinking, TypeOK
<1> QED
  BY <1>1, <1>2, <1>3, <1>4, <1>5, <1>6

(* A consumer that sleeps has just seen head null, under the mutex.        *)
LEMMA WaitPreserves ==
  ASSUME IInv, NEW t \in Consumers, Wait(t)
  PROVE  IInv'
<1> USE QueueAssumption DEF IInv, Wait, Goto, Empty, Threads
<1>1. TypeOK'
  BY DEF TypeOK, Locations, InCriticalSection
<1>2. MutualExclusion'
  BY DEF MutualExclusion, InCriticalSection, TypeOK
<1>3. Chain' /\ Prefix'
  BY DEF Chain, Prefix
<1>4. SizeCountsInsertions' /\ BranchValid' /\ PopFindsNode'
  BY DEF SizeCountsInsertions, BranchValid, WalkStaysInList, PopFindsNode,
         TypeOK
<1>5. NoLostWakeup'
  BY NodeTypes DEF NoLostWakeup, Sleepers, TypeOK, SizeCountsInsertions,
                   Chain, Null
<1>6. LinkOrder'
  BY DEF LinkOrder, BeforeLinking, TypeOK
<1> QED
  BY <1>1, <1>2, <1>3, <1>4, <1>5, <1>6

(* Waking for nothing is harmless: the test is made again.                 *)
LEMMA SpuriousWakeupPreserves ==
  ASSUME IInv, NEW t \in Consumers, SpuriousWakeup(t)
  PROVE  IInv'
<1> USE QueueAssumption DEF IInv, SpuriousWakeup, Goto, Threads
<1>1. TypeOK'
  BY DEF TypeOK, Locations, InCriticalSection
<1>2. MutualExclusion'
  BY DEF MutualExclusion, InCriticalSection, TypeOK
<1>3. Chain' /\ Prefix'
  BY DEF Chain, Prefix
<1>4. SizeCountsInsertions' /\ BranchValid' /\ PopFindsNode'
  BY DEF SizeCountsInsertions, BranchValid, WalkStaysInList, PopFindsNode,
         TypeOK
<1>5. NoLostWakeup'
  BY DEF NoLostWakeup, Sleepers, TypeOK
<1>6. LinkOrder'
  BY DEF LinkOrder, BeforeLinking, TypeOK
<1> QED
  BY <1>1, <1>2, <1>3, <1>4, <1>5, <1>6

(* The list the consumer has tested is not empty.                          *)
LEMMA ProceedPreserves ==
  ASSUME IInv, NEW t \in Consumers, Proceed(t)
  PROVE  IInv'
<1> USE QueueAssumption DEF IInv, Proceed, Goto, Empty, Threads
<1>1. TypeOK'
  BY DEF TypeOK, Locations, InCriticalSection
<1>2. MutualExclusion'
  BY DEF MutualExclusion, InCriticalSection, TypeOK
<1>3. Chain' /\ Prefix'
  BY DEF Chain, Prefix
<1>4. SizeCountsInsertions' /\ BranchValid' /\ PopFindsNode'
  BY NodeTypes DEF SizeCountsInsertions, BranchValid, WalkStaysInList,
                   PopFindsNode, TypeOK, Chain, MutualExclusion,
                   InCriticalSection, Null
<1>5. NoLostWakeup'
  BY DEF NoLostWakeup, Sleepers, TypeOK
<1>6. LinkOrder'
  BY DEF LinkOrder, BeforeLinking, TypeOK
<1> QED
  BY <1>1, <1>2, <1>3, <1>4, <1>5, <1>6

(* A producer about to link its Node links a fresh member.                 *)
LEMMA FreshMember ==
  ASSUME IInv, NEW t \in Producers, pc[t] \in BeforeLinking
  PROVE  /\ <<t, calls[t]>> \in Member
         /\ Node(<<t, calls[t]>>) \in NodeType
         /\ Node(<<t, calls[t]>>).current = <<t, calls[t]>>
         /\ Node(<<t, calls[t]>>).next = Null
<1>1. calls[t] \in 1 .. MaxCalls
  BY QueueAssumption DEF IInv, TypeOK, LinkOrder
<1> QED
  BY <1>1 DEF Member, Node, NodeType, Null

(* Linking the member of the call under way, last, keeps LinkOrder.        *)
LEMMA LinkingKeepsOrder ==
  ASSUME IInv, NEW t \in Producers, pc[t] \in BeforeLinking,
         pc' = [pc EXCEPT ![t] = "enq_cast"], calls' = calls,
         Len(nodes') = Len(nodes) + 1,
         \A k \in 1 .. Len(nodes) : nodes'[k].current = nodes[k].current,
         nodes'[Len(nodes) + 1].current = <<t, calls[t]>>
  PROVE  LinkOrder'
<1> USE DEF IInv
<1>0. Len(nodes) \in Nat /\ pc \in [Threads -> Locations]
  BY NodeTypes DEF TypeOK
<1>1. \A k \in 1 .. Len(nodes') : k \in 1 .. Len(nodes) \/ k = Len(nodes) + 1
  BY <1>0
<1>2. ASSUME NEW i \in 1 .. Len(nodes'), NEW j \in 1 .. Len(nodes'),
             i < j, nodes'[i].current[1] = nodes'[j].current[1]
      PROVE  nodes'[i].current[2] < nodes'[j].current[2]
  <2>1. i \in 1 .. Len(nodes)
    BY <1>0, <1>2
  <2>2. CASE j \in 1 .. Len(nodes)
    BY <1>2, <2>1, <2>2 DEF LinkOrder
  <2>3. CASE j = Len(nodes) + 1
    BY <1>2, <2>1, <2>3 DEF LinkOrder
  <2> QED
    BY <1>1, <2>2, <2>3
<1>3. \A p \in Producers :
         pc'[p] \in BeforeLinking => p # t /\ pc[p] \in BeforeLinking
  BY <1>0 DEF BeforeLinking, Threads
<1>4. ASSUME NEW i \in 1 .. Len(nodes'), NEW p \in Producers,
             nodes'[i].current[1] = p
      PROVE  /\ nodes'[i].current[2] <= calls'[p]
             /\ pc'[p] \in BeforeLinking => nodes'[i].current[2] < calls'[p]
  <2>1. CASE i \in 1 .. Len(nodes)
    BY <1>3, <1>4, <2>1 DEF LinkOrder
  <2>2. CASE i = Len(nodes) + 1
    <3>1. p = t /\ nodes'[i].current[2] = calls[t]
      BY <1>4, <2>2
    <3> QED
      BY <1>3, <3>1 DEF TypeOK
  <2> QED
    BY <1>1, <2>1, <2>2
<1>5. \A p \in Producers : pc'[p] \in BeforeLinking => calls'[p] > 0
  BY <1>3 DEF LinkOrder
<1> QED
  BY <1>2, <1>4, <1>5 DEF LinkOrder

(* An empty list gets its first Node; a broadcast follows.                 *)
LEMMA InsertFirstPreserves ==
  ASSUME IInv, NEW t \in Producers, InsertFirst(t)
  PROVE  IInv'
<1> DEFINE m == <<t, calls[t]>>
<1> USE QueueAssumption DEF IInv, InsertFirst, Goto, Threads
<1>1. head = Null /\ Len(nodes) \in Nat
  BY NodeTypes DEF BranchValid
<1>2. pc[t] \in BeforeLinking
  BY DEF BeforeLinking
<1>3. /\ nodes' \in Seq(NodeType)
      /\ Len(nodes') = Len(nodes) + 1
      /\ \A k \in 1 .. Len(nodes) : nodes'[k] = nodes[k]
      /\ nodes'[Len(nodes) + 1] = Node(m)
  BY <1>2, FreshMember, AppendProperties DEF TypeOK
<1>4. nodes'[Len(nodes) + 1].current = m /\ nodes'[Len(nodes) + 1].next = Null
  BY <1>2, <1>3, FreshMember
<1> HIDE DEF m
<1>5. TypeOK'
  BY <1>1, <1>3 DEF TypeOK, Locations, InCriticalSection
<1>6. MutualExclusion'
  BY DEF MutualExclusion, InCriticalSection, TypeOK
<1>7. Chain'
  BY <1>1, <1>3, <1>4 DEF Chain
<1>8. Prefix'
  <2>1. Len(out) = Len(nodes) /\ out' = out /\ head' = Len(nodes) + 1
    BY <1>1 DEF Prefix
  <2>2. head' # Null
    BY <1>1, <2>1 DEF Null
  <2>3. \A i \in 1 .. Len(out) : out[i].member = nodes'[i].current
    BY <1>3, <2>1 DEF Prefix
  <2> QED
    BY <1>1, <2>1, <2>2, <2>3 DEF Prefix
<1>9. SizeCountsInsertions'
  BY <1>1, <1>3 DEF SizeCountsInsertions, MutualExclusion, InCriticalSection,
                    TypeOK
<1>10. BranchValid' /\ PopFindsNode' /\ NoLostWakeup'
  BY <1>1, <1>3 DEF BranchValid, WalkStaysInList, PopFindsNode, NoLostWakeup,
                    MutualExclusion, InCriticalSection, TypeOK
<1>11. LinkOrder'
  BY <1>2, <1>3, <1>4, LinkingKeepsOrder DEF m
<1> QED
  BY <1>5, <1>6, <1>7, <1>8, <1>9, <1>10, <1>11

(* Setting the next field of a Node.                                       *)
LEMMA RelinkedNode ==
  ASSUME NEW n \in NodeType, NEW k \in Nat
  PROVE  /\ [n EXCEPT !.next = k] \in NodeType
         /\ [n EXCEPT !.next = k].current = n.current
         /\ [n EXCEPT !.next = k].next = k
BY DEF NodeType

(* The walk of enQ ends at the last Node allocated, and the new Node goes  *)
(* behind it.                                                              *)
LEMMA InsertLastEffect ==
  ASSUME IInv, NEW t \in Producers, InsertLast(t)
  PROVE  /\ head # Null /\ head \in 1 .. Len(nodes)
         /\ Len(nodes) \in Nat
         /\ curr[t] = Len(nodes)
         /\ nodes' \in Seq(NodeType)
         /\ Len(nodes') = Len(nodes) + 1
         /\ nodes'[Len(nodes) + 1].current = <<t, calls[t]>>
         /\ nodes'[Len(nodes) + 1].next = Null
         /\ \A k \in 1 .. Len(nodes) :
               /\ nodes'[k].current = nodes[k].current
               /\ nodes'[k].next = IF k = Len(nodes) THEN k + 1
                                   ELSE nodes[k].next
<1> DEFINE m == <<t, calls[t]>>
           linked == [nodes EXCEPT ![curr[t]].next = Len(nodes) + 1]
<1> USE QueueAssumption DEF IInv, InsertLast, TailReached, Goto, Threads
<1>1. /\ head # Null
      /\ Len(nodes) \in Nat
      /\ curr[t] \in head .. Len(nodes)
  BY NodeTypes DEF BranchValid, WalkStaysInList
<1>2. pc[t] \in BeforeLinking
  BY DEF BeforeLinking
(* The walk has stopped at the last Node allocated.                        *)
<1>3. curr[t] = Len(nodes) /\ curr[t] \in 1 .. Len(nodes)
  <2>1. curr[t] \in 1 .. Len(nodes)
    BY <1>1 DEF TypeOK, Null
  <2>2. ASSUME curr[t] # Len(nodes) PROVE FALSE
    <3>1. curr[t] \in head .. (Len(nodes) - 1)
      BY <1>1, <2>1, <2>2 DEF TypeOK
    <3>2. nodes[curr[t]].next = curr[t] + 1
      BY <1>1, <3>1 DEF Chain
    <3> QED
      BY <2>1, <3>2 DEF Null
  <2> QED
    BY <2>1, <2>2
<1>4. /\ linked \in Seq(NodeType)
      /\ Len(linked) = Len(nodes)
      /\ \A k \in 1 .. Len(nodes) :
            linked[k] = IF k = curr[t] THEN [nodes[k] EXCEPT !.next = Len(nodes) + 1]
                        ELSE nodes[k]
  <2>1. nodes \in Seq(NodeType) /\ nodes[curr[t]] \in NodeType
    BY <1>3, NodeTypes DEF TypeOK
  <2>2. [nodes[curr[t]] EXCEPT !.next = Len(nodes) + 1] \in NodeType
    <3>1. Len(nodes) + 1 \in Nat
      BY <1>1
    <3> QED
      BY <2>1, <3>1, RelinkedNode, Zenon
  <2>3. linked = [nodes EXCEPT ![curr[t]] =
                     [nodes[curr[t]] EXCEPT !.next = Len(nodes) + 1]]
    OBVIOUS
  <2> HIDE DEF linked
  <2> QED
    BY <1>3, <2>1, <2>2, <2>3, ExceptSeq
<1>5. \A k \in 1 .. Len(nodes) :
         /\ linked[k].current = nodes[k].current
         /\ linked[k].next = IF k = Len(nodes) THEN k + 1 ELSE nodes[k].next
  BY <1>1, <1>3, <1>4, NodeTypes
<1>6. /\ nodes' \in Seq(NodeType)
      /\ Len(nodes') = Len(nodes) + 1
      /\ \A k \in 1 .. Len(nodes) : nodes'[k] = linked[k]
      /\ nodes'[Len(nodes) + 1] = Node(m)
  BY <1>2, <1>4, FreshMember, AppendProperties
<1>7. /\ nodes'[Len(nodes) + 1].current = m
      /\ nodes'[Len(nodes) + 1].next = Null
      /\ \A k \in 1 .. Len(nodes) :
            /\ nodes'[k].current = nodes[k].current
            /\ nodes'[k].next = IF k = Len(nodes) THEN k + 1 ELSE nodes[k].next
  BY <1>2, <1>5, <1>6, FreshMember
<1>8. head \in 1 .. Len(nodes)
  BY <1>1 DEF TypeOK, Null
<1> QED
  BY <1>1, <1>3, <1>6, <1>7, <1>8 DEF m

(* The tail gets a successor; a broadcast follows.                         *)
LEMMA InsertLastPreserves ==
  ASSUME IInv, NEW t \in Producers, InsertLast(t)
  PROVE  IInv'
<1> USE QueueAssumption DEF IInv, Threads
<1>1. /\ head # Null /\ head \in 1 .. Len(nodes)
      /\ Len(nodes) \in Nat
      /\ nodes' \in Seq(NodeType)
      /\ Len(nodes') = Len(nodes) + 1
      /\ nodes'[Len(nodes) + 1].current = <<t, calls[t]>>
      /\ nodes'[Len(nodes) + 1].next = Null
      /\ \A k \in 1 .. Len(nodes) :
            /\ nodes'[k].current = nodes[k].current
            /\ nodes'[k].next = IF k = Len(nodes) THEN k + 1 ELSE nodes[k].next
  BY InsertLastEffect
<1>2. pc' = [pc EXCEPT ![t] = "enq_cast"] /\ pc \in [Threads -> Locations]
  BY DEF IInv, TypeOK, InsertLast, Goto
<1>3. UNCHANGED <<head, size, lock, curr, calls, out>> /\ pc[t] = "enq_walk"
  BY DEF InsertLast, Goto
<1>4. TypeOK'
  BY <1>1, <1>2, <1>3 DEF TypeOK, Locations, InCriticalSection
<1>5. MutualExclusion'
  BY <1>2, <1>3 DEF MutualExclusion, InCriticalSection
<1>6. Chain'
  <2>1. head' \in 0 .. Len(nodes') /\ Len(nodes') > 0
    BY <1>1, <1>3 DEF Chain
  <2>2. nodes'[Len(nodes')].next = Null
    BY <1>1
  <2>3. ASSUME NEW k \in head' .. (Len(nodes') - 1)
        PROVE  nodes'[k].next = k + 1
    <3>1. k \in head .. Len(nodes) /\ k \in 1 .. Len(nodes)
      BY <1>1, <1>3 DEF TypeOK, Null
    <3>2. k # Len(nodes) => nodes[k].next = k + 1
      BY <1>1, <3>1 DEF Chain, TypeOK
    <3> QED
      BY <1>1, <3>1, <3>2
  <2> QED
    BY <2>1, <2>2, <2>3 DEF Chain
<1>7. Prefix'
  <2>1. Len(out) = head - 1 /\ out' = out /\ head' = head /\ head' # Null
    BY <1>1, <1>3 DEF Prefix
  <2>2. \A i \in 1 .. Len(out) : i \in 1 .. Len(nodes)
    BY <1>1, <2>1 DEF Chain, TypeOK
  <2> QED
    BY <1>1, <2>1, <2>2 DEF Prefix
<1>8. SizeCountsInsertions'
  BY <1>1, <1>2, <1>3
     DEF SizeCountsInsertions, MutualExclusion, InCriticalSection, TypeOK
<1>9. BranchValid' /\ PopFindsNode'
  BY <1>1, <1>2, <1>3
     DEF BranchValid, WalkStaysInList, PopFindsNode, MutualExclusion,
         InCriticalSection, TypeOK
<1>10. NoLostWakeup'
  BY <1>2 DEF NoLostWakeup
<1>11. LinkOrder'
  BY <1>1, <1>2, <1>3, LinkingKeepsOrder DEF BeforeLinking
<1> QED
  BY <1>4, <1>5, <1>6, <1>7, <1>8, <1>9, <1>10, <1>11

(* head moves on by one Node, the history by one member.                   *)
LEMMA PrivateDeQPreserves ==
  ASSUME IInv, NEW t \in Consumers, PrivateDeQ(t)
  PROVE  IInv'
<1> DEFINE taken == [by |-> t, member |-> nodes[head].current]
<1> USE QueueAssumption DEF IInv, PrivateDeQ, NextOfHead, Goto, Threads
<1>1. Len(nodes) \in Nat /\ head \in 1 .. Len(nodes) /\ head # Null
  BY NodeTypes DEF PopFindsNode, Null
<1>2. taken \in [by : Consumers, member : Member]
  BY <1>1, NodeTypes DEF NodeType
<1>3. head' = IF head = Len(nodes) THEN Null ELSE head + 1
  <2>1. CASE head = Len(nodes)
    BY <1>1, <2>1 DEF Chain
  <2>2. CASE head # Len(nodes)
    BY <1>1, <2>2 DEF Chain
  <2> QED
    BY <2>1, <2>2
<1>4. Len(out) = head - 1 /\ Len(out) \in Nat
  BY <1>1, LenProperties DEF Prefix, TypeOK
<1>5. /\ out' \in Seq([by : Consumers, member : Member])
      /\ Len(out') = head
      /\ \A i \in 1 .. Len(out) : out'[i] = out[i]
      /\ out'[head] = taken
  BY <1>1, <1>2, <1>4, AppendProperties DEF TypeOK
<1>6. /\ UNCHANGED <<nodes, size, lock, curr, calls>>
      /\ pc' = [pc EXCEPT ![t] = "deq_unlock"] /\ pc \in [Threads -> Locations]
      /\ pc[t] = "deq_pop"
  BY DEF TypeOK
<1> HIDE DEF PrivateDeQ
<1>7. TypeOK'
  BY <1>1, <1>3, <1>5, <1>6 DEF TypeOK, Locations, InCriticalSection, Null
<1>8. MutualExclusion'
  BY <1>6 DEF MutualExclusion, InCriticalSection
<1>9. Chain'
  BY <1>1, <1>3, <1>6 DEF Chain, Null
<1>10. Prefix'
  <2>1. Len(out') = IF head' = Null THEN Len(nodes') ELSE head' - 1
    BY <1>1, <1>3, <1>5, <1>6 DEF Null
  <2>2. \A i \in 1 .. Len(out') : i \in 1 .. Len(out) \/ i = head
    BY <1>1, <1>4, <1>5
  <2>3. out'[head].member = nodes[head].current
    BY <1>5
  <2> QED
    BY <1>5, <1>6, <2>1, <2>2, <2>3 DEF Prefix
<1>11. SizeCountsInsertions' /\ PopFindsNode' /\ BranchValid'
  BY <1>6 DEF SizeCountsInsertions, PopFindsNode, BranchValid,
              WalkStaysInList, MutualExclusion, InCriticalSection
<1>12. NoLostWakeup'
  BY <1>1, <1>6 DEF NoLostWakeup, Sleepers
<1>13. LinkOrder'
  BY <1>6 DEF LinkOrder, BeforeLinking
<1> QED
  BY <1>7, <1>8, <1>9, <1>10, <1>11, <1>12, <1>13

-----------------------------------------------------------------------------
(* Every step preserves the inductive invariant.                           *)
LEMMA NextIInv == IInv /\ [Next]_vars => IInv'
<1> SUFFICES ASSUME IInv, [Next]_vars PROVE IInv'
  OBVIOUS
<1>1. ASSUME NEW t \in Producers, EnqStep(t) PROVE IInv'
  BY <1>1, EnQPreserves, CountPreserves, InsertFirstPreserves, WalkPreserves,
     InsertLastPreserves, BroadcastPreserves DEF EnqStep
<1>2. ASSUME NEW t \in Consumers, DeqStep(t) PROVE IInv'
  BY <1>2, DeQPreserves, WaitPreserves, SpuriousWakeupPreserves,
     ProceedPreserves, PrivateDeQPreserves DEF DeqStep
<1>3. ASSUME NEW t \in Threads, Acquire(t) \/ Unlock(t) PROVE IInv'
  BY <1>3, AcquirePreserves, UnlockPreserves
<1>4. CASE UNCHANGED vars
  <2> USE <1>4 DEF vars
  <2>1. TypeOK' /\ MutualExclusion' /\ Chain' /\ Prefix'
    BY DEF IInv, TypeOK, MutualExclusion, Chain, Prefix
  <2>2. SizeCountsInsertions' /\ BranchValid' /\ PopFindsNode'
    BY DEF IInv, SizeCountsInsertions, BranchValid, WalkStaysInList,
           PopFindsNode
  <2>3. NoLostWakeup' /\ LinkOrder'
    BY DEF IInv, NoLostWakeup, Sleepers, LinkOrder
  <2> QED
    BY <2>1, <2>2, <2>3 DEF IInv
<1> QED
  BY <1>1, <1>2, <1>3, <1>4 DEF Next

(***************************************************************************)
(* The inductive invariant holds of the queue for any sets of producers    *)
(* and consumers, a thread in both included, and any number of calls.      *)
(***************************************************************************)
THEOREM Invariance == Spec => []IInv
<1>1. Init => IInv
  BY InitIInv
<1>2. IInv /\ [Next]_vars => IInv'
  BY NextIInv
<1> QED
  BY <1>1, <1>2, PTL DEF Spec

(***************************************************************************)
(* Type correctness.                                                       *)
(***************************************************************************)
THEOREM TypeCorrect == Spec => []TypeOK
<1>1. IInv => TypeOK
  BY DEF IInv
<1> QED
  BY <1>1, Invariance, PTL

(***************************************************************************)
(* No wakeup is lost, spurious wakeups and any number of sleepers          *)
(* included (enQ broadcasts after the insertion and before the unlock).    *)
(***************************************************************************)
THEOREM NoWakeupLost == Spec => []NoLostWakeup
<1>1. IInv => NoLostWakeup
  BY DEF IInv
<1> QED
  BY <1>1, Invariance, PTL

(***************************************************************************)
(* private_deQ never dereferences a null head.                             *)
(***************************************************************************)
THEOREM PopIsValid == Spec => []PopFindsNode
<1>1. IInv => PopFindsNode
  BY DEF IInv
<1> QED
  BY <1>1, Invariance, PTL

(***************************************************************************)
(* enQ's walk to the last Node never leaves the list.                      *)
(***************************************************************************)
THEOREM WalkIsValid == Spec => []WalkStaysInList
<1>1. IInv => WalkStaysInList
  BY DEF IInv, BranchValid
<1> QED
  BY <1>1, Invariance, PTL

(***************************************************************************)
(* Members of one producer are taken once each and in the order of its     *)
(* calls.                                                                  *)
(***************************************************************************)
THEOREM TakenInProducerOrder == Spec => []ProducerOrder
<1>1. ASSUME IInv PROVE ProducerOrder
  <2>1. \A i \in 1 .. Len(out) : i \in 1 .. Len(nodes)
    BY <1>1, NodeTypes DEF IInv, Prefix, Chain, TypeOK, Null
  <2> QED
    BY <1>1, <2>1 DEF IInv, ProducerOrder, Prefix, LinkOrder
<1> QED
  BY <1>1, Invariance, PTL

(***************************************************************************)
(* Only the owner of the mutex writes head, size and the list.             *)
(***************************************************************************)
THEOREM WritesGuarded == Spec => GuardedWrites
<1> DEFINE Guarded == lock # NoThread /\ lock' = lock /\ pc'[lock] # pc[lock]
<1>1. ASSUME IInv, [Next]_vars PROVE [Guarded]_<<nodes, head, size>>
  <2> USE <1>1
  <2>1. pc \in [Threads -> Locations]
    BY DEF IInv, TypeOK
  <2>2. ASSUME NEW t \in Threads, pc[t] \in InCriticalSection, lock' = lock,
               pc'[t] # pc[t]
        PROVE  Guarded
    BY <2>2, QueueAssumption DEF IInv, MutualExclusion
  <2>3. ASSUME NEW t \in Producers, EnqStep(t)
        PROVE  [Guarded]_<<nodes, head, size>>
    <3>1. CASE Count(t) \/ InsertFirst(t) \/ InsertLast(t)
      BY <2>1, <2>2, <3>1
         DEF Count, InsertFirst, InsertLast, Goto, InCriticalSection, Threads
    <3> QED
      BY <2>3, <3>1 DEF EnqStep, EnQ, EnQEntry, Walk, Broadcast
  <2>4. ASSUME NEW t \in Consumers, DeqStep(t)
        PROVE  [Guarded]_<<nodes, head, size>>
    <3>1. CASE PrivateDeQ(t)
      BY <2>1, <2>2, <3>1 DEF PrivateDeQ, Goto, InCriticalSection, Threads
    <3> QED
      BY <2>4, <3>1 DEF DeqStep, DeQ, Wait, SpuriousWakeup, Proceed
  <2> QED
    BY <2>3, <2>4 DEF Next, Acquire, Unlock, vars
<1> QED
  BY <1>1, Invariance, PTL DEF Spec, GuardedWrites

-----------------------------------------------------------------------------
(* Refinement of FifoQueue.                                                *)

Phase == [u \in Threads |-> PhaseOf(pc[u])]

(* The phase of every program point.                                       *)
LEMMA PhaseValues ==
  /\ PhaseOf("idle") = "idle"
  /\ \A l \in BeforeLinking : PhaseOf(l) = "enq"
  /\ PhaseOf("enq_cast") = "enqDone" /\ PhaseOf("enq_unlock") = "enqDone"
  /\ \A l \in {"deq_lock", "deq_test", "deq_wait", "deq_pop"} : PhaseOf(l) = "deq"
  /\ PhaseOf("deq_unlock") = "deqDone"
BY DEF PhaseOf, BeforeLinking

(* A thread that moves alone changes its own phase only.                   *)
LEMMA PhaseMoves ==
  ASSUME TypeOK, NEW t \in Threads, NEW from, NEW to, Goto(t, from, to)
  PROVE  Phase[t] = PhaseOf(from) /\ Phase' = [Phase EXCEPT ![t] = PhaseOf(to)]
BY DEF Phase, Goto, TypeOK

(* The contents stand or fall with head and the Nodes.                     *)
LEMMA ContentsUnchanged ==
  ASSUME UNCHANGED <<nodes, head>>
  PROVE  UNCHANGED Contents
BY DEF Contents

(* What an insertion and a removal do to the list that starts at Node h.   *)
LEMMA ListFromIsSeq ==
  ASSUME NEW ns \in Seq(NodeType), NEW h \in 1 .. Len(ns)
  PROVE  /\ ListFrom(ns, h) \in Seq(Member)
         /\ Len(ListFrom(ns, h)) = Len(ns) - h + 1
         /\ \A i \in 1 .. Len(ns) - h + 1 :
               ListFrom(ns, h)[i] = ns[h + i - 1].current
<1> DEFINE n == Len(ns) - h + 1
<1>1. Len(ns) \in Nat /\ n \in Nat /\ h # Null
  BY LenProperties DEF Null
<1>2. \A i \in 1 .. n : ns[h + i - 1].current \in Member
  <2> SUFFICES ASSUME NEW i \in 1 .. n PROVE ns[h + i - 1].current \in Member
    OBVIOUS
  <2>1. h + i - 1 \in 1 .. Len(ns)
    BY <1>1
  <2>2. ns[h + i - 1] \in NodeType
    BY <2>1, ElementOfSeq
  <2> QED
    BY <2>2 DEF NodeType
<1>3. ListFrom(ns, h) = [i \in 1 .. n |-> ns[h + i - 1].current]
  BY <1>1 DEF ListFrom
<1> QED
  BY <1>1, <1>2, <1>3, IsASeq

(* Linking one more Node appends its member.                               *)
LEMMA ListFromAppend ==
  ASSUME NEW ns \in Seq(NodeType), NEW h \in 1 .. Len(ns),
         NEW ms \in Seq(NodeType), Len(ms) = Len(ns) + 1,
         \A k \in 1 .. Len(ns) : ms[k].current = ns[k].current,
         NEW m \in Member, ms[Len(ns) + 1].current = m
  PROVE  ListFrom(ms, h) = Append(ListFrom(ns, h), m)
<1> DEFINE n == Len(ns) - h + 1
           s == ListFrom(ns, h)
           l == ListFrom(ms, h)
<1>1. /\ Len(ns) \in Nat /\ h \in 1 .. Len(ms) /\ n \in Nat
      /\ Len(ms) - h + 1 = n + 1 /\ Len(ns) + 1 = h + n
  BY LenProperties
<1>2. /\ s \in Seq(Member) /\ Len(s) = n
      /\ \A i \in 1 .. n : s[i] = ns[h + i - 1].current
  BY ListFromIsSeq
<1>3. /\ l \in Seq(Member) /\ Len(l) = Len(ms) - h + 1
      /\ \A i \in 1 .. Len(ms) - h + 1 : l[i] = ms[h + i - 1].current
  BY <1>1, ListFromIsSeq
<1> HIDE DEF n, s, l
<1>4. /\ Append(s, m) \in Seq(Member) /\ Len(Append(s, m)) = n + 1
      /\ \A i \in 1 .. n : Append(s, m)[i] = s[i]
      /\ Append(s, m)[n + 1] = m
  BY <1>2, AppendProperties
<1>5. ASSUME NEW i \in 1 .. n + 1 PROVE l[i] = Append(s, m)[i]
  <2>1. l[i] = ms[h + i - 1].current
    BY <1>1, <1>3
  <2>2. CASE i \in 1 .. n
    <3>1. h + i - 1 \in 1 .. Len(ns)
      BY <1>1, <2>2 DEF n
    <3> QED
      BY <1>2, <1>4, <2>1, <2>2, <3>1
  <2>3. CASE i = n + 1
    <3>1. h + i - 1 = Len(ns) + 1
      BY <1>1, <2>3
    <3> QED
      BY <1>4, <2>1, <2>3, <3>1
  <2>4. i \in 1 .. n \/ i = n + 1
    BY <1>1
  <2> QED
    BY <2>2, <2>3, <2>4
<1>6. l = Append(s, m)
  BY <1>1, <1>3, <1>4, <1>5, SeqEqual
<1> QED
  BY <1>6 DEF s, l

(* Moving head on removes the first member.                                *)
LEMMA ListFromTail ==
  ASSUME NEW ns \in Seq(NodeType), NEW h \in 1 .. Len(ns)
  PROVE  /\ ListFrom(ns, h) # <<>>
         /\ Head(ListFrom(ns, h)) = ns[h].current
         /\ Tail(ListFrom(ns, h)) =
               ListFrom(ns, IF h = Len(ns) THEN Null ELSE h + 1)
<1> DEFINE n == Len(ns) - h + 1
           s == ListFrom(ns, h)
<1>1. Len(ns) \in Nat /\ n \in Nat /\ n > 0
  BY LenProperties
<1>2. /\ s \in Seq(Member) /\ Len(s) = n
      /\ \A i \in 1 .. n : s[i] = ns[h + i - 1].current
  BY ListFromIsSeq
<1> HIDE DEF s
<1>3. s # <<>> /\ Head(s) = s[1] /\ s[1] = ns[h].current
  BY <1>1, <1>2
<1>4. /\ Tail(s) \in Seq(Member) /\ Len(Tail(s)) = n - 1
      /\ \A i \in 1 .. n - 1 : Tail(s)[i] = s[i + 1]
  BY <1>2, <1>3, HeadTailProperties
<1>5. CASE h = Len(ns)
  <2>1. Len(Tail(s)) = 0
    BY <1>1, <1>4, <1>5
  <2>2. Tail(s) = <<>>
    BY <1>4, <2>1, EmptySeq
  <2> QED
    BY <1>3, <1>5, <2>2 DEF s, ListFrom
<1>6. CASE h # Len(ns)
  <2> DEFINE l == ListFrom(ns, h + 1)
  <2>1. h + 1 \in 1 .. Len(ns)
    BY <1>1, <1>6
  <2>2. /\ l \in Seq(Member) /\ Len(l) = n - 1
        /\ \A i \in 1 .. n - 1 : l[i] = ns[h + i].current
    BY <1>1, <2>1, ListFromIsSeq
  <2> HIDE DEF l
  <2>3. \A i \in 1 .. n - 1 : Tail(s)[i] = l[i]
    BY <1>1, <1>2, <1>4, <2>2
  <2>4. Tail(s) = l
    BY <1>4, <2>2, <2>3, SeqEqual
  <2> QED
    BY <1>3, <1>6, <2>4 DEF s, l
<1> QED
  BY <1>5, <1>6

(* Both insertions append the member of the call under way.                *)
LEMMA InsertFirstAppends ==
  ASSUME IInv, NEW t \in Producers, InsertFirst(t)
  PROVE  Contents' = Append(Contents, <<t, calls[t]>>)
<1>1. head = Null /\ pc[t] \in BeforeLinking
  BY DEF IInv, BranchValid, InsertFirst, Goto, BeforeLinking
<1>2. Len(nodes) \in Nat
  BY NodeTypes DEF IInv
<1>3. /\ head' = Len(nodes) + 1
      /\ Len(nodes') = Len(nodes) + 1
      /\ nodes'[Len(nodes) + 1].current = <<t, calls[t]>>
  BY <1>1, FreshMember, AppendProperties DEF InsertFirst, IInv, TypeOK
<1>4. Contents = <<>>
  BY <1>1 DEF Contents, ListFrom
<1>5. Contents' = [i \in 1 .. 1 |-> nodes'[Len(nodes) + 1 + i - 1].current]
  BY <1>2, <1>3 DEF Contents, ListFrom, Null
<1>6. \A i \in 1 .. 1 : nodes'[Len(nodes) + 1 + i - 1].current = <<t, calls[t]>>
  BY <1>2, <1>3
<1> QED
  BY <1>4, <1>5, <1>6

(* The insertion behind the tail does so too.                              *)
LEMMA InsertLastAppends ==
  ASSUME IInv, NEW t \in Producers, InsertLast(t)
  PROVE  Contents' = Append(Contents, <<t, calls[t]>>)
<1>1. pc[t] \in BeforeLinking /\ head' = head
  BY DEF InsertLast, Goto, BeforeLinking
<1>2. nodes \in Seq(NodeType) /\ <<t, calls[t]>> \in Member
  BY <1>1, FreshMember DEF IInv, TypeOK
<1> QED
  BY <1>1, <1>2, InsertLastEffect, ListFromAppend DEF Contents

(* private_deQ takes the oldest member.                                    *)
LEMMA PrivateDeQTakesHead ==
  ASSUME IInv, NEW t \in Consumers, PrivateDeQ(t)
  PROVE  /\ Contents # <<>>
         /\ Contents' = Tail(Contents)
         /\ out' = Append(out, [by |-> t, member |-> Head(Contents)])
<1>1. nodes \in Seq(NodeType) /\ head \in 1 .. Len(nodes) /\ Len(nodes) \in Nat
  BY NodeTypes DEF IInv, TypeOK, PopFindsNode, PrivateDeQ, Goto
<1>2. nodes' = nodes /\ head' = IF head = Len(nodes) THEN Null ELSE head + 1
  <2>1. head # Null
    BY <1>1 DEF Null
  <2>2. CASE head = Len(nodes)
    BY <1>1, <2>2 DEF IInv, Chain, PrivateDeQ, NextOfHead
  <2>3. CASE head # Len(nodes)
    BY <1>1, <2>1, <2>3 DEF IInv, Chain, PrivateDeQ, NextOfHead
  <2> QED
    BY <2>2, <2>3 DEF PrivateDeQ
<1>3. Contents # <<>> /\ Head(Contents) = nodes[head].current
  BY <1>1, ListFromTail DEF Contents
<1>4. Contents' = Tail(Contents)
  BY <1>1, <1>2, ListFromTail DEF Contents
<1> QED
  BY <1>3, <1>4 DEF PrivateDeQ

(* The initial state maps to an initial state.                             *)
LEMMA InitRefines == Init => Fifo!Init
<1> SUFFICES ASSUME Init PROVE Fifo!Init
  OBVIOUS
<1>1. Contents = <<>>
  BY DEF Init, Contents, ListFrom
<1>2. Phase = [t \in Threads |-> "idle"]
  BY PhaseValues DEF Phase, Init
<1> QED
  BY <1>1, <1>2 DEF Init, Fifo!Init, Fifo!Threads, Threads, Phase

(* Every step maps to a step of FifoQueue or to a stutter.                 *)
LEMMA StepRefines == IInv /\ [Next]_vars => [Fifo!Next]_Fifo!vars
<1> SUFFICES ASSUME IInv, [Next]_vars PROVE [Fifo!Next]_Fifo!vars
  OBVIOUS
<1>0. TypeOK
  BY DEF IInv
<1>1. ASSUME UNCHANGED <<Contents, Phase, calls, out>>
      PROVE  UNCHANGED Fifo!vars
  BY <1>1 DEF Fifo!vars, Phase
<1>2. ASSUME NEW t \in Threads, NEW from, NEW to, Goto(t, from, to),
             PhaseOf(from) = PhaseOf(to), UNCHANGED <<nodes, head, calls, out>>
      PROVE  UNCHANGED Fifo!vars
  <2>1. Phase' = [Phase EXCEPT ![t] = Phase[t]]
    BY <1>0, <1>2, PhaseMoves
  <2>2. UNCHANGED Phase
    BY <2>1 DEF Phase
  <2> QED
    BY <1>1, <1>2, <2>2, ContentsUnchanged
<1>3. ASSUME NEW t \in Threads, Acquire(t) \/ Unlock(t)
      PROVE  Fifo!Next \/ UNCHANGED Fifo!vars
  <2>1. CASE Acquire(t)
    <3>1. UNCHANGED <<nodes, head, calls, out>>
      BY <2>1 DEF Acquire
    <3>2. \/ Goto(t, "enq_lock", "enq_count")
          \/ Goto(t, "deq_lock", "deq_test")
      BY <2>1 DEF Acquire
    <3> QED
      BY <1>2, <3>1, <3>2, PhaseValues DEF BeforeLinking
  <2>2. CASE Unlock(t)
    <3>1. UNCHANGED <<nodes, head, calls, out>>
      BY <2>2 DEF Unlock
    <3>2. Phase[t] \in {"enqDone", "deqDone"} /\ Phase' = [Phase EXCEPT ![t] = "idle"]
      BY <1>0, <2>2, PhaseMoves, PhaseValues DEF Unlock
    <3>3. UNCHANGED Contents
      BY <3>1, ContentsUnchanged
    <3>4. Fifo!Return(t)
      BY <3>1, <3>2, <3>3 DEF Fifo!Return, Phase
    <3> QED
      BY <3>4 DEF Fifo!Next, Fifo!Threads, Threads
  <2> QED
    BY <1>3, <2>1, <2>2
<1>4. ASSUME NEW t \in Producers, EnqStep(t)
      PROVE  Fifo!Next \/ UNCHANGED Fifo!vars
  <2>0. t \in Threads
    BY DEF Threads
  <2>1. CASE EnQ(t)
    <3>1. Phase[t] = "idle" /\ Phase' = [Phase EXCEPT ![t] = "enq"]
      BY <1>0, <2>0, <2>1, PhaseMoves, PhaseValues DEF EnQ, EnQEntry, BeforeLinking
    <3>2. UNCHANGED Contents
      BY <2>1, ContentsUnchanged DEF EnQ
    <3>3. Fifo!CallEnQ(t)
      BY <2>1, <3>1, <3>2 DEF EnQ, EnQEntry, Fifo!CallEnQ, Phase
    <3> QED
      BY <3>3 DEF Fifo!Next
  <2>2. CASE Count(t)
    <3>1. UNCHANGED <<nodes, head, calls, out>>
      BY <2>2 DEF Count
    <3>2. \/ Goto(t, "enq_count", "enq_first")
          \/ Goto(t, "enq_count", "enq_walk")
      BY <2>2 DEF Count
    <3> QED
      BY <1>2, <2>0, <3>1, <3>2, PhaseValues DEF BeforeLinking
  <2>3. CASE InsertFirst(t) \/ InsertLast(t)
    <3>1. Contents' = Append(Contents, <<t, calls[t]>>)
      BY <2>3, InsertFirstAppends, InsertLastAppends
    <3>2. Phase[t] = "enq" /\ Phase' = [Phase EXCEPT ![t] = "enqDone"]
      BY <1>0, <2>0, <2>3, PhaseMoves, PhaseValues
      DEF InsertFirst, InsertLast, BeforeLinking
    <3>3. UNCHANGED <<calls, out>>
      BY <2>3 DEF InsertFirst, InsertLast
    <3>4. Fifo!DoEnQ(t)
      BY <3>1, <3>2, <3>3 DEF Fifo!DoEnQ, Phase
    <3> QED
      BY <3>4 DEF Fifo!Next
  <2>4. CASE Walk(t)
    <3>1. UNCHANGED <<nodes, head, pc, calls, out>>
      BY <2>4 DEF Walk
    <3> QED
      BY <1>1, <3>1, ContentsUnchanged DEF Phase
  <2>5. CASE Broadcast(t)
    <3>1. ASSUME NEW u \in Threads PROVE PhaseOf(pc'[u]) = PhaseOf(pc[u])
      <4>1. pc'[u] = IF u = t THEN "enq_unlock"
                     ELSE IF u \in Woken THEN "deq_lock" ELSE pc[u]
        BY <2>5 DEF Broadcast
      <4>2. u \in Woken => pc[u] = "deq_wait"
        BY DEF Woken, Sleepers
      <4>3. pc[t] = "enq_cast"
        BY <2>5 DEF Broadcast
      <4> QED
        BY <4>1, <4>2, <4>3, PhaseValues
    <3>2. UNCHANGED Phase
      BY <3>1 DEF Phase
    <3>3. UNCHANGED <<nodes, head, calls, out>>
      BY <2>5 DEF Broadcast
    <3> QED
      BY <1>1, <3>2, <3>3, ContentsUnchanged
  <2> QED
    BY <1>4, <2>1, <2>2, <2>3, <2>4, <2>5 DEF EnqStep
<1>5. ASSUME NEW t \in Consumers, DeqStep(t)
      PROVE  Fifo!Next \/ UNCHANGED Fifo!vars
  <2>0. t \in Threads
    BY DEF Threads
  <2>1. CASE DeQ(t)
    <3>1. Phase[t] = "idle" /\ Phase' = [Phase EXCEPT ![t] = "deq"]
      BY <1>0, <2>0, <2>1, PhaseMoves, PhaseValues DEF DeQ
    <3>2. UNCHANGED Contents
      BY <2>1, ContentsUnchanged DEF DeQ
    <3>3. Fifo!CallDeQ(t)
      BY <2>1, <3>1, <3>2 DEF DeQ, Fifo!CallDeQ, Phase
    <3> QED
      BY <3>3 DEF Fifo!Next
  <2>2. CASE Wait(t) \/ SpuriousWakeup(t) \/ Proceed(t)
    <3>1. UNCHANGED <<nodes, head, calls, out>>
      BY <2>2 DEF Wait, SpuriousWakeup, Proceed
    <3>2. \/ Goto(t, "deq_test", "deq_wait")
          \/ Goto(t, "deq_wait", "deq_lock")
          \/ Goto(t, "deq_test", "deq_pop")
      BY <2>2 DEF Wait, SpuriousWakeup, Proceed
    <3> QED
      BY <1>2, <2>0, <3>1, <3>2, PhaseValues
  <2>3. CASE PrivateDeQ(t)
    <3>1. /\ Contents # <<>>
          /\ Contents' = Tail(Contents)
          /\ out' = Append(out, [by |-> t, member |-> Head(Contents)])
      BY <2>3, PrivateDeQTakesHead
    <3>2. Phase[t] = "deq" /\ Phase' = [Phase EXCEPT ![t] = "deqDone"]
      BY <1>0, <2>0, <2>3, PhaseMoves, PhaseValues DEF PrivateDeQ
    <3>3. Fifo!DoDeQ(t)
      BY <2>3, <3>1, <3>2 DEF PrivateDeQ, Fifo!DoDeQ, Phase
    <3> QED
      BY <3>3 DEF Fifo!Next
  <2> QED
    BY <1>5, <2>1, <2>2, <2>3 DEF DeqStep
<1>6. CASE UNCHANGED vars
  <2>1. UNCHANGED <<nodes, head, pc, calls, out>>
    BY <1>6 DEF vars
  <2> QED
    BY <1>1, <2>1, ContentsUnchanged DEF Phase
<1> QED
  BY <1>3, <1>4, <1>5, <1>6 DEF Next

(***************************************************************************)
(* The queue is a blocking first-in first-out queue (safety part): under   *)
(* the mapping of the list from head to Contents and of program points to  *)
(* phases, every execution of enQ and deQ is one of FifoQueue.             *)
(***************************************************************************)
THEOREM Refinement == Spec => ImplementsFifo
<1>1. Spec => []IInv
  BY Invariance
<1>2. Spec => Fifo!Spec
  BY <1>1, InitRefines, StepRefines, PTL DEF Spec, Fifo!Spec
<1> QED
  BY <1>2 DEF ImplementsFifo
==============================================================================
