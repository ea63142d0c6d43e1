-------------------------------- MODULE Queue --------------------------------
(***************************************************************************)
(* ex6::queue (queue.hpp, queue.cpp): a linked list guarded by one mutex   *)
(* and one condition variable, at the grain of its lock operations and of  *)
(* its accesses to head, size and next.  Any thread may be a producer, a   *)
(* consumer, or both.  ~queue and destroyQ, which nothing in the program   *)
(* calls while the queue is in use, are not actions of this module.        *)
(***************************************************************************)
EXTENDS Naturals, Sequences

CONSTANTS
    Producers,   \* the threads that call enQ
    Consumers,   \* the threads that call deQ
    NoThread,    \* the owner of a free mutex
    MaxCalls     \* bound: how often each producer calls enQ

Threads == Producers \cup Consumers

ASSUME QueueAssumption ==
    /\ NoThread \notin Threads
    /\ MaxCalls \in Nat

(* Members are pointers to distinct heap objects: one per call of enQ.     *)
Member == Producers \X (1 .. MaxCalls)

(* nullptr; the k-th Node allocated is node k, and deQ never frees one.    *)
Null == 0

VARIABLES
    nodes,   \* the Nodes allocated so far, in order of allocation
    head,    \* queue::head
    size,    \* queue::size
    lock,    \* the owner of queue::lock
    pc,      \* where each thread is in enQ or deQ
    curr,    \* the local variable of enQ's walk to the tail
    calls,   \* how often each producer has called enQ
    out      \* history: who took which member, in the order taken

vars == <<nodes, head, size, lock, pc, curr, calls, out>>

NodeType == [current : Member, next : Nat]

Node(m) == [current |-> m, next |-> Null]

Init ==
    /\ nodes = <<>>
    /\ head = Null
    /\ size = 0
    /\ lock = NoThread
    /\ pc = [t \in Threads |-> "idle"]
    /\ curr = [t \in Threads |-> Null]
    /\ calls = [t \in Producers |-> 0]
    /\ out = <<>>

(* Thread t moves from one point of its operation to another.              *)
Goto(t, from, to) ==
    /\ pc[t] = from
    /\ pc' = [pc EXCEPT ![t] = to]

-----------------------------------------------------------------------------
(* pthread_mutex_lock, as a call and inside pthread_cond_wait.  Which of   *)
(* the contenders gets a free mutex is not specified.                      *)

MutexFree == lock = NoThread

Acquire(t) ==
    /\ MutexFree
    /\ lock' = t
    /\ \/ Goto(t, "enq_lock", "enq_count")
       \/ Goto(t, "deq_lock", "deq_test")
    /\ UNCHANGED <<nodes, head, size, curr, calls, out>>

Unlock(t) ==
    /\ \/ Goto(t, "enq_unlock", "idle")
       \/ Goto(t, "deq_unlock", "idle")
    /\ lock' = NoThread
    /\ UNCHANGED <<nodes, head, size, curr, calls, out>>

-----------------------------------------------------------------------------
(* enQ                                                                     *)

EnQEntryUnlocked == "enq_count"   \* mutant: enQ does not lock the mutex

EnQEntry == "enq_lock"

EnQ(t) ==
    /\ calls[t] < MaxCalls
    /\ Goto(t, "idle", EnQEntry)
    /\ calls' = [calls EXCEPT ![t] = @ + 1]
    /\ UNCHANGED <<nodes, head, size, lock, curr, out>>

SizeDecremented == size - 1   \* mutant: the counter goes the wrong way

SizeIncremented == size + 1

(* this->size += 1, and the test of head that picks the branch.            *)
Count(t) ==
    /\ size' = SizeIncremented
    /\ \/ head = Null /\ Goto(t, "enq_count", "enq_first")
       \/ head # Null /\ Goto(t, "enq_count", "enq_walk")
    /\ curr' = [curr EXCEPT ![t] = head]
    /\ UNCHANGED <<nodes, head, lock, calls, out>>

InsertFirst(t) ==
    /\ Goto(t, "enq_first", "enq_cast")
    /\ nodes' = Append(nodes, Node(<<t, calls[t]>>))
    /\ head' = Len(nodes) + 1
    /\ UNCHANGED <<size, lock, curr, calls, out>>

(* while (curr->next != nullptr) curr = curr->next;                        *)
Walk(t) ==
    /\ pc[t] = "enq_walk"
    /\ nodes[curr[t]].next # Null
    /\ curr' = [curr EXCEPT ![t] = nodes[@].next]
    /\ UNCHANGED <<nodes, head, size, lock, pc, calls, out>>

TailNotReached(t) == TRUE   \* mutant: the new Node is linked wherever curr is

TailReached(t) == nodes[curr[t]].next = Null

InsertLast(t) ==
    /\ Goto(t, "enq_walk", "enq_cast")
    /\ TailReached(t)
    /\ nodes' = Append([nodes EXCEPT ![curr[t]].next = Len(nodes) + 1],
                       Node(<<t, calls[t]>>))
    /\ UNCHANGED <<head, size, lock, curr, calls, out>>

Sleepers == {u \in Threads : pc[u] = "deq_wait"}

WokenOne ==   \* mutant: pthread_cond_signal in the place of the broadcast
    IF Sleepers = {} THEN {} ELSE {CHOOSE u \in Sleepers : TRUE}

WokenNone == {}   \* mutant: no wakeup

Woken == Sleepers

(* pthread_cond_broadcast: every sleeper goes back to contend for the      *)
(* mutex.  Both branches of enQ make the call.                             *)
Broadcast(t) ==
    /\ pc[t] = "enq_cast"
    /\ pc' = [u \in Threads |->
                IF u = t THEN "enq_unlock"
                ELSE IF u \in Woken THEN "deq_lock" ELSE pc[u]]
    /\ UNCHANGED <<nodes, head, size, lock, curr, calls, out>>

-----------------------------------------------------------------------------
(* deQ                                                                     *)

DeQ(t) ==
    /\ Goto(t, "idle", "deq_lock")
    /\ UNCHANGED <<nodes, head, size, lock, curr, calls, out>>

EmptyBySizeOnly == size = 0   \* mutant: the test of head is dropped

Empty == size = 0 \/ head = Null

(* pthread_cond_wait: give up the mutex and sleep, in one step.            *)
Wait(t) ==
    /\ Empty
    /\ Goto(t, "deq_test", "deq_wait")
    /\ lock' = NoThread
    /\ UNCHANGED <<nodes, head, size, curr, calls, out>>

(* POSIX allows pthread_cond_wait to return with no broadcast.             *)
SpuriousWakeup(t) ==
    /\ Goto(t, "deq_wait", "deq_lock")
    /\ UNCHANGED <<nodes, head, size, lock, curr, calls, out>>

Proceed(t) ==
    /\ ~Empty
    /\ Goto(t, "deq_test", "deq_pop")
    /\ UNCHANGED <<nodes, head, size, lock, curr, calls, out>>

NextOfHeadKept == head   \* mutant: head is not advanced

NextOfHead == nodes[head].next

(* private_deQ: size is not decremented and the Node is not freed.         *)
PrivateDeQ(t) ==
    /\ Goto(t, "deq_pop", "deq_unlock")
    /\ head' = NextOfHead
    /\ out' = Append(out, [by |-> t, member |-> nodes[head].current])
    /\ UNCHANGED <<nodes, size, lock, curr, calls>>

-----------------------------------------------------------------------------
EnqStep(t) ==
    \/ EnQ(t) \/ Count(t) \/ InsertFirst(t) \/ Walk(t) \/ InsertLast(t)
    \/ Broadcast(t)

DeqStep(t) ==
    \/ DeQ(t) \/ Wait(t) \/ SpuriousWakeup(t) \/ Proceed(t) \/ PrivateDeQ(t)

Next ==
    \/ \E t \in Producers : EnqStep(t)
    \/ \E t \in Consumers : DeqStep(t)
    \/ \E t \in Threads : Acquire(t) \/ Unlock(t)

Spec == Init /\ [][Next]_vars

(***************************************************************************)
(* Fairness.  A running thread keeps running; consumers call deQ again and *)
(* again, as ao_func does; a free mutex with contenders is given to some   *)
(* contender, not to any particular one, since a default pthread mutex is  *)
(* not fair.  Producers need not call, and no wakeup is ever promised but  *)
(* by a broadcast.  A producer calls at most MaxCalls times, so producers  *)
(* stop contending in the end: that such a mutex may go to producers for   *)
(* ever, if they call for ever, is outside this specification.             *)
(***************************************************************************)
Fairness ==
    /\ WF_vars(\E t \in Threads : Acquire(t))
    /\ \A t \in Threads : WF_vars(Unlock(t))
    /\ \A t \in Producers :
          WF_vars(Count(t) \/ InsertFirst(t) \/ Walk(t) \/ InsertLast(t)
                  \/ Broadcast(t))
    /\ \A t \in Consumers :
          WF_vars(DeQ(t) \/ Wait(t) \/ Proceed(t) \/ PrivateDeQ(t))

FairSpec == Spec /\ Fairness

-----------------------------------------------------------------------------
(* Invariants and properties                                               *)

InCriticalSection ==
    {"enq_count", "enq_first", "enq_walk", "enq_cast", "enq_unlock",
     "deq_test", "deq_pop", "deq_unlock"}

Locations ==
    InCriticalSection \cup {"idle", "enq_lock", "deq_lock", "deq_wait"}

(***************************************************************************)
(* The variables hold values of the expected shape.                        *)
(***************************************************************************)
TypeOK ==
    /\ nodes \in Seq(NodeType)
    /\ head \in Nat
    /\ size \in Nat
    /\ lock \in Threads \cup {NoThread}
    /\ pc \in [Threads -> Locations]
    /\ curr \in [Threads -> Nat]
    /\ calls \in [Producers -> 0 .. MaxCalls]
    /\ out \in Seq([by : Consumers, member : Member])

(***************************************************************************)
(* No lost wakeup: a consumer sleeps beside a member it could take only    *)
(* while the enQ that linked the member has yet to broadcast.              *)
(***************************************************************************)
NoLostWakeup ==
    Sleepers # {} /\ head # Null => \E p \in Producers : pc[p] = "enq_cast"

(***************************************************************************)
(* A consumer that has left the wait loop finds a Node under head when     *)
(* private_deQ dereferences it, although size never goes down and other    *)
(* consumers ran between the broadcast and the re-acquisition.             *)
(***************************************************************************)
PopFindsNode ==
    \A t \in Consumers : pc[t] = "deq_pop" => head \in 1 .. Len(nodes)

(***************************************************************************)
(* The walk of enQ stays on Nodes that are still in the list: no deQ       *)
(* unlinks a Node under a walking producer.                                *)
(***************************************************************************)
WalkStaysInList ==
    \A t \in Producers :
        pc[t] = "enq_walk" => head # Null /\ curr[t] \in head .. Len(nodes)

(***************************************************************************)
(* Members of one producer are taken at most once and in the order of its  *)
(* calls, whichever consumers take them (testQueue.cpp checks one producer *)
(* and one consumer).                                                      *)
(***************************************************************************)
ProducerOrder ==
    \A i, j \in 1 .. Len(out) :
        i < j /\ out[i].member[1] = out[j].member[1]
            => out[i].member[2] < out[j].member[2]

(***************************************************************************)
(* head, size and the list change only in a step of the thread that owns   *)
(* the mutex, and keeps it.                                                *)
(***************************************************************************)
GuardedWrites ==
    [][lock # NoThread /\ lock' = lock /\ pc'[lock] # pc[lock]
        ]_<<nodes, head, size>>

Linked(m) == \E k \in 1 .. Len(nodes) : nodes[k].current = m

Taken(m) == \E i \in 1 .. Len(out) : out[i].member = m

(***************************************************************************)
(* Every member that enQ has linked is eventually taken once the producers *)
(* have made their calls, whichever contender the mutex goes to each time  *)
(* and however often consumers wake for nothing.                           *)
(***************************************************************************)
EveryMemberTaken == \A m \in Member : Linked(m) ~> Taken(m)

-----------------------------------------------------------------------------
(* The queue implements FifoQueue.                                         *)

(* The members from Node h to the tail.  Allocation order is list order.   *)
ListFrom(ns, h) ==
    IF h = Null THEN <<>>
    ELSE [i \in 1 .. Len(ns) - h + 1 |-> ns[h + i - 1].current]

Contents == ListFrom(nodes, head)

(* Where a call of enQ has yet to link its Node.                           *)
BeforeLinking == {"enq_lock", "enq_count", "enq_first", "enq_walk"}

PhaseOf(l) ==
    CASE l = "idle" -> "idle"
      [] l \in BeforeLinking -> "enq"
      [] l \in {"enq_cast", "enq_unlock"} -> "enqDone"
      [] l \in {"deq_lock", "deq_test", "deq_wait", "deq_pop"} -> "deq"
      [] l = "deq_unlock" -> "deqDone"

Fifo == INSTANCE FifoQueue
            WITH items <- Contents,
                 phase <- [t \in Threads |-> PhaseOf(pc[t])]

(***************************************************************************)
(* Every execution is one of a blocking first-in first-out queue whose     *)
(* operations take effect once, between their call and their return.       *)
(***************************************************************************)
ImplementsFifo == Fifo!Spec

(***************************************************************************)
(* And it makes the progress such a queue promises.                        *)
(***************************************************************************)
ImplementsFairFifo == Fifo!FairSpec

-----------------------------------------------------------------------------
(***************************************************************************)
(* queue.hpp says of Size() that it "returns the size of the queue".       *)
(* Read while no operation is under way, it should be the number of        *)
(* members in the list.                                                    *)
(***************************************************************************)
SizeIsLength == lock = NoThread => size = Len(Contents)

-----------------------------------------------------------------------------
(* The inductive invariant.                                                *)

(* The owner of the mutex is the thread in the critical section.           *)
MutualExclusion ==
    \A t \in Threads : pc[t] \in InCriticalSection <=> lock = t

(* From head on, each Node links to the next one allocated.                *)
Chain ==
    /\ head \in 0 .. Len(nodes)
    /\ Len(nodes) > 0 => nodes[Len(nodes)].next = Null
    /\ head # Null =>
          \A k \in head .. (Len(nodes) - 1) : nodes[k].next = k + 1

(* What has been taken is what precedes head.                              *)
Prefix ==
    /\ Len(out) = IF head = Null THEN Len(nodes) ELSE head - 1
    /\ \A i \in 1 .. Len(out) : out[i].member = nodes[i].current

(* size counts every Node ever linked and the one about to be.             *)
SizeCountsInsertions ==
    /\ size >= Len(nodes)
    /\ \A t \in Producers :
          pc[t] \in {"enq_first", "enq_walk"} => size > Len(nodes)

(* The branch enQ has taken is still the right one.                        *)
BranchValid ==
    /\ \A t \in Producers : pc[t] = "enq_first" => head = Null
    /\ WalkStaysInList

(* Nodes of one producer were linked in the order of its calls, and none   *)
(* of them by the call it is still in.                                     *)
LinkOrder ==
    /\ \A i, j \in 1 .. Len(nodes) :
          i < j /\ nodes[i].current[1] = nodes[j].current[1]
              => nodes[i].current[2] < nodes[j].current[2]
    /\ \A i \in 1 .. Len(nodes) : \A p \in Producers :
          nodes[i].current[1] = p =>
              /\ nodes[i].current[2] <= calls[p]
              /\ pc[p] \in BeforeLinking => nodes[i].current[2] < calls[p]
    /\ \A p \in Producers : pc[p] \in BeforeLinking => calls[p] > 0

(***************************************************************************)
(* The mutex, the shape of the list, the history and the waiters hold      *)
(* together; every step preserves the conjunction.                         *)
(***************************************************************************)
IInv ==
    /\ TypeOK
    /\ MutualExclusion
    /\ Chain
    /\ Prefix
    /\ SizeCountsInsertions
    /\ BranchValid
    /\ PopFindsNode
    /\ NoLostWakeup
    /\ LinkOrder
=============================================================================
