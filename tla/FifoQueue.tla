------------------------------ MODULE FifoQueue ------------------------------
(***************************************************************************)
(* What ex6::queue promises its callers: a blocking first-in first-out     *)
(* queue.  An operation is called, takes effect once at some instant       *)
(* between its call and its return, and returns; a dequeue takes effect    *)
(* only while an item is there.  No mutex, no condition variable and no    *)
(* linked list appear here.  Module Queue implements this specification.   *)
(***************************************************************************)
EXTENDS Naturals, Sequences

CONSTANTS
    Producers,   \* the threads that call enQ
    Consumers,   \* the threads that call deQ
    MaxCalls     \* bound: how often each producer calls enQ

Threads == Producers \cup Consumers

(***************************************************************************)
(* The member of a producer's n-th call.  The program passes pointers to   *)
(* distinct heap objects, so members are distinct.                         *)
(***************************************************************************)
Member == Producers \X (1 .. MaxCalls)

VARIABLES
    items,   \* the queue's contents, oldest first
    phase,   \* where each thread is in the operation it has called
    calls,   \* how often each producer has called enQ
    out      \* history: who took which member, in the order of the effects

vars == <<items, phase, calls, out>>

Phases == {"idle", "enq", "enqDone", "deq", "deqDone"}

(***************************************************************************)
(* The variables hold values of the expected shape.                        *)
(***************************************************************************)
TypeOK ==
    /\ items \in Seq(Member)
    /\ phase \in [Threads -> Phases]
    /\ calls \in [Producers -> 0 .. MaxCalls]
    /\ out \in Seq([by : Consumers, member : Member])

Init ==
    /\ items = <<>>
    /\ phase = [t \in Threads |-> "idle"]
    /\ calls = [t \in Producers |-> 0]
    /\ out = <<>>

CallEnQ(t) ==
    /\ phase[t] = "idle"
    /\ calls[t] < MaxCalls
    /\ phase' = [phase EXCEPT ![t] = "enq"]
    /\ calls' = [calls EXCEPT ![t] = @ + 1]
    /\ UNCHANGED <<items, out>>

DoEnQ(t) ==
    /\ phase[t] = "enq"
    /\ phase' = [phase EXCEPT ![t] = "enqDone"]
    /\ items' = Append(items, <<t, calls[t]>>)
    /\ UNCHANGED <<calls, out>>

CallDeQ(t) ==
    /\ phase[t] = "idle"
    /\ phase' = [phase EXCEPT ![t] = "deq"]
    /\ UNCHANGED <<items, calls, out>>

DoDeQ(t) ==
    /\ phase[t] = "deq"
    /\ items # <<>>
    /\ phase' = [phase EXCEPT ![t] = "deqDone"]
    /\ items' = Tail(items)
    /\ out' = Append(out, [by |-> t, member |-> Head(items)])
    /\ UNCHANGED calls

Return(t) ==
    /\ phase[t] \in {"enqDone", "deqDone"}
    /\ phase' = [phase EXCEPT ![t] = "idle"]
    /\ UNCHANGED <<items, calls, out>>

Next ==
    \/ \E t \in Producers : CallEnQ(t) \/ DoEnQ(t)
    \/ \E t \in Consumers : CallDeQ(t) \/ DoDeQ(t)
    \/ \E t \in Threads : Return(t)

(***************************************************************************)
(* The promise of progress: while an item and a caller of deQ are both     *)
(* there, some caller gets an item, and an operation that took effect      *)
(* returns.                                                                *)
(***************************************************************************)
Progress ==
    /\ WF_vars(\E t \in Consumers : DoDeQ(t))
    /\ \A t \in Threads : WF_vars(Return(t))

Spec == Init /\ [][Next]_vars

FairSpec == Spec /\ Progress
=============================================================================
