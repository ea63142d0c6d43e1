--------------------------------- MODULE Guard ---------------------------------
(***************************************************************************)
(* Guard (Guard.cpp) as testGuard.cpp uses it: threads 1..N run myfunc,    *)
(* whose body is the scope of a Guard, and main starts them some seconds   *)
(* apart and joins them.  The seconds that a loop over gettimeofday has    *)
(* seen pass are counted per thread and move together.                     *)
(***************************************************************************)
EXTENDS Naturals, Sequences

CONSTANTS
    N,          \* 2: the threads main starts
    Held,       \* 5: the seconds the first thread stays in myfunc
    Apart,      \* 2: the seconds between two starts
    Nobody      \* who holds the free mutex

ASSUME GuardAssumption == N \in Nat \ {0} /\ Held \in Nat /\ Apart \in Nat /\ Nobody \notin 1..N

Threads == 1..N
Main == 0

VARIABLES
    lock,       \* the holder of Guard::lock
    pc,         \* the point each thread is at; main's is pc[Main]
    seconds,    \* how long each thread's current loop has waited
    created,    \* how many threads main has started
    glob_var,
    failed,     \* history: the threads whose CHECK failed
    order       \* history: the threads in the order in which they got the lock

vars == <<lock, pc, seconds, created, glob_var, failed, order>>

Inside(t) == pc[t] \in {"read", "first", "spin", "write", "second", "leave"}

Init ==
    /\ lock = Nobody
    /\ pc = [t \in Threads \cup {Main} |-> IF t = Main THEN "create" ELSE "none"]
    /\ seconds = [t \in Threads \cup {Main} |-> 0]
    /\ created = 0
    /\ glob_var = 0
    /\ failed = {}
    /\ order = <<>>

Goto(t, point) == pc' = [pc EXCEPT ![t] = point]

(* mutant: the guard does not wait for the mutex                           *)
LockAnyway(t) == TRUE
LockFree(t) == lock = Nobody

(* Guard::Guard. A thread that already holds the lock would wait for itself.*)
Construct(t) ==
    /\ pc[t] = "guard" /\ LockFree(t)
    /\ lock' = t
    /\ order' = Append(order, t)
    /\ Goto(t, "read")
    /\ UNCHANGED <<seconds, created, glob_var, failed>>

(* mutant: the mutex stays locked                                          *)
StillLocked(t) == lock
Unlocked(t) == Nobody

(* Guard::~Guard                                                           *)
Destruct(t) ==
    /\ pc[t] = "leave"
    /\ lock' = Unlocked(t)
    /\ Goto(t, "done")
    /\ UNCHANGED <<seconds, created, glob_var, failed, order>>

-----------------------------------------------------------------------------
(* myfunc                                                                  *)

ReadGlobVar(t) ==
    /\ pc[t] = "read"
    /\ Goto(t, IF glob_var = 0 THEN "first" ELSE "second")
    /\ UNCHANGED <<lock, seconds, created, glob_var, failed, order>>

CheckFirst(t) ==
    /\ pc[t] = "first"
    /\ failed' = IF t = 1 THEN failed ELSE failed \cup {t}
    /\ seconds' = [seconds EXCEPT ![t] = 0]
    /\ Goto(t, "spin")
    /\ UNCHANGED <<lock, created, glob_var, order>>

SpinEnds(t) ==
    /\ pc[t] = "spin" /\ seconds[t] >= Held
    /\ Goto(t, "write")
    /\ UNCHANGED <<lock, seconds, created, glob_var, failed, order>>

WriteGlobVar(t) ==
    /\ pc[t] = "write"
    /\ glob_var' = 1
    /\ Goto(t, "leave")
    /\ UNCHANGED <<lock, seconds, created, failed, order>>

CheckSecond(t) ==
    /\ pc[t] = "second"
    /\ failed' = IF t = 2 THEN failed ELSE failed \cup {t}
    /\ Goto(t, "leave")
    /\ UNCHANGED <<lock, seconds, created, glob_var, order>>

ThreadStep(t) ==
    \/ Construct(t) \/ ReadGlobVar(t) \/ CheckFirst(t) \/ SpinEnds(t)
    \/ WriteGlobVar(t) \/ CheckSecond(t) \/ Destruct(t)

-----------------------------------------------------------------------------
(* The test case                                                           *)

MoreToCreate == created + 1 < N

CreateThread ==
    /\ pc[Main] = "create"
    /\ created' = created + 1
    /\ pc' = [pc EXCEPT ![created + 1] = "guard", ![Main] = IF MoreToCreate THEN "wait" ELSE "join"]
    /\ seconds' = [seconds EXCEPT ![Main] = 0]
    /\ UNCHANGED <<lock, glob_var, failed, order>>

WaitEnds ==
    /\ pc[Main] = "wait" /\ seconds[Main] >= Apart
    /\ Goto(Main, "create")
    /\ UNCHANGED <<lock, seconds, created, glob_var, failed, order>>

JoinThreads ==
    /\ pc[Main] = "join"
    /\ \A t \in Threads : pc[t] = "done"
    /\ Goto(Main, "done")
    /\ UNCHANGED <<lock, seconds, created, glob_var, failed, order>>

MainStep == CreateThread \/ WaitEnds \/ JoinThreads

(* A second passes for every loop that waits; counting stops where a loop  *)
(* ends.                                                                   *)
Waits(t) == (pc[t] = "spin" /\ seconds[t] < Held) \/ (pc[t] = "wait" /\ seconds[t] < Apart)

Tick ==
    /\ \E t \in Threads \cup {Main} : Waits(t)
    /\ seconds' = [t \in Threads \cup {Main} |-> IF Waits(t) THEN seconds[t] + 1 ELSE seconds[t]]
    /\ UNCHANGED <<lock, pc, created, glob_var, failed, order>>

Next == MainStep \/ Tick \/ \E t \in Threads : ThreadStep(t)

Spec == Init /\ [][Next]_vars

(* Time passes, runnable threads run.                                      *)
FairSpec == Spec /\ WF_vars(MainStep) /\ WF_vars(Tick) /\ \A t \in Threads : WF_vars(ThreadStep(t))

-----------------------------------------------------------------------------
(* Properties                                                              *)

Points == {"none", "guard", "read", "first", "spin", "write", "second", "leave", "done"}

(* The lock has a holder that exists, the loops count no further than they *)
(* wait for.                                                               *)
TypeOK ==
    /\ lock \in Threads \cup {Nobody}
    /\ pc \in [Threads \cup {Main} -> Points \cup {"create", "wait", "join"}]
    /\ \A t \in Threads : pc[t] \in Points
    /\ pc[Main] \in {"create", "wait", "join", "done"}
    /\ seconds \in [Threads \cup {Main} -> Nat]
    /\ created \in 0..N
    /\ pc[Main] \in {"create", "wait"} => created < N
    /\ glob_var \in {0, 1}

(* The scope of a Guard is entered by one thread at a time.                *)
MutualExclusion == \A t, u \in Threads : Inside(t) /\ Inside(u) => t = u

First(t) == pc[t] \in {"first", "spin", "write"}

(* However slowly it goes, only one thread ever finds glob_var unset: a    *)
(* thread in the first branch is alone there and glob_var stays 0 until it *)
(* writes it, so no other thread has passed or will pass the test.         *)
OneFirst ==
    \A t \in Threads : First(t) =>
        /\ glob_var = 0
        /\ \A u \in Threads \ {t} : ~Inside(u) /\ pc[u] # "done"

(* Which executions fail the test: the CHECKs of threads 1 and 2 fail only *)
(* when another thread overtook thread 1 on its way to the lock, which     *)
(* starting it seconds earlier makes unlikely and not impossible; then 1's *)
(* does fail.                                                              *)
ChecksTellOrder ==
    /\ failed \cap {1, 2} # {} => order[1] # 1
    /\ pc[Main] = "done" /\ order[1] # 1 => 1 \in failed

(* Why MutualExclusion and OneFirst hold: the holder of the lock is the    *)
(* thread inside, and whoever finished the scope has left glob_var set;    *)
(* main starts only threads that have not run.                             *)
LockInv ==
    /\ \A t \in Threads : pc[t] = "none" <=> t > created
    /\ \A t \in Threads : Inside(t) <=> lock = t
    /\ \A t \in Threads : First(t) => glob_var = 0
    /\ \A t \in Threads : pc[t] \in {"second", "leave", "done"} => glob_var = 1

(* A thread that has passed the CHECK of its branch.                       *)
Checked(t) == pc[t] \in {"spin", "write", "leave", "done"}

(* Why ChecksTellOrder holds: the first to get the lock is still inside    *)
(* while glob_var is 0, so it is the one that takes the first branch, all  *)
(* the others take the second, and each CHECK fails for all but one.       *)
OrderInv ==
    /\ order \in Seq(Threads) /\ failed \subseteq Threads
    /\ order = <<>> => glob_var = 0 /\ \A t \in Threads : ~Inside(t) /\ pc[t] # "done"
    /\ order # <<>> => Inside(order[1]) \/ (glob_var = 1 /\ pc[order[1]] = "done")
    /\ \A t \in Threads : First(t) \/ (glob_var = 0 /\ pc[t] = "read") => order[1] = t
    /\ \A t \in Threads : pc[t] = "second" \/ (glob_var = 1 /\ pc[t] = "read") => order[1] # t
    /\ \A t \in Threads : t \in failed <=> Checked(t) /\ t # (IF order[1] = t THEN 1 ELSE 2)
    /\ pc[Main] = "done" => \A t \in Threads : pc[t] = "done"

IInv == TypeOK /\ LockInv /\ OrderInv

(* The joins return.                                                       *)
TestEnds == <>(pc[Main] = "done")

-----------------------------------------------------------------------------
(* What the repository says and the code does not do.                      *)

(* testGuard.cpp has a failing test show that the guard is bad: no CHECK   *)
(* fails while one thread at a time is in the scope of a Guard.            *)
FailureMeansBadGuard == MutualExclusion => failed \cap {1, 2} = {}
=============================================================================
