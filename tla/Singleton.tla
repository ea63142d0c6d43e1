------------------------------- MODULE Singleton -------------------------------
(***************************************************************************)
(* Singleton.hpp: one global pointer, the static Instance(value) that      *)
(* fills it on first use, get_object and Destroy, called by any number of  *)
(* threads.  A load or a store of the pointer is one step; the heap is a   *)
(* function from addresses, and an address that was freed may be handed    *)
(* out again.                                                              *)
(***************************************************************************)
EXTENDS Naturals, FiniteSets

CONSTANTS
    Threads,
    Values,     \* the arguments of Instance
    Addresses,  \* where objects can be
    NULL,       \* the null pointer
    Free,       \* the content of an address that holds no object
    MaxCalls    \* bound: the calls of a thread

ASSUME SingletonAssumption == NULL \notin Addresses /\ Free \notin Values /\ MaxCalls \in Nat

VARIABLES
    instance,   \* the global void *
    heap,       \* the obj at each address
    pc, value,  \* where each thread is, and its call's argument
    got,        \* the pointer each thread received last
    calls,      \* how many calls it has begun
    created,    \* history: the objects each thread allocated
    first,      \* history: the argument of the first call to finish its check
    raced,      \* history: two threads were past the check at once
    destroyed,  \* history: how often Destroy deleted
    freedTwice  \* history: an object was deleted that was not there

vars == <<instance, heap, pc, value, got, calls, created, first, raced, destroyed, freedTwice>>

Init ==
    /\ instance = NULL
    /\ heap = [a \in Addresses |-> Free]
    /\ pc = [t \in Threads |-> "idle"]
    /\ value \in [Threads -> Values]
    /\ got = [t \in Threads |-> NULL]
    /\ calls = [t \in Threads |-> 0]
    /\ created = [t \in Threads |-> 0]
    /\ first = Free
    /\ raced = FALSE
    /\ destroyed = 0
    /\ freedTwice = FALSE

Building(t) == pc[t] \in {"new", "store"}

-----------------------------------------------------------------------------
(* Instance(value)                                                         *)

CallInstance(t) ==
    /\ pc[t] = "idle" /\ calls[t] < MaxCalls
    /\ \E v \in Values : value' = [value EXCEPT ![t] = v]
    /\ calls' = [calls EXCEPT ![t] = @ + 1]
    /\ pc' = [pc EXCEPT ![t] = "check"]
    /\ UNCHANGED <<instance, heap, got, created, first, raced, destroyed, freedTwice>>

(* mutant: Instance always makes an object                                 *)
AlwaysMissing == TRUE
Missing == instance = NULL

CheckInstance(t) ==
    /\ pc[t] = "check"
    /\ pc' = [pc EXCEPT ![t] = IF Missing THEN "new" ELSE "return"]
    /\ first' = IF first = Free THEN value[t] ELSE first
    /\ raced' = (raced \/ (Missing /\ \E u \in Threads : Building(u)))
    /\ UNCHANGED <<instance, heap, value, got, calls, created, destroyed, freedTwice>>

(* new Singleton<T>(value). The address waits in got until it is stored.   *)
NewObject(t) ==
    /\ pc[t] = "new"
    /\ \E a \in Addresses :
        /\ heap[a] = Free
        /\ heap' = [heap EXCEPT ![a] = value[t]]
        /\ got' = [got EXCEPT ![t] = a]
    /\ created' = [created EXCEPT ![t] = @ + 1]
    /\ pc' = [pc EXCEPT ![t] = "store"]
    /\ UNCHANGED <<instance, value, calls, first, raced, destroyed, freedTwice>>

(* mutant: the object that is replaced is deleted                          *)
HeapWithoutReplaced == IF instance = NULL THEN heap ELSE [heap EXCEPT ![instance] = Free]
HeapAtStore == heap

StoreInstance(t) ==
    /\ pc[t] = "store"
    /\ instance' = got[t]
    /\ heap' = HeapAtStore
    /\ pc' = [pc EXCEPT ![t] = "return"]
    /\ UNCHANGED <<value, got, calls, created, first, raced, destroyed, freedTwice>>

(* The return statement reads the global again.                            *)
ReturnInstance(t) ==
    /\ pc[t] = "return"
    /\ got' = [got EXCEPT ![t] = instance]
    /\ pc' = [pc EXCEPT ![t] = "idle"]
    /\ UNCHANGED <<instance, heap, value, calls, created, first, raced, destroyed, freedTwice>>

-----------------------------------------------------------------------------
(* Destroy, through a pointer that Instance returned: the check, then the  *)
(* delete of whatever instance points to, which is not reset.              *)

CallDestroy(t) ==
    /\ pc[t] = "idle" /\ got[t] # NULL /\ calls[t] < MaxCalls
    /\ calls' = [calls EXCEPT ![t] = @ + 1]
    /\ pc' = [pc EXCEPT ![t] = IF instance = NULL THEN "throw" ELSE "delete"]
    /\ UNCHANGED <<instance, heap, value, got, created, first, raced, destroyed, freedTwice>>

DeleteObject(t) ==
    /\ pc[t] = "delete"
    /\ freedTwice' = (freedTwice \/ heap[instance] = Free)
    /\ heap' = [heap EXCEPT ![instance] = Free]
    /\ destroyed' = destroyed + 1
    /\ pc' = [pc EXCEPT ![t] = "idle"]
    /\ UNCHANGED <<instance, value, got, calls, created, first, raced>>

Next ==
    \E t \in Threads :
        \/ CallInstance(t) \/ CheckInstance(t) \/ NewObject(t) \/ StoreInstance(t) \/ ReturnInstance(t)
        \/ CallDestroy(t) \/ DeleteObject(t)

Spec == Init /\ [][Next]_vars

-----------------------------------------------------------------------------
(* Properties                                                              *)

Points == {"idle", "check", "new", "store", "return", "delete", "throw"}

(* The pointer and what threads hold are addresses or null.                *)
TypeOK ==
    /\ instance \in Addresses \cup {NULL}
    /\ heap \in [Addresses -> Values \cup {Free}]
    /\ pc \in [Threads -> Points]
    /\ value \in [Threads -> Values]
    /\ got \in [Threads -> Addresses \cup {NULL}]
    /\ calls \in [Threads -> Nat]
    /\ created \in [Threads -> Nat]
    /\ first \in Values \cup {Free}
    /\ raced \in BOOLEAN /\ destroyed \in Nat /\ freedTwice \in BOOLEAN

(* However the calls of Instance and Destroy interleave, a thread makes at *)
(* most one object, and Destroy's throw is never reached: nobody has a     *)
(* pointer before there is an instance, and nothing makes it null again.   *)
OneObjectEach ==
    /\ \A t \in Threads : created[t] <= 1
    /\ \A t \in Threads : pc[t] # "throw"

(* What testSingleton.cpp asserts, for any calls that did not meet between *)
(* the check and the store: all threads hold the same pointer, and until   *)
(* Destroy the object has the value of the first call.                     *)
SameSingleton ==
    ~raced => \A t \in Threads : pc[t] = "idle" /\ got[t] # NULL =>
        /\ got[t] = instance
        /\ destroyed = 0 => heap[got[t]] = first

(* Until Destroy, a pointer that Instance returned points to an object,    *)
(* even when calls raced; an object is deleted twice only by two Destroys. *)
ValidUntilDestroyed ==
    /\ destroyed = 0 => \A t \in Threads : pc[t] = "idle" /\ got[t] # NULL => heap[got[t]] # Free
    /\ freedTwice => destroyed > 1

(* Why OneObjectEach holds: whoever has built an object, or been given a   *)
(* pointer, has seen instance set, and it stays set.                       *)
PointersInv ==
    \A t \in Threads :
        /\ pc[t] = "new" => created[t] = 0
        /\ created[t] <= 1
        /\ pc[t] = "store" => got[t] \in Addresses
        /\ pc[t] # "store" /\ (got[t] # NULL \/ created[t] = 1) => instance # NULL
        /\ pc[t] \in {"return", "delete"} => instance # NULL
        /\ pc[t] # "throw"

(* Why ValidUntilDestroyed holds: until a Destroy, every pointer that is   *)
(* held, and the global, point to an object.                               *)
ObjectsInv ==
    /\ destroyed = 0 => \A p \in {instance} \cup {got[t] : t \in Threads} : p # NULL => heap[p] # Free
    /\ freedTwice => destroyed > 1

(* Why SameSingleton holds: as long as no two calls met, one thread at     *)
(* most is building, with the first call's value, and there is no instance *)
(* yet; otherwise all who hold a pointer hold the instance.                *)
UnracedInv ==
    ~raced =>
        /\ \A t \in Threads : Building(t) =>
            /\ instance = NULL /\ value[t] = first
            /\ \A u \in Threads : Building(u) => u = t
            /\ pc[t] = "store" /\ destroyed = 0 => heap[got[t]] = first
        /\ instance = NULL /\ (\A t \in Threads : ~Building(t)) => first = Free
        /\ instance # NULL /\ destroyed = 0 => heap[instance] = first
        /\ \A t \in Threads : pc[t] # "store" /\ got[t] # NULL => got[t] = instance

IInv == TypeOK /\ PointersInv /\ ObjectsInv /\ UnracedInv
=============================================================================
