---------------------------- MODULE SingletonProofs ----------------------------
EXTENDS Singleton, TLAPS

(* The first conjunct of induction.                                        *)
LEMMA InitIInv == Init => IInv
<1> SUFFICES ASSUME Init PROVE IInv
  OBVIOUS
<1> USE SingletonAssumption DEF Init
<1>1. TypeOK
  BY DEF TypeOK, Points
<1>2. \A t \in Threads : pc[t] = "idle" /\ got[t] = NULL /\ created[t] = 0 /\ ~Building(t)
  BY DEF Building
<1>3. PointersInv
  BY <1>2 DEF PointersInv
<1>4. ObjectsInv
  BY <1>2 DEF ObjectsInv
<1>5. UnracedInv
  BY <1>2 DEF UnracedInv
<1> QED
  BY <1>1, <1>3, <1>4, <1>5 DEF IInv

(* The steps of Instance keep types and pointers.                          *)
LEMMA InstancePreserves ==
  ASSUME TypeOK, PointersInv, NEW t \in Threads,
         CallInstance(t) \/ CheckInstance(t) \/ NewObject(t) \/ StoreInstance(t) \/ ReturnInstance(t)
  PROVE  (TypeOK /\ PointersInv)'
<1> USE SingletonAssumption DEF TypeOK, PointersInv, Points, Missing
<1>1. CASE CallInstance(t)
  BY <1>1 DEF CallInstance
<1>2. CASE CheckInstance(t)
  BY <1>2 DEF CheckInstance, Building
<1>3. CASE NewObject(t)
  BY <1>3 DEF NewObject
<1>4. CASE StoreInstance(t)
  BY <1>4 DEF StoreInstance, HeapAtStore
<1>5. CASE ReturnInstance(t)
  BY <1>5 DEF ReturnInstance
<1> QED
  BY <1>1, <1>2, <1>3, <1>4, <1>5

(* So do those of Destroy: its caller has a pointer, so instance is set.   *)
LEMMA DestroyPreserves ==
  ASSUME TypeOK, PointersInv, NEW t \in Threads, CallDestroy(t) \/ DeleteObject(t)
  PROVE  (TypeOK /\ PointersInv)'
<1> USE SingletonAssumption DEF TypeOK, PointersInv, Points, Missing
<1>1. CASE CallDestroy(t)
  BY <1>1 DEF CallDestroy
<1>2. CASE DeleteObject(t)
  BY <1>2 DEF DeleteObject
<1> QED
  BY <1>1, <1>2

(* What each step does to the objects: only NewObject fills an address,    *)
(* and a free one; only DeleteObject empties one, and it counts.           *)
LEMMA ObjectsPreserved ==
  ASSUME TypeOK, PointersInv, ObjectsInv, Next
  PROVE  ObjectsInv'
<1> PICK t \in Threads :
      \/ CallInstance(t) \/ CheckInstance(t) \/ NewObject(t) \/ StoreInstance(t) \/ ReturnInstance(t)
      \/ CallDestroy(t) \/ DeleteObject(t)
  BY DEF Next
<1> USE SingletonAssumption DEF TypeOK, PointersInv, ObjectsInv, Points, Missing
<1>1. CASE CallInstance(t)
  BY <1>1 DEF CallInstance
<1>2. CASE CheckInstance(t)
  BY <1>2 DEF CheckInstance
<1>3. CASE NewObject(t)
  BY <1>3 DEF NewObject
<1>4. CASE StoreInstance(t)
  BY <1>4 DEF StoreInstance, HeapAtStore
<1>5. CASE ReturnInstance(t)
  BY <1>5 DEF ReturnInstance
<1>6. CASE CallDestroy(t)
  BY <1>6 DEF CallDestroy
<1>7. CASE DeleteObject(t)
  BY <1>7 DEF DeleteObject
<1> QED
  BY <1>1, <1>2, <1>3, <1>4, <1>5, <1>6, <1>7

(* Without a race, a builder is alone from its check to its store.         *)
LEMMA UnracedPreserved ==
  ASSUME TypeOK, PointersInv, ObjectsInv, UnracedInv, Next
  PROVE  UnracedInv'
<1> PICK t \in Threads :
      \/ CallInstance(t) \/ CheckInstance(t) \/ NewObject(t) \/ StoreInstance(t) \/ ReturnInstance(t)
      \/ CallDestroy(t) \/ DeleteObject(t)
  BY DEF Next
<1> USE SingletonAssumption DEF TypeOK, PointersInv, ObjectsInv, UnracedInv, Points, Missing, Building
<1>1. CASE CallInstance(t)
  BY <1>1 DEF CallInstance
<1>2. CASE CheckInstance(t)
  BY <1>2 DEF CheckInstance
<1>3. CASE NewObject(t)
  BY <1>3 DEF NewObject
<1>4. CASE StoreInstance(t)
  BY <1>4 DEF StoreInstance, HeapAtStore
<1>5. CASE ReturnInstance(t)
  BY <1>5 DEF ReturnInstance
<1>6. CASE CallDestroy(t)
  BY <1>6 DEF CallDestroy
<1>7. CASE DeleteObject(t)
  BY <1>7 DEF DeleteObject
<1> QED
  BY <1>1, <1>2, <1>3, <1>4, <1>5, <1>6, <1>7

(* IInv holds in every reachable state.                                    *)
THEOREM Inductive == Spec => []IInv
<1>1. IInv /\ [Next]_vars => IInv'
  <2> SUFFICES ASSUME IInv, [Next]_vars PROVE IInv'
    OBVIOUS
  <2>1. CASE Next
    <3>1. (TypeOK /\ PointersInv)'
      BY <2>1, InstancePreserves, DestroyPreserves DEF Next, IInv
    <3> QED
      BY <2>1, <3>1, ObjectsPreserved, UnracedPreserved DEF IInv
  <2>2. CASE UNCHANGED vars
    BY <2>2 DEF IInv, TypeOK, PointersInv, ObjectsInv, UnracedInv, Building, vars
  <2> QED
    BY <2>1, <2>2
<1> QED
  BY InitIInv, <1>1, PTL DEF Spec

(* With any number of threads and calls, racing or not, a thread makes at  *)
(* most one object and Destroy never throws.                               *)
THEOREM AtMostOneObjectEach == Spec => []OneObjectEach
<1>1. IInv => OneObjectEach
  BY DEF IInv, PointersInv, OneObjectEach
<1> QED
  BY <1>1, Inductive, PTL

(* What the test asserts is true of every run in which no call of Instance *)
(* checked while another was making the object.                            *)
THEOREM UnracedCallsShare == Spec => []SameSingleton
<1>1. IInv => SameSingleton
  BY DEF IInv, TypeOK, PointersInv, UnracedInv, SameSingleton
<1> QED
  BY <1>1, Inductive, PTL

(* Racing or not, what Instance returns is an object until a Destroy, and  *)
(* it takes two Destroys to delete one twice.                              *)
THEOREM PointersAreValid == Spec => []ValidUntilDestroyed
<1>1. IInv => ValidUntilDestroyed
  BY DEF IInv, ObjectsInv, ValidUntilDestroyed
<1> QED
  BY <1>1, Inductive, PTL
=============================================================================
