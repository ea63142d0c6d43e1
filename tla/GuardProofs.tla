------------------------------ MODULE GuardProofs ------------------------------
EXTENDS Guard, TLAPS

(* The first conjunct of induction.                                        *)
LEMMA InitLocked == Init => TypeOK /\ LockInv
<1> SUFFICES ASSUME Init PROVE TypeOK /\ LockInv
  OBVIOUS
<1> DEFINE All == Threads \cup {Main}
<1>1. pc = [t \in All |-> IF t = Main THEN "create" ELSE "none"]
  BY DEF Init
<1>2. seconds = [t \in All |-> 0] /\ created = 0 /\ glob_var = 0 /\ lock = Nobody
  BY DEF Init
<1>3. Main \in All /\ \A t \in Threads : t \in All /\ t # Main /\ t > 0
  BY GuardAssumption DEF Threads, Main
<1> HIDE DEF All
<1>4. pc[Main] = "create" /\ \A t \in Threads : pc[t] = "none"
  BY <1>1, <1>3
<1>5. pc \in [All -> Points \cup {"create", "wait", "join"}]
  BY <1>1 DEF Points
<1>6. seconds \in [All -> Nat]
  BY <1>2
<1>7. TypeOK
  BY <1>2, <1>4, <1>5, <1>6, GuardAssumption DEF TypeOK, Points, All
<1>8. \A t \in Threads : ~Inside(t) /\ ~First(t) /\ lock # t /\ t > created
  BY <1>2, <1>3, <1>4, GuardAssumption DEF Inside, First, Threads
<1> QED
  BY <1>2, <1>4, <1>7, <1>8, GuardAssumption DEF LockInv, Threads

(* Entering the scope.                                                     *)
LEMMA ConstructPreserves ==
  ASSUME TypeOK, LockInv, NEW t \in Threads, Construct(t)
  PROVE  (TypeOK /\ LockInv)'
<1> USE GuardAssumption DEF LockInv, TypeOK, Construct, LockFree, Goto, Threads, Main, Points
<1>1. TypeOK'
  OBVIOUS
<1>2. \A u \in Threads : Inside(u)' <=> lock' = u
  BY DEF Inside
<1>3. \A u \in Threads : First(u)' => glob_var' = 0
  BY DEF First
<1>4. \A u \in Threads : pc'[u] \in {"second", "leave", "done"} => glob_var' = 1
  OBVIOUS
<1>9. \A u \in Threads : pc'[u] = "none" <=> u > created'
  OBVIOUS
<1> QED
  BY <1>1, <1>2, <1>3, <1>4, <1>9 DEF LockInv

(* Leaving it.                                                             *)
LEMMA DestructPreserves ==
  ASSUME TypeOK, LockInv, NEW t \in Threads, Destruct(t)
  PROVE  (TypeOK /\ LockInv)'
<1> USE GuardAssumption DEF LockInv, TypeOK, Destruct, Unlocked, Goto, Threads, Main, Points
<1>1. TypeOK'
  OBVIOUS
<1>2. \A u \in Threads : Inside(u)' <=> lock' = u
  <2>1. lock = t
    BY DEF Inside
  <2> QED
    BY <2>1 DEF Inside
<1>3. \A u \in Threads : First(u)' => glob_var' = 0
  BY DEF First
<1>4. \A u \in Threads : pc'[u] \in {"second", "leave", "done"} => glob_var' = 1
  OBVIOUS
<1>9. \A u \in Threads : pc'[u] = "none" <=> u > created'
  OBVIOUS
<1> QED
  BY <1>1, <1>2, <1>3, <1>4, <1>9 DEF LockInv

(* The steps of myfunc inside the scope: whoever takes one holds the lock, *)
(* so no other thread is at a point that speaks of glob_var.               *)
LEMMA BodyPreserves ==
  ASSUME TypeOK, LockInv, NEW t \in Threads,
         ReadGlobVar(t) \/ CheckFirst(t) \/ SpinEnds(t) \/ WriteGlobVar(t) \/ CheckSecond(t)
  PROVE  (TypeOK /\ LockInv)'
<1> USE GuardAssumption
    DEF LockInv, TypeOK, ReadGlobVar, CheckFirst, SpinEnds, WriteGlobVar, CheckSecond, Goto, Threads,
        Main, Points
<1>1. lock = t /\ \A u \in Threads \ {t} : ~Inside(u)
  BY DEF Inside
<1>2. TypeOK'
  BY Zenon, SMT DEF First
<1>3. \A u \in Threads : Inside(u)' <=> lock' = u
  BY <1>1 DEF Inside
<1>4. \A u \in Threads : First(u)' => glob_var' = 0
  BY <1>1 DEF First, Inside
<1>5. \A u \in Threads : pc'[u] \in {"second", "leave", "done"} => glob_var' = 1
  BY <1>1 DEF First, Inside
<1>9. \A u \in Threads : pc'[u] = "none" <=> u > created'
  OBVIOUS
<1> QED
  BY <1>2, <1>3, <1>4, <1>5, <1>9 DEF LockInv

(* Main's steps and the passing of time touch neither the lock nor         *)
(* glob_var, nor a thread that has started.                                *)
LEMMA MainPreserves ==
  ASSUME TypeOK, LockInv, MainStep \/ Tick
  PROVE  (TypeOK /\ LockInv)'
<1> USE GuardAssumption
    DEF LockInv, TypeOK, MainStep, CreateThread, MoreToCreate, WaitEnds, JoinThreads, Tick, Waits, Goto,
        Threads, Main, Points
<1>1. TypeOK'
  <2>1. CASE CreateThread
    <3>1. created' \in 0 .. N /\ seconds' \in [Threads \cup {Main} -> Nat]
      BY <2>1
    <3>2. pc' = [pc EXCEPT ![created + 1] = "guard", ![Main] = IF created + 1 < N THEN "wait" ELSE "join"]
      BY <2>1
    <3>3. pc' \in [Threads \cup {Main} -> Points \cup {"create", "wait", "join"}]
      BY <2>1, <3>2
    <3>4. pc'[Main] \in {"wait", "join"} /\ \A t \in Threads : pc'[t] \in Points
      BY <2>1, <3>2
    <3> QED
      BY <2>1, <3>1, <3>3, <3>4
  <2>2. CASE WaitEnds
    BY <2>2
  <2>3. CASE JoinThreads
    BY <2>3
  <2>4. CASE Tick
    <3>1. seconds' \in [Threads \cup {Main} -> Nat]
      BY <2>4
    <3> QED
      BY <2>4, <3>1
  <2> QED
    BY <2>1, <2>2, <2>3, <2>4
<1>2. \A u \in Threads : pc'[u] = "none" <=> u > created'
  <2>1. CASE CreateThread
    BY <2>1
  <2>2. CASE WaitEnds \/ JoinThreads \/ Tick
    BY <2>2
  <2> QED
    BY <2>1, <2>2
<1>3. lock' = lock /\ glob_var' = glob_var
  OBVIOUS
<1>4. \A u \in Threads : pc'[u] = pc[u] \/ (pc[u] = "none" /\ pc'[u] = "guard")
  OBVIOUS
<1>5. \A u \in Threads : (Inside(u)' <=> Inside(u)) /\ (First(u)' <=> First(u))
  BY <1>4 DEF Inside, First
<1> QED
  BY <1>1, <1>2, <1>3, <1>4, <1>5 DEF LockInv

(* Getting the lock is what order records.                                 *)
LEMMA ConstructOrdered ==
  ASSUME IInv, NEW t \in Threads, Construct(t)
  PROVE  OrderInv'
<1> USE GuardAssumption DEF IInv, TypeOK, LockInv, OrderInv, Construct, LockFree, Goto
<1>1. \A u \in Threads : ~Inside(u)
  BY DEF Threads
<1>2. pc' = [pc EXCEPT ![t] = "read"] /\ t # Main /\ t \in Threads
  BY DEF Main, Threads
<1>3. order' \in Seq(Threads) /\ order' # <<>>
  OBVIOUS
<1>4. \A u \in Threads : u # t => pc'[u] = pc[u]
  BY <1>2
<1>5. pc'[t] = "read" /\ pc'[Main] = pc[Main] /\ pc[t] = "guard"
  BY <1>2
<1>6. CASE order = <<>>
  <2>1. order' = <<t>> /\ glob_var = 0
    BY <1>6
  <2> QED
    BY <2>1, <1>1, <1>3, <1>4, <1>5 DEF Inside, First, Checked
<1>7. CASE order # <<>>
  <2>1. order'[1] = order[1] /\ order[1] \in Threads
    BY <1>7
  <2>2. glob_var = 1 /\ pc[order[1]] = "done" /\ order[1] # t
    BY <1>1, <1>5, <1>7, <2>1
  <2> QED
    BY <2>1, <2>2, <1>1, <1>3, <1>4, <1>5 DEF Inside, First, Checked
<1> QED
  BY <1>6, <1>7

(* The steps inside the scope leave order alone.                           *)
LEMMA BodyOrdered ==
  ASSUME IInv, NEW t \in Threads,
         \/ ReadGlobVar(t) \/ CheckFirst(t) \/ SpinEnds(t) \/ WriteGlobVar(t) \/ CheckSecond(t)
         \/ Destruct(t)
  PROVE  OrderInv'
<1> USE GuardAssumption DEF IInv, TypeOK, LockInv, OrderInv, Goto
<1>1. lock = t /\ Inside(t) /\ \A u \in Threads \ {t} : ~Inside(u)
  BY DEF Inside, ReadGlobVar, CheckFirst, SpinEnds, WriteGlobVar, CheckSecond, Destruct
<1>2. order' = order /\ order # <<>> /\ order[1] \in Threads
  BY <1>1 DEF ReadGlobVar, CheckFirst, SpinEnds, WriteGlobVar, CheckSecond, Destruct
<1>3. t # Main
  BY DEF Main, Threads
<1>4. CASE ReadGlobVar(t)
  BY <1>1, <1>2, <1>3, <1>4 DEF ReadGlobVar, Inside, First, Checked
<1>5. CASE CheckFirst(t)
  BY <1>1, <1>2, <1>3, <1>5 DEF CheckFirst, Inside, First, Checked
<1>6. CASE SpinEnds(t)
  BY <1>1, <1>2, <1>3, <1>6 DEF SpinEnds, Inside, First, Checked
<1>7. CASE WriteGlobVar(t)
  BY <1>1, <1>2, <1>3, <1>7 DEF WriteGlobVar, Inside, First, Checked
<1>8. CASE CheckSecond(t)
  BY <1>1, <1>2, <1>3, <1>8 DEF CheckSecond, Inside, First, Checked
<1>9. CASE Destruct(t)
  BY <1>1, <1>2, <1>3, <1>9 DEF Destruct, Inside, First, Checked
<1> QED
  BY <1>4, <1>5, <1>6, <1>7, <1>8, <1>9

(* Main starts threads that have not run, and is done when all are.        *)
LEMMA MainOrdered ==
  ASSUME IInv, MainStep \/ Tick
  PROVE  OrderInv'
<1> USE GuardAssumption DEF IInv, TypeOK, LockInv, OrderInv
<1>1. order' = order /\ failed' = failed /\ glob_var' = glob_var
  BY DEF MainStep, CreateThread, WaitEnds, JoinThreads, Tick
<1>2. /\ \A u \in Threads : pc'[u] = pc[u] \/ (pc[u] = "none" /\ pc'[u] = "guard")
      /\ pc'[Main] = "done" => \A u \in Threads : pc'[u] = "done"
  <2> USE DEF Goto, Main, Threads
  <2>1. CASE CreateThread
    <3>1. created + 1 \in Threads /\ pc[created + 1] = "none"
      BY <2>1 DEF CreateThread
    <3>2. pc' = [pc EXCEPT ![created + 1] = "guard", ![Main] = IF MoreToCreate THEN "wait" ELSE "join"]
      BY <2>1 DEF CreateThread
    <3>3. created + 1 # 0 /\ 0 \notin Threads
      BY <3>1
    <3>4. pc'[Main] # "done"
      BY <3>2, <3>3
    <3>5. /\ pc'[created + 1] = "guard"
          /\ \A u \in Threads : u # created + 1 => pc'[u] = pc[u]
      BY <3>1, <3>2, <3>3
    <3> QED
      BY <3>1, <3>4, <3>5
  <2>2. CASE WaitEnds
    BY <2>2 DEF WaitEnds
  <2>3. CASE JoinThreads
    BY <2>3 DEF JoinThreads
  <2>4. CASE Tick
    BY <2>4 DEF Tick
  <2> QED
    BY <2>1, <2>2, <2>3, <2>4 DEF MainStep
<1>4. \A u \in Threads : /\ (Inside(u)' <=> Inside(u)) /\ (First(u)' <=> First(u))
                         /\ (Checked(u)' <=> Checked(u))
                         /\ \A p \in {"read", "second", "done"} : pc'[u] = p <=> pc[u] = p
  BY <1>2 DEF Inside, First, Checked
<1>5. order # <<>> => order[1] \in Threads
  OBVIOUS
<1> QED
  BY <1>1, <1>2, <1>4, <1>5

(* IInv holds in every reachable state.                                    *)
THEOREM Inductive == Spec => []IInv
<1>1. Init => IInv
  <2> SUFFICES ASSUME Init PROVE OrderInv
    BY InitLocked DEF IInv
  <2>1. order = <<>> /\ failed = {} /\ glob_var = 0 /\ pc[Main] # "done"
    BY DEF Init, Main
  <2>2. \A t \in Threads : pc[t] = "none"
    BY GuardAssumption DEF Init, Main, Threads
  <2> QED
    BY <2>1, <2>2 DEF OrderInv, Inside, First, Checked
<1>2. IInv /\ [Next]_vars => IInv'
  <2> SUFFICES ASSUME IInv, [Next]_vars PROVE IInv'
    OBVIOUS
  <2>1. CASE MainStep \/ Tick
    BY <2>1, MainPreserves, MainOrdered DEF IInv
  <2>2. CASE \E t \in Threads : ThreadStep(t)
    BY <2>2, ConstructPreserves, BodyPreserves, DestructPreserves, ConstructOrdered, BodyOrdered
       DEF ThreadStep, IInv
  <2>3. CASE UNCHANGED vars
    BY <2>3 DEF IInv, TypeOK, LockInv, OrderInv, Inside, First, Checked, vars
  <2> QED
    BY <2>1, <2>2, <2>3 DEF Next
<1> QED
  BY <1>1, <1>2, PTL DEF Spec

(* Types, for every number of threads and every timing of the test.        *)
THEOREM TypeCorrect == Spec => []TypeOK
BY Inductive, PTL DEF IInv

(* The scope of a Guard excludes, whichever threads come to it and when.   *)
THEOREM GuardExcludes == Spec => []MutualExclusion
<1>1. IInv => MutualExclusion
  BY GuardAssumption DEF IInv, LockInv, MutualExclusion, TypeOK
<1> QED
  BY <1>1, Inductive, PTL

(* Only one thread ever enters myfunc's first branch.                      *)
THEOREM OneThreadIsFirst == Spec => []OneFirst
<1>1. IInv => OneFirst
  BY GuardAssumption DEF IInv, LockInv, OneFirst, First, Inside
<1> QED
  BY <1>1, Inductive, PTL

(* However many threads main starts and however far apart, the CHECKs of   *)
(* the two threads of the test tell who got the lock first.                *)
THEOREM ChecksTell == Spec => []ChecksTellOrder
<1>1. IInv => ChecksTellOrder
  <2> SUFFICES ASSUME IInv PROVE ChecksTellOrder
    OBVIOUS
  <2> USE GuardAssumption DEF IInv, OrderInv
  <2>1. 1 \in Threads
    BY DEF Threads
  <2>2. ASSUME failed \cap {1, 2} # {} PROVE order[1] # 1
    BY <2>2
  <2>3. ASSUME pc[Main] = "done", order[1] # 1 PROVE 1 \in failed
    BY <2>1, <2>3 DEF Checked
  <2> QED
    BY <2>2, <2>3 DEF ChecksTellOrder
<1> QED
  BY <1>1, Inductive, PTL
=============================================================================
