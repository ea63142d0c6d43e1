--------------------------- MODULE DoctestRunProofs ---------------------------
(***************************************************************************)
(* What holds of Context::run, its reporters and its handler of signals    *)
(* for every program, every set of options and reporters, and every        *)
(* interleaving of main, the test functions' threads and signals.          *)
(*                                                                         *)
(* CoreInv of DoctestRun is proved part by part, in the order              *)
(* in which the parts rest on one another: what a pass skips (SkipInv),    *)
(* where everybody is (TypeOK, PointsInv), what the counters say           *)
(* (CountsInv, PromptInv, VerdictsInv), the depth of the subcases          *)
(* (DepthInv), the console's header (HeaderInv), the mutexes (MutexInv),   *)
(* the contexts and the crashes (InfosInv, CalmInv) and the XML document   *)
(* (XmlInv). The properties follow at the end.                             *)
(***************************************************************************)
EXTENDS DoctestRun, FiniteSetTheorems, SequenceTheorems, WellFoundedInduction, TLAPS

-----------------------------------------------------------------------------
(* Subcases that a pass skips.                                             *)

(* While a subcase is skipped nothing is marked as passed.                 *)
Kept == sub.reenter /\ sub'.reenter => sub'.passed = sub.passed /\ Len(sub'.stack) <= Len(sub.stack)

(* A sequence is one over its own elements.                                *)
LEMMA OverItself ==
    ASSUME NEW S, NEW t \in Seq(S)
    PROVE  t \in Seq(ToSet(t))
<1>1. Len(t) \in Nat /\ t \in [1..Len(t) -> S]
  BY LenProperties
<1>2. t \in [1..Len(t) -> ToSet(t)]
  BY <1>1 DEF ToSet
<1> QED
  BY <1>1, <1>2, SeqDef

(* It stays one, with the length one expects, in push_back ...             *)
LEMMA Pushed ==
    ASSUME NEW s, s \in Seq(ToSet(s)), NEW e
    PROVE  /\ Append(s, e) \in Seq(ToSet(Append(s, e)))
           /\ Len(Append(s, e)) = Len(s) + 1
<1> DEFINE S == ToSet(s) \cup {e}
<1>1. s \in Seq(S)
  BY SeqMonotonic
<1>2. e \in S
  OBVIOUS
<1> HIDE DEF S
<1>3. Append(s, e) \in Seq(S) /\ Len(Append(s, e)) = Len(s) + 1
  BY <1>1, <1>2
<1> QED
  BY <1>3, OverItself

(* ... and in pop_back.                                                    *)
LEMMA Popped ==
    ASSUME NEW s, s \in Seq(ToSet(s)), s # <<>>
    PROVE  /\ Front(s) \in Seq(ToSet(Front(s)))
           /\ Len(Front(s)) = Len(s) - 1
<1> DEFINE S == ToSet(s)
<1>1. s \in Seq(S)
  OBVIOUS
<1> HIDE DEF S
<1>2. Len(s) \in Nat \ {0}
  BY <1>1, LenProperties, EmptySeq
<1> DEFINE n == Len(s) - 1
<1>3. n \in Nat /\ n + 1 = Len(s)
  BY <1>2
<1> HIDE DEF n
<1>4. \A k \in 1..n : s[k] \in S
  BY <1>1, <1>3, ElementOfSeq
<1>5. /\ SubSeq(s, 1, n) \in Seq(S)
      /\ Len(SubSeq(s, 1, n)) = IF 1 <= n THEN n - 1 + 1 ELSE 0
  BY <1>3, <1>4, SubSeqProperties
<1>6. Len(SubSeq(s, 1, n)) = n
  BY <1>3, <1>5
<1>7. Front(s) = SubSeq(s, 1, n)
  BY DEF Front, n
<1>8. Front(s) \in Seq(ToSet(Front(s)))
  BY <1>5, <1>7, OverItself
<1>9. Len(Front(s)) = Len(s) - 1
  <2>1. Len(Front(s)) = n
    BY <1>6, <1>7, Zenon
  <2>2. n = Len(s) - 1
    BY Zenon DEF n
  <2> QED
    BY <2>1, <2>2, Zenon
<1> QED
  BY <1>8, <1>9

-----------------------------------------------------------------------------

(* A step that leaves the fields for subcases alone and takes back no      *)
(* failure, and what it may do to phase.                                   *)
LEMMA SameSubcases ==
    ASSUME SkipInv, p' = p, SubcaseFields',
           sub'.reenter = sub.reenter, sub'.maxLevel = sub.maxLevel,
           sub'.stack = sub.stack, sub'.passed = sub.passed,
           sub.reenter =>
               /\ phase' \notin {"run", "start", "next"}
               /\ phase' = "finalize" => EnoughNow'
               /\ phase' = "end" => EnoughFailed(stats.numAssertsFailed)'
    PROVE  SkipInv' /\ Kept
<1>1. AboveDeepest'
  BY DEF SkipInv, AboveDeepest
<1>2. LastTest'
  BY DEF LastTest
<1>3. Len(sub.stack) \in Nat
  BY LenProperties DEF SkipInv, SubcaseFields
<1>4. Kept
  BY <1>3 DEF Kept
<1> QED
  BY <1>1, <1>2, <1>4 DEF SkipInv

(* A step that touches no field of SubcaseFields.                           *)
LEMMA SameContext ==
    ASSUME SkipInv, UNCHANGED contextVars,
           \/ phase' = phase
           \/ phase' \notin {"run", "start", "next", "finalize", "end"}
           \/ phase = "run" /\ phase' = "start"
    PROVE  SkipInv' /\ Kept
<1>1. p' = p /\ stats' = stats /\ cur' = cur /\ sub' = sub
  BY DEF contextVars
<1>2. SubcaseFields'
  BY <1>1 DEF SkipInv, SubcaseFields
<1>3. sub.reenter =>
         /\ phase' \notin {"run", "start", "next"}
         /\ phase' = "finalize" => EnoughNow'
         /\ phase' = "end" => EnoughFailed(stats.numAssertsFailed)'
  BY <1>1 DEF SkipInv, LastTest, EnoughNow, EnoughFailed
<1> QED
  BY <1>1, <1>2, <1>3, SameSubcases

(* finalizeTestCaseData adds the test case's failures to the run's.        *)
LEMMA Finalized ==
    ASSUME SkipInv, NEW late, finalizeTestCaseData(late), p' = p, sub' = sub
    PROVE  /\ SubcaseFields'
           /\ EnoughNow =>
                  EnoughNow' /\ EnoughFailed(stats.numAssertsFailed)'
           /\ EnoughFailed(stats.numAssertsFailed) => EnoughFailed(stats.numAssertsFailed)'
<1>1. /\ "failed" \in DOMAIN cur' /\ cur'.failed = cur.failed
      /\ "numAssertsFailed" \in DOMAIN stats'
      /\ stats'.numAssertsFailed = stats.numAssertsFailed + cur.failed
  BY DEF SkipInv, SubcaseFields, finalizeTestCaseData
<1>2. SubcaseFields'
  BY <1>1 DEF SkipInv, SubcaseFields
<1>3. p.abort_after \in Int
  BY DEF SkipInv, SubcaseFields
<1> QED
  BY <1>1, <1>2, <1>3 DEF EnoughNow, EnoughFailed, SkipInv, SubcaseFields

(* run's steps: the next pass starts with the stack empty, the next test   *)
(* case with nothing skipped.                                              *)
LEMMA RunSteps ==
    ASSUME SkipInv, RunStep
    PROVE  SkipInv' /\ Kept
<1>1. CASE UseReporters \/ RunNothing \/ EndRun \/ Cleanup \/ BodyReturns
  <2>1. UNCHANGED contextVars
    BY <1>1 DEF UseReporters, RunNothing, EndRun, Cleanup, BodyReturns
  <2>2. \/ phase' \notin {"run", "start", "next", "finalize", "end"}
        \/ phase = "run" /\ phase' = "start"
    BY <1>1 DEF UseReporters, RunNothing, EndRun, Cleanup, BodyReturns
  <2> QED
    BY <2>1, <2>2, SameContext
<1>2. CASE CollectTests
  <2>1. p' = p /\ sub' = sub /\ cur' = cur /\ ~sub.reenter
    BY <1>2 DEF CollectTests, SkipInv, LastTest
  <2>2. SubcaseFields'
    BY <1>2, <2>1 DEF CollectTests, SkipInv, SubcaseFields
  <2> QED
    BY <2>1, <2>2, SameSubcases
<1>3. CASE SkipTest \/ ListTest
  <2>1. p' = p /\ sub' = sub /\ cur' = cur /\ ~sub.reenter
    BY <1>3 DEF SkipTest, ListTest, AtTest, SkipInv, LastTest
  <2>2. "numAssertsFailed" \in DOMAIN stats' /\ stats'.numAssertsFailed = stats.numAssertsFailed
    BY <1>3 DEF SkipTest, ListTest, SkipInv, SubcaseFields
  <2>3. SubcaseFields'
    BY <2>1, <2>2 DEF SkipInv, SubcaseFields
  <2> QED
    BY <2>1, <2>3, SameSubcases
<1>4. CASE StartTest
  <2>1. p' = p /\ ~sub.reenter /\ sub' = [sub EXCEPT !.passed = {}]
    BY <1>4 DEF StartTest, AtTest, SkipInv, LastTest
  <2>2. ~sub'.reenter
    BY <2>1 DEF SkipInv, SubcaseFields
  <2>3. SubcaseFields'
    BY <1>4, <2>1 DEF StartTest, NoTestYet, SkipInv, SubcaseFields
  <2> QED
    BY <2>1, <2>2, <2>3 DEF SkipInv, AboveDeepest, LastTest, Kept
<1>5. CASE StartPass
  <2>1. p' = p /\ stats' = stats /\ cur' = cur /\ sub' = ResetSubcases
    BY <1>5 DEF StartPass
  <2>2. /\ sub'.reenter = FALSE /\ sub'.stack = <<>> /\ sub'.maxLevel = 0
        /\ {"stack", "passed", "maxLevel", "reenter"} \subseteq DOMAIN sub'
    BY <2>1 DEF ResetSubcases, NoSubcases
  <2>3. sub'.stack \in Seq(ToSet(sub'.stack))
    BY <2>2, EmptySeq
  <2>4. sub'.maxLevel \in Nat /\ sub'.reenter \in BOOLEAN
    <3>1. sub'.reenter \in BOOLEAN
      BY <2>2, Zenon
    <3>2. sub'.maxLevel \in Nat
      BY <2>2
    <3> QED
      BY <3>1, <3>2, Zenon
  <2>5. p' = p /\ stats' = stats /\ cur' = cur
    BY <2>1
  <2>6. {"stack", "passed", "maxLevel", "reenter"} \subseteq DOMAIN sub'
    BY <2>2
  <2>7. SubcaseFields'
    BY <2>3, <2>4, <2>5, <2>6 DEF SkipInv, SubcaseFields
  <2> QED
    BY <2>2, <2>7 DEF SkipInv, AboveDeepest, LastTest, Kept
<1>6. CASE Catch
  <2>1. p' = p /\ sub' = sub /\ stats' = stats /\ phase' = "after"
    BY <1>6 DEF Catch
  <2>2. "failed" \in DOMAIN cur' /\ cur'.failed = cur.failed
    BY <1>6 DEF Catch, SkipInv, SubcaseFields
  <2>3. SubcaseFields'
    BY <2>1, <2>2 DEF SkipInv, SubcaseFields
  <2> QED
    BY <2>1, <2>3, SameSubcases
<1>7. CASE AfterPass
  <2>1. p' = p /\ sub' = sub /\ stats' = stats
    BY <1>7 DEF AfterPass
  <2>2. "failed" \in DOMAIN cur' /\ cur'.failed = cur.failed
    BY <1>7 DEF AfterPass, SkipInv, SubcaseFields
  <2>3. SubcaseFields'
    BY <2>1, <2>2 DEF SkipInv, SubcaseFields
  <2>4. phase' \in {"pass", "finalize"}
    BY <1>7 DEF AfterPass
  <2>5. sub.reenter /\ phase' = "finalize" => EnoughNow'
    BY <1>7, <2>1, <2>2 DEF AfterPass, EnoughNow, EnoughFailed
  <2> QED
    BY <2>1, <2>3, <2>4, <2>5, SameSubcases
<1>8. CASE EndTest
  <2>1. PICK late \in MayBeLate(Test) : finalizeTestCaseData(late)
    BY <1>8 DEF EndTest
  <2>2. p' = p /\ sub' = sub /\ phase = "finalize" /\ phase' = "end"
    BY <1>8 DEF EndTest
  <2>3. SubcaseFields'
    BY <2>1, <2>2, Finalized
  <2>4. sub.reenter => EnoughFailed(stats.numAssertsFailed)'
    BY <2>1, <2>2, Finalized DEF SkipInv, LastTest
  <2> QED
    BY <2>2, <2>3, <2>4, SameSubcases
<1>9. CASE LeaveTest
  <2>1. p' = p /\ sub' = sub /\ stats' = stats /\ phase = "end" /\ phase' \in {"last", "next"}
    BY <1>9 DEF LeaveTest
  <2>2. "failed" \in DOMAIN cur' /\ cur'.failed = cur.failed
    BY <1>9 DEF LeaveTest, SkipInv, SubcaseFields
  <2>3. SubcaseFields'
    BY <2>1, <2>2 DEF SkipInv, SubcaseFields
  <2>4. sub.reenter => phase' = "last"
    BY <1>9 DEF LeaveTest, SkipInv, LastTest
  <2> QED
    BY <2>1, <2>3, <2>4, SameSubcases
<1> QED
  BY <1>1, <1>2, <1>3, <1>4, <1>5, <1>6, <1>7, <1>8, <1>9 DEF RunStep

(* The counters of assertions only grow while a test case runs.            *)
LEMMA Counted ==
    ASSUME SkipInv, p' = p, stats' = stats, sub' = sub, phase' = phase,
           "failed" \in DOMAIN cur', cur'.failed \in Nat, cur'.failed >= cur.failed
    PROVE  SkipInv' /\ Kept
<1>1. SubcaseFields'
  BY DEF SkipInv, SubcaseFields
<1>2. p.abort_after \in Int
  BY DEF SkipInv, SubcaseFields
<1>3. EnoughNow => EnoughNow'
  BY <1>2 DEF EnoughNow, EnoughFailed, SkipInv, SubcaseFields
<1>4. EnoughFailed(stats.numAssertsFailed) => EnoughFailed(stats.numAssertsFailed)'
  BY DEF EnoughNow, EnoughFailed
<1> QED
  BY <1>1, <1>3, <1>4, SameSubcases DEF SkipInv, LastTest

(* A step of an assertion.                                                 *)
LEMMA AssertSteps ==
    ASSUME SkipInv, NEW t, AssertStep(t)
    PROVE  SkipInv' /\ Kept
<1>1. CASE LogSkipped(t) \/ Log(t) \/ Logged(t) \/ AssertReturns(t)
  <2>1. UNCHANGED contextVars /\ phase' = phase
    BY <1>1 DEF LogSkipped, Log, Logged, AssertReturns, runVars
  <2> QED
    BY <2>1, SameContext
<1>2. CASE AddAssert(t)
  <2>1. p' = p /\ stats' = stats /\ sub' = sub /\ phase' = phase
    BY <1>2 DEF AddAssert, runVars
  <2>2. "failed" \in DOMAIN cur' /\ cur'.failed = cur.failed
    BY <1>2 DEF AddAssert, SkipInv, SubcaseFields
  <2>3. cur'.failed \in Nat /\ cur'.failed >= cur.failed
    BY <2>2 DEF SkipInv, SubcaseFields
  <2> QED
    BY <2>1, <2>2, <2>3, Counted
<1>3. CASE AddFailedAssert(t)
  <2>1. p' = p /\ stats' = stats /\ sub' = sub /\ phase' = phase
    BY <1>3 DEF AddFailedAssert, runVars
  <2>2. PICK n \in {0, 1} : "failed" \in DOMAIN cur' /\ cur'.failed = cur.failed + n
    <3> DEFINE n == Failing(asserting[t].at, asserting[t].failed)
    <3>1. n \in {0, 1}
      BY DEF Failing
    <3> HIDE DEF n
    <3>2. \E asserts : cur' = [cur EXCEPT !.failed = @ + n, !.asserts = asserts]
      BY <1>3 DEF AddFailedAssert, n
    <3>3. "failed" \in DOMAIN cur' /\ cur'.failed = cur.failed + n
      BY <3>2 DEF SkipInv, SubcaseFields
    <3> QED
      BY <3>1, <3>3
  <2>3. cur'.failed \in Nat /\ cur'.failed >= cur.failed
    BY <2>2 DEF SkipInv, SubcaseFields
  <2> QED
    BY <2>1, <2>2, <2>3, Counted
<1> QED
  BY <1>1, <1>2, <1>3 DEF AssertStep

(* The subcases' fields change only in these.                              *)
LEMMA SubcaseSteps ==
    ASSUME SkipInv, SkipSubcase \/ EnterSubcase \/ LeaveSubcase \/ FatalPop
    PROVE  SkipInv' /\ Kept
<1> USE DEF SkipInv, SubcaseFields
<1>1. Len(sub.stack) \in Nat
  BY LenProperties
<1>2. CASE SkipSubcase
  <2>1. p' = p /\ stats' = stats /\ cur' = cur /\ phase = "body" /\ phase' = phase
    BY <1>2 DEF SkipSubcase, AtStatement
  <2>2. \/ sub' = sub
        \/ sub' = [sub EXCEPT !.reenter = TRUE] /\ Len(sub.stack) < sub.maxLevel
    BY <1>2 DEF SkipSubcase, SameLevelEntered
  <2>3. CASE sub' = sub
    BY <2>1, <2>3, SameSubcases
  <2>4. CASE sub' = [sub EXCEPT !.reenter = TRUE] /\ Len(sub.stack) < sub.maxLevel
    <3>1. /\ sub'.stack = sub.stack /\ sub'.maxLevel = sub.maxLevel /\ sub'.passed = sub.passed
          /\ DOMAIN sub' = DOMAIN sub
      BY <2>4
    <3>2. sub'.reenter \in BOOLEAN
      BY <2>4
    <3>3. SubcaseFields'
      BY <2>1, <3>1, <3>2
    <3> QED
      BY <1>1, <2>1, <2>4, <3>1, <3>3 DEF AboveDeepest, LastTest, Kept
  <2> QED
    BY <2>2, <2>3, <2>4
<1>3. CASE EnterSubcase
  <2> DEFINE stack == Append(sub.stack, Signature)
  <2>1. p' = p /\ stats' = stats /\ cur' = cur /\ ~sub.reenter
    BY <1>1, <1>3 DEF EnterSubcase, SameLevelEntered, AboveDeepest
  <2>2. stack \in Seq(ToSet(stack)) /\ Len(stack) = Len(sub.stack) + 1
    BY Pushed
  <2>3. sub' = [sub EXCEPT !.stack = stack, !.maxLevel = Len(stack)]
    BY <1>3 DEF EnterSubcase
  <2> HIDE DEF stack
  <2>4. /\ sub'.stack = stack /\ sub'.maxLevel = Len(stack) /\ sub'.reenter = sub.reenter
        /\ DOMAIN sub' = DOMAIN sub
    BY <2>3
  <2>5. SubcaseFields'
    BY <1>1, <2>1, <2>2, <2>4
  <2> QED
    BY <2>1, <2>4, <2>5 DEF AboveDeepest, LastTest, Kept
<1>4. CASE LeaveSubcase \/ FatalPop
  <2>1. p' = p /\ stats' = stats /\ cur' = cur
    BY <1>4 DEF LeaveSubcase, FatalPop
  <2>2. phase' = phase \/ phase' = "leaving"
    BY <1>4 DEF LeaveSubcase, FatalPop, runVars
  <2>3. sub.stack # <<>> /\ sub'.stack = Front(sub.stack)
    BY <1>4 DEF LeaveSubcase, Leaving, FatalPop
  <2>4. /\ sub'.maxLevel = sub.maxLevel /\ sub'.reenter = sub.reenter
        /\ DOMAIN sub' = DOMAIN sub
    BY <1>4 DEF LeaveSubcase, FatalPop
  <2>5. sub.reenter => sub'.passed = sub.passed
    BY <1>4 DEF LeaveSubcase, FatalPop, PassedAfter
  <2>6. sub'.stack \in Seq(ToSet(sub'.stack)) /\ Len(sub'.stack) = Len(sub.stack) - 1
    BY <2>3, Popped
  <2>7. SubcaseFields'
    BY <2>1, <2>4, <2>6
  <2>8. LastTest'
    BY <2>1, <2>2, <2>4 DEF LastTest, EnoughNow, EnoughFailed
  <2> QED
    BY <1>1, <2>4, <2>5, <2>6, <2>7, <2>8 DEF AboveDeepest, Kept
<1> QED
  BY <1>2, <1>3, <1>4

(* The steps that change other fields of sub than those for subcases.      *)
LEMMA OtherFields ==
    ASSUME SkipInv, p' = p, stats' = stats,
           "failed" \in DOMAIN cur', cur'.failed = cur.failed,
           DOMAIN sub' = DOMAIN sub, sub'.stack = sub.stack, sub'.passed = sub.passed,
           sub'.maxLevel = sub.maxLevel, sub'.reenter = sub.reenter,
           phase' = phase \/ phase' \in {"unwind", "killed"}
    PROVE  SkipInv' /\ Kept
<1>1. SubcaseFields'
  BY DEF SkipInv, SubcaseFields
<1>2. sub.reenter =>
         /\ phase' \notin {"run", "start", "next"}
         /\ phase' = "finalize" => EnoughNow'
         /\ phase' = "end" => EnoughFailed(stats.numAssertsFailed)'
  BY DEF SkipInv, LastTest, EnoughNow, EnoughFailed
<1> QED
  BY <1>1, <1>2, SameSubcases

(* handleSignal sets a flag of the test case or kills the program.         *)
LEMMA SignalHandled ==
    ASSUME SkipInv, NEW t, HandleSignal(t)
    PROVE  /\ "failed" \in DOMAIN cur' /\ cur'.failed = cur.failed
           /\ phase' = phase \/ phase' = "killed"
BY DEF HandleSignal, SkipInv, SubcaseFields

(* A step of main in a test function.                                      *)
LEMMA BodySteps ==
    ASSUME SkipInv, BodyStep
    PROVE  SkipInv' /\ Kept
<1>1. CASE EnteredSubcase \/ LeftSubcase \/ LockReporters \/ SkipAssertion \/ MakeAssertion
           \/ Throw \/ CreateThreads \/ JoinThreads
  <2>1. UNCHANGED contextVars
    BY <1>1 DEF EnteredSubcase, LeftSubcase, LockReporters, SkipAssertion, MakeAssertion, Throw,
                CreateThreads, JoinThreads
  <2>2. phase' = phase \/ phase' \in {"body", "unwind"}
    BY <1>1 DEF EnteredSubcase, LeftSubcase, LockReporters, runVars, SkipAssertion, MakeAssertion, Throw,
                CreateThreads, JoinThreads
  <2> QED
    BY <2>1, <2>2, SameContext
<1>2. CASE BeginContext \/ DestroyContext \/ AnnounceException \/ throwException
  <2>1. /\ p' = p /\ stats' = stats /\ cur' = cur
        /\ phase' = phase \/ phase' \in {"unwind", "killed"}
    BY <1>2 DEF BeginContext, DestroyContext, AnnounceException, throwException, runVars
  <2>2. /\ DOMAIN sub' = DOMAIN sub /\ sub'.stack = sub.stack /\ sub'.passed = sub.passed
        /\ sub'.maxLevel = sub.maxLevel /\ sub'.reenter = sub.reenter
    BY <1>2 DEF BeginContext, DestroyContext, AnnounceException, throwException, SkipInv, SubcaseFields
  <2>3. "failed" \in DOMAIN cur' /\ cur'.failed = cur.failed
    BY <2>1 DEF SkipInv, SubcaseFields
  <2> QED
    BY <2>1, <2>2, <2>3, OtherFields
<1>3. CASE SkipSubcase \/ EnterSubcase \/ LeaveSubcase
  BY <1>3, SubcaseSteps
<1>4. CASE AssertStep(Main)
  BY <1>4, AssertSteps
<1> QED
  BY <1>1, <1>2, <1>3, <1>4 DEF BodyStep

(* A step of the handler.                                                  *)
LEMMA SignalSteps ==
    ASSUME SkipInv, FatalStep \/ Interrupt \/ (\E w \in Workers : Terminate(w))
    PROVE  SkipInv' /\ Kept
<1>1. CASE FatalException \/ FatalTestEnd \/ FatalRunEnd
  <2>1. UNCHANGED contextVars /\ (phase' = phase \/ phase' = "killed")
    BY <1>1 DEF FatalException, FatalTestEnd, FatalRunEnd, runVars
  <2> QED
    BY <2>1, SameContext
<1>2. CASE FatalPop
  BY <1>2, SubcaseSteps
<1>3. CASE FatalFinalize
  <2>1. PICK late \in MayBeLate(cur.test[1]) : finalizeTestCaseData(late)
    BY <1>3 DEF FatalFinalize
  <2>2. p' = p /\ sub' = sub /\ phase' = phase
    BY <1>3 DEF FatalFinalize, runVars
  <2>3. SubcaseFields'
    BY <2>1, <2>2, Finalized
  <2>4. /\ EnoughNow => EnoughNow'
        /\ EnoughFailed(stats.numAssertsFailed) => EnoughFailed(stats.numAssertsFailed)'
    BY <2>1, <2>2, Finalized
  <2> QED
    BY <2>2, <2>3, <2>4, SameSubcases DEF SkipInv, LastTest
<1>4. CASE Interrupt
  <2>1. p' = p /\ stats' = stats /\ sub' = sub /\ HandleSignal(Main)
    BY <1>4 DEF Interrupt
  <2> QED
    BY <2>1, SignalHandled, OtherFields
<1>5. ASSUME NEW w \in Workers, Terminate(w)
      PROVE  SkipInv' /\ Kept
  <2>1. p' = p /\ stats' = stats /\ sub' = [sub EXCEPT !.log = FALSE] /\ HandleSignal(w)
    BY <1>5 DEF Terminate
  <2>2. /\ DOMAIN sub' = DOMAIN sub /\ sub'.stack = sub.stack /\ sub'.passed = sub.passed
        /\ sub'.maxLevel = sub.maxLevel /\ sub'.reenter = sub.reenter
    BY <2>1 DEF SkipInv, SubcaseFields
  <2> QED
    BY <2>1, <2>2, SignalHandled, OtherFields
<1> QED
  BY <1>1, <1>2, <1>3, <1>4, <1>5 DEF FatalStep

(* Every step keeps SkipInv, and what was passed while a subcase is skipped.*)
LEMMA Steps ==
    ASSUME SkipInv, [Next]_vars
    PROVE  SkipInv' /\ Kept
<1>1. CASE UNCHANGED vars
  <2>1. UNCHANGED contextVars /\ phase' = phase
    BY <1>1 DEF vars, runVars
  <2> QED
    BY <2>1, SameContext
<1>2. CASE MainStep
  BY <1>2, RunSteps, BodySteps DEF MainStep
<1>3. ASSUME NEW w \in Workers, WorkerStep(w)
      PROVE  SkipInv' /\ Kept
  BY <1>3, AssertSteps, SignalSteps DEF WorkerStep
<1>4. CASE HandlerStep \/ Interrupt
  BY <1>4, SignalSteps DEF HandlerStep
<1> QED
  BY <1>1, <1>2, <1>3, <1>4 DEF Next

(* Nothing is skipped at first.                                            *)
LEMMA Initially == Init => SkipInv
<1> SUFFICES ASSUME Init PROVE SkipInv
  OBVIOUS
<1>1. /\ sub.reenter = FALSE /\ sub.stack = <<>> /\ sub.maxLevel = 0
      /\ {"stack", "passed", "maxLevel", "reenter"} \subseteq DOMAIN sub
  BY DEF Init, NoSubcases
<1>2. sub.stack \in Seq(ToSet(sub.stack))
  BY <1>1, EmptySeq
<1>3. sub.reenter \in BOOLEAN
  BY <1>1, Zenon
<1>4. sub.maxLevel \in Nat
  BY <1>1
<1>5. /\ "numAssertsFailed" \in DOMAIN stats /\ stats.numAssertsFailed \in Nat
      /\ "failed" \in DOMAIN cur /\ cur.failed \in Nat /\ p.abort_after \in Int
  BY DoctestAssumption DEF AreOptions, Init, NoTestYet
<1>6. SubcaseFields
  BY <1>1, <1>2, <1>3, <1>4, <1>5, Zenon DEF SubcaseFields
<1> QED
  BY <1>1, <1>6, Zenon DEF SkipInv, AboveDeepest, LastTest

(* Whatever the test functions, the options and the signals are, a pass    *)
(* that has skipped a subcase is above the deepest level that it entered,  *)
(* and no test case follows one that ended with a subcase skipped.         *)
THEOREM SkipInductive == Spec => []SkipInv
<1>1. SkipInv /\ [Next]_vars => SkipInv'
  BY Steps
<1> QED
  BY <1>1, Initially, PTL DEF Spec

(* So a subcase that was skipped is never marked as passed in the same     *)
(* pass: run's loop finds it again.                                        *)
THEOREM SkippedIsRunLater == Spec => SkippedForGood
<1>1. SkipInv /\ [Next]_vars =>
          [sub.reenter /\ sub'.reenter => sub'.passed = sub.passed /\ Len(sub'.stack) <= Len(sub.stack)]_vars
  BY Steps DEF Kept
<1> QED
  BY <1>1, SkipInductive, PTL DEF Spec, SkippedForGood

-----------------------------------------------------------------------------
(* Assertions, statements and threads.                                     *)

(* An assertion fails or does not, as its macro and its expression say.    *)
LEMMA FailedIsBoolean ==
    ASSUME NEW kind \in Kinds, NEW result \in Results
    PROVE  Failed(kind, result) \in BOOLEAN
BY DEF Failed, Kinds, Results

(* What a macro begins is an assertion under way.                          *)
LEMMA BegunIsAssertion ==
    ASSUME NEW at \in Severities, NEW kind \in Kinds, NEW result \in Results
    PROVE  Begun(at, kind, result) \in Assertions
<1>1. Failed(kind, result) \in BOOLEAN /\ result.threw \in BOOLEAN
  BY FailedIsBoolean DEF Results
<1> QED
  BY <1>1 DEF Begun, Assertions

(* The test case that main is in, and the statement that it is at.         *)
LEMMA TestHere ==
    ASSUME TypeOK, i <= Len(testArray)
    PROVE  IsTest(Test)
<1>1. i \in 1..Len(testArray) /\ Len(testArray) \in Nat
  BY DEF TypeOK
<1>2. Test \in ToSet(testArray)
  BY <1>1, LenProperties DEF TypeOK, ToSet, Test
<1> QED
  BY <1>2 DEF TypeOK

(* While a test function runs there is one, and main is inside it or at    *)
(* its end.                                                                *)
LEMMA StatementHere ==
    ASSUME TypeOK, PointsInv, InBody
    PROVE  /\ IsTest(Test) /\ Len(Test.body) \in Nat /\ DOMAIN Test.body = 1..Len(Test.body)
           /\ ip \in 1..Len(Test.body) + 1 /\ ip \in Nat
           /\ ip <= Len(Test.body) => ip \in DOMAIN Test.body /\ WellFormed(Test.body, ip)
<1>1. IsTest(Test) /\ ip \in 1..Len(Test.body) + 1
  BY TestHere DEF PointsInv, InTest
<1>2. Len(Test.body) \in Nat /\ DOMAIN Test.body = 1..Len(Test.body)
  BY <1>1, LenProperties DEF IsTest
<1>3. ip <= Len(Test.body) => ip \in DOMAIN Test.body
  BY <1>1, <1>2
<1> QED
  BY <1>1, <1>2, <1>3 DEF IsTest

(* Between a pthread_create and its pthread_join main is at an assertion   *)
(* that throws nothing or at the pthread_join.                             *)
LEMMA SpanEnds ==
    ASSUME TypeOK, PointsInv, phase = "body", InSpan
    PROVE  /\ ip \in DOMAIN Test.body /\ ip <= Len(Test.body)
           /\ Statement.op = "join" \/ HarmlessAssertion(Statement)
<1>1. /\ IsTest(Test) /\ Len(Test.body) \in Nat /\ DOMAIN Test.body = 1..Len(Test.body)
      /\ ip \in 1..Len(Test.body) + 1 /\ ip \in Nat
  BY StatementHere DEF InBody
<1>2. PICK k \in 1..ip - 1 : /\ Test.body[k].op = "create"
                             /\ \A j \in k + 1..ip - 1 : HarmlessAssertion(Test.body[j])
  BY DEF InSpan
<1>3. k \in 1..Len(Test.body) /\ WellFormed(Test.body, k)
  BY <1>1, <1>2 DEF IsTest
<1>4. PICK m \in k + 1..Len(Test.body) :
          Test.body[m].op = "join" /\ \A j \in k + 1..m - 1 : HarmlessAssertion(Test.body[j])
  BY <1>2, <1>3 DEF WellFormed
<1>5. ip <= m
  <2>1. CASE m \in k + 1..ip - 1
    BY <1>2, <1>4, <2>1 DEF HarmlessAssertion
  <2> QED
    BY <2>1, <1>1, <1>3, <1>4
<1>6. ip \in k + 1..m - 1 \/ ip = m
  BY <1>1, <1>2, <1>3, <1>4, <1>5
<1> QED
  BY <1>1, <1>4, <1>5, <1>6 DEF Statement

(* A step over such an assertion stays between the two.                    *)
LEMMA SpanGoesOn ==
    ASSUME TypeOK, PointsInv, phase = "body", InSpan, HarmlessAssertion(Statement),
           ip' = ip + 1, testArray' = testArray, i' = i
    PROVE  InSpan'
<1>1. ip \in Nat
  BY StatementHere DEF InBody
<1>2. PICK k \in 1..ip - 1 : /\ Test.body[k].op = "create"
                             /\ \A j \in k + 1..ip - 1 : HarmlessAssertion(Test.body[j])
  BY DEF InSpan
<1>3. Test' = Test
  BY DEF Test
<1>4. \A j \in k + 1..ip' - 1 : HarmlessAssertion(Test.body[j])
  BY <1>1, <1>2 DEF Statement
<1>5. k \in 1..ip' - 1
  BY <1>1, <1>2
<1> QED
  BY <1>2, <1>3, <1>4, <1>5 DEF InSpan

(* Whoever works makes an assertion.                                       *)
LEMMA WorkingMakes ==
    ASSUME TypeOK, NEW t \in Threads
    PROVE  /\ Working(t) => asserting[t] \in Assertions
           /\ Working(t) <=> asserting[t].pc # "idle"
<1>1. asserting[t] \in Assertions \cup {Idle}
  BY DEF TypeOK
<1> QED
  BY <1>1 DEF Working, Idle, Assertions

(* Elsewhere no thread but main is at work, and no signal is handled.      *)
LEMMA AloneElsewhere ==
    ASSUME TypeOK, PointsInv, fatal.by # Main, phase # "killed",
           (phase = "body" /\ InSpan) =>
               Working(Main) /\ ~Harmless(asserting[Main].at, asserting[Main].kind, asserting[Main].failed)
    PROVE  fatal.pc = "no" /\ \A w \in Workers : ~Working(w)
<1>1. \A w \in Workers : ~Working(w)
  BY DEF PointsInv, Confined
<1>2. fatal.by \in Workers => Working(fatal.by)
  <2>1. ASSUME fatal.by \in Workers PROVE Working(fatal.by)
    <3>1. fatal.by \in Threads /\ asserting[fatal.by].pc = "aborted"
      BY <2>1 DEF PointsInv, Threads
    <3> QED
      BY <3>1, WorkingMakes
  <2> QED
    BY <2>1
<1>3. fatal.by \in Workers \/ fatal.by = Nobody
  BY DEF TypeOK, Threads
<1> QED
  BY <1>1, <1>2, <1>3 DEF PointsInv

(* The steps of main that it takes with no other thread at work.           *)
SoloStep ==
    \/ RunStep \/ SkipSubcase \/ EnterSubcase \/ EnteredSubcase
    \/ LeaveSubcase \/ AnnounceException \/ LeftSubcase \/ LockReporters
    \/ BeginContext \/ DestroyContext \/ throwException \/ Throw \/ CreateThreads

(* Nobody makes an assertion while run, or the test function between two   *)
(* assertions, is at work.                                                 *)
LEMMA Solo ==
    ASSUME TypeOK, PointsInv, fatal.by # Main, ~Ended, SoloStep
    PROVE  fatal.pc = "no" /\ \A w \in Workers : ~Working(w)
<1>1. ASSUME phase = "body", InSpan
      PROVE  Working(Main) /\ ~Harmless(asserting[Main].at, asserting[Main].kind, asserting[Main].failed)
  <2>1. /\ ip <= Len(Test.body)
        /\ Statement.op = "join" \/ HarmlessAssertion(Statement)
    BY <1>1, SpanEnds
  <2>2. ip <= Len(Test.body) /\ Statement.op \in {"join", "assert"}
    BY <2>1 DEF HarmlessAssertion
  <2>3. Len(Test.body) \in Nat /\ ip \in Nat
    BY <1>1, StatementHere DEF InBody
  <2>4. CASE RunStep
    BY <2>2, <2>3, <2>4, <1>1
       DEF RunStep, UseReporters, RunNothing, CollectTests, SkipTest, ListTest, AtTest, StartTest, StartPass,
           BodyReturns, AtEnd, Catch, AfterPass, EndTest, LeaveTest, EndRun, Cleanup
  <2>5. CASE \/ SkipSubcase \/ EnterSubcase \/ EnteredSubcase
             \/ LeaveSubcase \/ AnnounceException \/ LeftSubcase \/ LockReporters
             \/ BeginContext \/ DestroyContext \/ Throw \/ CreateThreads
    BY <2>2, <2>3, <2>5, <1>1
       DEF SkipSubcase, EnterSubcase, EnteredSubcase, LeaveSubcase, AnnounceException, LeftSubcase,
           LockReporters, BeginContext, DestroyContext, Throw, CreateThreads, Leaving, AtEnd, AtStatement
  <2>6. CASE throwException
    <3>1. asserting[Main].pc = "react" /\ Throws(Main)
      BY <2>6 DEF throwException
    <3>2. Working(Main)
      BY <3>1 DEF Working, Idle
    <3>3. asserting[Main] \in Assertions
      BY <3>2, WorkingMakes DEF Threads
    <3>4. ~Harmless(asserting[Main].at, asserting[Main].kind, asserting[Main].failed)
      BY <3>1, <3>3 DEF Throws, IsMessage, MessageThrows, checkIfShouldThrow, Harmless, Assertions
    <3> QED
      BY <3>2, <3>4
  <2> QED
    BY <2>4, <2>5, <2>6 DEF SoloStep
<1>2. phase # "killed"
  BY DEF Ended
<1> QED
  BY <1>1, <1>2, AloneElsewhere

-----------------------------------------------------------------------------
(* Types.                                                                  *)

(* The types of what a step may change.                                    *)
CurType == /\ cur = [test |-> cur.test, asserts |-> cur.asserts, failed |-> cur.failed, flags |-> cur.flags]
           /\ cur.asserts \in Nat /\ cur.failed \in Nat
HistType == /\ hist = [entered |-> hist.entered, failing |-> hist.failing, total |-> hist.total,
                       threw |-> hist.threw, verdicts |-> hist.verdicts]
            /\ hist.failing \in Nat /\ hist.total \in Nat /\ hist.threw \in BOOLEAN
            /\ hist.verdicts \in Seq(ToSet(hist.verdicts))
StatsType == stats \in [numTestCases : Nat, numTestCasesPassingFilters : Nat, numTestSuitesPassingFilters : Nat,
                        numTestCasesFailed : Nat, numAsserts : Nat, numAssertsFailed : Nat]

(* A step that touches only the places of run and of the handler keeps the *)
(* types.                                                                  *)
LEMMA TypesKept ==
    ASSUME TypeOK, UNCHANGED <<testArray, i, holder, asserting, stats, cur, hist>>,
           phase' \in {"run", "start", "next", "pass", "body", "entering", "leaving", "unwind", "after", "finalize",
                  "end", "last", "cleanup", "EXIT_SUCCESS", "EXIT_FAILURE", "killed"},
           exception' \in {"none", "TestFailureException", "other"}, isSet' \in BOOLEAN,
           fatal' \in [pc : {"no", "exception", "pop", "end", "run_end"}, by : Threads \cup {Nobody}, calm : BOOLEAN]
    PROVE  TypeOK'
BY DEF TypeOK


(* finalizeTestCaseData keeps the types.                                   *)
LEMMA FinalTypes ==
    ASSUME TypeOK, NEW late, finalizeTestCaseData(late)
    PROVE  /\ CurType' /\ StatsType' /\ HistType'
           /\ cur'.test = cur.test /\ cur'.asserts = cur.asserts /\ cur'.failed = cur.failed
           /\ hist'.failing = hist.failing /\ hist'.total = hist.total /\ hist'.threw = hist.threw
           /\ stats'.numAssertsFailed = stats.numAssertsFailed + cur.failed
<1>1. cur' = [cur EXCEPT !.flags = FinalFlags(cur.test[1], late)]
  BY DEF finalizeTestCaseData
<1>2. CurType' /\ cur'.test = cur.test /\ cur'.asserts = cur.asserts /\ cur'.failed = cur.failed
  BY <1>1 DEF TypeOK, CurType
<1>3. PICK n \in {0, 1} :
          stats' = [stats EXCEPT !.numAsserts = @ + cur.asserts, !.numAssertsFailed = @ + cur.failed,
                                 !.numTestCasesFailed = @ + n]
  <2> DEFINE flags == FinalFlags(cur.test[1], late)
             n == IF flags # {} /\ flags \cap OkToFail = {} THEN 1 ELSE 0
  <2>1. n \in {0, 1}
    OBVIOUS
  <2>2. stats' = [stats EXCEPT !.numAsserts = @ + cur.asserts, !.numAssertsFailed = @ + cur.failed,
                               !.numTestCasesFailed = @ + n]
    BY DEF finalizeTestCaseData
  <2> HIDE DEF n
  <2> QED
    BY <2>1, <2>2
<1>4. StatsType' /\ stats'.numAssertsFailed = stats.numAssertsFailed + cur.failed
  <2>1. StatsType /\ cur.asserts \in Nat /\ cur.failed \in Nat /\ n \in Nat
    BY DEF TypeOK, StatsType
  <2>2. stats.numAsserts + cur.asserts \in Nat /\ stats.numAssertsFailed + cur.failed \in Nat
        /\ stats.numTestCasesFailed + n \in Nat
    BY <2>1 DEF StatsType
  <2> QED
    BY <1>3, <2>1, <2>2 DEF StatsType
<1>5. PICK v : hist' = [hist EXCEPT !.verdicts = Append(@, v)]
  BY DEF finalizeTestCaseData
<1>6. /\ hist'.failing = hist.failing /\ hist'.total = hist.total /\ hist'.threw = hist.threw
      /\ hist'.verdicts = Append(hist.verdicts, v)
      /\ hist' = [entered |-> hist'.entered, failing |-> hist'.failing, total |-> hist'.total,
                  threw |-> hist'.threw, verdicts |-> hist'.verdicts]
  BY <1>5 DEF TypeOK
<1>7. hist'.verdicts \in Seq(ToSet(hist'.verdicts))
  BY <1>6, Pushed, SMTT(30) DEF TypeOK
<1>8. HistType'
  BY <1>6, <1>7 DEF HistType, TypeOK
<1> QED
  BY <1>2, <1>4, <1>6, <1>8

(* std::sort and the shuffle leave an array of the same test cases.        *)
LEMMA SortedTests ==
    ASSUME TypeOK, NEW a \in Arrays(ToSet(testArray))
    PROVE  a \in Seq(ToSet(a)) /\ (\A t \in ToSet(a) : IsTest(t)) /\ Len(a) \in Nat
<1> DEFINE T == ToSet(testArray)
<1>1. testArray \in Seq(T) /\ Len(testArray) \in Nat /\ DOMAIN testArray = 1..Len(testArray)
  BY LenProperties DEF TypeOK
<1>2. IsFiniteSet(T)
  <2>1. testArray \in Surjection(1..Len(testArray), T)
    BY <1>1 DEF Surjection, ToSet
  <2>2. IsFiniteSet(1..Len(testArray))
    BY <1>1, FS_Interval
  <2> QED
    BY <2>1, <2>2, FS_Surjection DEF ExistsSurjection
<1>3. Cardinality(T) \in Nat
  BY <1>2, FS_CardinalityType
<1>4. a \in SetToSeqs(T)
  BY Zenon DEF Arrays
<1>5. a \in [1..Cardinality(T) -> T]
  BY <1>4 DEF SetToSeqs
<1>6. \A t \in T : IsTest(t)
  BY DEF TypeOK
<1> HIDE DEF T
<1>7. a \in Seq(T) /\ Len(a) \in Nat
  BY <1>3, <1>5, SeqDef, LenProperties
<1>8. a \in Seq(ToSet(a))
  BY <1>7, OverItself
<1>9. \A t \in ToSet(a) : t \in T
  BY <1>5 DEF ToSet
<1> QED
  BY <1>6, <1>7, <1>8, <1>9

(* run itself keeps the types.                                             *)
LEMMA TypeOfRun ==
    ASSUME TypeOK, PointsInv, RunStep
    PROVE  TypeOK'
<1>1. CASE UseReporters \/ RunNothing \/ StartPass \/ BodyReturns \/ EndRun \/ Cleanup
  <2>1. UNCHANGED <<testArray, i, holder, asserting, stats, cur, hist, fatal>>
    BY <1>1 DEF UseReporters, RunNothing, StartPass, BodyReturns, EndRun, Cleanup, contextVars, reportVars
  <2>2. phase' \in {"run", "start", "next", "pass", "body", "entering", "leaving", "unwind", "after", "finalize",
                  "end", "last", "cleanup", "EXIT_SUCCESS", "EXIT_FAILURE", "killed"}
    BY <1>1 DEF UseReporters, RunNothing, StartPass, BodyReturns, EndRun, Cleanup
  <2>3. exception' \in {exception, "none"} /\ isSet' \in {isSet, TRUE, FALSE}
    BY <1>1 DEF UseReporters, RunNothing, StartPass, BodyReturns, EndRun, Cleanup
  <2> QED
    BY <2>1, <2>2, <2>3, TypesKept, ZenonT(40) DEF TypeOK
<1>2. CASE CollectTests
  <2>1. stats' \in [numTestCases : Nat, numTestCasesPassingFilters : Nat, numTestSuitesPassingFilters : Nat,
                    numTestCasesFailed : Nat, numAsserts : Nat, numAssertsFailed : Nat]
    <3>1. Len(testArray) \in Nat
      BY LenProperties DEF TypeOK
    <3> QED
      BY <1>2, <3>1 DEF CollectTests, TypeOK
  <2>2. /\ testArray' \in Seq(ToSet(testArray')) /\ (\A t \in ToSet(testArray') : IsTest(t))
        /\ Len(testArray') \in Nat /\ i' = 1
    BY <1>2, SortedTests DEF CollectTests, PointsInv
  <2>3. i' \in 1..Len(testArray') + 1
    BY <2>2
  <2>4. UNCHANGED <<cur, hist, exception, isSet, fatal, holder, asserting>> /\ phase' = "next"
    BY <1>2 DEF CollectTests
  <2> QED
    BY <2>1, <2>2, <2>3, <2>4 DEF TypeOK
<1>3. CASE SkipTest \/ ListTest
  <2>1. Passing \in Nat
    BY DEF TypeOK, Passing
  <2>2. StatsType'
    <3>1. \E n \in Nat : stats' = [stats EXCEPT !.numTestCasesPassingFilters = Passing,
                                                !.numTestSuitesPassingFilters = n]
      <4>1. CASE SkipTest
        <5>1. stats' = [stats EXCEPT !.numTestCasesPassingFilters = Passing,
                                     !.numTestSuitesPassingFilters = stats.numTestSuitesPassingFilters]
          BY <4>1 DEF SkipTest, TypeOK
        <5> QED
          BY <5>1 DEF TypeOK
      <4>2. CASE ListTest
        <5>1. PICK n \in {0, 1} : stats' = [stats EXCEPT !.numTestCasesPassingFilters = Passing,
                                                         !.numTestSuitesPassingFilters = @ + n]
          <6> DEFINE suites == "count" \notin p.queries /\ "list_test_cases" \notin p.queries
                     listed == "count" \notin p.queries /\ (suites => NewSuite)
                     n == IF suites /\ listed THEN 1 ELSE 0
          <6>1. n \in {0, 1}
            OBVIOUS
          <6>2. stats' = [stats EXCEPT !.numTestCasesPassingFilters = Passing,
                                       !.numTestSuitesPassingFilters = @ + n]
            BY <4>2 DEF ListTest
          <6> HIDE DEF n
          <6> QED
            BY <6>1, <6>2
        <5>2. StatsType
          BY DEF TypeOK, StatsType
        <5>3. stats.numTestSuitesPassingFilters + n \in Nat
          BY <5>2 DEF StatsType
        <5>4. stats' = [stats EXCEPT !.numTestCasesPassingFilters = Passing,
                                     !.numTestSuitesPassingFilters = stats.numTestSuitesPassingFilters + n]
          BY <5>1, <5>2 DEF StatsType
        <5> QED
          BY <5>3, <5>4
      <4> QED
        BY <1>3, <4>1, <4>2
    <3> QED
      BY <2>1, <3>1 DEF StatsType, TypeOK
  <2>3. i' \in 1..Len(testArray') + 1
    <3>1. Len(testArray) \in Nat /\ i <= Len(testArray) /\ i' = i + 1 /\ testArray' = testArray
      BY <1>3, LenProperties DEF SkipTest, ListTest, AtTest, TypeOK
    <3> QED
      BY <3>1 DEF TypeOK
  <2> QED
    BY <1>3, <2>2, <2>3 DEF SkipTest, ListTest, TypeOK, reportVars, StatsType
<1>4. CASE StartTest
  <2>1. Passing \in Nat
    BY DEF TypeOK, Passing
  <2> QED
    BY <1>4, <2>1 DEF StartTest, TypeOK, NoTestYet
<1>5. CASE Catch
  BY <1>5 DEF Catch, TypeOK
<1>6. CASE AfterPass
  BY <1>6 DEF AfterPass, TypeOK, reportVars
<1>7. CASE EndTest
  <2>1. PICK late \in MayBeLate(Test) : finalizeTestCaseData(late)
    BY <1>7 DEF EndTest
  <2>2. CurType' /\ StatsType' /\ HistType'
    BY <2>1, FinalTypes
  <2> QED
    BY <1>7, <2>2 DEF EndTest, CurType, StatsType, HistType, TypeOK, reportVars
<1>8. CASE LeaveTest
  <2>1. i' \in 1..Len(testArray') + 1
    <3>1. Len(testArray) \in Nat /\ i <= Len(testArray) /\ i' = i + 1 /\ testArray' = testArray
      BY <1>8, LenProperties DEF LeaveTest, PointsInv, InTest, TypeOK
    <3> QED
      BY <3>1 DEF TypeOK
  <2> QED
    BY <1>8, <2>1 DEF LeaveTest, TypeOK
<1> QED
  BY <1>1, <1>2, <1>3, <1>4, <1>5, <1>6, <1>7, <1>8 DEF RunStep

-----------------------------------------------------------------------------
(* Everybody's place.                                                      *)

(* Where main is in the test that it runs.                                 *)
MainsPlace ==
    /\ phase \in {"run", "start"} => i = 1
    /\ InTest => i <= Len(testArray) /\ cur.test = <<Test>> /\ ~QueryMode
    /\ InBody => ip \in 1..Len(Test.body) + 1
    /\ phase = "entering" => ip <= Len(Test.body) /\ Statement.op = "open"
    /\ (phase = "leaving" /\ exception = "none") => ip <= Len(Test.body) /\ Statement.op = "close"
    /\ phase \in {"body", "entering"} => exception = "none"
    /\ phase = "unwind" => exception # "none"

(* After a step that leaves every thread idle only main's own place        *)
(* matters.                                                                *)
LEMMA SoloPoints ==
    ASSUME TypeOK, PointsInv, fatal.pc = "no", fatal' = fatal, \A t \in Threads : asserting'[t] = Idle,
           phase' # "killed", isSet' <=> InBody', MainsPlace'
    PROVE  PointsInv'
<1>1. fatal'.pc = "no" /\ fatal'.by = Nobody /\ fatal'.calm
  BY DEF PointsInv
<1>2. \A t \in Threads : ~Working(t)'
  BY DEF Working
<1>3. Main \in Threads /\ (\A w \in Workers : w \in Threads) /\ Nobody \notin Workers
  BY DoctestAssumption DEF Threads
<1> QED
  BY <1>1, <1>2, <1>3 DEF PointsInv, MainsPlace

(* The steps of run keep everybody's place.                                *)
LEMMA RunPoints ==
    ASSUME TypeOK, PointsInv, fatal.by # Main, ~Ended, RunStep
    PROVE  TypeOK' /\ PointsInv'
<1>1. TypeOK' /\ fatal.pc = "no" /\ \A w \in Workers : ~Working(w)
  BY Solo, TypeOfRun DEF SoloStep
<1>2. ~Working(Main)
  <2>1. phase = "body" => BodyReturns
    BY DEF RunStep, UseReporters, RunNothing, CollectTests, SkipTest, ListTest, AtTest, StartTest, StartPass,
           Catch, AfterPass, EndTest, LeaveTest, EndRun, Cleanup
  <2>2. BodyReturns => ~Working(Main)
    BY DEF BodyReturns, AtEnd, Working
  <2> QED
    BY <2>1, <2>2 DEF PointsInv, Ended
<1>3. \A t \in Threads : asserting[t] = Idle
  BY <1>1, <1>2 DEF Threads, Working
<1>4. fatal' = fatal /\ asserting' = asserting /\ phase' # "killed"
  BY DEF RunStep, UseReporters, RunNothing, CollectTests, SkipTest, ListTest, AtTest, StartTest, StartPass,
         BodyReturns, Catch, AfterPass, EndTest, LeaveTest, EndRun, Cleanup, reportVars
<1>5. \A t \in Threads : asserting'[t] = Idle
  BY <1>3, <1>4
<1>6. isSet <=> InBody
  BY <1>1 DEF PointsInv
<1> USE DEF MainsPlace
<1>7. CASE UseReporters \/ RunNothing \/ CollectTests \/ EndRun \/ Cleanup
  <2>1. phase' \in {"start", "cleanup", "next", "EXIT_SUCCESS", "EXIT_FAILURE"} /\ isSet' = isSet /\ ~InBody
    BY <1>7 DEF UseReporters, RunNothing, CollectTests, EndRun, Cleanup, InBody
  <2>2. MainsPlace'
    BY <1>7, <2>1 DEF UseReporters, InBody, InTest, PointsInv, RunNothing, CollectTests, EndRun, Cleanup
  <2>3. isSet' <=> InBody'
    BY <1>6, <2>1 DEF InBody
  <2> QED
    BY <1>1, <1>4, <1>5, <2>1, <2>2, <2>3, SoloPoints
<1>8. CASE SkipTest \/ ListTest
  <2>1. phase' = "next" /\ phase = "next" /\ isSet' = isSet
    BY <1>8 DEF SkipTest, ListTest, AtTest
  <2>2. MainsPlace' /\ (isSet' <=> InBody')
    BY <1>6, <2>1 DEF InBody, InTest
  <2> QED
    BY <1>1, <1>4, <1>5, <2>1, <2>2, SoloPoints
<1>9. CASE StartTest
  <2>1. /\ phase' = "pass" /\ phase = "next" /\ isSet' = isSet /\ i' = i /\ testArray' = testArray /\ p' = p
        /\ i <= Len(testArray) /\ ~QueryMode /\ cur' = [NoTestYet EXCEPT !.test = <<Test>>]
    BY <1>9 DEF StartTest, AtTest
  <2>2. cur'.test = <<Test'>> /\ ~QueryMode'
    BY <2>1 DEF Test, NoTestYet, QueryMode
  <2>3. MainsPlace' /\ (isSet' <=> InBody')
    BY <1>6, <2>1, <2>2 DEF InBody, InTest
  <2> QED
    BY <1>1, <1>4, <1>5, <2>1, <2>3, SoloPoints
<1>10. CASE StartPass
  <2>1. /\ phase' = "body" /\ phase = "pass" /\ isSet' = TRUE /\ i' = i /\ testArray' = testArray /\ p' = p
        /\ cur' = cur /\ ip' = 1 /\ exception' = "none"
    BY <1>10 DEF StartPass
  <2>2. /\ cur'.test = <<Test'>> /\ ~QueryMode' /\ i' <= Len(testArray')
        /\ Test' = Test /\ IsTest(Test)
    BY <2>1, TestHere DEF Test, QueryMode, PointsInv, InTest
  <2>3. Len(Test.body) \in Nat
    BY <2>2, LenProperties DEF IsTest
  <2>4. ip' \in 1..Len(Test'.body) + 1
    BY <2>1, <2>2, <2>3
  <2>5. MainsPlace' /\ (isSet' <=> InBody')
    BY <2>1, <2>2, <2>4 DEF InBody, InTest
  <2> QED
    BY <1>1, <1>4, <1>5, <2>1, <2>5, SoloPoints
<1>11. CASE BodyReturns \/ Catch \/ AfterPass \/ EndTest
  <2>1. /\ phase' \in {"after", "pass", "finalize", "end"} /\ InTest /\ i' = i /\ testArray' = testArray /\ p' = p
        /\ isSet' = FALSE
    BY <1>6, <1>11 DEF BodyReturns, AtEnd, Catch, AfterPass, EndTest, InTest, InBody, contextVars, TypeOK
  <2>2. cur'.test = cur.test
    <3>1. ASSUME EndTest PROVE cur'.test = cur.test
      <4>1. PICK late \in MayBeLate(Test) : finalizeTestCaseData(late)
        BY <3>1 DEF EndTest
      <4> QED
        BY <4>1, FinalTypes
    <3>2. ASSUME BodyReturns \/ Catch \/ AfterPass PROVE cur'.test = cur.test
      BY <3>2 DEF BodyReturns, Catch, AfterPass, contextVars, TypeOK
    <3> QED
      BY <1>11, <3>1, <3>2
  <2>3. cur'.test = <<Test'>> /\ ~QueryMode' /\ i' <= Len(testArray')
    BY <2>1, <2>2 DEF Test, QueryMode, PointsInv
  <2>4. MainsPlace' /\ (isSet' <=> InBody')
    BY <2>1, <2>3 DEF InBody, InTest
  <2> QED
    BY <1>1, <1>4, <1>5, <2>1, <2>4, SoloPoints
<1>12. CASE LeaveTest
  <2>1. phase' \in {"next", "last"} /\ phase = "end" /\ isSet' = isSet
    BY <1>12 DEF LeaveTest
  <2>2. MainsPlace' /\ (isSet' <=> InBody')
    BY <1>6, <2>1 DEF InBody, InTest
  <2> QED
    BY <1>1, <1>4, <1>5, <2>1, <2>2, SoloPoints
<1> QED
  BY <1>1, <1>7, <1>8, <1>9, <1>10, <1>11, <1>12 DEF RunStep

(* Main's steps in a test function that make no assertion.                 *)
MoveStep ==
    \/ SkipSubcase \/ EnterSubcase \/ EnteredSubcase
    \/ LeaveSubcase \/ AnnounceException \/ LeftSubcase \/ LockReporters
    \/ BeginContext \/ DestroyContext \/ Throw

(* Main takes mutexes while it tells the reporters of a subcase, and has   *)
(* none when it has told them.                                             *)
LEMMA HolderMoves ==
    ASSUME TypeOK, MoveStep
    PROVE  /\ holder' \in [DOMAIN Reporters -> Threads \cup {Nobody}]
           /\ LockReporters => /\ phase \in {"entering", "leaving"} /\ phase' = phase
                               /\ \A r \in DOMAIN Reporters : \/ holder'[r] = holder[r]
                                                             \/ (holder'[r] = Main /\ r \in DOMAIN rep)
           /\ (EnteredSubcase \/ AnnounceException \/ LeftSubcase) =>
                  \A r \in DOMAIN Reporters : holder'[r] # Main /\ holder'[r] \in {holder[r], Nobody}
           /\ \/ LockReporters \/ EnteredSubcase \/ AnnounceException \/ LeftSubcase
              \/ (holder' = holder /\ phase \in {"body", "unwind"})
<1>1. holder \in [DOMAIN Reporters -> Threads \cup {Nobody}] /\ Main \in Threads /\ Main # Nobody
  BY DoctestAssumption DEF TypeOK, Threads
<1>2. CASE LockReporters
  <2>1. PICK S : holder' = [r \in DOMAIN holder |-> IF r \in DOMAIN rep /\ r \in S THEN Main ELSE holder[r]]
    <3>1. holder' = [r \in DOMAIN holder |->
                       IF r \in DOMAIN rep /\ r \in {q \in DOMAIN Locking : Pending.on \in Locking[q]} THEN Main
                       ELSE holder[r]]
      BY <1>1, <1>2 DEF LockReporters, Locking, Reporters
    <3> QED
      BY <3>1
  <2>2. phase \in {"entering", "leaving"} /\ phase' = phase
    BY <1>2 DEF LockReporters, runVars
  <2>3. ~EnteredSubcase /\ ~AnnounceException /\ ~LeftSubcase
    BY <1>2 DEF LockReporters, EnteredSubcase, AnnounceException, LeftSubcase, Report
  <2> QED
    BY <1>1, <1>2, <2>1, <2>2, <2>3
<1>3. CASE EnteredSubcase \/ AnnounceException \/ LeftSubcase
  <2>1. holder' = [r \in DOMAIN holder |-> IF holder[r] = Main THEN Nobody ELSE holder[r]]
    BY <1>3 DEF EnteredSubcase, AnnounceException, LeftSubcase, Report, ReleasedBy
  <2>2. ~LockReporters
    BY <1>3 DEF EnteredSubcase, AnnounceException, LeftSubcase, Report, LockReporters
  <2> QED
    BY <1>1, <1>3, <2>1, <2>2
<1>4. CASE SkipSubcase \/ EnterSubcase \/ LeaveSubcase \/ BeginContext \/ DestroyContext \/ Throw
  <2>1. holder' = holder /\ phase \in {"body", "unwind"}
    BY <1>4 DEF SkipSubcase, EnterSubcase, LeaveSubcase, BeginContext, DestroyContext, Throw, Leaving, AtEnd,
                AtStatement, reportVars
  <2>2. ~LockReporters /\ ~EnteredSubcase /\ ~AnnounceException /\ ~LeftSubcase
    BY <2>1 DEF LockReporters, EnteredSubcase, AnnounceException, LeftSubcase
  <2> QED
    BY <1>1, <2>1, <2>2
<1> QED
  BY <1>2, <1>3, <1>4 DEF MoveStep

(* Main moves on in the test function, and no thread makes an assertion.   *)
LEMMA MovePoints ==
    ASSUME TypeOK, PointsInv, fatal.by # Main, ~Ended,
           MoveStep
    PROVE  TypeOK' /\ PointsInv'
<1>1. fatal.pc = "no" /\ \A w \in Workers : ~Working(w)
  BY Solo DEF SoloStep, MoveStep
<1>2. ~Working(Main)
  BY DEF MoveStep, PointsInv, Ended, Working, SkipSubcase, EnterSubcase, EnteredSubcase, LeaveSubcase,
         AnnounceException, LeftSubcase, LockReporters, BeginContext, DestroyContext, Throw, Leaving, AtEnd,
         AtStatement
<1>3. InBody
  BY DEF MoveStep, InBody, SkipSubcase, EnterSubcase, EnteredSubcase, LeaveSubcase, AnnounceException,
         LeftSubcase, LockReporters, BeginContext, DestroyContext, Throw, Leaving, AtEnd, AtStatement
<1>4. /\ p' = p /\ UNCHANGED <<testArray, i, asserting, stats, cur, isSet, fatal>>
      /\ phase' \in {"body", "entering", "leaving", "unwind"}
      /\ exception' \in {"none", "TestFailureException", "other"}
  BY <1>3 DEF MoveStep, TypeOK, InBody, SkipSubcase, EnterSubcase, EnteredSubcase, LeaveSubcase,
              AnnounceException, LeftSubcase, LockReporters, BeginContext, DestroyContext, Throw,
              contextVars, runVars, reportVars
<1>5. HistType'
  <2>1. \/ hist' = hist
        \/ \E e : hist' = [hist EXCEPT !.entered = e]
        \/ hist' = [hist EXCEPT !.threw = TRUE]
    BY DEF MoveStep, SkipSubcase, EnterSubcase, EnteredSubcase, LeaveSubcase, AnnounceException,
           LeftSubcase, LockReporters, BeginContext, DestroyContext, Throw
  <2> QED
    BY <2>1 DEF HistType, TypeOK
<1>6. TypeOK'
  <2>1. holder' \in [DOMAIN Reporters -> Threads \cup {Nobody}]
    BY HolderMoves
  <2> QED
    BY <1>4, <1>5, <2>1 DEF HistType, TypeOK
<1>7. \A t \in Threads : asserting'[t] = Idle
  BY <1>1, <1>2, <1>4 DEF Threads, Working
<1>8. /\ isSet' <=> InBody'
      /\ phase' # "killed"
  BY <1>1, <1>3, <1>4 DEF PointsInv, InBody
<1>9. /\ IsTest(Test) /\ Len(Test.body) \in Nat
      /\ ip \in 1..Len(Test.body) + 1 /\ ip \in Nat
      /\ ip <= Len(Test.body) => WellFormed(Test.body, ip)
  BY <1>3, StatementHere
<1>10. Test' = Test /\ i' <= Len(testArray') /\ cur'.test = <<Test'>> /\ ~QueryMode'
  BY <1>3, <1>4 DEF PointsInv, InTest, Test, QueryMode
<1>11. /\ ip' \in 1..Len(Test.body) + 1
       /\ phase' = "entering" => ip' <= Len(Test.body) /\ Test.body[ip'].op = "open"
       /\ (phase' = "leaving" /\ exception' = "none") => ip' <= Len(Test.body) /\ Test.body[ip'].op = "close"
       /\ phase' \in {"body", "entering"} => exception' = "none"
       /\ phase' = "unwind" => exception' # "none"
  <2>1. CASE SkipSubcase
    <3>1. Statement.end \in ip + 1..Len(Test.body)
      BY <2>1, <1>9 DEF SkipSubcase, AtStatement, Statement, WellFormed
    <3>2. phase = "body" /\ phase' = phase /\ ip' = Statement.end + 1 /\ exception' = exception
      BY <2>1 DEF SkipSubcase, AtStatement
    <3> QED
      BY <1>9, <3>1, <3>2 DEF PointsInv
  <2>2. CASE EnterSubcase
    BY <2>2, <1>9 DEF EnterSubcase, AtStatement, Statement, PointsInv
  <2>3. CASE EnteredSubcase
    BY <2>3, <1>9 DEF EnteredSubcase, PointsInv
  <2>4. CASE LeaveSubcase
    BY <2>4, <1>9 DEF LeaveSubcase, Leaving, AtStatement, Statement, PointsInv
  <2>5. CASE LeftSubcase
    BY <2>5, <1>9 DEF LeftSubcase, PointsInv
  <2>6. CASE AnnounceException \/ LockReporters
    BY <2>6, <1>9 DEF AnnounceException, LockReporters, runVars, PointsInv, Statement
  <2>7. CASE BeginContext
    BY <2>7, <1>9 DEF BeginContext, AtStatement, PointsInv
  <2>8. CASE DestroyContext
    BY <2>8, <1>9, <1>3 DEF DestroyContext, runVars, PointsInv, Statement, Leaving, AtEnd, AtStatement
  <2>9. CASE Throw
    BY <2>9, <1>9 DEF Throw
  <2> QED
    BY <2>1, <2>2, <2>3, <2>4, <2>5, <2>7, <2>8, <2>9, <2>6 DEF MoveStep
<1>12. MainsPlace'
  <2>1. (phase \in {"run", "start"})' => i' = 1
    BY <1>4
  <2> QED
    BY <1>10, <1>11, <2>1 DEF MainsPlace, Statement
<1> QED
  BY <1>1, <1>4, <1>6, <1>7, <1>8, <1>12, SoloPoints

(* Thread t goes on with its assertion.                                    *)
LEMMA AssertingPoints ==
    ASSUME TypeOK, PointsInv, NEW t \in Threads, Working(t), asserting[t].pc # "aborted", NEW a \in Assertions \cup {Idle},
           asserting' = [asserting EXCEPT ![t] = a],
           a = Idle \/ (a.at = asserting[t].at /\ a.kind = asserting[t].kind /\ a.failed = asserting[t].failed),
           a.pc # "aborted",
           p' = p, UNCHANGED <<testArray, i, phase, ip, exception, isSet, fatal>>, cur'.test = cur.test
    PROVE  PointsInv'
<1>1. /\ \A u \in Threads : u # t => asserting'[u] = asserting[u]
      /\ asserting'[t] = a
  BY DEF TypeOK
<1>2. Main \in Threads /\ \A w \in Workers : w \in Threads /\ w # Main
  BY DoctestAssumption DEF Threads
<1>3. /\ Test' = Test /\ Statement' = Statement /\ (QueryMode' <=> QueryMode) /\ (InSpan' <=> InSpan)
      /\ (InTest' <=> InTest) /\ (InBody' <=> InBody)
  <2>1. Test' = Test /\ ip' = ip
    BY DEF Test
  <2>2. Statement' = Statement /\ (InSpan' <=> InSpan)
    BY <2>1 DEF Statement, InSpan
  <2>3. (QueryMode' <=> QueryMode) /\ (InBody' <=> InBody)
    BY DEF QueryMode, InBody
  <2> QED
    BY <2>1, <2>2, <2>3 DEF InTest
<1>4. Working(Main)' => Working(Main) /\ phase \in {"body", "killed"} /\ asserting'[Main].pc # "aborted"
  BY <1>1, <1>2 DEF PointsInv, Working
<1>5. ASSUME NEW w \in Workers, Working(w)' PROVE (phase = "killed" \/ Confined)'
  <2>1. Working(w)
    BY <1>1, <1>2, <1>5 DEF Working
  <2>2. phase = "killed" \/ Confined
    BY <2>1 DEF PointsInv
  <2>3. Confined => Confined'
    BY <1>1, <1>2, <1>3, <1>4 DEF Confined, Working
  <2> QED
    BY <2>2, <2>3
<1>6. fatal.by \in Workers => asserting'[fatal.by].pc = "aborted"
  BY <1>1, <1>2 DEF PointsInv
<1>7. MainsPlace'
  <2>1. MainsPlace
    BY DEF MainsPlace, PointsInv
  <2> QED
    BY <1>3, <2>1 DEF MainsPlace
<1>8. /\ isSet' <=> InBody' /\ fatal'.pc = "no"
      /\ fatal'.pc = "no" <=> fatal'.by = Nobody
      /\ fatal'.pc = "no" => fatal'.calm /\ phase' # "killed"
      /\ fatal'.pc # "no" => InBody' \/ phase' = "killed"
      /\ fatal'.by \in Workers => asserting'[fatal'.by].pc = "aborted"
  BY <1>3, <1>6 DEF PointsInv
<1> QED
  BY <1>4, <1>5, <1>7, <1>8 DEF PointsInv, MainsPlace

(* Setting the counters of the test case changes nothing else of it.       *)
LEMMA CurSet ==
    ASSUME CurType, NEW m \in Nat, NEW n \in Nat, cur' = [cur EXCEPT !.failed = m, !.asserts = n]
    PROVE  CurType' /\ cur'.test = cur.test /\ cur'.failed = m /\ cur'.asserts = n /\ cur'.flags = cur.flags
BY DEF CurType

(* The same for the history's counters.                                    *)
LEMMA HistSet ==
    ASSUME HistType, NEW m \in Nat, NEW n \in Nat, hist' = [hist EXCEPT !.failing = m, !.total = n]
    PROVE  /\ HistType' /\ hist'.failing = m /\ hist'.total = n
           /\ hist'.threw = hist.threw /\ hist'.verdicts = hist.verdicts /\ hist'.entered = hist.entered
BY DEF HistType

(* What a step of an assertion leaves alone.                               *)
AssertingFrame ==
    /\ p' = p /\ UNCHANGED <<testArray, i, phase, ip, exception, isSet, fatal, stats, hist>>
    /\ cur'.test = cur.test /\ CurType' /\ holder' \in [DOMAIN Reporters -> Threads \cup {Nobody}]

(* A step of an assertion, in whatever thread.                             *)
LEMMA AssertPoints ==
    ASSUME TypeOK, PointsInv, NEW t \in Threads, AssertStep(t)
    PROVE  TypeOK' /\ PointsInv'
<1>1. Working(t) /\ asserting[t].pc # "aborted"
  BY DEF AssertStep, AddAssert, LogSkipped, Log, Logged, AddFailedAssert, AssertReturns, Working, Idle
<1>2. asserting[t] \in Assertions
  BY <1>1, WorkingMakes
<1>3. PICK a \in Assertions \cup {Idle} :
          /\ asserting' = [asserting EXCEPT ![t] = a]
          /\ a = Idle \/ (a.at = asserting[t].at /\ a.kind = asserting[t].kind /\ a.failed = asserting[t].failed)
          /\ a.pc # "aborted"
  <2>1. CASE AssertReturns(t)
    <3>1. asserting' = [asserting EXCEPT ![t] = Idle] /\ Idle.pc # "aborted"
      BY <2>1 DEF AssertReturns, Idle
    <3> QED
      BY <3>1
  <2>2. ASSUME NEW pc \in {"log", "logging", "failed", "react"}, asserting' = [asserting EXCEPT ![t].pc = pc]
        PROVE  \E a \in Assertions : /\ asserting' = [asserting EXCEPT ![t] = a]
                   /\ a.at = asserting[t].at /\ a.kind = asserting[t].kind /\ a.failed = asserting[t].failed
                   /\ a.pc = pc
    <3> DEFINE a == [asserting[t] EXCEPT !.pc = pc]
    <3>1. /\ a \in Assertions /\ a.pc = pc
          /\ a.at = asserting[t].at /\ a.kind = asserting[t].kind /\ a.failed = asserting[t].failed
      BY <1>2 DEF Assertions
    <3>2. asserting' = [asserting EXCEPT ![t] = a]
      BY <2>2
    <3> HIDE DEF a
    <3> QED
      BY <3>1, <3>2
  <2>3. ASSUME ~AssertReturns(t)
        PROVE  \E pc \in {"log", "logging", "failed", "react"} : asserting' = [asserting EXCEPT ![t].pc = pc]
    BY <2>3 DEF AssertStep, AddAssert, LogSkipped, Log, Logged, AddFailedAssert
  <2> QED
    BY <2>1, <2>2, <2>3
<1>4. AssertingFrame
  <2>1. CASE LogSkipped(t) \/ Log(t) \/ Logged(t) \/ AssertReturns(t)
    <3>1. \/ holder' = holder
          \/ holder' = [r \in DOMAIN holder |-> IF r \in DOMAIN rep THEN t ELSE holder[r]]
          \/ holder' = [r \in DOMAIN holder |-> IF holder[r] = t THEN Nobody ELSE holder[r]]
      BY <2>1 DEF LogSkipped, Log, Logged, AssertReturns, ReleasedBy, reportVars
    <3>2. holder \in [DOMAIN Reporters -> Threads \cup {Nobody}] /\ t \in Threads \cup {Nobody}
      BY DEF TypeOK
    <3>3. holder' \in [DOMAIN Reporters -> Threads \cup {Nobody}]
      BY <3>1, <3>2
    <3>4. UNCHANGED contextVars /\ UNCHANGED runVars /\ UNCHANGED <<isSet, fatal, hist>>
      BY <2>1 DEF LogSkipped, Log, Logged, AssertReturns
    <3>5. CurType
      BY DEF CurType, TypeOK
    <3> QED
      BY <3>3, <3>4, <3>5 DEF AssertingFrame, CurType, contextVars, runVars
  <2>2. CASE AddAssert(t)
    <3>1. CurType
      BY DEF CurType, TypeOK
    <3>2. \/ cur' = cur
          \/ cur' = [cur EXCEPT !.failed = cur.failed, !.asserts = cur.asserts + 1]
      <4>1. cur' = cur \/ cur' = [cur EXCEPT !.asserts = cur.asserts + 1]
        BY <2>2 DEF AddAssert
      <4> QED
        BY <4>1, <3>1 DEF CurType
    <3>3. cur'.test = cur.test /\ CurType'
      <4>1. cur.asserts + 1 \in Nat /\ cur.failed \in Nat
        BY <3>1 DEF CurType
      <4> QED
        BY <3>1, <3>2, <4>1, CurSet DEF CurType
    <3> QED
      BY <2>2, <3>3 DEF AddAssert, AssertingFrame, TypeOK, runVars, reportVars
  <2>3. CASE AddFailedAssert(t)
    <3>1. /\ Failing(asserting[t].at, asserting[t].failed) \in Nat
          /\ (IF IsMessage(t) THEN Failing(asserting[t].at, TRUE) ELSE 0) \in Nat
      BY DEF Failing
    <3>2. PICK m \in Nat, n \in Nat : cur' = [cur EXCEPT !.failed = cur.failed + m, !.asserts = cur.asserts + n]
      BY <2>3, <3>1 DEF AddFailedAssert
    <3>3. CurType
      BY DEF CurType, TypeOK
    <3>4. cur'.test = cur.test /\ CurType'
      <4>1. cur.asserts + n \in Nat /\ cur.failed + m \in Nat
        BY <3>3 DEF CurType
      <4> QED
        BY <3>2, <3>3, <4>1, CurSet
    <3> QED
      BY <2>3, <3>4 DEF AddFailedAssert, AssertingFrame, TypeOK, runVars, reportVars
  <2> QED
    BY <2>1, <2>2, <2>3 DEF AssertStep
<1>5. PointsInv'
  BY <1>1, <1>3, <1>4, AssertingPoints DEF AssertingFrame
<1>6. asserting' \in [Threads -> Assertions \cup {Idle}]
  BY <1>3 DEF TypeOK
<1>7. TypeOK'
  BY <1>4, <1>6, SMTT(30) DEF TypeOK, AssertingFrame, CurType
<1> QED
  BY <1>5, <1>7

(* Main begins an assertion or passes over it.                             *)
LEMMA MakePoints ==
    ASSUME TypeOK, PointsInv, SkipAssertion \/ MakeAssertion
    PROVE  TypeOK' /\ PointsInv'
<1>1. /\ phase = "body" /\ ip <= Len(Test.body) /\ ~Working(Main) /\ Statement.op = "assert"
      /\ ip' = ip + 1 /\ p' = p
      /\ UNCHANGED <<testArray, i, phase, exception, isSet, holder, stats, cur>>
  BY DEF SkipAssertion, MakeAssertion, AtStatement, Working, contextVars, reportVars
<1>2. /\ IsTest(Test) /\ Len(Test.body) \in Nat /\ ip \in 1..Len(Test.body) + 1 /\ ip \in Nat
      /\ WellFormed(Test.body, ip)
  BY <1>1, StatementHere DEF InBody
<1>3. Statement.at \in Severities /\ Statement.kind \in Kinds /\ Statement.result \in Results
  BY <1>1, <1>2 DEF WellFormed, Statement
<1>4. /\ fatal'.pc = fatal.pc /\ fatal'.by = fatal.by /\ (fatal'.calm => fatal.calm)
      /\ fatal'.calm = (fatal.calm /\ (fatal.pc = "no" \/ SkipAssertion))
      /\ fatal' \in [pc : {"no", "exception", "pop", "end", "run_end"}, by : Threads \cup {Nobody}, calm : BOOLEAN]
  BY DEF SkipAssertion, MakeAssertion, TypeOK
<1>5. PICK a \in Assertions \cup {Idle} :
          /\ asserting' = [asserting EXCEPT ![Main] = a] /\ a.pc # "aborted"
          /\ a = Idle \/ (a.at = Statement.at /\ a.kind = Statement.kind
                          /\ a.failed = Failed(Statement.kind, Statement.result))
  <2>1. CASE SkipAssertion
    <3>1. asserting' = [asserting EXCEPT ![Main] = Idle]
      BY <1>1, <2>1 DEF SkipAssertion, Working, TypeOK, Threads
    <3> QED
      BY <3>1 DEF Idle
  <2>2. CASE MakeAssertion
    <3> DEFINE a == Begun(Statement.at, Statement.kind, Statement.result)
    <3>1. a \in Assertions
      BY <1>3, BegunIsAssertion
    <3>2. /\ a.pc # "aborted" /\ a.at = Statement.at /\ a.kind = Statement.kind
          /\ a.failed = Failed(Statement.kind, Statement.result)
      BY DEF Begun
    <3>3. asserting' = [asserting EXCEPT ![Main] = a]
      BY <2>2 DEF MakeAssertion
    <3> QED
      BY <3>1, <3>2, <3>3
  <2> QED
    BY <2>1, <2>2
<1>6. /\ asserting' \in [Threads -> Assertions \cup {Idle}]
      /\ asserting'[Main] = a /\ \A w \in Workers : asserting'[w] = asserting[w]
  BY <1>5, DoctestAssumption DEF TypeOK, Threads
<1>7. HistType'
  <2>1. CASE SkipAssertion
    BY <2>1 DEF SkipAssertion, HistType, TypeOK
  <2>2. CASE MakeAssertion
    <3>1. PICK n \in Nat : hist' = [hist EXCEPT !.failing = hist.failing + n, !.total = hist.total + n]
      <4> DEFINE n == Failing(Statement.at, Failed(Statement.kind, Statement.result))
      <4>1. n \in Nat
        BY DEF Failing
      <4>2. hist' = [hist EXCEPT !.failing = hist.failing + n, !.total = hist.total + n]
        BY <2>2 DEF MakeAssertion
      <4> HIDE DEF n
      <4> QED
        BY <4>1, <4>2
    <3> QED
      <4>1. HistType
        BY DEF HistType, TypeOK
      <4>2. hist.failing + n \in Nat /\ hist.total + n \in Nat
        BY <4>1 DEF HistType
      <4> QED
        BY <3>1, <4>1, <4>2, HistSet
  <2> QED
    BY <2>1, <2>2
<1>8. TypeOK'
  BY <1>1, <1>4, <1>6, <1>7 DEF TypeOK, HistType
<1>9. /\ Test' = Test /\ (QueryMode' <=> QueryMode) /\ (InTest' <=> InTest) /\ (InBody' <=> InBody)
  BY <1>1 DEF Test, QueryMode, InTest, InBody
<1>10. MainsPlace'
  BY <1>1, <1>2, <1>9 DEF MainsPlace, PointsInv
<1>11. ASSUME NEW w \in Workers, Working(w)' PROVE Confined'
  <2>1. Working(w)
    BY <1>6, <1>11 DEF Working
  <2>2. InSpan
    BY <1>1, <2>1 DEF PointsInv, Confined
  <2>3. HarmlessAssertion(Statement)
    BY <1>1, <2>2, SpanEnds
  <2>4. InSpan'
    BY <1>1, <2>2, <2>3, SpanGoesOn
  <2>5. Working(Main)' => Harmless(a.at, a.kind, a.failed)
    BY <1>5, <1>6, <2>3 DEF Working, HarmlessAssertion
  <2> QED
    BY <1>1, <1>6, <2>4, <2>5 DEF Confined
<1>12. fatal'.by \in Workers => asserting'[fatal'.by].pc = "aborted"
  BY <1>4, <1>6 DEF PointsInv
<1>13. PointsInv'
  BY <1>1, <1>4, <1>5, <1>6, <1>9, <1>10, <1>11, <1>12 DEF PointsInv, MainsPlace
<1> QED
  BY <1>8, <1>13

(* pthread_create in the test function.                                    *)
LEMMA CreatePoints ==
    ASSUME TypeOK, PointsInv, fatal.by # Main, ~Ended, CreateThreads
    PROVE  TypeOK' /\ PointsInv'
<1>1. fatal.pc = "no" /\ \A w \in Workers : ~Working(w)
  BY Solo DEF SoloStep
<1>2. /\ phase = "body" /\ ip <= Len(Test.body) /\ Statement.op = "create"
      /\ ip' = ip + 1 /\ p' = p
      /\ UNCHANGED <<testArray, i, phase, exception, isSet, fatal, holder, stats, cur>>
  BY DEF CreateThreads, AtStatement, contextVars, reportVars
<1>3. /\ IsTest(Test) /\ Len(Test.body) \in Nat /\ ip \in 1..Len(Test.body) + 1 /\ ip \in Nat
      /\ WellFormed(Test.body, ip)
  BY <1>2, StatementHere DEF InBody
<1>4. Statement.results \in [Workers -> Results]
  BY <1>2, <1>3 DEF WellFormed, Statement
<1>5. \A w \in Workers : Begun("check", "normal", Statement.results[w]) \in Assertions
  BY <1>4, BegunIsAssertion DEF Severities, Kinds
<1>6. /\ asserting' = [t \in Threads |-> IF t = Main THEN Idle
                                         ELSE Begun("check", "normal", Statement.results[t])]
      /\ asserting'[Main] = Idle
  BY DEF CreateThreads, Threads
<1>7. asserting' \in [Threads -> Assertions \cup {Idle}]
  BY <1>5, <1>6 DEF Threads
<1>8. HistType'
  <2> DEFINE n == Cardinality({w \in Workers : Failed("normal", Statement.results[w])})
  <2>1. n \in Nat
    BY DoctestAssumption, FS_Subset, FS_CardinalityType
  <2>2. hist' = [hist EXCEPT !.failing = hist.failing + n, !.total = hist.total + n]
    BY DEF CreateThreads
  <2>3. HistType
    BY DEF HistType, TypeOK
  <2> HIDE DEF n
  <2>4. hist.failing + n \in Nat /\ hist.total + n \in Nat
    BY <2>1, <2>3 DEF HistType
  <2> QED
    BY <2>2, <2>3, <2>4, HistSet
<1>9. TypeOK'
  BY <1>2, <1>7, <1>8 DEF TypeOK, HistType
<1>10. /\ Test' = Test /\ (QueryMode' <=> QueryMode) /\ (InTest' <=> InTest) /\ (InBody' <=> InBody)
  BY <1>2 DEF Test, QueryMode, InTest, InBody
<1>11. MainsPlace'
  BY <1>2, <1>3, <1>10 DEF MainsPlace, PointsInv
<1>12. InSpan'
  BY <1>2, <1>3, <1>10 DEF InSpan, Statement
<1>13. Confined' /\ ~Working(Main)'
  BY <1>2, <1>6, <1>12 DEF Confined, Working
<1>14. fatal'.by = Nobody /\ Nobody \notin Workers
  BY <1>1, <1>2, DoctestAssumption DEF PointsInv
<1>15. PointsInv'
  BY <1>1, <1>2, <1>10, <1>11, <1>13, <1>14 DEF PointsInv, MainsPlace
<1> QED
  BY <1>9, <1>15

(* pthread_join waits for every thread.                                    *)
LEMMA JoinPoints ==
    ASSUME TypeOK, PointsInv, fatal.by # Main, JoinThreads
    PROVE  TypeOK' /\ PointsInv' /\ fatal.pc = "no" /\ \A t \in Threads : ~Working(t)
<1>1. /\ phase = "body" /\ ip <= Len(Test.body) /\ ip' = ip + 1 /\ p' = p
      /\ UNCHANGED <<testArray, i, phase, exception, isSet, fatal, holder, stats, cur, asserting, hist>>
      /\ \A t \in Threads : asserting[t] = Idle
  BY DEF JoinThreads, AtStatement, contextVars, reportVars, Threads
<1>2. fatal.pc = "no"
  <2>1. fatal.by \in Workers => asserting[fatal.by].pc = "aborted" /\ asserting[fatal.by] = Idle
    BY <1>1 DEF PointsInv, Threads
  <2>2. fatal.by \notin Workers
    BY <2>1 DEF Idle
  <2> QED
    BY <2>2 DEF TypeOK, Threads, PointsInv
<1>3. /\ IsTest(Test) /\ Len(Test.body) \in Nat /\ ip \in 1..Len(Test.body) + 1 /\ ip \in Nat
  BY <1>1, StatementHere DEF InBody
<1>4. TypeOK'
  BY <1>1 DEF TypeOK
<1>5. /\ Test' = Test /\ (QueryMode' <=> QueryMode) /\ (InTest' <=> InTest) /\ (InBody' <=> InBody)
  BY <1>1 DEF Test, QueryMode, InTest, InBody
<1>6. MainsPlace'
  BY <1>1, <1>3, <1>5 DEF MainsPlace, PointsInv
<1>7. /\ isSet' <=> InBody'
      /\ phase' # "killed"
  BY <1>1, <1>2, <1>5 DEF PointsInv
<1>8. PointsInv'
  BY <1>1, <1>2, <1>6, <1>7, SoloPoints
<1> QED
  BY <1>1, <1>2, <1>4, <1>8 DEF Working

(* throwException, by a REQUIRE that failed or because of abort-after.     *)
LEMMA ThrowPoints ==
    ASSUME TypeOK, PointsInv, fatal.by # Main, ~Ended, throwException
    PROVE  TypeOK' /\ PointsInv'
<1>1. fatal.pc = "no" /\ \A w \in Workers : ~Working(w)
  BY Solo DEF SoloStep
<1>2. Working(Main) /\ Main \in Threads
  BY DEF throwException, Working, Idle, Threads
<1>3. phase = "body"
  BY <1>2 DEF PointsInv, Ended
<1>4. /\ p' = p /\ UNCHANGED <<testArray, i, ip, isSet, fatal, holder, stats, cur>>
      /\ exception' = "TestFailureException" /\ phase' = "unwind"
      /\ asserting' = [asserting EXCEPT ![Main] = Idle]
  BY DEF throwException, reportVars
<1>5. \A t \in Threads : asserting'[t] = Idle
  BY <1>1, <1>4 DEF Threads, Working, TypeOK
<1>6. HistType'
  BY DEF throwException, HistType, TypeOK
<1>7. TypeOK'
  BY <1>4, <1>5, <1>6 DEF TypeOK, HistType
<1>8. /\ IsTest(Test) /\ Len(Test.body) \in Nat /\ ip \in 1..Len(Test.body) + 1
  BY <1>3, StatementHere DEF InBody
<1>9. /\ Test' = Test /\ (QueryMode' <=> QueryMode) /\ InTest /\ InBody /\ InBody'
  BY <1>3, <1>4 DEF Test, QueryMode, InTest, InBody
<1>10. MainsPlace'
  BY <1>4, <1>8, <1>9 DEF MainsPlace, PointsInv
<1>11. /\ isSet' <=> InBody'
       /\ phase' # "killed"
  BY <1>1, <1>4, <1>9 DEF PointsInv
<1> QED
  BY <1>1, <1>4, <1>5, <1>7, <1>10, <1>11, SoloPoints

(* A signal comes while the handler is set.                                *)
LEMMA InterruptPoints ==
    ASSUME TypeOK, PointsInv, Interrupt
    PROVE  TypeOK' /\ PointsInv' /\ phase' = phase /\ isSet
<1>1. /\ fatal.pc = "no" /\ InBody /\ HandleSignal(Main) /\ p' = p
      /\ UNCHANGED <<testArray, i, ip, exception, holder, stats, asserting, hist>>
  BY DEF Interrupt, InBody, reportVars
<1>2. /\ isSet /\ isSet' = FALSE /\ phase' = phase
      /\ cur' = [cur EXCEPT !.flags = @ \cup {"Crash"}]
      /\ fatal' = [pc |-> "exception", by |-> Main, calm |-> Calm(Main)]
  BY <1>1 DEF PointsInv, HandleSignal
<1>3. CurType' /\ cur'.test = cur.test
  BY <1>2 DEF CurType, TypeOK
<1>4. fatal' \in [pc : {"no", "exception", "pop", "end", "run_end"}, by : Threads \cup {Nobody}, calm : BOOLEAN]
  BY <1>2 DEF Calm, Threads
<1>5. TypeOK'
  BY <1>1, <1>2, <1>3, <1>4 DEF TypeOK, CurType
<1>6. /\ Test' = Test /\ Statement' = Statement /\ (QueryMode' <=> QueryMode) /\ (InTest' <=> InTest)
      /\ (InBody' <=> InBody) /\ (InSpan' <=> InSpan) /\ (\A t \in Threads : Working(t)' <=> Working(t))
  <2>1. Test' = Test
    BY <1>1 DEF Test
  <2>2. Statement' = Statement /\ (InSpan' <=> InSpan)
    BY <1>1, <2>1 DEF Statement, InSpan
  <2> QED
    BY <1>1, <1>2, <2>1, <2>2 DEF QueryMode, InTest, InBody, Working
<1>7. fatal'.pc # "no" /\ fatal'.by = Main /\ Main # Nobody /\ Main \notin Workers
  BY <1>2, DoctestAssumption
<1>8. Confined' <=> Confined
  BY <1>1, <1>2, <1>6 DEF Confined, Working
<1>9. MainsPlace'
  BY <1>1, <1>2, <1>3, <1>6 DEF MainsPlace, PointsInv
<1>10. PointsInv'
  BY <1>1, <1>2, <1>6, <1>7, <1>8, <1>9 DEF PointsInv, MainsPlace, Threads
<1> QED
  BY <1>2, <1>5, <1>10

(* A thread throws with nobody to catch it.                                *)
LEMMA TerminatePoints ==
    ASSUME TypeOK, PointsInv, ~Ended, NEW w \in Workers, Terminate(w)
    PROVE  /\ TypeOK' /\ PointsInv' /\ phase = "body"
           /\ \/ fatal.pc = "no" /\ isSet /\ phase' = phase
              \/ fatal.pc # "no" /\ phase' = "killed" /\ fatal' = fatal
<1>1. /\ asserting[w].pc = "react" /\ HandleSignal(w) /\ p' = p
      /\ asserting' = [asserting EXCEPT ![w].pc = "aborted"]
      /\ UNCHANGED <<testArray, i, ip, exception, holder, stats, hist>>
  BY DEF Terminate, reportVars
<1>2. w \in Threads /\ w # Main /\ w # Nobody /\ Main \in Threads /\ Working(w)
  BY <1>1, DoctestAssumption DEF Threads, Working, Idle
<1>3. phase = "body" /\ Confined /\ InBody
  BY <1>2 DEF PointsInv, Ended, Confined, InBody
<1>4. asserting[w] \in Assertions
  BY <1>2, WorkingMakes
<1>5. /\ asserting' \in [Threads -> Assertions \cup {Idle}]
      /\ asserting'[w].pc = "aborted" /\ \A u \in Threads : u # w => asserting'[u] = asserting[u]
  <2> DEFINE a == [asserting[w] EXCEPT !.pc = "aborted"]
  <2>1. a \in Assertions /\ a.pc = "aborted"
    BY <1>4 DEF Assertions
  <2>2. asserting' = [asserting EXCEPT ![w] = a]
    BY <1>1
  <2> HIDE DEF a
  <2> QED
    BY <1>2, <2>1, <2>2 DEF TypeOK
<1>6. \/ /\ fatal.pc = "no" /\ isSet /\ isSet' = FALSE /\ phase' = phase
         /\ cur' = [cur EXCEPT !.flags = @ \cup {"Crash"}]
         /\ fatal' = [pc |-> "exception", by |-> w, calm |-> Calm(w)]
      \/ fatal.pc # "no" /\ ~isSet /\ phase' = "killed" /\ isSet' = isSet /\ cur' = cur /\ fatal' = fatal
  BY <1>1, <1>3 DEF PointsInv, HandleSignal
<1>7. CurType' /\ cur'.test = cur.test
  BY <1>6 DEF CurType, TypeOK
<1>8. /\ fatal' \in [pc : {"no", "exception", "pop", "end", "run_end"}, by : Threads \cup {Nobody}, calm : BOOLEAN]
      /\ isSet' \in BOOLEAN
  <2>1. w \in Threads \cup {Nobody} /\ Calm(w) \in BOOLEAN
    BY <1>2 DEF Calm
  <2>2. isSet' \in BOOLEAN
    BY <1>6 DEF TypeOK
  <2> HIDE DEF Calm
  <2> QED
    BY <1>6, <2>1, <2>2 DEF TypeOK
<1>9. TypeOK'
  BY <1>1, <1>3, <1>5, <1>6, <1>7, <1>8 DEF TypeOK, CurType
<1>10. Working(Main)' <=> Working(Main)
  BY <1>2, <1>5 DEF Working
<1>11. CASE fatal.pc = "no"
  <2>1. /\ phase' = phase /\ isSet' = FALSE
        /\ fatal'.pc # "no" /\ fatal'.by = w
    BY <1>6, <1>11
  <2>2. /\ Test' = Test /\ Statement' = Statement /\ (QueryMode' <=> QueryMode) /\ (InTest' <=> InTest)
        /\ (InBody' <=> InBody) /\ (InSpan' <=> InSpan)
    <3>1. Test' = Test
      BY <1>1 DEF Test
    <3>2. Statement' = Statement /\ (InSpan' <=> InSpan)
      BY <1>1, <3>1 DEF Statement, InSpan
    <3> QED
      BY <1>1, <2>1, <3>1, <3>2 DEF QueryMode, InTest, InBody
  <2>3. Confined'
    BY <1>2, <1>3, <1>5, <1>10, <2>1, <2>2 DEF Confined
  <2>4. MainsPlace'
    BY <1>1, <1>7, <2>1, <2>2 DEF MainsPlace, PointsInv
  <2>5. Working(Main)' => phase' \in {"body", "killed"} /\ asserting'[Main].pc # "aborted"
    BY <1>2, <1>5, <1>10, <2>1 DEF PointsInv
  <2>6. PointsInv'
    BY <1>2, <1>3, <1>5, <2>1, <2>2, <2>3, <2>4, <2>5 DEF PointsInv, MainsPlace
  <2> QED
    BY <1>3, <1>6, <1>9, <1>11, <2>6
<1>12. CASE fatal.pc # "no"
  <2>1. phase' = "killed" /\ isSet' = FALSE /\ fatal' = fatal /\ ~InBody' /\ ~InTest'
    BY <1>6, <1>12, <1>8 DEF InBody, InTest
  <2>2. Working(Main)' => asserting'[Main].pc # "aborted"
    BY <1>2, <1>5, <1>10 DEF PointsInv
  <2>3. fatal'.by \in Workers => asserting'[fatal'.by].pc = "aborted"
    <3>1. fatal.by \in Workers => fatal.by \in Threads /\ asserting[fatal.by].pc = "aborted"
      BY DEF PointsInv, Threads
    <3> QED
      BY <1>5, <2>1, <3>1
  <2>4. PointsInv'
    BY <1>12, <2>1, <2>2, <2>3 DEF PointsInv
  <2> QED
    BY <1>3, <1>6, <1>9, <1>12, <2>4
<1> QED
  BY <1>11, <1>12
(* The handler's steps, up to the raise that kills the program.            *)
LEMMA FatalPoints ==
    ASSUME TypeOK, PointsInv, ~Ended, FatalStep
    PROVE  /\ TypeOK' /\ PointsInv' /\ fatal.pc # "no" /\ InBody
           /\ UNCHANGED <<testArray, i, holder, asserting, p, ip, exception, isSet>>
           /\ cur'.test = cur.test /\ cur'.failed = cur.failed /\ cur'.asserts = cur.asserts
           /\ hist'.failing = hist.failing /\ hist'.total = hist.total
           /\ phase' = phase \/ (FatalRunEnd /\ phase' = "killed")
           /\ fatal'.by = fatal.by /\ fatal'.calm = fatal.calm
<1>1. fatal.pc # "no" /\ InBody
  BY DEF FatalStep, FatalException, FatalPop, FatalFinalize, FatalTestEnd, FatalRunEnd, PointsInv, Ended
<1>2. UNCHANGED <<testArray, i, holder, asserting, p, ip, exception, isSet>>
  BY DEF FatalStep, FatalException, FatalPop, FatalFinalize, FatalTestEnd, FatalRunEnd, contextVars,
         runVars, reportVars
<1>3. phase' = phase \/ (FatalRunEnd /\ phase' = "killed")
  BY DEF FatalStep, FatalException, FatalPop, FatalFinalize, FatalTestEnd, FatalRunEnd, runVars
<1>4. /\ fatal'.by = fatal.by /\ fatal'.calm = fatal.calm /\ fatal'.pc # "no"
      /\ fatal' \in [pc : {"no", "exception", "pop", "end", "run_end"}, by : Threads \cup {Nobody}, calm : BOOLEAN]
  BY <1>1 DEF FatalStep, FatalException, FatalPop, FatalFinalize, FatalTestEnd, FatalRunEnd, TypeOK
<1>5. /\ CurType' /\ HistType' /\ StatsType'
      /\ cur'.test = cur.test /\ cur'.failed = cur.failed /\ cur'.asserts = cur.asserts
      /\ hist'.failing = hist.failing /\ hist'.total = hist.total
  <2>1. CASE FatalFinalize
    <3>1. PICK late \in MayBeLate(cur.test[1]) : finalizeTestCaseData(late)
      BY <2>1 DEF FatalFinalize
    <3> QED
      BY <3>1, FinalTypes
  <2>2. CASE FatalException \/ FatalPop \/ FatalTestEnd \/ FatalRunEnd
    <3>1. cur' = cur /\ hist' = hist /\ stats' = stats
      BY <2>2 DEF FatalException, FatalPop, FatalTestEnd, FatalRunEnd, contextVars
    <3> QED
      BY <3>1 DEF TypeOK, CurType, HistType, StatsType
  <2> QED
    BY <2>1, <2>2 DEF FatalStep
<1>6. TypeOK'
  BY <1>2, <1>3, <1>4, <1>5 DEF TypeOK, CurType, HistType, StatsType
<1>7. PointsInv'
  <2>1. /\ Test' = Test /\ Statement' = Statement /\ (QueryMode' <=> QueryMode)
        /\ (InSpan' <=> InSpan) /\ (\A t \in Threads : Working(t)' <=> Working(t))
    <3>1. Test' = Test
      BY <1>2 DEF Test
    <3>2. Statement' = Statement /\ (InSpan' <=> InSpan)
      BY <1>2, <3>1 DEF Statement, InSpan
    <3> QED
      BY <1>2, <3>1, <3>2 DEF QueryMode, Working
  <2>2. (InBody' => phase' = phase) /\ (InTest' => phase' = phase) /\ (phase' # phase => phase' = "killed")
    BY <1>3 DEF InBody, InTest
  <2>3. MainsPlace'
    BY <1>2, <1>5, <2>1, <2>2 DEF MainsPlace, PointsInv, InTest, InBody
  <2>4. \A w \in Workers : Working(w)' => (phase = "killed" \/ Confined)'
    BY <1>2, <2>1, <2>2 DEF PointsInv, Confined, Threads
  <2>5. Working(Main)' => phase' \in {"body", "killed"} /\ asserting'[Main].pc # "aborted"
    BY <1>2, <2>1, <2>2 DEF PointsInv, Threads
  <2>6. isSet' = FALSE
    BY <1>1, <1>2 DEF PointsInv, TypeOK
  <2> QED
    BY <1>1, <1>2, <1>4, <2>2, <2>3, <2>4, <2>5, <2>6 DEF PointsInv, MainsPlace, InBody
<1> QED
  BY <1>1, <1>2, <1>3, <1>4, <1>5, <1>6, <1>7

(* Every step keeps the types and everybody's place.                       *)
LEMMA PlaceSteps ==
    ASSUME TypeOK, PointsInv, [Next]_vars
    PROVE  TypeOK' /\ PointsInv'
<1>1. CASE UNCHANGED vars
  <2>1. UNCHANGED <<p, stats, cur, testArray, i, phase, ip, exception, isSet, fatal, holder, asserting, hist>>
    BY <1>1 DEF vars, contextVars, runVars, reportVars
  <2>2. TypeOK'
    BY <2>1 DEF TypeOK
  <2>3. Test' = Test /\ Statement' = Statement
    BY <2>1 DEF Test, Statement
  <2>4. /\ (QueryMode' <=> QueryMode) /\ (InTest' <=> InTest) /\ (InBody' <=> InBody)
        /\ (InSpan' <=> InSpan)
    BY <2>1, <2>3 DEF QueryMode, InTest, InBody, InSpan
  <2>5. (Confined' <=> Confined) /\ (\A t \in Threads : Working(t)' <=> Working(t)) /\ (Working(Main)' <=> Working(Main))
    BY <2>1, <2>4 DEF Confined, Working
  <2>6. \A w \in Workers : Working(w)' <=> Working(w)
    BY <2>5 DEF Threads
  <2>7. PointsInv'
    BY <2>1, <2>3, <2>4, <2>5, <2>6 DEF PointsInv
  <2> QED
    BY <2>2, <2>7
<1>2. CASE MainStep
  <2>1. ~Ended /\ fatal.by # Main
    BY <1>2 DEF MainStep
  <2>2. CASE RunStep
    BY <2>1, <2>2, RunPoints
  <2>3. CASE MoveStep
    BY <2>1, <2>3, MovePoints
  <2>4. CASE SkipAssertion \/ MakeAssertion
    BY <2>4, MakePoints
  <2>5. CASE AssertStep(Main)
    BY <2>5, AssertPoints DEF Threads
  <2>6. CASE throwException
    BY <2>1, <2>6, ThrowPoints
  <2>7. CASE CreateThreads
    BY <2>1, <2>7, CreatePoints
  <2>8. CASE JoinThreads
    BY <2>1, <2>8, JoinPoints
  <2> QED
    BY <1>2, <2>2, <2>3, <2>4, <2>5, <2>6, <2>7, <2>8 DEF MainStep, BodyStep, MoveStep
<1>3. ASSUME NEW w \in Workers, WorkerStep(w)
      PROVE  TypeOK' /\ PointsInv'
  <2>1. CASE AssertStep(w)
    BY <2>1, AssertPoints DEF Threads
  <2>2. CASE Terminate(w)
    BY <1>3, <2>2, TerminatePoints DEF WorkerStep
  <2> QED
    BY <1>3, <2>1, <2>2 DEF WorkerStep
<1>4. CASE HandlerStep
  BY <1>4, FatalPoints DEF HandlerStep
<1>5. CASE Interrupt
  BY <1>5, InterruptPoints
<1> QED
  BY <1>1, <1>2, <1>3, <1>4, <1>5 DEF Next

(* They hold at first.                                                     *)
LEMMA PlaceInit == Init => TypeOK /\ PointsInv
<1> SUFFICES ASSUME Init PROVE TypeOK /\ PointsInv
  OBVIOUS
<1>1. PICK tests \in Programs : testArray = SetToSeq(tests)
  BY DEF Init
<1>2. IsFiniteSet(tests) /\ \A t \in tests : IsTest(t)
  BY ProgramsAssumption
<1>3. testArray \in Seq(tests)
  <2>1. Cardinality(tests) \in Nat /\ ExistsBijection(1..Cardinality(tests), tests)
    BY <1>2, FS_CardinalityType
  <2>2. \E f \in [1..Cardinality(tests) -> tests] : IsInjective(f)
    BY <2>1 DEF ExistsBijection, Bijection, Injection, IsInjective, Surjection
  <2>3. SetToSeq(tests) \in [1..Cardinality(tests) -> tests]
    BY <2>2 DEF SetToSeq
  <2> QED
    BY <1>1, <2>1, <2>3, SeqDef
<1>4. /\ testArray \in Seq(ToSet(testArray)) /\ (\A t \in ToSet(testArray) : IsTest(t))
      /\ Len(testArray) \in Nat
  <2>1. \A t \in ToSet(testArray) : t \in tests
    BY <1>3, LenProperties DEF ToSet
  <2> QED
    BY <1>2, <1>3, <2>1, OverItself, LenProperties
<1>5. /\ stats = [numTestCases |-> 0, numTestCasesPassingFilters |-> 0,
                  numTestSuitesPassingFilters |-> 0, numTestCasesFailed |-> 0,
                  numAsserts |-> 0, numAssertsFailed |-> 0]
      /\ cur = [test |-> <<>>, asserts |-> 0, failed |-> 0, flags |-> {}]
      /\ i = 1 /\ phase = "run" /\ ip = 1 /\ exception = "none"
      /\ isSet = FALSE /\ fatal = [pc |-> "no", by |-> Nobody, calm |-> TRUE]
      /\ holder = [r \in DOMAIN Reporters |-> Nobody]
      /\ asserting = [t \in Threads |-> Idle]
      /\ hist = [entered |-> <<>>, failing |-> 0, total |-> 0, threw |-> FALSE, verdicts |-> <<>>]
  BY DEF Init, NoTestYet
<1>6. hist.verdicts \in Seq(ToSet(hist.verdicts))
  BY <1>5, EmptySeq
<1>7. TypeOK
  <2>1. i \in 1..Len(testArray) + 1
    BY <1>4, <1>5
  <2>2. CurType /\ HistType /\ StatsType
    BY <1>5, <1>6 DEF CurType, HistType, StatsType
  <2>3. /\ holder \in [DOMAIN Reporters -> Threads \cup {Nobody}]
        /\ asserting \in [Threads -> Assertions \cup {Idle}]
        /\ fatal \in [pc : {"no", "exception", "pop", "end", "run_end"}, by : Threads \cup {Nobody}, calm : BOOLEAN]
    BY <1>5
  <2>4. /\ phase = "run" /\ exception = "none" /\ isSet \in BOOLEAN
    BY <1>5
  <2> QED
    BY <1>4, <2>1, <2>2, <2>3, <2>4 DEF TypeOK, CurType, HistType, StatsType
<1>8. \A t \in Threads : ~Working(t)
  BY <1>5 DEF Working
<1>9. PointsInv
  <2>1. ~InTest /\ ~InBody /\ phase = "run" /\ i = 1
    BY <1>5 DEF InTest, InBody
  <2>2. ~Working(Main) /\ \A w \in Workers : ~Working(w)
    BY <1>8 DEF Threads
  <2>3. fatal.pc = "no" /\ fatal.by = Nobody /\ fatal.calm /\ isSet = FALSE /\ Nobody \notin Workers
    BY <1>5, DoctestAssumption
  <2> QED
    BY <2>1, <2>2, <2>3 DEF PointsInv
<1> QED
  BY <1>7, <1>9

(* TypeOK and PointsInv are inductive by themselves: main, the threads it  *)
(* created and the handler of a signal are where run, the assertion macros *)
(* and FatalConditionHandler put them. Threads work only between a         *)
(* pthread_create and its pthread_join, inside a test function, and a      *)
(* signal is handled only there.                                           *)
THEOREM PlacesInductive == Spec => [](TypeOK /\ PointsInv)
<1>1. (TypeOK /\ PointsInv) /\ [Next]_vars => (TypeOK /\ PointsInv)'
  BY PlaceSteps
<1> QED
  BY <1>1, PlaceInit, PTL DEF Spec

-----------------------------------------------------------------------------
(* What the threads still have to count.                                   *)

(* What an assertion under way has still to add to the counters.           *)
ToCount(a) == a.pc \in {"count", "log", "logging", "failed"} /\ Failing(a.at, a.failed) = 1
Half(a) == ToCount(a) /\ a.pc # "count" /\ a.kind # "message"
One(b) == IF b THEN 1 ELSE 0

(* The sets that CountsInv counts, by those predicates; they are finite.   *)
LEMMA CountedSets ==
    /\ Uncounted = {t \in Threads : ToCount(asserting[t])}
    /\ HalfCounted = {t \in Threads : Half(asserting[t])}
    /\ IsFiniteSet(Uncounted) /\ Cardinality(Uncounted) \in Nat
    /\ IsFiniteSet(HalfCounted) /\ Cardinality(HalfCounted) \in Nat
<1>1. /\ Uncounted = {t \in Threads : ToCount(asserting[t])}
      /\ HalfCounted = {t \in Threads : Half(asserting[t])}
  BY DEF Uncounted, HalfCounted, ToCount, Half, IsMessage
<1>2. IsFiniteSet(Threads)
  BY DoctestAssumption, FS_AddElement, FS_Singleton, FS_Union DEF Threads
<1>3. Uncounted \subseteq Threads /\ HalfCounted \subseteq Threads
  BY <1>1
<1>4. IsFiniteSet(Uncounted) /\ IsFiniteSet(HalfCounted)
  BY <1>2, <1>3, FS_Subset
<1> QED
  BY <1>1, <1>4, FS_CardinalityType

(* One thread more or less changes a cardinality by one.                   *)
LEMMA OneMoves ==
    ASSUME NEW S, IsFiniteSet(S), NEW T, NEW t, T = S \cup {t} \/ T = S \ {t}
    PROVE  Cardinality(T) = Cardinality(S) + One(t \in T) - One(t \in S)
<1>1. Cardinality(S) \in Nat
  BY FS_CardinalityType
<1>2. CASE T = S \cup {t}
  BY <1>1, <1>2, FS_AddElement DEF One
<1>3. CASE T = S \ {t}
  BY <1>1, <1>3, FS_RemoveElement DEF One
<1> QED
  BY <1>2, <1>3

(* One thread goes on.                                                     *)
LEMMA ThreadMoves ==
    ASSUME TypeOK, NEW t \in Threads, NEW a, asserting' = [asserting EXCEPT ![t] = a]
    PROVE  /\ Cardinality(Uncounted') = Cardinality(Uncounted) + One(ToCount(a)) - One(ToCount(asserting[t]))
           /\ Cardinality(HalfCounted') = Cardinality(HalfCounted) + One(Half(a)) - One(Half(asserting[t]))
<1>1. asserting'[t] = a /\ \A u \in Threads : u # t => asserting'[u] = asserting[u]
  BY DEF TypeOK
<1>2. /\ Uncounted' = {u \in Threads : ToCount(asserting'[u])}
      /\ HalfCounted' = {u \in Threads : Half(asserting'[u])}
  BY DEF Uncounted, HalfCounted, ToCount, Half, IsMessage
<1>3. /\ Uncounted' = IF ToCount(a) THEN Uncounted \cup {t} ELSE Uncounted \ {t}
      /\ HalfCounted' = IF Half(a) THEN HalfCounted \cup {t} ELSE HalfCounted \ {t}
  BY <1>1, <1>2, CountedSets
<1>4. /\ t \in Uncounted <=> ToCount(asserting[t])
      /\ t \in HalfCounted <=> Half(asserting[t])
      /\ t \in Uncounted' <=> ToCount(a)
      /\ t \in HalfCounted' <=> Half(a)
  BY <1>1, <1>2, CountedSets
<1>5. /\ Cardinality(Uncounted') = Cardinality(Uncounted) + One(t \in Uncounted') - One(t \in Uncounted)
      /\ Cardinality(HalfCounted') = Cardinality(HalfCounted) + One(t \in HalfCounted') - One(t \in HalfCounted)
  BY <1>3, CountedSets, OneMoves
<1> QED
  BY <1>4, <1>5 DEF One

(* No thread does.                                                         *)
LEMMA NobodyMoves ==
    ASSUME TypeOK, \A t \in Threads : ToCount(asserting'[t]) = ToCount(asserting[t])
                                      /\ Half(asserting'[t]) = Half(asserting[t])
    PROVE  Uncounted' = Uncounted /\ HalfCounted' = HalfCounted
<1>1. /\ Uncounted' = {u \in Threads : ToCount(asserting'[u])}
      /\ HalfCounted' = {u \in Threads : Half(asserting'[u])}
  BY DEF Uncounted, HalfCounted, ToCount, Half, IsMessage
<1> QED
  BY <1>1, CountedSets

(* Nothing is left to count when no thread makes an assertion.             *)
LEMMA NobodyCounts ==
    ASSUME \A t \in Threads : asserting[t] = Idle
    PROVE  Uncounted = {} /\ HalfCounted = {} /\ Cardinality(Uncounted) = 0 /\ Cardinality(HalfCounted) = 0
<1>1. \A t \in Threads : ~ToCount(asserting[t]) /\ ~Half(asserting[t])
  BY DEF ToCount, Half, Idle
<1> QED
  BY <1>1, CountedSets, FS_EmptySet

(* The failures of the whole run, where the run's counter has or has not   *)
(* those of the test case yet.                                             *)
TestTotal == fatal.pc = "no" =>
                 hist.total = stats.numAssertsFailed + (IF InTest /\ phase # "end" THEN hist.failing ELSE 0)

(* A step that leaves the counters and what is to be counted alone.        *)
LEMMA CountsFrame ==
    ASSUME TypeOK, CountsInv, Uncounted' = Uncounted, HalfCounted' = HalfCounted,
           cur'.failed = cur.failed, cur'.asserts = cur.asserts, hist'.failing = hist.failing,
           TestTotal'
    PROVE  CountsInv'
BY DEF CountsInv, TestTotal

(* A step of an assertion counts what the thread had to count, or nothing. *)
LEMMA CountsAssert ==
    ASSUME TypeOK, PointsInv, CountsInv, NEW t \in Threads, AssertStep(t)
    PROVE  CountsInv'
<1>1. Working(t)
  BY DEF AssertStep, AddAssert, LogSkipped, Log, Logged, AddFailedAssert, AssertReturns, Working, Idle
<1>2. asserting[t] \in Assertions
  BY <1>1, WorkingMakes
<1>3. UNCHANGED <<fatal, hist, stats, phase>>
  BY DEF AssertStep, AddAssert, LogSkipped, Log, Logged, AddFailedAssert, AssertReturns, contextVars, runVars
<1>4. TestTotal'
  <2>1. InTest' <=> InTest
    BY <1>3 DEF InTest, InBody
  <2> QED
    BY <1>3, <2>1 DEF CountsInv, TestTotal
<1>5. Cardinality(Uncounted) \in Nat /\ Cardinality(HalfCounted) \in Nat /\ cur.failed \in Nat
      /\ cur.asserts \in Nat /\ hist.failing \in Nat
  BY CountedSets DEF TypeOK
<1>6. ASSUME NEW pc \in {"log", "logging", "failed", "react"}, asserting' = [asserting EXCEPT ![t].pc = pc]
      PROVE  \E a \in Assertions : /\ asserting' = [asserting EXCEPT ![t] = a]
                    /\ a.at = asserting[t].at /\ a.kind = asserting[t].kind /\ a.failed = asserting[t].failed
                    /\ a.pc = pc
  <2> DEFINE a == [asserting[t] EXCEPT !.pc = pc]
  <2>1. /\ a \in Assertions /\ a.pc = pc
        /\ a.at = asserting[t].at /\ a.kind = asserting[t].kind /\ a.failed = asserting[t].failed
    BY <1>2 DEF Assertions
  <2>2. asserting' = [asserting EXCEPT ![t] = a]
    BY <1>6
  <2> HIDE DEF a
  <2> QED
    BY <2>1, <2>2
<1>7. CASE LogSkipped(t) \/ Log(t) \/ Logged(t)
  <2>1. PICK pc \in {"logging", "failed"} : asserting' = [asserting EXCEPT ![t].pc = pc]
    BY <1>7 DEF LogSkipped, Log, Logged
  <2>2. PICK a \in Assertions : /\ asserting' = [asserting EXCEPT ![t] = a]
                                /\ a.at = asserting[t].at /\ a.kind = asserting[t].kind /\ a.failed = asserting[t].failed
                                /\ a.pc = pc
    BY <1>6, <2>1
  <2>3. asserting[t].pc \in {"log", "logging"}
    BY <1>7 DEF LogSkipped, Log, Logged
  <2>4. (ToCount(a) <=> ToCount(asserting[t])) /\ (Half(a) <=> Half(asserting[t]))
    BY <2>1, <2>2, <2>3 DEF ToCount, Half
  <2>5. Cardinality(Uncounted') = Cardinality(Uncounted) /\ Cardinality(HalfCounted') = Cardinality(HalfCounted)
    <3>1. /\ One(ToCount(a)) = One(ToCount(asserting[t])) /\ One(Half(a)) = One(Half(asserting[t]))
          /\ One(ToCount(a)) \in Nat /\ One(Half(a)) \in Nat
      BY <2>4 DEF One
    <3>2. /\ Cardinality(Uncounted') = Cardinality(Uncounted) + One(ToCount(a)) - One(ToCount(asserting[t]))
          /\ Cardinality(HalfCounted') = Cardinality(HalfCounted) + One(Half(a)) - One(Half(asserting[t]))
      BY <2>2, ThreadMoves
    <3> QED
      BY <1>5, <3>1, <3>2
  <2>6. cur' = cur
    BY <1>7 DEF LogSkipped, Log, Logged, contextVars
  <2> QED
    BY <1>3, <1>4, <2>5, <2>6 DEF CountsInv, TestTotal
<1>8. CASE AssertReturns(t)
  <2>1. asserting' = [asserting EXCEPT ![t] = Idle] /\ asserting[t].pc = "react" /\ cur' = cur
    BY <1>8 DEF AssertReturns, contextVars
  <2>2. ~ToCount(Idle) /\ ~ToCount(asserting[t]) /\ ~Half(Idle) /\ ~Half(asserting[t])
    BY <2>1 DEF ToCount, Half, Idle
  <2>3. Cardinality(Uncounted') = Cardinality(Uncounted) /\ Cardinality(HalfCounted') = Cardinality(HalfCounted)
    <3>1. /\ One(ToCount(Idle)) = 0 /\ One(ToCount(asserting[t])) = 0
          /\ One(Half(Idle)) = 0 /\ One(Half(asserting[t])) = 0
      BY <2>2 DEF One
    <3>2. /\ Cardinality(Uncounted') = Cardinality(Uncounted) + One(ToCount(Idle)) - One(ToCount(asserting[t]))
          /\ Cardinality(HalfCounted') = Cardinality(HalfCounted) + One(Half(Idle)) - One(Half(asserting[t]))
      BY <2>1, ThreadMoves
    <3> QED
      BY <1>5, <3>1, <3>2
  <2> QED
    BY <1>3, <1>4, <2>1, <2>3 DEF CountsInv, TestTotal
<1>9. CASE AddAssert(t)
  <2>1. asserting' = [asserting EXCEPT ![t].pc = "log"] /\ asserting[t].pc = "count"
    BY <1>9 DEF AddAssert
  <2>2. PICK a \in Assertions : /\ asserting' = [asserting EXCEPT ![t] = a]
                                /\ a.at = asserting[t].at /\ a.kind = asserting[t].kind /\ a.failed = asserting[t].failed
                                /\ a.pc = "log"
    BY <1>6, <2>1
  <2>3. /\ ToCount(a) <=> ToCount(asserting[t])
        /\ ~Half(asserting[t])
        /\ Half(a) => asserting[t].at # "warn"
    BY <2>1, <2>2 DEF ToCount, Half, Failing
  <2>4. /\ cur'.failed = cur.failed
        /\ cur'.asserts = cur.asserts + (IF asserting[t].at = "warn" THEN 0 ELSE 1)
    BY <1>9, <1>5 DEF AddAssert, TypeOK
  <2>5. Cardinality(Uncounted') = Cardinality(Uncounted)
        /\ Cardinality(HalfCounted') = Cardinality(HalfCounted) + One(Half(a))
    <3>1. /\ One(ToCount(a)) = One(ToCount(asserting[t])) /\ One(Half(asserting[t])) = 0
          /\ One(ToCount(a)) \in Nat /\ One(Half(a)) \in Nat
      BY <2>3 DEF One
    <3>2. /\ Cardinality(Uncounted') = Cardinality(Uncounted) + One(ToCount(a)) - One(ToCount(asserting[t]))
          /\ Cardinality(HalfCounted') = Cardinality(HalfCounted) + One(Half(a)) - One(Half(asserting[t]))
      BY <2>2, ThreadMoves
    <3> QED
      BY <1>5, <3>1, <3>2
  <2>6. One(Half(a)) <= (IF asserting[t].at = "warn" THEN 0 ELSE 1)
    BY <2>3 DEF One
  <2>7. One(Half(a)) \in Nat
    BY DEF One
  <2>8. cur'.failed + Cardinality(HalfCounted') <= cur'.asserts
    BY <1>5, <2>4, <2>5, <2>6, <2>7 DEF CountsInv
  <2> QED
    BY <1>3, <1>4, <2>4, <2>5, <2>8 DEF CountsInv, TestTotal
<1>10. CASE AddFailedAssert(t)
  <2>1. asserting' = [asserting EXCEPT ![t].pc = "react"] /\ asserting[t].pc = "failed"
    BY <1>10 DEF AddFailedAssert
  <2>2. PICK a \in Assertions : /\ asserting' = [asserting EXCEPT ![t] = a]
                                /\ a.at = asserting[t].at /\ a.kind = asserting[t].kind /\ a.failed = asserting[t].failed
                                /\ a.pc = "react"
    BY <1>6, <2>1
  <2> DEFINE f == Failing(asserting[t].at, asserting[t].failed)
             g == IF IsMessage(t) THEN Failing(asserting[t].at, TRUE) ELSE 0
  <2>3. /\ ~ToCount(a) /\ ~Half(a)
        /\ One(ToCount(asserting[t])) = f
        /\ f <= g + One(Half(asserting[t]))
        /\ f \in Nat /\ g \in Nat /\ One(Half(asserting[t])) \in Nat
    BY <2>1, <2>2 DEF ToCount, Half, Failing, One, IsMessage
  <2>4. /\ cur'.failed = cur.failed + f
        /\ cur'.asserts = cur.asserts + g
    BY <1>10 DEF AddFailedAssert, TypeOK
  <2> HIDE DEF f, g
  <2>5. /\ Cardinality(Uncounted') = Cardinality(Uncounted) - f
        /\ Cardinality(HalfCounted') = Cardinality(HalfCounted) - One(Half(asserting[t]))
    <3>1. One(ToCount(a)) = 0 /\ One(Half(a)) = 0
      BY <2>3 DEF One
    <3> QED
      <4>1. /\ Cardinality(Uncounted') = Cardinality(Uncounted) + One(ToCount(a)) - One(ToCount(asserting[t]))
            /\ Cardinality(HalfCounted') = Cardinality(HalfCounted) + One(Half(a)) - One(Half(asserting[t]))
        BY <2>2, ThreadMoves
      <4> QED
        BY <1>5, <2>3, <3>1, <4>1
  <2>6. cur'.failed + Cardinality(HalfCounted') <= cur'.asserts
    BY <1>5, <2>3, <2>4, <2>5 DEF CountsInv
  <2>7. hist'.failing = cur'.failed + Cardinality(Uncounted')
    BY <1>3, <1>5, <2>3, <2>4, <2>5 DEF CountsInv
  <2> QED
    BY <1>4, <2>6, <2>7 DEF CountsInv, TestTotal
<1> QED
  BY <1>7, <1>8, <1>9, <1>10 DEF AssertStep

(* Main begins an assertion.                                               *)
LEMMA CountsMake ==
    ASSUME TypeOK, PointsInv, CountsInv, MakeAssertion
    PROVE  CountsInv'
<1> DEFINE b == Begun(Statement.at, Statement.kind, Statement.result)
           f == Failing(Statement.at, Failed(Statement.kind, Statement.result))
<1>1. /\ asserting' = [asserting EXCEPT ![Main] = b] /\ asserting[Main] = Idle /\ Main \in Threads
      /\ phase = "body" /\ UNCHANGED <<cur, stats, phase>> /\ fatal'.pc = fatal.pc
  BY DEF MakeAssertion, AtStatement, contextVars, TypeOK, Threads
<1>2. hist'.failing = hist.failing + f /\ hist'.total = hist.total + f
  BY DEF MakeAssertion, TypeOK
<1>3. /\ b.at = Statement.at /\ b.kind = Statement.kind /\ b.failed = Failed(Statement.kind, Statement.result)
      /\ b.pc = IF Statement.kind = "message" THEN "log" ELSE "count"
  BY DEF Begun
<1>4. f \in {0, 1}
  BY DEF Failing
<1> HIDE DEF b, f
<1>5. (ToCount(b) <=> f = 1) /\ ~Half(b) /\ ~ToCount(Idle) /\ ~Half(Idle)
  BY <1>3 DEF ToCount, Half, Idle, f
<1>6. One(ToCount(b)) = f /\ One(Half(b)) = 0 /\ One(ToCount(asserting[Main])) = 0 /\ One(Half(asserting[Main])) = 0
  BY <1>1, <1>4, <1>5 DEF One
<1>7. /\ Cardinality(Uncounted') = Cardinality(Uncounted) + One(ToCount(b)) - One(ToCount(asserting[Main]))
      /\ Cardinality(HalfCounted') = Cardinality(HalfCounted) + One(Half(b)) - One(Half(asserting[Main]))
  BY <1>1, ThreadMoves
<1>8. Cardinality(Uncounted) \in Nat /\ Cardinality(HalfCounted) \in Nat /\ cur.failed \in Nat
      /\ cur.asserts \in Nat /\ hist.failing \in Nat /\ hist.total \in Nat /\ stats.numAssertsFailed \in Nat
  BY CountedSets DEF TypeOK
<1>9. /\ cur'.failed + Cardinality(HalfCounted') <= cur'.asserts
      /\ hist'.failing = cur'.failed + Cardinality(Uncounted')
  BY <1>1, <1>2, <1>4, <1>6, <1>7, <1>8 DEF CountsInv
<1>10. TestTotal'
  <2>1. InTest /\ InTest'
    BY <1>1 DEF InTest, InBody
  <2>2. fatal.pc = "no" => hist.total = stats.numAssertsFailed + hist.failing
    BY <1>1, <2>1 DEF CountsInv
  <2>3. fatal.pc = "no" => hist'.total = stats'.numAssertsFailed + hist'.failing
    BY <1>1, <1>2, <1>4, <1>8, <2>2
  <2> QED
    BY <1>1, <2>1, <2>3 DEF TestTotal
<1> QED
  BY <1>9, <1>10 DEF CountsInv, TestTotal

(* Every thread that is created has its own assertion to count.            *)
LEMMA CountsCreate ==
    ASSUME TypeOK, PointsInv, CountsInv, fatal.by # Main, ~Ended, CreateThreads
    PROVE  CountsInv'
<1>1. fatal.pc = "no" /\ \A w \in Workers : ~Working(w)
  BY Solo DEF SoloStep
<1>2. /\ phase = "body" /\ asserting[Main] = Idle /\ Statement.op = "create" /\ ip <= Len(Test.body)
      /\ UNCHANGED <<cur, stats, phase, fatal>>
  BY DEF CreateThreads, AtStatement, contextVars
<1>3. \A t \in Threads : asserting[t] = Idle
  BY <1>1, <1>2 DEF Threads, Working
<1>4. Uncounted = {} /\ HalfCounted = {} /\ Cardinality(Uncounted) = 0 /\ Cardinality(HalfCounted) = 0
  BY <1>3, NobodyCounts
<1> DEFINE F == {w \in Workers : Failed("normal", Statement.results[w])}
<1>5. /\ Main \notin Workers /\ Main \in Threads /\ Threads = Workers \cup {Main}
      /\ asserting'[Main] = Idle
      /\ \A w \in Workers : asserting'[w] = Begun("check", "normal", Statement.results[w])
  BY DoctestAssumption DEF CreateThreads, Threads
<1>6. \A w \in Workers : /\ ToCount(asserting'[w]) <=> w \in F
                         /\ ~Half(asserting'[w])
  <2> TAKE w \in Workers
  <2>1. /\ asserting'[w].pc = "count" /\ asserting'[w].at = "check"
        /\ asserting'[w].failed = Failed("normal", Statement.results[w])
    <3> DEFINE b == Begun("check", "normal", Statement.results[w])
    <3>1. b.pc = "count" /\ b.at = "check" /\ b.failed = Failed("normal", Statement.results[w])
      BY DEF Begun
    <3>2. asserting'[w] = b
      BY <1>5
    <3> HIDE DEF b
    <3> QED
      BY <3>1, <3>2
  <2> QED
    BY <2>1 DEF ToCount, Half, Failing
<1>7. ~ToCount(asserting'[Main]) /\ ~Half(asserting'[Main])
  BY <1>5 DEF ToCount, Half, Idle
<1>8. Uncounted' = F /\ HalfCounted' = {}
  <2>1. /\ Uncounted' = {u \in Threads : ToCount(asserting'[u])}
        /\ HalfCounted' = {u \in Threads : Half(asserting'[u])}
    BY DEF Uncounted, HalfCounted, ToCount, Half, IsMessage
  <2> QED
    BY <1>5, <1>6, <1>7, <2>1
<1>9. F \subseteq Workers
  OBVIOUS
<1>10. hist' = [hist EXCEPT !.failing = @ + Cardinality(F), !.total = @ + Cardinality(F)]
  BY DEF CreateThreads
<1> HIDE DEF F
<1>11. Cardinality(F) \in Nat /\ Cardinality(HalfCounted') = 0
  BY <1>8, <1>9, DoctestAssumption, FS_Subset, FS_CardinalityType, FS_EmptySet
<1>12. hist'.failing = hist.failing + Cardinality(F) /\ hist'.total = hist.total + Cardinality(F)
  BY <1>10 DEF TypeOK
<1>13. cur.failed \in Nat
      /\ cur.asserts \in Nat /\ hist.failing \in Nat /\ hist.total \in Nat /\ stats.numAssertsFailed \in Nat
  BY DEF TypeOK
<1>14. InTest /\ InTest'
  BY <1>2 DEF InTest, InBody
<1>15. hist.failing = cur.failed /\ hist.total = stats.numAssertsFailed + hist.failing /\ cur.failed <= cur.asserts
  BY <1>1, <1>2, <1>4, <1>13, <1>14 DEF CountsInv
<1>16. /\ cur'.failed + Cardinality(HalfCounted') <= cur'.asserts
       /\ hist'.failing = cur'.failed + Cardinality(Uncounted')
       /\ hist'.total = stats'.numAssertsFailed + hist'.failing
  BY <1>2, <1>8, <1>11, <1>12, <1>13, <1>15
<1> QED
  BY <1>2, <1>14, <1>16 DEF CountsInv

(* The other steps of main.                                                *)
LEMMA CountsRun ==
    ASSUME TypeOK, PointsInv, CountsInv, fatal.by # Main, ~Ended, RunStep
    PROVE  CountsInv'
<1>1. fatal.pc = "no" /\ \A w \in Workers : ~Working(w)
  BY Solo DEF SoloStep
<1>2. asserting' = asserting /\ fatal' = fatal
  BY DEF RunStep, UseReporters, RunNothing, CollectTests, SkipTest, ListTest, StartTest, StartPass,
         BodyReturns, Catch, AfterPass, EndTest, LeaveTest, EndRun, Cleanup, reportVars
<1>3. Uncounted' = Uncounted /\ HalfCounted' = HalfCounted
  BY <1>2, NobodyMoves
<1>4. cur.failed \in Nat
      /\ cur.asserts \in Nat /\ hist.failing \in Nat /\ hist.total \in Nat /\ stats.numAssertsFailed \in Nat
  BY DEF TypeOK
<1>5. CASE ~StartTest /\ ~EndTest
  <2>1. cur'.failed = cur.failed /\ cur'.asserts = cur.asserts /\ hist' = hist
        /\ stats'.numAssertsFailed = stats.numAssertsFailed
    BY <1>5 DEF RunStep, UseReporters, RunNothing, CollectTests, SkipTest, ListTest, StartPass,
           BodyReturns, Catch, AfterPass, LeaveTest, EndRun, Cleanup, contextVars, TypeOK
  <2>2. (InTest /\ phase # "end") <=> (InTest' /\ phase' # "end")
    BY <1>5 DEF RunStep, UseReporters, RunNothing, CollectTests, SkipTest, ListTest, AtTest, StartPass,
           BodyReturns, AtEnd, Catch, AfterPass, LeaveTest, EndRun, Cleanup, InTest, InBody
  <2>3. TestTotal'
    BY <1>2, <2>1, <2>2 DEF CountsInv, TestTotal
  <2> QED
    BY <1>3, <2>1, <2>3, CountsFrame
<1>6. CASE StartTest \/ EndTest
  <2>1. ~Working(Main)
    BY <1>6 DEF StartTest, EndTest, AtTest, PointsInv
  <2>2. \A t \in Threads : asserting[t] = Idle
    BY <1>1, <2>1 DEF Threads, Working
  <2>3. Cardinality(Uncounted) = 0 /\ Cardinality(HalfCounted) = 0
    BY <2>2, NobodyCounts
  <2>4. CASE StartTest
    <3>1. cur'.failed = 0 /\ cur'.asserts = 0 /\ hist'.failing = 0 /\ hist'.total = hist.total
          /\ stats'.numAssertsFailed = stats.numAssertsFailed /\ phase = "next" /\ phase' = "pass"
      BY <2>4 DEF StartTest, AtTest, NoTestYet, TypeOK
    <3>2. InTest' /\ ~InTest
      BY <3>1 DEF InTest, InBody
    <3>3. hist.total = stats.numAssertsFailed
      BY <1>1, <1>4, <3>2 DEF CountsInv
    <3>4. TestTotal'
      BY <1>4, <3>1, <3>2, <3>3 DEF TestTotal
    <3> QED
      BY <1>3, <2>3, <3>1, <3>4 DEF CountsInv, TestTotal
  <2>5. CASE EndTest
    <3>1. PICK late \in MayBeLate(Test) : finalizeTestCaseData(late)
      BY <2>5 DEF EndTest
    <3>2. /\ cur'.asserts = cur.asserts /\ cur'.failed = cur.failed
          /\ hist'.failing = hist.failing /\ hist'.total = hist.total
          /\ stats'.numAssertsFailed = stats.numAssertsFailed + cur.failed
      BY <3>1, FinalTypes
    <3>3. phase = "finalize" /\ phase' = "end"
      BY <2>5 DEF EndTest
    <3>4. InTest
      BY <3>3 DEF InTest
    <3>5. hist.total = stats.numAssertsFailed + hist.failing /\ hist.failing = cur.failed
      BY <1>1, <1>4, <2>3, <3>3, <3>4 DEF CountsInv
    <3>6. TestTotal'
      BY <1>4, <3>2, <3>3, <3>5 DEF TestTotal
    <3> QED
      BY <1>3, <3>2, <3>6, CountsFrame
  <2> QED
    BY <1>6, <2>4, <2>5
<1> QED
  BY <1>5, <1>6

(* The other steps count nothing.                                          *)
LEMMA CountsOther ==
    ASSUME TypeOK, PointsInv, CountsInv, ~Ended,
           \/ fatal.by # Main /\ (MoveStep \/ SkipAssertion \/ throwException \/ JoinThreads)
           \/ Interrupt \/ FatalStep \/ \E w \in Workers : Terminate(w)
    PROVE  CountsInv'
<1>1. CASE fatal.by # Main /\ (MoveStep \/ SkipAssertion \/ throwException \/ JoinThreads)
  <2>1. /\ UNCHANGED <<cur, stats, fatal>> /\ hist'.failing = hist.failing /\ hist'.total = hist.total
    BY <1>1 DEF MoveStep, SkipSubcase, EnterSubcase, EnteredSubcase, LeaveSubcase, AnnounceException,
                LeftSubcase, LockReporters, BeginContext, DestroyContext, Throw, SkipAssertion,
                throwException, JoinThreads, contextVars, TypeOK
  <2>2. phase # "end" /\ phase' # "end"
    BY <1>1, SMTT(30) DEF MoveStep, SkipSubcase, EnterSubcase, EnteredSubcase, LeaveSubcase,
                          AnnounceException, LeftSubcase, LockReporters, BeginContext, DestroyContext,
                          Throw, SkipAssertion, throwException, JoinThreads, Leaving, AtEnd, AtStatement,
                          PointsInv, Working, Ended, Idle, runVars
  <2>3. InTest /\ InTest'
    <3>1. CASE throwException
      <4>1. phase = "body" /\ phase' = "unwind"
        BY <3>1 DEF throwException, PointsInv, Working, Ended, Idle
      <4> QED
        BY <4>1 DEF InTest, InBody
    <3>2. CASE MoveStep \/ SkipAssertion \/ JoinThreads
      BY <3>2 DEF MoveStep, SkipSubcase, EnterSubcase, EnteredSubcase, LeaveSubcase, AnnounceException,
                  LeftSubcase, LockReporters, BeginContext, DestroyContext, Throw, SkipAssertion,
                  JoinThreads, Leaving, AtEnd, AtStatement, runVars, InTest, InBody
    <3> QED
      BY <1>1, <3>1, <3>2
  <2>4. TestTotal'
    BY <2>1, <2>2, <2>3 DEF CountsInv, TestTotal
  <2>5. \A t \in Threads : ToCount(asserting'[t]) = ToCount(asserting[t]) /\ Half(asserting'[t]) = Half(asserting[t])
    <3>1. CASE throwException
      <4>1. asserting' = [asserting EXCEPT ![Main] = Idle] /\ asserting[Main].pc = "react"
        BY <3>1 DEF throwException
      <4>2. ~ToCount(asserting[Main]) /\ ~Half(asserting[Main]) /\ ~ToCount(Idle) /\ ~Half(Idle)
        BY <4>1 DEF ToCount, Half, Idle
      <4>3. asserting'[Main] = Idle /\ \A t \in Threads : t # Main => asserting'[t] = asserting[t]
        BY <4>1 DEF TypeOK, Threads
      <4>4. ToCount(asserting'[Main]) = ToCount(asserting[Main]) /\ Half(asserting'[Main]) = Half(asserting[Main])
        BY <4>2, <4>3 DEF ToCount, Half
      <4> QED
        BY <4>3, <4>4
    <3>2. CASE MoveStep \/ SkipAssertion \/ JoinThreads
      <4>1. asserting' = asserting
        BY <3>2 DEF MoveStep, SkipSubcase, EnterSubcase, EnteredSubcase, LeaveSubcase, AnnounceException,
                    LeftSubcase, LockReporters, BeginContext, DestroyContext, Throw, SkipAssertion,
                    JoinThreads
      <4> QED
        BY <4>1
    <3> QED
      BY <1>1, <3>1, <3>2
  <2>6. Uncounted' = Uncounted /\ HalfCounted' = HalfCounted
    BY <2>5, NobodyMoves
  <2> QED
    BY <2>1, <2>4, <2>6, CountsFrame
<1>2. CASE Interrupt
  <2>1. UNCHANGED <<asserting, hist>> /\ phase' = phase /\ isSet
    BY <1>2, InterruptPoints DEF Interrupt
  <2>2. cur'.failed = cur.failed /\ cur'.asserts = cur.asserts /\ fatal'.pc # "no"
    BY <1>2, <2>1 DEF Interrupt, HandleSignal, TypeOK
  <2>3. Uncounted' = Uncounted /\ HalfCounted' = HalfCounted
    BY <2>1, NobodyMoves
  <2> QED
    BY <2>1, <2>2, <2>3, CountsFrame DEF TestTotal
<1>3. ASSUME NEW w \in Workers, Terminate(w)
      PROVE  CountsInv'
  <2>1. hist' = hist /\ asserting[w].pc = "react" /\ asserting' = [asserting EXCEPT ![w].pc = "aborted"]
    BY <1>3 DEF Terminate
  <2>2. cur'.failed = cur.failed /\ cur'.asserts = cur.asserts
    BY <1>3 DEF Terminate, HandleSignal, TypeOK
  <2>3. fatal'.pc # "no"
    <3>1. (fatal.pc = "no" /\ isSet) \/ (fatal.pc # "no" /\ fatal' = fatal)
      BY <1>3, TerminatePoints
    <3>2. isSet => fatal'.pc # "no"
      <4>1. HandleSignal(w)
        BY <1>3 DEF Terminate
      <4>2. isSet => fatal' = [pc |-> "exception", by |-> w, calm |-> Calm(w)]
        BY <4>1 DEF HandleSignal
      <4> QED
        BY <4>2
    <3> QED
      BY <3>1, <3>2
  <2>4. w \in Threads /\ Working(w)
    BY <2>1 DEF Threads, Working, Idle
  <2>5. asserting[w] \in Assertions
    BY <2>4, WorkingMakes
  <2>6. asserting'[w].pc = "aborted" /\ \A u \in Threads : u # w => asserting'[u] = asserting[u]
    BY <2>1, <2>4, <2>5 DEF TypeOK, Assertions
  <2>7. \A t \in Threads : ToCount(asserting'[t]) = ToCount(asserting[t]) /\ Half(asserting'[t]) = Half(asserting[t])
    BY <2>1, <2>6 DEF ToCount, Half
  <2>8. Uncounted' = Uncounted /\ HalfCounted' = HalfCounted
    BY <2>7, NobodyMoves
  <2> QED
    BY <2>1, <2>2, <2>3, <2>8, CountsFrame DEF TestTotal
<1>4. CASE FatalStep
  <2>1. /\ asserting' = asserting /\ fatal.pc # "no" /\ PointsInv'
        /\ cur'.failed = cur.failed /\ cur'.asserts = cur.asserts
        /\ hist'.failing = hist.failing /\ hist'.total = hist.total
        /\ fatal'.by = fatal.by
    BY <1>4, FatalPoints
  <2>2. fatal'.pc # "no"
    BY <2>1 DEF PointsInv
  <2>3. Uncounted' = Uncounted /\ HalfCounted' = HalfCounted
    BY <2>1, NobodyMoves
  <2> QED
    BY <2>1, <2>2, <2>3, CountsFrame DEF TestTotal
<1> QED
  BY <1>1, <1>2, <1>3, <1>4

(* The atomic counters never lag behind by more than what is under way.    *)
LEMMA CountsSteps ==
    ASSUME TypeOK, PointsInv, CountsInv, [Next]_vars
    PROVE  CountsInv'
<1>1. CASE UNCHANGED vars
  <2>1. UNCHANGED <<asserting, cur, hist, stats, fatal, phase>>
    BY <1>1 DEF vars, contextVars, runVars
  <2>2. Uncounted' = Uncounted /\ HalfCounted' = HalfCounted
    BY <2>1, NobodyMoves
  <2>3. TestTotal'
    <3>1. InTest' <=> InTest
      BY <2>1 DEF InTest, InBody
    <3> QED
      BY <2>1, <3>1 DEF CountsInv, TestTotal
  <2> QED
    BY <2>1, <2>2, <2>3, CountsFrame
<1>2. CASE MainStep
  <2>1. ~Ended /\ fatal.by # Main /\ (RunStep \/ BodyStep)
    BY <1>2 DEF MainStep
  <2>2. CASE RunStep
    BY <2>1, <2>2, CountsRun
  <2>3. CASE MoveStep \/ SkipAssertion \/ throwException \/ JoinThreads
    BY <2>1, <2>3, CountsOther
  <2>4. CASE MakeAssertion
    BY <2>4, CountsMake
  <2>5. CASE AssertStep(Main)
    BY <2>5, CountsAssert DEF Threads
  <2>6. CASE CreateThreads
    BY <2>1, <2>6, CountsCreate
  <2> QED
    BY <2>1, <2>2, <2>3, <2>4, <2>5, <2>6 DEF BodyStep, MoveStep
<1>3. ASSUME NEW w \in Workers, WorkerStep(w) PROVE CountsInv'
  <2>1. CASE AssertStep(w)
    BY <2>1, CountsAssert DEF Threads
  <2>2. CASE Terminate(w)
    BY <1>3, <2>2, CountsOther DEF WorkerStep
  <2> QED
    BY <1>3, <2>1, <2>2 DEF WorkerStep
<1>4. CASE HandlerStep \/ (~Ended /\ Interrupt)
  BY <1>4, CountsOther DEF HandlerStep
<1> QED
  BY <1>1, <1>2, <1>3, <1>4 DEF Next

-----------------------------------------------------------------------------
(* abort-after.                                                            *)

(* No test function creates threads or sends messages.                     *)
AloneAll == \A t \in ToSet(testArray) : Alone(t.body)

NotYetEnough ==
    (fatal.pc = "no" /\ phase \notin {"end", "last", "cleanup", "EXIT_SUCCESS", "EXIT_FAILURE"}) =>
        ~EnoughFailed(stats.numAssertsFailed)

LastFailure ==
    (fatal.pc = "no" /\ InBody /\ exception = "none") =>
        \/ ~EnoughNow
        \/ asserting[Main].pc = "react" /\ Failing(asserting[Main].at, asserting[Main].failed) = 1

NoMessage == Working(Main) => asserting[Main].kind # "message"

(* PromptInv by its parts.                                                 *)
LEMMA PromptParts ==
    PromptInv <=> /\ NotYetEnough
                  /\ phase = "pass" => ~EnoughNow
                  /\ (p.abort_after > 0 /\ AloneAll) => hist.total <= p.abort_after /\ NoMessage /\ LastFailure
BY DEF PromptInv, NotYetEnough, AloneAll, NoMessage, LastFailure

(* A program without threads runs in main alone.                           *)
LEMMA Loner ==
    ASSUME TypeOK, PointsInv, AloneAll, phase # "killed"
    PROVE  (\A w \in Workers : ~Working(w)) /\ fatal.by \notin Workers
<1>1. ASSUME NEW w \in Workers PROVE ~Working(w)
  <2>1. SUFFICES ASSUME Working(w) PROVE FALSE
    OBVIOUS
  <2>2. Confined
    BY <2>1 DEF PointsInv
  <2>3. phase = "body" /\ InSpan
    BY <2>2 DEF Confined
  <2>4. i <= Len(testArray) /\ i \in 1..Len(testArray) /\ Len(testArray) \in Nat
    BY <2>3, LenProperties DEF PointsInv, InTest, InBody, TypeOK
  <2>5. Test \in ToSet(testArray)
    BY <2>4, LenProperties DEF ToSet, Test, TypeOK
  <2>6. /\ Len(Test.body) \in Nat /\ DOMAIN Test.body = 1..Len(Test.body) /\ ip \in 1..Len(Test.body) + 1
    BY <2>3, StatementHere DEF InBody
  <2>7. PICK k \in 1..ip - 1 : Test.body[k].op = "create"
    BY <2>3 DEF InSpan
  <2>8. k \in DOMAIN Test.body
    BY <2>6, <2>7
  <2> QED
    BY <2>5, <2>7, <2>8 DEF AloneAll, Alone
<1>2. fatal.by \in Workers => Working(fatal.by)
  <2>1. ASSUME fatal.by \in Workers PROVE Working(fatal.by)
    <3>1. fatal.by \in Threads /\ asserting[fatal.by].pc = "aborted"
      BY <2>1 DEF PointsInv, Threads
    <3> QED
      BY <3>1, WorkingMakes
  <2> QED
    BY <2>1
<1> QED
  BY <1>1, <1>2

(* The counters that abort-after is compared with are numbers.             *)
LEMMA PromptNumbers ==
    ASSUME TypeOK
    PROVE  /\ cur.failed \in Nat /\ hist.failing \in Nat /\ hist.total \in Nat /\ stats.numAssertsFailed \in Nat
BY DEF TypeOK

(* run looks at abort-after at the end of each test case and after each    *)
(* pass.                                                                   *)
LEMMA PromptRun ==
    ASSUME TypeOK, SkipInv, PointsInv, CountsInv, PromptInv, fatal.by # Main, ~Ended, RunStep
    PROVE  PromptInv'
<1>1. fatal.pc = "no" /\ TypeOK' /\ PointsInv'
  BY Solo, RunPoints DEF SoloStep
<1>2. asserting' = asserting /\ fatal' = fatal /\ p' = p /\ hist'.total = hist.total
  <2>1. CASE EndTest
    <3>1. PICK late \in MayBeLate(Test) : finalizeTestCaseData(late)
      BY <2>1 DEF EndTest
    <3> QED
      BY <2>1, <3>1, FinalTypes DEF EndTest
  <2>2. CASE ~EndTest
    BY <2>2 DEF RunStep, UseReporters, RunNothing, CollectTests, SkipTest, ListTest, StartTest, StartPass,
         BodyReturns, Catch, AfterPass, LeaveTest, EndRun, Cleanup, reportVars, contextVars, TypeOK
  <2> QED
    BY <2>1, <2>2 DEF EndTest, reportVars
<1>3. NotYetEnough'
  <2>1. CASE LeaveTest
    BY <2>1, <1>2 DEF LeaveTest, NotYetEnough, EnoughFailed
  <2>2. CASE EndTest
    BY <2>2 DEF EndTest, NotYetEnough
  <2>3. CASE ~LeaveTest /\ ~EndTest
    <3>1. stats'.numAssertsFailed = stats.numAssertsFailed
      BY <2>3 DEF RunStep, UseReporters, RunNothing, CollectTests, SkipTest, ListTest, StartTest, StartPass,
         BodyReturns, Catch, AfterPass, EndRun, Cleanup, contextVars, TypeOK
    <3>2. \/ phase' \in {"end", "last", "cleanup", "EXIT_SUCCESS", "EXIT_FAILURE"}
          \/ phase \notin {"end", "last", "cleanup", "EXIT_SUCCESS", "EXIT_FAILURE"}
      BY <2>3 DEF RunStep, UseReporters, RunNothing, CollectTests, SkipTest, ListTest, AtTest, StartTest,
                  StartPass, BodyReturns, AtEnd, Catch, AfterPass, EndRun, Cleanup
    <3> QED
      BY <1>1, <1>2, <3>1, <3>2, PromptParts DEF NotYetEnough, EnoughFailed
  <2> QED
    BY <2>1, <2>2, <2>3
<1>4. phase' = "pass" => ~EnoughNow'
  <2>1. CASE StartTest
    <3>1. cur'.failed = 0 /\ stats'.numAssertsFailed = stats.numAssertsFailed /\ phase = "next"
      BY <2>1 DEF StartTest, AtTest, NoTestYet, TypeOK
    <3>2. ~EnoughFailed(stats.numAssertsFailed)
      BY <1>1, <3>1, PromptParts DEF NotYetEnough
    <3>3. stats'.numAssertsFailed + cur'.failed = stats.numAssertsFailed
      BY <3>1, PromptNumbers
    <3> QED
      BY <1>2, <3>2, <3>3 DEF EnoughNow, EnoughFailed
  <2>2. CASE AfterPass
    <3>1. cur'.failed = cur.failed /\ stats' = stats /\ (phase' = "pass" => ~EnoughNow)
      BY <2>2 DEF AfterPass, EnoughNow, TypeOK
    <3> QED
      BY <1>2, <3>1 DEF EnoughNow, EnoughFailed
  <2>3. CASE ~StartTest /\ ~AfterPass
    BY <2>3, <1>1 DEF RunStep, UseReporters, RunNothing, CollectTests, SkipTest, ListTest, AtTest, StartPass,
         BodyReturns, Catch, EndTest, LeaveTest, EndRun, Cleanup
  <2> QED
    BY <2>1, <2>2, <2>3
<1>5. ASSUME p'.abort_after > 0, AloneAll' PROVE hist'.total <= p'.abort_after /\ NoMessage' /\ LastFailure'
  <2>1. CASE CollectTests
    <3>1. phase = "start" /\ phase' = "next"
      BY <2>1 DEF CollectTests
    <3>2. hist.total = stats.numAssertsFailed
      BY <1>1, <3>1, PromptNumbers DEF CountsInv, InTest, InBody
    <3>3. ~EnoughFailed(stats.numAssertsFailed)
      BY <1>1, <3>1, PromptParts DEF NotYetEnough
    <3>4. p.abort_after \in Int
      BY DEF SkipInv, SubcaseFields
    <3>5. hist'.total <= p'.abort_after
      BY <1>2, <1>5, <3>2, <3>3, <3>4, PromptNumbers DEF EnoughFailed
    <3>6. ~Working(Main) /\ ~Working(Main)'
      BY <1>2, <3>1 DEF PointsInv, Working
    <3> QED
      BY <3>1, <3>5, <3>6 DEF NoMessage, LastFailure, InBody
  <2>2. CASE ~CollectTests
    <3>1. AloneAll
      BY <1>5, <2>2 DEF AloneAll, RunStep, UseReporters, RunNothing, SkipTest, ListTest, StartTest, StartPass,
         BodyReturns, Catch, AfterPass, EndTest, LeaveTest, EndRun, Cleanup
    <3>2. hist.total <= p.abort_after /\ NoMessage /\ LastFailure
      BY <1>2, <1>5, <3>1, PromptParts
    <3>3. hist'.total <= p'.abort_after /\ NoMessage'
      BY <1>2, <3>2 DEF NoMessage, Working
    <3>4. LastFailure'
      <4>1. CASE StartPass
        <5>1. ~EnoughNow /\ stats' = stats /\ cur' = cur
          BY <4>1, PromptParts DEF StartPass
        <5> QED
          BY <1>2, <5>1 DEF LastFailure, EnoughNow, EnoughFailed
      <4>2. CASE ~StartPass
        <5>1. ~InBody'
          BY <2>2, <4>2 DEF RunStep, UseReporters, RunNothing, SkipTest, ListTest, AtTest, StartTest,
             BodyReturns, Catch, AfterPass, EndTest, LeaveTest, EndRun, Cleanup, InBody
        <5> QED
          BY <5>1 DEF LastFailure
      <4> QED
        BY <4>1, <4>2
    <3> QED
      BY <3>3, <3>4
  <2> QED
    BY <2>1, <2>2
<1> QED
  BY <1>3, <1>4, <1>5 DEF PromptInv, NotYetEnough, AloneAll, NoMessage, LastFailure

(* The steps of main within a test function that begin no assertion.       *)
LEMMA PromptMove ==
    ASSUME TypeOK, PointsInv, PromptInv, fatal.by # Main, ~Ended,
           MoveStep \/ SkipAssertion \/ throwException \/ JoinThreads
    PROVE  PromptInv'
<1>1. UNCHANGED <<cur, stats, fatal, p, testArray>> /\ hist'.total = hist.total
  BY DEF MoveStep, SkipSubcase, EnterSubcase, EnteredSubcase, LeaveSubcase, AnnounceException, LeftSubcase,
         LockReporters, BeginContext, DestroyContext, Throw, SkipAssertion, throwException, JoinThreads,
         contextVars, runVars, TypeOK
<1>2. /\ phase \in {"body", "entering", "leaving", "unwind"}
      /\ phase' \in {"body", "entering", "leaving", "unwind"}
      /\ exception' = "none" => exception = "none"
      /\ asserting'[Main] = asserting[Main] \/ asserting'[Main] = Idle
      /\ exception' = "none" => asserting'[Main] = Idle /\ asserting[Main].pc = "idle"
  <2>1. CASE throwException
    <3>1. phase = "body"
      BY <2>1 DEF throwException, PointsInv, Working, Ended, Idle
    <3> QED
      BY <2>1, <3>1 DEF throwException, TypeOK, Threads
  <2>2. CASE MoveStep \/ SkipAssertion \/ JoinThreads
    <3>1. asserting' = asserting /\ phase \in {"body", "entering", "leaving", "unwind"}
          /\ (exception' = "none" => exception = "none")
      BY <2>2 DEF MoveStep, SkipSubcase, EnterSubcase, EnteredSubcase, LeaveSubcase, AnnounceException,
                  LeftSubcase, LockReporters, Leaving, AtEnd, AtStatement, BeginContext, DestroyContext,
                  Throw, SkipAssertion, JoinThreads, runVars
    <3>2. phase' \in {"body", "entering", "leaving", "unwind"}
      BY <2>2, <3>1 DEF MoveStep, SkipSubcase, EnterSubcase, EnteredSubcase, LeaveSubcase,
                        AnnounceException, LeftSubcase, LockReporters, BeginContext, DestroyContext, Throw,
                        SkipAssertion, JoinThreads, runVars
    <3>3. asserting[Main] = Idle
      <4>1. phase = "body" => AtEnd \/ asserting[Main] = Idle
        BY <2>2 DEF MoveStep, SkipSubcase, EnterSubcase, EnteredSubcase, LeaveSubcase, AnnounceException,
                    LeftSubcase, LockReporters, Leaving, AtStatement, BeginContext, DestroyContext, Throw,
                    SkipAssertion, JoinThreads
      <4> QED
        BY <3>1, <4>1 DEF AtEnd, PointsInv, Working
    <3> QED
      BY <3>1, <3>2, <3>3 DEF Idle
  <2> QED
    BY <2>1, <2>2
<1>3. NotYetEnough'
  BY <1>1, <1>2, PromptParts DEF NotYetEnough, EnoughFailed
<1>4. ASSUME p'.abort_after > 0, AloneAll' PROVE hist'.total <= p'.abort_after /\ NoMessage' /\ LastFailure'
  <2>1. AloneAll
    BY <1>1, <1>4 DEF AloneAll
  <2>2. hist.total <= p.abort_after /\ NoMessage /\ LastFailure
    BY <1>1, <1>4, <2>1, PromptParts
  <2>3. NoMessage'
    BY <1>2, <2>2 DEF NoMessage, Working
  <2>4. LastFailure'
    BY <1>1, <1>2, <2>2 DEF LastFailure, EnoughNow, EnoughFailed, InBody
  <2> QED
    BY <1>1, <2>2, <2>3, <2>4
<1> QED
  BY <1>2, <1>3, <1>4 DEF PromptInv, NotYetEnough, AloneAll, NoMessage, LastFailure

(* An assertion begins only while it is not yet enough.                    *)
LEMMA PromptMake ==
    ASSUME TypeOK, SkipInv, PointsInv, CountsInv, PromptInv, fatal.by # Main, ~Ended, MakeAssertion
    PROVE  PromptInv'
<1> DEFINE b == Begun(Statement.at, Statement.kind, Statement.result)
           f == Failing(Statement.at, Failed(Statement.kind, Statement.result))
<1>1. /\ asserting' = [asserting EXCEPT ![Main] = b] /\ asserting[Main] = Idle /\ Main \in Threads
      /\ phase = "body" /\ UNCHANGED <<cur, stats, phase, p, testArray, exception>> /\ fatal'.pc = fatal.pc
      /\ Statement.op = "assert" /\ ip <= Len(Test.body)
  BY DEF MakeAssertion, AtStatement, contextVars, TypeOK, Threads
<1>2. hist'.total = hist.total + f /\ f \in {0, 1}
  BY DEF MakeAssertion, TypeOK, Failing
<1>3. asserting'[Main] = b /\ b.kind = Statement.kind
  BY <1>1 DEF TypeOK, Begun
<1> HIDE DEF b, f
<1>4. NotYetEnough'
  BY <1>1, PromptParts DEF NotYetEnough, EnoughFailed
<1>5. ASSUME p'.abort_after > 0, AloneAll' PROVE hist'.total <= p'.abort_after /\ NoMessage' /\ LastFailure'
  <2>1. AloneAll /\ p.abort_after > 0 /\ p.abort_after \in Int
    BY <1>1, <1>5 DEF AloneAll, SkipInv, SubcaseFields
  <2>2. (\A w \in Workers : ~Working(w)) /\ fatal.by \notin Workers
    BY <1>1, <2>1, Loner
  <2>3. fatal.pc = "no"
    BY <2>2 DEF TypeOK, PointsInv, Threads
  <2>4. \A t \in Threads : asserting[t] = Idle
    BY <1>1, <2>2 DEF Threads, Working
  <2>5. Cardinality(Uncounted) = 0
    BY <2>4, NobodyCounts
  <2>6. hist.total = stats.numAssertsFailed + cur.failed
    BY <1>1, <2>3, <2>5, PromptNumbers DEF CountsInv, InTest, InBody
  <2>7. exception = "none"
    BY <1>1 DEF PointsInv
  <2>8. LastFailure
    BY <2>1, PromptParts
  <2>9. ~EnoughNow
    BY <1>1, <2>3, <2>7, <2>8 DEF LastFailure, InBody, Idle
  <2>10. hist.total < p.abort_after
    BY <2>1, <2>6, <2>9, PromptNumbers DEF EnoughNow, EnoughFailed
  <2>11. hist'.total <= p'.abort_after
    BY <1>1, <1>2, <2>1, <2>10, PromptNumbers
  <2>12. Statement.kind # "message"
    <3>1. ip \in DOMAIN Test.body /\ i <= Len(testArray)
      BY <1>1, StatementHere DEF InBody, PointsInv, InTest
    <3>2. i \in 1..Len(testArray) /\ Len(testArray) \in Nat
      BY <3>1, LenProperties DEF TypeOK
    <3>3. Test \in ToSet(testArray)
      BY <3>2, LenProperties DEF ToSet, Test, TypeOK
    <3> QED
      BY <1>1, <2>1, <3>1, <3>3 DEF AloneAll, Alone, Statement
  <2>13. NoMessage'
    BY <1>3, <2>12 DEF NoMessage
  <2>14. LastFailure'
    BY <1>1, <2>9 DEF LastFailure, EnoughNow, EnoughFailed
  <2> QED
    BY <2>11, <2>13, <2>14
<1> QED
  BY <1>1, <1>4, <1>5 DEF PromptInv, NotYetEnough, AloneAll, NoMessage, LastFailure

(* A step of an assertion counts at most one failure, and then it throws.  *)
LEMMA PromptAssert ==
    ASSUME TypeOK, PointsInv, PromptInv, ~Ended, NEW t \in Threads, AssertStep(t)
    PROVE  PromptInv'
<1>1. Working(t) /\ asserting[t] \in Assertions
  BY WorkingMakes DEF AssertStep, AddAssert, LogSkipped, Log, Logged, AddFailedAssert, AssertReturns,
                      Working, Idle
<1>2. UNCHANGED <<stats, fatal, p, testArray, hist, phase, exception>>
  BY DEF AssertStep, AddAssert, LogSkipped, Log, Logged, AddFailedAssert, AssertReturns, contextVars, runVars
<1>3. NotYetEnough'
  BY <1>2, PromptParts DEF NotYetEnough, EnoughFailed
<1>4. phase \in {"body"}
  BY <1>1 DEF Threads, PointsInv, Ended, Confined
<1>5. ASSUME p'.abort_after > 0, AloneAll' PROVE hist'.total <= p'.abort_after /\ NoMessage' /\ LastFailure'
  <2>1. AloneAll
    BY <1>2, <1>5 DEF AloneAll
  <2>2. hist.total <= p.abort_after /\ NoMessage /\ LastFailure
    BY <1>2, <1>5, <2>1, PromptParts
  <2>3. t = Main
    BY <1>1, <1>4, <2>1, Loner DEF Threads
  <2>4. asserting[Main].kind # "message"
    BY <1>1, <2>2, <2>3 DEF NoMessage
  <2>5. CASE AssertReturns(Main)
    <3>1. asserting'[Main] = Idle /\ cur' = cur /\ asserting[Main].pc = "react" /\ ~Throws(Main)
      BY <2>3, <2>5 DEF AssertReturns, contextVars, TypeOK
    <3>2. EnoughNow => ~(Failing(asserting[Main].at, asserting[Main].failed) = 1)
      BY <1>1, <2>3, <2>4, <3>1 DEF Throws, IsMessage, checkIfShouldThrow, EnoughNow, Failing, Assertions,
                                    Severities
    <3>3. LastFailure'
      BY <1>2, <2>2, <3>1, <3>2 DEF LastFailure, InBody, EnoughNow, EnoughFailed
    <3> QED
      BY <1>2, <2>2, <3>1, <3>3 DEF NoMessage, Working
  <2>6. CASE ~AssertReturns(Main)
    <3>1. PICK pc \in {"log", "logging", "failed", "react"} : asserting' = [asserting EXCEPT ![Main].pc = pc]
      BY <2>3, <2>6 DEF AssertStep, AddAssert, LogSkipped, Log, Logged, AddFailedAssert
    <3>2. /\ asserting'[Main].kind = asserting[Main].kind /\ asserting'[Main].at = asserting[Main].at
          /\ asserting'[Main].failed = asserting[Main].failed /\ asserting'[Main].pc = pc
      BY <1>1, <2>3, <3>1 DEF TypeOK, Assertions
    <3>3. asserting[Main].pc # "react"
      BY <2>3, <2>6 DEF AssertStep, AddAssert, LogSkipped, Log, Logged, AddFailedAssert
    <3>4. \/ cur'.failed = cur.failed
          \/ pc = "react" /\ Failing(asserting[Main].at, asserting[Main].failed) = 1
      <4>1. CASE AddFailedAssert(Main)
        <5>1. cur'.failed = cur.failed + Failing(asserting[Main].at, asserting[Main].failed)
          BY <4>1 DEF AddFailedAssert, TypeOK
        <5>2. asserting'[Main].pc = "react"
          BY <1>1, <2>3, <4>1 DEF AddFailedAssert, TypeOK, Assertions
        <5> QED
          BY <3>2, <5>1, <5>2, PromptNumbers DEF Failing
      <4>2. CASE ~AddFailedAssert(Main)
        BY <2>3, <2>6, <4>2 DEF AssertStep, AddAssert, LogSkipped, Log, Logged, contextVars, TypeOK
      <4> QED
        BY <4>1, <4>2
    <3>5. LastFailure'
      BY <1>2, <2>2, <3>2, <3>3, <3>4 DEF LastFailure, InBody, EnoughNow, EnoughFailed
    <3> QED
      BY <1>2, <2>2, <2>4, <3>2, <3>5 DEF NoMessage
  <2> QED
    BY <2>3, <2>5, <2>6
<1> QED
  BY <1>2, <1>3, <1>4, <1>5 DEF PromptInv, NotYetEnough, AloneAll, NoMessage, LastFailure

(* Signals.                                                                *)
LEMMA PromptSignal ==
    ASSUME TypeOK, PointsInv, PromptInv, ~Ended, Interrupt \/ FatalStep
    PROVE  PromptInv'
<1>1. /\ UNCHANGED <<p, testArray, asserting>> /\ hist'.total = hist.total
      /\ fatal'.pc # "no" /\ phase' # "pass"
  <2>1. CASE Interrupt
    <3>1. phase' = phase /\ isSet /\ phase # "pass"
      BY <2>1, InterruptPoints DEF Interrupt
    <3> QED
      BY <2>1, <3>1 DEF Interrupt, HandleSignal
  <2>2. CASE FatalStep
    <3>1. /\ UNCHANGED <<p, testArray, asserting>> /\ hist'.total = hist.total /\ PointsInv' /\ fatal.pc # "no"
          /\ fatal'.by = fatal.by /\ InBody /\ (phase' = phase \/ phase' = "killed")
      BY <2>2, FatalPoints
    <3> QED
      BY <3>1 DEF PointsInv, InBody
  <2> QED
    BY <2>1, <2>2
<1>2. ASSUME p'.abort_after > 0, AloneAll' PROVE hist'.total <= p'.abort_after /\ NoMessage' /\ LastFailure'
  <2>1. AloneAll
    BY <1>1, <1>2 DEF AloneAll
  <2>2. hist.total <= p.abort_after /\ NoMessage
    BY <1>1, <1>2, <2>1, PromptParts
  <2> QED
    BY <1>1, <2>2 DEF NoMessage, Working, LastFailure
<1> QED
  BY <1>1, <1>2 DEF PromptInv, NotYetEnough, AloneAll, NoMessage, LastFailure

(* Programs with threads.                                                  *)
LEMMA PromptThreads ==
    ASSUME TypeOK, PointsInv, PromptInv, ~Ended,
           CreateThreads \/ \E w \in Workers : Terminate(w)
    PROVE  PromptInv'
<1>1. UNCHANGED <<p, testArray, stats>>
  BY DEF CreateThreads, Terminate, contextVars
<1>2. phase = "body" /\ phase' \in {"body", "killed"} /\ (fatal'.pc = "no" => fatal.pc = "no")
  <2>1. CASE CreateThreads
    BY <2>1 DEF CreateThreads, AtStatement
  <2>2. ASSUME NEW w \in Workers, Terminate(w)
        PROVE  phase = "body" /\ phase' \in {"body", "killed"} /\ (fatal'.pc = "no" => fatal.pc = "no")
    BY <2>2, TerminatePoints
  <2> QED
    BY <2>1, <2>2
<1>3. ~AloneAll
  <2>1. SUFFICES ASSUME AloneAll PROVE FALSE
    OBVIOUS
  <2>2. \A w \in Workers : ~Working(w)
    BY <1>2, <2>1, Loner
  <2>3. CASE CreateThreads
    <3>1. ip \in DOMAIN Test.body /\ i <= Len(testArray)
      BY <1>2, <2>3, StatementHere DEF InBody, PointsInv, InTest, CreateThreads, AtStatement
    <3>2. i \in 1..Len(testArray) /\ Len(testArray) \in Nat
      BY <3>1, LenProperties DEF TypeOK
    <3>3. Test \in ToSet(testArray)
      BY <3>2, LenProperties DEF ToSet, Test, TypeOK
    <3> QED
      BY <2>1, <2>3, <3>1, <3>3 DEF AloneAll, Alone, Statement, CreateThreads, AtStatement
  <2>4. ASSUME NEW w \in Workers, Terminate(w) PROVE FALSE
    BY <2>2, <2>4 DEF Terminate, Working, Idle
  <2> QED
    BY <2>3, <2>4
<1>4. NotYetEnough'
  BY <1>1, <1>2, PromptParts DEF NotYetEnough, EnoughFailed
<1> QED
  BY <1>1, <1>2, <1>3, <1>4 DEF PromptInv, NotYetEnough, AloneAll, NoMessage, LastFailure

(* Every step keeps PromptInv.                                             *)
LEMMA PromptSteps ==
    ASSUME TypeOK, SkipInv, PointsInv, CountsInv, PromptInv, [Next]_vars
    PROVE  PromptInv'
<1>1. CASE UNCHANGED vars
  <2>1. UNCHANGED <<asserting, cur, hist, stats, fatal, phase, p, testArray, exception>>
    BY <1>1 DEF vars, contextVars, runVars
  <2>2. (NotYetEnough' <=> NotYetEnough) /\ (EnoughNow' <=> EnoughNow) /\ (AloneAll' <=> AloneAll)
        /\ (NoMessage' <=> NoMessage)
    BY <2>1 DEF NotYetEnough, EnoughNow, EnoughFailed, AloneAll, NoMessage, Working
  <2>3. LastFailure' <=> LastFailure
    BY <2>1, <2>2 DEF LastFailure, InBody
  <2> QED
    BY <2>1, <2>2, <2>3, PromptParts DEF PromptInv, NotYetEnough, AloneAll, NoMessage, LastFailure
<1>2. CASE MainStep
  <2>1. ~Ended /\ fatal.by # Main /\ (RunStep \/ BodyStep)
    BY <1>2 DEF MainStep
  <2>2. CASE RunStep
    BY <2>1, <2>2, PromptRun
  <2>3. CASE MoveStep \/ SkipAssertion \/ throwException \/ JoinThreads
    BY <2>1, <2>3, PromptMove
  <2>4. CASE MakeAssertion
    BY <2>1, <2>4, PromptMake
  <2>5. CASE AssertStep(Main)
    BY <2>1, <2>5, PromptAssert DEF Threads
  <2>6. CASE CreateThreads
    BY <2>1, <2>6, PromptThreads
  <2> QED
    BY <2>1, <2>2, <2>3, <2>4, <2>5, <2>6 DEF BodyStep, MoveStep
<1>3. ASSUME NEW w \in Workers, WorkerStep(w) PROVE PromptInv'
  <2>1. CASE AssertStep(w)
    BY <1>3, <2>1, PromptAssert DEF Threads, WorkerStep
  <2>2. CASE Terminate(w)
    BY <1>3, <2>2, PromptThreads DEF WorkerStep
  <2> QED
    BY <1>3, <2>1, <2>2 DEF WorkerStep
<1>4. CASE HandlerStep \/ (~Ended /\ Interrupt)
  BY <1>4, PromptSignal DEF HandlerStep
<1> QED
  BY <1>1, <1>2, <1>3, <1>4 DEF Next

-----------------------------------------------------------------------------
(* Verdicts.                                                               *)

(* An exception is on its way out of the test function.                    *)
Thrown == phase \in {"unwind", "leaving"} /\ exception # "none"

(* The flags of a test case and what happened in it.                       *)
FlagsTell ==
    /\ cur.flags \subseteq {"AssertFailure", "Exception", "TooManyFailedAsserts"}
    /\ "TooManyFailedAsserts" \in cur.flags => cur.failed > 0
    /\ cur.flags \cap {"AssertFailure", "Exception"} # {} => hist.threw
    /\ hist.threw => cur.flags \cap {"AssertFailure", "Exception"} # {} \/ Thrown
    /\ Thrown => hist.threw

(* Some test case ended as its decorators do not allow.                    *)
SomeUnexpected == \E k \in DOMAIN hist.verdicts : Unexpected(hist.verdicts[k])

(* VerdictsInv by its parts.                                               *)
LEMMA VerdictParts ==
    VerdictsInv <=>
        /\ (fatal.pc = "no" /\ InTest /\ phase # "end") => FlagsTell
        /\ fatal.pc = "no" => (stats.numTestCasesFailed > 0 <=> SomeUnexpected)
        /\ phase = "EXIT_FAILURE" => stats.numTestCasesFailed > 0 /\ ~p.no_exitcode
        /\ phase = "EXIT_SUCCESS" => stats.numTestCasesFailed = 0 \/ p.no_exitcode
BY DEF VerdictsInv, FlagsTell, SomeUnexpected, Thrown

(* A step that gives no verdict and leaves the flags right.                *)
LEMMA VerdictFrame ==
    ASSUME VerdictsInv, fatal'.pc = "no" => fatal.pc = "no",
           (fatal'.pc = "no" /\ InTest' /\ phase' # "end") => FlagsTell',
           stats'.numTestCasesFailed = stats.numTestCasesFailed, hist'.verdicts = hist.verdicts,
           phase' \notin {"EXIT_SUCCESS", "EXIT_FAILURE"}
    PROVE  VerdictsInv'
<1>1. fatal'.pc = "no" => (stats'.numTestCasesFailed > 0 <=> SomeUnexpected')
  <2>1. SomeUnexpected' <=> SomeUnexpected
    BY DEF SomeUnexpected, Unexpected
  <2> QED
    BY <2>1, VerdictParts
<1> QED
  BY <1>1 DEF VerdictsInv, FlagsTell, SomeUnexpected, Thrown

(* finalizeTestCaseData's verdict is the one that the decorators call for. *)
LEMMA FlagsAreRight ==
    ASSUME NEW t, IsTest(t), NEW late \in BOOLEAN, NEW v,
           cur.failed \in Nat, hist.threw \in BOOLEAN,
           v.test = t, v.failing = cur.failed, v.threw = hist.threw, v.late = late,
           FlagsTell, ~Thrown
    PROVE  Unexpected(v) <=> FinalFlags(t, late) # {} /\ FinalFlags(t, late) \cap OkToFail = {}
<1> DEFINE bad == v.failing > 0 \/ v.threw \/ v.late
           flags == cur.flags \cup (IF cur.failed > 0 THEN {"AssertFailure"} ELSE {})
                              \cup (IF late THEN {"Timeout"} ELSE {})
           mark == IF t.should_fail
                   THEN {IF flags # {} THEN "ShouldHaveFailedAndDid" ELSE "ShouldHaveFailedButDidnt"}
                   ELSE IF flags # {} /\ t.may_fail THEN {"CouldHaveFailedAndDid"}
                   ELSE IF t.expected_failures > 0
                        THEN {IF cur.failed = t.expected_failures THEN "FailedExactlyNumTimes"
                              ELSE "DidntFailExactlyNumTimes"}
                        ELSE {}
<1>1. /\ t.should_fail \in BOOLEAN /\ t.may_fail \in BOOLEAN /\ t.expected_failures \in Nat
  BY DEF IsTest
<1>2. flags \cap OkToFail = {}
  BY DEF FlagsTell, OkToFail
<1>3. flags # {} <=> bad
  <2>1. flags # {} <=> cur.flags # {} \/ cur.failed > 0 \/ late
    OBVIOUS
  <2>2. cur.flags # {} => cur.failed > 0 \/ hist.threw
    BY DEF FlagsTell
  <2>3. hist.threw => cur.flags # {}
    BY DEF FlagsTell
  <2> QED
    BY <2>1, <2>2, <2>3
<1>4. FinalFlags(t, late) = flags \cup mark
  BY DEF FinalFlags
<1>5. Unexpected(v) <=>
         IF t.should_fail THEN ~bad
         ELSE IF t.may_fail /\ bad THEN FALSE
         ELSE IF t.expected_failures > 0 THEN cur.failed # t.expected_failures
         ELSE bad
  BY DEF Unexpected
<1> HIDE DEF flags, bad
<1>6. CASE t.should_fail
  BY <1>2, <1>3, <1>4, <1>5, <1>6 DEF OkToFail
<1>7. CASE ~t.should_fail /\ bad /\ t.may_fail
  BY <1>2, <1>3, <1>4, <1>5, <1>7 DEF OkToFail
<1>8. CASE ~t.should_fail /\ ~(bad /\ t.may_fail) /\ t.expected_failures > 0
  BY <1>2, <1>3, <1>4, <1>5, <1>8 DEF OkToFail
<1>9. CASE ~t.should_fail /\ ~(bad /\ t.may_fail) /\ ~(t.expected_failures > 0)
  BY <1>2, <1>3, <1>4, <1>5, <1>9 DEF OkToFail
<1> QED
  BY <1>6, <1>7, <1>8, <1>9

(* The end of a test case adds its verdict and counts it when it is a      *)
(* failure.                                                                *)
LEMMA VerdictEnd ==
    ASSUME TypeOK, PointsInv, CountsInv, VerdictsInv, fatal.by # Main, ~Ended, EndTest
    PROVE  VerdictsInv'
<1>1. fatal.pc = "no" /\ \A w \in Workers : ~Working(w)
  BY Solo DEF SoloStep, RunStep
<1>2. PICK late \in MayBeLate(Test) : finalizeTestCaseData(late)
  BY DEF EndTest
<1>3. phase = "finalize" /\ phase' = "end" /\ fatal' = fatal
  BY DEF EndTest
<1>4. ~Working(Main) /\ cur.test = <<Test>> /\ i <= Len(testArray)
  BY <1>3 DEF PointsInv, InTest
<1>5. \A t \in Threads : asserting[t] = Idle
  BY <1>1, <1>4 DEF Threads, Working
<1>6. hist.failing = cur.failed
  BY <1>5, NobodyCounts, PromptNumbers DEF CountsInv
<1>7. IsTest(Test) /\ late \in BOOLEAN
  BY <1>4, TestHere DEF MayBeLate
<1>8. FlagsTell /\ ~Thrown /\ (stats.numTestCasesFailed > 0 <=> SomeUnexpected)
  BY <1>1, <1>3, VerdictParts DEF InTest, Thrown
<1> DEFINE v == [test |-> Test, failing |-> hist.failing, threw |-> hist.threw, late |-> late]
           flags == FinalFlags(Test, late)
           n == IF flags # {} /\ flags \cap OkToFail = {} THEN 1 ELSE 0
<1>9. Unexpected(v) <=> flags # {} /\ flags \cap OkToFail = {}
  <2>1. v.test = Test /\ v.failing = cur.failed /\ v.threw = hist.threw /\ v.late = late
    BY <1>6
  <2>2. cur.failed \in Nat /\ hist.threw \in BOOLEAN
    BY DEF TypeOK
  <2> HIDE DEF v
  <2> QED
    BY <1>7, <1>8, <2>1, <2>2, FlagsAreRight
<1>10. n \in {0, 1} /\ (n > 0 <=> Unexpected(v))
  BY <1>9
<1>11. /\ hist'.verdicts = Append(hist.verdicts, v)
       /\ stats'.numTestCasesFailed = stats.numTestCasesFailed + n
  <2>1. cur.test[1] = Test
    BY <1>4
  <2>2. hist' = [hist EXCEPT !.verdicts = Append(@, v)]
    BY <1>2, <2>1 DEF finalizeTestCaseData
  <2>3. hist'.verdicts = Append(hist.verdicts, v)
    BY <2>2 DEF TypeOK
  <2>4. stats'.numTestCasesFailed = stats.numTestCasesFailed + n
    BY <1>2, <2>1 DEF finalizeTestCaseData, TypeOK
  <2> QED
    BY <2>3, <2>4
<1> HIDE DEF v, n, flags
<1>12. SomeUnexpected' <=> SomeUnexpected \/ Unexpected(v)
  <2> DEFINE V == ToSet(hist.verdicts) \cup {v}
             m == Len(hist.verdicts)
  <2>1. hist.verdicts \in Seq(V) /\ v \in V
    <3>1. hist.verdicts \in Seq(ToSet(hist.verdicts))
      BY DEF TypeOK
    <3> QED
      BY <3>1, SeqMonotonic
  <2>2. m \in Nat /\ DOMAIN hist.verdicts = 1..m
    BY <2>1, LenProperties
  <2> HIDE DEF V, m
  <2>3. /\ DOMAIN hist'.verdicts = 1..m + 1
        /\ \A k \in 1..m : hist'.verdicts[k] = hist.verdicts[k]
        /\ hist'.verdicts[m + 1] = v
    BY <1>11, <2>1, AppendProperties, LenProperties DEF m
  <2>4. \A x : Unexpected(x) <=> Unexpected(x)
    OBVIOUS
  <2>5. SomeUnexpected' <=> \E k \in 1..m + 1 : Unexpected(hist'.verdicts[k])
    BY <2>3 DEF SomeUnexpected, Unexpected
  <2> QED
    BY <2>2, <2>3, <2>5 DEF SomeUnexpected
<1>13. stats.numTestCasesFailed \in Nat
  BY DEF TypeOK
<1>14. stats'.numTestCasesFailed > 0 <=> SomeUnexpected'
  BY <1>8, <1>10, <1>11, <1>12, <1>13
<1> QED
  BY <1>3, <1>14 DEF VerdictsInv, SomeUnexpected

(* The flags stay right when an exception is on its way as before, or has  *)
(* just been thrown.                                                       *)
LEMMA FlagsFrame ==
    ASSUME FlagsTell, cur'.flags = cur.flags, cur.failed > 0 => cur'.failed > 0,
           \/ hist'.threw = hist.threw /\ (Thrown' <=> Thrown)
           \/ hist'.threw = TRUE /\ Thrown'
    PROVE  FlagsTell'
BY DEF FlagsTell

(* run's steps: the flag for abort-after, the end of a test case, the exit *)
(* status.                                                                 *)
LEMMA VerdictRun ==
    ASSUME TypeOK, SkipInv, PointsInv, CountsInv, PromptInv, VerdictsInv, fatal.by # Main, ~Ended, RunStep
    PROVE  VerdictsInv'
<1>1. fatal.pc = "no" /\ PointsInv' /\ TypeOK'
  BY Solo, RunPoints DEF SoloStep
<1>2. cur.failed \in Nat /\ stats.numAssertsFailed \in Nat
  BY DEF TypeOK
<1>3. CASE EndTest
  BY <1>3, VerdictEnd
<1>4. CASE Cleanup
  <2>1. /\ stats' = stats /\ p' = p /\ hist' = hist /\ fatal' = fatal
        /\ phase' = IF stats.numTestCasesFailed > 0 /\ ~p.no_exitcode THEN "EXIT_FAILURE" ELSE "EXIT_SUCCESS"
    BY <1>4 DEF Cleanup, contextVars
  <2>2. stats.numTestCasesFailed \in Nat
    BY DEF TypeOK
  <2>3. SomeUnexpected' <=> SomeUnexpected
    BY <2>1 DEF SomeUnexpected, Unexpected
  <2>4. fatal'.pc = "no" => (stats'.numTestCasesFailed > 0 <=> SomeUnexpected')
    BY <1>1, <2>1, <2>3, VerdictParts
  <2>5. ~InTest'
    BY <2>1 DEF InTest, InBody
  <2>6. /\ phase' = "EXIT_FAILURE" => stats'.numTestCasesFailed > 0 /\ ~p'.no_exitcode
        /\ phase' = "EXIT_SUCCESS" => stats'.numTestCasesFailed = 0 \/ p'.no_exitcode
    BY <2>1, <2>2
  <2> QED
    BY <2>4, <2>5, <2>6 DEF VerdictsInv, SomeUnexpected
<1>5. CASE ~EndTest /\ ~Cleanup
  <2>1. /\ stats'.numTestCasesFailed = stats.numTestCasesFailed /\ hist'.verdicts = hist.verdicts
        /\ fatal' = fatal
    BY <1>5 DEF RunStep, UseReporters, RunNothing, CollectTests, SkipTest, ListTest, StartTest, StartPass,
         BodyReturns, Catch, AfterPass, LeaveTest, EndRun, contextVars, TypeOK
  <2>2. phase' \notin {"EXIT_SUCCESS", "EXIT_FAILURE"}
    BY <1>5 DEF RunStep, UseReporters, RunNothing, CollectTests, SkipTest, ListTest, AtTest, StartTest,
                StartPass, BodyReturns, Catch, AfterPass, LeaveTest, EndRun
  <2>3. ASSUME InTest', phase' # "end" PROVE FlagsTell'
    <3>1. CASE StartTest
      <4>1. cur'.flags = {} /\ hist'.threw = FALSE /\ phase' = "pass"
        BY <3>1 DEF StartTest, NoTestYet, TypeOK
      <4> QED
        BY <4>1 DEF FlagsTell, Thrown
    <3>2. CASE StartPass \/ BodyReturns
      <4>1. /\ cur' = cur /\ hist' = hist /\ phase \in {"pass", "body"} /\ phase' \in {"body", "after"}
        BY <3>2 DEF StartPass, BodyReturns, AtEnd, contextVars
      <4>2. FlagsTell /\ ~Thrown /\ ~Thrown'
        BY <1>1, <4>1, VerdictParts DEF InTest, InBody, Thrown
      <4> QED
        BY <1>2, <4>1, <4>2, FlagsFrame
    <3>3. CASE Catch
      <4>1. /\ phase = "unwind" /\ phase' = "after" /\ hist' = hist
        BY <3>3 DEF Catch
      <4>2. exception # "none"
        BY <4>1 DEF PointsInv
      <4>3. FlagsTell /\ Thrown /\ ~Thrown'
        BY <1>1, <4>1, <4>2, VerdictParts DEF InTest, InBody, Thrown
      <4>4. PICK f \in {"AssertFailure", "Exception"} : cur' = [cur EXCEPT !.flags = @ \cup {f}]
        BY <3>3 DEF Catch
      <4>5. cur'.flags = cur.flags \cup {f} /\ cur'.failed = cur.failed
        BY <4>4 DEF TypeOK
      <4> QED
        BY <4>1, <4>3, <4>5 DEF FlagsTell
    <3>4. CASE AfterPass
      <4>1. phase = "after" /\ phase' \in {"pass", "finalize"} /\ hist' = hist /\ stats' = stats
        BY <3>4 DEF AfterPass
      <4>2. FlagsTell /\ ~Thrown /\ ~Thrown'
        BY <1>1, <4>1, VerdictParts DEF InTest, InBody, Thrown
      <4>3. ~EnoughFailed(stats.numAssertsFailed)
        BY <1>1, <4>1 DEF PromptInv
      <4>4. p.abort_after \in Int
        BY DEF SkipInv, SubcaseFields
      <4>5. CASE EnoughNow
        <5>1. cur.failed > 0
          BY <1>2, <4>3, <4>4, <4>5 DEF EnoughNow, EnoughFailed
        <5>2. cur'.flags = cur.flags \cup {"TooManyFailedAsserts"} /\ cur'.failed = cur.failed
          BY <3>4, <4>5 DEF AfterPass, EnoughNow, TypeOK
        <5> QED
          BY <4>1, <4>2, <5>1, <5>2 DEF FlagsTell
      <4>6. CASE ~EnoughNow
        <5>1. cur' = cur
          BY <3>4, <4>6 DEF AfterPass, EnoughNow
        <5> QED
          BY <1>2, <4>1, <4>2, <5>1, FlagsFrame
      <4> QED
        BY <4>5, <4>6
    <3>5. CASE ~StartTest /\ ~StartPass /\ ~BodyReturns /\ ~Catch /\ ~AfterPass
      BY <1>5, <2>3, <3>5 DEF RunStep, UseReporters, RunNothing, CollectTests, SkipTest, ListTest, AtTest,
         LeaveTest, EndRun, InTest, InBody
    <3> QED
      BY <3>1, <3>2, <3>3, <3>4, <3>5
  <2> QED
    BY <1>1, <2>1, <2>2, <2>3, VerdictFrame
<1> QED
  BY <1>3, <1>4, <1>5

(* Main goes on in the test function, or throws.                           *)
LEMMA VerdictMove ==
    ASSUME TypeOK, PointsInv, VerdictsInv, fatal.by # Main, ~Ended,
           MoveStep \/ SkipAssertion \/ MakeAssertion \/ throwException \/ CreateThreads \/ JoinThreads
    PROVE  VerdictsInv'
<1>1. UNCHANGED <<cur, stats>> /\ fatal'.pc = fatal.pc /\ hist'.verdicts = hist.verdicts
  BY DEF MoveStep, SkipSubcase, EnterSubcase, EnteredSubcase, LeaveSubcase, AnnounceException, LeftSubcase,
         LockReporters, CreateThreads, MakeAssertion, BeginContext, DestroyContext, Throw, SkipAssertion,
         throwException, JoinThreads, contextVars, runVars, TypeOK
<1>2. phase \in {"body", "entering", "leaving", "unwind"}
  <2>1. CASE throwException
    BY <2>1 DEF throwException, PointsInv, Working, Ended, Idle
  <2>2. CASE MoveStep \/ SkipAssertion \/ MakeAssertion \/ CreateThreads \/ JoinThreads
    BY <2>2 DEF MoveStep, SkipSubcase, EnterSubcase, EnteredSubcase, LeaveSubcase, AnnounceException,
                LeftSubcase, LockReporters, Leaving, AtEnd, AtStatement, BeginContext, DestroyContext,
                Throw, SkipAssertion, MakeAssertion, CreateThreads, JoinThreads
  <2> QED
    BY <2>1, <2>2
<1>3. phase' \in {"body", "entering", "leaving", "unwind"}
  BY <1>2 DEF MoveStep, SkipSubcase, EnterSubcase, EnteredSubcase, LeaveSubcase, AnnounceException,
              LeftSubcase, LockReporters, throwException, BeginContext, DestroyContext, Throw,
              SkipAssertion, MakeAssertion, CreateThreads, JoinThreads, runVars
<1>4. ASSUME fatal'.pc = "no" PROVE FlagsTell'
  <2>1. FlagsTell
    BY <1>1, <1>2, <1>4, VerdictParts DEF InTest, InBody
  <2>2. \/ hist'.threw = hist.threw /\ (Thrown' <=> Thrown)
        \/ hist'.threw = TRUE /\ Thrown'
    <3>1. CASE throwException \/ Throw
      BY <3>1 DEF throwException, Throw, Thrown, TypeOK
    <3>2. CASE SkipSubcase \/ BeginContext \/ DestroyContext \/ SkipAssertion \/ MakeAssertion \/ CreateThreads
               \/ JoinThreads \/ AnnounceException \/ LockReporters
      <4>1. hist'.threw = hist.threw /\ phase' = phase /\ exception' = exception
        BY <3>2 DEF SkipSubcase, BeginContext, DestroyContext, SkipAssertion, MakeAssertion, CreateThreads,
               JoinThreads, AnnounceException, LockReporters, runVars, TypeOK
      <4> QED
        BY <4>1 DEF Thrown
    <3>3. CASE EnterSubcase \/ EnteredSubcase
      <4>1. hist'.threw = hist.threw /\ phase \in {"body", "entering"} /\ phase' \in {"body", "entering"}
        BY <3>3 DEF EnterSubcase, EnteredSubcase, AtStatement, TypeOK
      <4> QED
        BY <4>1 DEF Thrown
    <3>4. CASE LeaveSubcase
      <4>1. hist' = hist /\ phase \in {"body", "unwind"} /\ phase' = "leaving" /\ exception' = exception
        BY <3>4 DEF LeaveSubcase, Leaving, AtStatement
      <4> QED
        BY <4>1 DEF Thrown, PointsInv
    <3>5. CASE LeftSubcase
      <4>1. hist' = hist /\ phase = "leaving" /\ phase' = (IF exception = "none" THEN "body" ELSE "unwind")
            /\ exception' = exception
        BY <3>5 DEF LeftSubcase
      <4> QED
        BY <4>1 DEF Thrown
    <3> QED
      BY <3>1, <3>2, <3>3, <3>4, <3>5 DEF MoveStep
  <2>3. cur.failed \in Nat
    BY DEF TypeOK
  <2> QED
    BY <1>1, <2>1, <2>2, <2>3, FlagsFrame
<1> QED
  BY <1>1, <1>3, <1>4, VerdictFrame

(* A step of an assertion sets no flag; its exception is on its way.       *)
LEMMA VerdictAssert ==
    ASSUME TypeOK, PointsInv, VerdictsInv, ~Ended, NEW t \in Threads, AssertStep(t)
    PROVE  VerdictsInv'
<1>1. UNCHANGED <<stats, fatal, hist, phase, exception>>
  BY DEF AssertStep, AddAssert, LogSkipped, Log, Logged, AddFailedAssert, AssertReturns, contextVars, runVars
<1>2. cur'.flags = cur.flags /\ (cur.failed > 0 => cur'.failed > 0)
  <2>1. CASE AddFailedAssert(t)
    <3> DEFINE f == Failing(asserting[t].at, asserting[t].failed)
    <3>1. cur'.flags = cur.flags /\ cur'.failed = cur.failed + f
      BY <2>1 DEF AddFailedAssert, TypeOK
    <3>2. f \in {0, 1} /\ cur.failed \in Nat
      BY DEF Failing, TypeOK
    <3> HIDE DEF f
    <3> QED
      BY <3>1, <3>2
  <2>2. CASE ~AddFailedAssert(t)
    <3>1. cur'.flags = cur.flags /\ cur'.failed = cur.failed
      BY <2>2 DEF AssertStep, AddAssert, LogSkipped, Log, Logged, AssertReturns, contextVars, TypeOK
    <3>2. cur.failed \in Nat
      BY DEF TypeOK
    <3> QED
      BY <3>1, <3>2
  <2> QED
    BY <2>1, <2>2
<1>3. Working(t)
  BY DEF AssertStep, AddAssert, LogSkipped, Log, Logged, AddFailedAssert, AssertReturns, Working, Idle
<1>4. phase = "body"
  BY <1>3 DEF Threads, PointsInv, Ended, Confined
<1>5. fatal'.pc = "no" => FlagsTell'
  <2>1. Thrown' <=> Thrown
    BY <1>1 DEF Thrown
  <2> QED
    BY <1>1, <1>2, <1>4, <2>1, VerdictParts, FlagsFrame DEF InTest, InBody
<1> QED
  BY <1>1, <1>4, <1>5, VerdictFrame

(* After a signal nothing is said of the flags or the verdicts any more.   *)
LEMMA VerdictSignal ==
    ASSUME TypeOK, PointsInv, VerdictsInv, ~Ended,
           Interrupt \/ FatalStep \/ \E w \in Workers : Terminate(w)
    PROVE  VerdictsInv'
<1>1. fatal'.pc # "no" /\ phase' \notin {"EXIT_SUCCESS", "EXIT_FAILURE"}
  <2>1. CASE Interrupt
    <3>1. phase' = phase /\ isSet
      BY <2>1, InterruptPoints DEF Interrupt
    <3> QED
      BY <2>1, <3>1 DEF Interrupt, HandleSignal
  <2>2. CASE FatalStep
    <3>1. PointsInv' /\ fatal.pc # "no" /\ fatal'.by = fatal.by /\ InBody /\ (phase' = phase \/ phase' = "killed")
      BY <2>2, FatalPoints
    <3> QED
      BY <3>1 DEF PointsInv, InBody
  <2>3. ASSUME NEW w \in Workers, Terminate(w)
        PROVE fatal'.pc # "no" /\ phase' \notin {"EXIT_SUCCESS", "EXIT_FAILURE"}
    <3>1. \/ fatal.pc = "no" /\ isSet /\ phase' = phase
          \/ fatal.pc # "no" /\ phase' = "killed" /\ fatal' = fatal
      BY <2>3, TerminatePoints
    <3>2. isSet => fatal'.pc # "no"
      <4>1. HandleSignal(w)
        BY <2>3 DEF Terminate
      <4>2. isSet => fatal' = [pc |-> "exception", by |-> w, calm |-> Calm(w)]
        BY <4>1 DEF HandleSignal
      <4> QED
        BY <4>2
    <3> QED
      BY <3>1, <3>2 DEF Ended
  <2> QED
    BY <2>1, <2>2, <2>3
<1> QED
  BY <1>1 DEF VerdictsInv

(* Every step keeps VerdictsInv.                                           *)
LEMMA VerdictSteps ==
    ASSUME TypeOK, SkipInv, PointsInv, CountsInv, PromptInv, VerdictsInv, [Next]_vars
    PROVE  VerdictsInv'
<1>1. CASE UNCHANGED vars
  <2>1. UNCHANGED <<cur, hist, stats, fatal, phase, p, exception>>
    BY <1>1 DEF vars, contextVars, runVars
  <2>2. (FlagsTell' <=> FlagsTell) /\ (SomeUnexpected' <=> SomeUnexpected) /\ (InTest' <=> InTest)
    BY <2>1 DEF FlagsTell, Thrown, SomeUnexpected, Unexpected, InTest, InBody
  <2> QED
    BY <2>1, <2>2, VerdictParts DEF VerdictsInv, FlagsTell, SomeUnexpected, Thrown
<1>2. CASE MainStep
  <2>1. ~Ended /\ fatal.by # Main /\ (RunStep \/ BodyStep)
    BY <1>2 DEF MainStep
  <2>2. CASE RunStep
    BY <2>1, <2>2, VerdictRun
  <2>3. CASE MoveStep \/ SkipAssertion \/ MakeAssertion \/ throwException \/ CreateThreads \/ JoinThreads
    BY <2>1, <2>3, VerdictMove
  <2>4. CASE AssertStep(Main)
    BY <2>1, <2>4, VerdictAssert DEF Threads
  <2> QED
    BY <2>1, <2>2, <2>3, <2>4 DEF BodyStep, MoveStep
<1>3. ASSUME NEW w \in Workers, WorkerStep(w) PROVE VerdictsInv'
  <2>1. CASE AssertStep(w)
    BY <1>3, <2>1, VerdictAssert DEF Threads, WorkerStep
  <2>2. CASE Terminate(w)
    BY <1>3, <2>2, VerdictSignal DEF WorkerStep
  <2> QED
    BY <1>3, <2>1, <2>2 DEF WorkerStep
<1>4. CASE HandlerStep \/ (~Ended /\ Interrupt)
  BY <1>4, VerdictSignal DEF HandlerStep
<1> QED
  BY <1>1, <1>2, <1>3, <1>4 DEF Next

-----------------------------------------------------------------------------
(* Signals, and the depth of the subcases.                                 *)

(* A step of a signal or its handler.                                      *)
LEMMA SignalStays ==
    ASSUME TypeOK, PointsInv, ~Ended, Interrupt \/ FatalStep \/ \E w \in Workers : Terminate(w)
    PROVE  fatal'.pc # "no" /\ phase' \notin {"EXIT_SUCCESS", "EXIT_FAILURE"}
<1>1. CASE Interrupt
  <2>1. phase' = phase /\ isSet
    BY <1>1, InterruptPoints DEF Interrupt
  <2> QED
    BY <1>1, <2>1 DEF Interrupt, HandleSignal
<1>2. CASE FatalStep
  <2>1. PointsInv' /\ fatal.pc # "no" /\ fatal'.by = fatal.by /\ InBody /\ (phase' = phase \/ phase' = "killed")
    BY <1>2, FatalPoints
  <2> QED
    BY <2>1 DEF PointsInv, InBody
<1>3. ASSUME NEW w \in Workers, Terminate(w)
      PROVE  fatal'.pc # "no" /\ phase' \notin {"EXIT_SUCCESS", "EXIT_FAILURE"}
  <2>1. \/ fatal.pc = "no" /\ isSet /\ phase' = phase
        \/ fatal.pc # "no" /\ phase' = "killed" /\ fatal' = fatal
    BY <1>3, TerminatePoints
  <2>2. isSet => fatal'.pc # "no"
    <3>1. HandleSignal(w)
      BY <1>3 DEF Terminate
    <3>2. isSet => fatal' = [pc |-> "exception", by |-> w, calm |-> Calm(w)]
      BY <3>1 DEF HandleSignal
    <3> QED
      BY <3>2
  <2> QED
    BY <2>1, <2>2 DEF Ended
<1> QED
  BY <1>1, <1>2, <1>3

-----------------------------------------------------------------------------
(* The depth of subcasesStack.                                             *)

(* One position more in a range counts for one, or for nothing.            *)
LEMMA OneMore ==
    ASSUME NEW P, NEW k \in Nat \ {0}
    PROVE  /\ IsFiniteSet({j \in 1..k - 1 : j \in P}) /\ Cardinality({j \in 1..k - 1 : j \in P}) \in Nat
           /\ Cardinality({j \in 1..k : j \in P}) = Cardinality({j \in 1..k - 1 : j \in P}) + One(k \in P)
<1> DEFINE A == {j \in 1..k - 1 : j \in P}
           B == {j \in 1..k : j \in P}
<1>1. IsFiniteSet(A) /\ Cardinality(A) \in Nat
  <2>1. IsFiniteSet(1..k - 1)
    BY FS_Interval
  <2> QED
    BY <2>1, FS_Subset, FS_CardinalityType
<1>2. k \notin A
  OBVIOUS
<1>3. k \in P => B = A \cup {k}
  OBVIOUS
<1>4. k \notin P => B = A
  OBVIOUS
<1> HIDE DEF A, B
<1>5. Cardinality(B) = Cardinality(A) + One(k \in P)
  BY <1>1, <1>2, <1>3, <1>4, FS_AddElement DEF One
<1> QED
  BY <1>1, <1>5 DEF A, B

(* The depth of a statement and of the one after it.                       *)
LEMMA DepthNext ==
    ASSUME NEW body, NEW k \in Nat \ {0}
    PROVE  /\ Depth(body, k) \in Int
           /\ Depth(body, k + 1) = Depth(body, k) + One(body[k].op = "open") - One(body[k].op = "close")
<1> DEFINE O == {j \in Nat : body[j].op = "open"}
           C == {j \in Nat : body[j].op = "close"}
<1>1. /\ {j \in 1..k - 1 : body[j].op = "open"} = {j \in 1..k - 1 : j \in O}
      /\ {j \in 1..(k + 1) - 1 : body[j].op = "open"} = {j \in 1..k : j \in O}
      /\ {j \in 1..k - 1 : body[j].op = "close"} = {j \in 1..k - 1 : j \in C}
      /\ {j \in 1..(k + 1) - 1 : body[j].op = "close"} = {j \in 1..k : j \in C}
  OBVIOUS
<1>2. (k \in O <=> body[k].op = "open") /\ (k \in C <=> body[k].op = "close")
  OBVIOUS
<1> HIDE DEF O, C
<1>3. /\ Depth(body, k) = Cardinality({j \in 1..k - 1 : j \in O}) - Cardinality({j \in 1..k - 1 : j \in C})
      /\ Depth(body, k + 1) = Cardinality({j \in 1..k : j \in O}) - Cardinality({j \in 1..k : j \in C})
  <2>1. Depth(body, k) = Cardinality({j \in 1..k - 1 : body[j].op = "open"})
                         - Cardinality({j \in 1..k - 1 : body[j].op = "close"})
    BY Zenon DEF Depth
  <2>2. Depth(body, k + 1) = Cardinality({j \in 1..(k + 1) - 1 : body[j].op = "open"})
                             - Cardinality({j \in 1..(k + 1) - 1 : body[j].op = "close"})
    BY Zenon DEF Depth
  <2>3. Depth(body, k) = Cardinality({j \in 1..k - 1 : j \in O}) - Cardinality({j \in 1..k - 1 : j \in C})
    BY <1>1, <2>1, Zenon
  <2>4. Depth(body, k + 1) = Cardinality({j \in 1..k : j \in O}) - Cardinality({j \in 1..k : j \in C})
    BY <1>1, <2>2, Zenon
  <2> QED
    BY <2>3, <2>4
<1> DEFINE o == Cardinality({j \in 1..k - 1 : j \in O})
           c == Cardinality({j \in 1..k - 1 : j \in C})
           oo == Cardinality({j \in 1..k : j \in O})
           cc == Cardinality({j \in 1..k : j \in C})
<1>4. o \in Nat /\ c \in Nat /\ oo = o + One(k \in O) /\ cc = c + One(k \in C)
  BY OneMore
<1>5. /\ One(k \in O) = One(body[k].op = "open") /\ One(k \in C) = One(body[k].op = "close")
      /\ One(k \in O) \in Nat /\ One(k \in C) \in Nat
  BY <1>2 DEF One
<1>6. Depth(body, k) = o - c /\ Depth(body, k + 1) = oo - cc
  BY <1>3
<1> HIDE DEF o, c, oo, cc
<1> QED
  BY <1>4, <1>5, <1>6

(* A test function begins outside every block.                             *)
LEMMA DepthFirst ==
    ASSUME NEW body
    PROVE  Depth(body, 1) = 0
<1>1. {j \in 1..1 - 1 : body[j].op = "open"} = {} /\ {j \in 1..1 - 1 : body[j].op = "close"} = {}
  OBVIOUS
<1> QED
  BY <1>1, FS_EmptySet DEF Depth

(* DepthInv without the case of no signal.                                 *)
DepthHere ==
    /\ phase = "body" => Len(sub.stack) = Depth(Test.body, ip)
    /\ phase = "entering" => Len(sub.stack) = Depth(Test.body, ip) + 1
    /\ (phase = "leaving" /\ exception = "none") => Len(sub.stack) = Depth(Test.body, ip) - 1
    /\ phase = "after" => sub.stack = <<>>

(* subcasesStack is a sequence over its own elements.                      *)
LEMMA StackLength ==
    ASSUME SkipInv
    PROVE  /\ sub.stack \in Seq(ToSet(sub.stack)) /\ Len(sub.stack) \in Nat
           /\ Len(sub.stack) = 0 <=> sub.stack = <<>>
           /\ {"stack", "passed", "maxLevel", "reenter"} \subseteq DOMAIN sub
<1>1. sub.stack \in Seq(ToSet(sub.stack))
  BY DEF SkipInv, SubcaseFields
<1> QED
  BY <1>1, LenProperties, EmptySeq DEF SkipInv, SubcaseFields

(* Entering, leaving and skipping a block.                                 *)
LEMMA DepthBody ==
    ASSUME TypeOK, SkipInv, PointsInv, DepthHere, fatal.pc = "no", fatal.by # Main, ~Ended,
           \/ SkipSubcase \/ EnterSubcase \/ EnteredSubcase
           \/ LeaveSubcase \/ AnnounceException \/ LeftSubcase \/ LockReporters
    PROVE  DepthHere'
<1>1. /\ Len(Test.body) \in Nat /\ ip \in 1..Len(Test.body) + 1 /\ ip \in Nat \ {0}
      /\ ip <= Len(Test.body) => WellFormed(Test.body, ip)
  <2>1. InBody
    BY DEF InBody, SkipSubcase, EnterSubcase, EnteredSubcase, LeaveSubcase, AnnounceException, LeftSubcase,
           LockReporters, Leaving, AtStatement
  <2> QED
    BY <2>1, StatementHere
<1>2. /\ sub.stack \in Seq(ToSet(sub.stack)) /\ Len(sub.stack) \in Nat
      /\ {"stack", "passed", "maxLevel", "reenter"} \subseteq DOMAIN sub
  BY StackLength
<1>3. Test' = Test
  BY DEF SkipSubcase, EnterSubcase, EnteredSubcase, LeaveSubcase, AnnounceException, LeftSubcase,
         LockReporters, runVars, Test
<1>4. /\ Depth(Test.body, ip) \in Int
      /\ Statement.op = "open" => Depth(Test.body, ip + 1) = Depth(Test.body, ip) + 1
      /\ Statement.op = "close" => Depth(Test.body, ip + 1) = Depth(Test.body, ip) - 1
  <2>1. /\ Depth(Test.body, ip) \in Int
        /\ Depth(Test.body, ip + 1) = Depth(Test.body, ip) + One(Statement.op = "open") - One(Statement.op = "close")
    BY <1>1, DepthNext DEF Statement
  <2> QED
    BY <2>1 DEF One
<1>5. CASE SkipSubcase
  <2>1. /\ phase = "body" /\ phase' = "body" /\ ip' = Statement.end + 1 /\ Len(sub'.stack) = Len(sub.stack)
        /\ Statement.op = "open" /\ ip <= Len(Test.body)
    BY <1>2, <1>5 DEF SkipSubcase, AtStatement
  <2>2. Depth(Test.body, Statement.end + 1) = Depth(Test.body, ip)
    BY <1>1, <2>1 DEF WellFormed, Statement
  <2> QED
    BY <1>3, <2>1, <2>2 DEF DepthHere
<1>6. CASE EnterSubcase
  <2>1. /\ phase = "body" /\ phase' = "entering" /\ ip' = ip /\ sub'.stack = Append(sub.stack, Signature)
    BY <1>2, <1>6 DEF EnterSubcase, AtStatement
  <2>2. Len(sub'.stack) = Len(sub.stack) + 1
    BY <1>2, <2>1, Pushed
  <2> QED
    BY <1>3, <2>1, <2>2 DEF DepthHere
<1>7. CASE EnteredSubcase
  <2>1. /\ phase = "entering" /\ phase' = "body" /\ ip' = ip + 1 /\ sub' = sub
    BY <1>7 DEF EnteredSubcase, contextVars
  <2>2. Statement.op = "open"
    BY <2>1 DEF PointsInv
  <2> QED
    BY <1>3, <1>4, <2>1, <2>2 DEF DepthHere
<1>8. CASE LeaveSubcase
  <2>1. /\ phase' = "leaving" /\ ip' = ip /\ exception' = exception /\ sub.stack # <<>> /\ sub'.stack = Front(sub.stack)
        /\ phase \in {"body", "unwind"}
    BY <1>2, <1>8 DEF LeaveSubcase, Leaving, AtStatement
  <2>2. Len(sub'.stack) = Len(sub.stack) - 1
    BY <1>2, <2>1, Popped
  <2>3. phase = "unwind" => exception # "none"
    BY DEF PointsInv
  <2> QED
    BY <1>2, <1>3, <1>4, <2>1, <2>2, <2>3 DEF DepthHere
<1>9. CASE LeftSubcase
  <2>1. /\ phase = "leaving" /\ sub' = sub /\ exception' = exception
        /\ IF exception = "none" THEN phase' = "body" /\ ip' = ip + 1 ELSE phase' = "unwind"
    BY <1>9 DEF LeftSubcase, contextVars
  <2>2. exception = "none" => Statement.op = "close"
    BY <2>1 DEF PointsInv
  <2> QED
    BY <1>3, <1>4, <2>1, <2>2 DEF DepthHere
<1>10. CASE AnnounceException \/ LockReporters
  <2>1. phase' = phase /\ ip' = ip /\ exception' = exception /\ sub'.stack = sub.stack
    BY <1>2, <1>10 DEF AnnounceException, LockReporters, runVars, contextVars
  <2> QED
    BY <1>3, <2>1 DEF DepthHere
<1> QED
  BY <1>5, <1>6, <1>7, <1>8, <1>9, <1>10

(* Only a thread that makes an assertion takes a step of one.              *)
LEMMA AssertWorks ==
    ASSUME NEW t \in Threads, AssertStep(t)
    PROVE  Working(t)
BY DEF AssertStep, AddAssert, LogSkipped, Log, Logged, AddFailedAssert, AssertReturns, Working, Idle

(* The other steps of a test function go to a statement of the same depth, *)
(* or leave the function by an exception.                                  *)
LEMMA DepthSame ==
    ASSUME TypeOK, SkipInv, PointsInv, DepthHere, fatal.pc = "no",
           BeginContext \/ DestroyContext \/ Throw \/ SkipAssertion \/ MakeAssertion \/ CreateThreads \/ JoinThreads
           \/ throwException \/ \E t \in Threads : AssertStep(t)
    PROVE  DepthHere'
<1>1. Len(sub'.stack) = Len(sub.stack)
  <2>1. {"stack", "passed", "maxLevel", "reenter"} \subseteq DOMAIN sub
    BY StackLength
  <2> QED
    BY <2>1 DEF BeginContext, DestroyContext, Throw, SkipAssertion, MakeAssertion, CreateThreads, JoinThreads,
         throwException, AssertStep, AddAssert, LogSkipped, Log, Logged, AddFailedAssert, AssertReturns, contextVars
<1>2. Test' = Test
  BY DEF BeginContext, DestroyContext, Throw, SkipAssertion, MakeAssertion, CreateThreads, JoinThreads,
         throwException, AssertStep, AddAssert, LogSkipped, Log, Logged, AddFailedAssert, AssertReturns, runVars, Test
<1>3. CASE Throw \/ throwException
  <2>1. phase' = "unwind"
    BY <1>3 DEF Throw, throwException
  <2> QED
    BY <2>1 DEF DepthHere
<1>4. CASE DestroyContext \/ \E t \in Threads : AssertStep(t)
  <2>1. ip' = ip /\ phase' = phase /\ exception' = exception
    BY <1>4 DEF DestroyContext, AssertStep, AddAssert, LogSkipped, Log, Logged, AddFailedAssert,
                AssertReturns, runVars
  <2>2. phase # "after"
    <3>1. CASE DestroyContext
      BY <3>1 DEF DestroyContext, Leaving, AtEnd, AtStatement
    <3>2. ASSUME NEW t \in Threads, AssertStep(t) PROVE phase # "after"
      <4>1. Working(t)
        BY <3>2, AssertWorks
      <4> QED
        BY <4>1 DEF PointsInv, Threads, Confined
    <3> QED
      BY <1>4, <3>1, <3>2
  <2> QED
    BY <1>1, <1>2, <2>1, <2>2 DEF DepthHere
<1>5. CASE BeginContext \/ SkipAssertion \/ MakeAssertion \/ CreateThreads \/ JoinThreads
  <2>1. /\ phase = "body" /\ phase' = "body" /\ ip' = ip + 1 /\ Statement.op \notin {"open", "close"}
    BY <1>5 DEF BeginContext, SkipAssertion, MakeAssertion, CreateThreads, JoinThreads, AtStatement
  <2>2. ip \in Nat \ {0}
    BY <2>1, StatementHere DEF InBody
  <2>3. Depth(Test.body, ip + 1) = Depth(Test.body, ip)
    <3>1. /\ Depth(Test.body, ip) \in Int
          /\ Depth(Test.body, ip + 1) = Depth(Test.body, ip) + One(Statement.op = "open") - One(Statement.op = "close")
      BY <2>2, DepthNext DEF Statement
    <3> QED
      BY <2>1, <3>1 DEF One
  <2> QED
    BY <1>1, <1>2, <2>1, <2>3 DEF DepthHere
<1> QED
  BY <1>3, <1>4, <1>5

(* run starts a test function with an empty stack.                         *)
LEMMA DepthRun ==
    ASSUME TypeOK, SkipInv, PointsInv, DepthHere, fatal.pc = "no", RunStep
    PROVE  DepthHere'
<1>1. CASE StartPass
  <2>1. phase' = "body" /\ ip' = 1 /\ sub'.stack = <<>>
    BY <1>1 DEF StartPass, ResetSubcases, NoSubcases
  <2>2. Len(<<>>) = 0
    BY EmptySeq
  <2> QED
    BY <2>1, <2>2, DepthFirst DEF DepthHere
<1>2. CASE BodyReturns
  <2>1. phase = "body" /\ phase' = "after" /\ sub' = sub /\ ip > Len(Test.body)
    BY <1>2 DEF BodyReturns, AtEnd, contextVars
  <2>2. /\ IsTest(Test) /\ Len(Test.body) \in Nat /\ ip \in 1..Len(Test.body) + 1
    BY <2>1, StatementHere DEF InBody
  <2>3. ip = Len(Test.body) + 1
    BY <2>1, <2>2
  <2>4. Len(sub.stack) = 0
    BY <2>1, <2>2, <2>3 DEF IsTest, DepthHere
  <2> QED
    BY <2>1, <2>4, StackLength DEF DepthHere
<1>3. CASE Catch
  BY <1>3 DEF Catch, DepthHere
<1>4. CASE ~StartPass /\ ~BodyReturns /\ ~Catch
  <2>1. phase' \notin {"body", "entering", "leaving", "after"}
    BY <1>4 DEF RunStep, UseReporters, RunNothing, CollectTests, SkipTest, ListTest, AtTest, StartTest,
         AfterPass, EndTest, LeaveTest, EndRun, Cleanup
  <2> QED
    BY <2>1 DEF DepthHere
<1> QED
  BY <1>1, <1>2, <1>3, <1>4

(* Every step keeps DepthInv.                                              *)
LEMMA DepthSteps ==
    ASSUME TypeOK, SkipInv, PointsInv, DepthInv, [Next]_vars
    PROVE  DepthInv'
<1>1. SUFFICES ASSUME fatal'.pc = "no" PROVE DepthHere'
  BY DEF DepthInv, DepthHere
<1>2. fatal.pc = "no" => DepthHere
  BY DEF DepthInv, DepthHere
<1>3. CASE UNCHANGED vars
  <2>1. UNCHANGED <<testArray, i, sub, fatal, phase, ip, exception>>
    BY <1>3 DEF vars, contextVars, runVars
  <2>2. Test' = Test
    BY <2>1 DEF Test
  <2> QED
    BY <1>1, <1>2, <2>1, <2>2 DEF DepthHere
<1>4. CASE HandlerStep \/ (~Ended /\ Interrupt) \/ (\E w \in Workers : ~Ended /\ Terminate(w))
  BY <1>1, <1>4, SignalStays DEF HandlerStep
<1>5. CASE MainStep \/ (\E w \in Workers : ~Ended /\ fatal.by # w /\ AssertStep(w))
  <2>1. fatal.pc = "no" /\ ~Ended
    <3>1. fatal'.pc = fatal.pc
      BY <1>5 DEF MainStep, RunStep, UseReporters, RunNothing, CollectTests, SkipTest, ListTest, StartTest,
                  StartPass, BodyReturns, Catch, AfterPass, EndTest, LeaveTest, EndRun, Cleanup, BodyStep,
                  SkipSubcase, EnterSubcase, EnteredSubcase, LeaveSubcase, AnnounceException, LeftSubcase,
                  LockReporters, BeginContext, DestroyContext, Throw, SkipAssertion, MakeAssertion,
                  CreateThreads, JoinThreads, throwException, AssertStep, AddAssert, LogSkipped, Log,
                  Logged, AddFailedAssert, AssertReturns, TypeOK
    <3> QED
      BY <1>1, <1>5, <3>1 DEF MainStep
  <2>2. CASE MainStep
    <3>1. fatal.by # Main
      BY <2>2 DEF MainStep
    <3>2. CASE RunStep
      BY <1>2, <2>1, <3>2, DepthRun
    <3>3. CASE \/ SkipSubcase \/ EnterSubcase \/ EnteredSubcase
               \/ LeaveSubcase \/ AnnounceException \/ LeftSubcase \/ LockReporters
      BY <1>2, <2>1, <3>1, <3>3, DepthBody
    <3>4. CASE BeginContext \/ DestroyContext \/ Throw \/ SkipAssertion \/ MakeAssertion \/ CreateThreads \/ JoinThreads
           \/ throwException \/ AssertStep(Main)
      BY <1>2, <2>1, <3>4, DepthSame DEF Threads
    <3> QED
      BY <2>2, <3>2, <3>3, <3>4 DEF MainStep, BodyStep
  <2>3. CASE \E w \in Workers : AssertStep(w)
    BY <1>2, <2>1, <2>3, DepthSame DEF Threads
  <2> QED
    BY <1>5, <2>2, <2>3
<1> QED
  BY <1>3, <1>4, <1>5 DEF Next, WorkerStep

-----------------------------------------------------------------------------
(* The console's header.                                                   *)

(* A console reporter whose header is that of its own test and stack.      *)
IsConsole(c) ==
    /\ DOMAIN c = {"tc", "hasLoggedCurrentTestStart", "subcasesStack", "header", "quoted", "notes", "listed", "summary"}
    /\ c.hasLoggedCurrentTestStart => c.header = <<c.tc, c.subcasesStack>>

(* It is where the run is.                                                 *)
FollowsRun(c) ==
    /\ InTest => c.tc = cur.test
    /\ FollowsStack(c)
    /\ \A t \in Threads : asserting[t].pc = "logging" => c.header = <<cur.test, sub.stack>>

(* HeaderInv by its parts, and the same after a step.                      *)
LEMMA HeaderParts ==
    HeaderInv <=> \A r \in ConsoleReporters : IsConsole(rep[r]) /\ (fatal.pc = "no" => FollowsRun(rep[r]))
BY DEF HeaderInv, IsConsole, FollowsRun, NewConsole

(* The same after a step.                                                  *)
LEMMA HeaderPrimed ==
    ASSUME \A r \in ConsoleReporters' : IsConsole(rep'[r]) /\ (fatal'.pc = "no" => FollowsRun(rep[r])')
    PROVE  HeaderInv'
BY DEF HeaderInv, IsConsole, FollowsRun, NewConsole

(* Every registered reporter is told of every event.                       *)
LEMMA ToldConsoles ==
    ASSUME NEW e, Notify(e), NEW r \in ConsoleReporters'
    PROVE  r \in ConsoleReporters /\ rep'[r] = ToConsole(rep[r], e)
BY DEF Notify, ConsoleReporters

(* A new reporter has printed nothing.                                     *)
LEMMA NewConsoles == IsConsole(NewConsole) /\ NewConsole.subcasesStack = <<>>
BY DEF IsConsole, NewConsole

(* logTestStart prints the header of the moment.                           *)
LEMMA Logs ==
    ASSUME NEW c, IsConsole(c)
    PROVE  /\ IsConsole(logTestStart(c))
           /\ logTestStart(c).header = <<c.tc, c.subcasesStack>>
           /\ logTestStart(c).tc = c.tc /\ logTestStart(c).subcasesStack = c.subcasesStack
BY DEF IsConsole, logTestStart

(* What each event does to the fields that the header is about.            *)
LEMMA ConsoleTestStart ==
    ASSUME NEW c, IsConsole(c), NEW test
    PROVE  LET d == ToConsole(c, [on |-> "test_case_start", test |-> test])
           IN IsConsole(d) /\ d.tc = <<test>> /\ d.subcasesStack = c.subcasesStack
BY DEF ToConsole, console_test_case_start, IsConsole

(* subcase_start and subcase_end move the reporter's own stack.            *)
LEMMA ConsoleEnter ==
    ASSUME NEW c, IsConsole(c), NEW s
    PROVE  LET d == ToConsole(c, [on |-> "subcase_start", signature |-> s])
           IN IsConsole(d) /\ d.tc = c.tc /\ d.subcasesStack = Append(c.subcasesStack, s)
BY DEF ToConsole, console_subcase_start, IsConsole

(* subcase_end takes it off again.                                         *)
LEMMA ConsoleLeave ==
    ASSUME NEW c, IsConsole(c)
    PROVE  LET d == ToConsole(c, [on |-> "subcase_end"])
           IN IsConsole(d) /\ d.tc = c.tc /\ d.subcasesStack = Front(c.subcasesStack)
BY DEF ToConsole, console_subcase_end, IsConsole

(* log_assert and log_message print the header first, unless it stands     *)
(* there.                                                                  *)
LEMMA ConsoleLogs ==
    ASSUME NEW c, IsConsole(c), NEW e, e.on = "log"
    PROVE  LET d == ToConsole(c, e)
           IN /\ IsConsole(d) /\ d.tc = c.tc /\ d.subcasesStack = c.subcasesStack
              /\ d.header = <<c.tc, c.subcasesStack>>
<1> DEFINE l == logTestStart(c)
<1>1. /\ IsConsole(l) /\ l.header = <<c.tc, c.subcasesStack>> /\ l.tc = c.tc /\ l.subcasesStack = c.subcasesStack
  BY Logs
<1>2. ToConsole(c, e) = [l EXCEPT !.quoted = e.contexts]
  BY DEF ToConsole, console_log, log_contexts
<1> HIDE DEF l
<1> QED
  BY <1>1, <1>2 DEF IsConsole

(* The other events leave the reporter's test and stack alone.             *)
LEMMA ConsoleOther ==
    ASSUME NEW c, IsConsole(c), NEW e,
           e.on \in {"test_run_start", "test_case_skipped", "test_case_end", "test_case_exception", "log_ends",
                     "report_query", "test_run_end"}
    PROVE  LET d == ToConsole(c, e)
           IN /\ IsConsole(d) /\ d.tc = c.tc /\ d.subcasesStack = c.subcasesStack
              /\ d.header = c.header \/ d.header = <<c.tc, c.subcasesStack>>
<1> DEFINE l == logTestStart(c)
<1>1. /\ IsConsole(l) /\ l.header = <<c.tc, c.subcasesStack>> /\ l.tc = c.tc /\ l.subcasesStack = c.subcasesStack
  BY Logs
<1>2. \/ \E n : ToConsole(c, e) = [l EXCEPT !.notes = n]
      \/ \E n : ToConsole(c, e) = [c EXCEPT !.notes = n]
      \/ \E q : ToConsole(c, e) = [l EXCEPT !.quoted = q]
      \/ \E n : ToConsole(c, e) = [c EXCEPT !.listed = n]
      \/ \E s : ToConsole(c, e) = [c EXCEPT !.summary = s]
      \/ ToConsole(c, e) = c
  <2>1. CASE e.on = "test_case_end"
    <3> DEFINE n == Remark(e.flags) \cup (e.flags \cap {"Timeout", "TooManyFailedAsserts"})
    <3>1. ToConsole(c, e) = [l EXCEPT !.notes = n] \/ ToConsole(c, e) = [c EXCEPT !.notes = n]
      BY <2>1 DEF ToConsole, console_test_case_end
    <3> HIDE DEF n, l
    <3> QED
      BY <3>1
  <2>2. CASE e.on = "test_case_exception"
    <3>1. ToConsole(c, e) = [l EXCEPT !.quoted = Reverse(e.contexts)]
      BY <2>2 DEF ToConsole, console_test_case_exception
    <3> HIDE DEF l
    <3> QED
      BY <3>1
  <2>3. CASE e.on = "report_query"
    BY <2>3 DEF ToConsole, console_report_query
  <2>4. CASE e.on = "test_run_end"
    <3>1. ToConsole(c, e) = console_test_run_end(c, e.stats)
      BY <2>4 DEF ToConsole
    <3>2. PICK s : console_test_run_end(c, e.stats) = [c EXCEPT !.summary = s]
      BY DEF console_test_run_end
    <3> HIDE DEF l
    <3> QED
      BY <3>1, <3>2
  <2>5. CASE e.on \in {"test_run_start", "test_case_skipped", "log_ends"}
    BY <2>5 DEF ToConsole
  <2> QED
    BY <2>1, <2>2, <2>3, <2>4, <2>5
<1> HIDE DEF l
<1> QED
  BY <1>1, <1>2 DEF IsConsole

(* While run itself is at work no thread makes an assertion.               *)
LEMMA RunAlone ==
    ASSUME TypeOK, PointsInv, fatal.by # Main, ~Ended, RunStep
    PROVE  /\ fatal.pc = "no" /\ fatal' = fatal /\ asserting' = asserting /\ holder' = holder
           /\ \A t \in Threads : asserting[t] = Idle
<1>1. fatal.pc = "no" /\ \A w \in Workers : ~Working(w)
  BY Solo DEF SoloStep
<1>2. ~Working(Main)
  <2>1. phase = "body" => BodyReturns
    BY DEF RunStep, UseReporters, RunNothing, CollectTests, SkipTest, ListTest, AtTest, StartTest, StartPass,
           Catch, AfterPass, EndTest, LeaveTest, EndRun, Cleanup
  <2>2. BodyReturns => ~Working(Main)
    BY DEF BodyReturns, AtEnd, Working
  <2> QED
    BY <2>1, <2>2 DEF PointsInv, Ended
<1>3. \A t \in Threads : asserting[t] = Idle
  BY <1>1, <1>2 DEF Threads, Working
<1>4. fatal' = fatal /\ asserting' = asserting /\ holder' = holder
  BY DEF RunStep, UseReporters, RunNothing, CollectTests, SkipTest, ListTest, AtTest, StartTest, StartPass,
         BodyReturns, Catch, AfterPass, EndTest, LeaveTest, EndRun, Cleanup, reportVars
<1> QED
  BY <1>1, <1>3, <1>4

(* ... nor while main enters and leaves subcases and contexts.             *)
LEMMA MoveAlone ==
    ASSUME TypeOK, PointsInv, fatal.by # Main, ~Ended, MoveStep
    PROVE  /\ fatal.pc = "no" /\ fatal' = fatal /\ asserting' = asserting /\ cur' = cur
           /\ InBody /\ InBody'
           /\ \A t \in Threads : asserting[t] = Idle
<1>1. fatal.pc = "no" /\ \A w \in Workers : ~Working(w)
  BY Solo DEF SoloStep, MoveStep
<1>2. ~Working(Main)
  BY DEF MoveStep, PointsInv, Ended, Working, SkipSubcase, EnterSubcase, EnteredSubcase, LeaveSubcase,
         AnnounceException, LeftSubcase, LockReporters, BeginContext, DestroyContext, Throw, Leaving, AtEnd,
         AtStatement
<1>3. InBody
  BY DEF MoveStep, InBody, SkipSubcase, EnterSubcase, EnteredSubcase, LeaveSubcase, AnnounceException,
         LeftSubcase, LockReporters, BeginContext, DestroyContext, Throw, Leaving, AtEnd, AtStatement
<1>4. InBody'
  BY <1>3 DEF MoveStep, InBody, SkipSubcase, EnterSubcase, EnteredSubcase, LeaveSubcase, AnnounceException,
              LeftSubcase, LockReporters, BeginContext, DestroyContext, Throw, runVars
<1>5. UNCHANGED <<asserting, cur, fatal>>
  BY DEF MoveStep, SkipSubcase, EnterSubcase, EnteredSubcase, LeaveSubcase, AnnounceException, LeftSubcase,
         LockReporters, BeginContext, DestroyContext, Throw, contextVars, reportVars
<1> QED
  BY <1>1, <1>2, <1>3, <1>4, <1>5 DEF Threads, Working

(* run tells the reporters which test case it is at.                       *)
LEMMA HeaderRun ==
    ASSUME TypeOK, SkipInv, PointsInv, DepthInv, HeaderInv, fatal.by # Main, ~Ended, RunStep
    PROVE  HeaderInv'
<1>1. /\ fatal.pc = "no" /\ fatal' = fatal /\ asserting' = asserting
      /\ \A t \in Threads : asserting[t] = Idle
  BY RunAlone
<1>2. \A t \in Threads : asserting'[t].pc # "logging"
  BY <1>1 DEF Idle
<1>3. SUFFICES ASSUME NEW r \in ConsoleReporters'
               PROVE  IsConsole(rep'[r]) /\ (InTest' => rep'[r].tc = cur'.test) /\ FollowsStack(rep[r])'
  BY <1>2, HeaderPrimed DEF FollowsRun
<1>4. CASE UseReporters
  <2>1. rep'[r] = NewConsole /\ phase' = "start"
    BY <1>4 DEF UseReporters, ConsoleReporters
  <2> QED
    BY <2>1, NewConsoles DEF FollowsStack, InTest, InBody
<1>5. CASE Cleanup
  <2>1. rep' = <<>>
    BY <1>5 DEF Cleanup
  <2>2. DOMAIN rep' = {}
    BY <2>1
  <2> QED
    BY <2>2 DEF ConsoleReporters
<1>6. CASE StartTest
  <2>1. /\ r \in ConsoleReporters /\ rep'[r] = ToConsole(rep[r], [on |-> "test_case_start", test |-> Test])
    BY <1>6, ToldConsoles DEF StartTest
  <2>2. /\ phase = "next" /\ phase' = "pass" /\ cur'.test = <<Test>>
    BY <1>6 DEF StartTest, AtTest, NoTestYet
  <2>3. IsConsole(rep[r]) /\ FollowsStack(rep[r])
    BY <1>1, <2>1, HeaderParts DEF FollowsRun
  <2>4. /\ IsConsole(rep'[r]) /\ rep'[r].tc = <<Test>> /\ rep'[r].subcasesStack = rep[r].subcasesStack
    BY <2>1, <2>3, ConsoleTestStart
  <2> QED
    BY <2>2, <2>3, <2>4 DEF FollowsStack, InTest, InBody
<1>7. CASE ~UseReporters /\ ~Cleanup /\ ~StartTest
  <2>1. /\ r \in ConsoleReporters
        /\ IsConsole(rep[r]) => /\ IsConsole(rep'[r]) /\ rep'[r].tc = rep[r].tc
                                /\ rep'[r].subcasesStack = rep[r].subcasesStack
    <3>1. CASE rep' = rep
      BY <3>1 DEF ConsoleReporters
    <3>2. ASSUME NEW e, Notify(e),
                 e.on \in {"test_run_start", "test_case_skipped", "test_case_end", "test_case_exception", "log_ends",
                           "report_query", "test_run_end"}
          PROVE  /\ r \in ConsoleReporters
                 /\ IsConsole(rep[r]) => /\ IsConsole(rep'[r]) /\ rep'[r].tc = rep[r].tc
                                         /\ rep'[r].subcasesStack = rep[r].subcasesStack
      BY <3>2, ToldConsoles, ConsoleOther
    <3>3. \/ rep' = rep
          \/ \E e : Notify(e) /\ e.on \in {"test_run_start", "test_case_skipped", "test_case_end",
                                           "test_case_exception", "log_ends", "report_query", "test_run_end"}
      <4>1. CASE RunNothing
        <5> DEFINE e == [on |-> "report_query", names |-> <<>>]
        <5>1. Notify(e) /\ e.on = "report_query"
          BY <4>1 DEF RunNothing
        <5> HIDE DEF e
        <5> QED
          BY <5>1
      <4>2. CASE CollectTests
        <5> DEFINE e == [on |-> "test_run_start"]
        <5>1. (Notify(e) \/ rep' = rep) /\ e.on = "test_run_start"
          BY <4>2 DEF CollectTests
        <5> HIDE DEF e
        <5> QED
          BY <5>1
      <4>3. CASE SkipTest
        <5> DEFINE e == [on |-> "test_case_skipped", test |-> Test]
        <5>1. (Notify(e) \/ rep' = rep) /\ e.on = "test_case_skipped"
          BY <4>3 DEF SkipTest
        <5> HIDE DEF e
        <5> QED
          BY <5>1
      <4>4. CASE ListTest \/ StartPass \/ BodyReturns \/ AfterPass \/ EndTest
        BY <4>4 DEF ListTest, StartPass, BodyReturns, AfterPass, EndTest, reportVars
      <4>5. CASE Catch
        <5> DEFINE e == ExceptionEvent
        <5>1. (Notify(e) \/ rep' = rep) /\ e.on = "test_case_exception"
          BY <4>5 DEF Catch, ExceptionEvent
        <5> HIDE DEF e
        <5> QED
          BY <5>1
      <4>6. CASE LeaveTest
        <5> DEFINE e == [on |-> "test_case_end", flags |-> cur.flags]
        <5>1. Notify(e) /\ e.on = "test_case_end"
          BY <4>6 DEF LeaveTest
        <5> HIDE DEF e
        <5> QED
          BY <5>1
      <4>7. CASE EndRun
        <5> DEFINE e == IF QueryMode THEN [on |-> "report_query", names |-> query]
                                     ELSE [on |-> "test_run_end", stats |-> stats]
        <5>1. Notify(e)
          BY <4>7 DEF EndRun
        <5>2. e.on \in {"report_query", "test_run_end"}
          OBVIOUS
        <5> HIDE DEF e
        <5> QED
          BY <5>1, <5>2
      <4> QED
        BY <1>7, <4>1, <4>2, <4>3, <4>4, <4>5, <4>6, <4>7 DEF RunStep
    <3> QED
      BY <3>1, <3>2, <3>3
  <2>2. IsConsole(rep[r]) /\ FollowsStack(rep[r]) /\ (InTest => rep[r].tc = cur.test)
    BY <1>1, <2>1, HeaderParts DEF FollowsRun
  <2>3. /\ IsConsole(rep'[r]) /\ rep'[r].tc = rep[r].tc
        /\ rep'[r].subcasesStack = rep[r].subcasesStack
    BY <2>1, <2>2
  <2>4. InTest' => InTest /\ cur'.test = cur.test
    <3>1. CASE EndTest
      <4>1. PICK late \in MayBeLate(Test) : finalizeTestCaseData(late)
        BY <3>1 DEF EndTest
      <4> QED
        BY <3>1, <4>1, FinalTypes DEF EndTest, InTest
    <3>2. CASE ~EndTest
      BY <1>7, <3>2 DEF RunStep, RunNothing, CollectTests, SkipTest, ListTest, AtTest, StartPass,
           BodyReturns, AtEnd, Catch, AfterPass, LeaveTest, EndRun, InTest, InBody, contextVars, TypeOK
    <3> QED
      BY <3>1, <3>2
  <2>5. FollowsStack(rep[r])'
    <3>1. CASE StartPass
      <4>1. phase = "pass" /\ phase' = "body" /\ sub'.stack = <<>>
        BY <3>1 DEF StartPass, ResetSubcases, NoSubcases
      <4> QED
        BY <2>2, <2>3, <4>1 DEF FollowsStack, InBody
    <3>2. CASE BodyReturns \/ Catch
      <4>1. phase \in {"body", "unwind"} /\ phase' = "after" /\ sub' = sub
        BY <3>2 DEF BodyReturns, AtEnd, Catch, contextVars
      <4>2. DepthHere'
        BY <1>1, DepthRun DEF DepthInv, DepthHere
      <4>3. sub.stack = <<>>
        BY <4>1, <4>2 DEF DepthHere
      <4> QED
        BY <2>2, <2>3, <4>1, <4>3 DEF FollowsStack, InBody
    <3>3. CASE ~StartPass /\ ~BodyReturns /\ ~Catch
      <4>1. ~InBody /\ ~InBody'
        BY <1>7, <3>3 DEF RunStep, RunNothing, CollectTests, SkipTest, ListTest, AtTest,
           AfterPass, EndTest, LeaveTest, EndRun, InBody
      <4> QED
        BY <2>2, <2>3, <4>1 DEF FollowsStack, InBody
    <3> QED
      BY <3>1, <3>2, <3>3
  <2> QED
    BY <2>2, <2>3, <2>4, <2>5
<1> QED
  BY <1>4, <1>5, <1>6, <1>7

(* The steps of Subcase and of the exceptions tell the reporters of the    *)
(* stack.                                                                  *)
LEMMA HeaderMove ==
    ASSUME TypeOK, SkipInv, PointsInv, HeaderInv, fatal.by # Main, ~Ended, MoveStep
    PROVE  HeaderInv'
<1>1. /\ fatal.pc = "no" /\ fatal' = fatal /\ asserting' = asserting /\ cur' = cur
      /\ InBody /\ InBody' /\ \A t \in Threads : asserting[t] = Idle
  BY MoveAlone
<1>2. \A t \in Threads : asserting'[t].pc # "logging"
  BY <1>1 DEF Idle
<1>3. SUFFICES ASSUME NEW r \in ConsoleReporters'
               PROVE  IsConsole(rep'[r]) /\ rep'[r].tc = cur.test /\ FollowsStack(rep[r])'
  BY <1>1, <1>2, HeaderPrimed DEF FollowsRun
<1>4. r \in ConsoleReporters => IsConsole(rep[r]) /\ FollowsStack(rep[r]) /\ rep[r].tc = cur.test
  BY <1>1, HeaderParts DEF FollowsRun, InTest
<1>5. {"stack", "passed", "maxLevel", "reenter"} \subseteq DOMAIN sub
  BY StackLength
<1>6. CASE SkipSubcase \/ BeginContext \/ DestroyContext \/ Throw
  <2>1. /\ rep' = rep /\ sub'.stack = sub.stack
        /\ phase' = phase \/ (phase = "body" /\ phase' = "unwind")
    BY <1>5, <1>6 DEF SkipSubcase, BeginContext, DestroyContext, Throw, AtStatement, reportVars,
                      contextVars, runVars
  <2>2. r \in ConsoleReporters
    BY <2>1 DEF ConsoleReporters
  <2>3. CASE phase \in {"body", "unwind"}
    <3>1. phase' \in {"body", "unwind"}
      BY <2>1, <2>3
    <3> QED
      BY <1>4, <2>1, <2>2, <2>3, <3>1 DEF FollowsStack, InBody
  <2>4. phase \in {"body", "unwind"}
    BY <1>6 DEF SkipSubcase, BeginContext, DestroyContext, Throw, Leaving, AtEnd, AtStatement
  <2> QED
    BY <2>3, <2>4
<1>7. CASE EnterSubcase
  <2>1. /\ rep' = rep /\ sub'.stack = Append(sub.stack, Signature) /\ phase = "body" /\ phase' = "entering"
        /\ ip' = ip /\ i' = i /\ testArray' = testArray
    BY <1>5, <1>7 DEF EnterSubcase, AtStatement, reportVars
  <2>2. r \in ConsoleReporters
    BY <2>1 DEF ConsoleReporters
  <2>3. Signature' = Signature
    BY <2>1 DEF Signature, Statement, Test
  <2> QED
    BY <1>4, <2>1, <2>2, <2>3 DEF FollowsStack, InBody
<1>8. CASE EnteredSubcase
  <2>1. /\ Notify([on |-> "subcase_start", signature |-> Signature]) /\ phase = "entering" /\ phase' = "body"
        /\ sub' = sub
    BY <1>8 DEF EnteredSubcase, Report, Pending, contextVars
  <2>2. r \in ConsoleReporters /\ rep'[r] = ToConsole(rep[r], [on |-> "subcase_start", signature |-> Signature])
    BY <2>1, ToldConsoles
  <2>3. IsConsole(rep'[r]) /\ rep'[r].tc = rep[r].tc /\ rep'[r].subcasesStack = Append(rep[r].subcasesStack, Signature)
    BY <1>4, <2>2, ConsoleEnter
  <2>4. sub.stack = Append(rep[r].subcasesStack, Signature)
    BY <1>4, <2>1, <2>2 DEF FollowsStack
  <2> QED
    BY <1>4, <2>1, <2>2, <2>3, <2>4 DEF FollowsStack, InBody
<1>9. CASE LeaveSubcase
  <2>1. /\ sub'.stack = Front(sub.stack) /\ phase \in {"body", "unwind"} /\ phase' = "leaving" /\ rep' = rep
    BY <1>5, <1>9 DEF LeaveSubcase, Leaving, AtStatement, reportVars
  <2>2. r \in ConsoleReporters
    BY <2>1 DEF ConsoleReporters
  <2> QED
    BY <1>4, <2>1, <2>2 DEF FollowsStack, InBody
<1>10. CASE AnnounceException
  <2>1. Notify(ExceptionEvent) /\ phase = "leaving" /\ phase' = phase /\ sub'.stack = sub.stack
    BY <1>5, <1>10 DEF AnnounceException, Report, Pending, runVars
  <2>2. ExceptionEvent.on = "test_case_exception"
    BY DEF ExceptionEvent
  <2>3. r \in ConsoleReporters /\ rep'[r] = ToConsole(rep[r], ExceptionEvent)
    BY <2>1, ToldConsoles
  <2>4. IsConsole(rep'[r]) /\ rep'[r].tc = rep[r].tc /\ rep'[r].subcasesStack = rep[r].subcasesStack
    BY <1>4, <2>2, <2>3, ConsoleOther
  <2> QED
    BY <1>4, <2>1, <2>3, <2>4 DEF FollowsStack, InBody
<1>11. CASE LockReporters
  <2>1. /\ rep' = rep /\ sub' = sub /\ phase \in {"entering", "leaving"}
        /\ UNCHANGED <<phase, ip, i, testArray>>
    BY <1>11 DEF LockReporters, contextVars, runVars
  <2>2. r \in ConsoleReporters
    BY <2>1 DEF ConsoleReporters
  <2>3. Signature' = Signature
    BY <2>1 DEF Signature, Statement, Test
  <2> QED
    BY <1>4, <2>1, <2>2, <2>3 DEF FollowsStack, InBody
<1>12. CASE LeftSubcase
  <2>1. /\ Notify([on |-> "subcase_end"]) /\ phase = "leaving" /\ phase' \in {"body", "unwind"}
        /\ sub' = sub
    BY <1>12 DEF LeftSubcase, Report, Pending, contextVars
  <2>2. r \in ConsoleReporters /\ rep'[r] = ToConsole(rep[r], [on |-> "subcase_end"])
    BY <2>1, ToldConsoles
  <2>3. IsConsole(rep'[r]) /\ rep'[r].tc = rep[r].tc /\ rep'[r].subcasesStack = Front(rep[r].subcasesStack)
    BY <1>4, <2>2, ConsoleLeave
  <2>4. sub.stack = Front(rep[r].subcasesStack)
    BY <1>4, <2>1, <2>2 DEF FollowsStack
  <2> QED
    BY <1>4, <2>1, <2>2, <2>3, <2>4 DEF FollowsStack, InBody
<1> QED
  BY <1>6, <1>7, <1>8, <1>9, <1>12, <1>10, <1>11 DEF MoveStep

(* Steps that tell the reporters nothing, during which no thread begins to *)
(* log.                                                                    *)
LEMMA HeaderQuiet ==
    ASSUME TypeOK, SkipInv, PointsInv, HeaderInv, ~Ended,
           \/ SkipAssertion \/ MakeAssertion \/ throwException \/ CreateThreads \/ JoinThreads
           \/ Interrupt \/ \E w \in Workers : Terminate(w)
    PROVE  HeaderInv'
<1>1. /\ rep' = rep
  BY DEF SkipAssertion, MakeAssertion, throwException, CreateThreads, JoinThreads, Interrupt, Terminate,
         reportVars
<1>2. SUFFICES ASSUME NEW r \in ConsoleReporters, fatal'.pc = "no"
               PROVE  FollowsRun(rep[r])'
  <2>1. ConsoleReporters' = ConsoleReporters
    BY <1>1 DEF ConsoleReporters
  <2> QED
    BY <1>1, <2>1, HeaderParts, HeaderPrimed
<1>3. /\ SkipAssertion \/ MakeAssertion \/ throwException \/ CreateThreads \/ JoinThreads
      /\ fatal.pc = "no"
  <2>1. fatal'.pc # "no" \/ SkipAssertion \/ MakeAssertion \/ throwException \/ CreateThreads \/ JoinThreads
    BY SignalStays
  <2>2. SkipAssertion \/ MakeAssertion \/ throwException \/ CreateThreads \/ JoinThreads => fatal'.pc = fatal.pc
    BY DEF SkipAssertion, MakeAssertion, throwException, CreateThreads, JoinThreads, TypeOK
  <2> QED
    BY <1>2, <2>1, <2>2
<1>4. phase = "body"
  BY <1>3 DEF SkipAssertion, MakeAssertion, throwException, CreateThreads, JoinThreads, AtStatement,
         PointsInv, Working, Ended, Idle
<1>5. FollowsRun(rep[r])
  BY <1>2, <1>3, HeaderParts
<1>6. /\ phase' \in {"body", "unwind"} /\ cur' = cur
      /\ sub'.stack = sub.stack
  <2>1. {"stack", "passed", "maxLevel", "reenter"} \subseteq DOMAIN sub
    BY StackLength
  <2> QED
    BY <1>3, <1>4, <2>1 DEF SkipAssertion, MakeAssertion, throwException, CreateThreads, JoinThreads,
                            contextVars
<1>7. \A t \in Threads : asserting'[t].pc = "logging" => asserting[t].pc = "logging"
  <2>1. CASE MakeAssertion
    <3> DEFINE b == Begun(Statement.at, Statement.kind, Statement.result)
    <3>1. asserting' = [asserting EXCEPT ![Main] = b]
      BY <2>1 DEF MakeAssertion
    <3>2. b.pc # "logging"
      BY DEF Begun
    <3> HIDE DEF b
    <3> QED
      BY <3>1, <3>2 DEF TypeOK, Threads
  <2>2. CASE CreateThreads
    <3> TAKE t \in Threads
    <3> DEFINE b == Begun("check", "normal", Statement.results[t])
    <3>1. asserting'[t] = IF t = Main THEN Idle ELSE b
      BY <2>2 DEF CreateThreads
    <3>2. b.pc # "logging" /\ Idle.pc # "logging"
      BY DEF Begun, Idle
    <3> HIDE DEF b
    <3> QED
      BY <3>1, <3>2
  <2>3. CASE throwException
    <3>1. asserting' = [asserting EXCEPT ![Main] = Idle] /\ Idle.pc # "logging"
      BY <2>3 DEF throwException, Idle
    <3> QED
      BY <3>1 DEF TypeOK, Threads
  <2>4. CASE SkipAssertion \/ JoinThreads
    BY <2>4 DEF SkipAssertion, JoinThreads
  <2> QED
    BY <1>3, <2>1, <2>2, <2>3, <2>4
<1>8. FollowsStack(rep[r])'
  <2>1. rep[r].subcasesStack = sub.stack
    BY <1>4, <1>5 DEF FollowsRun, FollowsStack
  <2> QED
    BY <1>1, <1>6, <2>1 DEF FollowsStack, InBody
<1>9. InTest /\ InTest'
  BY <1>4, <1>6 DEF InTest, InBody
<1> QED
  BY <1>1, <1>5, <1>6, <1>7, <1>8, <1>9 DEF FollowsRun

(* An assertion is logged under the header of the moment.                  *)
LEMMA HeaderAssert ==
    ASSUME TypeOK, SkipInv, PointsInv, HeaderInv, ~Ended, NEW t \in Threads, AssertStep(t)
    PROVE  HeaderInv'
<1>1. Working(t) /\ asserting[t] \in Assertions
  BY AssertWorks, WorkingMakes
<1>2. phase = "body"
  BY <1>1 DEF Threads, PointsInv, Ended, Confined
<1>3. /\ UNCHANGED <<sub, phase, fatal>>
  BY DEF AssertStep, AddAssert, LogSkipped, Log, Logged, AddFailedAssert, AssertReturns, contextVars, runVars
<1>4. cur'.test = cur.test
  BY DEF AssertStep, AddAssert, LogSkipped, Log, Logged, AddFailedAssert, AssertReturns, contextVars, TypeOK
<1>5. SUFFICES ASSUME NEW r \in ConsoleReporters'
               PROVE  /\ IsConsole(rep'[r])
                      /\ fatal.pc = "no" => /\ rep'[r].tc = cur.test /\ rep'[r].subcasesStack = sub.stack
                                            /\ \A u \in Threads : asserting'[u].pc = "logging" =>
                                                   rep'[r].header = <<cur.test, sub.stack>>
  BY <1>2, <1>3, <1>4, HeaderPrimed DEF FollowsRun, FollowsStack, InBody, InTest
<1>6. r \in ConsoleReporters
  BY ToldConsoles DEF AssertStep, AddAssert, LogSkipped, Log, Logged, AddFailedAssert, AssertReturns,
         reportVars, ConsoleReporters
<1>7. /\ IsConsole(rep[r])
      /\ fatal.pc = "no" => /\ rep[r].tc = cur.test /\ rep[r].subcasesStack = sub.stack
                            /\ \A u \in Threads : asserting[u].pc = "logging" =>
                                   rep[r].header = <<cur.test, sub.stack>>
  BY <1>2, <1>6, HeaderParts DEF FollowsRun, FollowsStack, InTest, InBody
<1>8. CASE Log(t)
  <2> DEFINE e == [on |-> "log", element |-> Element(t), contexts |-> ActiveContexts(t),
              parts |-> IF IsMessage(t) THEN <<"Text">>
                        ELSE ExpressionParts(asserting[t].kind, asserting[t].threw)]
  <2>1. Notify(e)
    BY <1>8 DEF Log
  <2>2. e.on = "log"
    OBVIOUS
  <2> HIDE DEF e
  <2>3. /\ IsConsole(rep'[r]) /\ rep'[r].tc = rep[r].tc /\ rep'[r].subcasesStack = rep[r].subcasesStack
        /\ rep'[r].header = <<rep[r].tc, rep[r].subcasesStack>>
    BY <1>6, <1>7, <2>1, <2>2, ToldConsoles, ConsoleLogs
  <2> QED
    BY <1>7, <2>3
<1>9. CASE ~Log(t)
  <2>1. rep'[r] = rep[r]
    <3>1. CASE Logged(t)
      <4> DEFINE e == [on |-> "log_ends", element |-> Element(t)]
      <4>1. Notify(e)
        BY <3>1 DEF Logged
      <4>2. e.on = "log_ends"
        OBVIOUS
      <4> HIDE DEF e
      <4>3. rep'[r] = ToConsole(rep[r], e)
        BY <4>1, ToldConsoles
      <4> QED
        BY <4>2, <4>3 DEF ToConsole
    <3>2. CASE ~Logged(t)
      BY <1>9, <3>2 DEF AssertStep, AddAssert, LogSkipped, AddFailedAssert, AssertReturns, reportVars
    <3> QED
      BY <3>1, <3>2
  <2>2. \A u \in Threads : asserting'[u].pc = "logging" => asserting[u].pc = "logging"
    <3>1. CASE AssertReturns(t)
      <4>1. asserting' = [asserting EXCEPT ![t] = Idle] /\ Idle.pc # "logging"
        BY <3>1 DEF AssertReturns, Idle
      <4> QED
        BY <4>1 DEF TypeOK
    <3>2. CASE ~AssertReturns(t)
      <4>1. PICK pc \in {"log", "failed", "react"} : asserting' = [asserting EXCEPT ![t].pc = pc]
        BY <1>9, <3>2 DEF AssertStep, AddAssert, LogSkipped, Logged, AddFailedAssert
      <4>2. asserting'[t].pc = pc /\ \A u \in Threads : u # t => asserting'[u] = asserting[u]
        BY <1>1, <4>1 DEF TypeOK, Assertions
      <4> QED
        BY <4>2
    <3> QED
      BY <3>1, <3>2
  <2> QED
    BY <1>7, <2>1, <2>2
<1> QED
  BY <1>8, <1>9

(* The handler of a signal unwinds the stack for the reporters too.        *)
LEMMA HeaderFatal ==
    ASSUME TypeOK, PointsInv, HeaderInv, ~Ended, FatalStep
    PROVE  HeaderInv'
<1>1. fatal'.pc # "no"
  BY SignalStays
<1>2. SUFFICES ASSUME NEW r \in ConsoleReporters' PROVE IsConsole(rep'[r])
  BY <1>1, HeaderPrimed
<1>3. /\ r \in ConsoleReporters
      /\ IsConsole(rep[r]) => IsConsole(rep'[r])
  <2>1. ASSUME NEW e, Notify(e),
               e.on \in {"test_case_end", "test_case_exception", "test_run_end"}
        PROVE  r \in ConsoleReporters /\ (IsConsole(rep[r]) => IsConsole(rep'[r]))
    BY <2>1, ToldConsoles, ConsoleOther
  <2>2. ASSUME Notify([on |-> "subcase_end"])
        PROVE  r \in ConsoleReporters /\ (IsConsole(rep[r]) => IsConsole(rep'[r]))
    BY <2>2, ToldConsoles, ConsoleLeave
  <2>3. CASE FatalException \/ FatalPop
    <3>1. Notify(ExceptionEvent) \/ Notify([on |-> "subcase_end"])
      BY <2>3 DEF FatalException, FatalPop, FatalEvent
    <3>2. ExceptionEvent.on = "test_case_exception"
      BY DEF ExceptionEvent
    <3> QED
      BY <2>1, <2>2, <3>1, <3>2
  <2>4. CASE FatalFinalize
    BY <2>4 DEF FatalFinalize, reportVars, ConsoleReporters
  <2>5. CASE FatalTestEnd
    <3> DEFINE e == [on |-> "test_case_end", flags |-> cur.flags]
    <3>1. Notify(e) /\ e.on = "test_case_end"
      BY <2>5 DEF FatalTestEnd
    <3> HIDE DEF e
    <3> QED
      BY <2>1, <3>1
  <2>6. CASE FatalRunEnd
    <3> DEFINE e == [on |-> "test_run_end", stats |-> stats]
    <3>1. Notify(e) /\ e.on = "test_run_end"
      BY <2>6 DEF FatalRunEnd
    <3> HIDE DEF e
    <3> QED
      BY <2>1, <3>1
  <2> QED
    BY <2>3, <2>4, <2>5, <2>6 DEF FatalStep
<1> QED
  BY <1>3, HeaderParts

(* Every step keeps HeaderInv.                                             *)
LEMMA HeaderSteps ==
    ASSUME TypeOK, SkipInv, PointsInv, DepthInv, HeaderInv, [Next]_vars
    PROVE  HeaderInv'
<1>1. CASE UNCHANGED vars
  <2>1. UNCHANGED <<testArray, i, cur, sub, fatal, phase, ip, rep, asserting>>
    BY <1>1 DEF vars, contextVars, runVars, reportVars
  <2>2. ConsoleReporters' = ConsoleReporters /\ Signature' = Signature /\ (InTest' <=> InTest) /\ (InBody' <=> InBody)
    BY <2>1 DEF ConsoleReporters, Signature, Statement, Test, InTest, InBody
  <2>3. \A r \in ConsoleReporters : FollowsRun(rep[r])' <=> FollowsRun(rep[r])
    BY <2>1, <2>2 DEF FollowsRun, FollowsStack
  <2> QED
    BY <2>1, <2>2, <2>3, HeaderParts, HeaderPrimed
<1>2. CASE MainStep
  <2>1. ~Ended /\ fatal.by # Main /\ (RunStep \/ BodyStep)
    BY <1>2 DEF MainStep
  <2>2. CASE RunStep
    BY <2>1, <2>2, HeaderRun
  <2>3. CASE MoveStep
    BY <2>1, <2>3, HeaderMove
  <2>4. CASE SkipAssertion \/ MakeAssertion \/ throwException \/ CreateThreads \/ JoinThreads
    BY <2>1, <2>4, HeaderQuiet
  <2>5. CASE AssertStep(Main)
    BY <2>1, <2>5, HeaderAssert DEF Threads
  <2> QED
    BY <2>1, <2>2, <2>3, <2>4, <2>5 DEF BodyStep, MoveStep
<1>3. ASSUME NEW w \in Workers, WorkerStep(w) PROVE HeaderInv'
  <2>1. CASE AssertStep(w)
    BY <1>3, <2>1, HeaderAssert DEF Threads, WorkerStep
  <2>2. CASE Terminate(w)
    BY <1>3, <2>2, HeaderQuiet DEF WorkerStep
  <2> QED
    BY <1>3, <2>1, <2>2 DEF WorkerStep
<1>4. CASE HandlerStep
  BY <1>4, HeaderFatal DEF HandlerStep
<1>5. CASE ~Ended /\ Interrupt
  BY <1>5, HeaderQuiet
<1> QED
  BY <1>1, <1>2, <1>3, <1>4, <1>5 DEF Next

-----------------------------------------------------------------------------
(* The reporters' mutexes.                                                 *)

(* An event reaches all reporters, and registers none.                     *)
LEMMA Told ==
    ASSUME NEW e, Notify(e)
    PROVE  /\ DOMAIN rep' = DOMAIN rep
           /\ "xml" \in DOMAIN rep => rep'["xml"] = ToXml(rep["xml"], e)
BY DEF Notify

(* The reporters that the options choose are registered ones.              *)
LEMMA UsedAreRegistered == ReportersUsed \subseteq DOMAIN Reporters
BY DEF ReportersUsed

(* The same reporters, holders and threads that log.                       *)
LEMMA MutexFrame ==
    ASSUME MutexInv, DOMAIN rep' = DOMAIN rep, holder' = holder, phase' = "run" => phase = "run",
           MayTell => MayTell',
           \A t \in Threads : asserting'[t].pc = "logging" <=> asserting[t].pc = "logging"
    PROVE  MutexInv'
BY DEF MutexInv

(* Nobody holds a mutex while no thread logs and main is not in Subcase.   *)
LEMMA NobodyHolds ==
    ASSUME MutexInv, ~MayTell, \A t \in Threads : asserting[t].pc # "logging"
    PROVE  \A r \in DOMAIN Reporters : \A t \in Threads : holder[r] # t
BY DEF MutexInv

(* Run tells its reporters of all but the first and the last step.         *)
LEMMA RunReporters ==
    ASSUME RunStep
    PROVE  /\ DOMAIN rep' = DOMAIN rep \/ UseReporters \/ Cleanup
           /\ phase' # "run" /\ ~MayTell
<1>1. ASSUME NEW e, Notify(e) PROVE DOMAIN rep' = DOMAIN rep
  BY <1>1, Told
<1>2. CASE RunNothing \/ CollectTests \/ SkipTest \/ StartTest \/ LeaveTest \/ EndRun \/ Catch
  BY <1>1, <1>2 DEF RunNothing, CollectTests, SkipTest, AtTest, StartTest, LeaveTest, EndRun, Catch, MayTell
<1>3. CASE ListTest \/ StartPass \/ BodyReturns \/ AfterPass \/ EndTest
  BY <1>3 DEF ListTest, AtTest, StartPass, BodyReturns, AtEnd, AfterPass, EndTest, reportVars, MayTell
<1>4. CASE UseReporters \/ Cleanup
  BY <1>4 DEF UseReporters, Cleanup, MayTell
<1> QED
  BY <1>2, <1>3, <1>4 DEF RunStep

(* No step of run takes a mutex.                                           *)
LEMMA MutexRun ==
    ASSUME TypeOK, PointsInv, MutexInv, fatal.by # Main, ~Ended, RunStep
    PROVE  MutexInv'
<1>1. /\ asserting' = asserting /\ holder' = holder
      /\ \A t \in Threads : asserting[t] = Idle
  BY RunAlone
<1>2. Idle.pc # "logging"
  BY DEF Idle
<1>3. CASE DOMAIN rep' = DOMAIN rep
  BY <1>1, <1>3, RunReporters, MutexFrame
<1>4. CASE UseReporters \/ Cleanup
  <2>1. DOMAIN rep' \subseteq DOMAIN Reporters
    <3>1. CASE UseReporters
      BY <3>1, UsedAreRegistered DEF UseReporters
    <3>2. CASE Cleanup
      <4>1. rep' = <<>>
        BY <3>2 DEF Cleanup
      <4> QED
        BY <4>1
    <3> QED
      BY <1>4, <3>1, <3>2
  <2> QED
    BY <1>1, <1>2, <2>1, RunReporters, NobodyHolds DEF MutexInv
<1> QED
  BY <1>3, <1>4, RunReporters

(* No step of Subcase creates a reporter.                                  *)
LEMMA MoveReporters ==
    ASSUME MoveStep
    PROVE  DOMAIN rep' = DOMAIN rep
<1>1. ASSUME NEW e, Notify(e) PROVE DOMAIN rep' = DOMAIN rep
  BY <1>1, Told
<1> QED
  BY <1>1 DEF MoveStep, SkipSubcase, EnterSubcase, EnteredSubcase, LeaveSubcase, AnnounceException,
              LeftSubcase, LockReporters, Report, BeginContext, DestroyContext, Throw, reportVars

(* Main takes and returns the mutexes of the reporters in use.             *)
LEMMA MutexMove ==
    ASSUME TypeOK, PointsInv, MutexInv, fatal.by # Main, ~Ended, MoveStep
    PROVE  MutexInv'
<1>1. /\ asserting' = asserting /\ InBody' /\ phase' # "run"
      /\ \A t \in Threads : asserting[t].pc # "logging"
  BY MoveAlone DEF InBody, Idle
<1>2. /\ DOMAIN rep' = DOMAIN rep /\ DOMAIN rep \subseteq DOMAIN Reporters
  BY MoveReporters DEF MutexInv
<1>3. Nobody \notin Threads
  BY DoctestAssumption DEF Threads
<1>4. \A r \in DOMAIN Reporters : \A t \in Threads : holder[r] = t => t = Main /\ r \in DOMAIN rep
  BY <1>1 DEF MutexInv
<1>5. \A r \in DOMAIN Reporters : \A t \in Threads :
          holder'[r] = t => t = Main /\ r \in DOMAIN rep /\ MayTell'
  <2>1. CASE LockReporters
    BY <1>4, <2>1, HolderMoves DEF MayTell
  <2>2. CASE EnteredSubcase \/ AnnounceException \/ LeftSubcase
    BY <1>3, <1>4, <2>2, HolderMoves
  <2>3. CASE holder' = holder /\ phase \in {"body", "unwind"}
    BY <1>1, <2>3, NobodyHolds DEF MayTell
  <2> QED
    BY <2>1, <2>2, <2>3, HolderMoves
<1> QED
  BY <1>1, <1>2, <1>5 DEF MutexInv

(* The steps that tell the reporters nothing.                              *)
QuietStep ==
    \/ SkipAssertion \/ MakeAssertion \/ throwException \/ CreateThreads \/ JoinThreads
    \/ Interrupt \/ \E w \in Workers : Terminate(w)

(* Such a step leaves alone whoever logs.                                  *)
LEMMA QuietLogging ==
    ASSUME TypeOK, PointsInv, ~Ended, fatal.by # Main \/ ~CreateThreads, QuietStep
    PROVE  /\ rep' = rep /\ holder' = holder
           /\ \A t \in Threads : /\ asserting'[t].pc = "logging" <=> asserting[t].pc = "logging"
                                 /\ asserting[t].pc = "logging" => asserting'[t] = asserting[t]
<1>1. /\ rep' = rep /\ holder' = holder
  BY DEF QuietStep, SkipAssertion, MakeAssertion, throwException, CreateThreads, JoinThreads, Interrupt,
         Terminate, reportVars
<1>2. Idle.pc # "logging" /\ \A at, kind, result : Begun(at, kind, result).pc # "logging"
  BY DEF Idle, Begun
<1>3. CASE MakeAssertion
  <2>1. PICK b : asserting' = [asserting EXCEPT ![Main] = b] /\ b.pc # "logging"
    BY <1>2, <1>3 DEF MakeAssertion
  <2>2. asserting[Main].pc # "logging"
    BY <1>2, <1>3 DEF MakeAssertion, AtStatement
  <2> QED
    BY <1>1, <2>1, <2>2 DEF TypeOK, Threads
<1>4. CASE throwException
  <2>1. asserting' = [asserting EXCEPT ![Main] = Idle] /\ asserting[Main].pc # "logging"
    BY <1>4 DEF throwException
  <2> QED
    BY <1>1, <1>2, <2>1 DEF TypeOK, Threads
<1>5. CASE CreateThreads
  <2>1. \A w \in Workers : ~Working(w)
    BY <1>5, Solo DEF SoloStep
  <2>2. \A t \in Threads : asserting[t] = Idle
    BY <1>5, <2>1 DEF Threads, Working, CreateThreads, AtStatement
  <2>3. \A t \in Threads : asserting'[t].pc # "logging"
    <3> TAKE t \in Threads
    <3>1. asserting'[t] = IF t = Main THEN Idle ELSE Begun("check", "normal", Statement.results[t])
      BY <1>5 DEF CreateThreads
    <3> QED
      BY <1>2, <3>1
  <2> QED
    BY <1>1, <1>2, <2>2, <2>3
<1>6. CASE SkipAssertion \/ JoinThreads \/ Interrupt
  BY <1>1, <1>6 DEF SkipAssertion, JoinThreads, Interrupt
<1>7. ASSUME NEW w \in Workers, Terminate(w)
      PROVE  \A t \in Threads : /\ asserting'[t].pc = "logging" <=> asserting[t].pc = "logging"
                                /\ asserting[t].pc = "logging" => asserting'[t] = asserting[t]
  <2>1. /\ asserting' = [asserting EXCEPT ![w].pc = "aborted"] /\ asserting[w].pc = "react"
        /\ w \in Threads
    BY <1>7 DEF Terminate, Threads
  <2>2. asserting[w] \in Assertions
    BY <2>1, WorkingMakes DEF Working, Idle
  <2>3. asserting'[w].pc = "aborted"
    BY <2>1, <2>2 DEF TypeOK, Assertions
  <2> QED
    BY <2>1, <2>3 DEF TypeOK
<1> QED
  BY <1>1, <1>3, <1>4, <1>5, <1>6, <1>7 DEF QuietStep

(* What a thread's step does to the others and to its own place.           *)
LEMMA AssertMoves ==
    ASSUME TypeOK, NEW t \in Threads, AssertStep(t)
    PROVE  /\ \A u \in Threads : u # t => asserting'[u] = asserting[u]
           /\ Log(t) => asserting'[t] = [asserting[t] EXCEPT !.pc = "logging"]
           /\ ~Log(t) => asserting'[t].pc # "logging"
           /\ Log(t) => asserting[t].pc = "log"
           /\ Logged(t) <=> asserting[t].pc = "logging"
           /\ ~Log(t) /\ ~Logged(t) => rep' = rep /\ holder' = holder
           /\ DOMAIN rep' = DOMAIN rep
           /\ phase' = phase /\ fatal' = fatal /\ sub' = sub /\ p' = p /\ cur'.test = cur.test
<1>1. asserting[t] \in Assertions
  BY AssertWorks, WorkingMakes
<1>2. CASE AssertReturns(t)
  <2>1. asserting' = [asserting EXCEPT ![t] = Idle] /\ Idle.pc # "logging" /\ asserting[t].pc = "react"
    BY <1>2 DEF AssertReturns, Idle
  <2>2. UNCHANGED <<rep, holder, phase, fatal, sub, cur, p>>
    BY <1>2 DEF AssertReturns, contextVars, runVars, reportVars
  <2> QED
    BY <2>1, <2>2 DEF TypeOK, Log, Logged
<1>3. CASE ~AssertReturns(t)
  <2>1. PICK pc \in {"log", "logging", "failed", "react"} :
          /\ asserting' = [asserting EXCEPT ![t].pc = pc]
          /\ pc = "logging" <=> Log(t)
    BY <1>3 DEF AssertStep, AddAssert, LogSkipped, Log, Logged, AddFailedAssert
  <2>2. asserting'[t] = [asserting[t] EXCEPT !.pc = pc] /\ asserting'[t].pc = pc
        /\ \A u \in Threads : u # t => asserting'[u] = asserting[u]
    BY <1>1, <2>1 DEF TypeOK, Assertions
  <2>3. Logged(t) <=> asserting[t].pc = "logging"
    BY <1>3 DEF AssertStep, AddAssert, LogSkipped, Log, Logged, AddFailedAssert
  <2>4. UNCHANGED <<phase, fatal, sub, p>> /\ (~Log(t) /\ ~Logged(t) => UNCHANGED <<rep, holder>>)
    BY <1>3 DEF AssertStep, AddAssert, LogSkipped, Log, Logged, AddFailedAssert, contextVars, runVars,
                reportVars
  <2>5. cur'.test = cur.test
    BY <1>3 DEF AssertStep, AddAssert, LogSkipped, Log, Logged, AddFailedAssert, contextVars, TypeOK
  <2>6. DOMAIN rep' = DOMAIN rep
    <3>1. ASSUME NEW e, Notify(e) PROVE DOMAIN rep' = DOMAIN rep
      BY <3>1, Told
    <3> QED
      BY <1>3, <2>4, <3>1 DEF Log, Logged
  <2> QED
    BY <2>1, <2>2, <2>3, <2>4, <2>5, <2>6 DEF Log
<1> QED
  BY <1>2, <1>3

(* Who enters a method that takes the mutexes finds them free.             *)
LEMMA EnteredFree ==
    ASSUME MutexInv, NEW e, e.on = "log", MayEnter(e)
    PROVE  \A r \in DOMAIN rep : holder[r] = Nobody
<1>1. \A r \in DOMAIN Reporters : "log" \in Locking[r]
  BY DEF Reporters, Locking
<1> QED
  BY <1>1 DEF MutexInv, MayEnter

(* Who begins to log takes every reporter's mutex, and nobody else is      *)
(* logging.                                                                *)
LEMMA MutexLog ==
    ASSUME TypeOK, MutexInv, NEW t \in Threads, Log(t)
    PROVE  /\ MutexInv'
           /\ \A u \in Threads : asserting[u].pc # "logging"
<1>1. /\ \A u \in Threads : u # t => asserting'[u] = asserting[u]
      /\ asserting'[t] = [asserting[t] EXCEPT !.pc = "logging"] /\ asserting[t].pc = "log"
      /\ DOMAIN rep' = DOMAIN rep /\ phase' = phase
  BY AssertMoves DEF AssertStep
<1>2. DOMAIN rep # {} /\ holder' = [r \in DOMAIN holder |-> IF r \in DOMAIN rep THEN t ELSE holder[r]]
  BY DEF Log, SaysNothing
<1>3. \A r \in DOMAIN rep : holder[r] = Nobody
  <2> DEFINE e == [on |-> "log", element |-> Element(t), contexts |-> ActiveContexts(t),
              parts |-> IF IsMessage(t) THEN <<"Text">>
                        ELSE ExpressionParts(asserting[t].kind, asserting[t].threw)]
  <2>1. MayEnter(e)
    BY DEF Log
  <2>2. e.on = "log"
    OBVIOUS
  <2> HIDE DEF e
  <2> QED
    BY <2>1, <2>2, EnteredFree
<1>4. Nobody \notin Threads
  BY DoctestAssumption DEF Threads
<1>5. \A u \in Threads : asserting[u].pc # "logging"
  <2>1. PICK r \in DOMAIN rep : holder[r] = Nobody
    BY <1>2, <1>3
  <2> QED
    BY <1>4, <2>1 DEF MutexInv
<1>6. asserting'[t].pc = "logging"
  <2>1. Working(t)
    BY <1>1 DEF Working, Idle
  <2>2. asserting[t] \in Assertions
    BY <2>1, WorkingMakes
  <2> QED
    BY <1>1, <2>2 DEF Assertions
<1>7. \A u \in Threads : asserting'[u].pc = "logging" <=> u = t
  BY <1>1, <1>5, <1>6
<1>8. DOMAIN holder = DOMAIN Reporters /\ DOMAIN rep \subseteq DOMAIN Reporters
      /\ \A r \in DOMAIN Reporters \ DOMAIN rep : holder[r] \notin Threads
  BY DEF TypeOK, MutexInv
<1>9. \A r \in DOMAIN Reporters : \A u \in Threads :
          holder'[r] = u <=> r \in DOMAIN rep' /\ asserting'[u].pc = "logging"
  BY <1>1, <1>2, <1>7, <1>8
<1> QED
  BY <1>1, <1>5, <1>8, <1>9 DEF MutexInv

(* Who is done gives them back.                                            *)
LEMMA MutexLogged ==
    ASSUME TypeOK, MutexInv, NEW t \in Threads, Logged(t)
    PROVE  MutexInv'
<1>1. /\ \A u \in Threads : u # t => asserting'[u] = asserting[u]
      /\ asserting'[t].pc # "logging" /\ asserting[t].pc = "logging"
      /\ DOMAIN rep' = DOMAIN rep /\ phase' = phase
  BY AssertMoves DEF AssertStep, Log, Logged
<1>2. holder' = [r \in DOMAIN holder |-> IF holder[r] = t THEN Nobody ELSE holder[r]]
  BY DEF Logged, ReleasedBy
<1>3. Nobody \notin Threads /\ DOMAIN holder = DOMAIN Reporters
  BY DoctestAssumption DEF Threads, TypeOK
<1>4. \A r \in DOMAIN Reporters : \A u \in Threads :
          holder'[r] = u <=> r \in DOMAIN rep' /\ asserting'[u].pc = "logging"
  <2> TAKE r \in DOMAIN Reporters
  <2> TAKE u \in Threads
  <2>1. holder'[r] = IF holder[r] = t THEN Nobody ELSE holder[r]
    BY <1>2, <1>3
  <2>2. /\ holder[r] = t <=> r \in DOMAIN rep
        /\ (r \in DOMAIN rep /\ asserting[u].pc = "logging") => holder[r] = u
        /\ holder[r] = u => r \in DOMAIN rep
    BY <1>1 DEF MutexInv
  <2>3. CASE u = t
    BY <1>1, <1>3, <2>1, <2>3
  <2>4. CASE u # t
    BY <1>1, <1>3, <2>1, <2>2, <2>4
  <2> QED
    BY <2>3, <2>4
<1> QED
  BY <1>1, <1>4 DEF MutexInv

(* The other steps of an assertion take no mutex.                          *)
LEMMA MutexAssert ==
    ASSUME TypeOK, MutexInv, NEW t \in Threads, AssertStep(t)
    PROVE  MutexInv'
<1>1. CASE ~Log(t) /\ ~Logged(t)
  BY <1>1, AssertMoves, MutexFrame DEF MayTell
<1> QED
  BY <1>1, MutexLog, MutexLogged

(* The handler takes no mutex either: a reporter's stays with who was      *)
(* logging.                                                                *)
LEMMA FatalReporters ==
    ASSUME FatalStep
    PROVE  /\ DOMAIN rep' = DOMAIN rep /\ holder' = holder /\ asserting' = asserting /\ p' = p
           /\ phase' \in {phase, "killed"}
<1>1. ASSUME NEW e, Notify(e) PROVE DOMAIN rep' = DOMAIN rep
  BY <1>1, Told
<1>2. CASE FatalFinalize
  BY <1>2 DEF FatalFinalize, reportVars, runVars
<1>3. CASE FatalException \/ FatalPop \/ FatalTestEnd \/ FatalRunEnd
  BY <1>1, <1>3 DEF FatalException, FatalPop, FatalTestEnd, FatalRunEnd, runVars, contextVars
<1> QED
  BY <1>2, <1>3 DEF FatalStep

(* Where a quiet step leaves run.                                          *)
LEMMA QuietPhase ==
    ASSUME TypeOK, PointsInv, ~Ended, QuietStep
    PROVE  phase' \in {phase, "unwind", "killed"} /\ p' = p /\ (MayTell => MayTell')
<1>1. CASE SkipAssertion \/ MakeAssertion \/ CreateThreads \/ JoinThreads
  BY <1>1 DEF SkipAssertion, MakeAssertion, CreateThreads, JoinThreads, AtStatement, contextVars, MayTell
<1>2. CASE throwException
  BY <1>2 DEF throwException, PointsInv, Working, Ended, Idle, MayTell
<1>3. CASE Interrupt \/ \E w \in Workers : Terminate(w)
  BY <1>3 DEF Interrupt, Terminate, HandleSignal, MayTell
<1> QED
  BY <1>1, <1>2, <1>3 DEF QuietStep

(* Every step keeps MutexInv.                                              *)
LEMMA MutexSteps ==
    ASSUME TypeOK, PointsInv, MutexInv, [Next]_vars
    PROVE  MutexInv'
<1>1. CASE UNCHANGED vars
  BY <1>1 DEF vars, runVars, reportVars, MutexInv, MayTell
<1>2. CASE MainStep
  <2>1. ~Ended /\ fatal.by # Main /\ (RunStep \/ BodyStep)
    BY <1>2 DEF MainStep
  <2>2. CASE RunStep
    BY <2>1, <2>2, MutexRun
  <2>3. CASE MoveStep
    BY <2>1, <2>3, MutexMove
  <2>4. CASE SkipAssertion \/ MakeAssertion \/ throwException \/ CreateThreads \/ JoinThreads
    BY <2>1, <2>4, QuietLogging, QuietPhase, MutexFrame DEF QuietStep
  <2>5. CASE AssertStep(Main)
    BY <2>5, MutexAssert DEF Threads
  <2> QED
    BY <2>1, <2>2, <2>3, <2>4, <2>5 DEF BodyStep, MoveStep
<1>3. ASSUME NEW w \in Workers, WorkerStep(w) PROVE MutexInv'
  <2>1. CASE AssertStep(w)
    BY <2>1, MutexAssert DEF Threads
  <2>2. CASE Terminate(w)
    <3>1. ~CreateThreads /\ ~Ended
      BY <1>3, <2>2 DEF CreateThreads, AtStatement, Terminate, WorkerStep, HandleSignal
    <3> QED
      BY <2>2, <3>1, QuietLogging, QuietPhase, MutexFrame DEF QuietStep
  <2> QED
    BY <1>3, <2>1, <2>2 DEF WorkerStep
<1>4. CASE HandlerStep
  BY <1>4, FatalReporters, MutexFrame DEF HandlerStep, MayTell
<1>5. CASE ~Ended /\ Interrupt
  <2>1. ~CreateThreads
    BY <1>5 DEF CreateThreads, AtStatement, Interrupt, HandleSignal
  <2> QED
    BY <1>5, <2>1, QuietLogging, QuietPhase, MutexFrame DEF QuietStep
<1> QED
  BY <1>1, <1>2, <1>3, <1>4, <1>5 DEF Next

-----------------------------------------------------------------------------
(* g_infoContexts.                                                         *)

(* INFO pushes on g_infoContexts and the end of its scope pops.            *)
LEMMA InfosSteps ==
    ASSUME InfosInv, [Next]_vars
    PROVE  InfosInv'
<1>1. \/ /\ {"infos", "stringified"} \subseteq DOMAIN sub' /\ sub'.infos = sub.infos
         /\ sub'.stringified = sub.stringified \/ sub'.stringified = <<>>
      \/ BeginContext \/ DestroyContext
  <2>1. CASE UNCHANGED vars
    BY <2>1 DEF vars, contextVars, InfosInv
  <2>2. CASE RunStep
    BY <2>2 DEF RunStep, UseReporters, RunNothing, CollectTests, SkipTest, ListTest, StartTest, StartPass,
         BodyReturns, Catch, AfterPass, EndTest, LeaveTest, EndRun, Cleanup, contextVars, InfosInv,
         ResetSubcases, NoSubcases
  <2>3. CASE BodyStep
    BY <2>3 DEF BodyStep, SkipSubcase, EnterSubcase, EnteredSubcase, LeaveSubcase, AnnounceException,
                LeftSubcase, LockReporters, Throw, SkipAssertion, MakeAssertion, CreateThreads, JoinThreads,
                throwException, AssertStep, AddAssert, LogSkipped, Log, Logged, AddFailedAssert,
                AssertReturns, contextVars, InfosInv
  <2>4. ASSUME NEW w \in Workers, WorkerStep(w)
        PROVE  /\ {"infos", "stringified"} \subseteq DOMAIN sub' /\ sub'.infos = sub.infos
               /\ sub'.stringified = sub.stringified
    BY <2>4 DEF WorkerStep, AssertStep, AddAssert, LogSkipped, Log, Logged, AddFailedAssert, AssertReturns,
                Terminate, contextVars, InfosInv
  <2>5. CASE FatalStep \/ Interrupt
    BY <2>5 DEF FatalStep, FatalException, FatalPop, FatalFinalize, FatalTestEnd, FatalRunEnd, Interrupt,
         contextVars, InfosInv
  <2> QED
    BY <2>1, <2>2, <2>3, <2>4, <2>5 DEF Next, MainStep, HandlerStep
<1>2. CASE BeginContext
  <2>1. PICK c : sub' = [sub EXCEPT !.infos = Append(@, c)]
    BY <1>2 DEF BeginContext
  <2>2. /\ {"infos", "stringified"} \subseteq DOMAIN sub'
        /\ sub'.infos = Append(sub.infos, c) /\ sub'.stringified = sub.stringified
    BY <2>1 DEF InfosInv
  <2> QED
    BY <2>2, Pushed DEF InfosInv
<1>3. CASE DestroyContext
  <2>1. PICK k : sub' = [sub EXCEPT !.infos = Front(@), !.stringified = k]
                 /\ (k = sub.stringified \/ k = Append(sub.stringified, Last(sub.infos).text))
    BY <1>3 DEF DestroyContext
  <2>2. /\ {"infos", "stringified"} \subseteq DOMAIN sub'
        /\ sub'.infos = Front(sub.infos) /\ sub.infos # <<>> /\ sub'.stringified = k
    BY <1>3, <2>1 DEF DestroyContext, InfoOnTop, InfosInv
  <2>3. k \in Seq(ToSet(k))
    BY <2>1, Pushed DEF InfosInv
  <2> QED
    BY <2>2, <2>3, Popped DEF InfosInv
<1>4. <<>> \in Seq(ToSet(<<>>))
  BY EmptySeq
<1> QED
  BY <1>1, <1>2, <1>3, <1>4 DEF InfosInv

(* No context is stacked at first.                                         *)
LEMMA InfosInit == Init => InfosInv
<1>1. Init => {"infos", "stringified"} \subseteq DOMAIN sub /\ sub.infos = <<>> /\ sub.stringified = <<>>
  BY DEF Init, NoSubcases
<1> QED
  BY <1>1, EmptySeq DEF InfosInv

-----------------------------------------------------------------------------
(* A crash that is reported with nobody in between.                        *)

(* What is so while a signal is handled with no other thread at work.      *)
CalmFatal ==
    /\ phase \notin {"entering", "leaving"}
    /\ \A t \in Threads \ {fatal.by} : ~Working(t)
    /\ ("xml" \in DOMAIN rep /\ fatal.pc # "exception") => holder["xml"] = Nobody
    /\ phase = "killed" => fatal.pc = "run_end"

(* CalmInv by its parts, and the same after a step.                        *)
LEMMA CalmParts ==
    CalmInv <=> /\ fatal.pc \in {"end", "run_end"} => sub.stack = <<>>
                /\ (fatal.pc # "no" /\ fatal.calm) => CalmFatal
BY DEF CalmInv, CalmFatal

(* The same after a step.                                                  *)
LEMMA CalmPrimed ==
    ASSUME fatal'.pc \in {"end", "run_end"} => sub'.stack = <<>>,
           (fatal'.pc # "no" /\ fatal'.calm) => CalmFatal'
    PROVE  CalmInv'
BY DEF CalmInv, CalmFatal

(* A step that changes nothing CalmInv speaks of.                          *)
LEMMA CalmFrame ==
    ASSUME CalmInv, fatal' = fatal, sub'.stack = sub.stack, phase' = phase, DOMAIN rep' = DOMAIN rep,
           (fatal.pc # "no" /\ fatal.calm) => asserting' = asserting /\ holder' = holder
    PROVE  CalmInv'
<1>1. (fatal.pc # "no" /\ fatal.calm) => CalmFatal'
  BY CalmParts DEF CalmFatal, Working
<1> QED
  BY <1>1, CalmParts, CalmPrimed

(* Main's steps: when main has raised the signal itself it takes none.     *)
LEMMA CalmMain ==
    ASSUME TypeOK, SkipInv, PointsInv, CalmInv, MainStep
    PROVE  CalmInv'
<1>1. ~Ended /\ fatal.by # Main /\ (RunStep \/ BodyStep)
  BY DEF MainStep
<1>2. ASSUME fatal.pc = "no", fatal' = fatal
      PROVE  CalmInv'
  BY <1>2, CalmPrimed
<1>3. CASE RunStep
  BY <1>1, <1>2, <1>3, RunAlone
<1>4. CASE MoveStep
  BY <1>1, <1>2, <1>4, MoveAlone
<1>5. CASE throwException \/ CreateThreads
  <2>1. fatal.pc = "no"
    BY <1>1, <1>5, Solo DEF SoloStep
  <2> QED
    BY <1>2, <1>5, <2>1 DEF throwException, CreateThreads
<1>6. CASE SkipAssertion \/ JoinThreads
  BY <1>6, CalmFrame DEF SkipAssertion, JoinThreads, contextVars, reportVars
<1>7. CASE MakeAssertion
  <2>1. /\ fatal' = [fatal EXCEPT !.calm = @ /\ fatal.pc = "no"] /\ sub' = sub
    BY <1>7 DEF MakeAssertion, contextVars
  <2>2. fatal'.pc = fatal.pc /\ (fatal.pc # "no" => ~fatal'.calm)
    BY <2>1 DEF TypeOK
  <2> QED
    BY <2>1, <2>2, CalmParts, CalmPrimed
<1>8. CASE AssertStep(Main)
  <2>1. Working(Main) /\ Main \in Threads
    BY <1>8, AssertWorks DEF Threads
  <2>2. ~(fatal.pc # "no" /\ fatal.calm)
    BY <1>1, <2>1, CalmParts DEF CalmFatal
  <2> QED
    BY <1>8, <2>1, <2>2, AssertMoves, CalmFrame
<1> QED
  BY <1>1, <1>3, <1>4, <1>5, <1>6, <1>7, <1>8 DEF BodyStep, MoveStep

(* A thread's steps: none is at work in a calm crash, except the one that  *)
(* raised it.                                                              *)
LEMMA CalmWorker ==
    ASSUME TypeOK, SkipInv, PointsInv, CalmInv, NEW w \in Workers, WorkerStep(w)
    PROVE  CalmInv'
<1>1. w \in Threads /\ fatal.by # w /\ ~Ended /\ (AssertStep(w) \/ Terminate(w))
  BY DEF WorkerStep, Threads
<1>2. Working(w)
  BY <1>1, AssertWorks DEF Terminate, Working, Idle
<1>3. ~(fatal.pc # "no" /\ fatal.calm)
  BY <1>1, <1>2, CalmParts DEF CalmFatal
<1>4. CASE AssertStep(w)
  BY <1>1, <1>3, <1>4, AssertMoves, CalmFrame
<1>5. CASE Terminate(w)
  <2>1. /\ asserting' = [asserting EXCEPT ![w].pc = "aborted"] /\ sub'.stack = sub.stack
        /\ rep' = rep
    BY <1>5, StackLength DEF Terminate, reportVars
  <2>2. \/ fatal.pc = "no" /\ isSet /\ phase' = phase
        \/ fatal.pc # "no" /\ phase' = "killed" /\ fatal' = fatal
    BY <1>1, <1>5, TerminatePoints
  <2>3. CASE fatal.pc # "no"
    <3>1. fatal' = fatal
      BY <2>2, <2>3
    <3> QED
      BY <1>3, <2>1, <2>3, <3>1, CalmParts, CalmPrimed
  <2>4. CASE fatal.pc = "no"
    <3>1. isSet /\ phase' = phase /\ HandleSignal(w)
      BY <1>5, <2>2, <2>4 DEF Terminate
    <3>2. fatal' = [pc |-> "exception", by |-> w, calm |-> Calm(w)]
      BY <3>1 DEF HandleSignal
    <3>3. Calm(w) => CalmFatal'
      <4>1. \A t \in Threads \ {w} : asserting'[t] = asserting[t]
        BY <2>1 DEF TypeOK
      <4>2. fatal'.by = w /\ fatal'.pc = "exception"
        BY <3>2
      <4>3. phase # "killed"
        BY <1>1 DEF Ended
      <4> QED
        BY <3>1, <4>1, <4>2, <4>3 DEF Calm, CalmFatal, Working
    <3>4. fatal'.pc = "exception" /\ fatal'.calm = Calm(w)
      BY <3>2
    <3> QED
      BY <3>3, <3>4, CalmPrimed
  <2> QED
    BY <2>3, <2>4
<1> QED
  BY <1>1, <1>4, <1>5

(* The handler's own steps.                                                *)
LEMMA CalmHandler ==
    ASSUME TypeOK, PointsInv, MutexInv, CalmInv, ~Ended, FatalStep
    PROVE  CalmInv'
<1>1. /\ InBody /\ DOMAIN rep' = DOMAIN rep /\ holder' = holder /\ asserting' = asserting
      /\ fatal'.by = fatal.by /\ fatal.pc # "no"
  BY FatalPoints, FatalReporters
<1>2. fatal'.calm = fatal.calm /\ (fatal.calm => CalmFatal)
  <2>1. fatal'.calm = fatal.calm
    BY DEF FatalStep, FatalException, FatalPop, FatalFinalize, FatalTestEnd, FatalRunEnd, TypeOK
  <2> QED
    BY <1>1, <2>1, CalmParts
<1>3. CASE FatalException
  <2>1. fatal'.pc = "pop" /\ phase' = phase
    BY <1>3 DEF FatalException, runVars, TypeOK
  <2>2. "xml" \in DOMAIN rep => holder["xml"] = Nobody
    <3>1. MayEnter(ExceptionEvent) /\ ExceptionEvent.on = "test_case_exception"
      BY <1>3 DEF FatalException, FatalEvent, ExceptionEvent
    <3>2. "test_case_exception" \in Locking["xml"]
      BY DEF Locking
    <3> QED
      BY <3>1, <3>2 DEF MayEnter
  <2>3. fatal.calm => CalmFatal'
    BY <1>1, <1>2, <2>1, <2>2 DEF CalmFatal, Working, InBody
  <2> QED
    BY <1>2, <2>1, <2>3, CalmPrimed
<1>4. CASE FatalPop \/ FatalFinalize \/ FatalTestEnd \/ FatalRunEnd
  <2>1. /\ fatal.pc # "exception" /\ fatal'.pc # "exception"
        /\ phase' = phase \/ (phase' = "killed" /\ fatal'.pc = "run_end")
    BY <1>4 DEF FatalPop, FatalFinalize, FatalTestEnd, FatalRunEnd, runVars, TypeOK
  <2>2. fatal.calm => CalmFatal'
    BY <1>1, <1>2, <2>1 DEF CalmFatal, Working, InBody
  <2>3. fatal'.pc \in {"end", "run_end"} => sub'.stack = <<>>
    BY <1>4, CalmParts DEF FatalPop, FatalFinalize, FatalTestEnd, FatalRunEnd, contextVars, TypeOK
  <2> QED
    BY <1>2, <2>2, <2>3, CalmPrimed
<1> QED
  BY <1>3, <1>4 DEF FatalStep

(* Every step keeps CalmInv.                                               *)
LEMMA CalmSteps ==
    ASSUME TypeOK, SkipInv, PointsInv, MutexInv, CalmInv, [Next]_vars
    PROVE  CalmInv'
<1>1. CASE UNCHANGED vars
  BY <1>1, CalmFrame DEF vars, contextVars, runVars, reportVars
<1>2. CASE ~Ended /\ Interrupt
  <2>1. /\ phase' = phase /\ isSet /\ HandleSignal(Main) /\ asserting' = asserting
    BY <1>2, InterruptPoints DEF Interrupt
  <2>2. fatal' = [pc |-> "exception", by |-> Main, calm |-> Calm(Main)]
    BY <2>1 DEF HandleSignal
  <2>3. fatal'.pc = "exception" /\ fatal'.by = Main /\ fatal'.calm = Calm(Main)
    BY <2>2
  <2>4. Calm(Main) => CalmFatal'
    BY <1>2, <2>1, <2>3 DEF Calm, CalmFatal, Working, Ended
  <2> QED
    BY <2>3, <2>4, CalmPrimed
<1> QED
  BY <1>1, <1>2, CalmMain, CalmWorker, CalmHandler DEF Next, HandlerStep

-----------------------------------------------------------------------------
(* The XML writer.                                                         *)

(* A set of natural numbers has a least one.                               *)
LEMMA LeastNatural ==
  ASSUME NEW S, S \subseteq Nat, S # {}
  PROVE  \E x \in S : \A y \in S : x <= y
<1>1. \E x \in S : \A y \in S : ~(<<y, x>> \in OpToRel(<, Nat))
  BY NatLessThanWellFounded, WFMin, Zenon
<1>2. PICK x \in S : \A y \in S : ~(<<y, x>> \in OpToRel(<, Nat))
  BY <1>1, Zenon
<1>3. OpToRel(<, Nat) = {ss \in Nat \X Nat : ss[1] < ss[2]}
  BY Zenon DEF OpToRel
<1>4. \A y \in S : ~(y < x)
  <2> SUFFICES ASSUME NEW y \in S, y < x PROVE FALSE
    OBVIOUS
  <2> DEFINE pair == <<y, x>>
  <2>1. pair \in Nat \X Nat /\ pair[1] < pair[2]
    OBVIOUS
  <2>2. pair \in {ss \in Nat \X Nat : ss[1] < ss[2]}
    BY <2>1
  <2> QED
    BY <1>2, <1>3, <2>2, Zenon
<1>5. \A y \in S : x <= y
  BY <1>4
<1> QED
  BY <1>5

(* A document in which nothing has gone wrong.                             *)
IsXml(x) == DOMAIN x = {"tags", "tagIsOpen", "wrong", "tc"} /\ x.wrong = {}

(* What may be open.                                                       *)
Tags == {"doctest", "TestSuite", "TestCase", "SubCase", "Expression", "Message"}

(* One with the same open elements and the same test case.                 *)
Alike(x, y) == IsXml(y) /\ y.tags = x.tags /\ y.tc = x.tc

(* The element that was started last is the one that is ended first.       *)
LEMMA LastPushed ==
    ASSUME NEW T \in Seq(Tags), NEW name
    PROVE  /\ Append(T, name) # <<>> /\ Last(Append(T, name)) = name /\ Front(Append(T, name)) = T
<1> DEFINE S == Tags \cup {name}
           A == Append(T, name)
<1>1. T \in Seq(S) /\ name \in S
  BY SeqMonotonic
<1> HIDE DEF S
<1>2. A \in Seq(S) /\ Len(A) = Len(T) + 1 /\ Len(T) \in Nat /\ A[Len(T) + 1] = name
      /\ \A k \in 1..Len(T) : A[k] = T[k]
  BY <1>1, LenProperties
<1>3. A # <<>>
  BY <1>2, EmptySeq
<1>4. Last(A) = name
  BY <1>2 DEF Last
<1>5. Front(A) = T
  <2> DEFINE n == Len(T)
  <2>1. n \in Nat /\ Len(A) = n + 1
    BY <1>2
  <2>2. Front(A) = SubSeq(A, 1, n)
    <3>1. Len(A) - 1 = n
      BY <2>1
    <3> QED
      BY <3>1 DEF Front
  <2> HIDE DEF n
  <2>3. \A k \in 1..n : A[k] \in S
    BY <1>2, <2>1, ElementOfSeq
  <2>4. /\ SubSeq(A, 1, n) \in Seq(S)
        /\ Len(SubSeq(A, 1, n)) = IF 1 <= n THEN n - 1 + 1 ELSE 0
        /\ \A k \in 1..n - 1 + 1 : SubSeq(A, 1, n)[k] = A[1 + k - 1]
    BY <2>1, <2>3, SubSeqProperties
  <2>5. Len(SubSeq(A, 1, n)) = n /\ \A k \in 1..n : SubSeq(A, 1, n)[k] = A[k]
    BY <2>1, <2>4
  <2>6. n = Len(T)
    BY DEF n
  <2>7. \A k \in 1..Len(T) : SubSeq(A, 1, n)[k] = T[k]
    BY <1>2, <2>5, <2>6
  <2> QED
    BY <1>1, <2>2, <2>4, <2>5, <2>6, <2>7, SeqEqual
<1> QED
  BY <1>3, <1>4, <1>5

(* startElement pushes a tag and leaves it open.                           *)
LEMMA Starts ==
    ASSUME NEW x, IsXml(x), NEW name
    PROVE  LET d == startElement(x, name)
           IN IsXml(d) /\ d.tags = Append(x.tags, name) /\ d.tc = x.tc /\ d.tagIsOpen /\ writeAttribute(d) = d
BY DEF IsXml, startElement, writeAttribute

(* Closing a tag's bracket, or writing text, leaves the elements as they   *)
(* were.                                                                   *)
LEMMA Closes ==
    ASSUME NEW x, IsXml(x)
    PROVE  Alike(x, ensureTagClosed(x)) /\ Alike(x, writeText(x))
BY DEF IsXml, Alike, ensureTagClosed, writeText

(* endElement ends the element that was started last, and no other.        *)
LEMMA Ends ==
    ASSUME NEW x, IsXml(x), NEW T \in Seq(Tags), NEW name, x.tags = Append(T, name)
    PROVE  LET d == endElement(x, name)
           IN IsXml(d) /\ d.tags = T /\ d.tc = x.tc
<1>1. x.tags # <<>> /\ Last(x.tags) = name /\ Front(x.tags) = T
  BY LastPushed
<1>2. endElement(x, name) = [x EXCEPT !.tags = T, !.tagIsOpen = FALSE, !.wrong = {}]
  BY <1>1 DEF endElement, IsXml
<1> QED
  BY <1>2 DEF IsXml

(* An element that is started and ended in one scope leaves nothing open.  *)
LEMMA Scoped ==
    ASSUME NEW x, IsXml(x), x.tags \in Seq(Tags), NEW name
    PROVE  /\ scopedElement(x, name) = [x EXCEPT !.tagIsOpen = FALSE]
           /\ Alike(x, scopedElement(x, name))
<1> DEFINE d == startElement(x, name)
           c == [d EXCEPT !.tagIsOpen = FALSE]
<1>1. IsXml(d) /\ d.tags = Append(x.tags, name) /\ d.tc = x.tc /\ writeAttribute(d) = d
  BY Starts
<1>2. d = [x EXCEPT !.tags = Append(x.tags, name), !.tagIsOpen = TRUE]
  BY DEF startElement, IsXml
<1>3. scopedElement(x, name) = endElement(c, name)
  BY <1>1 DEF scopedElement, writeText, ensureTagClosed
<1>4. IsXml(c) /\ c.tags = Append(x.tags, name)
  BY <1>1, <1>2 DEF IsXml
<1>5. endElement(c, name) = [c EXCEPT !.tags = x.tags, !.tagIsOpen = FALSE]
  <2> HIDE DEF c
  <2>1. c.tags # <<>> /\ Last(c.tags) = name /\ Front(c.tags) = x.tags
    BY <1>4, LastPushed
  <2> QED
    BY <1>4, <2>1 DEF endElement, IsXml
<1>6. [c EXCEPT !.tags = x.tags, !.tagIsOpen = FALSE] = [x EXCEPT !.tagIsOpen = FALSE]
  <2> DEFINE a == [c EXCEPT !.tags = x.tags, !.tagIsOpen = FALSE]
             b == [x EXCEPT !.tagIsOpen = FALSE]
  <2>1. DOMAIN a = DOMAIN b
    BY <1>2
  <2>2. \A k \in DOMAIN b : a[k] = b[k]
    BY <1>2 DEF IsXml
  <2>3. a = [k \in DOMAIN b |-> b[k]]
    BY <2>1, <2>2
  <2>4. b = [k \in DOMAIN b |-> b[k]]
    OBVIOUS
  <2> QED
    BY <2>3, <2>4
<1> HIDE DEF c, d
<1>7. scopedElement(x, name) = [x EXCEPT !.tagIsOpen = FALSE]
  BY <1>3, <1>5, <1>6
<1> QED
  BY <1>7 DEF Alike, IsXml

(* However many elements of their own an assertion's parts are.            *)
LEMMA ScopedAll ==
    ASSUME NEW x, IsXml(x), x.tags \in Seq(Tags), NEW names, Len(names) \in Nat
    PROVE  Alike(x, scopedElements(x, names))
<1> DEFINE n == Len(names)
           y == [x EXCEPT !.tagIsOpen = FALSE]
           Is(f) == f = [k \in 0..n |-> IF k = 0 THEN x ELSE scopedElement(f[k - 1], names[k])]
           g == [k \in 0..n |-> IF k = 0 THEN x ELSE y]
           after == CHOOSE f : Is(f)
<1>1. scopedElements(x, names) = after[n]
  BY DEF scopedElements
<1>2. IsXml(y) /\ y.tags = x.tags /\ y.tc = x.tc /\ [y EXCEPT !.tagIsOpen = FALSE] = y
  BY DEF IsXml
<1>3. n \in Nat
  OBVIOUS
<1> HIDE DEF n, y
<1>4. \A name : scopedElement(x, name) = y /\ scopedElement(y, name) = y
  BY <1>2, Scoped DEF y
<1>5. Is(g)
  <2>1. \A k \in 0..n : k # 0 => k - 1 \in 0..n
    BY <1>3
  <2>2. \A k \in 0..n : k # 0 => scopedElement(g[k - 1], names[k]) = y
    BY <1>4, <2>1
  <2> HIDE DEF y
  <2> QED
    BY <2>2
<1> HIDE DEF g
<1>6. Is(after)
  BY <1>5, Zenon
<1> HIDE DEF after
<1>7. \A k \in 0..n : after[k] = IF k = 0 THEN x ELSE scopedElement(after[k - 1], names[k])
  BY <1>6
<1> DEFINE Bad == {k \in 0..n : after[k] # x /\ after[k] # y}
<1>8. Bad = {}
  <2> SUFFICES ASSUME Bad # {} PROVE FALSE
    OBVIOUS
  <2>1. Bad \subseteq Nat
    BY <1>3
  <2> HIDE DEF Bad
  <2>2. PICK k \in Bad : \A j \in Bad : k <= j
    BY <2>1, LeastNatural
  <2> USE DEF Bad
  <2>3. k \in 0..n /\ k # 0 /\ k - 1 \in 0..n /\ ~(k <= k - 1)
    BY <1>3, <1>7, <2>2
  <2>4. k - 1 \notin Bad
    BY <2>2, <2>3
  <2>5. after[k - 1] = x \/ after[k - 1] = y
    BY <2>3, <2>4
  <2>6. after[k] = y
    BY <1>4, <1>7, <2>3, <2>5
  <2> QED
    BY <2>2, <2>6
<1>9. after[n] = x \/ after[n] = y
  BY <1>3, <1>8
<1> QED
  BY <1>1, <1>2, <1>9 DEF Alike

(* The elements that are open while a test function runs.                  *)
ElementAt(k) == IF k = 1 THEN "doctest" ELSE IF k = 2 THEN "TestSuite" ELSE IF k = 3 THEN "TestCase" ELSE "SubCase"

(* One element more.                                                       *)
LEMMA NextElement ==
    ASSUME NEW n \in Nat
    PROVE  Elements(n) \in Seq(Tags) /\ Elements(n + 1) = Append(Elements(n), ElementAt(n + 1))
<1>1. \A m \in Nat : Elements(m) = [k \in 1..m |-> ElementAt(k)]
  <2> TAKE m \in Nat
  <2>1. \A k \in 1..m : (IF k <= 3 THEN <<"doctest", "TestSuite", "TestCase">>[k] ELSE "SubCase") = ElementAt(k)
    <3> TAKE k \in 1..m
    <3>1. k = 1 \/ k = 2 \/ k = 3 \/ k > 3
      OBVIOUS
    <3> QED
      BY <3>1 DEF ElementAt
  <2> QED
    BY <2>1 DEF Elements
<1>2. \A k : ElementAt(k) \in Tags
  BY DEF ElementAt, Tags
<1>3. \A m \in Nat : Elements(m) \in Seq(Tags) /\ Len(Elements(m)) = m
                     /\ \A k \in 1..m : Elements(m)[k] = ElementAt(k)
  <2> TAKE m \in Nat
  <2>1. Elements(m) \in [1..m -> Tags]
    BY <1>1, <1>2
  <2> QED
    BY <1>1, <2>1, SeqDef, LenProperties
<1> DEFINE A == Append(Elements(n), ElementAt(n + 1))
           B == Elements(n + 1)
<1>4. A \in Seq(Tags) /\ Len(A) = n + 1 /\ A[n + 1] = ElementAt(n + 1)
      /\ \A k \in 1..n : A[k] = Elements(n)[k]
  BY <1>2, <1>3
<1>5. B \in Seq(Tags) /\ Len(B) = n + 1 /\ \A k \in 1..n + 1 : B[k] = ElementAt(k)
  BY <1>3
<1>6. \A k \in 1..n : Elements(n)[k] = ElementAt(k)
  BY <1>3
<1> HIDE DEF A, B
<1>7. \A k \in 1..n + 1 : A[k] = B[k]
  BY <1>4, <1>5, <1>6
<1>8. A = B
  BY <1>4, <1>5, <1>7, SeqEqual
<1> QED
  BY <1>3, <1>8 DEF A, B

(* A document with the first n of them open.                               *)
Open(x, n) == IsXml(x) /\ x.tags = Elements(n)

(* No element is open in an empty document.                                *)
LEMMA NoElements == Elements(0) = <<>>
BY DEF Elements

(* Starting the next element, and ending the last one.                     *)
LEMMA Opened ==
    ASSUME NEW x, NEW n \in Nat, Open(x, n)
    PROVE  LET d == startElement(x, ElementAt(n + 1))
           IN Open(d, n + 1) /\ d.tc = x.tc /\ d.tagIsOpen /\ writeAttribute(d) = d
BY NextElement, Starts DEF Open

(* endElement takes it off again.                                          *)
LEMMA Closed ==
    ASSUME NEW x, NEW m \in Nat \ {0}, Open(x, m)
    PROVE  LET d == endElement(x, ElementAt(m)) IN Open(d, m - 1) /\ d.tc = x.tc
<1> DEFINE n == m - 1
<1>1. n \in Nat /\ n + 1 = m
  OBVIOUS
<1> HIDE DEF n
<1>2. x.tags = Append(Elements(n), ElementAt(m)) /\ Elements(n) \in Seq(Tags) /\ IsXml(x)
  BY <1>1, NextElement DEF Open
<1>3. Open(endElement(x, ElementAt(m)), n) /\ endElement(x, ElementAt(m)).tc = x.tc
  BY <1>2, Ends DEF Open
<1> QED
  BY <1>3 DEF n

(* Scoped elements and text leave the open elements as they were.          *)
LEMMA ScopedOpen ==
    ASSUME NEW x, NEW n \in Nat, Open(x, n), NEW name
    PROVE  Open(scopedElement(x, name), n) /\ scopedElement(x, name).tc = x.tc
<1>1. x.tags \in Seq(Tags) /\ IsXml(x)
  BY NextElement DEF Open
<1> QED
  BY <1>1, Scoped DEF Open, Alike

(* What is written inside an element leaves the open ones alone.           *)
LEMMA AlikeOpen ==
    ASSUME NEW x, NEW n, Open(x, n), NEW y, Alike(x, y)
    PROVE  Open(y, n) /\ y.tc = x.tc
BY DEF Open, Alike

(* test_run_start opens the root.                                          *)
LEMMA RunBegun ==
    ASSUME NEW x, Open(x, 0)
    PROVE  Open(xml_test_run_start(x), 1) /\ xml_test_run_start(x).tc = x.tc
<1> DEFINE d == startElement(x, "doctest")
<1>1. Open(d, 1) /\ d.tc = x.tc /\ writeAttribute(d) = d
  <2>1. ElementAt(1) = "doctest"
    BY DEF ElementAt
  <2> QED
    BY <2>1, Opened
<1> HIDE DEF d
<1>2. xml_test_run_start(x) = scopedElement(d, "Options")
  BY <1>1 DEF xml_test_run_start, d
<1> QED
  BY <1>1, <1>2, ScopedOpen

(* A test case begins, also one that is skipped.                           *)
LEMMA TestBegun ==
    ASSUME NEW x, NEW test,
           (x.tc = <<>> /\ Open(x, 1)) \/ (x.tc # <<>> /\ Open(x, 2))
    PROVE  LET d == test_case_start_impl(x, test)
           IN Open(d, 3) /\ d.tc = <<test>> /\ writeAttribute(d) = d
<1> DEFINE openTestSuite == x.tc = <<>> \/ x.tc[1].suite # test.suite
           left == IF x.tc # <<>> /\ openTestSuite THEN endElement(x, "TestSuite") ELSE x
           suite == IF openTestSuite THEN writeAttribute(startElement(left, "TestSuite")) ELSE left
           started == startElement(suite, "TestCase")
           d == test_case_start_impl(x, test)
<1>1. d = [writeAttribute(started) EXCEPT !.tc = <<test>>]
  BY DEF test_case_start_impl
<1>2. ElementAt(2) = "TestSuite" /\ ElementAt(3) = "TestCase"
  BY DEF ElementAt
<1>3. openTestSuite => Open(left, 1)
  <2>1. Open(x, 2) => Open(endElement(x, "TestSuite"), 1)
    BY <1>2, Closed
  <2> QED
    BY <2>1
<1>4. ~openTestSuite => Open(left, 2)
  OBVIOUS
<1> HIDE DEF openTestSuite, left
<1>5. Open(suite, 2)
  <2>1. CASE openTestSuite
    <3>1. Open(startElement(left, "TestSuite"), 2)
          /\ writeAttribute(startElement(left, "TestSuite")) = startElement(left, "TestSuite")
      BY <1>2, <1>3, <2>1, Opened
    <3> QED
      BY <2>1, <3>1
  <2> QED
    BY <1>4, <2>1
<1> HIDE DEF suite
<1>6. Open(started, 3) /\ started.tagIsOpen /\ writeAttribute(started) = started
  BY <1>2, <1>5, Opened
<1> HIDE DEF started, d
<1>7. IsXml(d) /\ d.tags = started.tags /\ d.tc = <<test>> /\ d.tagIsOpen
  BY <1>1, <1>6 DEF IsXml, Open
<1> QED
  BY <1>6, <1>7 DEF Open, d, writeAttribute

(* test_case_start opens the test suite, unless it is open, and the test   *)
(* case.                                                                   *)
LEMMA TestStarted ==
    ASSUME NEW x, NEW test,
           (x.tc = <<>> /\ Open(x, 1)) \/ (x.tc # <<>> /\ Open(x, 2))
    PROVE  Open(xml_test_case_start(x, test), 3) /\ xml_test_case_start(x, test).tc = <<test>>
<1> DEFINE d == test_case_start_impl(x, test)
<1>1. Open(d, 3) /\ d.tc = <<test>>
  BY TestBegun
<1>2. xml_test_case_start(x, test) = ensureTagClosed(d)
  BY DEF xml_test_case_start
<1> HIDE DEF d
<1>3. Alike(d, ensureTagClosed(d))
  BY <1>1, Closes DEF Open
<1> QED
  BY <1>1, <1>2, <1>3, AlikeOpen

(* test_case_skipped leaves its test case closed.                          *)
LEMMA TestSkipped ==
    ASSUME NEW x, NEW test, NEW summary,
           (x.tc = <<>> /\ Open(x, 1)) \/ (x.tc # <<>> /\ Open(x, 2))
    PROVE  LET d == xml_test_case_skipped(x, test, summary)
           IN (d.tc = <<>> /\ Open(d, 1)) \/ (d.tc # <<>> /\ Open(d, 2))
<1> DEFINE b == test_case_start_impl(x, test)
           d == endElement(b, "TestCase")
<1>1. Open(b, 3) /\ b.tc = <<test>> /\ writeAttribute(b) = b
  BY TestBegun
<1>2. xml_test_case_skipped(x, test, summary) = IF summary THEN x ELSE d
  BY <1>1 DEF xml_test_case_skipped
<1> HIDE DEF b
<1>3. Open(d, 2) /\ d.tc = <<test>>
  <2>1. ElementAt(3) = "TestCase"
    BY DEF ElementAt
  <2> QED
    BY <1>1, <2>1, Closed
<1> HIDE DEF d
<1>4. <<test>> # <<>>
  OBVIOUS
<1> QED
  BY <1>2, <1>3, <1>4

(* An element that the caller opens and closes without more in it.         *)
LEMMA Written ==
    ASSUME NEW x, NEW n \in Nat, Open(x, n), NEW name
    PROVE  LET d == endElement(writeAttribute(startElement(x, name)), name) IN Open(d, n) /\ d.tc = x.tc
<1> DEFINE s == startElement(x, name)
<1>1. IsXml(s) /\ s.tags = Append(x.tags, name) /\ s.tc = x.tc /\ writeAttribute(s) = s
  BY Starts DEF Open
<1> HIDE DEF s
<1>2. x.tags \in Seq(Tags) /\ x.tags = Elements(n)
  BY NextElement DEF Open
<1>3. IsXml(endElement(s, name)) /\ endElement(s, name).tags = x.tags /\ endElement(s, name).tc = s.tc
  BY <1>1, <1>2, Ends
<1> QED
  BY <1>1, <1>2, <1>3 DEF Open, s

(* test_case_end closes the test case.                                     *)
LEMMA TestEnded ==
    ASSUME NEW x, Open(x, 3)
    PROVE  Open(xml_test_case_end(x), 2) /\ xml_test_case_end(x).tc = x.tc
<1> DEFINE d == endElement(writeAttribute(startElement(x, "OverallResultsAsserts")), "OverallResultsAsserts")
<1>1. Open(d, 3) /\ d.tc = x.tc
  BY Written
<1>2. xml_test_case_end(x) = endElement(d, "TestCase")
  BY DEF xml_test_case_end
<1>3. ElementAt(3) = "TestCase"
  BY DEF ElementAt
<1> HIDE DEF d
<1> QED
  BY <1>1, <1>2, <1>3, Closed

(* subcase_start opens a SubCase and subcase_end closes it.                *)
LEMMA SubcaseBegun ==
    ASSUME NEW x, NEW n \in Nat, n >= 3, Open(x, n)
    PROVE  Open(xml_subcase_start(x), n + 1) /\ xml_subcase_start(x).tc = x.tc
<1> DEFINE d == startElement(x, "SubCase")
<1>1. ElementAt(n + 1) = "SubCase"
  BY DEF ElementAt
<1>2. Open(d, n + 1) /\ d.tc = x.tc /\ writeAttribute(d) = d
  BY <1>1, Opened
<1>3. xml_subcase_start(x) = ensureTagClosed(d)
  BY <1>2 DEF xml_subcase_start
<1> HIDE DEF d
<1>4. Alike(d, ensureTagClosed(d))
  BY <1>2, Closes DEF Open
<1> QED
  BY <1>2, <1>3, <1>4, AlikeOpen

(* The same at the end of a subcase.                                       *)
LEMMA SubcaseEnded ==
    ASSUME NEW x, NEW n \in Nat, n >= 3, Open(x, n + 1)
    PROVE  Open(xml_subcase_end(x), n) /\ xml_subcase_end(x).tc = x.tc
<1>1. ElementAt(n + 1) = "SubCase"
  BY DEF ElementAt
<1> QED
  BY <1>1, Closed DEF xml_subcase_end

(* report_query is a document of its own.                                  *)
LEMMA QueryReported ==
    ASSUME NEW x, Open(x, 0)
    PROVE  Open(xml_report_query(x), 0) /\ xml_report_query(x).tc = x.tc
<1> DEFINE d == xml_test_run_start(x)
           s == scopedElement(d, "OverallResultsTestCases")
<1>1. Open(d, 1) /\ d.tc = x.tc
  BY RunBegun
<1> HIDE DEF d
<1>2. Open(s, 1) /\ s.tc = x.tc
  BY <1>1, ScopedOpen
<1>3. ElementAt(1) = "doctest"
  BY DEF ElementAt
<1>4. xml_report_query(x) = endElement(s, "doctest")
  BY DEF xml_report_query, d
<1> HIDE DEF s
<1> QED
  BY <1>2, <1>3, <1>4, Closed

(* test_run_end closes the test suite, if one is open, and the root.       *)
LEMMA RunEnded ==
    ASSUME NEW x, (x.tc = <<>> /\ Open(x, 1)) \/ (x.tc # <<>> /\ Open(x, 2))
    PROVE  Open(xml_test_run_end(x), 0)
<1> DEFINE left == IF x.tc # <<>> THEN endElement(x, "TestSuite") ELSE x
           s == scopedElement(left, "OverallResultsAsserts")
           w == endElement(writeAttribute(startElement(s, "OverallResultsTestCases")), "OverallResultsTestCases")
<1>1. Open(left, 1)
  <2>1. ElementAt(2) = "TestSuite"
    BY DEF ElementAt
  <2>2. Open(x, 2) => Open(endElement(x, "TestSuite"), 1)
    BY <2>1, Closed
  <2> QED
    BY <2>2
<1>2. xml_test_run_end(x) = endElement(w, "doctest")
  BY DEF xml_test_run_end
<1> HIDE DEF left
<1>3. Open(s, 1)
  BY <1>1, ScopedOpen
<1> HIDE DEF s
<1>4. Open(w, 1)
  BY <1>3, Written
<1>5. ElementAt(1) = "doctest"
  BY DEF ElementAt
<1> HIDE DEF w
<1> QED
  BY <1>2, <1>4, <1>5, Closed

(* An assertion's or a message's element, up to its own end, and that end. *)
LEMMA LogBegun ==
    ASSUME NEW x, NEW n \in Nat, Open(x, n), NEW element \in Tags,
           NEW parts, Len(parts) \in Nat, NEW contexts, contexts \in Seq(ToSet(contexts))
    PROVE  LET d == xml_log(x, element, parts, contexts)
           IN IsXml(d) /\ d.tags = Append(Elements(n), element) /\ d.tc = x.tc
<1> DEFINE s == startElement(x, element)
           q == scopedElements(s, parts)
           names == [k \in DOMAIN contexts |-> "Info"]
<1>1. IsXml(s) /\ s.tags = Append(Elements(n), element) /\ s.tc = x.tc /\ writeAttribute(s) = s
  BY Starts DEF Open
<1>2. xml_log(x, element, parts, contexts) = scopedElements(q, names)
  BY <1>1 DEF xml_log, xml_log_contexts
<1> HIDE DEF s
<1>3. s.tags \in Seq(Tags)
  BY <1>1, NextElement
<1>4. Alike(s, q)
  BY <1>1, <1>3, ScopedAll
<1> HIDE DEF q
<1>5. Len(names) \in Nat
  <2>1. DOMAIN contexts = 1..Len(contexts) /\ Len(contexts) \in Nat
    BY LenProperties
  <2>2. names \in [1..Len(contexts) -> {"Info"}]
    BY <2>1
  <2> HIDE DEF names
  <2>3. names \in Seq({"Info"})
    BY <2>1, <2>2, SeqDef
  <2> QED
    BY <2>3, LenProperties
<1> HIDE DEF names
<1>6. IsXml(q) /\ q.tags \in Seq(Tags)
  BY <1>3, <1>4 DEF Alike
<1>7. Alike(q, scopedElements(q, names))
  BY <1>5, <1>6, ScopedAll
<1> QED
  BY <1>1, <1>2, <1>4, <1>7 DEF Alike

(* The end of log_assert and of log_message closes what they opened.       *)
LEMMA LogEnded ==
    ASSUME NEW x, NEW n \in Nat, NEW element, IsXml(x), x.tags = Append(Elements(n), element)
    PROVE  Open(xml_log_ends(x, element), n) /\ xml_log_ends(x, element).tc = x.tc
<1>1. Elements(n) \in Seq(Tags)
  BY NextElement
<1> QED
  BY <1>1, Ends DEF Open, xml_log_ends

-----------------------------------------------------------------------------
(* The XML document and the run.                                           *)

(* Some thread is inside log_assert or log_message.                        *)
Logging == \E t \in Threads : asserting[t].pc = "logging"

(* The reporter has a test case exactly when run has got so far.           *)
TcRight(x) == /\ phase = "start" \/ QueryMode => x.tc = <<>>
              /\ InTest => x.tc # <<>>
              /\ phase = "entering" => sub.stack # <<>>

(* XmlInv by its parts, and the same after a step.                         *)
LEMMA XmlParts ==
    ASSUME XmlInv, "xml" \in DOMAIN rep, fatal.calm
    PROVE  /\ IsXml(rep["xml"]) /\ TcRight(rep["xml"])
           /\ Logging => rep["xml"].tags = Append(Elements(OpenElements(rep["xml"])), Element(holder["xml"]))
           /\ ~Logging => Open(rep["xml"], OpenElements(rep["xml"]))
BY DEF XmlInv, IsXml, TcRight, Logging, NewXml, Open

(* The same after a step.                                                  *)
LEMMA XmlPrimed ==
    ASSUME ("xml" \in DOMAIN rep' /\ fatal'.calm) =>
               /\ IsXml(rep'["xml"]) /\ TcRight(rep["xml"])'
               /\ Logging' => rep'["xml"].tags = Append(Elements(OpenElements(rep["xml"])'), Element(holder["xml"])')
               /\ ~Logging' => rep'["xml"].tags = Elements(OpenElements(rep["xml"])')
    PROVE  XmlInv'
BY DEF XmlInv, IsXml, TcRight, Logging, NewXml, Elements

(* run's steps open and close the suite and the test cases.                *)
LEMMA XmlRun ==
    ASSUME TypeOK, SkipInv, PointsInv, DepthInv, XmlInv, fatal.by # Main, ~Ended, RunStep
    PROVE  XmlInv'
<1>1. /\ fatal.pc = "no" /\ fatal' = fatal /\ fatal.calm /\ ~Logging /\ ~Logging'
  <2>1. /\ fatal.pc = "no" /\ fatal' = fatal /\ asserting' = asserting /\ \A t \in Threads : asserting[t] = Idle
    BY RunAlone
  <2>2. Idle.pc # "logging" /\ fatal.calm
    BY <2>1 DEF Idle, PointsInv
  <2> QED
    BY <2>1, <2>2 DEF Logging
<1>2. QueryMode' <=> QueryMode
  BY DEF QueryMode, RunStep, UseReporters, RunNothing, CollectTests, SkipTest, ListTest, StartTest, StartPass,
         BodyReturns, Catch, AfterPass, EndTest, LeaveTest, EndRun, Cleanup, contextVars
<1> DEFINE n == OpenElements(rep["xml"])'
<1>3. SUFFICES ASSUME "xml" \in DOMAIN rep'
               PROVE  Open(rep'["xml"], n) /\ TcRight(rep["xml"])'
  BY <1>1, XmlPrimed DEF Open
<1>4. "xml" \in DOMAIN rep => Open(rep["xml"], OpenElements(rep["xml"])) /\ TcRight(rep["xml"])
  BY <1>1, XmlParts
<1>5. ASSUME NEW e, Notify(e)
      PROVE  "xml" \in DOMAIN rep /\ rep'["xml"] = ToXml(rep["xml"], e)
  BY <1>3, <1>5, Told
<1>6. InTest => ~QueryMode
  BY DEF PointsInv
<1>7. CASE UseReporters
  <2>1. rep'["xml"] = NewXml /\ phase' = "start"
    BY <1>3, <1>7 DEF UseReporters
  <2>2. n = 0 /\ ~InTest'
    BY <2>1 DEF OpenElements, InTest, InBody
  <2>3. Open(NewXml, 0) /\ NewXml.tc = <<>>
    BY NoElements DEF NewXml, Open, IsXml
  <2> QED
    BY <2>1, <2>2, <2>3 DEF TcRight
<1>8. CASE RunNothing
  <2> DEFINE e == [on |-> "report_query", names |-> <<>>]
  <2>1. Notify(e) /\ phase = "start" /\ phase' = "cleanup"
    BY <1>8 DEF RunNothing
  <2>2. \A x : ToXml(x, e) = xml_report_query(x)
    BY DEF ToXml
  <2> HIDE DEF e
  <2>3. "xml" \in DOMAIN rep /\ rep'["xml"] = xml_report_query(rep["xml"])
    BY <1>5, <2>1, <2>2
  <2>4. Open(rep["xml"], 0) /\ rep["xml"].tc = <<>>
    BY <1>4, <2>1, <2>3 DEF OpenElements, TcRight
  <2>5. n = 0 /\ ~InTest'
    BY <2>1 DEF OpenElements, InTest, InBody
  <2> QED
    BY <2>1, <2>3, <2>4, <2>5, QueryReported DEF TcRight
<1>9. CASE CollectTests
  <2>1. phase = "start" /\ phase' = "next" /\ ~InTest'
    BY <1>9 DEF CollectTests, InTest, InBody
  <2>2. CASE QueryMode
    <3>1. rep' = rep
      BY <1>9, <2>2 DEF CollectTests
    <3>2. Open(rep["xml"], 0) /\ rep["xml"].tc = <<>>
      BY <1>3, <1>4, <2>1, <3>1 DEF OpenElements, TcRight
    <3>3. n = 0
      BY <1>2, <2>1, <2>2 DEF OpenElements
    <3> QED
      BY <2>1, <3>1, <3>2, <3>3 DEF TcRight
  <2>3. CASE ~QueryMode
    <3> DEFINE e == [on |-> "test_run_start"]
    <3>1. Notify(e)
      BY <1>9, <2>3 DEF CollectTests
    <3>2. \A x : ToXml(x, e) = xml_test_run_start(x)
      BY DEF ToXml
    <3> HIDE DEF e
    <3>3. "xml" \in DOMAIN rep /\ rep'["xml"] = xml_test_run_start(rep["xml"])
      BY <1>5, <3>1, <3>2
    <3>4. Open(rep["xml"], 0) /\ rep["xml"].tc = <<>>
      BY <1>4, <2>1, <3>3 DEF OpenElements, TcRight
    <3>5. Open(rep'["xml"], 1) /\ rep'["xml"].tc = <<>>
      BY <3>3, <3>4, RunBegun
    <3>6. n = 1
      BY <1>2, <2>1, <2>3, <3>5 DEF OpenElements
    <3> QED
      BY <2>1, <3>5, <3>6 DEF TcRight
  <2> QED
    BY <2>2, <2>3
<1>10. CASE SkipTest
  <2>1. phase = "next" /\ phase' = "next" /\ ~InTest'
    BY <1>10 DEF SkipTest, AtTest, InTest, InBody
  <2>2. CASE QueryMode
    <3>1. rep' = rep
      BY <1>10, <2>2 DEF SkipTest
    <3>2. Open(rep["xml"], 0) /\ rep["xml"].tc = <<>>
      BY <1>3, <1>4, <2>1, <2>2, <3>1 DEF OpenElements, TcRight
    <3>3. n = 0
      BY <1>2, <2>1, <2>2 DEF OpenElements
    <3> QED
      BY <2>1, <3>1, <3>2, <3>3 DEF TcRight
  <2>3. CASE ~QueryMode
    <3> DEFINE e == [on |-> "test_case_skipped", test |-> Test]
    <3>1. Notify(e)
      BY <1>10, <2>3 DEF SkipTest
    <3>2. \A x : ToXml(x, e) = xml_test_case_skipped(x, Test, p.no_skipped_summary)
      BY DEF ToXml
    <3> HIDE DEF e
    <3>3. "xml" \in DOMAIN rep /\ rep'["xml"] = xml_test_case_skipped(rep["xml"], Test, p.no_skipped_summary)
      BY <1>5, <3>1, <3>2
    <3>4. (rep["xml"].tc = <<>> /\ Open(rep["xml"], 1)) \/ (rep["xml"].tc # <<>> /\ Open(rep["xml"], 2))
      BY <1>4, <2>1, <2>3, <3>3 DEF OpenElements
    <3>5. (rep'["xml"].tc = <<>> /\ Open(rep'["xml"], 1)) \/ (rep'["xml"].tc # <<>> /\ Open(rep'["xml"], 2))
      BY <3>3, <3>4, TestSkipped
    <3>6. n = IF rep'["xml"].tc = <<>> THEN 1 ELSE 2
      BY <1>2, <2>1, <2>3 DEF OpenElements
    <3> QED
      BY <1>2, <2>1, <2>3, <3>5, <3>6 DEF TcRight
  <2> QED
    BY <2>2, <2>3
<1>11. CASE ListTest
  <2>1. phase = "next" /\ phase' = "next" /\ QueryMode /\ rep' = rep /\ ~InTest'
    BY <1>11 DEF ListTest, AtTest, InTest, InBody, reportVars
  <2>2. Open(rep["xml"], 0) /\ rep["xml"].tc = <<>>
    BY <1>3, <1>4, <2>1 DEF OpenElements, TcRight
  <2>3. n = 0
    BY <1>2, <2>1 DEF OpenElements
  <2> QED
    BY <2>1, <2>2, <2>3 DEF TcRight
<1>12. CASE StartTest
  <2> DEFINE e == [on |-> "test_case_start", test |-> Test]
  <2>1. Notify(e) /\ phase = "next" /\ phase' = "pass" /\ ~QueryMode
    BY <1>12 DEF StartTest, AtTest
  <2>2. \A x : ToXml(x, e) = xml_test_case_start(x, Test)
    BY DEF ToXml
  <2> HIDE DEF e
  <2>3. "xml" \in DOMAIN rep /\ rep'["xml"] = xml_test_case_start(rep["xml"], Test)
    BY <1>5, <2>1, <2>2
  <2>4. (rep["xml"].tc = <<>> /\ Open(rep["xml"], 1)) \/ (rep["xml"].tc # <<>> /\ Open(rep["xml"], 2))
    BY <1>4, <2>1, <2>3 DEF OpenElements
  <2>5. Open(rep'["xml"], 3) /\ rep'["xml"].tc = <<Test>>
    BY <2>3, <2>4, TestStarted
  <2>6. n = 3 /\ <<Test>> # <<>>
    BY <2>1 DEF OpenElements
  <2> QED
    BY <1>2, <2>1, <2>5, <2>6 DEF TcRight
<1>13. CASE StartPass
  <2>1. phase = "pass" /\ phase' = "body" /\ sub'.stack = <<>> /\ rep' = rep
    BY <1>13 DEF StartPass, ResetSubcases, NoSubcases, reportVars
  <2>2. Open(rep["xml"], 3) /\ TcRight(rep["xml"])
    BY <1>3, <1>4, <2>1 DEF OpenElements
  <2>3. n = 3
    <3>1. Len(<<>>) = 0
      BY EmptySeq
    <3> QED
      BY <1>1, <2>1, <3>1 DEF OpenElements
  <2> QED
    BY <1>2, <2>1, <2>2, <2>3 DEF TcRight, InTest
<1>14. CASE BodyReturns \/ Catch
  <2>1. phase \in {"body", "unwind"} /\ phase' = "after" /\ sub' = sub
    BY <1>14 DEF BodyReturns, AtEnd, Catch, contextVars
  <2>2. sub.stack = <<>>
    <3>1. DepthHere'
      BY <1>1, DepthRun DEF DepthInv, DepthHere
    <3> QED
      BY <2>1, <3>1 DEF DepthHere
  <2>3. Len(<<>>) = 0
    BY EmptySeq
  <2>4. "xml" \in DOMAIN rep => Open(rep["xml"], 3)
    BY <1>1, <1>4, <2>1, <2>2, <2>3 DEF OpenElements
  <2>5. "xml" \in DOMAIN rep /\ Open(rep'["xml"], 3) /\ rep'["xml"].tc = rep["xml"].tc
    <3>1. CASE rep' = rep
      BY <1>3, <2>4, <3>1
    <3>2. CASE Notify(ExceptionEvent)
      <4>1. rep'["xml"] = scopedElement(rep["xml"], "Exception")
        BY <1>5, <3>2 DEF ToXml, ExceptionEvent, xml_test_case_exception
      <4> QED
        BY <1>5, <2>4, <3>2, <4>1, ScopedOpen
    <3>3. rep' = rep \/ Notify(ExceptionEvent)
      BY <1>14 DEF BodyReturns, Catch, reportVars
    <3> QED
      BY <3>1, <3>2, <3>3
  <2>6. n = 3
    BY <2>1 DEF OpenElements
  <2> QED
    BY <1>2, <1>4, <2>1, <2>5, <2>6 DEF TcRight, InTest, InBody
<1>15. CASE AfterPass \/ EndTest
  <2>1. phase \in {"after", "finalize"} /\ phase' \in {"pass", "finalize", "end"} /\ rep' = rep
    BY <1>15 DEF AfterPass, EndTest, reportVars
  <2>2. Open(rep["xml"], 3) /\ TcRight(rep["xml"])
    BY <1>3, <1>4, <2>1 DEF OpenElements
  <2>3. n = 3
    BY <2>1 DEF OpenElements
  <2> QED
    BY <1>2, <2>1, <2>2, <2>3 DEF TcRight, InTest
<1>16. CASE LeaveTest
  <2> DEFINE e == [on |-> "test_case_end", flags |-> cur.flags]
  <2>1. Notify(e) /\ phase = "end" /\ phase' \in {"next", "last"}
    BY <1>16 DEF LeaveTest
  <2>2. \A x : ToXml(x, e) = xml_test_case_end(x)
    BY DEF ToXml
  <2> HIDE DEF e
  <2>3. "xml" \in DOMAIN rep /\ rep'["xml"] = xml_test_case_end(rep["xml"])
    BY <1>5, <2>1, <2>2
  <2>4. Open(rep["xml"], 3) /\ rep["xml"].tc # <<>> /\ ~QueryMode
    BY <1>4, <1>6, <2>1, <2>3 DEF OpenElements, TcRight, InTest
  <2>5. Open(rep'["xml"], 2) /\ rep'["xml"].tc # <<>>
    BY <2>3, <2>4, TestEnded
  <2>6. n = 2
    BY <1>2, <2>1, <2>4, <2>5 DEF OpenElements
  <2> QED
    BY <1>2, <2>1, <2>4, <2>5, <2>6 DEF TcRight
<1>17. CASE EndRun
  <2>1. phase \in {"next", "last"} /\ phase' = "cleanup" /\ ~InTest'
    BY <1>17 DEF EndRun, InTest, InBody
  <2>2. n = 0
    BY <2>1 DEF OpenElements
  <2>3. CASE QueryMode
    <3> DEFINE e == [on |-> "report_query", names |-> query]
    <3>1. Notify(e)
      BY <1>17, <2>3 DEF EndRun
    <3>2. \A x : ToXml(x, e) = xml_report_query(x)
      BY DEF ToXml
    <3> HIDE DEF e
    <3>3. "xml" \in DOMAIN rep /\ rep'["xml"] = xml_report_query(rep["xml"])
      BY <1>5, <3>1, <3>2
    <3>4. Open(rep["xml"], 0) /\ rep["xml"].tc = <<>>
      BY <1>4, <2>1, <2>3, <3>3 DEF OpenElements, TcRight
    <3> QED
      BY <2>1, <2>2, <3>3, <3>4, QueryReported DEF TcRight
  <2>4. CASE ~QueryMode
    <3> DEFINE e == [on |-> "test_run_end", stats |-> stats]
    <3>1. Notify(e)
      BY <1>17, <2>4 DEF EndRun
    <3>2. \A x : ToXml(x, e) = xml_test_run_end(x)
      BY DEF ToXml
    <3> HIDE DEF e
    <3>3. "xml" \in DOMAIN rep /\ rep'["xml"] = xml_test_run_end(rep["xml"])
      BY <1>5, <3>1, <3>2
    <3>4. (rep["xml"].tc = <<>> /\ Open(rep["xml"], 1)) \/ (rep["xml"].tc # <<>> /\ Open(rep["xml"], 2))
      BY <1>4, <2>1, <2>4, <3>3 DEF OpenElements
    <3> QED
      BY <1>2, <2>1, <2>2, <2>4, <3>3, <3>4, RunEnded DEF TcRight
  <2> QED
    BY <2>3, <2>4
<1>18. CASE Cleanup
  <2>1. rep' = <<>>
    BY <1>18 DEF Cleanup
  <2> QED
    BY <1>3, <2>1
<1> QED
  BY <1>7, <1>8, <1>9, <1>10, <1>11, <1>12, <1>13, <1>14, <1>15, <1>16, <1>17, <1>18 DEF RunStep

(* Subcase's steps open and close SubCases, also when an exception leaves  *)
(* them.                                                                   *)
LEMMA XmlMove ==
    ASSUME TypeOK, SkipInv, PointsInv, XmlInv, fatal.by # Main, ~Ended, MoveStep
    PROVE  XmlInv'
<1>1. /\ fatal.pc = "no" /\ fatal' = fatal /\ fatal.calm /\ InBody /\ InBody' /\ ~Logging /\ ~Logging'
  <2>1. /\ fatal.pc = "no" /\ fatal' = fatal /\ asserting' = asserting /\ InBody /\ InBody'
        /\ \A t \in Threads : asserting[t] = Idle
    BY MoveAlone
  <2>2. Idle.pc # "logging" /\ fatal.calm
    BY <2>1 DEF Idle, PointsInv
  <2> QED
    BY <2>1, <2>2 DEF Logging
<1>2. QueryMode' <=> QueryMode
  BY DEF QueryMode, MoveStep, SkipSubcase, EnterSubcase, EnteredSubcase, LeaveSubcase, AnnounceException,
         LeftSubcase, LockReporters, BeginContext, DestroyContext, Throw, contextVars
<1> DEFINE n == OpenElements(rep["xml"])'
<1>3. SUFFICES ASSUME "xml" \in DOMAIN rep'
               PROVE  Open(rep'["xml"], n) /\ TcRight(rep["xml"])'
  BY <1>1, XmlPrimed DEF Open
<1>4. "xml" \in DOMAIN rep /\ Open(rep["xml"], OpenElements(rep["xml"])) /\ TcRight(rep["xml"])
  BY <1>1, <1>3, MoveReporters, XmlParts
<1>5. ~QueryMode /\ rep["xml"].tc # <<>> /\ phase # "start" /\ phase' # "start"
  BY <1>1, <1>4 DEF PointsInv, InTest, InBody, TcRight
<1>6. (rep'["xml"].tc = rep["xml"].tc /\ (phase' = "entering" => sub'.stack # <<>>)) => TcRight(rep["xml"])'
  BY <1>2, <1>5 DEF TcRight
<1>7. /\ sub.stack \in Seq(ToSet(sub.stack)) /\ Len(sub.stack) \in Nat
      /\ {"stack", "passed", "maxLevel", "reenter"} \subseteq DOMAIN sub
  BY StackLength
<1>8. CASE SkipSubcase \/ BeginContext \/ DestroyContext \/ Throw
  <2>1. /\ rep' = rep /\ sub'.stack = sub.stack /\ phase \in {"body", "unwind"}
        /\ phase' = phase \/ phase' = "unwind"
    BY <1>7, <1>8 DEF SkipSubcase, BeginContext, DestroyContext, Throw, Leaving, AtEnd, AtStatement,
                      reportVars, contextVars, runVars
  <2>2. n = OpenElements(rep["xml"])
    BY <1>1, <2>1 DEF OpenElements
  <2>3. phase' # "entering"
    BY <2>1
  <2> QED
    BY <1>4, <1>6, <2>1, <2>2, <2>3
<1>9. CASE EnterSubcase
  <2>1. /\ rep' = rep /\ sub'.stack = Append(sub.stack, Signature) /\ phase = "body" /\ phase' = "entering"
    BY <1>7, <1>9 DEF EnterSubcase, AtStatement, reportVars
  <2>2. Len(sub'.stack) = Len(sub.stack) + 1
    BY <1>7, <2>1, Pushed
  <2>3. sub'.stack # <<>>
    <3>1. Len(<<>>) = 0
      BY EmptySeq
    <3> QED
      BY <1>7, <2>2, <3>1
  <2>4. n = OpenElements(rep["xml"])
    <3>1. n = Len(sub'.stack) + 2
      BY <2>1 DEF OpenElements
    <3>2. OpenElements(rep["xml"]) = Len(sub.stack) + 3
      BY <1>1, <2>1 DEF OpenElements
    <3> QED
      BY <1>7, <2>2, <3>1, <3>2
  <2> QED
    BY <1>4, <1>6, <2>1, <2>3, <2>4
<1>10. CASE EnteredSubcase
  <2> DEFINE e == [on |-> "subcase_start", signature |-> Signature]
             k == Len(sub.stack) + 2
  <2>1. Notify(e) /\ phase = "entering" /\ phase' = "body" /\ sub' = sub
    BY <1>10 DEF EnteredSubcase, Report, Pending, contextVars
  <2>2. \A x : ToXml(x, e) = xml_subcase_start(x)
    BY DEF ToXml
  <2> HIDE DEF e
  <2>3. rep'["xml"] = xml_subcase_start(rep["xml"])
    BY <1>4, <2>1, <2>2, Told
  <2>4. Open(rep["xml"], k) /\ n = k + 1
    <3>1. OpenElements(rep["xml"]) = k
      BY <2>1 DEF OpenElements
    <3>2. n = Len(sub.stack) + 3
      BY <1>1, <2>1 DEF OpenElements
    <3>3. Len(sub.stack) + 3 = k + 1
      BY <1>7
    <3> QED
      BY <1>4, <3>1, <3>2, <3>3
  <2>5. k \in Nat /\ k >= 3
    BY <1>4, <1>7, <2>1, StackLength DEF TcRight
  <2> HIDE DEF k, n
  <2>6. Open(rep'["xml"], n) /\ rep'["xml"].tc = rep["xml"].tc
    BY <2>3, <2>4, <2>5, SubcaseBegun
  <2> QED
    BY <1>6, <2>1, <2>6
<1>11. CASE LeaveSubcase
  <2>1. /\ sub'.stack = Front(sub.stack) /\ phase \in {"body", "unwind"} /\ phase' = "leaving" /\ sub.stack # <<>>
        /\ rep' = rep
    BY <1>7, <1>11 DEF LeaveSubcase, Leaving, AtStatement, reportVars
  <2>2. Len(sub'.stack) = Len(sub.stack) - 1
    BY <1>7, <2>1, Popped
  <2>3. n = Len(sub.stack) + 3 /\ OpenElements(rep["xml"]) = Len(sub.stack) + 3
    <3>1. n = Len(sub'.stack) + 4
      BY <2>1 DEF OpenElements
    <3>2. OpenElements(rep["xml"]) = Len(sub.stack) + 3
      BY <1>1, <2>1 DEF OpenElements
    <3> QED
      BY <1>7, <2>2, <3>1, <3>2
  <2> QED
    BY <1>4, <1>6, <2>1, <2>3
<1>12. CASE AnnounceException
  <2>1. Notify(ExceptionEvent) /\ phase = "leaving" /\ phase' = phase /\ sub'.stack = sub.stack
    BY <1>7, <1>12 DEF AnnounceException, Report, Pending, runVars
  <2>2. rep'["xml"] = scopedElement(rep["xml"], "Exception")
    BY <1>4, <2>1, Told DEF ToXml, ExceptionEvent, xml_test_case_exception
  <2>3. n = Len(sub.stack) + 4 /\ OpenElements(rep["xml"]) = Len(sub.stack) + 4 /\ Len(sub.stack) + 4 \in Nat
    BY <1>7, <2>1 DEF OpenElements
  <2> HIDE DEF n
  <2>4. Open(rep'["xml"], n) /\ rep'["xml"].tc = rep["xml"].tc
    BY <1>4, <2>2, <2>3, ScopedOpen
  <2> QED
    BY <1>6, <2>1, <2>4
<1>13. CASE LockReporters
  <2>1. /\ rep' = rep /\ sub' = sub /\ phase' = phase
    BY <1>13 DEF LockReporters, contextVars, runVars
  <2>2. n = OpenElements(rep["xml"])
    BY <1>1, <1>2, <2>1 DEF OpenElements
  <2>3. phase = "entering" => sub.stack # <<>>
    BY <1>4 DEF TcRight
  <2> QED
    BY <1>4, <1>6, <2>1, <2>2, <2>3
<1>14. CASE LeftSubcase
  <2> DEFINE e == [on |-> "subcase_end"]
             k == Len(sub.stack) + 3
  <2>1. Notify(e) /\ phase = "leaving" /\ phase' \in {"body", "unwind"} /\ sub' = sub
    BY <1>14 DEF LeftSubcase, Report, Pending, contextVars
  <2>2. \A x : ToXml(x, e) = xml_subcase_end(x)
    BY DEF ToXml
  <2> HIDE DEF e
  <2>3. rep'["xml"] = xml_subcase_end(rep["xml"])
    BY <1>4, <2>1, <2>2, Told
  <2>4. Open(rep["xml"], k + 1) /\ n = k
    <3>1. OpenElements(rep["xml"]) = Len(sub.stack) + 4
      BY <2>1 DEF OpenElements
    <3>2. n = Len(sub.stack) + 3
      BY <1>1, <2>1 DEF OpenElements
    <3>3. Len(sub.stack) + 4 = k + 1
      BY <1>7
    <3> QED
      BY <1>4, <3>1, <3>2, <3>3
  <2>5. k \in Nat /\ k >= 3
    BY <1>7
  <2> HIDE DEF k, n
  <2>6. Open(rep'["xml"], n) /\ rep'["xml"].tc = rep["xml"].tc
    BY <2>3, <2>4, <2>5, SubcaseEnded
  <2>7. phase' # "entering"
    BY <2>1
  <2> QED
    BY <1>6, <2>6, <2>7
<1> QED
  BY <1>8, <1>9, <1>10, <1>11, <1>14, <1>12, <1>13 DEF MoveStep

(* The steps that write nothing.                                           *)
LEMMA XmlQuiet ==
    ASSUME TypeOK, SkipInv, PointsInv, MutexInv, CalmInv, XmlInv, ~Ended,
           \/ fatal.by # Main /\ (SkipAssertion \/ MakeAssertion \/ throwException \/ CreateThreads \/ JoinThreads)
           \/ Interrupt \/ \E w \in Workers : fatal.by # w /\ Terminate(w)
    PROVE  XmlInv'
<1>1. SUFFICES ASSUME "xml" \in DOMAIN rep', fatal'.calm
               PROVE  /\ IsXml(rep'["xml"]) /\ TcRight(rep["xml"])'
                      /\ Logging' => rep'["xml"].tags = Append(Elements(OpenElements(rep["xml"])'), Element(holder["xml"])')
                      /\ ~Logging' => rep'["xml"].tags = Elements(OpenElements(rep["xml"])')
  BY XmlPrimed
<1>2. /\ rep' = rep /\ holder' = holder /\ sub'.stack = sub.stack /\ p' = p
      /\ \A t \in Threads : /\ asserting'[t].pc = "logging" <=> asserting[t].pc = "logging"
                            /\ asserting[t].pc = "logging" => asserting'[t] = asserting[t]
  <2>1. fatal.by # Main \/ ~CreateThreads
    BY DEF CreateThreads, AtStatement, Terminate, Interrupt, HandleSignal
  <2>2. QuietStep
    BY DEF QuietStep
  <2>3. sub'.stack = sub.stack
    BY <2>2, StackLength DEF QuietStep, SkipAssertion, MakeAssertion, throwException, CreateThreads,
                             JoinThreads, Interrupt, Terminate, contextVars
  <2> QED
    BY <2>1, <2>2, <2>3, QuietLogging, QuietPhase
<1>3. /\ fatal.calm /\ phase' \in {phase, "unwind"} /\ (phase' # phase => phase = "body")
      /\ fatal'.pc = "run_end" <=> fatal.pc = "run_end"
  <2>1. CASE SkipAssertion \/ MakeAssertion \/ throwException \/ CreateThreads \/ JoinThreads
    <3>1. fatal' = fatal \/ fatal' = [fatal EXCEPT !.calm = @ /\ fatal.pc = "no"]
      BY <2>1 DEF SkipAssertion, MakeAssertion, throwException, CreateThreads, JoinThreads
    <3>2. fatal.calm /\ fatal'.pc = fatal.pc
      BY <1>1, <3>1 DEF TypeOK
    <3>3. /\ phase' = phase \/ (throwException /\ phase' = "unwind")
      BY <2>1 DEF SkipAssertion, MakeAssertion, throwException, CreateThreads, JoinThreads
    <3>4. throwException => phase = "body"
      BY DEF throwException, PointsInv, Working, Idle, Ended
    <3> QED
      BY <3>2, <3>3, <3>4
  <2>2. CASE Interrupt
    <3>1. fatal.pc = "no" /\ phase' = phase /\ isSet /\ HandleSignal(Main)
      BY <2>2, InterruptPoints DEF Interrupt
    <3>2. fatal'.pc = "exception"
      BY <3>1 DEF HandleSignal
    <3> QED
      BY <3>1, <3>2 DEF PointsInv
  <2>3. ASSUME NEW w \in Workers, fatal.by # w, Terminate(w)
        PROVE  /\ fatal.calm /\ phase' = phase /\ (fatal'.pc = "run_end" <=> fatal.pc = "run_end")
    <3>1. \/ fatal.pc = "no" /\ isSet /\ phase' = phase
          \/ fatal.pc # "no" /\ phase' = "killed" /\ fatal' = fatal
      BY <2>3, TerminatePoints
    <3>2. Working(w) /\ w \in Threads
      BY <2>3 DEF Terminate, Working, Idle, Threads
    <3>3. ~(fatal.pc # "no" /\ fatal.calm)
      BY <2>3, <3>2, CalmParts DEF CalmFatal
    <3>4. isSet => fatal'.pc = "exception"
      <4>1. HandleSignal(w)
        BY <2>3 DEF Terminate
      <4> QED
        BY <4>1 DEF HandleSignal
    <3> QED
      BY <1>1, <3>1, <3>3, <3>4 DEF PointsInv
  <2> QED
    BY <2>1, <2>2, <2>3
<1>4. /\ IsXml(rep["xml"]) /\ TcRight(rep["xml"])
      /\ Logging => rep["xml"].tags = Append(Elements(OpenElements(rep["xml"])), Element(holder["xml"]))
      /\ ~Logging => rep["xml"].tags = Elements(OpenElements(rep["xml"]))
  BY <1>1, <1>2, <1>3, XmlParts DEF Open
<1>5. OpenElements(rep["xml"])' = OpenElements(rep["xml"])
  <2>1. QueryMode' <=> QueryMode
    BY <1>2 DEF QueryMode
  <2> QED
    BY <1>2, <1>3, <2>1 DEF OpenElements
<1>6. TcRight(rep["xml"])'
  <2>1. (QueryMode' <=> QueryMode) /\ (InTest' => InTest)
    BY <1>2, <1>3 DEF QueryMode, InTest, InBody
  <2> QED
    BY <1>2, <1>3, <1>4, <2>1 DEF TcRight
<1>7. (Logging' <=> Logging) /\ (Logging => Element(holder["xml"])' = Element(holder["xml"]))
  <2>1. Logging' <=> Logging
    BY <1>2 DEF Logging
  <2>2. ASSUME NEW t \in Threads, asserting[t].pc = "logging"
        PROVE  Element(holder["xml"])' = Element(holder["xml"])
    <3>1. holder["xml"] = t /\ holder'["xml"] = t
      BY <1>1, <1>2, <2>2 DEF MutexInv
    <3>2. asserting'[t] = asserting[t]
      BY <1>2, <2>2
    <3> QED
      BY <3>1, <3>2 DEF Element, IsMessage
  <2> QED
    BY <2>1, <2>2 DEF Logging
<1> QED
  BY <1>2, <1>4, <1>5, <1>6, <1>7

(* What a thread logs is a Message or an Expression.                       *)
LEMMA ElementNames == \A t \in Threads : Element(t) \in {"Message", "Expression"}
BY DEF Element

(* An Expression has a number of parts.                                    *)
LEMMA PartsCounted ==
    ASSUME NEW kind, NEW threw
    PROVE  Len(ExpressionParts(kind, threw)) \in Nat
<1> DEFINE S == {"Original", "Exception", "ExpectedException", "ExpectedExceptionString", "Expanded"}
           a == IF threw THEN <<"Exception">> ELSE <<>>
           b == IF kind \in {"throws_as", "throws_with_as"} THEN <<"ExpectedException">> ELSE <<>>
           c == IF kind \in {"throws_with", "throws_with_as"} THEN <<"ExpectedExceptionString">> ELSE <<>>
           d == IF kind = "normal" /\ ~threw THEN <<"Expanded">> ELSE <<>>
           o == <<"Original">>
<1>1. o \in Seq(S) /\ a \in Seq(S) /\ b \in Seq(S) /\ c \in Seq(S) /\ d \in Seq(S)
  <2>1. \A e \in S : <<e>> \in Seq(S)
    OBVIOUS
  <2>2. /\ "Original" \in S /\ "Exception" \in S /\ "ExpectedException" \in S
        /\ "ExpectedExceptionString" \in S /\ "Expanded" \in S
    OBVIOUS
  <2> HIDE DEF S
  <2>3. <<>> \in Seq(S)
    BY EmptySeq
  <2> QED
    BY <2>1, <2>2, <2>3
<1>2. ExpressionParts(kind, threw) = o \o a \o b \o c \o d
  BY DEF ExpressionParts
<1> HIDE DEF S, o, a, b, c, d
<1>3. o \o a \o b \o c \o d \in Seq(S)
  BY <1>1, ConcatProperties
<1> QED
  BY <1>2, <1>3, LenProperties

(* log_assert and log_message open an element and close it, and nobody     *)
(* writes in between.                                                      *)
LEMMA XmlAssert ==
    ASSUME TypeOK, SkipInv, PointsInv, MutexInv, InfosInv, XmlInv, ~Ended, NEW t \in Threads, AssertStep(t)
    PROVE  XmlInv'
<1>1. SUFFICES ASSUME "xml" \in DOMAIN rep', fatal'.calm
               PROVE  /\ IsXml(rep'["xml"]) /\ TcRight(rep["xml"])'
                      /\ Logging' => rep'["xml"].tags = Append(Elements(OpenElements(rep["xml"])'), Element(holder["xml"])')
                      /\ ~Logging' => rep'["xml"].tags = Elements(OpenElements(rep["xml"])')
  BY XmlPrimed
<1>2. /\ \A u \in Threads : u # t => asserting'[u] = asserting[u]
      /\ Log(t) => asserting'[t] = [asserting[t] EXCEPT !.pc = "logging"]
      /\ ~Log(t) => asserting'[t].pc # "logging"
      /\ Logged(t) <=> asserting[t].pc = "logging"
      /\ ~Log(t) /\ ~Logged(t) => rep' = rep /\ holder' = holder
      /\ DOMAIN rep' = DOMAIN rep
      /\ phase' = phase /\ fatal' = fatal /\ sub' = sub /\ p' = p
  BY AssertMoves
<1>3. phase = "body"
  BY AssertWorks DEF Threads, PointsInv, Ended, Confined
<1>4. "xml" \in DOMAIN rep /\ fatal.calm /\ "xml" \in DOMAIN Reporters
  BY <1>1, <1>2 DEF MutexInv
<1> DEFINE n == OpenElements(rep["xml"])
<1>5. /\ IsXml(rep["xml"]) /\ TcRight(rep["xml"])
      /\ Logging => rep["xml"].tags = Append(Elements(n), Element(holder["xml"]))
      /\ ~Logging => Open(rep["xml"], n)
  BY <1>4, XmlParts
<1>6. OpenElements(rep["xml"])' = n /\ n \in Nat
  <2>1. Len(sub.stack) \in Nat
    BY StackLength
  <2> QED
    BY <1>2, <1>3, <2>1 DEF OpenElements
<1>7. rep'["xml"].tc = rep["xml"].tc => TcRight(rep["xml"])'
  <2>1. (QueryMode' <=> QueryMode) /\ (InTest' <=> InTest)
    BY <1>2 DEF QueryMode, InTest, InBody
  <2> QED
    BY <1>2, <1>5, <2>1 DEF TcRight
<1> HIDE DEF n
<1>8. CASE Log(t)
  <2> DEFINE parts == IF IsMessage(t) THEN <<"Text">> ELSE ExpressionParts(asserting[t].kind, asserting[t].threw)
             e == [on |-> "log", element |-> Element(t), contexts |-> ActiveContexts(t), parts |-> parts]
  <2>1. Notify(e)
    BY <1>8 DEF Log
  <2>2. \A x : ToXml(x, e) = xml_log(x, Element(t), parts, ActiveContexts(t))
    BY DEF ToXml
  <2> HIDE DEF e
  <2>3. rep'["xml"] = xml_log(rep["xml"], Element(t), parts, ActiveContexts(t))
    BY <1>4, <2>1, <2>2, Told
  <2>4. Len(parts) \in Nat
    <3>1. CASE IsMessage(t)
      BY <3>1
    <3>2. CASE ~IsMessage(t)
      <4>1. parts = ExpressionParts(asserting[t].kind, asserting[t].threw)
        BY <3>2
      <4> HIDE DEF parts
      <4> QED
        BY <4>1, PartsCounted
    <3> QED
      BY <3>1, <3>2
  <2>5. ActiveContexts(t) \in Seq(ToSet(ActiveContexts(t)))
    <3>1. DOMAIN sub.infos = 1..Len(sub.infos) /\ Len(sub.infos) \in Nat
      BY LenProperties DEF InfosInv
    <3>2. CASE t = Main
      <4> DEFINE texts == [k \in DOMAIN sub.infos |-> sub.infos[k].text]
                 S == {sub.infos[k].text : k \in DOMAIN sub.infos}
      <4>1. texts \in [1..Len(sub.infos) -> S]
        BY <3>1
      <4>2. ActiveContexts(t) = texts
        BY <3>2 DEF ActiveContexts
      <4> HIDE DEF texts, S
      <4>3. texts \in Seq(S)
        BY <3>1, <4>1, SeqDef
      <4> QED
        BY <4>2, <4>3, OverItself
    <3>3. CASE t # Main
      BY <3>3, EmptySeq DEF ActiveContexts
    <3> QED
      BY <3>2, <3>3
  <2> HIDE DEF parts
  <2>6. ~Logging
    BY <1>8, MutexLog DEF Logging
  <2>7. Element(t) \in Tags
    BY ElementNames DEF Tags
  <2>8. IsXml(rep'["xml"]) /\ rep'["xml"].tags = Append(Elements(n), Element(t)) /\ rep'["xml"].tc = rep["xml"].tc
    BY <1>5, <1>6, <2>3, <2>4, <2>5, <2>6, <2>7, LogBegun
  <2>9. Logging' /\ Element(holder["xml"])' = Element(t)
    <3>1. Working(t) /\ asserting[t] \in Assertions
      BY AssertWorks, WorkingMakes
    <3>2. asserting'[t].pc = "logging" /\ asserting'[t].kind = asserting[t].kind
      BY <1>2, <1>8, <3>1 DEF Assertions
    <3>3. holder'["xml"] = t
      BY <1>4, <1>8 DEF Log, TypeOK
    <3> QED
      BY <3>2, <3>3 DEF Logging, Element, IsMessage
  <2> QED
    BY <1>6, <1>7, <2>8, <2>9
<1>9. CASE Logged(t)
  <2> DEFINE e == [on |-> "log_ends", element |-> Element(t)]
  <2>1. Notify(e)
    BY <1>9 DEF Logged
  <2>2. \A x : ToXml(x, e) = xml_log_ends(x, Element(t))
    BY DEF ToXml
  <2> HIDE DEF e
  <2>3. rep'["xml"] = xml_log_ends(rep["xml"], Element(t))
    BY <1>4, <2>1, <2>2, Told
  <2>4. Logging /\ holder["xml"] = t
    BY <1>2, <1>4, <1>9 DEF Logging, MutexInv
  <2>5. Open(rep'["xml"], n) /\ rep'["xml"].tc = rep["xml"].tc
    BY <1>5, <1>6, <2>3, <2>4, LogEnded
  <2>6. ~Logging'
    <3>1. asserting'[t].pc # "logging"
      BY <1>2, <1>9 DEF Log, Logged
    <3>2. \A u \in Threads : asserting[u].pc = "logging" => u = t
      BY <1>4, <2>4 DEF MutexInv
    <3> QED
      BY <1>2, <3>1, <3>2 DEF Logging
  <2> QED
    BY <1>6, <1>7, <2>5, <2>6 DEF Open
<1>10. CASE ~Log(t) /\ ~Logged(t)
  <2>1. /\ rep' = rep /\ holder' = holder /\ asserting'[t].pc # "logging" /\ asserting[t].pc # "logging"
        /\ \A u \in Threads : u # t => asserting'[u] = asserting[u]
    BY <1>2, <1>10
  <2>2. Logging' <=> Logging
    BY <2>1 DEF Logging
  <2>3. ASSUME NEW u \in Threads, asserting[u].pc = "logging"
        PROVE  Element(holder["xml"])' = Element(holder["xml"])
    <3>1. holder["xml"] = u /\ holder'["xml"] = u /\ asserting'[u] = asserting[u]
      BY <1>4, <2>1, <2>3 DEF MutexInv
    <3> QED
      BY <3>1 DEF Element, IsMessage
  <2>4. Logging => Element(holder["xml"])' = Element(holder["xml"])
    BY <2>3 DEF Logging
  <2> QED
    BY <1>5, <1>6, <1>7, <2>1, <2>2, <2>4 DEF Open
<1> QED
  BY <1>8, <1>9, <1>10

(* The handler closes what is open and ends the test case and the run.     *)
LEMMA XmlFatal ==
    ASSUME TypeOK, SkipInv, PointsInv, MutexInv, CalmInv, XmlInv, ~Ended, FatalStep
    PROVE  XmlInv'
<1>1. /\ InBody /\ DOMAIN rep' = DOMAIN rep /\ holder' = holder /\ asserting' = asserting /\ p' = p
      /\ fatal'.calm = fatal.calm /\ fatal.pc # "no"
  BY FatalPoints, FatalReporters
<1>2. SUFFICES ASSUME "xml" \in DOMAIN rep, fatal.calm
               PROVE  /\ IsXml(rep'["xml"]) /\ TcRight(rep["xml"])'
                      /\ Logging' => rep'["xml"].tags = Append(Elements(OpenElements(rep["xml"])'), Element(holder["xml"])')
                      /\ ~Logging' => rep'["xml"].tags = Elements(OpenElements(rep["xml"])')
  BY <1>1, XmlPrimed
<1>3. CalmFatal /\ phase \in {"body", "unwind"}
  BY <1>1, <1>2, CalmParts DEF CalmFatal, InBody
<1>4. holder["xml"] = Nobody
  <2>1. CASE FatalException
    <3>1. MayEnter(ExceptionEvent) /\ ExceptionEvent.on = "test_case_exception"
      BY <2>1 DEF FatalException, FatalEvent, ExceptionEvent
    <3>2. "test_case_exception" \in Locking["xml"]
      BY DEF Locking
    <3> QED
      BY <1>2, <3>1, <3>2 DEF MayEnter
  <2>2. CASE ~FatalException
    <3>1. fatal.pc # "exception"
      BY <2>2 DEF FatalStep, FatalPop, FatalFinalize, FatalTestEnd, FatalRunEnd
    <3> QED
      BY <1>2, <1>3, <3>1 DEF CalmFatal
  <2> QED
    BY <2>1, <2>2
<1>5. ~Logging /\ ~Logging'
  <2>1. Nobody \notin Threads
    BY DoctestAssumption DEF Threads
  <2> QED
    BY <1>1, <1>2, <1>4, <2>1 DEF Logging, MutexInv
<1> DEFINE n == OpenElements(rep["xml"])'
<1>6. SUFFICES Open(rep'["xml"], n) /\ (phase' = phase => rep'["xml"].tc = rep["xml"].tc)
  <2>1. phase' = phase \/ phase' = "killed"
    BY FatalPoints
  <2>2. TcRight(rep["xml"]) /\ ~QueryMode
    BY <1>2, <1>3, XmlParts DEF PointsInv, InTest, InBody
  <2>3. (QueryMode' <=> QueryMode) /\ (InTest' => phase' = phase)
    BY <1>1, <2>1 DEF QueryMode, InTest, InBody
  <2>4. (phase' = phase => rep'["xml"].tc = rep["xml"].tc) => TcRight(rep["xml"])'
    BY <1>3, <2>1, <2>2, <2>3 DEF TcRight, InTest, InBody
  <2> QED
    BY <1>5, <2>4 DEF Open
<1>7. /\ sub.stack \in Seq(ToSet(sub.stack)) /\ Len(sub.stack) \in Nat
      /\ {"stack", "passed", "maxLevel", "reenter"} \subseteq DOMAIN sub
      /\ sub.stack = <<>> => Len(sub.stack) = 0
  BY StackLength
<1> DEFINE k == IF fatal.pc = "run_end" THEN 2 ELSE Len(sub.stack) + 3
<1>8. Open(rep["xml"], k) /\ k \in Nat /\ rep["xml"].tc # <<>>
  <2>1. OpenElements(rep["xml"]) = k
    BY <1>3 DEF OpenElements
  <2>2. k \in Nat
    BY <1>7
  <2> HIDE DEF k
  <2>3. Open(rep["xml"], k) /\ TcRight(rep["xml"])
    BY <1>2, <1>5, <2>1, XmlParts
  <2> QED
    BY <1>1, <2>2, <2>3 DEF TcRight, InTest
<1>9. CASE FatalException
  <2>1. /\ fatal.pc = "exception" /\ fatal'.pc = "pop" /\ phase' = phase /\ sub' = sub /\ Notify(ExceptionEvent)
    BY <1>9 DEF FatalException, FatalEvent, runVars, contextVars, TypeOK
  <2>2. rep'["xml"] = scopedElement(rep["xml"], "Exception")
    BY <1>2, <2>1, Told DEF ToXml, ExceptionEvent, xml_test_case_exception
  <2>3. n = k
    BY <1>3, <2>1 DEF OpenElements
  <2> HIDE DEF n, k
  <2> QED
    BY <1>8, <2>2, <2>3, ScopedOpen
<1>10. CASE FatalPop
  <2> DEFINE e == [on |-> "subcase_end"]
             m == Len(sub.stack) + 2
  <2>1. /\ fatal.pc = "pop" /\ fatal' = fatal /\ phase' = phase /\ sub'.stack = Front(sub.stack) /\ sub.stack # <<>>
        /\ Notify(e)
    BY <1>7, <1>10 DEF FatalPop, FatalEvent, runVars
  <2>2. \A x : ToXml(x, e) = xml_subcase_end(x)
    BY DEF ToXml
  <2> HIDE DEF e
  <2>3. rep'["xml"] = xml_subcase_end(rep["xml"])
    BY <1>2, <2>1, <2>2, Told
  <2>4. Len(sub'.stack) = Len(sub.stack) - 1
    BY <1>7, <2>1, Popped
  <2>5. m \in Nat /\ m >= 3 /\ k = m + 1 /\ n = m
    <3>1. Len(sub.stack) # 0
      BY <2>1, StackLength
    <3>2. n = Len(sub'.stack) + 3
      BY <1>3, <2>1 DEF OpenElements
    <3>3. k = Len(sub.stack) + 3
      BY <2>1
    <3> HIDE DEF n, k
    <3> QED
      BY <1>7, <2>4, <3>1, <3>2, <3>3
  <2> HIDE DEF n, k, m
  <2> QED
    BY <1>8, <2>3, <2>5, SubcaseEnded
<1>11. CASE FatalFinalize
  <2>1. rep' = rep /\ sub' = sub /\ phase' = phase /\ fatal.pc = "pop" /\ fatal'.pc = "end"
    BY <1>11 DEF FatalFinalize, reportVars, runVars, TypeOK
  <2>2. n = k
    BY <1>3, <2>1 DEF OpenElements
  <2> HIDE DEF n, k
  <2> QED
    BY <1>8, <2>1, <2>2
<1>12. CASE FatalTestEnd
  <2> DEFINE e == [on |-> "test_case_end", flags |-> cur.flags]
  <2>1. Notify(e) /\ phase' = phase /\ fatal.pc = "end" /\ fatal'.pc = "run_end"
    BY <1>12 DEF FatalTestEnd, runVars, TypeOK
  <2>2. \A x : ToXml(x, e) = xml_test_case_end(x)
    BY DEF ToXml
  <2> HIDE DEF e
  <2>3. rep'["xml"] = xml_test_case_end(rep["xml"])
    BY <1>2, <2>1, <2>2, Told
  <2>4. k = 3
    BY <1>7, <2>1 DEF CalmInv
  <2>5. n = 2
    BY <1>3, <2>1 DEF OpenElements
  <2> HIDE DEF n, k
  <2> QED
    BY <1>8, <2>3, <2>4, <2>5, TestEnded
<1>13. CASE FatalRunEnd
  <2> DEFINE e == [on |-> "test_run_end", stats |-> stats]
  <2>1. Notify(e) /\ phase' = "killed" /\ fatal.pc = "run_end"
    BY <1>13 DEF FatalRunEnd
  <2>2. \A x : ToXml(x, e) = xml_test_run_end(x)
    BY DEF ToXml
  <2> HIDE DEF e
  <2>3. rep'["xml"] = xml_test_run_end(rep["xml"])
    BY <1>2, <2>1, <2>2, Told
  <2>4. k = 2
    BY <2>1
  <2>5. n = 0 /\ phase' # phase
    BY <1>3, <2>1 DEF OpenElements
  <2> HIDE DEF n, k
  <2> QED
    BY <1>8, <2>3, <2>4, <2>5, RunEnded
<1> QED
  BY <1>9, <1>10, <1>11, <1>12, <1>13 DEF FatalStep

(* Every step keeps XmlInv.                                                *)
LEMMA XmlSteps ==
    ASSUME TypeOK, SkipInv, PointsInv, MutexInv, InfosInv, DepthInv, CalmInv, XmlInv, [Next]_vars
    PROVE  XmlInv'
<1>1. CASE UNCHANGED vars
  <2>1. UNCHANGED <<phase, fatal, sub, p, rep, holder, asserting>>
    BY <1>1 DEF vars, contextVars, runVars, reportVars
  <2>2. ("xml" \in DOMAIN rep /\ fatal.calm) =>
            /\ IsXml(rep["xml"]) /\ TcRight(rep["xml"])
            /\ Logging => rep["xml"].tags = Append(Elements(OpenElements(rep["xml"])), Element(holder["xml"]))
            /\ ~Logging => rep["xml"].tags = Elements(OpenElements(rep["xml"]))
    BY XmlParts DEF Open
  <2>3. /\ OpenElements(rep["xml"])' = OpenElements(rep["xml"]) /\ (TcRight(rep["xml"])' <=> TcRight(rep["xml"]))
        /\ (Logging' <=> Logging) /\ Element(holder["xml"])' = Element(holder["xml"])
    BY <2>1 DEF OpenElements, TcRight, Logging, Element, IsMessage, QueryMode, InTest, InBody
  <2> QED
    BY <2>1, <2>2, <2>3, XmlPrimed
<1>2. CASE MainStep
  <2>1. ~Ended /\ fatal.by # Main /\ (RunStep \/ BodyStep)
    BY <1>2 DEF MainStep
  <2>2. CASE RunStep
    BY <2>1, <2>2, XmlRun
  <2>3. CASE MoveStep
    BY <2>1, <2>3, XmlMove
  <2>4. CASE SkipAssertion \/ MakeAssertion \/ throwException \/ CreateThreads \/ JoinThreads
    BY <2>1, <2>4, XmlQuiet
  <2>5. CASE AssertStep(Main)
    BY <2>1, <2>5, XmlAssert DEF Threads
  <2> QED
    BY <2>1, <2>2, <2>3, <2>4, <2>5 DEF BodyStep, MoveStep
<1>3. ASSUME NEW w \in Workers, WorkerStep(w) PROVE XmlInv'
  BY <1>3, XmlAssert, XmlQuiet DEF Threads, WorkerStep
<1>4. CASE HandlerStep
  BY <1>4, XmlFatal DEF HandlerStep
<1>5. CASE ~Ended /\ Interrupt
  BY <1>5, XmlQuiet
<1> QED
  BY <1>1, <1>2, <1>3, <1>4, <1>5 DEF Next

-----------------------------------------------------------------------------
(* The whole invariant.                                                    *)

(* The other parts of the invariant hold at first.                         *)
LEMMA LaterInit == Init => /\ CountsInv /\ PromptInv /\ VerdictsInv /\ MutexInv
                           /\ DepthInv /\ HeaderInv /\ CalmInv /\ XmlInv
<1> SUFFICES ASSUME Init
             PROVE  /\ CountsInv /\ PromptInv /\ VerdictsInv /\ MutexInv
                    /\ DepthInv /\ HeaderInv /\ CalmInv /\ XmlInv
  OBVIOUS
<1>1. /\ stats = [numTestCases |-> 0, numTestCasesPassingFilters |-> 0,
                  numTestSuitesPassingFilters |-> 0, numTestCasesFailed |-> 0,
                  numAsserts |-> 0, numAssertsFailed |-> 0]
      /\ cur = [test |-> <<>>, asserts |-> 0, failed |-> 0, flags |-> {}]
      /\ phase = "run" /\ fatal = [pc |-> "no", by |-> Nobody, calm |-> TRUE] /\ rep = <<>>
      /\ holder = [r \in DOMAIN Reporters |-> Nobody]
      /\ asserting = [t \in Threads |-> Idle]
      /\ hist = [entered |-> <<>>, failing |-> 0, total |-> 0, threw |-> FALSE, verdicts |-> <<>>]
  BY DEF Init, NoTestYet
<1>2. Idle.pc = "idle" /\ \A t \in Threads : asserting[t] = Idle /\ ~Working(t)
  BY <1>1 DEF Idle, Working
<1>3. DOMAIN rep = {} /\ fatal.pc = "no" /\ ~InTest /\ ~InBody /\ Main \in Threads
  BY <1>1 DEF InTest, InBody, Threads
<1>4. CountsInv
  <2>1. Uncounted = {} /\ HalfCounted = {}
    BY <1>2 DEF Uncounted, HalfCounted
  <2>2. Cardinality(Uncounted) = 0 /\ Cardinality(HalfCounted) = 0
    BY <2>1, FS_EmptySet
  <2>3. cur.failed = 0 /\ cur.asserts = 0 /\ hist.failing = 0 /\ hist.total = 0 /\ stats.numAssertsFailed = 0
    BY <1>1
  <2> QED
    BY <1>3, <2>2, <2>3 DEF CountsInv
<1>5. PromptInv
  <2>1. stats.numAssertsFailed = 0 /\ hist.total = 0 /\ phase # "pass"
    BY <1>1
  <2>2. p.abort_after \in Int
    BY Initially DEF SkipInv, SubcaseFields
  <2>3. ~EnoughFailed(stats.numAssertsFailed)
    BY <2>1, <2>2 DEF EnoughFailed
  <2> QED
    BY <1>2, <1>3, <2>1, <2>2, <2>3 DEF PromptInv
<1>6. VerdictsInv
  <2>1. stats.numTestCasesFailed = 0 /\ hist.verdicts = <<>> /\ phase \notin {"EXIT_FAILURE", "EXIT_SUCCESS"}
    BY <1>1
  <2>2. ~\E k \in DOMAIN hist.verdicts : Unexpected(hist.verdicts[k])
    BY <2>1
  <2>3. ~(stats.numTestCasesFailed > 0)
    BY <2>1
  <2> QED
    BY <1>3, <2>1, <2>2, <2>3 DEF VerdictsInv
<1>7. MutexInv
  BY <1>1, <1>2, <1>3, DoctestAssumption DEF MutexInv, Threads
<1>8. DepthInv /\ HeaderInv /\ XmlInv
  BY <1>1, <1>3 DEF DepthInv, HeaderInv, ConsoleReporters, XmlInv
<1>9. CalmInv
  BY <1>3 DEF CalmInv
<1> QED
  BY <1>4, <1>5, <1>6, <1>7, <1>8, <1>9

(* The whole invariant, for every program, every set of options and        *)
(* reporters, and every interleaving of main with the threads of the test  *)
(* functions and with signals.                                             *)
THEOREM CoreInductive == Spec => []CoreInv
<1>1. Init => CoreInv
  BY PlaceInit, Initially, InfosInit, LaterInit DEF CoreInv
<1>2. CoreInv /\ [Next]_vars => CoreInv'
  <2> SUFFICES ASSUME CoreInv, [Next]_vars PROVE CoreInv'
    OBVIOUS
  <2>1. /\ TypeOK /\ SkipInv /\ PointsInv /\ CountsInv /\ PromptInv /\ VerdictsInv /\ MutexInv /\ InfosInv
        /\ DepthInv /\ HeaderInv /\ CalmInv /\ XmlInv
    BY DEF CoreInv
  <2>2. TypeOK' /\ PointsInv'
    BY <2>1, PlaceSteps
  <2>3. SkipInv'
    BY <2>1, Steps
  <2>4. CountsInv'
    BY <2>1, CountsSteps
  <2>5. PromptInv'
    BY <2>1, PromptSteps
  <2>6. VerdictsInv'
    BY <2>1, VerdictSteps
  <2>7. MutexInv' /\ InfosInv'
    BY <2>1, MutexSteps, InfosSteps
  <2>8. DepthInv' /\ HeaderInv'
    BY <2>1, DepthSteps, HeaderSteps
  <2>9. CalmInv' /\ XmlInv'
    BY <2>1, CalmSteps, XmlSteps
  <2> QED
    BY <2>2, <2>3, <2>4, <2>5, <2>6, <2>7, <2>8, <2>9 DEF CoreInv
<1> QED
  BY <1>1, <1>2, PTL DEF Spec

(* Every variable of the run has its type, for every program and every set *)
(* of options.                                                             *)
THEOREM TypeCorrect == Spec => []TypeOK
<1>1. CoreInv => TypeOK
  BY DEF CoreInv
<1> QED
  BY <1>1, CoreInductive, PTL

(* Context::run returns EXIT_FAILURE exactly when some test case ended as  *)
(* its decorators do not allow (and no-exitcode is not set), however many  *)
(* threads added to the counters.                                          *)
THEOREM ExitStatusIsRight == Spec => []ExitCodeTells
<1>1. CoreInv => ExitCodeTells
  <2> SUFFICES ASSUME CoreInv, phase \in {"EXIT_SUCCESS", "EXIT_FAILURE"}
               PROVE  phase = "EXIT_FAILURE" <=> ~p.no_exitcode /\ \E k \in DOMAIN hist.verdicts :
                                                                     Unexpected(hist.verdicts[k])
    BY DEF ExitCodeTells
  <2> DEFINE Bad == \E k \in DOMAIN hist.verdicts : Unexpected(hist.verdicts[k])
  <2>1. fatal.pc = "no"
    BY DEF CoreInv, PointsInv, InBody
  <2>2. stats.numTestCasesFailed \in Nat
    BY DEF CoreInv, TypeOK
  <2>3. /\ stats.numTestCasesFailed > 0 <=> Bad
        /\ phase = "EXIT_FAILURE" => stats.numTestCasesFailed > 0 /\ ~p.no_exitcode
        /\ phase = "EXIT_SUCCESS" => stats.numTestCasesFailed = 0 \/ p.no_exitcode
    BY <2>1 DEF CoreInv, VerdictsInv
  <2>4. ~(stats.numTestCasesFailed = 0 /\ stats.numTestCasesFailed > 0)
    BY <2>2
  <2> HIDE DEF Bad
  <2>5. phase = "EXIT_FAILURE" <=> ~p.no_exitcode /\ Bad
    BY <2>3, <2>4
  <2> QED
    BY <2>5 DEF Bad
<1> QED
  BY <1>1, CoreInductive, PTL

(* abort-after stops a run in time: no pass of a test case begins with as  *)
(* many failures, whatever threads are at work, and without threads and    *)
(* messages no more assertions fail than it allows.                        *)
THEOREM AbortsInTime == Spec => []AbortIsPrompt
<1>1. CoreInv => AbortIsPrompt
  <2> SUFFICES ASSUME CoreInv, p.abort_after > 0
               PROVE  /\ phase = "pass" => hist.total < p.abort_after
                      /\ (\A t \in ToSet(testArray) : Alone(t.body)) => hist.total <= p.abort_after
    BY DEF AbortIsPrompt
  <2>1. ASSUME phase = "pass"
        PROVE  hist.total < p.abort_after
    <3>1. fatal.pc = "no" /\ InTest
      BY <2>1 DEF CoreInv, PointsInv, InBody, InTest
    <3>2. \A t \in Threads : asserting[t] = Idle
      BY <2>1 DEF CoreInv, PointsInv, Confined, Threads, Working
    <3>3. Uncounted = {}
      BY <3>2 DEF Uncounted, Idle
    <3>4. Cardinality(Uncounted) = 0
      BY <3>3, FS_EmptySet
    <3>5. /\ hist.failing = cur.failed + Cardinality(Uncounted)
          /\ hist.total = stats.numAssertsFailed + hist.failing
      BY <2>1, <3>1 DEF CoreInv, CountsInv
    <3>6. ~EnoughFailed(stats.numAssertsFailed + cur.failed)
      BY <2>1 DEF CoreInv, PromptInv, EnoughNow
    <3>7. cur.failed \in Nat /\ stats.numAssertsFailed \in Nat /\ p.abort_after \in Int
      BY DEF CoreInv, SkipInv, SubcaseFields
    <3>8. ~(stats.numAssertsFailed + cur.failed >= p.abort_after)
      BY <3>6 DEF EnoughFailed
    <3> QED
      BY <3>4, <3>5, <3>7, <3>8
  <2>2. (\A t \in ToSet(testArray) : Alone(t.body)) => hist.total <= p.abort_after
    BY DEF CoreInv, PromptInv
  <2> QED
    BY <2>1, <2>2
<1> QED
  BY <1>1, CoreInductive, PTL

(* What ConsoleReporter logs stands under the header of the test case and  *)
(* the subcases in which it happened, also when a thread logs it.          *)
THEOREM HeadersAreCurrent == Spec => []HeaderIsCurrent
<1>1. CoreInv => HeaderIsCurrent
  <2> SUFFICES ASSUME CoreInv, NEW r \in ConsoleReporters
               PROVE  /\ rep[r].hasLoggedCurrentTestStart => rep[r].header = <<rep[r].tc, rep[r].subcasesStack>>
                      /\ (phase \in {"body", "unwind"} /\ fatal.pc = "no") =>
                             rep[r].tc = cur.test /\ rep[r].subcasesStack = sub.stack
                      /\ \A t \in Threads : (asserting[t].pc = "logging" /\ fatal.pc = "no") =>
                             rep[r].header = <<cur.test, sub.stack>>
    BY DEF HeaderIsCurrent
  <2>1. IsConsole(rep[r]) /\ (fatal.pc = "no" => FollowsRun(rep[r]))
    BY HeaderParts DEF CoreInv
  <2> QED
    BY <2>1 DEF IsConsole, FollowsRun, FollowsStack, InTest, InBody
<1> QED
  BY <1>1, CoreInductive, PTL

(* The document that XmlReporter writes is a tree whose elements end in    *)
(* the order of their starts, and it is complete when the run is, also     *)
(* after a crash that was reported undisturbed by other threads.           *)
THEOREM DocumentsAreWellFormed == Spec => []XmlWellFormed
<1>1. CoreInv => XmlWellFormed
  <2> SUFFICES ASSUME CoreInv, "xml" \in DOMAIN rep, fatal.calm
               PROVE  /\ rep["xml"].wrong = {}
                      /\ phase \in {"cleanup", "killed"} => rep["xml"].tags = <<>>
    BY DEF XmlWellFormed
  <2>1. /\ IsXml(rep["xml"]) /\ (~Logging => Open(rep["xml"], OpenElements(rep["xml"])))
    BY XmlParts DEF CoreInv
  <2>2. ASSUME phase \in {"cleanup", "killed"}
        PROVE  ~Logging
    <3>1. CASE phase = "cleanup"
      <4>1. \A t \in Threads : ~Working(t)
        BY <3>1 DEF CoreInv, PointsInv, Confined, Threads
      <4> QED
        BY <4>1 DEF Logging, Working, Idle
    <3>2. CASE phase = "killed"
      <4>1. fatal.pc = "run_end" /\ holder["xml"] = Nobody
        BY <3>2 DEF CoreInv, PointsInv, CalmInv
      <4>2. Nobody \notin Threads
        BY DoctestAssumption DEF Threads
      <4> QED
        BY <4>1, <4>2 DEF CoreInv, MutexInv, Logging
    <3> QED
      BY <2>2, <3>1, <3>2
  <2>3. phase \in {"cleanup", "killed"} => OpenElements(rep["xml"]) = 0
    BY DEF OpenElements
  <2> QED
    BY <2>1, <2>2, <2>3, NoElements DEF IsXml, Open
<1> QED
  BY <1>1, CoreInductive, PTL
=============================================================================
