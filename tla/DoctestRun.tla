------------------------------- MODULE DoctestRun -------------------------------
(***************************************************************************)
(* Context::run of doctest.h: it selects test cases, runs each once for    *)
(* every path of subcases, counts the assertions that its threads make and *)
(* tells the reporters.  A test function is a sequence of statements:      *)
(* assertions, messages, INFO contexts, exceptions, subcases (SUBCASE's if *)
(* statement is "open", with the position of its "close"), and starting and*)
(* joining threads that make one assertion each.  A signal may interrupt   *)
(* main at any point of a test function.                                   *)
(***************************************************************************)
EXTENDS CommandLine, Wildcards, ConsoleReporter, XmlReporter, FiniteSets, Integers

CONSTANTS
    Main,        \* the thread that calls Context::run
    Workers,     \* the threads that test functions start
    Nobody,      \* who holds a free mutex
    Programs,    \* the sets of test cases a program may have registered
    Contexts,    \* the options Contexts may have been given
    Alphabet,    \* the characters of names, in strcmp's order
    Signals      \* whether signals arrive

(* What a C string can be: its first NUL ends it.                          *)
IsString(s) == s \in Seq(ToSet(s)) /\ NUL \notin ToSet(s)

AreOptions(options) ==
    /\ \A n \in {"first", "last"} : options[n] \in 0..UINT_MAX
    /\ \A n \in {"abort_after", "subcase_filter_levels"} : options[n] \in -INT_MAX - 1..INT_MAX
    /\ \A k \in 1..9 : \A mask \in ToSet(options.filters[k]) : IsString(mask)

ASSUME DoctestAssumption ==
    /\ Main \notin Workers /\ Nobody \notin Workers \cup {Main} /\ IsFiniteSet(Workers)
    /\ \A options \in Contexts : AreOptions(options)

Threads == {Main} \cup Workers

(* The elements of S up to n, in order.                                    *)
InOrder(S, n) ==
    LET upTo[k \in 0..n] ==
        IF k = 0 THEN <<>> ELSE IF k \in S THEN Append(upTo[k - 1], k) ELSE upTo[k - 1]
    IN upTo[n]

-----------------------------------------------------------------------------
(* Test functions                                                          *)

Severities == {"warn", "check", "require"}
Kinds == {"throws", "throws_with_as", "throws_as", "throws_with", "nothrow", "normal", "message"}
Results == [value : BOOLEAN, threw : BOOLEAN, threw_as : BOOLEAN, same : BOOLEAN]

(* Assertions and messages: at is the macro's severity, kind its kind and  *)
(* result what the expression did: the value that it has (TRUE when that is*)
(* as the macro wants it), whether it threw, whether what was asked for,   *)
(* and whether the text of that (none when it did not) is the one asked    *)
(* for.  A message counts as an assertion that failed.                     *)
Failed(kind, result) ==
    CASE kind = "throws" -> ~result.threw
      [] kind = "throws_with_as" -> ~result.threw_as \/ ~result.same
      [] kind = "throws_as" -> ~result.threw_as
      [] kind = "throws_with" -> ~result.same
      [] kind = "nothrow" -> result.threw
      [] kind = "normal" -> result.threw \/ ~result.value
      [] kind = "message" -> TRUE

(* An assertion that throws under no options.                              *)
Harmless(at, kind, failed) == failed => at = "warn" \/ (at = "check" /\ kind = "message")

HarmlessAssertion(s) == s.op = "assert" /\ Harmless(s.at, s.kind, Failed(s.kind, s.result))

(* How many subcases are open before statement k, if none is skipped.      *)
Depth(body, k) ==
    Cardinality({j \in 1..k - 1 : body[j].op = "open"}) - Cardinality({j \in 1..k - 1 : body[j].op = "close"})

(* Statement k is as the macro that it stands for makes it: a SUBCASE's    *)
(* block ends at a brace of its own, and what is between is inside it; and *)
(* threads are joined before main makes anything but assertions that cannot*)
(* throw past the pthread_join.                                            *)
WellFormed(body, k) ==
    LET s == body[k]
    IN /\ s.op = "open" => /\ IsString(s.name)
                           /\ s.end \in k + 1..Len(body) /\ body[s.end].op = "close"
                           /\ \A j \in k + 1..s.end : Depth(body, j) > Depth(body, k)
                           /\ Depth(body, s.end + 1) = Depth(body, k)
       /\ s.op = "close" => \E o \in 1..k - 1 : body[o].op = "open" /\ body[o].end = k
       /\ s.op = "assert" => s.at \in Severities /\ s.kind \in Kinds /\ s.result \in Results
       /\ s.op = "create" =>
             /\ s.results \in [Workers -> Results]
             /\ \E m \in k + 1..Len(body) :
                    body[m].op = "join" /\ \A j \in k + 1..m - 1 : HarmlessAssertion(body[j])

IsTest(t) ==
    /\ IsString(t.file) /\ IsString(t.suite) /\ IsString(t.name)
    /\ t.body \in Seq(ToSet(t.body))
    /\ \A k \in DOMAIN t.body : WellFormed(t.body, k)
    /\ Depth(t.body, Len(t.body) + 1) = 0
    /\ t.should_fail \in BOOLEAN /\ t.may_fail \in BOOLEAN /\ t.expected_failures \in Nat

ASSUME ProgramsAssumption ==
    \A tests \in Programs : IsFiniteSet(tests) /\ \A t \in tests : IsTest(t)

-----------------------------------------------------------------------------

(* The reporters registered by doctest.h and TestRunner.cpp, with their    *)
(* names; the grader is a ConsoleReporter.                                 *)
Reporters == [console |-> <<"c">>, grader |-> <<"g">>, xml |-> <<"x">>]

VARIABLES
    p,           \* ContextState: the options
    stats,       \* ContextState: TestRunStats
    cur,         \* ContextState: currentTest, the atomic counters, failure_flags
    sub,         \* ContextState: the fields for subcases, shouldLogCurrentException,
                 \* stringifiedContexts; main's g_infoContexts
    testArray,   \* run's testArray
    i,           \* the position of run's loop in it
    query,       \* run's queryResults
    phase,       \* the point of run that main is at
    ip,          \* the next statement of the test function
    exception,   \* what is being thrown in main
    isSet,       \* FatalConditionHandler::isSet
    fatal,       \* the point of reportFatal and the thread that runs it
    rep,         \* reporters_currently_used and their states
    holder,      \* the holder of each reporter's mutex
    asserting,   \* the point of each thread's current assertion
    hist         \* history: what happened, for the properties

contextVars == <<p, stats, cur, sub>>
runVars == <<testArray, i, query, phase, ip, exception>>
reportVars == <<rep, holder>>
vars == <<contextVars, runVars, isSet, fatal, reportVars, asserting, hist>>

Test == testArray[i]
Statement == Test.body[ip]
QueryMode == p.queries \cap {"count", "list_test_cases", "list_test_suites"} # {}

-----------------------------------------------------------------------------
(* Registration: a test suite's decorators are its test cases' defaults.   *)

NoDecorators == [skip |-> FALSE, may_fail |-> FALSE, should_fail |-> FALSE,
                 expected_failures |-> 0, timeout |-> 0]

Decorated(state, decorators) ==
    [d \in DOMAIN state |-> IF d \in DOMAIN decorators THEN decorators[d] ELSE state[d]]

TestSuite(name, decorators) == [name |-> name, decorators |-> Decorated(NoDecorators, decorators)]

TestCase(body, file, line, test_suite, name, decorators) ==
    LET d == Decorated(test_suite.decorators, decorators)
    IN [body |-> body, file |-> file, line |-> line, suite |-> test_suite.name, name |-> name,
        skip |-> d.skip, may_fail |-> d.may_fail, should_fail |-> d.should_fail,
        expected_failures |-> d.expected_failures, timeout |-> d.timeout]

Rank(c) == IF c = NUL THEN 0 ELSE CHOOSE k \in DOMAIN Alphabet : Alphabet[k] = c

StrLess(s, t) ==   \* strcmp(s, t) < 0
    \E k \in DOMAIN t : /\ \A j \in 1..k - 1 : At(s, j) = t[j]
                        /\ Rank(At(s, k)) < Rank(t[k])

fileOrderComparator(a, b) ==
    StrLess(a.file, b.file) \/ (a.file = b.file /\ a.line < b.line)
suiteOrderComparator(a, b) ==
    StrLess(a.suite, b.suite) \/ (a.suite = b.suite /\ fileOrderComparator(a, b))
nameOrderComparator(a, b) ==
    StrLess(a.name, b.name) \/ (a.name = b.name /\ suiteOrderComparator(a, b))

(* getRegisteredTests' own order (line, then file), and run's sorting.     *)
RegisteredOrder(a, b) == a.line < b.line \/ (a.line = b.line /\ StrLess(a.file, b.file))

Arrays(tests) ==
    LET Sorted(Less(_, _)) ==
            {a \in SetToSeqs(tests) : \A j, k \in DOMAIN a : j < k => ~Less(a[k], a[j])}
    IN CASE p.order_by = "file" -> Sorted(fileOrderComparator)
         [] p.order_by = "suite" -> Sorted(suiteOrderComparator)
         [] p.order_by = "name" -> Sorted(nameOrderComparator)
         [] p.order_by = "rand" -> SetToSeqs(tests)
         [] OTHER -> Sorted(RegisteredOrder)

-----------------------------------------------------------------------------
(* Reporters                                                               *)

ToConsole(c, e) ==
    CASE e.on = "test_case_start" -> console_test_case_start(c, e.test)
      [] e.on = "test_case_end" -> console_test_case_end(c, p.duration, e.flags)
      [] e.on = "test_case_exception" -> console_test_case_exception(c, e.contexts)
      [] e.on = "subcase_start" -> console_subcase_start(c, e.signature)
      [] e.on = "subcase_end" -> console_subcase_end(c)
      [] e.on = "log" -> console_log(c, e.contexts)
      [] e.on = "report_query" -> console_report_query(c, e.names)
      [] e.on = "test_run_end" -> console_test_run_end(c, e.stats)
      [] OTHER -> c   \* test_run_start, test_case_skipped, the end of log_assert

ToXml(x, e) ==
    CASE e.on = "test_run_start" -> xml_test_run_start(x)
      [] e.on = "test_case_start" -> xml_test_case_start(x, e.test)
      [] e.on = "test_case_skipped" -> xml_test_case_skipped(x, e.test, p.no_skipped_summary)
      [] e.on = "test_case_end" -> xml_test_case_end(x)
      [] e.on = "test_case_exception" -> xml_test_case_exception(x)
      [] e.on = "subcase_start" -> xml_subcase_start(x)
      [] e.on = "subcase_end" -> xml_subcase_end(x)
      [] e.on = "log" -> xml_log(x, e.element, e.parts, e.contexts)
      [] e.on = "log_ends" -> xml_log_ends(x, e.element)
      [] e.on = "report_query" -> xml_report_query(x)
      [] e.on = "test_run_end" -> xml_test_run_end(x)

Notify(e) ==
    rep' = [r \in DOMAIN rep |-> IF r = "xml" THEN ToXml(rep[r], e) ELSE ToConsole(rep[r], e)]

(* The methods that begin with a lock_guard.                               *)
Locking == [console |-> {"subcase_start", "subcase_end", "log"},
            grader |-> {"subcase_start", "subcase_end", "log"},
            xml |-> {"test_case_exception", "subcase_start", "log"}]

MayEnter(e) == \A r \in DOMAIN rep : e.on \in Locking[r] => holder[r] = Nobody

(* mutant: a method returns with the mutex locked                          *)
KeptBy(t) == holder

(* The end of the methods' lock_guards.                                    *)
ReleasedBy(t) == [r \in DOMAIN holder |-> IF holder[r] = t THEN Nobody ELSE holder[r]]

-----------------------------------------------------------------------------
(* Context::run up to the first test case                                  *)

NoTestYet == [test |-> <<>>, asserts |-> 0, failed |-> 0, flags |-> {}]
NoSubcases == [stack |-> <<>>, passed |-> {}, maxLevel |-> 0, reenter |-> FALSE, log |-> TRUE,
               infos |-> <<>>, stringified |-> <<>>]
Idle == [pc |-> "idle"]

Init ==
    /\ p \in Contexts
    /\ testArray \in {SetToSeq(tests) : tests \in Programs}
    /\ stats = [numTestCases |-> 0, numTestCasesPassingFilters |-> 0,
                numTestSuitesPassingFilters |-> 0, numTestCasesFailed |-> 0,
                numAsserts |-> 0, numAssertsFailed |-> 0]
    /\ cur = NoTestYet /\ sub = NoSubcases
    /\ i = 1 /\ query = <<>> /\ phase = "run" /\ ip = 1 /\ exception = "none"
    /\ isSet = FALSE /\ fatal = [pc |-> "no", by |-> Nobody, calm |-> TRUE]
    /\ rep = <<>> /\ holder = [r \in DOMAIN Reporters |-> Nobody]
    /\ asserting = [t \in Threads |-> Idle]
    /\ hist = [entered |-> <<>>, failing |-> 0, total |-> 0, threw |-> FALSE, verdicts |-> <<>>]

(* The reporters whose names pass filters[8].                              *)
ReportersUsed ==
    LET filter == IF p.filters[9] = <<>> THEN <<Reporters.console>> ELSE p.filters[9]
    IN {r \in DOMAIN Reporters : matchesAny(Reporters[r], filter, FALSE, p.case_sensitive)}

UseReporters ==
    /\ phase = "run"
    /\ rep' = [r \in ReportersUsed |-> IF r = "xml" THEN NewXml ELSE NewConsole]
    /\ phase' = "start"
    /\ UNCHANGED <<contextVars, testArray, i, query, ip, exception, isSet, fatal, holder, asserting, hist>>

NothingToRun == p.no_run \/ p.queries \cap {"version", "help", "list_reporters"} # {}

RunNothing ==
    /\ phase = "start" /\ NothingToRun
    /\ Notify([on |-> "report_query", names |-> <<>>])
    /\ phase' = "cleanup"
    /\ UNCHANGED <<contextVars, testArray, i, query, ip, exception, isSet, fatal, holder, asserting, hist>>

CollectTests ==
    /\ phase = "start" /\ ~NothingToRun
    /\ testArray' \in Arrays(ToSet(testArray))
    /\ stats' = [stats EXCEPT !.numTestCases = Len(testArray)]
    /\ IF QueryMode THEN UNCHANGED rep ELSE Notify([on |-> "test_run_start"])
    /\ phase' = "next"
    /\ UNCHANGED <<p, cur, sub, i, query, ip, exception, isSet, fatal, holder, asserting, hist>>

-----------------------------------------------------------------------------
(* Context::run's loop over testArray                                      *)

Filter(k) == p.filters[k + 1]

Excluded(t) ==
    LET Matches(name, k, empty) == matchesAny(name, Filter(k), empty, p.case_sensitive)
    IN \/ t.skip /\ ~p.no_skip
       \/ ~Matches(t.file, 0, TRUE) \/ Matches(t.file, 1, FALSE)
       \/ ~Matches(t.suite, 2, TRUE) \/ Matches(t.suite, 3, FALSE)
       \/ ~Matches(t.name, 4, TRUE) \/ Matches(t.name, 5, FALSE)

Passing == stats.numTestCasesPassingFilters + (IF Excluded(Test) THEN 0 ELSE 1)

(* mutant: the last test case of the range is left out                     *)
OutOfRangeEarly ==
    (p.last <= Passing /\ p.first <= p.last) \/ p.first > Passing

OutOfRange ==
    (p.last < Passing /\ p.first <= p.last) \/ p.first > Passing

SkipMe == Excluded(Test) \/ OutOfRange

AtTest == phase = "next" /\ i <= Len(testArray)

SkipTest ==
    /\ AtTest /\ SkipMe
    /\ stats' = [stats EXCEPT !.numTestCasesPassingFilters = Passing]
    /\ IF QueryMode THEN UNCHANGED rep ELSE Notify([on |-> "test_case_skipped", test |-> Test])
    /\ i' = i + 1
    /\ UNCHANGED <<p, cur, sub, testArray, query, phase, ip, exception, isSet, fatal, holder, asserting, hist>>

(* testSuitesPassingFilt, as what query holds of it.                       *)
NewSuite == Test.suite # <<>> /\ \A k \in DOMAIN query : query[k].suite # Test.suite

ListTest ==
    /\ AtTest /\ ~SkipMe /\ QueryMode
    /\ LET suites == "count" \notin p.queries /\ "list_test_cases" \notin p.queries
           listed == "count" \notin p.queries /\ (suites => NewSuite)
       IN /\ query' = IF listed THEN Append(query, Test) ELSE query
          /\ stats' = [stats EXCEPT !.numTestCasesPassingFilters = Passing,
                           !.numTestSuitesPassingFilters = @ + (IF suites /\ listed THEN 1 ELSE 0)]
    /\ i' = i + 1
    /\ UNCHANGED <<p, cur, sub, testArray, phase, ip, exception, isSet, fatal, reportVars, asserting, hist>>

StartTest ==
    /\ AtTest /\ ~SkipMe /\ ~QueryMode
    /\ stats' = [stats EXCEPT !.numTestCasesPassingFilters = Passing]
    /\ cur' = [NoTestYet EXCEPT !.test = <<Test>>]
    /\ sub' = [sub EXCEPT !.passed = {}]
    /\ Notify([on |-> "test_case_start", test |-> Test])
    /\ phase' = "pass"
    /\ hist' = [hist EXCEPT !.entered = <<>>, !.failing = 0, !.threw = FALSE]
    /\ UNCHANGED <<p, testArray, i, query, ip, exception, isSet, fatal, holder, asserting>>

(* mutant: the stringified contexts of an earlier pass are kept            *)
ResetWithoutContexts ==
    [NoSubcases EXCEPT !.passed = sub.passed, !.infos = sub.infos, !.stringified = sub.stringified]

(* Every field but the set of passed subcases, and g_infoContexts.         *)
ResetSubcases == [NoSubcases EXCEPT !.passed = sub.passed, !.infos = sub.infos]

(* The do-while loop: from the reset of the subcases' fields to the call   *)
(* of the test function.                                                   *)
StartPass ==
    /\ phase = "pass"
    /\ sub' = ResetSubcases
    /\ isSet' = TRUE
    /\ phase' = "body" /\ ip' = 1 /\ exception' = "none"
    /\ UNCHANGED <<p, stats, cur, testArray, i, query, fatal, reportVars, asserting, hist>>

(* Main is past the last statement, where the outermost contexts end.      *)
AtEnd == phase = "body" /\ ip > Len(Test.body) /\ asserting[Main] = Idle

BodyReturns ==
    /\ AtEnd /\ sub.infos = <<>>
    /\ isSet' = FALSE
    /\ phase' = "after"
    /\ UNCHANGED <<contextVars, testArray, i, query, ip, exception, fatal, reportVars, asserting, hist>>

ExceptionEvent == [on |-> "test_case_exception", contexts |-> sub.stringified]

(* The catch clauses: subcases have been left and contexts destroyed.      *)
Catch ==
    /\ phase = "unwind" /\ sub.stack = <<>> /\ sub.infos = <<>>
    /\ LET e == ExceptionEvent
       IN IF exception = "TestFailureException"
          THEN /\ cur' = [cur EXCEPT !.flags = @ \cup {"AssertFailure"}]
               /\ UNCHANGED rep
          ELSE /\ MayEnter(e) /\ Notify(e)
               /\ cur' = [cur EXCEPT !.flags = @ \cup {"Exception"}]
    /\ isSet' = FALSE
    /\ phase' = "after"
    /\ UNCHANGED <<p, stats, sub, testArray, i, query, ip, exception, fatal, holder, asserting, hist>>

(* mutant: one more failure than abort-after allows                        *)
EnoughFailedLate(failed) == p.abort_after > 0 /\ failed > p.abort_after

EnoughFailed(failed) == p.abort_after > 0 /\ failed >= p.abort_after

AfterPass ==
    /\ phase = "after"
    /\ LET enough == EnoughFailed(stats.numAssertsFailed + cur.failed)
       IN /\ cur' = IF enough THEN [cur EXCEPT !.flags = @ \cup {"TooManyFailedAsserts"}] ELSE cur
          /\ phase' = IF sub.reenter /\ ~enough THEN "pass" ELSE "finalize"
    /\ UNCHANGED <<p, stats, sub, testArray, i, query, ip, exception, isSet, fatal, reportVars, asserting, hist>>

(* mutant: 0 expected failures is taken for an expectation                 *)
FinalFlagsReordered(t, late) ==
    LET flags == cur.flags \cup (IF cur.failed > 0 THEN {"AssertFailure"} ELSE {})
    IN flags \cup
       (IF t.should_fail
        THEN {IF flags # {} THEN "ShouldHaveFailedAndDid" ELSE "ShouldHaveFailedButDidnt"}
        ELSE IF cur.failed = t.expected_failures THEN {"FailedExactlyNumTimes"}
        ELSE IF flags # {} /\ t.may_fail THEN {"CouldHaveFailedAndDid"} ELSE {})

(* finalizeTestCaseData, for a test case that was late or not.             *)
FinalFlags(t, late) ==
    LET flags == cur.flags \cup (IF cur.failed > 0 THEN {"AssertFailure"} ELSE {})
                           \cup (IF late THEN {"Timeout"} ELSE {})
    IN flags \cup
       (IF t.should_fail
        THEN {IF flags # {} THEN "ShouldHaveFailedAndDid" ELSE "ShouldHaveFailedButDidnt"}
        ELSE IF flags # {} /\ t.may_fail THEN {"CouldHaveFailedAndDid"}
        ELSE IF t.expected_failures > 0
             THEN {IF cur.failed = t.expected_failures THEN "FailedExactlyNumTimes"
                   ELSE "DidntFailExactlyNumTimes"}
             ELSE {})

OkToFail == {"ShouldHaveFailedAndDid", "CouldHaveFailedAndDid", "FailedExactlyNumTimes"}

finalizeTestCaseData(late) ==
    LET flags == FinalFlags(cur.test[1], late)
    IN /\ cur' = [cur EXCEPT !.flags = flags]
       /\ stats' = [stats EXCEPT !.numAsserts = @ + cur.asserts, !.numAssertsFailed = @ + cur.failed,
                        !.numTestCasesFailed =
                            @ + (IF flags # {} /\ flags \cap OkToFail = {} THEN 1 ELSE 0)]
       /\ hist' = [hist EXCEPT !.verdicts =
                       Append(@, [test |-> cur.test[1], failing |-> hist.failing,
                                  threw |-> hist.threw, late |-> late])]

(* Whether the test case ran longer than its timeout, if it has one.       *)
MayBeLate(t) == IF t.timeout > 0 THEN BOOLEAN ELSE {FALSE}

EndTest ==
    /\ phase = "finalize"
    /\ \E late \in MayBeLate(Test) : finalizeTestCaseData(late)
    /\ phase' = "end"
    /\ UNCHANGED <<p, sub, testArray, i, query, ip, exception, isSet, fatal, reportVars, asserting>>

LeaveTest ==
    /\ phase = "end"
    /\ Notify([on |-> "test_case_end", flags |-> cur.flags])
    /\ cur' = [cur EXCEPT !.test = <<>>]
    /\ i' = i + 1
    /\ phase' = IF EnoughFailed(stats.numAssertsFailed) THEN "last" ELSE "next"
    /\ UNCHANGED <<p, stats, sub, testArray, query, ip, exception, isSet, fatal, holder, asserting, hist>>

EndRun ==
    /\ phase = "last" \/ (phase = "next" /\ i > Len(testArray))
    /\ Notify(IF QueryMode THEN [on |-> "report_query", names |-> query]
              ELSE [on |-> "test_run_end", stats |-> stats])
    /\ phase' = "cleanup"
    /\ UNCHANGED <<contextVars, testArray, i, query, ip, exception, isSet, fatal, holder, asserting, hist>>

(* cleanup_and_return: the reporters are destroyed.                        *)
Cleanup ==
    /\ phase = "cleanup"
    /\ rep' = <<>>
    /\ phase' = IF stats.numTestCasesFailed > 0 /\ ~p.no_exitcode THEN "EXIT_FAILURE"
                ELSE "EXIT_SUCCESS"
    /\ UNCHANGED <<contextVars, testArray, i, query, ip, exception, isSet, fatal, holder, asserting, hist>>

-----------------------------------------------------------------------------
(* Subcases                                                                *)

AtStatement(op) ==
    /\ phase = "body" /\ ip <= Len(Test.body) /\ asserting[Main] = Idle
    /\ Statement.op = op

(* A subcase's signature; a test function is in one file.                  *)
Signature == [name |-> Statement.name, line |-> Statement.line]

Filtered(name) ==
    /\ Len(sub.stack) < SizeT(p.subcase_filter_levels)
    /\ \/ ~matchesAny(name, Filter(6), TRUE, p.case_sensitive)
       \/ matchesAny(name, Filter(7), FALSE, p.case_sensitive)

(* mutant: the first subcase of a level is taken for a later one           *)
SameLevelEnteredEarly == Len(sub.stack) <= sub.maxLevel

SameLevelEntered == Len(sub.stack) < sub.maxLevel

(* Subcase::Subcase that returns with m_entered false.                     *)
SkipSubcase ==
    /\ AtStatement("open")
    /\ \/ Filtered(Statement.name) /\ UNCHANGED sub
       \/ /\ ~Filtered(Statement.name) /\ SameLevelEntered
          /\ sub' = [sub EXCEPT !.reenter = TRUE]
       \/ /\ ~Filtered(Statement.name) /\ ~SameLevelEntered
          /\ Append(sub.stack, Signature) \in sub.passed /\ UNCHANGED sub
    /\ ip' = Statement.end + 1
    /\ UNCHANGED <<p, stats, cur, testArray, i, query, phase, exception, isSet, fatal, reportVars, asserting, hist>>

(* Subcase::Subcase that enters, up to the reporters' subcase_start.       *)
EnterSubcase ==
    LET stack == Append(sub.stack, Signature)
    IN /\ AtStatement("open")
       /\ ~Filtered(Statement.name) /\ ~SameLevelEntered /\ stack \notin sub.passed
       /\ sub' = [sub EXCEPT !.stack = stack, !.maxLevel = Len(stack)]
       /\ phase' = "entering"
       /\ hist' = [hist EXCEPT !.entered = Append(@, stack)]
       /\ UNCHANGED <<p, stats, cur, testArray, i, query, ip, exception, isSet, fatal, reportVars, asserting>>

(* The destructor of a subcase that an exception leaves first announces it.*)
Announces == exception # "none" /\ sub.log

(* What Subcase's constructor or destructor is about to tell the reporters.*)
Pending ==
    IF phase = "entering" THEN [on |-> "subcase_start", signature |-> Signature]
    ELSE IF Announces THEN ExceptionEvent
    ELSE [on |-> "subcase_end"]

MainHolds(e) == \A r \in DOMAIN rep : e.on \in Locking[r] => holder[r] = Main

(* The reporters' lock_guards; a signal may come while main holds them.    *)
LockReporters ==
    /\ phase \in {"entering", "leaving"}
    /\ MayEnter(Pending) /\ ~MainHolds(Pending)
    /\ holder' = [r \in DOMAIN holder |-> IF r \in DOMAIN rep /\ Pending.on \in Locking[r] THEN Main
                                         ELSE holder[r]]
    /\ UNCHANGED <<contextVars, runVars, isSet, fatal, rep, asserting, hist>>

Report(e) ==
    /\ MainHolds(e) /\ Notify(e)
    /\ holder' = ReleasedBy(Main)

EnteredSubcase ==
    /\ phase = "entering"
    /\ Report(Pending)
    /\ phase' = "body" /\ ip' = ip + 1
    /\ UNCHANGED <<contextVars, testArray, i, query, exception, isSet, fatal, asserting, hist>>

(* Subcase::~Subcase, at the closing brace or while an exception passes,   *)
(* up to the reporters' subcase_end.                                       *)
Leaving == sub.stack # <<>> /\ (AtStatement("close") \/ phase = "unwind")

(* The last context of main is in the innermost scope that main is in.     *)
InfoOnTop == sub.infos # <<>> /\ Last(sub.infos).depth = Len(sub.stack)

(* mutant: a subcase is passed although an inner one was skipped           *)
PassedAnyway == sub.passed \cup {sub.stack}
PassedAfter == IF sub.reenter THEN sub.passed ELSE sub.passed \cup {sub.stack}

LeaveSubcase ==
    /\ Leaving /\ ~InfoOnTop
    /\ sub' = [sub EXCEPT !.passed = PassedAfter, !.stack = Front(@)]
    /\ phase' = "leaving"
    /\ UNCHANGED <<p, stats, cur, testArray, i, query, ip, exception, isSet, fatal, reportVars, asserting, hist>>

AnnounceException ==
    /\ phase = "leaving" /\ Announces
    /\ Report(Pending)
    /\ sub' = [sub EXCEPT !.log = FALSE]
    /\ UNCHANGED <<p, stats, cur, runVars, isSet, fatal, asserting, hist>>

LeftSubcase ==
    /\ phase = "leaving" /\ ~Announces
    /\ Report(Pending)
    /\ IF exception = "none" THEN phase' = "body" /\ ip' = ip + 1
       ELSE phase' = "unwind" /\ UNCHANGED ip
    /\ UNCHANGED <<contextVars, testArray, i, query, exception, isSet, fatal, asserting, hist>>

-----------------------------------------------------------------------------
(* INFO: a ContextScope for the rest of the enclosing subcase or function. *)

BeginContext ==
    /\ AtStatement("info")
    /\ sub' = [sub EXCEPT !.infos = Append(@, [text |-> Statement.text, depth |-> Len(sub.stack)])]
    /\ ip' = ip + 1
    /\ UNCHANGED <<p, stats, cur, testArray, i, query, phase, exception, isSet, fatal, reportVars, asserting, hist>>

(* ContextScopeBase::destroy, at the end of the scope or while an exception*)
(* passes, which keeps what the context says for the report.               *)
DestroyContext ==
    /\ (Leaving \/ AtEnd \/ phase = "unwind") /\ InfoOnTop
    /\ sub' = [sub EXCEPT !.infos = Front(@),
                          !.stringified = IF exception = "none" THEN @
                                          ELSE Append(@, Last(sub.infos).text)]
    /\ UNCHANGED <<p, stats, cur, runVars, isSet, fatal, reportVars, asserting, hist>>

(* What a thread's g_infoContexts say: only main makes contexts.           *)
ActiveContexts(t) ==
    IF t = Main THEN [k \in DOMAIN sub.infos |-> sub.infos[k].text] ELSE <<>>

-----------------------------------------------------------------------------
(* Assertions and messages.  ResultBuilder::log counts an assertion before *)
(* it is logged; MessageBuilder::log counts a message after that.          *)

Begun(at, kind, result) ==
    [pc |-> IF kind = "message" THEN "log" ELSE "count", at |-> at, kind |-> kind,
     threw |-> result.threw, failed |-> Failed(kind, result)]

(* no_throw leaves out the assertions that expect an exception.            *)
LeftOut == p.no_throw /\ Statement.kind \in {"throws", "throws_as", "throws_with", "throws_with_as"}

SkipAssertion ==
    /\ AtStatement("assert") /\ LeftOut
    /\ ip' = ip + 1
    /\ UNCHANGED <<contextVars, testArray, i, query, phase, exception, isSet, fatal, reportVars, asserting, hist>>

Failing(at, failed) == IF failed /\ at # "warn" THEN 1 ELSE 0

MakeAssertion ==
    /\ AtStatement("assert") /\ ~LeftOut
    /\ asserting' = [asserting EXCEPT ![Main] =
                         Begun(Statement.at, Statement.kind, Statement.result)]
    /\ ip' = ip + 1
    /\ fatal' = [fatal EXCEPT !.calm = @ /\ fatal.pc = "no"]
    /\ LET failing == Failing(Statement.at, Failed(Statement.kind, Statement.result))
       IN hist' = [hist EXCEPT !.failing = @ + failing, !.total = @ + failing]
    /\ UNCHANGED <<contextVars, testArray, i, query, phase, exception, isSet, reportVars>>

AddAssert(t) ==
    /\ asserting[t].pc = "count"
    /\ cur' = IF asserting[t].at = "warn" THEN cur ELSE [cur EXCEPT !.asserts = @ + 1]
    /\ asserting' = [asserting EXCEPT ![t].pc = "log"]
    /\ UNCHANGED <<p, stats, sub, runVars, isSet, fatal, reportVars, hist>>

(* log_assert returns at once when there is nothing to say.                *)
SaysNothing(t) ==
    DOMAIN rep = {} \/ (~asserting[t].failed /\ ~p.success)

IsMessage(t) == asserting[t].kind = "message"
Element(t) == IF IsMessage(t) THEN "Message" ELSE "Expression"

LogSkipped(t) ==
    /\ asserting[t].pc = "log" /\ SaysNothing(t)
    /\ asserting' = [asserting EXCEPT ![t].pc = "failed"]
    /\ UNCHANGED <<contextVars, runVars, isSet, fatal, reportVars, hist>>

Log(t) ==
    LET e == [on |-> "log", element |-> Element(t), contexts |-> ActiveContexts(t),
              parts |-> IF IsMessage(t) THEN <<"Text">>
                        ELSE ExpressionParts(asserting[t].kind, asserting[t].threw)]
    IN /\ asserting[t].pc = "log" /\ ~SaysNothing(t)
       /\ MayEnter(e) /\ Notify(e)
       /\ holder' = [r \in DOMAIN holder |-> IF r \in DOMAIN rep THEN t ELSE holder[r]]
       /\ asserting' = [asserting EXCEPT ![t].pc = "logging"]
       /\ UNCHANGED <<contextVars, runVars, isSet, fatal, hist>>

Logged(t) ==
    /\ asserting[t].pc = "logging"
    /\ Notify([on |-> "log_ends", element |-> Element(t)])
    /\ holder' = ReleasedBy(t)
    /\ asserting' = [asserting EXCEPT ![t].pc = "failed"]
    /\ UNCHANGED <<contextVars, runVars, isSet, fatal, hist>>

AddFailedAssert(t) ==
    LET a == asserting[t]
    IN /\ a.pc = "failed"
       /\ cur' = [cur EXCEPT !.failed = @ + Failing(a.at, a.failed),
                             !.asserts = @ + (IF IsMessage(t) THEN Failing(a.at, TRUE) ELSE 0)]
       /\ asserting' = [asserting EXCEPT ![t].pc = "react"]
       /\ UNCHANGED <<p, stats, sub, runVars, isSet, fatal, reportVars, hist>>

checkIfShouldThrow(at) ==
    \/ at = "require"
    \/ at = "check" /\ EnoughFailed(stats.numAssertsFailed + cur.failed)

(* MessageBuilder::react does not look at abort_after.                     *)
MessageThrows(at) == at = "require"

Throws(t) ==
    LET a == asserting[t]
    IN a.failed /\ (IF IsMessage(t) THEN MessageThrows(a.at) ELSE checkIfShouldThrow(a.at))

AssertReturns(t) ==
    /\ asserting[t].pc = "react" /\ ~Throws(t)
    /\ asserting' = [asserting EXCEPT ![t] = Idle]
    /\ UNCHANGED <<contextVars, runVars, isSet, fatal, reportVars, hist>>

throwException ==
    /\ asserting[Main].pc = "react" /\ Throws(Main)
    /\ sub' = [sub EXCEPT !.log = FALSE]
    /\ exception' = "TestFailureException" /\ phase' = "unwind"
    /\ asserting' = [asserting EXCEPT ![Main] = Idle]
    /\ hist' = [hist EXCEPT !.threw = TRUE]
    /\ UNCHANGED <<p, stats, cur, testArray, i, query, ip, isSet, fatal, reportVars>>

Throw ==   \* the test function's own exception
    /\ AtStatement("throw")
    /\ exception' = "other" /\ phase' = "unwind"
    /\ hist' = [hist EXCEPT !.threw = TRUE]
    /\ UNCHANGED <<contextVars, testArray, i, query, ip, isSet, fatal, reportVars, asserting>>

(* pthread_create of the workers, each of which makes one assertion, and   *)
(* pthread_join of them.                                                   *)
CreateThreads ==
    LET Fails(w) == Failed("normal", Statement.results[w])
    IN /\ AtStatement("create")
       /\ asserting' = [t \in Threads |-> IF t = Main THEN Idle
                                          ELSE Begun("check", "normal", Statement.results[t])]
       /\ ip' = ip + 1
       /\ LET failing == Cardinality({w \in Workers : Fails(w)})
          IN hist' = [hist EXCEPT !.failing = @ + failing, !.total = @ + failing]
       /\ UNCHANGED <<contextVars, testArray, i, query, phase, exception, isSet, fatal, reportVars>>

JoinThreads ==
    /\ AtStatement("join")
    /\ \A w \in Workers : asserting[w] = Idle
    /\ ip' = ip + 1
    /\ UNCHANGED <<contextVars, testArray, i, query, phase, exception, isSet, fatal, reportVars, asserting, hist>>

-----------------------------------------------------------------------------
(* Signals                                                                 *)

(* History: no other thread is making an assertion (nor begins one, see    *)
(* MakeAssertion, while the crash is reported), and main is not between a  *)
(* change of subcasesStack and the reporters' hearing of it.               *)
Calm(t) ==
    /\ phase \notin {"entering", "leaving"}
    /\ \A u \in Threads \ {t} : asserting[u] = Idle

(* handleSignal up to reportFatal's first loop, in thread t; while isSet is*)
(* FALSE the signal has its default action and ends the program.           *)
HandleSignal(t) ==
    IF isSet
    THEN /\ isSet' = FALSE
         /\ cur' = [cur EXCEPT !.flags = @ \cup {"Crash"}]
         /\ fatal' = [pc |-> "exception", by |-> t, calm |-> Calm(t)]
         /\ UNCHANGED phase
    ELSE phase' = "killed" /\ UNCHANGED <<isSet, cur, fatal>>

Interrupt ==
    /\ Signals /\ fatal.pc = "no" /\ phase \in {"body", "entering", "leaving", "unwind"}
    /\ HandleSignal(Main)
    /\ UNCHANGED <<p, stats, sub, testArray, i, query, ip, exception, reportVars, asserting, hist>>

(* An exception leaves a thread's start routine: terminate, abort, SIGABRT.*)
Terminate(w) ==
    /\ asserting[w].pc = "react" /\ Throws(w)
    /\ sub' = [sub EXCEPT !.log = FALSE]
    /\ HandleSignal(w)
    /\ asserting' = [asserting EXCEPT ![w].pc = "aborted"]
    /\ UNCHANGED <<p, stats, testArray, i, query, ip, exception, reportVars, hist>>

FatalEvent == IF fatal.pc = "exception" THEN ExceptionEvent ELSE [on |-> "subcase_end"]

FatalException ==
    /\ fatal.pc = "exception"
    /\ MayEnter(FatalEvent) /\ Notify(FatalEvent)
    /\ fatal' = [fatal EXCEPT !.pc = "pop"]
    /\ UNCHANGED <<contextVars, runVars, isSet, holder, asserting, hist>>

FatalPop ==
    /\ fatal.pc = "pop" /\ sub.stack # <<>>
    /\ sub' = [sub EXCEPT !.stack = Front(@)]
    /\ MayEnter(FatalEvent) /\ Notify(FatalEvent)
    /\ UNCHANGED <<p, stats, cur, runVars, isSet, fatal, holder, asserting, hist>>

FatalFinalize ==
    /\ fatal.pc = "pop" /\ sub.stack = <<>>
    /\ \E late \in MayBeLate(cur.test[1]) : finalizeTestCaseData(late)
    /\ fatal' = [fatal EXCEPT !.pc = "end"]
    /\ UNCHANGED <<p, sub, runVars, isSet, reportVars, asserting>>

FatalTestEnd ==
    /\ fatal.pc = "end"
    /\ Notify([on |-> "test_case_end", flags |-> cur.flags])
    /\ fatal' = [fatal EXCEPT !.pc = "run_end"]
    /\ UNCHANGED <<contextVars, runVars, isSet, holder, asserting, hist>>

(* ... and raise, the signal's default action.                             *)
FatalRunEnd ==
    /\ fatal.pc = "run_end"
    /\ Notify([on |-> "test_run_end", stats |-> stats])
    /\ phase' = "killed"
    /\ UNCHANGED <<contextVars, testArray, i, query, ip, exception, isSet, fatal, holder, asserting, hist>>

-----------------------------------------------------------------------------

Ended == phase \in {"EXIT_SUCCESS", "EXIT_FAILURE", "killed"}

AssertStep(t) ==
    AddAssert(t) \/ LogSkipped(t) \/ Log(t) \/ Logged(t) \/ AddFailedAssert(t) \/ AssertReturns(t)

RunStep ==
    \/ UseReporters \/ RunNothing \/ CollectTests
    \/ SkipTest \/ ListTest \/ StartTest \/ StartPass \/ BodyReturns \/ Catch
    \/ AfterPass \/ EndTest \/ LeaveTest \/ EndRun \/ Cleanup

BodyStep ==
    \/ SkipSubcase \/ EnterSubcase \/ EnteredSubcase
    \/ LeaveSubcase \/ AnnounceException \/ LeftSubcase \/ LockReporters
    \/ BeginContext \/ DestroyContext
    \/ SkipAssertion \/ MakeAssertion \/ AssertStep(Main) \/ throwException \/ Throw
    \/ CreateThreads \/ JoinThreads

FatalStep ==
    FatalException \/ FatalPop \/ FatalFinalize \/ FatalTestEnd \/ FatalRunEnd

(* A thread that handles a signal does nothing else.                       *)
MainStep == ~Ended /\ fatal.by # Main /\ (RunStep \/ BodyStep)
WorkerStep(w) == ~Ended /\ fatal.by # w /\ (AssertStep(w) \/ Terminate(w))
HandlerStep == ~Ended /\ FatalStep

Next == MainStep \/ (\E w \in Workers : WorkerStep(w)) \/ HandlerStep \/ (~Ended /\ Interrupt)

Spec == Init /\ [][Next]_vars

(* Threads that can run do; signals need not come.                         *)
FairSpec == Spec /\ WF_vars(MainStep) /\ WF_vars(HandlerStep)
                 /\ \A w \in Workers : WF_vars(WorkerStep(w))
-----------------------------------------------------------------------------
(* Properties                                                              *)

(* The paths of subcases that a test function has and the filters admit,   *)
(* and those of them that lead to no other.                                *)
Path(body, k) ==
    LET enclosing == InOrder({o \in 1..k : body[o].op = "open" /\ body[o].end > k}, k)
    IN [j \in DOMAIN enclosing |-> [name |-> body[enclosing[j]].name, line |-> body[enclosing[j]].line]]

Admitted(path) ==
    \A j \in DOMAIN path : j <= SizeT(p.subcase_filter_levels) =>
        /\ Filter(6) = <<>> \/ Selects(Filter(6), path[j].name, p.case_sensitive)
        /\ ~Selects(Filter(7), path[j].name, p.case_sensitive)

Opens(body) == {o \in DOMAIN body : body[o].op = "open"}
AdmittedPaths(body) == {path \in {Path(body, k) : k \in Opens(body)} : Admitted(path)}

Leaves(body) ==
    {path \in AdmittedPaths(body) : \A q \in AdmittedPaths(body) : ~IsStrictPrefix(path, q)}

(* A SUBCASE that main comes by again has the same SUBCASEs in it.         *)
Uniform(body) ==
    \A o, c \in Opens(body) : IsPrefix(Path(body, o), Path(body, c)) =>
        \E d \in Opens(body) \cap (o..body[o].end) : Path(body, d) = Path(body, c)

Entries(path) == {k \in DOMAIN hist.entered : hist.entered[k] = path}

(* A test case that throws nothing and is not aborted is run once for each *)
(* path of subcases: no leaf is run twice, none is left out (unless a      *)
(* SUBCASE in a loop has others in it the second time, which doctest does  *)
(* not see), and nothing the filters exclude is entered (Subcase::Subcase, *)
(* ~Subcase and the do-while loop of run).                                 *)
EachLeafOnce ==
    (phase = "finalize" /\ ~hist.threw /\ "TooManyFailedAsserts" \notin cur.flags) =>
        /\ \A leaf \in Leaves(Test.body) :
               /\ Cardinality(Entries(leaf)) <= 1
               /\ Uniform(Test.body) => Cardinality(Entries(leaf)) = 1
        /\ ToSet(hist.entered) \subseteq AdmittedPaths(Test.body)

(* Once a pass has skipped a subcase it enters no other: what it leaves for*)
(* the next pass cannot be marked as passed by what it still does.         *)
SkippedForGood == [][sub.reenter /\ sub'.reenter => sub'.passed = sub.passed /\ Len(sub'.stack) <= Len(sub.stack)]_vars

(* How a test case ended, read from what happened in it.                   *)
Unexpected(v) ==
    LET bad == v.failing > 0 \/ v.threw \/ v.late
    IN IF v.test.should_fail THEN ~bad
       ELSE IF v.test.may_fail /\ bad THEN FALSE
       ELSE IF v.test.expected_failures > 0 THEN v.failing # v.test.expected_failures
       ELSE bad

(* The process exits with failure exactly when some test case ended as its *)
(* decorators do not allow, whatever threads, exceptions and re-entries its*)
(* failures were met in.                                                   *)
ExitCodeTells ==
    phase \in {"EXIT_SUCCESS", "EXIT_FAILURE"} =>
        (phase = "EXIT_FAILURE" <=> ~p.no_exitcode /\ \E k \in DOMAIN hist.verdicts :
                                                            Unexpected(hist.verdicts[k]))

(* The selected test cases: those the masks and the range select, in order.*)
Wanted(t) ==
    LET In(name, k) == Filter(k) = <<>> \/ Selects(Filter(k), name, p.case_sensitive)
        Out(name, k) == Selects(Filter(k), name, p.case_sensitive)
    IN /\ t.skip => p.no_skip
       /\ In(t.file, 0) /\ In(t.suite, 2) /\ In(t.name, 4)
       /\ ~Out(t.file, 1) /\ ~Out(t.suite, 3) /\ ~Out(t.name, 5)

Ordinal(k) == Cardinality({j \in 1..k : Wanted(testArray[j])})
InRange(n) == n >= p.first /\ (p.last < p.first \/ n <= p.last)

SelectedUpTo(n) ==
    LET chosen == InOrder({k \in DOMAIN testArray : Wanted(testArray[k]) /\ InRange(Ordinal(k))}, n)
    IN [j \in DOMAIN chosen |-> testArray[chosen[j]]]

Selected == SelectedUpTo(Len(testArray))

Ran == [k \in DOMAIN hist.verdicts |-> hist.verdicts[k].test]
ListsTests == "list_test_cases" \in p.queries /\ "count" \notin p.queries

(* A run executes the selected test cases in order, each once, all of them *)
(* unless abort-after is reached; --list-test-cases lists the same ones.   *)
SelectedAreRun ==
    (phase = "cleanup" /\ ~NothingToRun) =>
        /\ ListsTests => query = Selected
        /\ ~QueryMode => Ran = Selected \/ (EnoughFailed(hist.total) /\ IsPrefix(Ran, Selected))

(* A test function that starts no thread and sends no message.             *)
Alone(body) ==
    \A k \in DOMAIN body : body[k].op # "create" /\ (body[k].op = "assert" => body[k].kind # "message")

(* abort-after: without threads and messages no more assertions fail than  *)
(* it allows, and with them no test case starts after that many have.      *)
AbortIsPrompt ==
    p.abort_after > 0 =>
        /\ phase = "pass" => hist.total < p.abort_after
        /\ (\A t \in ToSet(testArray) : Alone(t.body)) => hist.total <= p.abort_after

ConsoleReporters == DOMAIN rep \ {"xml"}

(* What the console prints about an assertion stands under a header that   *)
(* names the test case and the subcases it was made in.                    *)
HeaderIsCurrent ==
    \A r \in ConsoleReporters :
        /\ rep[r].hasLoggedCurrentTestStart => rep[r].header = <<rep[r].tc, rep[r].subcasesStack>>
        /\ (phase \in {"body", "unwind"} /\ fatal.pc = "no") =>
               rep[r].tc = cur.test /\ rep[r].subcasesStack = sub.stack
        /\ \A t \in Threads : (asserting[t].pc = "logging" /\ fatal.pc = "no") =>
               rep[r].header = <<cur.test, sub.stack>>

(* The INFOs in whose scope statement k of a test function is, the         *)
(* outermost first, and their texts.                                       *)
Covers(body, j, k) ==
    /\ body[j].op = "info"
    /\ \A o \in 1..j : (body[o].op = "open" /\ body[o].end > j) => body[o].end >= k

Covering(body, k) == InOrder({j \in 1..k - 1 : Covers(body, j, k)}, k - 1)

InScope(body, k) == [j \in DOMAIN Covering(body, k) |-> body[Covering(body, k)[j]].text]

(* The contexts that the console quotes with an assertion are those that   *)
(* the thread that makes it is in, and with an exception of the test       *)
(* function those it was thrown in, although they are destroyed by then and*)
(* although other passes of the test case threw before.                    *)
InfoIsCurrent ==
    \A r \in ConsoleReporters : fatal.pc = "no" =>
        /\ (phase = "after" /\ exception = "other") => rep[r].quoted = InScope(Test.body, ip)
        /\ \A t \in Threads : asserting[t].pc = "logging" =>
               rep[r].quoted = IF t = Main THEN InScope(Test.body, ip) ELSE <<>>

(* Each end tag of the XML report ends the element that the caller began,  *)
(* and nothing is open when the run ends.  That holds of the report of a   *)
(* crash too, unless other threads were making assertions when the signal  *)
(* came or began to, or it came between the change of subcasesStack and the*)
(* report of it in Subcase's constructor or destructor.                    *)
XmlWellFormed ==
    ("xml" \in DOMAIN rep /\ fatal.calm) =>
        /\ rep["xml"].wrong = {}
        /\ phase \in {"cleanup", "killed"} => rep["xml"].tags = <<>>

(* The handler waits for a reporter's mutex that its own thread held when  *)
(* the signal came.                                                        *)
Stuck ==
    /\ fatal.pc = "exception" \/ (fatal.pc = "pop" /\ sub.stack # <<>>)
    /\ \E r \in DOMAIN rep : FatalEvent.on \in Locking[r] /\ holder[r] = fatal.by

(* A run ends, also one that a signal or a thread's exception interrupts,  *)
(* unless the signal came while main held a reporter's mutex, in the report*)
(* of an assertion, a message, a subcase or an exception that leaves one,  *)
(* and the handler waits for that mutex.                                   *)
RunEnds == <>(Ended \/ Stuck)
-----------------------------------------------------------------------------
(* The inductive invariant                                                 *)

InBody == phase \in {"body", "entering", "leaving", "unwind"}
InTest == InBody \/ phase \in {"pass", "after", "finalize", "end"}
Working(t) == asserting[t] # Idle

Assertions ==
    [pc : {"count", "log", "logging", "failed", "react", "aborted"}, at : Severities, kind : Kinds,
     threw : BOOLEAN, failed : BOOLEAN]

(* The counters are numbers, every mutex has a holder that exists, threads *)
(* make assertions and main is at a point of run.                          *)
TypeOK ==
    /\ testArray \in Seq(ToSet(testArray)) /\ \A t \in ToSet(testArray) : IsTest(t)
    /\ i \in 1..Len(testArray) + 1
    /\ phase \in {"run", "start", "next", "pass", "body", "entering", "leaving", "unwind", "after", "finalize",
                  "end", "last", "cleanup", "EXIT_SUCCESS", "EXIT_FAILURE", "killed"}
    /\ exception \in {"none", "TestFailureException", "other"} /\ isSet \in BOOLEAN
    /\ fatal \in [pc : {"no", "exception", "pop", "end", "run_end"}, by : Threads \cup {Nobody}, calm : BOOLEAN]
    /\ holder \in [DOMAIN Reporters -> Threads \cup {Nobody}]
    /\ asserting \in [Threads -> Assertions \cup {Idle}]
    /\ stats \in [numTestCases : Nat, numTestCasesPassingFilters : Nat, numTestSuitesPassingFilters : Nat,
                  numTestCasesFailed : Nat, numAsserts : Nat, numAssertsFailed : Nat]
    /\ cur = [test |-> cur.test, asserts |-> cur.asserts, failed |-> cur.failed, flags |-> cur.flags]
    /\ cur.asserts \in Nat /\ cur.failed \in Nat
    /\ hist = [entered |-> hist.entered, failing |-> hist.failing, total |-> hist.total,
               threw |-> hist.threw, verdicts |-> hist.verdicts]
    /\ hist.failing \in Nat /\ hist.total \in Nat /\ hist.threw \in BOOLEAN
    /\ hist.verdicts \in Seq(ToSet(hist.verdicts))

(* What SkippedForGood rests on, besides the fields that it needs: after a *)
(* skip main is above the deepest level it has entered, and a test case    *)
(* that ends with a subcase skipped is the last one of the run.            *)
SubcaseFields ==
    /\ p.abort_after \in Int
    /\ "numAssertsFailed" \in DOMAIN stats /\ stats.numAssertsFailed \in Nat
    /\ "failed" \in DOMAIN cur /\ cur.failed \in Nat
    /\ {"stack", "passed", "maxLevel", "reenter"} \subseteq DOMAIN sub
    /\ sub.stack \in Seq(ToSet(sub.stack)) /\ sub.maxLevel \in Nat /\ sub.reenter \in BOOLEAN

AboveDeepest == sub.reenter => Len(sub.stack) < sub.maxLevel

EnoughNow == EnoughFailed(stats.numAssertsFailed + cur.failed)

LastTest ==
    sub.reenter =>
        /\ phase \notin {"run", "start", "next"}
        /\ phase = "finalize" => EnoughNow
        /\ phase = "end" => EnoughFailed(stats.numAssertsFailed)

SkipInv == SubcaseFields /\ AboveDeepest /\ LastTest

(* Main is between a pthread_create and the pthread_join, where it throws  *)
(* nothing: only there are other threads at work.                          *)
InSpan ==
    \E k \in 1..ip - 1 : /\ Test.body[k].op = "create"
                         /\ \A j \in k + 1..ip - 1 : HarmlessAssertion(Test.body[j])

Confined ==
    /\ phase = "body" /\ InSpan
    /\ Working(Main) => Harmless(asserting[Main].at, asserting[Main].kind, asserting[Main].failed)

(* Where main, the threads and the handler of a signal are at one time.    *)
PointsInv ==
    /\ phase \in {"run", "start"} => i = 1
    /\ InTest => i <= Len(testArray) /\ cur.test = <<Test>> /\ ~QueryMode
    /\ InBody => ip \in 1..Len(Test.body) + 1
    /\ phase = "entering" => ip <= Len(Test.body) /\ Statement.op = "open"
    /\ (phase = "leaving" /\ exception = "none") => ip <= Len(Test.body) /\ Statement.op = "close"
    /\ phase \in {"body", "entering"} => exception = "none"
    /\ phase = "unwind" => exception # "none"
    /\ isSet <=> InBody /\ fatal.pc = "no"
    /\ fatal.pc = "no" <=> fatal.by = Nobody
    /\ fatal.pc = "no" => fatal.calm /\ phase # "killed"
    /\ fatal.pc # "no" => InBody \/ phase = "killed"
    /\ Working(Main) => phase \in {"body", "killed"} /\ asserting[Main].pc # "aborted"
    /\ \A w \in Workers : Working(w) => phase = "killed" \/ Confined
    /\ fatal.by \in Workers => asserting[fatal.by].pc = "aborted"

(* The failures that the assertions under way have still to count, and     *)
(* those of them whose assertion is counted.                               *)
Uncounted ==
    {t \in Threads : /\ asserting[t].pc \in {"count", "log", "logging", "failed"}
                     /\ Failing(asserting[t].at, asserting[t].failed) = 1}
HalfCounted == {t \in Uncounted : asserting[t].pc # "count" /\ ~IsMessage(t)}

(* The atomic counters lag behind what happened by what is under way.      *)
CountsInv ==
    /\ cur.failed + Cardinality(HalfCounted) <= cur.asserts
    /\ hist.failing = cur.failed + Cardinality(Uncounted)
    /\ fatal.pc = "no" =>
           hist.total = stats.numAssertsFailed + (IF InTest /\ phase # "end" THEN hist.failing ELSE 0)

(* A test case goes on from no point at which as many assertions have      *)
(* failed as abort-after allows.                                           *)
PromptInv ==
    /\ (fatal.pc = "no" /\ phase \notin {"end", "last", "cleanup", "EXIT_SUCCESS", "EXIT_FAILURE"}) =>
           ~EnoughFailed(stats.numAssertsFailed)
    /\ phase = "pass" => ~EnoughNow
    /\ (p.abort_after > 0 /\ \A t \in ToSet(testArray) : Alone(t.body)) =>
           /\ hist.total <= p.abort_after
           /\ Working(Main) => asserting[Main].kind # "message"
           /\ (fatal.pc = "no" /\ InBody /\ exception = "none") =>
                  \/ ~EnoughNow
                  \/ asserting[Main].pc = "react" /\ Failing(asserting[Main].at, asserting[Main].failed) = 1

(* The flags of the test case under way and the verdicts on the earlier.   *)
VerdictsInv ==
    /\ (fatal.pc = "no" /\ InTest /\ phase # "end") =>
           /\ cur.flags \subseteq {"AssertFailure", "Exception", "TooManyFailedAsserts"}
           /\ "TooManyFailedAsserts" \in cur.flags => cur.failed > 0
           /\ cur.flags \cap {"AssertFailure", "Exception"} # {} => hist.threw
           /\ hist.threw => \/ cur.flags \cap {"AssertFailure", "Exception"} # {}
                            \/ phase \in {"unwind", "leaving"} /\ exception # "none"
           /\ (phase \in {"unwind", "leaving"} /\ exception # "none") => hist.threw
    /\ fatal.pc = "no" =>
           (stats.numTestCasesFailed > 0 <=> \E k \in DOMAIN hist.verdicts : Unexpected(hist.verdicts[k]))
    /\ phase = "EXIT_FAILURE" => stats.numTestCasesFailed > 0 /\ ~p.no_exitcode
    /\ phase = "EXIT_SUCCESS" => stats.numTestCasesFailed = 0 \/ p.no_exitcode

(* g_infoContexts is a stack, stringifiedContexts a vector.                *)
InfosInv ==
    /\ {"infos", "stringified"} \subseteq DOMAIN sub
    /\ sub.infos \in Seq(ToSet(sub.infos)) /\ sub.stringified \in Seq(ToSet(sub.stringified))

(* The mutex of every reporter in use is with the thread that is logging,  *)
(* and with no thread but main when main tells it of a subcase.            *)
MayTell == phase \in {"entering", "leaving", "killed"}

MutexInv ==
    /\ DOMAIN rep \subseteq DOMAIN Reporters
    /\ phase = "run" => DOMAIN rep = {}
    /\ \A r \in DOMAIN Reporters : \A t \in Threads :
           /\ (r \in DOMAIN rep /\ asserting[t].pc = "logging") => holder[r] = t
           /\ holder[r] = t => /\ r \in DOMAIN rep
                               /\ asserting[t].pc = "logging" \/ (t = Main /\ MayTell)

(* subcasesStack is as deep as the blocks that main is in, and empty after *)
(* the test function.                                                      *)
DepthInv ==
    fatal.pc = "no" =>
        /\ phase = "body" => Len(sub.stack) = Depth(Test.body, ip)
        /\ phase = "entering" => Len(sub.stack) = Depth(Test.body, ip) + 1
        /\ (phase = "leaving" /\ exception = "none") => Len(sub.stack) = Depth(Test.body, ip) - 1
        /\ phase = "after" => sub.stack = <<>>

(* A console reporter's own stack follows subcasesStack.                   *)
FollowsStack(c) ==
    /\ phase \in {"body", "unwind"} => c.subcasesStack = sub.stack
    /\ phase = "entering" => sub.stack = Append(c.subcasesStack, Signature)
    /\ phase = "leaving" => sub.stack = Front(c.subcasesStack)
    /\ ~InBody => c.subcasesStack = <<>>

HeaderInv ==
    \A r \in ConsoleReporters :
        /\ DOMAIN rep[r] = DOMAIN NewConsole
        /\ rep[r].hasLoggedCurrentTestStart => rep[r].header = <<rep[r].tc, rep[r].subcasesStack>>
        /\ fatal.pc = "no" =>
              /\ InTest => rep[r].tc = cur.test
              /\ FollowsStack(rep[r])
              /\ \A t \in Threads : asserting[t].pc = "logging" => rep[r].header = <<cur.test, sub.stack>>

(* The first n elements that are open while a test function runs.          *)
Elements(n) == [k \in 1..n |-> IF k <= 3 THEN <<"doctest", "TestSuite", "TestCase">>[k] ELSE "SubCase"]

OpenElements(x) ==
    CASE phase \in {"run", "start", "cleanup", "killed"} -> 0
      [] phase \in {"next", "last"} -> IF QueryMode THEN 0 ELSE IF x.tc = <<>> THEN 1 ELSE 2
      [] phase \in {"body", "unwind"} -> IF fatal.pc = "run_end" THEN 2 ELSE Len(sub.stack) + 3
      [] phase = "entering" -> Len(sub.stack) + 2
      [] phase = "leaving" -> Len(sub.stack) + 4
      [] OTHER -> 3

(* The XML document's open elements follow the run, also while a crash is  *)
(* reported when no other thread is making an assertion.                   *)
XmlInv ==
    ("xml" \in DOMAIN rep /\ fatal.calm) =>
        LET x == rep["xml"]
        IN /\ DOMAIN x = DOMAIN NewXml /\ x.wrong = {}
           /\ phase = "start" \/ QueryMode => x.tc = <<>>
           /\ InTest => x.tc # <<>>
           /\ phase = "entering" => sub.stack # <<>>
           /\ x.tags = IF \E t \in Threads : asserting[t].pc = "logging"
                       THEN Append(Elements(OpenElements(x)), Element(holder["xml"]))
                       ELSE Elements(OpenElements(x))

CalmInv ==
    /\ fatal.pc \in {"end", "run_end"} => sub.stack = <<>>
    /\ (fatal.pc # "no" /\ fatal.calm) =>
           /\ phase \notin {"entering", "leaving"}
           /\ \A t \in Threads \ {fatal.by} : ~Working(t)
           /\ ("xml" \in DOMAIN rep /\ fatal.pc # "exception") => holder["xml"] = Nobody
           /\ phase = "killed" => fatal.pc = "run_end"

(* The contexts of main are those around the statement that it is at; some *)
(* of the innermost scope are gone while main leaves it.  When an exception*)
(* passes, what has been destroyed is in stringifiedContexts.              *)
ContextsAreThose(at) ==
    LET covering == Covering(Test.body, at)
        n == Len(sub.infos)
    IN /\ n <= Len(covering)
       /\ \A j \in 1..n : sub.infos[j] = [text |-> Test.body[covering[j]].text,
                                          depth |-> Depth(Test.body, covering[j])]
       /\ \A j \in n + 1..Len(covering) :
              /\ AtEnd \/ AtStatement("close")
              /\ Depth(Test.body, covering[j]) = Len(sub.stack)

ContextsInv ==
    fatal.pc = "no" =>
        /\ ~InBody => sub.infos = <<>>
        /\ (InBody /\ exception = "none") =>
               /\ sub.stringified = <<>>
               /\ phase # "leaving" => ContextsAreThose(ip)
               /\ phase = "leaving" => ContextsAreThose(ip + 1)
        /\ (InBody /\ exception # "none") =>
               ActiveContexts(Main) \o Reverse(sub.stringified) = InScope(Test.body, ip)
        /\ InfoIsCurrent

(* The statement after which main is.                                      *)
Behind == IF phase = "body" THEN ip - 1 ELSE ip

(* subcasesStack is the path of the blocks that main is in.  A passed      *)
(* subcase has no leaf that was not entered; so unless something was       *)
(* skipped in this pass all subcases behind main are passed.               *)
LeavesSoFar ==
    LET admitted == AdmittedPaths(Test.body)
    IN /\ hist.entered \in Seq(admitted)
       /\ \A leaf \in Leaves(Test.body) :
              Cardinality(Entries(leaf)) =
                  IF leaf \in sub.passed \/ (InBody /\ IsPrefix(leaf, sub.stack)) THEN 1 ELSE 0
       /\ InBody =>
              /\ sub.stack = Path(Test.body, Behind) /\ Admitted(sub.stack)
              /\ sub.maxLevel > 0 => /\ hist.entered # <<>> /\ Len(Last(hist.entered)) = sub.maxLevel
                                     /\ IsPrefix(sub.stack, Last(hist.entered))
       /\ (phase = "finalize" /\ "TooManyFailedAsserts" \notin cur.flags) => ~sub.reenter
       /\ \/ /\ \A path \in sub.passed, q \in admitted : IsPrefix(path, q) => q \in sub.passed
             /\ (InBody /\ ~sub.reenter) =>
                    \A o \in Opens(Test.body) :
                        (Test.body[o].end <= Behind /\ Path(Test.body, o) \in admitted) => Path(Test.body, o) \in sub.passed
             /\ (phase \in {"after", "finalize"} /\ ~sub.reenter) => admitted \subseteq sub.passed
          \/ ~Uniform(Test.body)

LeavesInv == (fatal.pc = "no" /\ InTest /\ phase # "end" /\ ~hist.threw) => LeavesSoFar

(* Up to the test case that it is at, run has counted those that the masks *)
(* select and run or listed those that the range selects too.              *)
SelectedSoFar ==
    /\ phase \in {"run", "start"} =>
           hist.verdicts = <<>> /\ query = <<>> /\ stats.numTestCasesPassingFilters = 0
    /\ phase = "next" => stats.numTestCasesPassingFilters = Ordinal(i - 1)
    /\ InTest => /\ stats.numTestCasesPassingFilters = Ordinal(i)
                 /\ Wanted(Test) /\ InRange(Ordinal(i))
    /\ ((InTest \/ phase \in {"next", "last"}) /\ ~QueryMode) =>
           Ran = SelectedUpTo(IF phase = "end" THEN i ELSE i - 1)
    /\ (phase = "next" /\ ListsTests) => query = SelectedUpTo(i - 1)
    /\ phase = "last" => ~QueryMode /\ EnoughFailed(stats.numAssertsFailed)

SelectionInv == AreOptions(p) /\ (fatal.pc = "no" => SelectedSoFar) /\ SelectedAreRun

(* What the properties above rest on, each part on those before it.        *)
CoreInv ==
    TypeOK /\ SkipInv /\ PointsInv /\ CountsInv /\ PromptInv /\ VerdictsInv /\ MutexInv /\ InfosInv
    /\ DepthInv /\ HeaderInv /\ CalmInv /\ XmlInv

IInv == CoreInv /\ ContextsInv /\ SelectionInv /\ LeavesInv
=============================================================================
