---------------------------- MODULE ConsoleReporter ----------------------------
(***************************************************************************)
(* doctest's ConsoleReporter: an operator for each event that changes what *)
(* it keeps, on a record of that.  Of its output the model keeps the       *)
(* header last printed (the test case and the path of subcases that the    *)
(* lines after it are read under), the INFO contexts last quoted, the names*)
(* a query lists and the closing counts.  The lock is taken by DoctestRun. *)
(***************************************************************************)
EXTENDS Naturals, Sequences, SequencesExt

(* tc is <<>> before the first test case, then <<that test case>>.         *)
NewConsole ==
    [tc |-> <<>>, hasLoggedCurrentTestStart |-> FALSE, subcasesStack |-> <<>>,
     header |-> <<<<>>, <<>>>>, quoted |-> <<>>, notes |-> {}, listed |-> <<>>, summary |-> <<>>]

logTestStart(c) ==
    IF c.hasLoggedCurrentTestStart THEN c
    ELSE [c EXCEPT !.header = <<c.tc, c.subcasesStack>>, !.hasLoggedCurrentTestStart = TRUE]

console_test_case_start(c, test) ==
    [c EXCEPT !.hasLoggedCurrentTestStart = FALSE, !.tc = <<test>>, !.notes = {}]

(* The one remark of the if-else chain, the timeout's and the abort's.     *)
Remark(flags) ==
    LET Has(reason) == reason \in flags
    IN CASE Has("ShouldHaveFailedButDidnt") -> {"ShouldHaveFailedButDidnt"}
         [] Has("ShouldHaveFailedAndDid") -> {"ShouldHaveFailedAndDid"}
         [] Has("CouldHaveFailedAndDid") -> {"CouldHaveFailedAndDid"}
         [] Has("DidntFailExactlyNumTimes") -> {"DidntFailExactlyNumTimes"}
         [] Has("FailedExactlyNumTimes") -> {"FailedExactlyNumTimes"}
         [] OTHER -> {}

console_test_case_end(c, duration, flags) ==
    [(IF duration \/ (flags # {} /\ flags # {"AssertFailure"}) THEN logTestStart(c) ELSE c)
     EXCEPT !.notes = Remark(flags) \cup (flags \cap {"Timeout", "TooManyFailedAsserts"})]

(* stringifiedContexts is printed from its end.                            *)
console_test_case_exception(c, stringifiedContexts) ==
    [logTestStart(c) EXCEPT !.quoted = Reverse(stringifiedContexts)]

console_subcase_start(c, signature) ==
    [c EXCEPT !.subcasesStack = Append(@, signature), !.hasLoggedCurrentTestStart = FALSE]

(* mutant: the header is not printed again after a subcase                 *)
console_subcase_end_stale(c) == [c EXCEPT !.subcasesStack = Front(@)]

console_subcase_end(c) ==
    [c EXCEPT !.subcasesStack = Front(@), !.hasLoggedCurrentTestStart = FALSE]

log_contexts(c, contexts) == [c EXCEPT !.quoted = contexts]

(* log_assert (past its early return) and log_message.                     *)
console_log(c, contexts) == log_contexts(logTestStart(c), contexts)

(* report_query of names, and test_run_end.                                *)
console_report_query(c, names) == [c EXCEPT !.listed = names]

console_test_run_end(c, stats) ==
    [c EXCEPT !.summary =
        [passed |-> stats.numTestCasesPassingFilters - stats.numTestCasesFailed,
         failed |-> stats.numTestCasesFailed,
         skipped |-> stats.numTestCases - stats.numTestCasesPassingFilters,
         assertsPassed |-> stats.numAsserts - stats.numAssertsFailed,
         status |-> IF stats.numTestCasesFailed > 0 THEN "FAILURE!" ELSE "SUCCESS!"]]
=============================================================================
