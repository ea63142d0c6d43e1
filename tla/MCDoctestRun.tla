----------------------------- MODULE MCDoctestRun -----------------------------
(* An instance of DoctestRun for TLC: test functions, the programs made of *)
(* them and the options they are run with.                                 *)
EXTENDS DoctestRun

CONSTANTS w1, w2

Open(name, line, end) == [op |-> "open", name |-> name, line |-> line, end |-> end]
Close == [op |-> "close"]
Info(text) == [op |-> "info", text |-> text]
ThrowOther == [op |-> "throw"]

Valued(ok) == [value |-> ok, threw |-> FALSE, threw_as |-> FALSE, same |-> FALSE]
Threw(as, same) == [value |-> FALSE, threw |-> TRUE, threw_as |-> as, same |-> same]
Assertion(at, kind, result) == [op |-> "assert", at |-> at, kind |-> kind, result |-> result]
Check(ok) == Assertion("check", "normal", Valued(ok))
Require(ok) == Assertion("require", "normal", Valued(ok))
Warn(ok) == Assertion("warn", "normal", Valued(ok))
Message(at) == Assertion(at, "message", Valued(FALSE))

(* Two levels of subcases, two of the same name and one in a loop, with a  *)
(* failure in one.                                                         *)
Nested ==
    << Info("i"), Open(<<"a">>, 1, 9), Info("j"), Open(<<"b">>, 2, 6), Check(FALSE), Close,
       Open(<<"b">>, 3, 8), Close, Close,
       Open(<<"c">>, 4, 12), Check(TRUE), Close, Open(<<"c">>, 4, 14), Close >>
(* A subcase that is left by an exception, in the second pass of two that  *)
(* throw.                                                                  *)
Throwing ==
    << Warn(FALSE), Info("i"), Open(<<"a">>, 1, 4), Close,
       Open(<<"b">>, 2, 8), Info("j"), ThrowOther, Close, Check(TRUE), ThrowOther >>
Failing2 == << Check(FALSE), Message("check"), Require(FALSE), Check(FALSE) >>
Passes == << Require(TRUE), Message("warn") >>
(* Every kind of assertion about exceptions; one of them fails.            *)
Expecting ==
    << Assertion("require", "throws", Threw(FALSE, FALSE)), Assertion("check", "throws_as", Threw(FALSE, TRUE)),
       Assertion("check", "throws_with", Threw(FALSE, TRUE)),
       Assertion("require", "throws_with_as", Threw(TRUE, TRUE)), Assertion("check", "nothrow", Threw(TRUE, TRUE)) >>
(* Two threads with a CHECK each, as in the repository's tests, in a       *)
(* subcase, while main makes one; one of them fails, or both.              *)
Threaded(second) ==
    << Info("i"), Open(<<"a">>, 1, 6),
       [op |-> "create", results |-> (w1 :> Valued(FALSE) @@ w2 :> Valued(second))],
       Check(TRUE), [op |-> "join"], Close >>

Letters == <<"*", "?", "a", "b", "c", "f", "g", "x", "z">>

S == TestSuite(<<"a">>, [may_fail |-> TRUE])
NoSuite == TestSuite(<<>>, <<>>)
F1 == <<"f">>
F2 == <<"g">>

Programs5 ==
    { {TestCase(Nested, F1, 1, NoSuite, <<"a", "b">>, <<>>),
       TestCase(Passes, F2, 1, S, <<"b">>, [timeout |-> 1])},
      {TestCase(Failing2, F1, 1, NoSuite, <<"b">>, [expected_failures |-> 3]),
       TestCase(Throwing, F1, 2, S, <<"a", "c">>, <<>>),
       TestCase(Passes, F2, 3, NoSuite, <<"c">>, [should_fail |-> TRUE])},
      {TestCase(Threaded(FALSE), F1, 1, NoSuite, <<"a">>, <<>>)},
      {TestCase(Threaded(TRUE), F1, 1, NoSuite, <<"a">>, <<>>)},
      {TestCase(Passes, F1, 1, NoSuite, <<"c">>, [skip |-> TRUE]),
       TestCase(Throwing, F2, 2, S, <<"a">>, [may_fail |-> FALSE]),
       TestCase(Expecting, F2, 1, S, <<"b">>, [should_fail |-> TRUE])} }

Value(name, value) == [dashes |-> 1, prefixed |-> FALSE, name |-> name, form |-> "value", value |-> value]
DtValue(name, value) == [Value(name, value) EXCEPT !.dashes = 2, !.prefixed = TRUE]
Flag(name) == [dashes |-> 1, prefixed |-> FALSE, name |-> name, form |-> "flag"]
Xml == Value("reporters", <<<<"x">>>>)
Grader == Value("reporters", <<<<"g">>>>)

Argvs14 ==
    { <<>>, <<Xml>>, <<Xml, DtValue("success", "yes"), Flag("ne")>>,
      <<Value("abort-after", 2), DtValue("abort-after", 1), Grader>>,
      <<Value("first", 2), Value("last", 2), Value("order-by", "name")>>,
      <<Value("tce", <<<<"a", "*">>>>), Flag("no-skip"), Value("order-by", "suite")>>,
      <<Value("tc", <<<<"*", "B">>, <<>>, <<"?">>>>), Value("order-by", "rand"), Xml>>,
      <<Value("sce", <<<<"b">>>>), Value("scfl", 1), Value("sfe", <<<<"g">>>>), Xml>>,
      <<Flag("ltc"), Value("f", 2), Value("ts", <<<<"?">>>>), Xml>>,
      <<Flag("list-test-suites"), Value("order-by", "none")>>,
      <<Flag("c"), Value("sf", <<<<"f">>>>), Value("tse", <<<<"a">>>>)>>, <<Flag("h"), Value("r", <<<<"z">>>>)>>,
      <<Value("first", -1), Flag("nss")>>, <<Value("last", -1), Value("scfl", -1), Value("sce", <<<<"b">>>>)>> }

(* The Context of TestRunner.cpp's main, alone and beside a command line;  *)
(* filters given by both; an abort-after that 0 does not take back.        *)
WithGrader(argv) == setOption(Context(argv), "reporters", <<Reporters.grader>>)

Contexts19 ==
    {Context(argv) : argv \in Argvs14} \cup
    { WithGrader(<<>>), WithGrader(<<Flag("success")>>), WithGrader(<<Flag("nt"), Xml>>),
      setOption(Context(<<Value("sc", <<<<"a">>>>), Flag("d")>>), "subcase", <<<<"b">>>>),
      setOption(Context(<<Xml, Value("aa", 1), Flag("s")>>), "abort-after", 0) }
=============================================================================
