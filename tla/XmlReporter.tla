------------------------------ MODULE XmlReporter ------------------------------
(***************************************************************************)
(* doctest's XmlWriter and the XmlReporter that writes with it.  The       *)
(* document is abstracted to the elements that are open (m_tags), whether  *)
(* the innermost start tag still takes attributes (m_tagIsOpen) and what   *)
(* has gone wrong: an end tag for another element than the one the caller  *)
(* opened, an end tag with nothing open, an attribute outside a start tag. *)
(* Attribute values, text, indentation and newlines are left out.          *)
(***************************************************************************)
EXTENDS Naturals, Sequences, SequencesExt

(* tc is <<>> before the first test case, then <<that test case>>.         *)
NewXml == [tags |-> <<>>, tagIsOpen |-> FALSE, wrong |-> {}, tc |-> <<>>]

(* XmlWriter                                                               *)
ensureTagClosed(x) == [x EXCEPT !.tagIsOpen = FALSE]

startElement(x, name) ==
    [x EXCEPT !.tags = Append(@, name), !.tagIsOpen = TRUE]

(* The caller means to end the element name: the writer pops what is last. *)
endElement(x, name) ==
    IF x.tags = <<>> THEN [x EXCEPT !.wrong = @ \cup {"nothing open"}]
    ELSE [x EXCEPT !.tags = Front(@), !.tagIsOpen = FALSE,
                   !.wrong = IF Last(x.tags) = name THEN @ ELSE @ \cup {"other element"}]

writeAttribute(x) ==
    IF x.tagIsOpen THEN x ELSE [x EXCEPT !.wrong = @ \cup {"stray attribute"}]

writeText(x) == ensureTagClosed(x)

(* A scopedElement with attributes or text in it, to its destructor.       *)
scopedElement(x, name) == endElement(writeText(writeAttribute(startElement(x, name))), name)

(* ... of each name in turn.                                               *)
scopedElements(x, names) ==
    LET after[k \in 0..Len(names)] ==
            IF k = 0 THEN x ELSE scopedElement(after[k - 1], names[k])
    IN after[Len(names)]

(* XmlReporter                                                             *)
(* mutant: the previous TestSuite is not ended                             *)
test_case_start_impl_nested(x, test) ==
    LET openTestSuite == x.tc = <<>> \/ x.tc[1].suite # test.suite
        suite == IF openTestSuite THEN writeAttribute(startElement(x, "TestSuite")) ELSE x
    IN [writeAttribute(startElement(suite, "TestCase")) EXCEPT !.tc = <<test>>]

test_case_start_impl(x, test) ==
    LET openTestSuite == x.tc = <<>> \/ x.tc[1].suite # test.suite
        left == IF x.tc # <<>> /\ openTestSuite THEN endElement(x, "TestSuite") ELSE x
        suite == IF openTestSuite THEN writeAttribute(startElement(left, "TestSuite")) ELSE left
    IN [writeAttribute(startElement(suite, "TestCase")) EXCEPT !.tc = <<test>>]

xml_test_run_start(x) ==
    scopedElement(writeAttribute(startElement(x, "doctest")), "Options")

xml_test_case_start(x, test) == ensureTagClosed(test_case_start_impl(x, test))

xml_test_case_skipped(x, test, noSkippedSummary) ==
    IF noSkippedSummary THEN x
    ELSE endElement(writeAttribute(test_case_start_impl(x, test)), "TestCase")

xml_test_case_end(x) ==
    endElement(endElement(writeAttribute(startElement(x, "OverallResultsAsserts")),
                          "OverallResultsAsserts"), "TestCase")

xml_test_case_exception(x) == scopedElement(x, "Exception")

xml_subcase_start(x) == ensureTagClosed(writeAttribute(startElement(x, "SubCase")))

xml_subcase_end(x) == endElement(x, "SubCase")

(* What log_assert writes of an assertion, by the macro's kind.            *)
ExpressionParts(kind, threw) ==
    <<"Original">>
    \o (IF threw THEN <<"Exception">> ELSE <<>>)
    \o (IF kind \in {"throws_as", "throws_with_as"} THEN <<"ExpectedException">> ELSE <<>>)
    \o (IF kind \in {"throws_with", "throws_with_as"} THEN <<"ExpectedExceptionString">> ELSE <<>>)
    \o (IF kind = "normal" /\ ~threw THEN <<"Expanded">> ELSE <<>>)

xml_log_contexts(x, contexts) == scopedElements(x, [k \in DOMAIN contexts |-> "Info"])

(* log_assert and log_message: the part before the element's own end, and  *)
(* that end.                                                               *)
xml_log(x, element, parts, contexts) ==
    xml_log_contexts(scopedElements(writeAttribute(startElement(x, element)), parts), contexts)

xml_log_ends(x, element) == endElement(x, element)

xml_report_query(x) ==
    endElement(scopedElement(xml_test_run_start(x), "OverallResultsTestCases"), "doctest")

xml_test_run_end(x) ==
    LET left == IF x.tc # <<>> THEN endElement(x, "TestSuite") ELSE x
        cases == startElement(scopedElement(left, "OverallResultsAsserts"), "OverallResultsTestCases")
    IN endElement(endElement(writeAttribute(cases), "OverallResultsTestCases"), "doctest")
=============================================================================
