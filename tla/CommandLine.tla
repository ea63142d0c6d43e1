------------------------------ MODULE CommandLine ------------------------------
(***************************************************************************)
(* How doctest's Context reads its options: parseArgs and the parsers under*)
(* it, setOption and addFilter.  An argument "--dt-abort-after=2" is the   *)
(* record of its dashes, whether the name has the "dt-" prefix, the name,  *)
(* the form of what follows the name ("flag": nothing, "empty": an '=',    *)
(* "value": '=' and text) and the value: an integer for integer options    *)
(* (0 for text that is no number, as atoi reads it), a string for Boolean  *)
(* options and order-by, a sequence of masks for the nine filters.         *)
(* Options that only change the wording or colour of the output are left   *)
(* out.                                                                    *)
(***************************************************************************)
EXTENDS Integers, Sequences

CONSTANT INT_MAX

ASSUME WidthAssumption == INT_MAX \in Nat \ {0}

(* The widths of int, unsigned and size_t, and the conversions of an int.  *)
UINT_MAX == 2 * INT_MAX + 1
SIZE_MAX == (UINT_MAX + 1) * (UINT_MAX + 1) - 1
Unsigned(n) == n % (UINT_MAX + 1)
SizeT(n) == n % (SIZE_MAX + 1)

(* parseOptionImpl, parseOption: the arguments that are name in this form, *)
(* and the one used: the last without the prefix, or else the last with.   *)
Matching(argv, name, form, prefixed) ==
    {i \in DOMAIN argv : /\ argv[i].dashes > 0 /\ argv[i].prefixed = prefixed
                         /\ argv[i].name = name /\ argv[i].form = form}

Chosen(argv, name, form) ==
    LET plain == Matching(argv, name, form, FALSE)
        dt == Matching(argv, name, form, TRUE)
        candidates == IF plain # {} THEN plain ELSE dt
    IN {i \in candidates : \A j \in candidates : j <= i}

parseFlag(argv, name) == Chosen(argv, name, "flag") # {}

(* The values an option has on the command line: one or none.              *)
Values(argv, name) == {argv[i].value : i \in Chosen(argv, name, "value")}

positive == {"1", "true", "on", "yes"}
negative == {"0", "false", "off", "no"}

(* parseIntOption of the two types; the long name before the short one.    *)
BoolValues(argv, name) == Values(argv, name) \cap (positive \cup negative)
IntValues(argv, name) == Values(argv, name) \ {0}

First(a, b) == IF a # {} THEN a ELSE b
Only(set) == CHOOSE x \in set : TRUE

(* DOCTEST_PARSE_AS_BOOL_OR_FLAG, _INT_OPTION and _STR_OPTION: the new     *)
(* value of a variable whose value, or default, is old.                    *)
ParseBool(argv, long, short, old) ==
    LET values == First(BoolValues(argv, long), BoolValues(argv, short))
    IN IF values # {} THEN Only(values) \in positive
       ELSE parseFlag(argv, long) \/ parseFlag(argv, short) \/ old

Given(argv, long, short) == First(IntValues(argv, long), IntValues(argv, short))

ParseInt(argv, long, short, old) ==
    IF Given(argv, long, short) # {} THEN Only(Given(argv, long, short)) ELSE old

(* ... of an unsigned variable, to which the int is assigned.              *)
ParseUnsigned(argv, long, short, old) ==
    IF Given(argv, long, short) # {} THEN Unsigned(Only(Given(argv, long, short))) ELSE old

ParseStr(argv, long, short, old) ==
    LET values == First(Values(argv, long), Values(argv, short))
    IN IF values # {} THEN Only(values) ELSE old

(* parseCommaSepArgs, for the long and the short name: masks are appended, *)
(* strtok never yields an empty one.                                       *)
Masks(argv, name) ==
    LET values == Values(argv, name)
    IN IF values = {} THEN <<>> ELSE SelectSeq(Only(values), LAMBDA m : m # <<>>)

ParseFilter(argv, long, short, old) == old \o Masks(argv, long) \o Masks(argv, short)

(* The query flags, each of which also sets exit.                          *)
Queries == [help |-> {"help", "h", "?"}, version |-> {"version", "v"}, count |-> {"count", "c"},
            list_test_cases |-> {"list-test-cases", "ltc"},
            list_test_suites |-> {"list-test-suites", "lts"},
            list_reporters |-> {"list-reporters", "lr"}]
Asked(argv) == {q \in DOMAIN Queries : \E name \in Queries[q] : parseFlag(argv, name)}

FilterNames == <<<<"source-file", "sf">>, <<"source-file-exclude", "sfe">>,
                 <<"test-suite", "ts">>, <<"test-suite-exclude", "tse">>,
                 <<"test-case", "tc">>, <<"test-case-exclude", "tce">>,
                 <<"subcase", "sc">>, <<"subcase-exclude", "sce">>, <<"reporters", "r">>>>

Defaults ==
    [filters |-> [i \in 1..9 |-> <<>>], order_by |-> "file", first |-> 0, last |-> UINT_MAX,
     abort_after |-> 0, subcase_filter_levels |-> INT_MAX, success |-> FALSE,
     case_sensitive |-> FALSE, exit |-> FALSE, duration |-> FALSE, no_throw |-> FALSE,
     no_exitcode |-> FALSE, no_run |-> FALSE, no_skip |-> FALSE, no_skipped_summary |-> FALSE, queries |-> {}]

(* parseArgs(argc, argv, withDefaults): p is Defaults for withDefaults.    *)
parseArgs(p, argv) ==
    [filters |-> [i \in 1..9 |-> ParseFilter(argv, FilterNames[i][1], FilterNames[i][2], p.filters[i])],
     order_by |-> ParseStr(argv, "order-by", "ob", p.order_by),
     first |-> ParseUnsigned(argv, "first", "f", p.first),
     last |-> ParseUnsigned(argv, "last", "l", p.last),
     abort_after |-> ParseInt(argv, "abort-after", "aa", p.abort_after),
     subcase_filter_levels |->
         ParseInt(argv, "subcase-filter-levels", "scfl", p.subcase_filter_levels),
     success |-> ParseBool(argv, "success", "s", p.success),
     case_sensitive |-> ParseBool(argv, "case-sensitive", "cs", p.case_sensitive),
     exit |-> ParseBool(argv, "exit", "e", p.exit) \/ Asked(argv) # {},
     duration |-> ParseBool(argv, "duration", "d", p.duration),
     no_throw |-> ParseBool(argv, "no-throw", "nt", p.no_throw),
     no_exitcode |-> ParseBool(argv, "no-exitcode", "ne", p.no_exitcode),
     no_run |-> ParseBool(argv, "no-run", "nr", p.no_run),
     no_skip |-> ParseBool(argv, "no-skip", "ns", p.no_skip),
     no_skipped_summary |-> ParseBool(argv, "no-skipped-summary", "nss", p.no_skipped_summary),
     queries |-> p.queries \cup Asked(argv)]

(* Context::Context, and setOption and addFilter, which parse one argument.*)
Context(argv) == parseArgs(Defaults, argv)

setOption(p, option, value) ==
    parseArgs(p, <<[dashes |-> 1, prefixed |-> FALSE, name |-> option,
                    form |-> "value", value |-> value]>>)
=============================================================================
