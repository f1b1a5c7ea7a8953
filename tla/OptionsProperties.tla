-------------------------- MODULE OptionsProperties --------------------------
(***************************************************************************)
(* The correctness of the options: what the usage text promises, stated of *)
(* the command line as a whole and of the names of tests.                  *)
(***************************************************************************)
EXTENDS Options, FiniteSetsExt

CONSTANTS
    TestNames,      \* the names given to RUN_TEST and RUN_SUITE
    TestSuffixes    \* the suffixes given to itest_set_test_suffix

ASSUME TestNamesAssumption    == TestNames \subseteq String
ASSUME TestSuffixesAssumption == TestSuffixes \subseteq String

(***************************************************************************)
(* The command line as a whole.                                            *)
(***************************************************************************)

(* Of a row of words that take an argument every second one is itself an   *)
(* argument, and so is the word after a row of odd length.                 *)
TakesArgument(k) == Dashed(argv[k]) /\ Letter(argv[k]) \in WithArgument
RowBefore(k) == {j \in 1 .. k - 1 : \A m \in j .. k - 1 : TakesArgument(m)}
IsOption(k) == Dashed(argv[k]) /\ Cardinality(RowBefore(k)) % 2 = 0

(* The options at which parsing ends, and those that are obeyed before it. *)
Known == WithArgument \union Switches
Ends(k) == /\ IsOption(k)
           /\ \/ Letter(argv[k]) \notin Known
              \/ TakesArgument(k) /\ k = Len(argv)
EndsAt == {k \in DOMAIN argv : Ends(k)}
Obeyed == {k \in DOMAIN argv : IsOption(k) /\ \A j \in EndsAt : k < j}
With(letter) == {k \in Obeyed : Letter(argv[k]) = letter}

LastArgument(letter, default) ==
    IF With(letter) = {} THEN default ELSE argv[Max(With(letter)) + 1]
Given(letter, flag) == IF With(letter) = {} THEN {} ELSE {flag}

(* What the command line asks for. *)
Asked ==
    [suite_filter     |-> LastArgument("s", before.suite_filter),
     test_filter      |-> LastArgument("t", before.test_filter),
     test_exclude     |-> LastArgument("x", before.test_exclude),
     exact_name_match |-> before.exact_name_match \/ With("e") # {},
     flags            |-> (before.flags \ Given("T", "RECORD_TIMING"))
                          \union Given("f", "FIRST_FAIL") \union Given("a", "ABORT_ON_FAIL")
                          \union Given("l", "LIST_ONLY"),
     verbosity        |-> (before.verbosity + Cardinality(With("v"))) % ByteRange]

Parsed == status = "parsing" /\ status' # "parsing"

(* itest_parse_options leaves the settings the command line asks for: the  *)
(* argument of the last -s, -t and -x counts, an argument is never taken   *)
(* for an option, and nothing after the end of the options is obeyed.      *)
SettingsAsAsked == [][Parsed => info = Asked]_vars

IsHelp(word) == Letter(word) = "h" \/ Cut(word, 6) = Help

(* The first option that ends the parsing decides how: help exits with     *)
(* success, -- lets main go on, the unknown and the incomplete exit with   *)
(* failure; without one, main goes on.                                     *)
ExitAsAsked ==
    [][Parsed =>
        status' = IF EndsAt = {} THEN "started"
                  ELSE LET word == argv[Min(EndsAt)] IN
                       IF IsHelp(word) THEN "success"
                       ELSE IF word = <<"-", "-">> THEN "started" ELSE "failure"]_vars

(***************************************************************************)
(* The selection of tests and suites.                                      *)
(***************************************************************************)

Substring(s, t) == \E from \in 1 .. Len(t) + 1, to \in 0 .. Len(t) : SubSeq(t, from, to) = s
Same(exact, s, t) == IF exact THEN s = t ELSE Substring(s, t)

FullName(name, suffix) == IF suffix = NULL THEN name ELSE name \o <<"_">> \o suffix
CutName(name, suffix) == Cut(FullName(name, suffix), NameBufSize - 1)
Selects(name, suffix) == TestMatches(info, BufferTestName(name, suffix))

(* What the filters say of a test: that -t (with -e: exactly) or no filter *)
(* asks for its name and suffix, as far as they fit into name_buf, and     *)
(* that they contain what -x excludes.  An empty filter is none.           *)
AskedFor(name, suffix) ==
    \/ Blank(info.test_filter)
    \/ Same(info.exact_name_match, info.test_filter, CutName(name, suffix))
Excluded(name, suffix) ==
    ~Blank(info.test_exclude) /\ Substring(info.test_exclude, CutName(name, suffix))

(* A test is selected if it is asked for and not excluded, and only if it  *)
(* is asked for and, without -e, not excluded; suites are selected by -s,  *)
(* with -e exactly.  This says nothing of what -x does together with -e,   *)
(* where itest_name_match (itest.c:269) departs from the usage text.       *)
SelectionAsAsked ==
    /\ \A name \in TestNames, suffix \in TestSuffixes \union {NULL} :
        /\ AskedFor(name, suffix) /\ ~Excluded(name, suffix) => Selects(name, suffix)
        /\ Selects(name, suffix) =>
             AskedFor(name, suffix) /\ (info.exact_name_match \/ ~Excluded(name, suffix))
    /\ \A name \in TestNames :
        SuiteMatches(info, name) <=>
            Blank(info.suite_filter) \/ Same(info.exact_name_match, info.suite_filter, name)

(* When itest_is_filtered says no, no test or suite is left out by name:   *)
(* what a client may rely on to expect that everything has run.            *)
UnfilteredRunsAll ==
    ~IsFiltered(info) =>
        /\ \A name \in TestNames, suffix \in TestSuffixes \union {NULL} : Selects(name, suffix)
        /\ \A name \in TestNames : SuiteMatches(info, name)
=============================================================================
