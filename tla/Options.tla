------------------------------- MODULE Options -------------------------------
(***************************************************************************)
(* The settings of the runner and who writes them: itest_init, the setters *)
(* a client may call, and itest_parse_options, one action per case of its  *)
(* switch.  A word of the command line is the sequence of its characters.  *)
(***************************************************************************)
EXTENDS Names

CONSTANTS
    Arguments,      \* the command lines considered, without the program's name
    Filters,        \* the filters that clients set
    Levels,         \* the arguments of itest_set_verbosity
    ByteRange,      \* 2^CHAR_BIT: verbosity is an unsigned char
    MaxCalls        \* bound on the calls of setters

Settings  == {"FIRST_FAIL", "LIST_ONLY", "ABORT_ON_FAIL", "RECORD_TIMING"}

ASSUME ArgumentsAssumption == Arguments \subseteq Seq(String)
ASSUME FiltersAssumption   == Filters \subseteq String
ASSUME LevelsAssumption    == Levels \subseteq Nat
ASSUME ByteRangeAssumption == ByteRange \in Nat \ {0}
ASSUME MaxCallsAssumption  == MaxCalls \in Nat

VARIABLES
    info,       \* the fields of itest_info that options and setters write
    argv,       \* the command line that is parsed
    i,          \* itest_parse_options: the index of the next word
    before,     \* info when itest_parse_options was called (history)
    calls,      \* calls of setters
    status      \* main before, in and after itest_parse_options; or the exit

vars == <<info, argv, i, before, calls, status>>

Info == [suite_filter: String \union {NULL}, test_filter: String \union {NULL},
         test_exclude: String \union {NULL}, exact_name_match: BOOLEAN,
         flags: SUBSET Settings, verbosity: 0 .. ByteRange - 1]
Exits == {"success", "failure"}

OptionsTypeOK ==
    /\ info \in Info /\ before \in Info
    /\ argv \in Arguments \union {<<>>}
    /\ i \in 1 .. Len(argv) + 1
    /\ calls \in 0 .. MaxCalls
    /\ status \in {"starting", "parsing", "started"} \union Exits

(* itest_init: the memset, then RECORD_TIMING. *)
InitialInfo == [suite_filter |-> NULL, test_filter |-> NULL, test_exclude |-> NULL,
                exact_name_match |-> FALSE, flags |-> {"RECORD_TIMING"}, verbosity |-> 0]

Init ==
    /\ info = InitialInfo /\ before = InitialInfo
    /\ argv = <<>> /\ i = 1
    /\ calls = 0
    /\ status = "starting"

(***************************************************************************)
(* The setters.                                                            *)
(***************************************************************************)

SetSuiteFilter(g, filter)  == [g EXCEPT !.suite_filter = filter]
SetTestFilter(g, filter)   == [g EXCEPT !.test_filter = filter]
SetTestExclude(g, filter)  == [g EXCEPT !.test_exclude = filter]
SetExactNameMatch(g)       == [g EXCEPT !.exact_name_match = TRUE]
SetFlag(g, flag)           == [g EXCEPT !.flags = @ \union {flag}]
ClearFlag(g, flag)         == [g EXCEPT !.flags = @ \ {flag}]

(* Mutated form: verbosity is wider than its byte. *)
SetVerbosityWide(g, verbosity) == [g EXCEPT !.verbosity = verbosity]

SetVerbosity(g, verbosity) == [g EXCEPT !.verbosity = verbosity % ByteRange]

(* itest_is_filtered. *)
IsFiltered(g) == g.test_filter # NULL \/ g.test_exclude # NULL \/ g.suite_filter # NULL

(* main calls a setter before or after it has the options parsed.          *)
CallSetter(g) ==
    /\ status \in {"starting", "started"}
    /\ calls < MaxCalls
    /\ calls' = calls + 1
    /\ info' = g
    /\ UNCHANGED <<argv, i, before, status>>

ClientSetsFilter ==
    \E filter \in Filters \union {NULL} :
        \/ CallSetter(SetSuiteFilter(info, filter))
        \/ CallSetter(SetTestFilter(info, filter))
        \/ CallSetter(SetTestExclude(info, filter))

ClientSetsFlag ==
    \/ CallSetter(SetExactNameMatch(info))
    \/ \E flag \in Settings : CallSetter(SetFlag(info, flag)) \/ CallSetter(ClearFlag(info, flag))

ClientSetsVerbosity == \E level \in Levels : CallSetter(SetVerbosity(info, level))

(***************************************************************************)
(* itest_parse_options.                                                    *)
(***************************************************************************)

ParseOptions ==
    /\ status = "starting"
    /\ argv' \in Arguments
    /\ i' = 1
    /\ before' = info
    /\ status' = "parsing"
    /\ UNCHANGED <<info, calls>>

Help == <<"-", "-", "h", "e", "l", "p">>
WithArgument == {"s", "t", "x"}
Switches == {"e", "f", "a", "l", "v", "T"}

Dashed(word) == word # <<>> /\ word[1] = "-"
(* The character an option is known by; the terminator's when it is `-'.   *)
Letter(word) == IF Len(word) > 1 THEN word[2] ELSE "NUL"

AtOption == status = "parsing" /\ i <= Len(argv) /\ Dashed(argv[i])
Exit(with) == /\ status' = with
              /\ UNCHANGED <<info, argv, i, before, calls>>

(* Mutated form: off by one, the last word is never an argument.          *)
MissingArgumentOneShort ==
    /\ AtOption /\ Letter(argv[i]) \in WithArgument
    /\ i + 1 >= Len(argv)
    /\ Exit("failure")

(* -s, -t or -x as the last word. *)
MissingArgument ==
    /\ AtOption /\ Letter(argv[i]) \in WithArgument
    /\ i = Len(argv)
    /\ Exit("failure")

(* Mutated form: the argument is not skipped. *)
FilterOptionReadsTwice ==
    /\ AtOption /\ i < Len(argv)
    /\ CASE Letter(argv[i]) = "s" -> info' = SetSuiteFilter(info, argv[i + 1])
         [] Letter(argv[i]) = "t" -> info' = SetTestFilter(info, argv[i + 1])
         [] Letter(argv[i]) = "x" -> info' = SetTestExclude(info, argv[i + 1])
         [] OTHER -> FALSE
    /\ i' = i + 1
    /\ UNCHANGED <<argv, before, calls, status>>

(* -s SUITE, -t TEST, -x EXCLUDE: the next word is taken, whatever it is.  *)
FilterOption ==
    /\ AtOption /\ i < Len(argv)
    /\ CASE Letter(argv[i]) = "s" -> info' = SetSuiteFilter(info, argv[i + 1])
         [] Letter(argv[i]) = "t" -> info' = SetTestFilter(info, argv[i + 1])
         [] Letter(argv[i]) = "x" -> info' = SetTestExclude(info, argv[i + 1])
         [] OTHER -> FALSE
    /\ i' = i + 2
    /\ UNCHANGED <<argv, before, calls, status>>

(* -e, -f, -a, -l, -v, -T. *)
SwitchOption ==
    /\ AtOption
    /\ CASE Letter(argv[i]) = "e" -> info' = SetExactNameMatch(info)
         [] Letter(argv[i]) = "f" -> info' = SetFlag(info, "FIRST_FAIL")
         [] Letter(argv[i]) = "a" -> info' = SetFlag(info, "ABORT_ON_FAIL")
         [] Letter(argv[i]) = "l" -> info' = SetFlag(info, "LIST_ONLY")
         [] Letter(argv[i]) = "v" -> info' = SetVerbosity(info, info.verbosity + 1)
         [] Letter(argv[i]) = "T" -> info' = ClearFlag(info, "RECORD_TIMING")
         [] OTHER -> FALSE
    /\ i' = i + 1
    /\ UNCHANGED <<argv, before, calls, status>>

HelpOption == AtOption /\ Letter(argv[i]) = "h" /\ Exit("success")

(* Everything else: --help and what begins with it, -- and the unknown.    *)
OtherOption ==
    /\ AtOption /\ Letter(argv[i]) \notin WithArgument \union Switches \union {"h"}
    /\ Exit(CASE Cut(argv[i], 6) = Help -> "success"
              [] argv[i] = <<"-", "-">> -> "started"
              [] OTHER                  -> "failure")

(* A word that is no option is passed over. *)
Operand ==
    /\ status = "parsing" /\ i <= Len(argv) /\ ~Dashed(argv[i])
    /\ i' = i + 1
    /\ UNCHANGED <<info, argv, before, calls, status>>

EndOfArguments ==
    /\ status = "parsing" /\ i > Len(argv)
    /\ Exit("started")

(* The process has exited, or main goes on to run its suites.              *)
Settled == status \in Exits \union {"started"} /\ UNCHANGED vars

Next ==
    \/ ClientSetsFilter \/ ClientSetsFlag \/ ClientSetsVerbosity
    \/ ParseOptions
    \/ MissingArgument \/ FilterOption \/ SwitchOption \/ HelpOption \/ OtherOption
    \/ Operand \/ EndOfArguments
    \/ Settled

Spec == Init /\ [][Next]_vars
=============================================================================
