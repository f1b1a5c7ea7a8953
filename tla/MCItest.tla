------------------------------- MODULE MCItest -------------------------------
(* Small instances of the runner for TLC. *)
EXTENDS ItestProperties

CONSTANTS t1, t2, t3, s1, s2, s3, x

(* The names as strings, and what passes `-t a -x c' in a small buffer: t3 *)
(* is excluded, with its suffix too.                                       *)
Text == [n \in {t1, t2, t3, x} |-> CASE n = t1 -> <<"a">> [] n = t2 -> <<"b", "a">>
                                     [] n = t3 -> <<"a", "c">> [] n = x -> <<"b">>]
N == INSTANCE Names WITH Char <- {"a", "b", "c", "_"}, NameBufSize <- 5
Filters == [test_filter |-> <<"a">>, test_exclude |-> <<"c">>, exact_name_match |-> FALSE]
MCMatching ==
    {name \in {t1, t2, t3} \X {x, NULL} :
        N!TestMatches(Filters, N!BufferTestName(Text[name[1]],
                                 IF name[2] = NULL THEN NULL ELSE Text[name[2]]))}
MCFlags == {{}, {"FIRST_FAIL"}, {"LIST_ONLY"}, {"ABORT_ON_FAIL"}}

NoBlocks == [k \in LoopKinds |-> {}]

(* What the documentation tells clients to do: suites install hooks and    *)
(* run tests, tests and hooks assert, a test fails or skips itself, hooks  *)
(* do neither, and nothing is run from inside a test or a hook.            *)
Documented ==
    ({"main"} \X {"RUN_SUITE", "RUN_TEST", "SET_SUFFIX"})
    \union ({"suite"} \X {"SET_SETUP", "SET_TEARDOWN", "RUN_TEST"})
    \union ({"test"} \X {"ASSERT", "ASSERT_FALSE", "SKIP"})
    \union ({"setup", "teardown"} \X {"ASSERT"})

(* The same with shuffled blocks; the calls inside are those of the block. *)
Shuffled ==
    ({"main"} \X {"SHUFFLE_SUITES", "SHUFFLE_TESTS"})
    \union ({"suite"} \X {"SHUFFLE_TESTS"})
    \union ({"test"} \X {"ASSERT_FALSE"})
Run(f, args) == [i \in DOMAIN args |-> <<f, args[i]>>]
ShuffledBlocks ==
    [SHUFFLE_SUITES |-> {Run("RUN_SUITE", <<s1, s2>>), Run("RUN_SUITE", <<s3, s1, s2>>)},
     SHUFFLE_TESTS  |-> {<<>>, Run("RUN_TEST", <<t1>>), Run("RUN_TEST", <<t1, t3, t2, t1>>),
                         Run("RUN_TEST", <<t1, t2, t3, t2, t1>>),
                         <<<<"SET_SUFFIX", x>>, <<"RUN_TEST", t1>>, <<"RUN_TEST", t2>>>>}]

(* A test that calls RUN_TEST. *)
Nested == Documented \union {<<"test", "RUN_TEST">>}

(* The theorems about documented use are about these clients too.          *)
ASSUME DocumentedIsDocumented == Calls \in {Documented, Shuffled} => DocumentedUse
ASSUME ShuffledIsShuffled     == Calls = Shuffled => ShuffledUse

(* Anything from anywhere. *)
AnyCall == Callbacks \X Functions
AnyBlocks == [SHUFFLE_SUITES |-> {<<>>, <<<<"RUN_SUITE", s1>>>>},
              SHUFFLE_TESTS  |-> {<<<<"RUN_TEST", t1>>, <<"RUN_TEST", t2>>>>}]
=============================================================================
