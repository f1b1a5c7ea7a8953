------------------------------ MODULE MCConsole ------------------------------
(* A small instance of the runner with its clock and output for TLC. *)
EXTENDS ConsoleProperties

CONSTANTS t1, t2, s1, s2

MCMatching == {<<t1, NULL>>}
MCFlags == {{}, {"LIST_ONLY"}}
MCClocks == {<<TRUE, TRUE>>, <<FALSE, TRUE>>, <<TRUE, FALSE>>}

(* main runs suites, tests and the blocks of examples/shuffle.c, and may   *)
(* print a report before the last one; one assertion fails.                *)
MCCalls ==
    ({"main"} \X {"RUN_SUITE", "RUN_TEST", "SHUFFLE_TESTS", "SHUFFLE_SUITES", "PRINT_REPORT"})
    \union ({"suite"} \X {"RUN_TEST", "SET_SETUP", "SET_TEARDOWN"})
    \union ({"test"} \X {"ASSERT_FALSE"})

MCBlocks == [SHUFFLE_SUITES |-> {[k \in 1 .. 7 |-> <<"RUN_SUITE", s1>>]},
             SHUFFLE_TESTS  |-> {[k \in 1 .. n |-> <<"RUN_TEST", t1>>] : n \in {1, 4, 9}}]

(* The theorems about intervals are about this client too.                 *)
ASSUME ConsoleIsDocumented == DocumentedUse
=============================================================================
