-------------------------- MODULE ConsoleProperties --------------------------
(***************************************************************************)
(* What the runner prints is right: its intervals, its lines, and the      *)
(* order of a shuffled block, which the repository has on record.          *)
(***************************************************************************)
EXTENDS Console

(* The time printed for a test is what it and its setup hook took, and for *)
(* a suite what all of it took, wherever the clock wrapped, and whichever  *)
(* hooks, jumps, tests, reports and blocks came before or in between, of a *)
(* client that runs no suite and prints no report inside a suite.          *)
IntervalsExact ==
    clock_works /\ interval.of \in {"test", "suite"} => interval.ticks = took % ClockRange

(* The time printed for the whole run, before the clock wraps, is at least *)
(* that of the suites reported.                                            *)
TotalCoversSuites ==
    clock_works /\ interval.of = "total" /\ now + 1 < ClockRange => interval.ticks >= suites_took

(* No line of letters is longer than the width: col never lags behind the  *)
(* output, which failures, headings and reports break elsewhere.           *)
LinesFit == cursor < Width

(* A result line in words begins at the beginning of a line, where the     *)
(* filters of contrib/ look for it: after any number of letters, a suite   *)
(* without tests, an assertion's explanations or a report.                 *)
WordsStartLines == words_at = 0

(* What examples/shuffle.exp shows of examples/shuffle.c: the order, in    *)
(* positions of calls, of its blocks of 1 to 10 tests and 7 suites, all    *)
(* with the seed 0x31415926.                                               *)
RecordedSeed == 826366246
Recorded ==
    << <<1>>, <<2, 1>>, <<2, 1, 3>>, <<2, 1, 4, 3>>, <<5, 4, 3, 2, 1>>, <<6, 5, 4, 3, 2, 1>>,
       <<6, 5, 4, 3, 2, 1, 7>>, <<6, 5, 4, 3, 2, 1, 8, 7>>, <<6, 3, 2, 9, 8, 5, 4, 1, 7>>,
       <<6, 3, 2, 9, 8, 5, 4, 10, 1, 7>> >>

(* Blocks in which everything is selected run in the recorded order.       *)
RecordedOrder ==
    [][InLoop /\ Len(stack') < Len(stack) /\ flags = {} /\ Top.body # <<>>
         => Top.ran = Recorded[Len(Top.body)]]_consoleVars
=============================================================================
