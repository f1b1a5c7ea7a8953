------------------------------- MODULE Progress ------------------------------
(***************************************************************************)
(* The layout of what the runner prints: a letter per test, lines broken   *)
(* at itest_info.width, and result lines in words for failures and with    *)
(* -v.  The runner keeps only col; cursor is where the output really is.   *)
(* The operators are the printing parts of the runner's functions; Console *)
(* says when they run.  Clients print nothing themselves.                  *)
(***************************************************************************)
EXTENDS Integers

CONSTANT Width      \* ITEST_DEFAULT_WIDTH

ASSUME WidthAssumption == Width \in Nat \ {0}

VARIABLES
    verbose,        \* whether verbosity is not zero, as the options left it
    col,            \* itest_info.col
    cursor,         \* characters since the last newline (history)
    words_at        \* where the last result line in words began (history)

progressVars == <<verbose, col, cursor, words_at>>

ProgressTypeOK ==
    /\ verbose \in BOOLEAN
    /\ col \in Nat /\ cursor \in Nat /\ words_at \in Nat

ProgressInit ==
    /\ verbose \in BOOLEAN
    /\ col = 0 /\ cursor = 0 /\ words_at = 0

(* Mutated form: a line is only broken when it is longer than the width.   *)
AdvanceOver(column, at) ==
    IF column + 1 > Width THEN col' = 0 /\ cursor' = 0
                          ELSE col' = column + 1 /\ cursor' = at

(* The end of itest_test_post without -v: one more column, a new line at   *)
(* the width.                                                              *)
Advance(column, at) ==
    IF (column + 1) % Width = 0 THEN col' = 0 /\ cursor' = 0
                                ELSE col' = column + 1 /\ cursor' = at

(* Mutated form: the column is looked at before the letter is counted.     *)
PrintVerdictUncounted(res, at) ==
    IF verbose
    THEN words_at' = at /\ col' = col + 1 /\ cursor' = 0
    ELSE IF res = "failed"
         THEN words_at' = (IF col # 0 THEN 0 ELSE at + 1) /\ Advance(0, 0)
         ELSE Advance(col, at + 1) /\ UNCHANGED words_at

(* itest_do_pass, itest_do_fail and itest_do_skip with the rest of         *)
(* itest_test_post: the output is at column `at' when they begin.  A       *)
(* failure's letter is followed by a newline and by its words.             *)
PrintVerdict(res, at) ==
    IF verbose
    THEN words_at' = at /\ col' = col + 1 /\ cursor' = 0
    ELSE IF res = "failed"
         THEN words_at' = (IF col + 1 # 0 THEN 0 ELSE at + 1) /\ Advance(0, 0)
         ELSE Advance(col, at + 1) /\ UNCHANGED words_at

(* A suite's heading or the totals, after update_counts_and_reset_suite.   *)
PrintHeading == col' = 0 /\ cursor' = 0 /\ UNCHANGED words_at

(* report_suite: nothing for a suite without tests. *)
PrintSuiteReport(tests_run, at) ==
    /\ cursor' = IF tests_run > 0 THEN 0 ELSE at
    /\ UNCHANGED <<col, words_at>>

(* A dry run's name on a line of its own. *)
PrintName == cursor' = 0 /\ UNCHANGED <<col, words_at>>
=============================================================================
