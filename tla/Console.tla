-------------------------------- MODULE Console ------------------------------
(***************************************************************************)
(* The runner of Itest with its clock and its output: each step of the     *)
(* runner with what it reads from the clock and prints, and steps in which *)
(* client code uses CPU time.                                              *)
(***************************************************************************)
EXTENDS ItestProperties, Timers, Progress

VARIABLES
    entered,        \* when each frame of the stack was pushed (history)
    lasted,         \* how long the test took whose end was read last (history)
    took,           \* how long what the last interval is about took (history)
    suites_took     \* how long the suites reported so far took (history)

historyVars == <<entered, lasted, took, suites_took>>
consoleVars == <<vars, timerVars, progressVars, historyVars>>

ConsoleTypeOK ==
    /\ TypeOK /\ TimersTypeOK /\ ProgressTypeOK
    /\ entered \in Seq(0 .. now) /\ Len(entered) = Len(stack)
    /\ lasted \in 0 .. now /\ took \in 0 .. now /\ suites_took \in Nat

ConsoleInit ==
    /\ Init /\ TimersInit /\ ProgressInit
    /\ entered = <<0>> /\ lasted = 0 /\ took = 0 /\ suites_took = 0

(* How long the frame at this depth has been there. *)
Since(depth) == now - entered[depth]

TrackFrames ==
    entered' = IF Len(stack') > Len(stack) THEN Append(entered, now)
                                           ELSE SubSeq(entered, 1, Len(stack'))
Prompt == UNCHANGED <<now, recording, clock_works, verbose>>
Unread == UNCHANGED <<times, interval, lasted, took, suites_took>>
Unprinted == UNCHANGED <<col, cursor, words_at>>

(* Calls and returns that neither read the clock nor print. *)
Quiet ==
    /\ \/ SetSetup \/ SetTeardown \/ \E suffix \in Suffixes : SetSuffix(suffix)
       \/ \E test \in Tests : NestedTest(test)
       \/ SetupReturn
       \/ \E name \in Suites : RejectSuite(name)
       \/ \E kind \in LoopKinds : ShuffleInit(kind)
       \/ ShuffleRunning \/ ShuffleNext \/ InitSecondPass \/ DoubleModulus
       \/ Assert(TRUE)
    /\ Prompt /\ TrackFrames /\ Unread /\ Unprinted

(* A dry run lists the names that match. *)
List(test) ==
    LET name == <<test, name_suffix>> IN
    /\ RejectTest(test)
    /\ IF "LIST_ONLY" \in flags /\ name \in Matching THEN PrintName ELSE Unprinted
    /\ Prompt /\ TrackFrames /\ Unread

(* A reading of (clock_t)-1 is taken for a failure and reported up to the  *)
(* end of a line, each time, though a clock that works may wrap onto it.   *)
Warned(at) == IF recording /\ Clock = NoTime THEN 0 ELSE at

(* The clock is read before the setup hook. *)
TimedStart(test) ==
    /\ StartTest(test)
    /\ Read("pre_test") /\ cursor' = Warned(cursor)
    /\ Prompt /\ TrackFrames /\ UNCHANGED <<col, words_at, interval, lasted, took, suites_took>>

(* What follows the teardown hook, when the step comes to it: the verdict, *)
(* and with -v the time the test took; the output is at column `at'.       *)
Verdict(at) ==
    IF line' = line
    THEN /\ col' = col /\ cursor' = at /\ UNCHANGED <<words_at, interval, took>>
    ELSE /\ PrintVerdict(line'.verdict, at)
         /\ IF verbose
            THEN /\ ReportInterval("test", times'["pre_test"], times'["post_test"])
                 /\ took' = IF recording THEN lasted' ELSE took
            ELSE UNCHANGED <<interval, took>>

(* itest_test_post: the clock is read before the teardown hook.            *)
TimedReturn ==
    /\ TestReturn
    /\ Read("post_test") /\ lasted' = Since(Len(stack))
    /\ Verdict(Warned(cursor))
    /\ Prompt /\ TrackFrames /\ UNCHANGED suites_took

TimedTeardownReturn ==
    /\ TeardownReturn
    /\ UNCHANGED <<times, lasted>>
    /\ Verdict(cursor)
    /\ Prompt /\ TrackFrames /\ UNCHANGED suites_took

(* A failing assertion may print what it expected and got, from the start  *)
(* of a line to the end of one; FAIL and SKIP do not.                      *)
TimedJump ==
    /\ \E at \in {0, cursor} :
        /\ \/ at = cursor /\ (Fail \/ Skip)
           \/ Assert(FALSE)
        /\ IF status' = "running"
           THEN /\ Read("post_test") /\ lasted' = Since(jump_dest)
                /\ Verdict(Warned(at))
           ELSE Unread /\ col' = col /\ cursor' = at /\ UNCHANGED words_at
    /\ Prompt /\ TrackFrames /\ UNCHANGED suites_took

TimedSuite(name) ==
    /\ StartSuite(name)
    /\ ReadSuiteStart
    /\ PrintHeading
    /\ Prompt /\ TrackFrames /\ UNCHANGED <<interval, lasted, took, suites_took>>

TimedSuiteReturn ==
    /\ SuiteReturn
    /\ ReportSuite(suite.tests_run)
    /\ PrintSuiteReport(suite.tests_run, Warned(cursor))
    /\ IF suite.tests_run > 0
       THEN /\ suites_took' = suites_took + Since(Len(stack))
            /\ took' = IF recording THEN Since(Len(stack)) ELSE took
       ELSE UNCHANGED <<took, suites_took>>
    /\ Prompt /\ TrackFrames /\ UNCHANGED lasted

TimedReport ==
    /\ PrintReport \/ MainReturn
    /\ IF "LIST_ONLY" \in flags
       THEN Unread /\ Unprinted
       ELSE ReportTotal /\ PrintHeading /\ UNCHANGED <<lasted, took, suites_took>>
    /\ Prompt /\ TrackFrames

(* Client code uses CPU time; the time of the runner itself is left out.   *)
ClientWorks ==
    /\ status = "running" /\ ~InLoop
    /\ PassTime
    /\ UNCHANGED <<vars, progressVars, historyVars>>

Over == Terminated /\ UNCHANGED consoleVars

ConsoleNext ==
    \/ Quiet
    \/ \E test \in Tests : List(test) \/ TimedStart(test)
    \/ TimedReturn \/ TimedTeardownReturn \/ TimedJump
    \/ \E name \in Suites : TimedSuite(name)
    \/ TimedSuiteReturn \/ TimedReport
    \/ ClientWorks
    \/ Over

ConsoleSpec == ConsoleInit /\ [][ConsoleNext]_consoleVars
=============================================================================
