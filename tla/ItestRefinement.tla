--------------------------- MODULE ItestRefinement ---------------------------
(***************************************************************************)
(* Proofs, for every client and every value of the constants, that jumps   *)
(* never go astray from a running test and that the runner implements      *)
(* Tally.                                                                  *)
(***************************************************************************)
EXTENDS ItestProofs

(* While a test is being run, longjmp has a live target. *)
LEMMA RunningIsLive ==
    ASSUME IInv, running_test
    PROVE  JumpLive
<1>1. PICK d \in RunningFrames : d = jump_dest
  BY DEF IInv, FramesOK, OneTest
<1> QED  BY <1>1 DEF RunningFrames, TestKinds, JumpLive

(* The actions other than jumps do not lead to the undefined status.       *)
LEMMA OnlyJumpsStray ==
    ASSUME IInv, [Next]_vars, status' = "undefined", status # "undefined"
    PROVE  ~JumpLive
<1>1. CASE Fail \/ Skip \/ \E holds \in BOOLEAN : Assert(holds)
  BY <1>1 DEF Fail, Skip, Assert, Raise, Jump
<1>2. ASSUME NEW test \in Tests, RejectTest(test) \/ NestedTest(test) \/ StartTest(test)
      PROVE  FALSE
  BY <1>2 DEF RejectTest, NestedTest, StartTest
<1>3. ASSUME NEW name \in Suites, RejectSuite(name) \/ StartSuite(name) PROVE FALSE
  BY <1>3 DEF RejectSuite, StartSuite
<1>4. CASE SetSetup \/ SetTeardown \/ \E suffix \in Suffixes : SetSuffix(suffix)
  BY <1>4 DEF SetSetup, SetTeardown, SetSuffix
<1>5. CASE SetupReturn \/ TestReturn \/ TeardownReturn \/ SuiteReturn
  BY <1>5 DEF SetupReturn, TestReturn, TeardownReturn, SuiteReturn
<1>6. CASE (\E kind \in LoopKinds : ShuffleInit(kind)) \/ ShuffleRunning \/ ShuffleNext
  BY <1>6 DEF ShuffleInit, ShuffleRunning, ShuffleNext
<1>7. CASE InitSecondPass \/ DoubleModulus \/ PrintReport \/ MainReturn
  BY <1>7 DEF InitSecondPass, DoubleModulus, PrintReport, MainReturn
<1>8. CASE Terminated \/ UNCHANGED vars
  BY <1>8 DEF Terminated, vars
<1> QED  BY <1>1, <1>2, <1>3, <1>4, <1>5, <1>6, <1>7, <1>8 DEF Next

(* An assertion failing during a test, in whatever depth of suites, loops  *)
(* and hooks, never jumps to an activation that has returned.              *)
THEOREM NoStaleJumpCorrect == Spec => NoStaleJump
<1>1. IInv /\ [Next]_vars =>
        [status' = "undefined" => status = "undefined" \/ ~running_test]_vars
  BY RunningIsLive, OnlyJumpsStray
<1> QED  BY <1>1, RunnerInvariant, PTL DEF Spec, NoStaleJump

(***************************************************************************)
(* The steps of the tally.                                                 *)
(***************************************************************************)

Tallies == [v \in Verdicts |-> TallyOf(v)]

(* The three tallies. *)
LEMMA TallyValues ==
    /\ TallyOf("passed") = total.passed + suite.passed
    /\ TallyOf("failed") = total.failed + suite.failed
    /\ TallyOf("skipped") = total.skipped + suite.skipped
  BY DEF TallyOf
LEMMA TallyValuesNext ==
    /\ TallyOf("passed")' = total'.passed + suite'.passed
    /\ TallyOf("failed")' = total'.failed + suite'.failed
    /\ TallyOf("skipped")' = total'.skipped + suite'.skipped
  BY DEF TallyOf

(* A step that neither starts, ends nor counts a test.                     *)
LEMMA NoTally ==
    ASSUME UNCHANGED <<flags, running_test, suite, total, status>>
    PROVE  UNCHANGED T!vars
  BY DEF T!vars, TallyOf

(* The counts of a suite move to the totals. *)
LEMMA UpdateTally ==
    ASSUME IInv, UpdateCountsAndResetSuite
    PROVE  Tallies' = Tallies /\ total'.failed = TallyOf("failed")
<1>1. suite \in Counters /\ total \in Counters
  BY DEF IInv, TypeOK
<1>2. /\ total'.passed + suite'.passed = total.passed + suite.passed
      /\ total'.failed + suite'.failed = total.failed + suite.failed
      /\ total'.skipped + suite'.skipped = total.skipped + suite.skipped
      /\ total'.failed = total.failed + suite.failed
  BY <1>1 DEF UpdateCountsAndResetSuite, ZeroCounters, Plus, Counters
<1>3. \A v \in Verdicts : TallyOf(v)' = TallyOf(v)
  BY <1>2, TallyValues, TallyValuesNext DEF Verdicts
<1> QED  BY <1>2, <1>3, TallyValues DEF Tallies

(* The end of a test counts it. *)
LEMMA CloseTally ==
    ASSUME IInv, NEW res \in Verdicts, suite' = Plus(suite, One(res)), total' = total
    PROVE  Tallies' = [Tallies EXCEPT ![res] = @ + 1]
<1>1. suite \in Counters /\ total \in Counters
  BY DEF IInv, TypeOK
<1>2. \A v \in Verdicts : TallyOf(v)' = IF v = res THEN TallyOf(v) + 1 ELSE TallyOf(v)
  BY <1>1, TallyValues, TallyValuesNext DEF Verdicts, Plus, One, Counters
<1> QED  BY <1>2 DEF Tallies

(***************************************************************************)
(* Each step of the runner is a step of the tally, or none.                *)
(***************************************************************************)

TallyStep == T!Next \/ UNCHANGED T!vars

(* The setjmp opens a test. *)
LEMMA EnterSimulates ==
    ASSUME status = "running", ~running_test, NEW frames, NEW p, EnterTest(frames, p),
           UNCHANGED <<flags, suite, total, status>>
    PROVE  TallyStep
<1>1. Tallies' = Tallies
  BY DEF Tallies, TallyOf
<1>2. running_test' = TRUE
  BY DEF EnterTest
<1>3. T!Open
  BY <1>1, <1>2 DEF T!Open, Tallies
<1> QED  BY <1>3 DEF TallyStep, T!Next

(* itest_test_post closes it, at once or once the teardown hook returns.   *)
LEMMA FinishSimulates ==
    ASSUME IInv, status = "running", running_test, NEW frames, NEW res \in Verdicts,
           FinishTest(frames, res), "ABORT_ON_FAIL" \in flags => res # "failed",
           UNCHANGED <<flags, total, status>>
    PROVE  TallyStep
<1>1. running_test' = FALSE /\ suite' = Plus(suite, One(res))
  BY DEF FinishTest
<1>2. Tallies' = [Tallies EXCEPT ![res] = @ + 1]
  BY <1>1, CloseTally
<1>3. T!Close(res)
  BY <1>1, <1>2 DEF T!Close, Tallies
<1>4. res \in T!Verdicts
  BY DEF Verdicts, T!Verdicts
<1> QED  BY <1>3, <1>4 DEF TallyStep, T!Next
LEMMA PostSimulates ==
    ASSUME IInv, status = "running", running_test, NEW frames, NEW res \in Verdicts,
           TestPost(frames, res), "ABORT_ON_FAIL" \in flags => res # "failed",
           UNCHANGED <<flags, total, status>>
    PROVE  TallyStep
<1>1. CASE teardown # NULL
  BY <1>1, NoTally DEF TestPost, TallyStep
<1>2. CASE teardown = NULL
  BY <1>2, FinishSimulates DEF TestPost
<1> QED  BY <1>1, <1>2

(* longjmp closes the test being run, or goes astray when there is none.   *)
LEMMA JumpSimulates ==
    ASSUME IInv, status = "running", NEW res \in Verdicts, Jump(res), Unwound,
           "ABORT_ON_FAIL" \in flags => res # "failed"
    PROVE  TallyStep
<1>1. UNCHANGED <<flags, total>>
  BY DEF Unwound
<1>2. CASE JumpLive
  <2>1. running_test
    BY <1>2 DEF IInv, FramesOK, OneTest, JumpLive, RunningFrames, TestKinds
  <2>2. TestPost(SubSeq(stack, 1, jump_dest), res) /\ UNCHANGED status
    BY <1>2 DEF Jump
  <2> QED  BY <1>1, <2>1, <2>2, PostSimulates
<1>3. CASE ~JumpLive
  <2>1. ~running_test
    BY <1>3, RunningIsLive
  <2>2. status' = "undefined" /\ UNCHANGED <<running_test, suite>>
    BY <1>3 DEF Jump
  <2>3. Tallies' = Tallies
    BY <1>1, <2>2 DEF Tallies, TallyOf
  <2>4. T!GoAstray
    BY <1>1, <2>1, <2>2, <2>3 DEF T!GoAstray, Tallies
  <2> QED  BY <2>4 DEF TallyStep, T!Next
<1> QED  BY <1>2, <1>3
LEMMA RaiseSimulates ==
    ASSUME IInv, status = "running", Raise, Unwound
    PROVE  TallyStep
<1>1. CASE "ABORT_ON_FAIL" \in flags
  <2>1. status' = "aborted" /\ UNCHANGED <<running_test, suite, total, flags>>
    BY <1>1 DEF Raise, Unwound
  <2>2. Tallies' = Tallies
    BY <2>1 DEF Tallies, TallyOf
  <2>3. T!Abort
    BY <1>1, <2>1, <2>2 DEF T!Abort, Tallies
  <2> QED  BY <2>3 DEF TallyStep, T!Next
<1>2. CASE "ABORT_ON_FAIL" \notin flags
  BY <1>2, JumpSimulates DEF Raise, Verdicts
<1> QED  BY <1>1, <1>2

(* A call that starts a test, at once or once the setup hook returns.      *)
LEMMA StartSimulates ==
    ASSUME IInv, NEW test \in Tests, StartTest(test) PROVE TallyStep
<1> DEFINE p == Tick(prng["SHUFFLE_TESTS"])
           frame == [Frame("setup", <<test, name_suffix>>, Top.owner) EXCEPT !.hook = setup]
           frames == Append(CallerRan, frame)
<1>1. /\ status = "running" /\ ~running_test
      /\ UNCHANGED <<flags, suite, total, status>>
      /\ UNCHANGED running_test \/ EnterTest(frames, p)
  BY DEF StartTest, Invoked
<1> HIDE DEF frames, p
<1> QED  BY <1>1, EnterSimulates, NoTally DEF TallyStep

(* The hooks and the test return. *)
LEMMA ReturnSimulates ==
    ASSUME IInv, SetupReturn \/ TestReturn \/ TeardownReturn PROVE TallyStep
<1>1. TypeOK /\ Top \in Frames /\ Len(stack) \in DOMAIN stack
  BY TopFrame DEF IInv
<1>2. CASE SetupReturn
  <2>1. status = "running" /\ Top.kind = "setup"
        /\ EnterTest(stack, prng["SHUFFLE_TESTS"]) /\ UNCHANGED <<flags, suite, total, status>>
    BY <1>2 DEF SetupReturn
  <2>2. \A d \in RunningFrames : d < Len(stack)
    BY <1>1, <2>1, TopFrame DEF RunningFrames, TestKinds, Top
  <2>3. RunningFrames = {}
    BY <1>1, <2>1, <2>2 DEF IInv, FramesOK, NoSetupInTest, Top
  <2>4. ~running_test
    BY <2>3 DEF IInv, FramesOK, OneTest
  <2> QED  BY <2>1, <2>4, EnterSimulates
<1>3. ASSUME Top.kind \in TestKinds PROVE running_test
  BY <1>1, <1>3 DEF IInv, FramesOK, OneTest, RunningFrames, Top
<1>4. CASE TestReturn
  <2>1. status = "running" /\ Top.kind \in TestKinds
        /\ TestPost(stack, "passed") /\ UNCHANGED <<flags, total, status>>
    BY <1>4 DEF TestReturn, TestKinds
  <2> QED  BY <1>3, <2>1, PostSimulates DEF Verdicts
<1>5. CASE TeardownReturn
  <2>1. status = "running" /\ Top.kind \in TestKinds
        /\ FinishTest(stack, Top.res) /\ UNCHANGED <<flags, total, status>>
    BY <1>5 DEF TeardownReturn, TestKinds
  <2>2. Top.res \in Verdicts
    BY <1>1 DEF Frames
  <2>3. "ABORT_ON_FAIL" \in flags => Top.res # "failed"
    BY <1>1 DEF IInv, FramesOK, AbortReturnsNoFailure, Top
  <2> QED  BY <1>3, <2>1, <2>2, <2>3, FinishSimulates
<1> QED  BY <1>2, <1>4, <1>5

(* main's return exits with the tally's status. *)
LEMMA MainReturnSimulates ==
    ASSUME IInv, MainReturn PROVE TallyStep
<1>1. /\ status = "running" /\ Top.kind = "main" /\ UNCHANGED <<flags, running_test>>
      /\ TypeOK /\ Len(stack) \in DOMAIN stack
  BY TopFrame DEF IInv, MainReturn, testVars
<1>2. ~running_test
  <2>1. Len(stack) = 1
    BY <1>1 DEF IInv, FramesOK, MainAtBottom, Top
  <2>2. RunningFrames = {}
    BY <1>1, <2>1, TopFrame DEF RunningFrames, TestKinds, Top
  <2> QED  BY <2>2 DEF IInv, FramesOK, OneTest
<1>3. Tallies' = Tallies /\ status' = IF TallyOf("failed") = 0 THEN "success" ELSE "failure"
  <2>1. CASE "LIST_ONLY" \in flags
    <3>1. TallyOf("failed") = 0
      BY <2>1, TallyValues DEF IInv, ListOnlyCountsNone
    <3>2. UNCHANGED <<suite, total>> /\ status' = "success"
      BY <2>1 DEF MainReturn
    <3> QED  BY <3>1, <3>2 DEF Tallies, TallyOf
  <2>2. CASE "LIST_ONLY" \notin flags
    <3>1. UpdateCountsAndResetSuite
      BY <2>2 DEF MainReturn
    <3>2. status' = IF total'.failed = 0 THEN "success" ELSE "failure"
      BY <2>2 DEF MainReturn, AllPassed
    <3> QED  BY <3>1, <3>2, UpdateTally
  <2> QED  BY <2>1, <2>2
<1>4. Tallies["failed"] = TallyOf("failed")
  BY DEF Tallies, Verdicts
<1>5. T!Exit
  BY <1>1, <1>2, <1>3, <1>4 DEF T!Exit, Tallies
<1> QED  BY <1>5 DEF TallyStep, T!Next

(* The calls that move the counts of a suite to the totals.                *)
LEMMA UpdateSimulates ==
    ASSUME IInv, UpdateCountsAndResetSuite, UNCHANGED <<flags, running_test, status>>
    PROVE  TallyStep
<1>1. Tallies' = Tallies
  BY UpdateTally
<1> QED  BY <1>1 DEF TallyStep, T!vars, Tallies

LEMMA NextSimulates == IInv /\ [Next]_vars => TallyStep
<1> SUFFICES ASSUME IInv, [Next]_vars PROVE TallyStep
  OBVIOUS
<1> DEFINE Still == UNCHANGED <<flags, running_test, suite, total, status>>
<1>1. CASE SetSetup \/ SetTeardown \/ \E suffix \in Suffixes : SetSuffix(suffix)
  <2>1. Still
    BY <1>1 DEF SetSetup, SetTeardown, SetSuffix, testVars
  <2> QED  BY <2>1, NoTally DEF TallyStep
<1>2. ASSUME NEW test \in Tests, RejectTest(test) \/ NestedTest(test) \/ StartTest(test)
      PROVE  TallyStep
  <2>1. CASE RejectTest(test) \/ NestedTest(test)
    <3>1. Still
      BY <2>1 DEF RejectTest, NestedTest, testVars
    <3> QED  BY <3>1, NoTally DEF TallyStep
  <2> QED  BY <1>2, <2>1, StartSimulates
<1>3. CASE SetupReturn \/ TestReturn \/ TeardownReturn
  BY <1>3, ReturnSimulates
<1>4. CASE Fail
  BY <1>4, RaiseSimulates DEF Fail
<1>5. CASE Skip
  BY <1>5, JumpSimulates DEF Skip, Verdicts
<1>6. ASSUME NEW holds \in BOOLEAN, Assert(holds) PROVE TallyStep
  <2>1. CASE holds
    <3>1. Still
      BY <1>6, <2>1 DEF Assert, Unwound
    <3> QED  BY <3>1, NoTally DEF TallyStep
  <2>2. CASE ~holds
    BY <1>6, <2>2, RaiseSimulates DEF Assert
  <2> QED  BY <2>1, <2>2
<1>7. ASSUME NEW name \in Suites, RejectSuite(name) \/ StartSuite(name) PROVE TallyStep
  <2>1. CASE RejectSuite(name)
    <3>1. Still
      BY <2>1 DEF RejectSuite, testVars
    <3> QED  BY <3>1, NoTally DEF TallyStep
  <2>2. CASE StartSuite(name)
    BY <2>2, UpdateSimulates DEF StartSuite, testVars
  <2> QED  BY <1>7, <2>1, <2>2
<1>8. CASE SuiteReturn \/ \E kind \in LoopKinds : ShuffleInit(kind)
  <2>1. Still
    BY <1>8 DEF SuiteReturn, ShuffleInit, testVars
  <2> QED  BY <2>1, NoTally DEF TallyStep
<1>9. CASE ShuffleRunning \/ ShuffleNext \/ InitSecondPass \/ DoubleModulus
  <2>1. Still
    BY <1>9 DEF ShuffleRunning, ShuffleNext, InitSecondPass, DoubleModulus, testVars
  <2> QED  BY <2>1, NoTally DEF TallyStep
<1>10. CASE PrintReport
  <2>1. UNCHANGED <<flags, running_test, status>>
    BY <1>10 DEF PrintReport, testVars
  <2>2. Still \/ UpdateCountsAndResetSuite
    BY <1>10, <2>1 DEF PrintReport
  <2> QED  BY <2>1, <2>2, NoTally, UpdateSimulates DEF TallyStep
<1>11. CASE Terminated \/ UNCHANGED vars
  <2>1. Still
    BY <1>11 DEF Terminated, vars, testVars
  <2> QED  BY <2>1, NoTally DEF TallyStep
<1> QED  BY <1>1, <1>2, <1>3, <1>4, <1>5, <1>6, <1>7, <1>8, <1>9, <1>10, <1>11,
            MainReturnSimulates DEF Next

LEMMA InitSimulates == Init => T!Init
<1> SUFFICES ASSUME Init PROVE T!Init
  OBVIOUS
<1>1. suite = ZeroCounters /\ total = ZeroCounters /\ running_test = FALSE /\ status = "running"
  BY DEF Init
<1>2. \A v \in Verdicts : TallyOf(v) = 0
  BY <1>1, TallyValues DEF Verdicts, ZeroCounters
<1> QED  BY <1>1, <1>2 DEF T!Init, Verdicts, T!Verdicts

(* The runner implements the tally, whatever its client does: each test    *)
(* that starts gets one verdict, no verdict is lost or counted twice by    *)
(* suites, reports and jumps, and main's status tells of the failures.     *)
THEOREM TallyImplemented == Spec => ImplementsTally
<1>1. IInv /\ [Next]_vars => [T!Next]_(T!vars)
  BY NextSimulates DEF TallyStep
<1> QED  BY <1>1, InitSimulates, RunnerInvariant, PTL DEF Spec, ImplementsTally, T!Spec
=============================================================================
