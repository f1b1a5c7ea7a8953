-------------------------------- MODULE Itest --------------------------------
(***************************************************************************)
(* The test runner of itest.c: suites, tests, hooks, assertions that       *)
(* longjmp, shuffled blocks and the totals, called by an arbitrary client. *)
(*                                                                         *)
(* The program is sequential, but its control is not simple: suites, test  *)
(* bodies and hooks are client callbacks which call back into the harness, *)
(* and a failing assertion longjmps over all of them.  `stack' is the call *)
(* stack of client code; a frame holds what its activation needs later.    *)
(* The client is nondeterministic: its top frame makes any call that the   *)
(* profile Calls allows, or returns.                                       *)
(***************************************************************************)
EXTENDS Integers, Sequences

CONSTANTS
    Tests,          \* names given to RUN_TEST
    Suites,         \* names given to RUN_SUITE
    Suffixes,       \* names given to itest_set_test_suffix
    NULL,           \* C's null pointer
    Matching,       \* the <<test, suffix>> names that pass the -t and -x filters
    MatchingSuites, \* the suite names that pass the -s filter
    Flags,          \* the sets of command-line flags to consider
    Calls,          \* client profile: <<frame kind, function>> pairs
    Blocks,         \* Blocks[k]: the bodies of the SHUFFLE blocks of kind k
    Seeds,          \* the seeds of SHUFFLE blocks
    MaxCalls,       \* bound on the calls made outside SHUFFLE blocks
    MaxAssertions   \* bound on the assertions evaluated

LoopKinds == {"SHUFFLE_SUITES", "SHUFFLE_TESTS"}
Callbacks == {"main", "suite", "setup", "test", "teardown"}
Kinds     == Callbacks \union LoopKinds
Names     == Tests \X (Suffixes \union {NULL})
Owners    == Suites \union {"main"}
Verdicts  == {"passed", "failed", "skipped"}
FlagNames == {"FIRST_FAIL", "LIST_ONLY", "ABORT_ON_FAIL"}
Items     == ({"RUN_TEST"} \X Tests) \union ({"RUN_SUITE"} \X Suites)
             \union ({"SET_SUFFIX"} \X Suffixes)
Functions == {"RUN_SUITE", "RUN_TEST", "SET_SETUP", "SET_TEARDOWN", "SET_SUFFIX", "PRINT_REPORT",
              "ASSERT", "ASSERT_FALSE", "FAIL", "SKIP"} \union LoopKinds

ASSUME NullAssumption   == NULL \notin Suites \union {"main"}
ASSUME FlagsAssumption  == Flags \subseteq SUBSET FlagNames
ASSUME CallsAssumption  == Calls \subseteq Callbacks \X Functions
ASSUME BlocksAssumption == Blocks \in [LoopKinds -> SUBSET Seq(Items)]
ASSUME SeedsAssumption  == Seeds \subseteq Nat
ASSUME BoundsAssumption == MaxCalls \in Nat /\ MaxAssertions \in Nat

VARIABLES
    flags,          \* itest_info.flags, set before the first suite
    running_test,   \* itest_info.running_test
    suite,          \* itest_info.suite: the counts of the current suite
    total,          \* itest_info.passed, failed, skipped, tests_run
    assertions,     \* itest_info.assertions
    msg,            \* itest_info.msg: the test that set it
    setup,          \* itest_info.setup: who installed it
    teardown,       \* itest_info.teardown: who installed it
    name_suffix,    \* itest_info.name_suffix
    name_buf,       \* itest_info.name_buf
    jump_dest,      \* itest_info.jump_dest: depth of the frame it returns to
    prng,           \* itest_info.prng
    stack,          \* the C call stack
    line,           \* the last result line printed, NULL before the first
    calls,          \* calls made outside SHUFFLE blocks
    status          \* whether, and how, the process ended

hookVars == <<setup, teardown>>
nameVars == <<name_suffix, name_buf>>
testVars == <<running_test, jump_dest, msg, assertions, line>>
vars == <<flags, suite, total, hookVars, nameVars, testVars, prng, stack, calls, status>>

(***************************************************************************)
(* Data.                                                                   *)
(***************************************************************************)

Counters == [passed: Nat, failed: Nat, skipped: Nat, tests_run: Nat]
ZeroCounters == [passed |-> 0, failed |-> 0, skipped |-> 0, tests_run |-> 0]

(* Mutated form: failures are assigned instead of added.                   *)
PlusLosesFailures(a, b) == [a EXCEPT !.passed = @ + b.passed, !.failed = b.failed,
                                     !.skipped = @ + b.skipped, !.tests_run = @ + b.tests_run]

Plus(a, b) == [passed    |-> a.passed + b.passed,
               failed    |-> a.failed + b.failed,
               skipped   |-> a.skipped + b.skipped,
               tests_run |-> a.tests_run + b.tests_run]

(* What a test with this verdict adds to the counts. *)
One(res) == [passed    |-> IF res = "passed" THEN 1 ELSE 0,
             failed    |-> IF res = "failed" THEN 1 ELSE 0,
             skipped   |-> IF res = "skipped" THEN 1 ELSE 0,
             tests_run |-> 1]

(* struct itest_prng.  The increment c is the constant that                *)
(* itest_shuffle_init sets: nothing draws once the memset has cleared it.  *)
Prng == [random_order: BOOLEAN, initialized: BOOLEAN, state: Nat, a: Nat,
         m: Nat, count: Nat, count_ceil: Nat, count_run: Nat]
ZeroPrng == [random_order |-> FALSE, initialized |-> FALSE, state |-> 0, a |-> 0,
             m |-> 0, count |-> 0, count_ceil |-> 0, count_run |-> 0]
Increment == 2147483647

(* An activation of client code, or of a SHUFFLE loop inside one.  name,   *)
(* owner and hook say which test runs, in which suite, and who installed   *)
(* the hook being run; res is the argument of itest_test_post; body, pos   *)
(* and ran are the loop's calls, the next one and those that ran           *)
(* something (0: at the loop's condition; past the calls: in the loop's    *)
(* increment); base is what had been printed when the suite started.       *)
Frames == [kind: Kinds, name: Names \union {NULL}, owner: Owners,
           hook: Owners \union {NULL}, res: Verdicts, body: Seq(Items),
           pos: Nat, ran: Seq(Nat), base: Counters]
Frame(kind, name, owner) ==
    [kind |-> kind, name |-> name, owner |-> owner, hook |-> NULL, res |-> "passed",
     body |-> <<>>, pos |-> 0, ran |-> <<>>, base |-> ZeroCounters]

(* A result line: the verdict, the name and message printed, the test it   *)
(* is about, and how many lines there are of each verdict up to this one.  *)
Lines == [verdict: Verdicts, name: Names \union {NULL}, msg: Names \union {NULL},
          test: Names \union {NULL}, printed: Counters]
ASSUME NoLineAssumption == NULL \notin Lines

TypeOK ==
    /\ flags \in Flags
    /\ running_test \in BOOLEAN
    /\ suite \in Counters /\ total \in Counters
    /\ assertions \in Nat
    /\ msg \in Names \union {NULL}
    /\ setup \in Owners \union {NULL} /\ teardown \in Owners \union {NULL}
    /\ name_suffix \in Suffixes \union {NULL}
    /\ name_buf \in Names \union {NULL}
    /\ jump_dest \in Nat
    /\ prng \in [LoopKinds -> Prng]
    /\ stack \in Seq(Frames) /\ stack # <<>>
    /\ line \in Lines \union {NULL}
    /\ calls \in Nat
    /\ status \in {"running", "success", "failure", "aborted", "undefined"}

(***************************************************************************)
(* The client.                                                             *)
(***************************************************************************)

Top == stack[Len(stack)]
InLoop == Top.kind \in LoopKinds

(* The client calls fn(arg): the next call of a SHUFFLE block, or one that *)
(* the profile allows to the running callback.                             *)
Invoked(fn, arg) ==
    /\ status = "running"
    /\ IF InLoop THEN Top.pos \in DOMAIN Top.body /\ Top.body[Top.pos] = <<fn, arg>>
                 ELSE <<Top.kind, fn>> \in Calls /\ calls < MaxCalls

(* The caller goes on after the call; Ran: one that started a callback.    *)
Counted == calls' = IF InLoop THEN calls ELSE calls + 1
ReplaceTop(frame) == [stack EXCEPT ![Len(stack)] = frame]
Advanced == [Top EXCEPT !.pos = @ + 1]
Caller == IF InLoop THEN ReplaceTop(Advanced) ELSE stack
CallerRan == IF InLoop THEN ReplaceTop([Advanced EXCEPT !.ran = Append(@, Top.pos)]) ELSE stack
Goto(n) == stack' = ReplaceTop([Top EXCEPT !.pos = n])

Init ==
    /\ flags \in Flags
    /\ running_test = FALSE
    /\ suite = ZeroCounters /\ total = ZeroCounters
    /\ assertions = 0
    /\ msg = NULL
    /\ setup = NULL /\ teardown = NULL
    /\ name_suffix = NULL /\ name_buf = NULL
    /\ jump_dest = 0
    /\ prng = [k \in LoopKinds |-> ZeroPrng]
    /\ stack = <<Frame("main", NULL, "main")>>
    /\ line = NULL
    /\ calls = 0
    /\ status = "running"

(* itest_set_setup_cb, itest_set_teardown_cb: install a hook or remove it. *)
SetSetup ==
    /\ Invoked("SET_SETUP", NULL)
    /\ setup' \in {Top.owner, NULL}
    /\ stack' = Caller /\ Counted
    /\ UNCHANGED <<flags, suite, total, teardown, nameVars, testVars, prng, status>>

SetTeardown ==
    /\ Invoked("SET_TEARDOWN", NULL)
    /\ teardown' \in {Top.owner, NULL}
    /\ stack' = Caller /\ Counted
    /\ UNCHANGED <<flags, suite, total, setup, nameVars, testVars, prng, status>>

(* itest_set_test_suffix. *)
SetSuffix(suffix) ==
    /\ Invoked("SET_SUFFIX", suffix)
    /\ name_suffix' = suffix
    /\ stack' = Caller /\ Counted
    /\ UNCHANGED <<flags, suite, total, hookVars, name_buf, testVars, prng, status>>

(***************************************************************************)
(* Tests.                                                                  *)
(***************************************************************************)

(* The position of a shuffled call is that of the generator's value.       *)
Drawn(p) == p.random_order => p.initialized /\ p.count = p.state
Tick(p) == IF p.random_order THEN [p EXCEPT !.count = @ + 1] ELSE p

(* Mutated form: first-fail mode forgets the current suite.                *)
SelectedDespiteSuite(name) ==
    /\ name \in Matching
    /\ "LIST_ONLY" \notin flags
    /\ "FIRST_FAIL" \in flags => total.failed = 0

(* Whether itest_test_pre lets the name through its filters and flags.     *)
Selected(name) ==
    /\ name \in Matching
    /\ "LIST_ONLY" \notin flags
    /\ "FIRST_FAIL" \in flags => suite.failed = 0

(* itest_test_pre's return 0 by way of `clear'. *)
RejectTest(test) ==
    LET name == <<test, name_suffix>> IN
    /\ Invoked("RUN_TEST", test)
    /\ name_buf' = name
    /\ IF Selected(name)
       THEN /\ ~Drawn(prng["SHUFFLE_TESTS"])
            /\ prng' = [prng EXCEPT !["SHUFFLE_TESTS"] = Tick(@)]
       ELSE UNCHANGED prng
    /\ name_suffix' = NULL
    /\ stack' = Caller /\ Counted
    /\ UNCHANGED <<flags, suite, total, hookVars, testVars, status>>

(* itest_test_pre's `Test run inside another test': the early return.      *)
NestedTest(test) ==
    LET name == <<test, name_suffix>> IN
    /\ Invoked("RUN_TEST", test)
    /\ name_buf' = name
    /\ Selected(name) /\ Drawn(prng["SHUFFLE_TESTS"])
    /\ running_test
    /\ prng' = [prng EXCEPT !["SHUFFLE_TESTS"] = Tick(@)]
    /\ stack' = Caller /\ Counted
    /\ UNCHANGED <<flags, suite, total, hookVars, name_suffix, testVars, status>>

(* Mutated form: the setjmp is missing, as it once was in RUN_TEST1.       *)
EnterWithoutSetjmp(frames, p) ==
    /\ prng' = [prng EXCEPT !["SHUFFLE_TESTS"] = [p EXCEPT !.count_run = @ + 1]]
    /\ running_test' = TRUE
    /\ UNCHANGED jump_dest
    /\ stack' = [frames EXCEPT ![Len(frames)].kind = "test"]

(* The rest of itest_test_pre after the setup hook, and the setjmp.        *)
EnterTest(frames, p) ==
    /\ prng' = [prng EXCEPT !["SHUFFLE_TESTS"] = [p EXCEPT !.count_run = @ + 1]]
    /\ running_test' = TRUE
    /\ jump_dest' = Len(frames)
    /\ stack' = [frames EXCEPT ![Len(frames)].kind = "test"]

(* itest_run_test, itest_run_test_with_env: a test that is run.            *)
StartTest(test) ==
    LET name  == <<test, name_suffix>>
        p     == Tick(prng["SHUFFLE_TESTS"])
        frame == [Frame("setup", name, Top.owner) EXCEPT !.hook = setup]
    IN
    /\ Invoked("RUN_TEST", test)
    /\ name_buf' = name
    /\ Selected(name) /\ Drawn(prng["SHUFFLE_TESTS"])
    /\ ~running_test
    /\ IF setup # NULL
       THEN /\ stack' = Append(CallerRan, frame)
            /\ prng' = [prng EXCEPT !["SHUFFLE_TESTS"] = p]
            /\ UNCHANGED <<running_test, jump_dest>>
       ELSE EnterTest(Append(CallerRan, frame), p)
    /\ Counted
    /\ UNCHANGED <<flags, suite, total, hookVars, name_suffix, msg, assertions, line, status>>

(* The setup hook returns into itest_test_pre. *)
SetupReturn ==
    /\ status = "running" /\ Top.kind = "setup"
    /\ EnterTest(stack, prng["SHUFFLE_TESTS"])
    /\ UNCHANGED <<flags, suite, total, hookVars, nameVars, msg, assertions, line, calls, status>>

(* The result lines printed so far, and the next one. *)
Printed == IF line = NULL THEN ZeroCounters ELSE line.printed
PrintLine(test, res) ==
    line' = [verdict |-> res, name |-> name_buf, msg |-> msg', test |-> test,
             printed |-> Plus(Printed, One(res))]

(* Mutated form: the caller of the test is unwound with it.                *)
FinishUnwindsCaller(frames, res) ==
    /\ running_test' = FALSE
    /\ PrintLine(frames[Len(frames)].name, res)
    /\ suite' = Plus(suite, One(res))
    /\ name_suffix' = NULL
    /\ stack' = SubSeq(frames, 1, Len(frames) - 2)

(* itest_test_post after its teardown hook, in the last of the frames.     *)
FinishTest(frames, res) ==
    /\ running_test' = FALSE
    /\ PrintLine(frames[Len(frames)].name, res)
    /\ suite' = Plus(suite, One(res))
    /\ name_suffix' = NULL
    /\ stack' = SubSeq(frames, 1, Len(frames) - 1)

(* itest_test_post: run the teardown hook, or go on without one.           *)
TestPost(frames, res) ==
    IF teardown # NULL
    THEN /\ stack' = [frames EXCEPT ![Len(frames)] =
                        [@ EXCEPT !.kind = "teardown", !.res = res, !.hook = teardown]]
         /\ UNCHANGED <<running_test, line, suite, name_suffix>>
    ELSE FinishTest(frames, res)

(* The test function returns. *)
TestReturn ==
    /\ status = "running" /\ Top.kind = "test"
    /\ UNCHANGED msg
    /\ TestPost(stack, "passed")
    /\ UNCHANGED <<flags, total, hookVars, name_buf, jump_dest, assertions, prng, calls, status>>

(* The teardown hook returns into itest_test_post. *)
TeardownReturn ==
    /\ status = "running" /\ Top.kind = "teardown"
    /\ UNCHANGED msg
    /\ FinishTest(stack, Top.res)
    /\ UNCHANGED <<flags, total, hookVars, name_buf, jump_dest, assertions, prng, calls, status>>

(* jump_dest is live when the activation that called setjmp has not        *)
(* returned: its frame is still a test at the same depth.                  *)
JumpLive == /\ jump_dest \in DOMAIN stack
            /\ stack[jump_dest].kind \in {"test", "teardown"}

(* Mutated form: the message of an earlier jump is kept.                   *)
JumpKeepsMessage(res) ==
    IF JumpLive
    THEN /\ msg' = IF msg = NULL THEN stack[jump_dest].name ELSE msg
         /\ TestPost(SubSeq(stack, 1, jump_dest), res)
         /\ UNCHANGED status
    ELSE /\ msg' = NULL
         /\ status' = "undefined"
         /\ UNCHANGED <<running_test, line, suite, name_suffix, stack>>

(* longjmp(jump_dest, res): the run_test activation calls itest_test_post. *)
(* Without a live target C gives the jump no meaning, and the model stops. *)
Jump(res) ==
    IF JumpLive
    THEN /\ msg' = stack[jump_dest].name
         /\ TestPost(SubSeq(stack, 1, jump_dest), res)
         /\ UNCHANGED status
    ELSE /\ msg' = NULL
         /\ status' = "undefined"
         /\ UNCHANGED <<running_test, line, suite, name_suffix, stack>>

(* itest_fail: FAIL(), and what a failing assertion calls.                 *)
Raise ==
    IF "ABORT_ON_FAIL" \in flags
    THEN /\ msg' = IF JumpLive THEN stack[jump_dest].name ELSE NULL
         /\ status' = "aborted"
         /\ UNCHANGED <<running_test, line, suite, name_suffix, stack>>
    ELSE Jump("failed")

Unwound == UNCHANGED <<flags, total, hookVars, name_buf, jump_dest, prng, calls>>

Fail ==
    /\ status = "running" /\ <<Top.kind, "FAIL">> \in Calls
    /\ Raise
    /\ UNCHANGED assertions
    /\ Unwound

(* itest_skip. *)
Skip ==
    /\ status = "running" /\ <<Top.kind, "SKIP">> \in Calls
    /\ Jump("skipped")
    /\ UNCHANGED assertions
    /\ Unwound

(* itest_assert and the other assertions: count, then fail or return.      *)
Assert(holds) ==
    /\ status = "running" /\ <<Top.kind, IF holds THEN "ASSERT" ELSE "ASSERT_FALSE">> \in Calls
    /\ assertions < MaxAssertions
    /\ assertions' = assertions + 1
    /\ IF holds
       THEN UNCHANGED <<running_test, msg, line, suite, name_suffix, stack, status>>
       ELSE Raise
    /\ Unwound

(***************************************************************************)
(* Suites.                                                                 *)
(***************************************************************************)

(* Mutated forms: without the memset; with the hooks left in place.        *)
UpdateCountsKeepsSuite ==
    /\ setup' = NULL /\ teardown' = NULL
    /\ total' = Plus(total, suite)
    /\ UNCHANGED suite
UpdateCountsKeepsHooks ==
    /\ UNCHANGED <<setup, teardown>>
    /\ total' = Plus(total, suite)
    /\ suite' = ZeroCounters

UpdateCountsAndResetSuite ==
    /\ setup' = NULL /\ teardown' = NULL
    /\ total' = Plus(total, suite)
    /\ suite' = ZeroCounters

SuiteSelected(name) == name \in MatchingSuites /\ "ABORT_ON_FAIL" \notin flags

(* itest_suite_pre returns 0. *)
RejectSuite(name) ==
    /\ Invoked("RUN_SUITE", name)
    /\ IF SuiteSelected(name)
       THEN /\ ~Drawn(prng["SHUFFLE_SUITES"])
            /\ prng' = [prng EXCEPT !["SHUFFLE_SUITES"] = Tick(@)]
       ELSE UNCHANGED prng
    /\ stack' = Caller /\ Counted
    /\ UNCHANGED <<flags, suite, total, hookVars, nameVars, testVars, status>>

(* itest_suite_pre returns 1 and itest_run_suite calls the suite.          *)
StartSuite(name) ==
    LET p == Tick(prng["SHUFFLE_SUITES"]) IN
    /\ Invoked("RUN_SUITE", name)
    /\ SuiteSelected(name) /\ Drawn(prng["SHUFFLE_SUITES"])
    /\ prng' = [prng EXCEPT !["SHUFFLE_SUITES"] = [p EXCEPT !.count_run = @ + 1]]
    /\ UpdateCountsAndResetSuite
    /\ stack' = Append(CallerRan, [Frame("suite", Top.name, name) EXCEPT !.base = Printed])
    /\ Counted
    /\ UNCHANGED <<flags, nameVars, testVars, status>>

(* itest_suite_post only prints: the hooks and the counts stay.            *)
SuiteReturn ==
    /\ status = "running" /\ Top.kind = "suite"
    /\ stack' = SubSeq(stack, 1, Len(stack) - 1)
    /\ UNCHANGED <<flags, suite, total, hookVars, nameVars, testVars, prng, calls, status>>

(***************************************************************************)
(* SHUFFLE_SUITES and SHUFFLE_TESTS: a for loop over a block, each time    *)
(* round running the call whose position the generator drew.               *)
(***************************************************************************)

(* Mutated form: the multiplier before its configuration was fixed.        *)
MultiplierUnfixed(state) == IF state = 0 THEN 5 ELSE 2 * state + 1

(* Only the lower 29 bits; then 4 times that, or 4, made odd.              *)
MaskedSeed(seed) == seed % 536870912
Multiplier(state) == IF state = 0 THEN 5 ELSE 4 * state + 1

ShuffleInit(kind) ==
    /\ ~InLoop
    /\ Invoked(kind, NULL)
    /\ \E seed \in Seeds, body \in Blocks[kind] :
        /\ prng' = [prng EXCEPT ![kind] =
                      [ZeroPrng EXCEPT !.random_order = TRUE,
                                       !.state = MaskedSeed(seed),
                                       !.a = Multiplier(MaskedSeed(seed)),
                                       !.m = prng[kind].m,
                                       !.count_ceil = prng[kind].count_ceil]]
        /\ stack' = Append(stack, [Frame(kind, Top.name, Top.owner) EXCEPT !.body = body])
    /\ Counted
    /\ UNCHANGED <<flags, suite, total, hookVars, nameVars, testVars, status>>

(* Mutated forms: one call short; blind to first-fail mode.                *)
RunningOneShort(p) ==
    /\ ~p.initialized \/ p.count_run + 1 < p.count_ceil
    /\ ~("FIRST_FAIL" \in flags /\ (suite.failed > 0 \/ total.failed > 0))
RunningAfterFailure(p) == ~p.initialized \/ p.count_run < p.count_ceil

(* itest_shuffle_running: the loop's condition. *)
Running(p) ==
    /\ ~p.initialized \/ p.count_run < p.count_ceil
    /\ ~("FIRST_FAIL" \in flags /\ (suite.failed > 0 \/ total.failed > 0))

ShuffleRunning ==
    /\ status = "running" /\ InLoop /\ Top.pos = 0
    /\ IF Running(prng[Top.kind])
       THEN Goto(1) /\ UNCHANGED prng
       ELSE /\ stack' = SubSeq(stack, 1, Len(stack) - 1)
            /\ prng' = [prng EXCEPT ![Top.kind] = ZeroPrng]
    /\ UNCHANGED <<flags, suite, total, hookVars, nameVars, testVars, calls, status>>

(* One round of the generator.  The product is taken modulo m throughout:  *)
(* m is a power of two that divides the word's, so the mask gives the same.*)
Draw(p) == [p EXCEPT !.state = ((p.a % p.m) * (p.state % p.m) + (Increment % p.m)) % p.m]

AtNext == status = "running" /\ InLoop /\ Top.pos = Len(Top.body) + 1

(* itest_shuffle_next after the first pass: one round of its loop per      *)
(* step, until the generator's value is the position of a call.            *)
ShuffleNext ==
    LET drawn == Draw(prng[Top.kind]) IN
    /\ AtNext /\ prng[Top.kind].initialized
    /\ IF drawn.state >= drawn.count_ceil
       THEN /\ prng' = [prng EXCEPT ![Top.kind] = drawn]
            /\ UNCHANGED stack
       ELSE /\ prng' = [prng EXCEPT ![Top.kind] = [drawn EXCEPT !.count = 0]]
            /\ Goto(0)
    /\ UNCHANGED <<flags, suite, total, hookVars, nameVars, testVars, calls, status>>

(* itest_shuffle_next at the end of the first pass, which only counted.    *)
InitSecondPass ==
    LET p == prng[Top.kind]
        counted == [p EXCEPT !.initialized = TRUE, !.count_ceil = p.count] IN
    /\ AtNext /\ ~p.initialized
    /\ IF p.count = 0
       THEN /\ prng' = [prng EXCEPT ![Top.kind] = counted]
            /\ Goto(0)
       ELSE /\ prng' = [prng EXCEPT ![Top.kind] = [counted EXCEPT !.m = 1]]
            /\ Goto(Len(Top.body) + 2)
    /\ UNCHANGED <<flags, suite, total, hookVars, nameVars, testVars, calls, status>>

(* Its loop that doubles the modulus up to the count, then `p->count = 0'. *)
DoubleModulus ==
    LET p == prng[Top.kind] IN
    /\ status = "running" /\ InLoop /\ Top.pos = Len(Top.body) + 2
    /\ IF p.m < p.count
       THEN /\ prng' = [prng EXCEPT ![Top.kind].m = 2 * @]
            /\ UNCHANGED stack
       ELSE /\ prng' = [prng EXCEPT ![Top.kind].count = 0]
            /\ Goto(0)
    /\ UNCHANGED <<flags, suite, total, hookVars, nameVars, testVars, calls, status>>

(***************************************************************************)
(* The report.                                                             *)
(***************************************************************************)

(* itest_print_report called in passing. *)
PrintReport ==
    /\ Invoked("PRINT_REPORT", NULL)
    /\ IF "LIST_ONLY" \in flags THEN UNCHANGED <<suite, total, hookVars>>
                                ELSE UpdateCountsAndResetSuite
    /\ stack' = Caller /\ Counted
    /\ UNCHANGED <<flags, nameVars, testVars, prng, status>>

AllPassed(counts) == counts.failed = 0

(* What itest_get_report tells when it is called. *)
GetReport == [passed |-> total.passed, failed |-> total.failed, skipped |-> total.skipped,
              assertions |-> assertions]

(* main's `return itest_print_report();'. *)
MainReturn ==
    /\ status = "running" /\ Top.kind = "main"
    /\ IF "LIST_ONLY" \in flags
       THEN /\ UNCHANGED <<suite, total, hookVars>>
            /\ status' = "success"
       ELSE /\ UpdateCountsAndResetSuite
            /\ status' = IF AllPassed(total') THEN "success" ELSE "failure"
    /\ UNCHANGED <<flags, nameVars, testVars, prng, stack, calls>>

Terminated == status # "running" /\ UNCHANGED vars

Next ==
    \/ SetSetup \/ SetTeardown \/ \E suffix \in Suffixes : SetSuffix(suffix)
    \/ \E test \in Tests : RejectTest(test) \/ NestedTest(test) \/ StartTest(test)
    \/ SetupReturn \/ TestReturn \/ TeardownReturn
    \/ Fail \/ Skip \/ \E holds \in BOOLEAN : Assert(holds)
    \/ \E name \in Suites : RejectSuite(name) \/ StartSuite(name)
    \/ SuiteReturn
    \/ \E kind \in LoopKinds : ShuffleInit(kind)
    \/ ShuffleRunning \/ ShuffleNext \/ InitSecondPass \/ DoubleModulus
    \/ PrintReport \/ MainReturn
    \/ Terminated

(* The process is one thread: as long as a step is possible, it is taken.  *)
Spec == Init /\ [][Next]_vars /\ WF_vars(Next)
=============================================================================
