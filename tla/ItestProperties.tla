--------------------------- MODULE ItestProperties ---------------------------
(***************************************************************************)
(* The correctness properties of the runner.  The first group holds for    *)
(* any client; the others for clients that keep to the documented use.     *)
(***************************************************************************)
EXTENDS Itest, FiniteSets

(***************************************************************************)
(* Any client.                                                             *)
(***************************************************************************)

TestKinds == {"test", "teardown"}
RunningFrames == {d \in DOMAIN stack : stack[d].kind \in TestKinds}

(* At most one test is being run, running_test says whether one is, and    *)
(* jump_dest leads to its activation: an assertion failing anywhere below  *)
(* it, in nested suites, loops or hooks, fails that very test.             *)
OneTest ==
    /\ running_test <=> RunningFrames # {}
    /\ \A d \in RunningFrames : d = jump_dest

(* A failing assertion, FAIL or SKIP that has no activation to return to   *)
(* only ever happens while no test is being run.                           *)
NoStaleJump == [][status' = "undefined" => status = "undefined" \/ ~running_test]_vars

(* The results of the tests, over the current suite and the totals.        *)
TallyOf(v) == CASE v = "passed"  -> total.passed + suite.passed
                [] v = "failed"  -> total.failed + suite.failed
                [] v = "skipped" -> total.skipped + suite.skipped

(* The runner implements the tally, for any client: every test started     *)
(* gets exactly one verdict, no suite, report or jump loses or repeats a   *)
(* verdict, and main's exit status reports a failure if and only if there  *)
(* was one.                                                                *)
T == INSTANCE Tally WITH open <- running_test,
                         tally <- [v \in Verdicts |-> TallyOf(v)],
                         abort_on_fail <- "ABORT_ON_FAIL" \in flags,
                         status <- status
ImplementsTally == T!Spec

(* The inductive invariant behind these: the parts say why each guard of   *)
(* the code suffices.                                                      *)

(* main is the bottom frame, and only that.                                *)
MainAtBottom == \A d \in DOMAIN stack : stack[d].kind = "main" <=> d = 1

(* A setup hook is only called while no test is being run.                 *)
NoSetupInTest ==
    \A d \in RunningFrames, e \in DOMAIN stack : d < e => stack[e].kind # "setup"

(* A dry run starts no test, so it never counts a failure.                 *)
ListOnlyStartsNone ==
    "LIST_ONLY" \in flags =>
        \A d \in DOMAIN stack : stack[d].kind \notin TestKinds \union {"setup"}
ListOnlyCountsNone == "LIST_ONLY" \in flags => suite.failed = 0 /\ total.failed = 0

(* With abort_on_fail no test is closed as failed.                         *)
AbortReturnsNoFailure ==
    "ABORT_ON_FAIL" \in flags => \A d \in DOMAIN stack : stack[d].res # "failed"

(* Past the loop's condition the generator has a modulus to reduce by.     *)
ModulusSet ==
    \A k \in LoopKinds : prng[k].initialized =>
        \/ prng[k].m > 0
        \/ prng[k].count_ceil = 0 /\ Top.kind = k /\ Top.pos = 0

(* For any client: the frames, flags and generators agree in all of the    *)
(* ways above, in every state.                                             *)
FramesOK == MainAtBottom /\ OneTest /\ NoSetupInTest /\ ListOnlyStartsNone
            /\ AbortReturnsNoFailure
IInv == TypeOK /\ FramesOK /\ ListOnlyCountsNone /\ ModulusSet

(***************************************************************************)
(* Clients that keep to the documented use.                                *)
(***************************************************************************)

(* What the documentation tells clients to do: main and suites run tests,  *)
(* suites install hooks, tests fail or skip themselves, hooks only check   *)
(* what holds, and nothing is run from inside a test or a hook, nor a      *)
(* suite from inside another.                                              *)
DocumentedCalls ==
    ({"main"} \X ({"RUN_SUITE", "RUN_TEST", "SET_SUFFIX", "PRINT_REPORT"} \union LoopKinds))
    \union ({"suite"} \X {"SET_SETUP", "SET_TEARDOWN", "SET_SUFFIX", "RUN_TEST", "SHUFFLE_TESTS"})
    \union ({"test"} \X {"ASSERT", "ASSERT_FALSE", "FAIL", "SKIP"})
    \union ({"setup", "teardown"} \X {"ASSERT"})
DocumentedUse ==
    /\ Calls \subseteq DocumentedCalls
    /\ \A body \in Blocks["SHUFFLE_TESTS"] : \A i \in DOMAIN body : body[i][1] # "RUN_SUITE"
    /\ "main" \notin Suites

(* And blocks as the documentation has them: SHUFFLE_SUITES runs suites,   *)
(* SHUFFLE_TESTS runs tests, and a suffix does not change whether a test   *)
(* passes the filters: the pass that counts and the pass that runs it then *)
(* select the same calls.                                                  *)
ShuffledUse ==
    /\ DocumentedUse
    /\ \A body \in Blocks["SHUFFLE_SUITES"] : \A i \in DOMAIN body : body[i][1] # "RUN_TEST"
    /\ \A body \in Blocks["SHUFFLE_TESTS"], suffix \in Suffixes : \A i \in DOMAIN body :
         body[i][1] = "RUN_TEST" =>
           (<<body[i][2], suffix>> \in Matching <=> <<body[i][2], NULL>> \in Matching)

(* No jump goes astray. *)
NoStrayJump == status # "undefined"

(* The counts a suite reports when it returns are those of the result      *)
(* lines printed since it began, whatever ran before it.                   *)
SuiteReportExact == Top.kind = "suite" => Plus(Top.base, suite) = Printed

(* A result line carries the name of the test it is about, with the suffix *)
(* set for it, and a failure or skip carries the message of that test.     *)
LineIsAboutItsTest ==
    line # NULL =>
        /\ line.name = line.test
        /\ line.verdict # "passed" => line.msg = line.test

(* A hook that runs for a test of a suite was installed by that suite.     *)
HooksOfThisSuite ==
    \A d \in DOMAIN stack :
        stack[d].kind \in {"setup", "teardown"} /\ stack[d].owner \in Suites
            => stack[d].hook = stack[d].owner

(* In first-fail mode no suite counts a second failure.                    *)
FirstFailPerSuite == "FIRST_FAIL" \in flags => suite.failed <= 1

(* The process ends: hooks, jumps and shuffled blocks never make the       *)
(* runner go round for ever.                                               *)
Terminates == <>(status # "running")

(***************************************************************************)
(* Shuffled blocks.                                                        *)
(***************************************************************************)

(* Whether an item of a block counts in the block's passes.                *)
Runs(item) == \/ item[1] = "RUN_TEST" /\ <<item[2], NULL>> \in Matching
                                      /\ "LIST_ONLY" \notin flags
              \/ item[1] = "RUN_SUITE" /\ SuiteSelected(item[2])
ToRun(frame) == {i \in DOMAIN frame.body : Runs(frame.body[i])}

(* No call of a shuffled block runs its test or suite a second time.       *)
ShuffleOnce ==
    \A d \in DOMAIN stack :
        \A i, j \in DOMAIN stack[d].ran : stack[d].ran[i] = stack[d].ran[j] => i = j

(* A shuffled block that ends has run everything selected in it, unless    *)
(* first-fail mode stopped it.                                             *)
ShuffleComplete ==
    [][InLoop /\ Len(stack') < Len(stack) =>
        \/ {Top.ran[i] : i \in DOMAIN Top.ran} = ToRun(Top)
        \/ "FIRST_FAIL" \in flags /\ TallyOf("failed") > 0]_vars

(***************************************************************************)
(* Why the process ends: a measure that every step lowers.                 *)
(***************************************************************************)

(* a is below b in the lexicographic order: their first difference is a    *)
(* number that goes down, to be found in b as a natural number.            *)
Lower(a, b) ==
    \E i \in DOMAIN b : /\ b[i] \in Nat /\ a[i] \in Int /\ a[i] < b[i]
                       /\ \A j \in 1 .. i - 1 : a[j] = b[j]

(* What the client may still do. *)
Budget == <<IF status = "running" THEN 1 ELSE 0, MaxCalls - calls, MaxAssertions - assertions>>

(* Whether a pass over the block f whose positions R are selected, with    *)
(* p's value, has a call to run that has not been run.                     *)
Due(f, p, R) == \E i \in R : /\ \A k \in DOMAIN f.ran : f.ran[k] # i
                             /\ Cardinality({j \in R : j < i}) = p.state

(* The values that p will draw, and in how many draws one is a position.   *)
Upcoming(p) ==
    LET value[n \in Nat] == IF n = 0 THEN p.state
                                     ELSE Draw([p EXCEPT !.state = value[n - 1]]).state
    IN value
Hunt(p) ==
    LET value == Upcoming(p)
    IN  Cardinality({n \in 0 .. p.m : \A i \in 1 .. n : value[i] >= p.count_ceil})

(* What a SHUFFLE loop still has to do: its phase, the calls it has not    *)
(* run, the work before the next pass that runs one, and the rest of this. *)
LoopPhase(f, p) == IF ~p.initialized THEN 3 ELSE IF f.pos = Len(f.body) + 2 THEN 2 ELSE 1
Search(f, p, R) ==
    CASE LoopPhase(f, p) = 3 -> 0
      [] LoopPhase(f, p) = 2 -> p.count - p.m
      [] LoopPhase(f, p) = 1 ->
           IF Due(f, p, R) \/ (f.pos = 0 /\ Cardinality(R) = Len(f.ran)) THEN 0 ELSE Hunt(p)
ToGo(f) == Len(f.body) + 2 - f.pos
Work(f, p, R) == <<LoopPhase(f, p), Cardinality(R) - Len(f.ran), Search(f, p, R), ToGo(f)>>
LoopWork(kind) ==
    IF \E d \in DOMAIN stack : stack[d].kind = kind
    THEN LET f == stack[CHOOSE d \in DOMAIN stack : stack[d].kind = kind]
         IN  Work(f, prng[kind], ToRun(f))
    ELSE <<0, 0, 0, 0>>

(* The callbacks to return from, and where the test on top of them is.     *)
Unreturned == <<Len(stack), CASE Top.kind = "setup"    -> 3
                              [] Top.kind = "test"     -> 2
                              [] Top.kind = "teardown" -> 1
                              [] OTHER                 -> 0>>

(* Every step leaves less to do: first of the client's calls, then of the  *)
(* loop over suites, of the loop over tests inside it, and of the callback *)
(* that runs.  No behaviour takes steps for ever.                          *)
Measure == <<Budget, LoopWork("SHUFFLE_SUITES"), LoopWork("SHUFFLE_TESTS"), Unreturned>>
Below(a, b) == \E i \in DOMAIN b : Lower(a[i], b[i]) /\ \A j \in 1 .. i - 1 : a[j] = b[j]
Descends == [][\E before \in {Measure}, after \in {Measure'} : Below(after, before)]_vars

(***************************************************************************)
(* What the documentation says and the code does not do.                   *)
(***************************************************************************)

(* "Stop runner after first failure" (-f): once a test has failed no other *)
(* test is started, in this suite or a later one.                          *)
FirstFailStops ==
    [][~running_test /\ "FIRST_FAIL" \in flags /\ TallyOf("failed") > 0
         => ~running_test']_vars

(* "Abort on first failure" (-a): before a failure, the suites named by    *)
(* RUN_SUITE are run.                                                      *)
AbortWaitsForFailure ==
    [][\A name \in MatchingSuites :
         RejectSuite(name) => prng["SHUFFLE_SUITES"].random_order \/ TallyOf("failed") > 0]_vars

(* The hooks of a suite are "cleared when the suite finishes": no hook     *)
(* runs outside the suite that installed it.                               *)
HooksClearedAfterSuite ==
    \A d \in DOMAIN stack :
        stack[d].kind \in {"setup", "teardown"} => stack[d].hook = stack[d].owner

(* "Calls to RUN_TEST from inside another test are ignored": a result line *)
(* still carries the name of the test it is about.                         *)
NestedCallsIgnored == line # NULL => line.name = line.test

(* "The first pass counts, and the following passes only execute the next  *)
(* chosen suite/test": each pass after the first has a call to run.        *)
EachPassRunsOne ==
    InLoop /\ Top.pos = 1 /\ prng[Top.kind].initialized
        => prng[Top.kind].state < prng[Top.kind].count_ceil

(* "Use either [...] to print the report [...], or use get_report to get   *)
(* the pass, fail, skip, and assertion counters": whenever main can ask    *)
(* for them, they count every result that has been printed.                *)
ReportTellsAll ==
    status = "running" /\ Top.kind = "main" =>
        \A v \in Verdicts : GetReport[v] = Printed[v]
=============================================================================
