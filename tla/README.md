# A TLA+ model of infinitestimal

infinitestimal is a C test harness: `itest.c` and `itest.h`, a fork of
greatest.  A test program's `main` calls `itest_init`, parses its options, runs
suites and tests, and ends with `return itest_print_report();`.  This directory
models the harness, checks it with TLC and proves its central promises with
TLAPS.

## 1. The system

Everything lives in one static `itest_run_info` and one thread.  What makes the
runner hard is its control.  Suites, tests and hooks are client callbacks,
which call back into the harness at any depth; a failing assertion `longjmp`s
over all of them through one global `jump_dest`; shuffled blocks are `for`
loops around client code whose calls are counted on one pass and picked by a
generator on the next ones; and the counts of a suite move to the totals
lazily.  There are no messages, no files and no persistent state: nothing to
lose, reorder or recover.

| Component | State | Operations | Correct when |
|---|---|---|---|
| Test execution (`itest.c` 297-477) | `running_test`, `name_buf`, `name_suffix`, `suite` counts, `jump_dest` | `itest_run_test`, `itest_run_test_with_env`, `itest_test_pre`, `itest_test_post` | one test at a time; one verdict per test; the line printed is about that test |
| Assertions and jumps (328-347, 547-644) | `assertions`, `msg`, `jump_dest` | `itest_assert*`, `itest_fail`, `itest_skip` | a jump ends the running test and reaches a live activation |
| Suites (479-545) | `suite`, totals | `itest_run_suite`, `itest_suite_pre`, `itest_suite_post` | a suite reports its own tests only; no count is lost |
| Hooks (827-839) | `setup`, `teardown` | setters, calls around each test | a suite's tests see only its own hooks |
| Shuffling (847-911, `itest.h` 311-328) | `prng[2]` | `itest_shuffle_init`, `_running`, `_next` | every selected call runs exactly once, in the order on record; the loop ends |
| Totals and report (725-729, 780-789, 923-946) | `passed`, `failed`, `skipped`, `tests_run` | `itest_print_report`, `itest_all_passed`, `itest_get_report` | the exit status tells of the failures |
| Options and settings (646-825, 914-921) | `flags`, filters, `verbosity` | `itest_init`, `itest_parse_options`, setters | what the command line asks for, once |
| Names and filters (260-295, 350-367) | `name_buf` | `itest_buffer_test_name`, `itest_name_match`, `itest_is_filtered` | the tests whose names match |
| Timers (162-187) | six clock readings | `itest_get_cpu_time`, `itest_report_interval` | an interval is the time of the thing it is printed for |
| Progress output (393-437) | `col`, `width` | verdict letters and lines | no line too long, result lines at the beginning of a line |
| Comparisons and printing (189-258, 547-627) | none | `itest_assert_equal_t` and its callbacks, `itest_assert_in_range` | fails if and only if the values differ; shows where |
| Scripts (`contrib/`) | none of the runner's | `entapment` (TAP filter), `greenest` (colours), `testify` (scaffolding) | outside the runner |

Components meet through calls from the client, through the shared
`itest_info`, and through `jump_dest`.  `PROJECT.json` lists every component
with its status, and the hazards of the code each at its line.

## 2. The modules

The runner:

- **`Tally`**: the abstract promise.  One test is open at a time; each open
  test is closed with exactly one verdict; verdicts are only ever added; with
  `-a` a failure ends the process instead of being counted; the exit status
  says whether a failure was counted.  A jump may go astray only from a state
  without an open test.
- **`Itest`**: the runner with an arbitrary client.  One action per function of
  the interface or per part of it between two callbacks.
- **`ItestProperties`**: its properties, the refinement of `Tally`, the
  inductive invariant, and what documented use is (`DocumentedUse`,
  `ShuffledUse`).
- **`MCItest`**: values of the constants for TLC.

What the runner reads and writes besides:

- **`Names`**: the name buffer and the filters, as operators on C strings.
- **`Options`** (extends `Names`): `itest_init`, the setters a client may call,
  and `itest_parse_options` as a state machine over a command line, one action
  per case of its switch.  **`OptionsProperties`** states what the usage text
  promises of the command line as a whole.  **`MCOptions`**: instances.
- **`Timers`**, **`Progress`**: the state of the clock and of the output, and
  one operator for each place where the runner's functions touch them.
- **`Console`** (extends `Itest`, `Timers` and `Progress`): the composition.
  Each action is an action of `Itest` with what it reads and prints, or client
  code using CPU time.  **`ConsoleProperties`**, **`MCConsole`**.

An assertion from the inside:

- **`Compare`**: one evaluation of a comparing assertion: what the callbacks
  compare, what is printed of both values, row by row of a dump, and whether
  `itest_fail` is called.  **`CompareProperties`**, **`MCCompare`**.

Proofs (section 4): **`ItestProofs`**; **`ItestRefinement`** and
**`ItestDocumented`**, which build on it; **`ItestShuffle`**, which builds on
`ItestDocumented`, as does **`ConsoleProofs`**; **`OptionsProofs`** and
**`CompareProofs`**; and **`NumberFacts`**, what arithmetic they need.

The modules meet as the code does.  `Options` ends in flags and filters, and
`Itest` starts from any set of flags; its constant `Matching` is computed in
`MCItest` with the operators of `Names`.  `Compare` ends in `"failed"` or
`"returned"`, which is the choice that `Assert` makes in `Itest`.  `Console`
takes the runner's steps and no others (`ConsoleImplementsRunner`), so that
what is proved of the runner holds of it too.

### How the model corresponds to the code

`stack` is the C call stack of client code.  A frame is an activation of
`main`, a suite, a test, a setup or teardown hook, or a SHUFFLE loop inside one
of them.  A call that reaches a callback pushes a frame; the callback's return
is an action of its own (`SetupReturn`, `TestReturn`, `TeardownReturn`,
`SuiteReturn`), which executes the rest of the function that called it.  The
frame of a test is pushed as `"setup"` when there is a setup hook, becomes
`"test"` at the `setjmp`, and `"teardown"` while the teardown hook runs: it is
the activation of `itest_run_test`, and `jump_dest` is its depth.

`Jump` cuts the stack to `jump_dest` and executes `itest_test_post`.  When that
activation has returned, or there never was one, C gives `longjmp` no meaning:
the model goes to status `"undefined"` and stops, and the properties say when
that can happen.

Between two callbacks the code runs to completion, so such a stretch is one
step: `StartTest` is `itest_test_pre` up to the setup hook, or, without a hook,
up to the call of the test.  The generator is the exception: each round of its
two inner loops (`ShuffleNext`, `DoubleModulus`) is a step, so that a loop that
does not end is a behaviour that does not end.

The client is whatever the constants let it be.  `Calls` says which function
each kind of callback may call; each call is a nondeterministic choice, up to
`MaxCalls` in a behaviour; `Blocks` gives the bodies of SHUFFLE loops, whose
calls are executed in order on every pass.  Where a profile allows
`SET_SETUP`, the hook may be installed or removed.

Data is abstracted to what the properties tell apart.  In the runner a test's
name is the pair of its name and suffix, or NULL; which names pass the filters
is the constant `Matching`; a message is the name of the test that set it; a
hook is the suite (or `main`) that installed it; an assertion's outcome is
nondeterministic.  Seeds and the generator are integers.  The generator takes
its product modulo `m` at once: `m` is a power of two that divides the word's
modulus, so the wrapped product masked by `m - 1` is the same number.

In `Names` and `Options` a string is the sequence of its characters, because
the properties are about characters: prefixes, substrings, the second letter of
a word.  `verbosity` wraps at `ByteRange` as the `unsigned char` does.  In
`Timers` a reading wraps at `ClockRange` and the failing clock returns
`ClockRange - 1`, which is `(clock_t)-1`; the runner's own time is left out, so
time passes only in client code.  In `Progress` text is its length in columns,
`cursor` is where the output really is and `col` what the runner believes.  In
`Compare` finite doubles are integers, whose differences are exact, with the
infinities and NaN beside them; a row of the dump is its offset, its bytes and
its marks.

`line`, and the fields `name`, `owner`, `hook`, `ran` and `base` of frames, are
history: no guard reads them (`owner` and `name` are only copied).  So are
`before` in `Options`, `cursor` and `words_at` in `Progress`, and `entered`,
`lasted`, `took` and `suites_took` in `Console`.

## 3. What TLC checks

Properties that hold:

| Run | Instance | Properties |
|---|---|---|
| `any` | any call from any callback, loops in tests, hooks that fail, suites in tests | `TypeOK`, `OneTest`, `IInv`, `NoStaleJump`, `ImplementsTally` |
| `documented` | suites install hooks and run tests; main runs suites and tests and sets suffixes; tests assert, fail, skip | `NoStrayJump`, `SuiteReportExact`, `LineIsAboutItsTest`, `HooksOfThisSuite`, `FirstFailPerSuite` |
| `shuffle` | shuffled tests, shuffled suites, shuffled tests in shuffled suites; tests fail | `ShuffleOnce`, `ShuffleComplete`, `Descends`, `Terminates` |
| `options` | command lines of up to three words, with a setter called before or after; names and suffixes | `OptionsTypeOK`, `SelectionAsAsked`, `UnfilteredRunsAll`, `SettingsAsAsked`, `ExitAsAsked` |
| `console` | suites with hooks, tests, blocks and reports, with a clock that wraps, is not asked, or fails | `ConsoleTypeOK`, `IntervalsExact`, `TotalCoversSuites`, `LinesFit`, `WordsStartLines`, `RecordedOrder` |
| `compare` | strings, memory, clients' types and doubles | `CompareTypeOK`, `VerdictExact`, `DumpsExact`, `InRangeExact` |

`any`, `documented` and `shuffle` take every flag set of `MCFlags`: none, `-f`,
`-l`, `-a`; which of their tests run is computed by `Names` from the filters
`-t a -x c`.

Properties that do not hold, each quoting what the repository says of the code:

| Run | Says | Happens |
|---|---|---|
| `first_fail` | "Stop runner after first failure" (`itest.c` 653), and a fix for it in `CHANGELOG.md` 88 | a later suite runs its tests: `itest_suite_pre` does not look at failures and `itest_test_pre` only at those of its own suite |
| `abort_flag` | "Abort on first failure" (`itest.c` 654) | with `-a` every `RUN_SUITE` is refused from the start (`itest.c` 515) |
| `late_hooks` | hooks "will be cleared when the suite finishes" (`examples/minimal_template.c` 27-28) | they run for tests that main runs after the suite; the next suite or the report clears them |
| `nested_test` | "Calls to RUN_TEST from inside another test are ignored" (`README-greatest.md` 119) | the call overwrites `name_buf`, and the outer test's line is printed under the inner name |
| `shuffle_passes` | "(count + 1) iterations", each after the first running one call (`README-greatest.md` 348) | the second pass compares positions with the masked seed, which may be no position |
| `early_report` | a client that does not print a report may use `greatest_get_report` (`README-greatest.md` 428, `CHANGELOG.md` 328) | `itest_get_report` (784) and `itest_all_passed` read the totals, to which the last suite and the tests outside suites have not been added yet |

`-f` and `-a` look like one slip: `itest_suite_pre` seems to test the wrong
flag and to have lost a comparison with the failures.

### Bounds, and why they are enough

- `any`: 3 calls, 1 assertion, 2 tests, 1 suite, blocks of 0 to 2 calls.  Three
  calls reach each pair of nested activations with a hook installed, a loop in
  a test in a suite, and a jump over them.  The properties of this run are all
  proved for every bound.
- `documented`: 6 calls and 2 assertions.  Two suites with hooks and a test
  each, a test between or after them, and a second failure, take 6 calls.
  Three tests, one of them filtered out; three suites, one filtered out; one
  suffix.  These properties too are proved for every bound.
- `shuffle`: blocks of 0 to 5 calls, of which 0, 1, 2, 3 and 4 are selected:
  moduli 1, 2 and 4, equal to the count or above it, where the generator must
  draw again.  A filtered call lies in the middle, a call is repeated, a suffix
  is set inside the block.  Seeds 0, 1 and 2^29 - 1: the special case and the
  ends of the masked range.  Three calls outside blocks are enough for tests
  shuffled inside a shuffled suite and for blocks one after the other.  All but
  `Terminates` are proved for every block, seed and bound.
- `options`: command lines of at most three words out of each option, `--help`
  and a word that only begins with it, `--`, a lone dash, an unknown option, two
  letters in one word, an operand and the empty word; three words are an
  option, its argument and what follows, or a row of options each taken for
  the argument of the one before.  One setter is called before or after.
  `NameBufSize` is 5 and the names with their suffixes fit, are cut in the
  suffix, have room for the separator only or for nothing, or are too long
  themselves.  `ByteRange` is 4: `-v -v -v` after a setter wraps.
- `console`: blocks of 1, 4 and 9 tests and of 7 suites, those of
  `examples/shuffle.c` with its seed, so that `RecordedOrder` compares with
  `examples/shuffle.exp`; moduli 1, 4, 8 and 16.  3 calls outside blocks, one
  failure, flags none and `-l`.  `ClockRange` 3 and `MaxTicks` 2: the clock
  wraps inside and between intervals.  `Width` 3: the blocks fill lines exactly
  and spill over.  The clock works, is not asked (`-T`), or returns -1;
  one that works also wraps onto -1, which the runner takes for a failure.
- `compare`: `RowLen` 2 and five bytes of memory, sizes 0 to 5: none, part of a
  row, whole rows, and rows with a shorter last one.  Arrays of three characters
  with and without terminator, limits 0 to 4.  Doubles -2 to 2, both infinities,
  NaN.  Two byte values besides the terminator are enough, since bytes are only
  compared for equality.
- `MaxCalls`, `MaxAssertions` and `MaxTicks` bound the length of a behaviour
  only; no other counter is bounded.

### Fairness

The runner's `Spec` has `WF_vars(Next)` and nothing stronger: there is one
thread and, as long as it can take a step, it takes one.  Clients return, since
the calls they can make are bounded.  Deadlock is checked in every run;
`Terminated` is the stuttering of an ended process.  `Terminates` is checked for
the `shuffle` profile, in which no hook fails.  It is false, of the code too, for
a client whose teardown hook always fails (the jump runs the hook again), which
no property covers, and for a client that
shuffles tests inside a test (they are counted and then always refused as
nested).  The other specifications have no fairness and their runs check safety
only: the loops of `Options` and `Compare` go over a bounded input, and
`Console` adds nothing to the runner that could wait.

## 4. What is proved

Everything below holds for every value of the constants that the named
assumptions of the modules allow.

### The runner

For every client profile, every set of blocks, seeds, filters and flags, and
every bound (`ItestProofs`, `ItestRefinement`):

- `RunnerInvariant`: `Spec => []IInv`, and from it `TypeCorrect` (`TypeOK`) and
  `OneTestCorrect` (`OneTest`);
- `NoStaleJumpCorrect`: `Spec => NoStaleJump`;
- `TallyImplemented`: `Spec => ImplementsTally`.

`OneTest` is not inductive.  It is preserved by `SetupReturn`, which starts a
test without looking at `running_test`, only because no setup hook ever lies
above a running test (`NoSetupInTest`), and by calls to the bottom of the stack
only because that is always `main`'s (`MainAtBottom`).  The refinement needs
that a dry run starts no test and counts no failure (`ListOnlyStartsNone`,
`ListOnlyCountsNone`: the report returns success without looking) and that no
test under `-a` carries a failed verdict into its teardown hook
(`AbortReturnsNoFailure`).  `ModulusSet` says that the generator never reduces
modulo zero, which the types of its state depend on; its odd second case is the
empty block, whose modulus is never set and whose loop ends before drawing.
`IInv` is the conjunction of these, `NextIInv` proves it of each action by the
action's own lemma, and the lemmas on frames (`SameFramesOK`, `PushFramesOK`,
`EnterFramesOK`, `CutFramesOK`, `TeardownFramesOK`) say what each way of
changing the stack does to it.

Assumptions: NULL is no suite, not `main` and no result line; the flags are
among the three modelled; `Calls` pairs callbacks with functions; blocks are
sequences of runs and suffixes; seeds are natural numbers, and so are the bounds
on the client's calls and failures.

### Documented clients

`ItestDocumented` proves `NoStrayJump`, `SuiteReportExact`,
`LineIsAboutItsTest`, `HooksOfThisSuite` and `FirstFailPerSuite` in the form
`DocumentedUse /\ Spec => []X`.  `DocumentedUse` restricts who calls what as the
documentation does: suites and tests are run from `main`, suites and blocks,
hooks are installed by suites and assert without failing, no `RUN_SUITE` stands
in a block of tests, and `main` is no suite.  `MCItest` asserts that the
`documented` and `shuffle` profiles satisfy it, so the theorems are about
clients that are checked too.  The inductive invariant `DInv` says of every
frame what `itest_info` must hold while the frame is there: at a suite's, that
the suite's counts are those printed since it began; at a test's or hook's, that
`name_buf` is its name, that `msg` is its own, and that nothing has failed in
first-fail mode; at any frame of a suite's, that the installed hooks are the
suite's.  These facts survive because tests and hooks push nothing
(`LeafOnTop`), so no later call touches `name_buf`, and because suites do not
nest (`OwnersNest`), so a suite that returns takes no other suite's counts and
hooks with it.

### Shuffled blocks

`ItestShuffle` proves `ShuffleOnce` and `ShuffleComplete` for every block and
seed, in the form `ShuffledUse /\ Spec => ...`.  `ShuffledUse` adds to
`DocumentedUse` that SHUFFLE_SUITES runs suites, SHUFFLE_TESTS runs tests, and
a suffix does not change whether a test passes the filters: a suffix set at the
end of a block reaches its first test on the next pass, which would then not be
the pass that was counted.  `MCItest` asserts that the `shuffle` profile
satisfies it.

`SInv` describes each loop on the stack by its phase (`Counting`, `Doubling`,
`Idle`, `Picking`) and by what is above it (a setup hook, its test or suite, or
nothing).  The heart of `Picking` is `RanBy`: there is a sequence of draws,
each the generator's next value, and the calls run so far are exactly those at
places drawn before the current pass, with the one of the current pass if it has
been passed.  The generator's multiplier is 1 modulo 4 and its increment odd, so
it has full period modulo any power of two (`NumberFacts`, by induction on the
power: the sequence advances by an odd multiple of the old modulus in one old
period).  A place is therefore drawn again only after all have been drawn
(`DrawnAgain`): by then each selected call has run, `count_run` has reached
`count_ceil` and the loop has ended.  So no call runs twice, and when
`count_run` calls have run without repetition, all have.

`DescendsCorrect` (`ShuffledUse /\ Spec => Descends`) says why the process ends:
every step lowers a measure, in an order in which nothing goes down for ever.
The measure lists, each part counting only while those before it are unchanged:
what the client may still do (`Budget`); the work left in the loop over suites
and in the loop over tests inside it (`LoopWork`); and the callbacks to return
from (`Unreturned`).  The work of a loop is its phase (counting, doubling the
modulus, picking), the calls it has not run, the search for the next one, and
the rest of the pass.  The search is where the loop could fail to end.  While
the modulus is doubled it is the distance to the count.  While calls are picked
it is `Hunt`, the number of draws until a value is a position: the generator
visits every value below the modulus, so this is a number and each draw lowers
it (`HuntNearer`).  A draw that is a position ends the search: the call there
has not run, or all have (`DueOrDone`), and a pass with a call to run (`Due`)
counts as no search at all.  The first draw is the masked seed, which may be no
position; the pass over it runs nothing, and leaves the search as it is while it
goes by.  At the end of a pass nothing is due any more (`NothingDue`), and the
search for the next call begins with a call less to run.

### Output and clock

`ConsoleProofs`, for every client, width, clock and bound:

- `ConsoleImplementsRunner` (every step of `Console` is a step of the runner or
  none of its variables change), hence `ConsoleInvariant`;
- `LinesCorrect` (`LinesFit`) and `WordsCorrect` (`WordsStartLines`), from
  `LinesInv`: `cursor` never exceeds `col`, and with `-v` it is always 0;
- `ConsoleTypeCorrect` (`ConsoleTypeOK`): the readings stay in the clock's range
  and `entered` follows the stack.  It needs that a jump which returns finds its
  test on the stack, so that there is a time to measure it from.

In the form `DocumentedUse /\ ConsoleSpec => ...`, and `MCConsole` asserts that
its clients satisfy `DocumentedUse`:

- `IntervalsCorrect` (`IntervalsExact`).  A reading is one variable, but the
  activations it belongs to are on a stack, and an interval is only right if no
  other activation has used or cleared the reading meanwhile.  `TimesInv` says
  whose each reading is (`FrameTimes`): `pre_suite` is the time at which the
  suite on the stack was pushed, `pre_test` that of the test or hook on top, and
  while a teardown hook runs `post_test` is already that of the test's end.  It
  is kept because tests and hooks push nothing (`LeafOnTop`, from `DInv`), there
  is one suite at most (`OneSuite`), and nothing but `main` is on the stack when
  a report clears the readings (`MainAlone`).  `ElapsedIsExact` (the unsigned
  difference of two readings is the time between them modulo the clock's range)
  does the rest.
- `TotalCorrect` (`TotalCoversSuites`), from `TotalInv`: suites follow one
  another, so that together they never took longer than up to the start of the
  one that is running; and `begin` stays the `(clock_t)-1` that `itest_init`
  read before RECORD_TIMING was set, so that the total is the time of the report
  and one tick (`SinceNoTime`).

What a step does to the stack is stated once: `Stays`, `Grows`, `Turns` and
`Pops`, a lemma for each action that says which of them it is, and
`StepFrames` for what they leave in place.

### Options and names

`OptionsProofs`, for all strings, filters, buffer sizes and command lines:

- `NameBufferExact` (`name_buf` holds the longest prefix of the name with its
  suffix that leaves room for the terminator), `OptionsTypeCorrect` (no word
  past the last is read), `SelectionCorrect` (a test that is asked for and not
  excluded is selected; one that is not asked for, or is excluded without `-e`,
  is not), `UnfilteredCorrect`;
- `SettingsCorrect` (`SettingsAsAsked`) and `ExitCorrect` (`ExitAsAsked`).
  Whether a word is an option or the argument of the one before depends on the
  parity of the row of options that ends before it.  The code never looks back:
  it skips an argument when it takes it.  `ParseInv` connects the two: the row
  before the next word to read is even (`Rows` follows it from word to word),
  no word before it ended the parsing, and `info` is what the options before it
  ask for, with the last of each letter (`AskedSoFar`).

### Comparisons and numbers

- `CompareProofs`: `CompareTypeCorrect`; `DumpsCorrect`, from an invariant on
  the rows printed so far (`RowsShow`); `InRangeCorrect`, by cases on the
  infinities; `VerdictCorrect`, whose argument on strings is that the first
  position at which the two differ is the least of those at which they do.
  Assumption: strings compared end or are at least as long as the limit.
- `NumberFacts`: remainders and their differences, least members, induction on
  the naturals and on powers of two, congruences, the period of a congruential
  generator, iteration of a function.  Induction is stated of sets and derived
  from the finiteness of initial segments, since the provers cannot instantiate
  the library's, which takes an operator.

### Only model-checked

`Terminates` is liveness under fairness; `Descends` is the part of it that is
not: that the process cannot go on for ever.  What is left to TLC is that it
does not stop earlier, with a client still running.  `RecordedOrder` is about one seed and the blocks on
record, which are what the run checks.  The properties of the runs that expect
a violation are refuted, and nothing is proved of them.

## 5. What is not modelled, and observations

Left out: the wording and layout of the output, and the conversion of ticks to
seconds; `itest_set_output`; what clients print themselves; changing flags,
filters or verbosity after the first suite; `break` or `return` out of a SHUFFLE
block; `itest-abbrev.h`, which renames macros; the examples, which are clients;
the scripts of `contrib/`, which filter the output in other processes
(`WordsStartLines` is what they need of the runner) or write a template; and the
build.

One disagreement with the documentation has no run of its own.  The usage text has
`-e` "only run exact name match for -s or -t" and `-x` "exclude tests containing
substring EXCLUDE" (`itest.c` 658-659), but `itest_name_match` (269) looks at
`exact_name_match` for `-x` as well: `-e -x a` runs a test called `ba`.
`SelectionAsAsked` therefore says nothing of whether a test that contains what
`-x` names is selected when `-e` is given; the rest, with `-e` or without it, it
does say.

Behaviours seen while modelling that no document of the repository contradicts
plainly enough for a finding:

- a PASS line in verbose mode repeats the message of an earlier failure or skip;
- a refused nested `RUN_TEST` leaves the suffix set;
- a jump out of a shuffled block leaves `random_order` set;
- a suffix set at the end of a shuffled block reaches its first test on the next
  pass only;
- `itest_init` reads the clock before it sets RECORD_TIMING, so `begin` is -1
  and the total is the process's time and one tick;
- a suite run, or a report printed, inside a suite overwrites the readings of
  the outer one: `IntervalsExact` is stated of clients that do neither;
- the synopsis `[-hlfavexT]` suggests that letters may be combined, but only the
  second character of a word is read (`itest.c` 711);
- the length returned for a hexdump leaves out one space per row (`itest.c` 245,
  `itest.h` 88); nothing uses it;
- `itest_assert_in_range` accepts NaN, and equal infinities and equal numbers
  with a negative tolerance (`TODO.md` 86 doubts the first);
- printing the difference of two unterminated arrays, which a limit allows to
  compare, reads past them.

## 6. State of the plan

The modules planned for the runner, its settings, its output and its assertions
are written, and every property that the passing runs check is proved, except
`Terminates` and the recorded order of one seed.  What could follow:

1. `break` and `return` out of SHUFFLE blocks, as calls of the client that cut
   the stack below the loop;
2. `contrib/entapment` over the lines that `Console` prints.
