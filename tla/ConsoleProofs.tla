---------------------------- MODULE ConsoleProofs ----------------------------
(***************************************************************************)
(* Proofs, for every client and every value of the constants, that the     *)
(* runner with its clock and its output is the runner of Itest and breaks  *)
(* its lines where it should; and for every client that keeps to the       *)
(* documented use, that the times it prints are those of the tests, suites *)
(* and runs they are printed for.                                          *)
(***************************************************************************)
EXTENDS ConsoleProperties, ItestDocumented, NumberFacts

LEMMA QuietStep == Quiet => Next
  BY DEF Quiet, Next

LEMMA ListStep == ASSUME NEW test \in Tests, List(test) \/ TimedStart(test) PROVE Next
  BY DEF List, TimedStart, Next

LEMMA JumpStep == TimedJump => Next
<1> SUFFICES ASSUME TimedJump PROVE Next
  OBVIOUS
<1>1. Fail \/ Skip \/ Assert(FALSE)
  BY DEF TimedJump
<1> QED  BY <1>1 DEF Next

LEMMA SuiteStep == ASSUME NEW name \in Suites, TimedSuite(name) PROVE Next
  BY DEF TimedSuite, Next

LEMMA ReturnStep == TimedReturn \/ TimedTeardownReturn \/ TimedSuiteReturn \/ TimedReport => Next
  BY DEF TimedReturn, TimedTeardownReturn, TimedSuiteReturn, TimedReport, Next

LEMMA ConsoleStep == [ConsoleNext]_consoleVars => [Next]_vars
<1> SUFFICES ASSUME [ConsoleNext]_consoleVars PROVE [Next]_vars
  OBVIOUS
<1>1. CASE Quiet \/ TimedJump
  BY <1>1, QuietStep, JumpStep
<1>2. ASSUME NEW test \in Tests, List(test) \/ TimedStart(test) PROVE [Next]_vars
  BY <1>2, ListStep
<1>3. ASSUME NEW name \in Suites, TimedSuite(name) PROVE [Next]_vars
  BY <1>3, SuiteStep
<1>4. CASE TimedReturn \/ TimedTeardownReturn \/ TimedSuiteReturn \/ TimedReport
  BY <1>4, ReturnStep
<1>5. CASE ClientWorks
  BY <1>5 DEF ClientWorks
<1>6. CASE Over \/ UNCHANGED consoleVars
  BY <1>6 DEF Over, Terminated, consoleVars
<1> QED  BY <1>1, <1>2, <1>3, <1>4, <1>5, <1>6 DEF ConsoleNext

(* Reading the clock and printing never make the runner do what it would   *)
(* not do without them.                                                    *)
THEOREM ConsoleImplementsRunner == ConsoleSpec => Init /\ [][Next]_vars
  BY ConsoleStep, PTL DEF ConsoleSpec, ConsoleInit

(* So its invariant holds of every client's console run too.               *)
THEOREM ConsoleInvariant == ConsoleSpec => []IInv
  BY InitIInv, NextIInv, ConsoleImplementsRunner, PTL

(* With -v every line is ended as soon as it is printed; without, col is   *)
(* never behind the output and never reaches the width.                    *)
LinesInv ==
    /\ verbose \in BOOLEAN /\ col \in Nat /\ cursor \in Nat
    /\ words_at = 0
    /\ IF verbose THEN cursor = 0 ELSE cursor <= col /\ col < Width

LEMMA WidthRemainder == Width \in Nat \ {0} /\ Width % Width = 0
  BY WidthAssumption

LEMMA AdvanceKeeps ==
    ASSUME NEW column \in Nat, NEW at \in Nat, column < Width, at <= column + 1,
           Advance(column, at)
    PROVE  col' \in Nat /\ cursor' \in Nat /\ cursor' <= col' /\ col' < Width
<1>1. CASE column + 1 = Width
  BY <1>1, WidthRemainder DEF Advance
<1>2. CASE column + 1 < Width
  BY <1>2, WidthRemainder DEF Advance
<1> QED  BY <1>1, <1>2, WidthRemainder

LEMMA VerdictKeeps ==
    ASSUME LinesInv, NEW at \in {0, cursor}, Verdict(at), verbose' = verbose
    PROVE  LinesInv'
<1>1. CASE line' = line
  BY <1>1 DEF Verdict, LinesInv
<1>2. CASE line' # line /\ verbose
  BY <1>2 DEF Verdict, PrintVerdict, LinesInv
<1>3. CASE line' # line /\ ~verbose /\ line'.verdict = "failed"
  <2>1. Advance(0, 0) /\ words_at' = 0
    BY <1>3 DEF Verdict, PrintVerdict, LinesInv
  <2> QED  BY <1>3, <2>1, AdvanceKeeps, WidthRemainder DEF LinesInv
<1>4. CASE line' # line /\ ~verbose /\ line'.verdict # "failed"
  <2>1. Advance(col, at + 1) /\ words_at' = words_at
    BY <1>4 DEF Verdict, PrintVerdict
  <2>2. at + 1 \in Nat /\ at + 1 <= col + 1
    BY <1>4 DEF LinesInv
  <2> QED  BY <1>4, <2>1, <2>2, AdvanceKeeps DEF LinesInv
<1> QED  BY <1>1, <1>2, <1>3, <1>4 DEF LinesInv

LEMMA NextLines == LinesInv /\ [ConsoleNext]_consoleVars => LinesInv'
<1> SUFFICES ASSUME LinesInv, [ConsoleNext]_consoleVars PROVE LinesInv'
  OBVIOUS
<1>1. CASE Quiet
  BY <1>1 DEF Quiet, Prompt, Unprinted, LinesInv
<1>2. ASSUME NEW test \in Tests, List(test) PROVE LinesInv'
  BY <1>2 DEF List, PrintName, Prompt, Unprinted, LinesInv
<1>3. ASSUME NEW test \in Tests, TimedStart(test) PROVE LinesInv'
  BY <1>3 DEF TimedStart, Warned, Prompt, LinesInv
<1>4. CASE TimedReturn
  <2>1. Verdict(Warned(cursor)) /\ verbose' = verbose /\ Warned(cursor) \in {0, cursor}
    BY <1>4 DEF TimedReturn, Prompt, Warned
  <2> QED  BY <2>1, VerdictKeeps
<1>5. CASE TimedTeardownReturn
  BY <1>5, VerdictKeeps DEF TimedTeardownReturn, Prompt
<1>6. CASE TimedJump
  <2>1. PICK at \in {0, cursor} :
          IF status' = "running"
          THEN Verdict(Warned(at))
          ELSE col' = col /\ cursor' = at /\ words_at' = words_at
    BY <1>6 DEF TimedJump
  <2>2. verbose' = verbose /\ Warned(at) \in {0, cursor}
    BY <1>6 DEF TimedJump, Prompt, Warned
  <2>3. CASE status' = "running"
    BY <2>1, <2>2, <2>3, VerdictKeeps
  <2>4. CASE status' # "running"
    BY <2>1, <2>2, <2>4 DEF LinesInv
  <2> QED  BY <2>3, <2>4
<1>7. ASSUME NEW name \in Suites, TimedSuite(name) PROVE LinesInv'
  BY <1>7, WidthRemainder DEF TimedSuite, PrintHeading, Prompt, LinesInv
<1>8. CASE TimedSuiteReturn
  BY <1>8 DEF TimedSuiteReturn, PrintSuiteReport, Warned, Prompt, LinesInv
<1>9. CASE TimedReport
  BY <1>9, WidthRemainder DEF TimedReport, PrintHeading, Unprinted, Prompt, LinesInv
<1>10. CASE ClientWorks \/ Over \/ UNCHANGED consoleVars
  <2>1. UNCHANGED progressVars
    BY <1>10 DEF ClientWorks, Over, consoleVars
  <2> QED  BY <2>1 DEF progressVars, LinesInv
<1> QED  BY <1>1, <1>2, <1>3, <1>4, <1>5, <1>6, <1>7, <1>8, <1>9, <1>10 DEF ConsoleNext

LEMMA LinesInvariant == ConsoleSpec => []LinesInv
<1>1. ConsoleInit => LinesInv
  BY WidthRemainder DEF ConsoleInit, ProgressInit, LinesInv
<1> QED  BY <1>1, NextLines, PTL DEF ConsoleSpec

(* No line of letters is longer than the width, whatever the client does   *)
(* and whatever the width.                                                 *)
THEOREM LinesCorrect == ConsoleSpec => []LinesFit
<1>1. LinesInv => LinesFit
  BY WidthRemainder DEF LinesInv, LinesFit
<1> QED  BY <1>1, LinesInvariant, PTL

(* Result lines in words begin lines: what precedes them, letters,         *)
(* headings, reports, an assertion's explanations or a warning of the      *)
(* clock, has always ended its line.                                       *)
THEOREM WordsCorrect == ConsoleSpec => []WordsStartLines
<1>1. LinesInv => WordsStartLines
  BY DEF LinesInv, WordsStartLines
<1> QED  BY <1>1, LinesInvariant, PTL

(***************************************************************************)
(* Intervals.                                                              *)
(***************************************************************************)

(* The interval printed between two readings of the clock is the time that *)
(* passed between them modulo the clock's range, wherever it wrapped.      *)
THEOREM ElapsedIsExact ==
    ASSUME NEW start \in Nat, NEW stop \in Nat
    PROVE  Elapsed(start % ClockRange, stop % ClockRange) = (stop - start) % ClockRange
<1>1. start \in Int /\ stop \in Int
  OBVIOUS
<1>2. ((stop % ClockRange) - (start % ClockRange)) % ClockRange = (stop - start) % ClockRange
  BY <1>1, ClockRangeAssumption, DifferenceOfRemainders, Zenon
<1> QED  BY <1>2, Zenon DEF Elapsed

(***************************************************************************)
(* What a step does to the stack, for any client.                          *)
(***************************************************************************)

KindsKept(n) == \A d \in 1 .. n : stack'[d].kind = stack[d].kind

Stays        == Len(stack') = Len(stack) /\ KindsKept(Len(stack))
Grows(kinds) == /\ Len(stack') = Len(stack) + 1 /\ KindsKept(Len(stack))
                /\ stack'[Len(stack) + 1].kind \in kinds
Turns(kind)  == /\ Len(stack') = Len(stack) /\ KindsKept(Len(stack) - 1)
                /\ stack'[Len(stack)].kind = kind
Pops         == /\ Len(stack) - 1 \in 1 .. Len(stack) /\ Len(stack') = Len(stack) - 1
                /\ KindsKept(Len(stack) - 1)

LEMMA StaysLike == ASSUME TypeOK, LikeStack(stack') PROVE Stays
  BY TopFrame DEF LikeStack, Like, Stays, KindsKept

LEMMA StaysSame == ASSUME TypeOK, UNCHANGED stack PROVE Stays
  BY DEF Stays, KindsKept

(* t is like the stack, with f on it, which need not be a frame.           *)
Topped(t, f) ==
    /\ t \in Seq(Frames \union {f}) /\ Len(t) = Len(stack) + 1
    /\ \A d \in 1 .. Len(stack) : t[d].kind = stack[d].kind
    /\ t[Len(stack) + 1] = f

LEMMA AppendTops ==
    ASSUME TypeOK, NEW s, LikeStack(s), NEW f
    PROVE  Topped(Append(s, f), f)
<1> DEFINE S == Frames \union {f}
<1>1. /\ s \in Seq(Frames) /\ Len(s) = Len(stack) /\ Len(stack) \in Nat
      /\ \A d \in 1 .. Len(stack) : s[d].kind = stack[d].kind
  BY TopFrame DEF LikeStack, Like
<1>2. s \in Seq(S) /\ f \in S
  <2>1. \A d \in 1 .. Len(s) : s[d] \in S
    BY <1>1
  <2> QED  BY <1>1, <2>1
<1> HIDE DEF S
<1>3. /\ Append(s, f) \in Seq(S) /\ Len(Append(s, f)) = Len(s) + 1
      /\ \A d \in 1 .. Len(s) : Append(s, f)[d] = s[d]
      /\ Append(s, f)[Len(s) + 1] = f
  BY <1>2, AppendProperties
<1> QED  BY <1>1, <1>3 DEF S, Topped

LEMMA ToppedGrows ==
    ASSUME NEW kinds, NEW f, f.kind \in kinds, Topped(stack', f)
    PROVE  Grows(kinds)
  BY DEF Topped, Grows, KindsKept

LEMMA TestGrows ==
    ASSUME TypeOK, NEW test \in Tests, StartTest(test)
    PROVE  Grows({"setup", "test"})
<1> DEFINE f == [Frame("setup", <<test, name_suffix>>, Top.owner) EXCEPT !.hook = setup]
           g == [f EXCEPT !.kind = "test"]
           s == Append(CallerRan, f)
           n == Len(stack) + 1
<1>1. f.kind = "setup" /\ g.kind = "test"
  BY DEF Frame
<1>2. \/ stack' = s
      \/ stack' = [s EXCEPT ![Len(s)].kind = "test"]
  BY DEF StartTest, EnterTest
<1>3. Topped(s, f)
  BY CallerLike, AppendTops
<1> HIDE DEF f, s
<1>4. Len(stack) \in Nat /\ n \in 1 .. n
  BY TopFrame
<1>5. CASE stack' = s
  BY <1>1, <1>3, <1>5, ToppedGrows
<1>6. CASE stack' = [s EXCEPT ![Len(s)].kind = "test"]
  <2>1. Len(s) = n /\ s[n] = f /\ s \in Seq(Frames \union {f})
        /\ \A d \in 1 .. Len(stack) : s[d].kind = stack[d].kind
    BY <1>3 DEF Topped
  <2>2. stack' = [s EXCEPT ![n] = g]
    BY <1>6, <2>1
  <2> HIDE DEF g
  <2>3. /\ Len(stack') = n /\ stack'[n] = g
        /\ \A d \in 1 .. Len(stack) : stack'[d] = s[d]
    BY <1>4, <2>1, <2>2
  <2> QED  BY <1>1, <2>1, <2>3 DEF Grows, KindsKept
<1> QED  BY <1>2, <1>5, <1>6

LEMMA SuiteGrows ==
    ASSUME TypeOK, NEW name \in Suites, StartSuite(name)
    PROVE  Grows({"suite"})
<1> DEFINE f == [Frame("suite", Top.name, name) EXCEPT !.base = Printed]
<1>1. stack' = Append(CallerRan, f) /\ f.kind = "suite"
  BY DEF StartSuite, Frame
<1>2. Topped(stack', f)
  BY <1>1, CallerLike, AppendTops
<1> HIDE DEF f
<1> QED  BY <1>1, <1>2, ToppedGrows

LEMMA LoopGrows ==
    ASSUME TypeOK, NEW kind \in LoopKinds, ShuffleInit(kind)
    PROVE  Grows(LoopKinds)
<1>1. PICK body \in Blocks[kind] :
        stack' = Append(stack, [Frame(kind, Top.name, Top.owner) EXCEPT !.body = body])
  BY DEF ShuffleInit
<1> DEFINE f == [Frame(kind, Top.name, Top.owner) EXCEPT !.body = body]
<1>2. stack' = Append(stack, f) /\ f.kind = kind
  BY <1>1 DEF Frame
<1>3. Topped(stack', f)
  BY <1>2, StackLike, AppendTops
<1> HIDE DEF f
<1> QED  BY <1>2, <1>3, ToppedGrows

LEMMA PopsTop ==
    ASSUME TypeOK, MainAtBottom, Top.kind # "main",
           NEW frames \in Seq(Frames), Len(frames) = Len(stack),
           \A d \in 1 .. Len(stack) : frames[d] = stack[d],
           stack' = SubSeq(frames, 1, Len(frames) - 1)
    PROVE  Pops
  BY NotAtBottom, PopFrames DEF Pops, KindsKept

LEMMA SetupTurns == ASSUME TypeOK, SetupReturn PROVE Turns("test")
<1> DEFINE n == Len(stack)
           g == [Top EXCEPT !.kind = "test"]
<1>1. stack' = [stack EXCEPT ![n] = g]
  BY DEF SetupReturn, EnterTest, Top
<1>2. g \in Frames /\ g.kind = "test" /\ n \in 1 .. Len(stack) /\ stack \in Seq(Frames)
  BY TopFrame, KindFacts DEF TypeOK, Frames
<1> HIDE DEF g
<1>3. /\ Len(stack') = n
      /\ \A d \in 1 .. n : stack'[d] = IF d = n THEN g ELSE stack[d]
  BY <1>1, <1>2, ExceptSeq
<1> QED  BY <1>2, <1>3 DEF Turns, KindsKept

(* itest_test_post leaves the frames below its own. *)
LEMMA PostTurns ==
    ASSUME TypeOK, MainAtBottom, Top.kind # "main", NEW res \in Verdicts,
           NEW frames \in Seq(Frames), Len(frames) = Len(stack),
           \A d \in 1 .. Len(stack) : frames[d] = stack[d], TestPost(frames, res)
    PROVE  IF teardown # NULL THEN Turns("teardown") /\ line' = line ELSE Pops
<1>1. CASE teardown = NULL
  BY <1>1, PopsTop DEF TestPost, FinishTest
<1>2. CASE teardown # NULL
  <2> DEFINE n == Len(stack)
             g == [Top EXCEPT !.kind = "teardown", !.res = res, !.hook = teardown]
  <2>1. n \in 1 .. n /\ frames[n] = Top
    BY TopFrame DEF Top
  <2>2. stack' = [frames EXCEPT ![n] = g] /\ line' = line
    BY <1>2, <2>1 DEF TestPost
  <2>3. g \in Frames /\ g.kind = "teardown"
    BY TopFrame, KindFacts DEF TypeOK, Frames
  <2> HIDE DEF g
  <2>4. /\ Len(stack') = n
        /\ \A d \in 1 .. n : stack'[d] = IF d = n THEN g ELSE frames[d]
    BY <2>1, <2>2, <2>3, ExceptSeq
  <2>5. \A d \in 1 .. n - 1 : stack'[d] = stack[d]
    BY <2>1, <2>4, TopFrame
  <2>6. stack'[n] = g
    BY <2>1, <2>4
  <2> QED  BY <1>2, <2>2, <2>3, <2>4, <2>5, <2>6 DEF Turns, KindsKept
<1> QED  BY <1>1, <1>2

LEMMA TestReturnTurns ==
    ASSUME TypeOK, MainAtBottom, TestReturn
    PROVE  IF teardown # NULL THEN Turns("teardown") /\ line' = line ELSE Pops
<1>1. stack \in Seq(Frames) /\ Top.kind # "main" /\ TestPost(stack, "passed")
  BY DEF TypeOK, TestReturn
<1> QED  BY <1>1, PostTurns DEF Verdicts

LEMMA TopPops ==
    ASSUME TypeOK, MainAtBottom, TeardownReturn \/ SuiteReturn
    PROVE  Pops
<1>1. stack \in Seq(Frames) /\ Top.kind # "main" /\ stack' = SubSeq(stack, 1, Len(stack) - 1)
  BY DEF TypeOK, TeardownReturn, FinishTest, SuiteReturn
<1> QED  BY <1>1, PopsTop

(* What runs in passing neither starts a suite or a test nor ends one.     *)
LEMMA QuietFrames ==
    ASSUME TypeOK, MainAtBottom, Quiet
    PROVE  \/ Stays \/ Grows(LoopKinds)
           \/ Top.kind = "setup" /\ Turns("test")
           \/ InLoop /\ Pops
<1>1. ASSUME NEW suffix \in Suffixes, SetSuffix(suffix) PROVE Stays
  BY <1>1, CallerLike, StaysLike DEF SetSuffix
<1>2. ASSUME NEW test \in Tests, NestedTest(test) PROVE Stays
  BY <1>2, CallerLike, StaysLike DEF NestedTest
<1>3. ASSUME NEW name \in Suites, RejectSuite(name) PROVE Stays
  BY <1>3, CallerLike, StaysLike DEF RejectSuite
<1>4. CASE SetSetup \/ SetTeardown
  BY <1>4, CallerLike, StaysLike DEF SetSetup, SetTeardown
<1>5. CASE ShuffleNext \/ InitSecondPass \/ DoubleModulus
  <2>1. Top.body \in Seq(Items) /\ Len(Top.body) + 2 \in Nat
    BY TopFrame DEF Frames
  <2>2. LikeStack(stack')
    BY <1>5, <2>1, StackLike, GotoLike DEF ShuffleNext, InitSecondPass, DoubleModulus,
       LikeStack, Like
  <2> QED  BY <2>2, StaysLike
<1>6. CASE ShuffleRunning
  <2>1. stack \in Seq(Frames) /\ Top.kind # "main" /\ InLoop
    BY <1>6 DEF TypeOK, ShuffleRunning, InLoop, LoopKinds
  <2> QED  BY <1>6, <2>1, GotoLike, StaysLike, PopsTop DEF ShuffleRunning
<1>7. CASE Assert(TRUE)
  BY <1>7, StaysSame DEF Assert
<1>8. CASE SetupReturn
  BY <1>8, SetupTurns DEF SetupReturn
<1>9. ASSUME NEW kind \in LoopKinds, ShuffleInit(kind) PROVE Grows(LoopKinds)
  BY <1>9, LoopGrows
<1> QED  BY <1>1, <1>2, <1>3, <1>4, <1>5, <1>6, <1>7, <1>8, <1>9 DEF Quiet

(* A jump that returns cuts the stack at jump_dest or right below it. *)
LEMMA JumpCuts ==
    ASSUME TypeOK, MainAtBottom, Fail \/ Skip \/ Assert(FALSE)
    PROVE  IF status' = "running"
           THEN /\ jump_dest \in 1 .. Len(stack) /\ JumpLive
                /\ \E res \in Verdicts : TestPost(SubSeq(stack, 1, jump_dest), res)
                /\ Len(stack') \in {jump_dest - 1, jump_dest}
           ELSE UNCHANGED stack
<1>1. CASE status' # "running"
  <2>1. UNCHANGED stack \/ status' = status
    BY <1>1 DEF Fail, Skip, Assert, Raise, Jump
  <2>2. status = "running"
    BY DEF Fail, Skip, Assert
  <2> QED  BY <1>1, <2>1, <2>2
<1>2. CASE status' = "running"
  <2>1. \E res \in Verdicts : JumpLive /\ TestPost(SubSeq(stack, 1, jump_dest), res)
    BY <1>2 DEF Fail, Skip, Assert, Raise, Jump, Verdicts
  <2>2. jump_dest \in 1 .. Len(stack)
    BY <2>1, TopFrame DEF JumpLive
  <2> DEFINE frames == SubSeq(stack, 1, jump_dest)
  <2>3. frames \in Seq(Frames) /\ Len(frames) = jump_dest /\ jump_dest \in Nat
    BY <2>2, TopFrame, CutFrames DEF CutTo
  <2> HIDE DEF frames
  <2>4. PICK res \in Verdicts : TestPost(frames, res)
    BY <2>1 DEF frames
  <2>5. stack' = SubSeq(frames, 1, Len(frames) - 1) \/ \E g : stack' = [frames EXCEPT ![Len(frames)] = g]
    BY <2>4 DEF TestPost, FinishTest
  <2>6. Len(SubSeq(frames, 1, Len(frames) - 1)) = jump_dest - 1
    BY <2>2, <2>3
  <2>7. \A g : Len([frames EXCEPT ![Len(frames)] = g]) = jump_dest
    BY <2>3
  <2> QED  BY <1>2, <2>1, <2>2, <2>5, <2>6, <2>7
<1> QED  BY <1>1, <1>2

(* One frame more at most. *)
LEMMA StackLength ==
    ASSUME IInv, IInv', [ConsoleNext]_consoleVars
    PROVE  Len(stack') \in Nat /\ Len(stack') <= Len(stack) + 1
<1>1. /\ TypeOK /\ MainAtBottom /\ Len(stack) \in Nat /\ Len(stack') \in Nat
  <2>1. TypeOK /\ TypeOK' /\ MainAtBottom
    BY DEF IInv, FramesOK
  <2>2. stack \in Seq(Frames) /\ stack' \in Seq(Frames)
    BY <2>1 DEF TypeOK
  <2> QED  BY <2>1, <2>2
<1>2. ASSUME \/ Stays \/ Pops \/ \E kinds : Grows(kinds) \/ \E kind : Turns(kind)
      PROVE  Len(stack') <= Len(stack) + 1
  BY <1>1, <1>2 DEF Stays, Pops, Grows, Turns
<1>3. CASE Quiet
  BY <1>1, <1>2, <1>3, QuietFrames
<1>4. ASSUME NEW test \in Tests, List(test) PROVE Len(stack') <= Len(stack) + 1
  BY <1>1, <1>2, <1>4, CallerLike, StaysLike DEF List, RejectTest
<1>5. ASSUME NEW test \in Tests, TimedStart(test) PROVE Len(stack') <= Len(stack) + 1
  BY <1>1, <1>2, <1>5, TestGrows DEF TimedStart
<1>6. CASE TimedReturn
  BY <1>1, <1>2, <1>6, TestReturnTurns DEF TimedReturn
<1>7. CASE TimedTeardownReturn \/ TimedSuiteReturn
  BY <1>1, <1>2, <1>7, TopPops DEF TimedTeardownReturn, TimedSuiteReturn
<1>8. CASE TimedJump
  <2>1. Fail \/ Skip \/ Assert(FALSE)
    BY <1>8 DEF TimedJump
  <2>2. \/ UNCHANGED stack
        \/ jump_dest \in 1 .. Len(stack) /\ Len(stack') \in {jump_dest - 1, jump_dest}
    BY <1>1, <2>1, JumpCuts
  <2> QED  BY <1>1, <2>2
<1>9. ASSUME NEW name \in Suites, TimedSuite(name) PROVE Len(stack') <= Len(stack) + 1
  BY <1>1, <1>2, <1>9, SuiteGrows DEF TimedSuite
<1>10. CASE TimedReport
  <2>1. UNCHANGED stack \/ stack' = Caller
    BY <1>10 DEF TimedReport, PrintReport, MainReturn
  <2> QED  BY <1>1, <1>2, <2>1, CallerLike, StaysLike, StaysSame
<1>11. CASE ClientWorks \/ Over \/ UNCHANGED consoleVars
  BY <1>1, <1>11 DEF ClientWorks, Over, consoleVars, vars
<1> QED  BY <1>1, <1>3, <1>4, <1>5, <1>6, <1>7, <1>8, <1>9, <1>10, <1>11 DEF ConsoleNext

(***************************************************************************)
(* Types.                                                                  *)
(***************************************************************************)

EnteredOK == entered \in Seq(0 .. now) /\ Len(entered) = Len(stack)

(* A frame that stays was pushed when it was, and a new one is pushed now. *)
LEMMA FramesTracked ==
    ASSUME TypeOK, EnteredOK, now \in Nat, now' = now, TrackFrames,
           Len(stack') \in Nat, Len(stack') <= Len(stack) + 1
    PROVE  /\ EnteredOK'
           /\ \A d \in 1 .. Len(stack) : d <= Len(stack') => entered'[d] = entered[d]
           /\ Len(stack') > Len(stack) => entered'[Len(stack) + 1] = now
<1>1. /\ Len(stack) \in Nat /\ entered \in Seq(0 .. now) /\ Len(entered) = Len(stack)
      /\ now \in 0 .. now
  BY TopFrame DEF EnteredOK
<1>2. CASE Len(stack') > Len(stack)
  <2>1. entered' = Append(entered, now) /\ Len(stack') = Len(stack) + 1
    BY <1>1, <1>2 DEF TrackFrames
  <2>2. /\ Append(entered, now) \in Seq(0 .. now)
        /\ Len(Append(entered, now)) = Len(entered) + 1
        /\ \A d \in 1 .. Len(entered) : Append(entered, now)[d] = entered[d]
        /\ Append(entered, now)[Len(entered) + 1] = now
    BY <1>1, AppendProperties
  <2>3. entered' \in Seq(0 .. now') /\ Len(entered') = Len(stack')
    BY <1>1, <2>1, <2>2
  <2>4. /\ \A d \in 1 .. Len(stack) : entered'[d] = entered[d]
        /\ entered'[Len(stack) + 1] = now
    BY <1>1, <2>1, <2>2
  <2> QED  BY <2>3, <2>4 DEF EnteredOK
<1>3. CASE ~(Len(stack') > Len(stack))
  <2> DEFINE n == Len(stack')
             s == SubSeq(entered, 1, n)
  <2>1. entered' = s /\ n \in 0 .. Len(entered)
    BY <1>1, <1>3 DEF TrackFrames
  <2>2. s \in Seq(0 .. now) /\ Len(s) = n /\ \A d \in 1 .. n : s[d] = entered[d]
    BY <1>1, <2>1
  <2> QED  BY <1>1, <1>3, <2>1, <2>2 DEF EnteredOK
<1> QED  BY <1>2, <1>3

LEMMA ElapsedType ==
    ASSUME NEW start \in Instants, NEW stop \in Instants
    PROVE  Elapsed(start, stop) \in Instants
<1>1. stop - start \in Int
  BY ClockRangeAssumption DEF Instants
<1>2. (stop - start) % ClockRange \in Instants
  BY <1>1, ClockRangeAssumption, Remainder DEF Instants
<1> QED  BY <1>2 DEF Elapsed

LEMMA ClockType ==
    ASSUME now \in Nat
    PROVE  \A record_timing : GetCpuTime(record_timing) \in Instants
<1>1. now % ClockRange \in Instants
  BY ClockRangeAssumption, Remainder DEF Instants
<1>2. NoTime \in Instants
  BY ClockRangeAssumption DEF NoTime, Instants
<1> QED  BY <1>1, <1>2 DEF GetCpuTime, Clock

LEMMA ReadType ==
    ASSUME TimersTypeOK, NEW reading \in Readings, Read(reading)
    PROVE  /\ times' \in [Readings -> Instants]
           /\ times'[reading] = GetCpuTime(recording)
           /\ \A r \in Readings : r # reading => times'[r] = times[r]
<1>1. GetCpuTime(recording) \in Instants
  BY ClockType, MaxTicksAssumption DEF TimersTypeOK
<1> QED  BY <1>1 DEF Read, TimersTypeOK

LEMMA IntervalType ==
    ASSUME TimersTypeOK, NEW of \in {"test", "suite", "total"},
           NEW start \in Instants, NEW stop \in Instants, ReportInterval(of, start, stop)
    PROVE  interval' \in Intervals
<1>1. Elapsed(start, stop) \in Instants
  BY ElapsedType
<1> QED  BY <1>1 DEF ReportInterval, TimersTypeOK, Intervals

(* The memset, with one reading taken after it. *)
LEMMA ClearedType ==
    ASSUME TimersTypeOK, NEW reading \in Readings,
           times' = [Cleared(times) EXCEPT ![reading] = GetCpuTime(recording)]
    PROVE  /\ times' \in [Readings -> Instants]
           /\ times'[reading] = GetCpuTime(recording)
           /\ \A r \in Readings \ SuiteReadings : r # reading => times'[r] = times[r]
<1>1. GetCpuTime(recording) \in Instants /\ 0 \in Instants
  BY ClockType, MaxTicksAssumption, ClockRangeAssumption DEF TimersTypeOK, Instants
<1>2. Cleared(times) \in [Readings -> Instants]
  BY <1>1 DEF Cleared, TimersTypeOK
<1>3. \A r \in Readings \ SuiteReadings : Cleared(times)[r] = times[r]
  BY DEF Cleared
<1> QED  BY <1>1, <1>2, <1>3

(* What is left to show of a step that takes no time. *)
LEMMA PromptType ==
    ASSUME IInv', LinesInv', ConsoleTypeOK, Prompt, EnteredOK',
           times' \in [Readings -> Instants], interval' \in Intervals,
           lasted' \in 0 .. now, took' \in 0 .. now, suites_took' \in Nat
    PROVE  ConsoleTypeOK'
<1>1. TypeOK' /\ ProgressTypeOK'
  BY DEF IInv, LinesInv, ProgressTypeOK
<1>2. TimersTypeOK'
  BY DEF ConsoleTypeOK, TimersTypeOK, Prompt
<1>3. lasted' \in 0 .. now' /\ took' \in 0 .. now'
  BY DEF Prompt
<1> QED  BY <1>1, <1>2, <1>3 DEF ConsoleTypeOK, EnteredOK

(* The verdict, with the time the test took. *)
LEMMA VerdictType ==
    ASSUME ConsoleTypeOK, times' \in [Readings -> Instants], lasted' \in 0 .. now,
           NEW at, Verdict(at)
    PROVE  interval' \in Intervals /\ took' \in 0 .. now
<1>1. TimersTypeOK /\ interval \in Intervals /\ took \in 0 .. now
  BY DEF ConsoleTypeOK, TimersTypeOK
<1>2. times'["pre_test"] \in Instants /\ times'["post_test"] \in Instants
  BY DEF Readings
<1>3. interval' = interval \/ ReportInterval("test", times'["pre_test"], times'["post_test"])
  BY DEF Verdict
<1>4. took' \in {took, lasted'}
  BY DEF Verdict
<1> QED  BY <1>1, <1>2, <1>3, <1>4, IntervalType

LEMMA NextConsoleType ==
    IInv /\ IInv' /\ LinesInv' /\ ConsoleTypeOK /\ [ConsoleNext]_consoleVars => ConsoleTypeOK'
<1> SUFFICES ASSUME IInv, IInv', LinesInv', ConsoleTypeOK, [ConsoleNext]_consoleVars
             PROVE  ConsoleTypeOK'
  OBVIOUS
<1>1. /\ TypeOK /\ TimersTypeOK /\ EnteredOK /\ now \in Nat
      /\ times \in [Readings -> Instants] /\ interval \in Intervals
      /\ lasted \in 0 .. now /\ took \in 0 .. now /\ suites_took \in Nat
  BY MaxTicksAssumption DEF ConsoleTypeOK, EnteredOK, TimersTypeOK
<1>2. Len(stack') \in Nat /\ Len(stack') <= Len(stack) + 1
  BY StackLength
<1>3. ASSUME Prompt, TrackFrames PROVE EnteredOK'
  BY <1>1, <1>2, <1>3, FramesTracked DEF Prompt
<1>4. \A d \in 1 .. Len(stack) : Since(d) \in 0 .. now
  BY <1>1 DEF EnteredOK, Since
<1>5. Len(stack) \in 1 .. Len(stack)
  BY <1>1, TopFrame
<1>6. CASE Quiet
  BY <1>1, <1>3, <1>6, PromptType DEF Quiet, Unread
<1>7. ASSUME NEW test \in Tests, List(test) PROVE ConsoleTypeOK'
  BY <1>1, <1>3, <1>7, PromptType DEF List, Unread
<1>8. ASSUME NEW test \in Tests, TimedStart(test) PROVE ConsoleTypeOK'
  <2>1. times' \in [Readings -> Instants]
    BY <1>1, <1>8, ReadType DEF TimedStart, Readings
  <2> QED  BY <1>1, <1>3, <1>8, <2>1, PromptType DEF TimedStart
<1>9. CASE TimedReturn
  <2>1. times' \in [Readings -> Instants]
    BY <1>1, <1>9, ReadType DEF TimedReturn, Readings
  <2>2. lasted' \in 0 .. now
    BY <1>4, <1>5, <1>9 DEF TimedReturn
  <2>3. interval' \in Intervals /\ took' \in 0 .. now
    BY <1>9, <2>1, <2>2, VerdictType DEF TimedReturn
  <2> QED  BY <1>1, <1>3, <1>9, <2>1, <2>2, <2>3, PromptType DEF TimedReturn
<1>10. CASE TimedTeardownReturn
  <2>1. interval' \in Intervals /\ took' \in 0 .. now
    BY <1>1, <1>10, VerdictType DEF TimedTeardownReturn
  <2> QED  BY <1>1, <1>3, <1>10, <2>1, PromptType DEF TimedTeardownReturn
<1>11. CASE TimedJump
  <2>1. \/ /\ Read("post_test") /\ lasted' = Since(jump_dest) /\ status' = "running"
           /\ \E at \in {0, cursor} : Verdict(Warned(at))
        \/ Unread
    BY <1>11 DEF TimedJump
  <2>2. CASE Unread
    BY <1>1, <1>3, <1>11, <2>2, PromptType DEF TimedJump, Unread
  <2>3. CASE ~Unread
    <3>1. Fail \/ Skip \/ Assert(FALSE)
      BY <1>11 DEF TimedJump
    <3>2. jump_dest \in 1 .. Len(stack)
      BY <1>1, <2>1, <2>3, <3>1, JumpCuts DEF IInv, FramesOK
    <3>3. times' \in [Readings -> Instants] /\ lasted' \in 0 .. now
      BY <1>1, <1>4, <2>1, <2>3, <3>2, ReadType DEF Readings
    <3>4. interval' \in Intervals /\ took' \in 0 .. now
      BY <2>1, <2>3, <3>3, VerdictType
    <3> QED  BY <1>1, <1>3, <1>11, <3>3, <3>4, PromptType DEF TimedJump
  <2> QED  BY <2>2, <2>3
<1>12. ASSUME NEW name \in Suites, TimedSuite(name) PROVE ConsoleTypeOK'
  <2>1. times' \in [Readings -> Instants]
    BY <1>1, <1>12, ClearedType DEF TimedSuite, ReadSuiteStart, Readings
  <2> QED  BY <1>1, <1>3, <1>12, <2>1, PromptType DEF TimedSuite
<1>13. CASE TimedSuiteReturn
  <2>1. times' \in [Readings -> Instants]
    BY <1>1, <1>13, ReadType DEF TimedSuiteReturn, ReportSuite, Readings
  <2>2. times["pre_suite"] \in Instants /\ times'["post_suite"] \in Instants
    BY <1>1, <2>1 DEF Readings
  <2>3. interval' \in Intervals
    BY <1>1, <1>13, <2>2, IntervalType DEF TimedSuiteReturn, ReportSuite
  <2>4. took' \in 0 .. now /\ suites_took' \in Nat
    BY <1>1, <1>4, <1>5, <1>13 DEF TimedSuiteReturn
  <2> QED  BY <1>1, <1>3, <1>13, <2>1, <2>3, <2>4, PromptType DEF TimedSuiteReturn
<1>14. CASE TimedReport
  <2>1. CASE Unread
    BY <1>1, <1>3, <1>14, <2>1, PromptType DEF TimedReport, Unread
  <2>2. CASE ReportTotal /\ UNCHANGED <<lasted, took, suites_took>>
    <3>1. times' \in [Readings -> Instants]
      BY <1>1, <2>2, ClearedType DEF ReportTotal, Readings
    <3>2. times["begin"] \in Instants /\ times'["end"] \in Instants
      BY <1>1, <3>1 DEF Readings
    <3>3. interval' \in Intervals
      BY <1>1, <2>2, <3>2, IntervalType DEF ReportTotal
    <3> QED  BY <1>1, <1>3, <1>14, <2>2, <3>1, <3>3, PromptType DEF TimedReport
  <2> QED  BY <1>14, <2>1, <2>2 DEF TimedReport
<1>15. CASE ClientWorks
  <2>1. /\ now' = now + 1 /\ now' \in 0 .. MaxTicks
        /\ UNCHANGED <<recording, clock_works, times, interval, vars, progressVars, historyVars>>
    BY <1>1, <1>15, MaxTicksAssumption DEF ClientWorks, PassTime, TimersTypeOK
  <2>2. TypeOK' /\ ProgressTypeOK' /\ TimersTypeOK'
    BY <1>1, <2>1 DEF IInv, LinesInv, ProgressTypeOK, TimersTypeOK
  <2>3. entered' \in Seq(0 .. now') /\ Len(entered') = Len(stack')
    <3>1. \A d \in 1 .. Len(entered) : entered[d] \in 0 .. now + 1
      BY <1>1 DEF EnteredOK
    <3>2. entered \in Seq(0 .. now + 1)
      BY <1>1, <3>1 DEF EnteredOK
    <3> QED  BY <1>1, <2>1, <3>2 DEF historyVars, vars, EnteredOK
  <2> QED  BY <1>1, <2>1, <2>2, <2>3 DEF ConsoleTypeOK, historyVars
<1>16. CASE Over \/ UNCHANGED consoleVars
  <2>1. UNCHANGED consoleVars
    BY <1>16 DEF Over
  <2>2. TypeOK' /\ ProgressTypeOK' /\ TimersTypeOK'
    BY <1>1, <2>1 DEF IInv, LinesInv, ProgressTypeOK, TimersTypeOK, consoleVars, timerVars
  <2> QED  BY <1>1, <2>1, <2>2 DEF ConsoleTypeOK, EnteredOK, consoleVars, timerVars, historyVars, vars
<1> QED  BY <1>6, <1>7, <1>8, <1>9, <1>10, <1>11, <1>12, <1>13, <1>14, <1>15, <1>16 DEF ConsoleNext

(* The clock, its readings, the lines and the frames keep to their types:  *)
(* no frame was pushed in the future, and a jump never asks for the time   *)
(* of a test that is not there, for any client.                            *)
THEOREM ConsoleTypeCorrect == ConsoleSpec => []ConsoleTypeOK
<1>1. ConsoleInit => ConsoleTypeOK
  <2> SUFFICES ASSUME ConsoleInit PROVE ConsoleTypeOK
    OBVIOUS
  <2>1. TypeOK
    BY InitIInv DEF ConsoleInit, IInv
  <2>2. now = 0 /\ now \in 0 .. MaxTicks /\ 0 \in Instants
    BY MaxTicksAssumption, ClockRangeAssumption DEF ConsoleInit, TimersInit, Instants
  <2>3. TimersTypeOK
    <3>1. \A clock \in Clocks : clock = <<clock[1], clock[2]>>
      BY ClocksAssumption
    <3>2. <<recording, clock_works>> \in Clocks
      BY <3>1 DEF ConsoleInit, TimersInit
    <3>3. GetCpuTime(FALSE) \in Instants
      BY <2>2, ClockType
    <3>4. times \in [Readings -> Instants] /\ interval \in Intervals
      BY <2>2, <3>3 DEF ConsoleInit, TimersInit, Intervals
    <3> QED  BY <2>2, <3>2, <3>4 DEF TimersTypeOK
  <2>4. ProgressTypeOK
    BY DEF ConsoleInit, ProgressInit, ProgressTypeOK
  <2>5. entered \in Seq(0 .. now) /\ Len(entered) = Len(stack)
    BY <2>2 DEF ConsoleInit, Init
  <2> QED  BY <2>1, <2>2, <2>3, <2>4, <2>5 DEF ConsoleInit, ConsoleTypeOK
<1> QED  BY <1>1, NextConsoleType, ConsoleInvariant, LinesInvariant, PTL DEF ConsoleSpec

(***************************************************************************)
(* The intervals printed for tests and suites, of a client that keeps to   *)
(* the documented use.                                                     *)
(***************************************************************************)

(* The readings that belong to the frames: a suite's and a test's start,   *)
(* and the test's end while its teardown hook runs.                        *)
FrameTimes(d) ==
    /\ stack[d].kind = "suite" => times["pre_suite"] = entered[d] % ClockRange
    /\ stack[d].kind \in Leaves => times["pre_test"] = entered[d] % ClockRange
    /\ stack[d].kind = "teardown" =>
         Elapsed(times["pre_test"], times["post_test"]) = lasted % ClockRange
StartsKept   == clock_works /\ recording => \A d \in DOMAIN stack : FrameTimes(d)
OneSuite     == \A d, e \in DOMAIN stack :
                  stack[d].kind = "suite" /\ stack[e].kind = "suite" => d = e
NoneUnlessOn == recording \/ interval.of = "none"

TimesInv == OneSuite /\ StartsKept /\ NoneUnlessOn /\ IntervalsExact

(* A frame that a step leaves where and what it was. *)
Kept(d) == d \in DOMAIN stack /\ stack'[d].kind = stack[d].kind /\ entered'[d] = entered[d]

LEMMA StepFrames ==
    ASSUME IInv, IInv', EnteredOK, now \in Nat, now' = now, TrackFrames
    PROVE  /\ Stays => \A d \in DOMAIN stack' : Kept(d)
           /\ Pops => \A d \in DOMAIN stack' : Kept(d) /\ d # Len(stack)
           /\ \A kinds : Grows(kinds) =>
                \A d \in DOMAIN stack' :
                  \/ Kept(d)
                  \/ stack'[d].kind \in kinds /\ entered'[d] = now
           /\ \A kind : Turns(kind) =>
                \A d \in DOMAIN stack' :
                  \/ Kept(d) /\ d # Len(stack)
                  \/ d = Len(stack) /\ stack'[d].kind = kind /\ entered'[d] = entered[d]
<1>1. TypeOK /\ Len(stack) \in Nat \ {0} /\ DOMAIN stack = 1 .. Len(stack)
  BY TopFrame DEF IInv
<1>2. Len(stack') \in Nat /\ DOMAIN stack' = 1 .. Len(stack')
  BY DEF IInv, TypeOK
<1>3. ASSUME Len(stack') <= Len(stack) + 1
      PROVE  /\ \A d \in 1 .. Len(stack) : d <= Len(stack') => entered'[d] = entered[d]
             /\ Len(stack') > Len(stack) => entered'[Len(stack) + 1] = now
  BY <1>1, <1>2, <1>3, FramesTracked
<1>4. ASSUME Stays PROVE \A d \in DOMAIN stack' : Kept(d)
  BY <1>1, <1>2, <1>3, <1>4 DEF Stays, KindsKept, Kept
<1>5. ASSUME Pops PROVE \A d \in DOMAIN stack' : Kept(d) /\ d # Len(stack)
  BY <1>1, <1>2, <1>3, <1>5 DEF Pops, KindsKept, Kept
<1>6. ASSUME NEW kinds, Grows(kinds), NEW d \in DOMAIN stack'
      PROVE  \/ Kept(d)
             \/ stack'[d].kind \in kinds /\ entered'[d] = now
  <2>1. d \in 1 .. Len(stack) \/ d = Len(stack) + 1
    BY <1>1, <1>2, <1>6 DEF Grows
  <2> QED  BY <1>1, <1>3, <1>6, <2>1 DEF Grows, KindsKept, Kept
<1>7. ASSUME NEW kind, Turns(kind), NEW d \in DOMAIN stack'
      PROVE  \/ Kept(d) /\ d # Len(stack)
             \/ d = Len(stack) /\ stack'[d].kind = kind /\ entered'[d] = entered[d]
  <2>1. d \in 1 .. Len(stack) - 1 \/ d = Len(stack)
    BY <1>1, <1>2, <1>7 DEF Turns
  <2> QED  BY <1>1, <1>3, <1>7, <2>1 DEF Turns, KindsKept, Kept
<1> QED  BY <1>4, <1>5, <1>6, <1>7

(* No step but a suite's start puts a second suite on the stack.           *)
LEMMA SuitesKept ==
    ASSUME OneSuite, \A d \in DOMAIN stack' : stack'[d].kind = "suite" => Kept(d)
    PROVE  OneSuite'
  BY DEF OneSuite, Kept

(* Between the readings of the clock. *)
LEMMA UnreadKeeps ==
    ASSUME TimesInv, UNCHANGED <<times, lasted, recording, clock_works>>,
           \A d \in DOMAIN stack' :
             \/ Kept(d)
             \/ stack'[d].kind \in LoopKinds
             \/ /\ d \in DOMAIN stack /\ stack[d].kind = "setup"
                /\ stack'[d].kind = "test" /\ entered'[d] = entered[d],
           NoneUnlessOn', IntervalsExact'
    PROVE  TimesInv'
<1>1. \A k \in LoopKinds : k # "suite" /\ k \notin Leaves
  BY DEF LoopKinds, Leaves
<1>2. OneSuite'
  BY <1>1, SuitesKept DEF TimesInv
<1>3. ASSUME clock_works, recording, NEW d \in DOMAIN stack' PROVE FrameTimes(d)'
  <2>1. d \in DOMAIN stack => FrameTimes(d)
    BY <1>3 DEF TimesInv, StartsKept
  <2> QED  BY <1>1, <1>3, <2>1 DEF FrameTimes, Kept, Leaves
<1> QED  BY <1>2, <1>3 DEF TimesInv, StartsKept

(* The verdict, with the time that the readings tell. *)
LEMMA VerdictExact ==
    ASSUME NoneUnlessOn, IntervalsExact, UNCHANGED <<recording, clock_works>>,
           clock_works /\ recording =>
             Elapsed(times'["pre_test"], times'["post_test"]) = lasted' % ClockRange,
           NEW at, Verdict(at)
    PROVE  NoneUnlessOn' /\ IntervalsExact'
<1>1. CASE UNCHANGED <<interval, took>>
  BY <1>1 DEF NoneUnlessOn, IntervalsExact
<1>2. CASE /\ ReportInterval("test", times'["pre_test"], times'["post_test"])
           /\ took' = IF recording THEN lasted' ELSE took
  <2>1. CASE recording
    BY <1>2, <2>1 DEF ReportInterval, NoneUnlessOn, IntervalsExact
  <2>2. CASE ~recording
    BY <1>2, <2>2 DEF ReportInterval, NoneUnlessOn, IntervalsExact
  <2> QED  BY <2>1, <2>2
<1> QED  BY <1>1, <1>2 DEF Verdict

(* What the clock tells of a frame: when it was pushed and how long ago.   *)
LEMMA ClockTells ==
    ASSUME ConsoleTypeOK, clock_works, recording
    PROVE  /\ GetCpuTime(recording) = now % ClockRange
           /\ \A d \in DOMAIN stack :
                Elapsed(entered[d] % ClockRange, now % ClockRange) = Since(d) % ClockRange
<1>1. now \in Nat
  BY MaxTicksAssumption DEF ConsoleTypeOK, TimersTypeOK
<1>2. \A d \in DOMAIN stack : entered[d] \in Nat
  BY <1>1 DEF ConsoleTypeOK, TypeOK
<1> QED  BY <1>1, <1>2, ElapsedIsExact DEF GetCpuTime, Clock, Since

(* A test that ends: its frame turns into its teardown, or is popped.      *)
LEMMA EndKeeps ==
    ASSUME ConsoleTypeOK, LeafOnTop, TimesInv, Read("post_test"), Prompt,
           Top.kind = "test", lasted' = Since(Len(stack)), NEW at, Verdict(at),
           \A d \in DOMAIN stack' :
             \/ Kept(d) /\ d # Len(stack)
             \/ d = Len(stack) /\ stack'[d].kind = "teardown" /\ entered'[d] = entered[d]
    PROVE  TimesInv'
<1>1. /\ Len(stack) \in DOMAIN stack /\ stack[Len(stack)].kind = "test"
      /\ \A d \in DOMAIN stack : d # Len(stack) => stack[d].kind \notin Leaves
  BY TopFrame DEF ConsoleTypeOK, LeafOnTop, Top
<1>2. /\ times'["pre_test"] = times["pre_test"] /\ times'["pre_suite"] = times["pre_suite"]
      /\ times'["post_test"] = GetCpuTime(recording)
  BY ReadType DEF ConsoleTypeOK, Readings
<1>3. clock_works /\ recording =>
        /\ times'["pre_test"] = entered[Len(stack)] % ClockRange
        /\ Elapsed(times'["pre_test"], times'["post_test"]) = lasted' % ClockRange
  BY <1>1, <1>2, ClockTells DEF TimesInv, StartsKept, FrameTimes, Leaves
<1>4. UNCHANGED <<recording, clock_works>> /\ NoneUnlessOn /\ IntervalsExact /\ OneSuite
  BY DEF Prompt, TimesInv
<1>5. NoneUnlessOn' /\ IntervalsExact'
  BY <1>3, <1>4, VerdictExact
<1>6. OneSuite'
  BY <1>4, SuitesKept
<1>7. ASSUME clock_works, recording, NEW d \in DOMAIN stack' PROVE FrameTimes(d)'
  <2>1. CASE Kept(d) /\ d # Len(stack)
    <3>1. FrameTimes(d) /\ stack[d].kind \notin Leaves
      BY <1>1, <1>7, <2>1 DEF TimesInv, StartsKept, Kept
    <3> QED  BY <1>2, <2>1, <3>1 DEF FrameTimes, Kept, Leaves
  <2>2. CASE d = Len(stack) /\ stack'[d].kind = "teardown" /\ entered'[d] = entered[d]
    BY <1>3, <1>7, <2>2 DEF FrameTimes, Leaves, Elapsed
  <2> QED  BY <2>1, <2>2
<1> QED  BY <1>4, <1>5, <1>6, <1>7 DEF TimesInv, StartsKept

LEMMA StartKeeps ==
    ASSUME ConsoleTypeOK, TimesInv, DInv, NEW test \in Tests, TimedStart(test),
           \A d \in DOMAIN stack' :
             \/ Kept(d)
             \/ stack'[d].kind \in {"setup", "test"} /\ entered'[d] = now
    PROVE  TimesInv'
<1>1. TypeOK /\ TimersTypeOK /\ Read("pre_test") /\ UNCHANGED <<now, recording, clock_works>>
      /\ UNCHANGED <<interval, took>> /\ Invoked("RUN_TEST", test)
  BY DEF ConsoleTypeOK, TimedStart, Prompt, StartTest
<1>2. \A d \in DOMAIN stack : stack[d].kind \notin Leaves
  <2>1. Top.kind \notin Leaves
    BY <1>1, CallerIsNoLeaf
  <2> QED  BY <2>1 DEF DInv, LeafOnTop, Top
<1>3. /\ times'["pre_suite"] = times["pre_suite"]
      /\ times'["pre_test"] = GetCpuTime(recording)
  BY <1>1, ReadType DEF Readings
<1>4. NoneUnlessOn' /\ IntervalsExact'
  BY <1>1 DEF TimesInv, NoneUnlessOn, IntervalsExact
<1>5. OneSuite'
  <2>1. \A d \in DOMAIN stack' : stack'[d].kind = "suite" => Kept(d)
    OBVIOUS
  <2> QED  BY <2>1, SuitesKept DEF TimesInv
<1>6. ASSUME clock_works, recording, NEW d \in DOMAIN stack' PROVE FrameTimes(d)'
  <2>1. CASE Kept(d)
    <3>1. FrameTimes(d) /\ stack[d].kind \notin Leaves
      BY <1>2, <1>6, <2>1 DEF TimesInv, StartsKept, Kept
    <3> QED  BY <1>3, <2>1, <3>1 DEF FrameTimes, Kept, Leaves
  <2>2. CASE stack'[d].kind \in {"setup", "test"} /\ entered'[d] = now
    BY <1>3, <1>6, <2>2, ClockTells DEF FrameTimes
  <2> QED  BY <2>1, <2>2
<1> QED  BY <1>1, <1>4, <1>5, <1>6 DEF TimesInv, StartsKept

(* The memset at the start of a suite takes no reading that is needed.     *)
LEMMA SuiteKeeps ==
    ASSUME ConsoleTypeOK, TimesInv, DInv, NEW name \in Suites, TimedSuite(name),
           Grows({"suite"}),
           \A d \in DOMAIN stack' :
             \/ Kept(d)
             \/ stack'[d].kind = "suite" /\ entered'[d] = now
    PROVE  TimesInv'
<1>1. TypeOK /\ TimersTypeOK /\ ReadSuiteStart /\ UNCHANGED <<now, recording, clock_works>>
      /\ UNCHANGED <<interval, took>> /\ Invoked("RUN_SUITE", name)
  BY DEF ConsoleTypeOK, TimedSuite, Prompt, StartSuite
<1>2. \A d \in DOMAIN stack : stack[d].kind \notin Leaves \union {"suite"}
  <2>1. Top.kind \notin Leaves /\ Top.owner = "main"
    BY <1>1, SuiteCaller
  <2>2. \A d \in DOMAIN stack : stack[d].kind # "suite"
    BY <1>1, <2>1, NoSuiteFrames
  <2> QED  BY <2>1, <2>2 DEF DInv, LeafOnTop, Top
<1>3. times'["pre_suite"] = GetCpuTime(recording)
  BY <1>1, ClearedType DEF ReadSuiteStart, Readings
<1>4. NoneUnlessOn' /\ IntervalsExact'
  BY <1>1 DEF TimesInv, NoneUnlessOn, IntervalsExact
<1>5. OneSuite'
  <2>1. ASSUME NEW d \in DOMAIN stack', stack'[d].kind = "suite" PROVE d = Len(stack) + 1
    <3>1. d \in 1 .. Len(stack) + 1 /\ Len(stack) \in Nat
      BY <1>1, TopFrame DEF Grows
    <3>2. d \in 1 .. Len(stack) => stack'[d].kind = stack[d].kind /\ d \in DOMAIN stack
      BY <1>1, TopFrame DEF Grows, KindsKept
    <3> QED  BY <1>2, <2>1, <3>1, <3>2
  <2> QED  BY <2>1 DEF OneSuite
<1>6. ASSUME clock_works, recording, NEW d \in DOMAIN stack' PROVE FrameTimes(d)'
  <2>1. CASE Kept(d)
    BY <1>2, <2>1 DEF FrameTimes, Kept, Leaves
  <2>2. CASE stack'[d].kind = "suite" /\ entered'[d] = now
    BY <1>3, <1>6, <2>2, ClockTells DEF FrameTimes, Leaves
  <2> QED  BY <2>1, <2>2
<1> QED  BY <1>1, <1>4, <1>5, <1>6 DEF TimesInv, StartsKept

LEMMA SuiteEndKeeps ==
    ASSUME ConsoleTypeOK, TimesInv, TimedSuiteReturn,
           \A d \in DOMAIN stack' : Kept(d)
    PROVE  TimesInv'
<1>1. /\ TimersTypeOK /\ Len(stack) \in DOMAIN stack /\ stack[Len(stack)].kind = "suite"
      /\ Read("post_suite") /\ UNCHANGED <<recording, clock_works, lasted>>
  BY TopFrame DEF ConsoleTypeOK, TimedSuiteReturn, SuiteReturn, ReportSuite, Prompt, Top
<1>2. /\ \A r \in Readings \ {"post_suite"} : times'[r] = times[r]
      /\ times'["post_suite"] = GetCpuTime(recording)
  BY <1>1, ReadType DEF Readings
<1>3. clock_works /\ recording =>
        Elapsed(times["pre_suite"], times'["post_suite"]) = Since(Len(stack)) % ClockRange
  BY <1>1, <1>2, ClockTells DEF TimesInv, StartsKept, FrameTimes
<1>4. NoneUnlessOn' /\ IntervalsExact'
  <2>1. CASE UNCHANGED <<interval, took>>
    BY <1>1, <2>1 DEF TimesInv, NoneUnlessOn, IntervalsExact
  <2>2. CASE /\ ReportInterval("suite", times["pre_suite"], times'["post_suite"])
             /\ took' = IF recording THEN Since(Len(stack)) ELSE took
    <3>1. CASE recording
      BY <1>1, <1>3, <2>2, <3>1 DEF ReportInterval, NoneUnlessOn, IntervalsExact
    <3>2. CASE ~recording
      BY <1>1, <2>2, <3>2 DEF ReportInterval, TimesInv, NoneUnlessOn, IntervalsExact
    <3> QED  BY <3>1, <3>2
  <2> QED  BY <2>1, <2>2 DEF TimedSuiteReturn, ReportSuite
<1>5. OneSuite'
  BY SuitesKept DEF TimesInv
<1>6. ASSUME clock_works, recording, NEW d \in DOMAIN stack' PROVE FrameTimes(d)'
  <2>1. FrameTimes(d) /\ Kept(d)
    BY <1>6 DEF TimesInv, StartsKept, Kept
  <2> QED  BY <1>1, <1>2, <2>1 DEF FrameTimes, Kept, Readings
<1> QED  BY <1>1, <1>4, <1>5, <1>6 DEF TimesInv, StartsKept

(* At a report nothing but main is on the stack. *)
LEMMA MainAlone ==
    ASSUME TypeOK, MainAtBottom, DInv, PrintReport \/ MainReturn
    PROVE  \A d \in DOMAIN stack : stack[d].kind = "main"
<1>1. Len(stack) = 1
  BY ReporterIsMain, TopFrame DEF MainAtBottom, Top
<1> QED  BY <1>1, TopFrame DEF MainAtBottom

LEMMA ReportTimes ==
    ASSUME IInv, ConsoleTypeOK, TimesInv, DInv, TimedReport,
           \A d \in DOMAIN stack' : Kept(d)
    PROVE  TimesInv'
<1>1. \A d \in DOMAIN stack : stack[d].kind = "main"
  BY MainAlone DEF IInv, FramesOK, TimedReport
<1>2. UNCHANGED <<recording, clock_works, took>>
  BY DEF TimedReport, Unread, Prompt
<1>3. UNCHANGED interval \/ ReportInterval("total", times["begin"], times'["end"])
  BY DEF TimedReport, Unread, ReportTotal
<1>4. NoneUnlessOn' /\ IntervalsExact'
  BY <1>2, <1>3 DEF ReportInterval, TimesInv, NoneUnlessOn, IntervalsExact
<1>5. \A d \in DOMAIN stack' : stack'[d].kind = "main"
  BY <1>1 DEF Kept
<1>6. OneSuite' /\ StartsKept'
  BY <1>5 DEF OneSuite, StartsKept, FrameTimes, Leaves
<1> QED  BY <1>4, <1>6 DEF TimesInv

(* Steps of a documented client with no reading of the clock in them.      *)
LEMMA UnreadTimes ==
    ASSUME IInv, IInv', EnteredOK, now \in Nat, TimesInv, Prompt, TrackFrames, Unread,
           \/ Stays \/ Pops \/ Grows(LoopKinds)
           \/ Top.kind = "setup" /\ Turns("test")
    PROVE  TimesInv'
<1>1. now' = now /\ Len(stack) \in DOMAIN stack /\ stack[Len(stack)] = Top
  BY TopFrame DEF Prompt, IInv, Top
<1>2. \A d \in DOMAIN stack' :
        \/ Kept(d)
        \/ stack'[d].kind \in LoopKinds
        \/ /\ d \in DOMAIN stack /\ stack[d].kind = "setup"
           /\ stack'[d].kind = "test" /\ entered'[d] = entered[d]
  BY <1>1, StepFrames
<1>3. NoneUnlessOn' /\ IntervalsExact'
  BY DEF TimesInv, NoneUnlessOn, IntervalsExact, Prompt, Unread
<1> QED  BY <1>2, <1>3, UnreadKeeps DEF Prompt, Unread

(* A jump of a documented client ends the test on top, or the process.     *)
LEMMA JumpFrames ==
    ASSUME IInv, DInv, DInv', TimedJump
    PROVE  /\ Top.kind = "test" /\ jump_dest = Len(stack)
           /\ status' = "running" => Turns("teardown") \/ Pops
           /\ status' # "running" => Stays /\ Unread
<1>1. TypeOK /\ MainAtBottom /\ OneTest /\ status' # "undefined"
  BY DEF IInv, FramesOK, DInv, NoStrayJump
<1>2. Fail \/ Skip \/ Assert(FALSE)
  BY DEF TimedJump
<1>3. Top.kind = "test"
  BY <1>2, JumperIsTest
<1>4. jump_dest = Len(stack) /\ Len(stack) \in 1 .. Len(stack)
  BY <1>1, <1>3, TestJumps, TopFrame
<1>5. ASSUME status' = "running" PROVE Turns("teardown") \/ Pops
  <2>1. PICK res \in Verdicts : TestPost(SubSeq(stack, 1, Len(stack)), res)
    BY <1>1, <1>2, <1>4, <1>5, JumpCuts
  <2> DEFINE frames == SubSeq(stack, 1, Len(stack))
  <2>2. /\ frames \in Seq(Frames) /\ Len(frames) = Len(stack)
        /\ \A d \in 1 .. Len(stack) : frames[d] = stack[d]
    BY <1>1, <1>4, CutFrames DEF CutTo
  <2> HIDE DEF frames
  <2> QED  BY <1>1, <1>3, <2>1, <2>2, PostTurns DEF frames
<1>6. ASSUME status' # "running" PROVE Stays /\ Unread
  BY <1>1, <1>2, <1>6, JumpCuts, StaysSame DEF TimedJump
<1> QED  BY <1>3, <1>4, <1>5, <1>6

LEMMA JumpTimes ==
    ASSUME IInv, IInv', DInv, DInv', ConsoleTypeOK, TimesInv, TimedJump
    PROVE  TimesInv'
<1>1. /\ EnteredOK /\ now \in Nat /\ now' = now /\ LeafOnTop /\ Prompt /\ TrackFrames
  BY MaxTicksAssumption DEF ConsoleTypeOK, EnteredOK, TimersTypeOK, DInv, TimedJump, Prompt
<1>2. Top.kind = "test" /\ jump_dest = Len(stack)
  BY JumpFrames
<1>3. CASE status' = "running"
  <2>1. PICK at \in {0, cursor} : Verdict(Warned(at))
    BY <1>3 DEF TimedJump
  <2>2. Read("post_test") /\ lasted' = Since(Len(stack))
    BY <1>2, <1>3 DEF TimedJump
  <2>3. \A d \in DOMAIN stack' :
          \/ Kept(d) /\ d # Len(stack)
          \/ d = Len(stack) /\ stack'[d].kind = "teardown" /\ entered'[d] = entered[d]
    BY <1>1, <1>3, JumpFrames, StepFrames
  <2> QED  BY <1>1, <1>2, <2>1, <2>2, <2>3, EndKeeps
<1>4. CASE status' # "running"
  BY <1>1, <1>4, JumpFrames, UnreadTimes
<1> QED  BY <1>3, <1>4

LEMMA NextTimes ==
    IInv /\ IInv' /\ DInv /\ DInv' /\ ConsoleTypeOK /\ TimesInv /\ [ConsoleNext]_consoleVars
        => TimesInv'
<1> SUFFICES ASSUME IInv, IInv', DInv, DInv', ConsoleTypeOK, TimesInv, [ConsoleNext]_consoleVars
             PROVE  TimesInv'
  OBVIOUS
<1>1. /\ TypeOK /\ MainAtBottom /\ EnteredOK /\ now \in Nat /\ LeafOnTop
      /\ Len(stack) \in DOMAIN stack /\ stack[Len(stack)] = Top
  BY TopFrame, MaxTicksAssumption DEF IInv, FramesOK, ConsoleTypeOK, EnteredOK, TimersTypeOK,
     DInv, Top
<1>2. CASE Quiet
  <2>1. \/ Stays \/ Pops \/ Grows(LoopKinds)
        \/ Top.kind = "setup" /\ Turns("test")
    BY <1>1, <1>2, QuietFrames
  <2> QED  BY <1>1, <1>2, <2>1, UnreadTimes DEF Quiet
<1>3. ASSUME NEW test \in Tests, List(test) PROVE TimesInv'
  <2>1. Stays
    BY <1>1, <1>3, CallerLike, StaysLike DEF List, RejectTest
  <2> QED  BY <1>1, <1>3, <2>1, UnreadTimes DEF List
<1>4. ASSUME NEW test \in Tests, TimedStart(test) PROVE TimesInv'
  <2>1. Grows({"setup", "test"}) /\ TrackFrames /\ now' = now
    BY <1>1, <1>4, TestGrows DEF TimedStart, Prompt
  <2> QED  BY <1>1, <1>4, <2>1, StepFrames, StartKeeps
<1>5. CASE TimedReturn
  <2>1. /\ TestReturn /\ TrackFrames /\ Prompt /\ now' = now /\ Read("post_test")
        /\ lasted' = Since(Len(stack)) /\ Verdict(Warned(cursor)) /\ Top.kind = "test"
    BY <1>5 DEF TimedReturn, TestReturn, Prompt
  <2>2. Turns("teardown") \/ Pops
    BY <1>1, <2>1, TestReturnTurns
  <2>3. \A d \in DOMAIN stack' :
          \/ Kept(d) /\ d # Len(stack)
          \/ d = Len(stack) /\ stack'[d].kind = "teardown" /\ entered'[d] = entered[d]
    BY <1>1, <2>1, <2>2, StepFrames
  <2> QED  BY <1>1, <2>1, <2>3, EndKeeps
<1>6. CASE TimedTeardownReturn
  <2>1. /\ Pops /\ TrackFrames /\ now' = now /\ UNCHANGED <<times, lasted, recording, clock_works>>
        /\ Verdict(cursor) /\ Top.kind = "teardown"
    BY <1>1, <1>6, TopPops DEF TimedTeardownReturn, TeardownReturn, Prompt
  <2>2. clock_works /\ recording =>
          Elapsed(times'["pre_test"], times'["post_test"]) = lasted' % ClockRange
    BY <1>1, <2>1 DEF TimesInv, StartsKept, FrameTimes
  <2>3. NoneUnlessOn' /\ IntervalsExact'
    BY <2>1, <2>2, VerdictExact DEF TimesInv
  <2>4. \A d \in DOMAIN stack' : Kept(d)
    BY <1>1, <2>1, StepFrames
  <2> QED  BY <2>1, <2>3, <2>4, UnreadKeeps
<1>7. CASE TimedJump
  BY <1>7, JumpTimes
<1>8. ASSUME NEW name \in Suites, TimedSuite(name) PROVE TimesInv'
  <2>1. Grows({"suite"}) /\ TrackFrames /\ now' = now
    BY <1>1, <1>8, SuiteGrows DEF TimedSuite, Prompt
  <2> QED  BY <1>1, <1>8, <2>1, StepFrames, SuiteKeeps
<1>9. CASE TimedSuiteReturn
  <2>1. Pops /\ TrackFrames /\ now' = now
    BY <1>1, <1>9, TopPops DEF TimedSuiteReturn, Prompt
  <2> QED  BY <1>1, <1>9, <2>1, StepFrames, SuiteEndKeeps
<1>10. CASE TimedReport
  <2>1. TrackFrames /\ now' = now /\ (UNCHANGED stack \/ stack' = Caller)
    BY <1>10 DEF TimedReport, PrintReport, MainReturn, Prompt
  <2>2. Stays
    BY <1>1, <2>1, CallerLike, StaysLike, StaysSame
  <2> QED  BY <1>1, <1>10, <2>1, <2>2, StepFrames, ReportTimes
<1>11. CASE ClientWorks \/ Over \/ UNCHANGED consoleVars
  <2>1. UNCHANGED <<times, lasted, recording, clock_works, stack, entered, interval, took>>
    BY <1>11 DEF ClientWorks, PassTime, Over, consoleVars, timerVars, historyVars, vars
  <2>2. \A d \in DOMAIN stack' : Kept(d)
    BY <2>1 DEF Kept
  <2>3. NoneUnlessOn' /\ IntervalsExact'
    BY <2>1 DEF TimesInv, NoneUnlessOn, IntervalsExact
  <2> QED  BY <2>1, <2>2, <2>3, UnreadKeeps
<1> QED  BY <1>2, <1>3, <1>4, <1>5, <1>6, <1>7, <1>8, <1>9, <1>10, <1>11 DEF ConsoleNext

LEMMA DocumentedConsole == DocumentedUse /\ ConsoleSpec => []DInv
  BY InitDInv, NextDInv, ConsoleInvariant, ConsoleImplementsRunner, PTL

LEMMA TimesInvariant == DocumentedUse /\ ConsoleSpec => []TimesInv
<1>1. ConsoleInit => TimesInv
  <2> SUFFICES ASSUME ConsoleInit PROVE TimesInv
    OBVIOUS
  <2>1. DOMAIN stack = {1} /\ stack[1].kind = "main" /\ interval.of = "none"
    BY DEF ConsoleInit, Init, Frame, TimersInit
  <2> QED  BY <2>1 DEF TimesInv, OneSuite, StartsKept, FrameTimes, Leaves, NoneUnlessOn,
              IntervalsExact
<1> QED  BY <1>1, NextTimes, ConsoleInvariant, DocumentedConsole, ConsoleTypeCorrect, PTL
         DEF ConsoleSpec

(* The time printed for a test or a suite is what it took, modulo the      *)
(* clock's range: whichever hooks, jumps, blocks, reports and other tests  *)
(* came before or in between, no reading is another frame's, or cleared,   *)
(* when it is used.                                                        *)
THEOREM IntervalsCorrect == DocumentedUse /\ ConsoleSpec => []IntervalsExact
<1>1. TimesInv => IntervalsExact
  BY DEF TimesInv
<1> QED  BY <1>1, TimesInvariant, PTL

(***************************************************************************)
(* The time printed for the whole run.                                     *)
(***************************************************************************)

(* Suites that run one after the other take no longer together than the    *)
(* run has taken: not even up to the start of the one that is running.     *)
SuitesTimes ==
    /\ suites_took <= now
    /\ \A d \in DOMAIN stack : stack[d].kind = "suite" => suites_took <= entered[d]

(* What a report at time t printed, as the readings are since (clock_t)-1. *)
TotalFrom(t) == interval.ticks = (t + 1) % ClockRange /\ suites_took <= t

TotalInv ==
    /\ times["begin"] = NoTime
    /\ SuitesTimes
    /\ clock_works /\ interval.of = "total" => \E t \in 0 .. now : TotalFrom(t)

(* No step but a suite's return adds to the time of the suites.            *)
LEMMA SuitesTimesKept ==
    ASSUME ConsoleTypeOK, SuitesTimes, UNCHANGED suites_took, now' \in {now, now + 1},
           \A d \in DOMAIN stack' :
             stack'[d].kind = "suite" => Kept(d) \/ entered'[d] = now
    PROVE  SuitesTimes'
<1>1. now \in Nat /\ suites_took \in Nat
  BY MaxTicksAssumption DEF ConsoleTypeOK, TimersTypeOK
<1>2. suites_took <= now'
  BY <1>1 DEF SuitesTimes
<1>3. ASSUME NEW d \in DOMAIN stack', stack'[d].kind = "suite" PROVE suites_took <= entered'[d]
  BY <1>3 DEF SuitesTimes, Kept
<1> QED  BY <1>2, <1>3 DEF SuitesTimes

LEMMA TotalKept ==
    ASSUME ConsoleTypeOK, TotalInv, UNCHANGED <<suites_took, clock_works>>,
           times'["begin"] = times["begin"], now' \in {now, now + 1},
           UNCHANGED interval \/ interval'.of # "total",
           \A d \in DOMAIN stack' :
             stack'[d].kind = "suite" => Kept(d) \/ entered'[d] = now
    PROVE  TotalInv'
<1>1. now \in Nat
  BY MaxTicksAssumption DEF ConsoleTypeOK, TimersTypeOK
<1>2. SuitesTimes'
  BY SuitesTimesKept DEF TotalInv
<1>3. ASSUME clock_works', interval'.of = "total" PROVE \E t \in 0 .. now' : TotalFrom(t)'
  <2>1. PICK t \in 0 .. now : TotalFrom(t)
    BY <1>3 DEF TotalInv
  <2>2. t \in 0 .. now'
    BY <1>1
  <2>3. TotalFrom(t)'
    BY <1>3, <2>1 DEF TotalFrom
  <2> QED  BY <2>2, <2>3
<1> QED  BY <1>2, <1>3 DEF TotalInv

(* The report's interval starts at the reading (clock_t)-1, one before 0.  *)
LEMMA SinceNoTime ==
    ASSUME NEW t \in Nat
    PROVE  Elapsed(NoTime, t % ClockRange) = (t + 1) % ClockRange
<1>1. NoTime \in Nat /\ NoTime % ClockRange = NoTime
  BY ClockRangeAssumption DEF NoTime
<1>2. Elapsed(NoTime % ClockRange, t % ClockRange) = (t - NoTime) % ClockRange
  BY <1>1, ElapsedIsExact
<1>3. t - NoTime = t + 1 + ClockRange * (-1) /\ t + 1 \in Int /\ -1 \in Int
  BY ClockRangeAssumption DEF NoTime
<1>4. (t + 1 + ClockRange * (-1)) % ClockRange = (t + 1) % ClockRange
  BY <1>3, ClockRangeAssumption, SameRemainder
<1> QED  BY <1>1, <1>2, <1>3, <1>4

LEMMA ReportTotals ==
    ASSUME IInv, DInv, ConsoleTypeOK, TimesInv, TotalInv, TimedReport,
           \A d \in DOMAIN stack' : Kept(d)
    PROVE  TotalInv'
<1>1. UNCHANGED <<now, recording, clock_works, suites_took>> /\ now \in Nat /\ TimersTypeOK
  BY MaxTicksAssumption DEF TimedReport, Unread, Prompt, ConsoleTypeOK, TimersTypeOK
<1>2. CASE Unread
  BY <1>1, <1>2, TotalKept DEF Unread
<1>3. CASE ReportTotal
  <2>1. times'["begin"] = NoTime /\ times'["end"] = GetCpuTime(recording)
    BY <1>1, <1>3, ClearedType DEF ReportTotal, Readings, SuiteReadings, TotalInv
  <2>2. ReportInterval("total", NoTime, GetCpuTime(recording))
    BY <1>3, <2>1 DEF ReportTotal, TotalInv
  <2>3. SuitesTimes'
    BY <1>1, SuitesTimesKept DEF TotalInv
  <2>4. ASSUME clock_works', interval'.of = "total" PROVE \E t \in 0 .. now' : TotalFrom(t)'
    <3>1. CASE recording
      <4>1. interval'.ticks = (now + 1) % ClockRange
        BY <1>1, <2>2, <2>4, <3>1, SinceNoTime DEF ReportInterval, GetCpuTime, Clock
      <4>2. TotalFrom(now)'
        BY <1>1, <4>1 DEF TotalFrom, TotalInv, SuitesTimes
      <4> QED  BY <1>1, <4>2
    <3>2. CASE ~recording
      BY <2>2, <2>4, <3>2 DEF ReportInterval, TimesInv, NoneUnlessOn
    <3> QED  BY <3>1, <3>2
  <2> QED  BY <2>1, <2>3, <2>4 DEF TotalInv
<1> QED  BY <1>2, <1>3 DEF TimedReport

LEMMA SuiteEndTotals ==
    ASSUME ConsoleTypeOK, TimesInv, TotalInv, TimedSuiteReturn,
           \A d \in DOMAIN stack' : Kept(d) /\ d # Len(stack)
    PROVE  TotalInv'
<1>1. /\ UNCHANGED <<now, recording, clock_works>> /\ now \in Nat /\ suites_took \in Nat
      /\ Len(stack) \in DOMAIN stack /\ stack[Len(stack)].kind = "suite"
      /\ TimersTypeOK /\ Read("post_suite")
      /\ entered[Len(stack)] \in 0 .. now
  BY TopFrame, MaxTicksAssumption DEF TimedSuiteReturn, SuiteReturn, ReportSuite, Prompt,
     ConsoleTypeOK, TimersTypeOK, Top
<1>2. times'["begin"] = times["begin"]
  BY <1>1, ReadType DEF Readings
<1>3. \A d \in DOMAIN stack' : stack'[d].kind # "suite"
  BY <1>1 DEF TimesInv, OneSuite, Kept
<1>4. CASE UNCHANGED <<took, suites_took>> /\ UNCHANGED interval
  BY <1>1, <1>2, <1>3, <1>4, TotalKept
<1>5. CASE /\ suites_took' = suites_took + Since(Len(stack))
           /\ ReportInterval("suite", times["pre_suite"], times'["post_suite"])
  <2>1. suites_took <= entered[Len(stack)]
    BY <1>1 DEF TotalInv, SuitesTimes
  <2>2. suites_took' <= now'
    BY <1>1, <1>5, <2>1 DEF Since
  <2>3. SuitesTimes'
    BY <1>3, <2>2 DEF SuitesTimes
  <2>4. interval'.of # "total"
    BY <1>5 DEF ReportInterval, TimesInv, NoneUnlessOn
  <2> QED  BY <1>2, <2>3, <2>4 DEF TotalInv
<1> QED  BY <1>4, <1>5 DEF TimedSuiteReturn, ReportSuite

LEMMA NextTotal ==
    IInv /\ IInv' /\ DInv /\ DInv' /\ ConsoleTypeOK /\ TimesInv /\ TotalInv
      /\ [ConsoleNext]_consoleVars => TotalInv'
<1> SUFFICES ASSUME IInv, IInv', DInv, DInv', ConsoleTypeOK, TimesInv, TotalInv,
                    [ConsoleNext]_consoleVars
             PROVE  TotalInv'
  OBVIOUS
<1>1. /\ TypeOK /\ MainAtBottom /\ EnteredOK /\ now \in Nat /\ TimersTypeOK
      /\ now \in {now, now + 1}
  BY MaxTicksAssumption DEF IInv, FramesOK, ConsoleTypeOK, EnteredOK, TimersTypeOK
<1>2. ASSUME Prompt, TrackFrames, UNCHANGED suites_took,
             times'["begin"] = times["begin"], UNCHANGED interval \/ interval'.of # "total",
             \/ Stays \/ Pops \/ Grows(LoopKinds) \/ Turns("test") \/ Turns("teardown")
             \/ Grows({"setup", "test"}) \/ Grows({"suite"})
      PROVE  TotalInv'
  <2>1. now' = now /\ UNCHANGED clock_works
    BY <1>2 DEF Prompt
  <2>2. \A d \in DOMAIN stack' : stack'[d].kind = "suite" => Kept(d) \/ entered'[d] = now
    BY <1>1, <1>2, <2>1, StepFrames
  <2> QED  BY <1>1, <1>2, <2>1, <2>2, TotalKept
<1>3. ASSUME NEW at, Verdict(at) PROVE UNCHANGED interval \/ interval'.of # "total"
  BY <1>3 DEF Verdict, ReportInterval
<1>4. ASSUME NEW reading \in Readings \ {"begin"}, Read(reading)
      PROVE  times'["begin"] = times["begin"]
  BY <1>1, <1>4, ReadType DEF Readings
<1>5. CASE Quiet
  <2>1. Stays \/ Pops \/ Grows(LoopKinds) \/ Turns("test")
    BY <1>1, <1>5, QuietFrames
  <2> QED  BY <1>2, <1>5, <2>1 DEF Quiet, Unread
<1>6. ASSUME NEW test \in Tests, List(test) PROVE TotalInv'
  <2>1. Stays
    BY <1>1, <1>6, CallerLike, StaysLike DEF List, RejectTest
  <2> QED  BY <1>2, <1>6, <2>1 DEF List, Unread
<1>7. ASSUME NEW test \in Tests, TimedStart(test) PROVE TotalInv'
  <2>1. Grows({"setup", "test"}) /\ times'["begin"] = times["begin"]
    BY <1>1, <1>4, <1>7, TestGrows DEF TimedStart, Readings
  <2> QED  BY <1>2, <1>7, <2>1 DEF TimedStart
<1>8. CASE TimedReturn
  <2>1. Turns("teardown") \/ Pops
    BY <1>1, <1>8, TestReturnTurns DEF TimedReturn
  <2>2. times'["begin"] = times["begin"] /\ (UNCHANGED interval \/ interval'.of # "total")
    BY <1>3, <1>4, <1>8 DEF TimedReturn, Readings
  <2> QED  BY <1>2, <1>8, <2>1, <2>2 DEF TimedReturn
<1>9. CASE TimedTeardownReturn
  <2>1. Pops
    BY <1>1, <1>9, TopPops DEF TimedTeardownReturn
  <2> QED  BY <1>2, <1>3, <1>9, <2>1 DEF TimedTeardownReturn
<1>10. CASE TimedJump
  <2>1. times'["begin"] = times["begin"] /\ (UNCHANGED interval \/ interval'.of # "total")
    BY <1>3, <1>4, <1>10 DEF TimedJump, Unread, Readings
  <2>2. Stays \/ Turns("teardown") \/ Pops
    BY <1>1, <1>10, JumpFrames
  <2> QED  BY <1>2, <1>10, <2>1, <2>2 DEF TimedJump
<1>11. ASSUME NEW name \in Suites, TimedSuite(name) PROVE TotalInv'
  <2>1. Grows({"suite"})
    BY <1>1, <1>11, SuiteGrows DEF TimedSuite
  <2>2. times'["begin"] = times["begin"]
    BY <1>1, <1>11, ClearedType DEF TimedSuite, ReadSuiteStart, Readings, SuiteReadings
  <2> QED  BY <1>2, <1>11, <2>1, <2>2 DEF TimedSuite
<1>12. CASE TimedSuiteReturn
  <2>1. Pops /\ TrackFrames /\ now' = now
    BY <1>1, <1>12, TopPops DEF TimedSuiteReturn, Prompt
  <2> QED  BY <1>1, <1>12, <2>1, StepFrames, SuiteEndTotals
<1>13. CASE TimedReport
  <2>1. TrackFrames /\ now' = now /\ (UNCHANGED stack \/ stack' = Caller)
    BY <1>13 DEF TimedReport, PrintReport, MainReturn, Prompt
  <2>2. Stays
    BY <1>1, <2>1, CallerLike, StaysLike, StaysSame
  <2> QED  BY <1>1, <1>13, <2>1, <2>2, StepFrames, ReportTotals
<1>14. CASE ClientWorks \/ Over \/ UNCHANGED consoleVars
  <2>1. /\ UNCHANGED <<times, interval, suites_took, clock_works, stack, entered>>
        /\ now' \in {now, now + 1}
    BY <1>14 DEF ClientWorks, PassTime, Over, consoleVars, timerVars, historyVars, vars
  <2>2. \A d \in DOMAIN stack' : Kept(d)
    BY <2>1 DEF Kept
  <2> QED  BY <1>1, <2>1, <2>2, TotalKept
<1> QED  BY <1>5, <1>6, <1>7, <1>8, <1>9, <1>10, <1>11, <1>12, <1>13, <1>14 DEF ConsoleNext

LEMMA TotalInvariant == DocumentedUse /\ ConsoleSpec => []TotalInv
<1>1. ConsoleInit => TotalInv
  <2> SUFFICES ASSUME ConsoleInit PROVE TotalInv
    OBVIOUS
  <2>1. DOMAIN stack = {1} /\ stack[1].kind = "main" /\ interval.of = "none"
    BY DEF ConsoleInit, Init, Frame, TimersInit
  <2>2. times["begin"] = NoTime /\ suites_took = 0 /\ now = 0
    BY DEF ConsoleInit, TimersInit, Readings, GetCpuTime
  <2> QED  BY <2>1, <2>2 DEF TotalInv, SuitesTimes
<1> QED  BY <1>1, NextTotal, ConsoleInvariant, DocumentedConsole, ConsoleTypeCorrect,
            TimesInvariant, PTL DEF ConsoleSpec

(* The time printed for the whole run covers the suites reported, as long  *)
(* as the clock has not wrapped: although it is measured from a reading    *)
(* taken before RECORD_TIMING was set, it is never less than what the      *)
(* suites took together.                                                   *)
THEOREM TotalCorrect == DocumentedUse /\ ConsoleSpec => []TotalCoversSuites
<1>1. ConsoleTypeOK /\ TotalInv => TotalCoversSuites
  <2> SUFFICES ASSUME ConsoleTypeOK, TotalInv, clock_works, interval.of = "total",
                      now + 1 < ClockRange
               PROVE  interval.ticks >= suites_took
    BY DEF TotalCoversSuites
  <2>1. PICK t \in 0 .. now : TotalFrom(t)
    BY DEF TotalInv
  <2>2. now \in Nat /\ suites_took \in Nat
    BY MaxTicksAssumption DEF ConsoleTypeOK, TimersTypeOK
  <2>3. t + 1 \in 0 .. ClockRange - 1
    BY <2>2, ClockRangeAssumption
  <2>4. (t + 1) % ClockRange = t + 1
    BY <2>3, ClockRangeAssumption
  <2> QED  BY <2>1, <2>2, <2>4 DEF TotalFrom
<1> QED  BY <1>1, TotalInvariant, ConsoleTypeCorrect, PTL
=============================================================================
