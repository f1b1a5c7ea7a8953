----------------------------- MODULE ItestProofs -----------------------------
(***************************************************************************)
(* Proofs, for every client and every value of the constants, that IInv    *)
(* is an invariant of the runner and that the runner implements Tally.     *)
(***************************************************************************)
EXTENDS ItestProperties, SequenceTheorems, TLAPS

(***************************************************************************)
(* The call stack.                                                         *)
(***************************************************************************)

(* s is the stack with its loops possibly advanced.                        *)
SameFrames(s) ==
    /\ s \in Seq(Frames) /\ Len(s) = Len(stack)
    /\ \A d \in DOMAIN stack : s[d].kind = stack[d].kind /\ s[d].res = stack[d].res

(* s is the stack, its loops possibly advanced, with f pushed on it.       *)
Pushed(s, f) ==
    /\ s \in Seq(Frames) /\ Len(s) = Len(stack) + 1
    /\ \A d \in DOMAIN stack : s[d].kind = stack[d].kind /\ s[d].res = stack[d].res
    /\ s[Len(s)].kind = f.kind /\ s[Len(s)].res = f.res

(* The top of the stack is a frame. *)
LEMMA TopFrame ==
    ASSUME TypeOK
    PROVE  /\ Len(stack) \in Nat \ {0} /\ Len(stack) \in DOMAIN stack
           /\ DOMAIN stack = 1..Len(stack)
           /\ \A d \in DOMAIN stack : stack[d] \in Frames
           /\ Top \in Frames
  BY DEF TypeOK, Top

(* The top of the stack replaced by a frame of its kind and verdict.       *)
LEMMA ReplaceSame ==
    ASSUME TypeOK, NEW f \in Frames, f.kind = Top.kind, f.res = Top.res
    PROVE  SameFrames(ReplaceTop(f))
<1>1. stack \in Seq(Frames)
  BY DEF TypeOK
<1> DEFINE s == [stack EXCEPT ![Len(stack)] = f]
<1>2. /\ s \in Seq(Frames) /\ Len(s) = Len(stack)
      /\ \A d \in 1..Len(stack) : s[d] = IF d = Len(stack) THEN f ELSE stack[d]
  BY <1>1, TopFrame, ExceptSeq
<1> HIDE DEF s
<1>3. SameFrames(s)
  BY <1>2, TopFrame DEF SameFrames, Top
<1> QED  BY <1>3 DEF ReplaceTop, s

(* A call made from a SHUFFLE block advances it and changes nothing else.  *)
LEMMA PosFrame ==
    ASSUME TypeOK, NEW n \in Nat
    PROVE  /\ [Top EXCEPT !.pos = n] \in Frames
           /\ [Top EXCEPT !.pos = n].kind = Top.kind
           /\ [Top EXCEPT !.pos = n].res = Top.res
<1>1. [Top EXCEPT !.pos = n] \in Frames
  BY TopFrame DEF Frames
<1>2. /\ [Top EXCEPT !.pos = n].kind = Top.kind
      /\ [Top EXCEPT !.pos = n].res = Top.res
  BY TopFrame DEF Frames
<1> QED  BY <1>1, <1>2
LEMMA AdvancedFrame ==
    ASSUME TypeOK
    PROVE  Advanced \in Frames /\ Advanced.kind = Top.kind /\ Advanced.res = Top.res
<1>1. Top.pos + 1 \in Nat
  BY TopFrame DEF Frames
<1> QED  BY <1>1, PosFrame DEF Advanced
LEMMA CallerSame == ASSUME TypeOK PROVE SameFrames(Caller)
<1>1. SameFrames(stack)
  BY DEF SameFrames, TypeOK
<1> QED  BY <1>1, AdvancedFrame, ReplaceSame DEF Caller
LEMMA CallerRanSame == ASSUME TypeOK PROVE SameFrames(CallerRan)
<1> DEFINE f == [Advanced EXCEPT !.ran = Append(@, Top.pos)]
<1>1. Append(Advanced.ran, Top.pos) \in Seq(Nat)
  BY TopFrame, AdvancedFrame DEF Frames
<1>2. f \in Frames /\ f.kind = Top.kind /\ f.res = Top.res
  BY <1>1, AdvancedFrame DEF Frames
<1>3. SameFrames(stack)
  BY DEF SameFrames, TypeOK
<1> QED  BY <1>2, <1>3, ReplaceSame DEF CallerRan
LEMMA GotoSame == ASSUME TypeOK, NEW n \in Nat, Goto(n) PROVE SameFrames(stack')
  BY PosFrame, ReplaceSame DEF Goto

(* A frame pushed after a call. *)
LEMMA PushFrame ==
    ASSUME TypeOK, NEW s, SameFrames(s), NEW f \in Frames
    PROVE  Pushed(Append(s, f), f)
  BY TopFrame DEF TypeOK, SameFrames, Pushed

(* A new frame is one. *)
LEMMA FrameType ==
    ASSUME NEW kind \in Kinds, NEW name \in Names \union {NULL}, NEW owner \in Owners
    PROVE  /\ Frame(kind, name, owner) \in Frames
           /\ Frame(kind, name, owner).kind = kind
           /\ Frame(kind, name, owner).res = "passed"
  BY EmptySeq DEF Frame, Frames, Verdicts, ZeroCounters, Counters

(* s is the first n frames of the stack.                                   *)
CutTo(s, n) ==
    /\ s \in Seq(Frames) /\ Len(s) = n
    /\ \A d \in 1..n : s[d].kind = stack[d].kind /\ s[d].res = stack[d].res
LEMMA CutFrames ==
    ASSUME TypeOK, NEW n \in 1..Len(stack)
    PROVE  /\ CutTo(SubSeq(stack, 1, n), n)
           /\ \A d \in 1..n : SubSeq(stack, 1, n)[d] = stack[d]
<1>1. n \in Int /\ 1 \in Int /\ \A i \in 1..n : stack[i] \in Frames
  BY TopFrame
<1> DEFINE s == SubSeq(stack, 1, n)
<1>2. /\ s \in Seq(Frames)
      /\ Len(s) = IF 1 <= n THEN n - 1 + 1 ELSE 0
      /\ \A i \in 1 .. n - 1 + 1 : s[i] = stack[1 + i - 1]
  BY <1>1, SubSeqProperties
<1> HIDE DEF s
<1>3. n \in Nat /\ 1 <= n
  BY TopFrame
<1>4. Len(s) = n /\ \A d \in 1..n : s[d] = stack[d]
  BY <1>2, <1>3
<1>5. CutTo(s, n)
  BY <1>2, <1>4 DEF CutTo
<1> QED  BY <1>4, <1>5 DEF s

(***************************************************************************)
(* What a change of the stack does to FramesOK.                            *)
(***************************************************************************)

LEMMA SameFramesOK ==
    ASSUME IInv, SameFrames(stack'), UNCHANGED <<flags, running_test, jump_dest>>
    PROVE  FramesOK'
<1>1. DOMAIN stack' = DOMAIN stack
  BY TopFrame DEF IInv, SameFrames
<1>2. RunningFrames' = RunningFrames
  BY <1>1 DEF RunningFrames, SameFrames
<1> QED  BY <1>1, <1>2 DEF IInv, FramesOK, SameFrames, MainAtBottom, OneTest,
            NoSetupInTest, ListOnlyStartsNone, AbortReturnsNoFailure, RunningFrames

(* A suite, a loop, or a setup hook when no test is being run.             *)
LEMMA PushFramesOK ==
    ASSUME IInv, NEW f \in Frames, Pushed(stack', f),
           UNCHANGED <<flags, running_test, jump_dest>>,
           f.kind \notin TestKinds \union {"main"}, f.res = "passed",
           f.kind = "setup" => ~running_test /\ "LIST_ONLY" \notin flags
    PROVE  FramesOK'
<1>1. /\ DOMAIN stack' = 1..Len(stack) + 1 /\ DOMAIN stack = 1..Len(stack)
      /\ Len(stack) \in Nat \ {0}
  BY TopFrame DEF IInv, Pushed
<1>2. RunningFrames' = RunningFrames
  BY <1>1 DEF RunningFrames, Pushed
<1>3. MainAtBottom'
  BY <1>1 DEF IInv, FramesOK, Pushed, MainAtBottom
<1>4. OneTest'
  BY <1>1, <1>2 DEF IInv, FramesOK, OneTest
<1>5. NoSetupInTest'
  BY <1>1, <1>2 DEF IInv, FramesOK, Pushed, NoSetupInTest, OneTest, RunningFrames
<1>6. ListOnlyStartsNone'
  BY <1>1 DEF IInv, FramesOK, Pushed, ListOnlyStartsNone
<1>7. AbortReturnsNoFailure'
  BY <1>1 DEF IInv, FramesOK, Pushed, AbortReturnsNoFailure
<1> QED  BY <1>3, <1>4, <1>5, <1>6, <1>7 DEF FramesOK

(* A position in a stack of n frames is its top, or lies below it.         *)
LEMMA BelowTop ==
    ASSUME NEW m \in Nat, NEW n \in Nat, n = m \/ n = m + 1, NEW d \in 1..n
    PROVE  d = n \/ (d \in 1..n - 1 /\ d \in 1..m)
  OBVIOUS
(* The top frame becomes a test, on its own or having just been pushed.    *)
LEMMA EnterFramesOK ==
    ASSUME IInv, NEW n \in Nat, n > 1, n = Len(stack) \/ n = Len(stack) + 1,
           stack' \in Seq(Frames), Len(stack') = n,
           \A d \in 1..n - 1 : stack'[d].kind = stack[d].kind /\ stack'[d].res = stack[d].res,
           stack'[n].kind = "test",
           "ABORT_ON_FAIL" \in flags => stack'[n].res # "failed",
           flags' = flags, running_test' = TRUE, jump_dest' = n,
           ~running_test, "LIST_ONLY" \notin flags
    PROVE  FramesOK'
<1> DEFINE m == Len(stack)
<1>1. m \in Nat \ {0} /\ DOMAIN stack = 1..m
  BY TopFrame DEF IInv
<1>a. DOMAIN stack' = 1..n
  BY LenProperties
<1> HIDE DEF m
<1>b. n = m \/ n = m + 1
  BY DEF m
<1>2. \A d \in 1..n : d = n \/ (d \in 1..n - 1 /\ d \in DOMAIN stack)
  BY <1>1, <1>b, BelowTop
<1>3. 1 # n
  OBVIOUS
<1>4. RunningFrames = {}
  BY DEF IInv, FramesOK, OneTest
<1>5. RunningFrames' = {n}
  <2>1. n \in RunningFrames'
    BY <1>1 DEF RunningFrames, TestKinds
  <2>2. ASSUME NEW d \in 1..n - 1 PROVE d \notin RunningFrames'
    BY <1>1, <1>2, <1>4 DEF RunningFrames
  <2> QED  BY <1>1, <1>2, <2>1, <2>2 DEF RunningFrames
<1>6. MainAtBottom'
  <2>1. \A d \in 1..n - 1 : stack'[d].kind = "main" <=> d = 1
    BY <1>1, <1>2 DEF IInv, FramesOK, MainAtBottom
  <2> QED  BY <1>1, <1>2, <1>3, <2>1 DEF MainAtBottom
<1>7. OneTest'
  BY <1>5 DEF OneTest
<1>8. NoSetupInTest'
  BY <1>1, <1>5 DEF NoSetupInTest
<1>9. ListOnlyStartsNone'
  BY DEF ListOnlyStartsNone
<1>10. AbortReturnsNoFailure'
  <2>1. "ABORT_ON_FAIL" \in flags => \A d \in 1..n - 1 : stack'[d].res # "failed"
    BY <1>1, <1>2 DEF IInv, FramesOK, AbortReturnsNoFailure
  <2> QED  BY <1>1, <1>2, <2>1 DEF AbortReturnsNoFailure
<1> QED  BY <1>6, <1>7, <1>8, <1>9, <1>10 DEF FramesOK

(* Frames are popped: others than a test, or the test and all above it.    *)
LEMMA CutFramesOK ==
    ASSUME IInv, NEW n \in 1..Len(stack), CutTo(stack', n), UNCHANGED <<flags, jump_dest>>,
           \/ UNCHANGED running_test /\ \A d \in n + 1..Len(stack) : stack[d].kind \notin TestKinds
           \/ running_test' = FALSE /\ n < jump_dest
    PROVE  FramesOK'
<1>1. /\ DOMAIN stack' = 1..n /\ DOMAIN stack = 1..Len(stack)
      /\ Len(stack) \in Nat \ {0} /\ n \in Nat /\ jump_dest \in Nat
  BY TopFrame DEF IInv, CutTo, TypeOK
<1>2. RunningFrames' = {d \in RunningFrames : d <= n}
  BY <1>1 DEF RunningFrames, CutTo
<1>3. MainAtBottom'
  BY <1>1 DEF IInv, FramesOK, MainAtBottom, CutTo
<1>4. OneTest'
  <2>1. CASE running_test' = FALSE /\ n < jump_dest
    BY <1>1, <1>2, <2>1 DEF IInv, FramesOK, OneTest
  <2>2. CASE UNCHANGED running_test /\ \A d \in n + 1..Len(stack) : stack[d].kind \notin TestKinds
    <3>1. RunningFrames' = RunningFrames
      BY <1>1, <1>2, <2>2 DEF RunningFrames
    <3> QED  BY <3>1, <2>2 DEF IInv, FramesOK, OneTest
  <2> QED  BY <2>1, <2>2
<1>5. NoSetupInTest'
  BY <1>1, <1>2 DEF IInv, FramesOK, NoSetupInTest, CutTo
<1>6. ListOnlyStartsNone' /\ AbortReturnsNoFailure'
  BY <1>1 DEF IInv, FramesOK, ListOnlyStartsNone, AbortReturnsNoFailure, CutTo
<1> QED  BY <1>3, <1>4, <1>5, <1>6 DEF FramesOK

(* The test becomes a teardown hook, all above it being popped.            *)
LEMMA TeardownFramesOK ==
    ASSUME IInv, NEW n \in RunningFrames,
           stack' \in Seq(Frames), Len(stack') = n,
           \A d \in 1..n - 1 : stack'[d].kind = stack[d].kind /\ stack'[d].res = stack[d].res,
           stack'[n].kind = "teardown",
           "ABORT_ON_FAIL" \in flags => stack'[n].res # "failed",
           UNCHANGED <<flags, running_test, jump_dest>>
    PROVE  FramesOK'
<1>1. /\ DOMAIN stack' = 1..n /\ DOMAIN stack = 1..Len(stack)
      /\ n \in 1..Len(stack) /\ Len(stack) \in Nat \ {0}
  BY TopFrame DEF IInv, RunningFrames
<1>2. stack[n].kind \in TestKinds /\ running_test /\ n = jump_dest
  BY DEF IInv, FramesOK, OneTest, RunningFrames
<1>3. RunningFrames' = {n}
  BY <1>1, <1>2 DEF IInv, FramesOK, OneTest, RunningFrames, TestKinds
<1>4. MainAtBottom'
  BY <1>1, <1>2 DEF IInv, FramesOK, MainAtBottom, TestKinds
<1>5. OneTest' /\ NoSetupInTest'
  BY <1>1, <1>2, <1>3 DEF OneTest, NoSetupInTest
<1>6. ListOnlyStartsNone' /\ AbortReturnsNoFailure'
  BY <1>1, <1>2 DEF IInv, FramesOK, ListOnlyStartsNone, AbortReturnsNoFailure
<1> QED  BY <1>4, <1>5, <1>6 DEF FramesOK

(***************************************************************************)
(* Pieces of the actions.                                                  *)
(***************************************************************************)

(* SHUFFLE kinds and the other kinds are kinds. *)
LEMMA KindFacts ==
    /\ LoopKinds \subseteq Kinds /\ {"suite", "setup", "test", "teardown"} \subseteq Kinds
    /\ "SHUFFLE_TESTS" \in LoopKinds /\ "SHUFFLE_SUITES" \in LoopKinds
    /\ \A k \in LoopKinds : k \notin TestKinds \union {"main", "setup", "suite"}
  BY DEF LoopKinds, Kinds, Callbacks, TestKinds

(* Sums of counts are counts. *)
LEMMA PlusType ==
    ASSUME NEW a \in Counters, NEW b \in Counters
    PROVE  Plus(a, b) \in Counters /\ Plus(a, b).failed = a.failed + b.failed
  BY DEF Plus, Counters

(* What has been printed is a count. *)
LEMMA PrintedType == TypeOK => Printed \in Counters
  BY DEF TypeOK, Printed, Lines, ZeroCounters, Counters

(* Counting a call keeps a generator one, and keeps its modulus.           *)
LEMMA TickType ==
    ASSUME NEW p \in Prng
    PROVE  /\ Tick(p) \in Prng /\ Tick(p).initialized = p.initialized /\ Tick(p).m = p.m
           /\ [p EXCEPT !.count_run = @ + 1] \in Prng
           /\ [p EXCEPT !.count_run = @ + 1].initialized = p.initialized
           /\ [p EXCEPT !.count_run = @ + 1].m = p.m
  BY DEF Prng, Tick

(* A call is never made from a loop's condition. *)
LEMMA InvokedInBody ==
    ASSUME TypeOK, NEW fn, NEW arg, Invoked(fn, arg)
    PROVE  ~(InLoop /\ Top.pos = 0)
<1>1. Top.body \in Seq(Items)
  BY TopFrame DEF Frames
<1>2. DOMAIN Top.body = 1..Len(Top.body)
  BY <1>1
<1> QED  BY <1>2 DEF Invoked

(* Elsewhere every initialized generator has a modulus. *)
LEMMA ModulusNow ==
    ASSUME IInv, ~(InLoop /\ Top.pos = 0), NEW k \in LoopKinds, prng[k].initialized
    PROVE  prng[k].m > 0
  BY DEF IInv, ModulusSet, InLoop

(* It keeps it as long as no step sets a generator up anew.                *)
LEMMA ModulusKept ==
    ASSUME IInv, ~(InLoop /\ Top.pos = 0),
           \A k \in LoopKinds :
             prng'[k].initialized => prng[k].initialized /\ prng'[k].m = prng[k].m
    PROVE  ModulusSet'
  BY ModulusNow DEF ModulusSet

(* One generator replaced. *)
LEMMA PrngReplaced ==
    ASSUME TypeOK, NEW k \in LoopKinds, NEW q \in Prng, prng' = [prng EXCEPT ![k] = q]
    PROVE  prng' \in [LoopKinds -> Prng] /\ prng'[k] = q
           /\ \A l \in LoopKinds : l # k => prng'[l] = prng[l]
  BY DEF TypeOK

(* The calls counted, and the caller's stack. *)
LEMMA CallType ==
    ASSUME TypeOK, Counted
    PROVE  calls' \in Nat
  BY DEF TypeOK, Counted
LEMMA SameStackType ==
    ASSUME TypeOK, SameFrames(stack')
    PROVE  stack' \in Seq(Frames) /\ stack' # <<>>
  BY TopFrame DEF SameFrames

(***************************************************************************)
(* IInv is inductive: one lemma per action.                                *)
(***************************************************************************)

LEMMA SetSetupKeeps == IInv /\ SetSetup => IInv'
<1> SUFFICES ASSUME IInv, SetSetup PROVE IInv'
  OBVIOUS
<1>1. TypeOK /\ Invoked("SET_SETUP", NULL) /\ stack' = Caller /\ Counted
  BY DEF IInv, SetSetup
<1>2. SameFrames(stack')
  BY <1>1, CallerSame
<1>a. Top.owner \in Owners
  BY <1>1, TopFrame DEF Frames
<1>b. setup' \in Owners \union {NULL}
  BY <1>a DEF SetSetup
<1>3. TypeOK'
  BY <1>1, <1>2, <1>b, CallType, SameStackType DEF SetSetup, TypeOK, nameVars, testVars
<1>4. FramesOK'
  BY <1>2, SameFramesOK DEF SetSetup, testVars
<1>5. ModulusSet'
  BY <1>1, InvokedInBody, ModulusKept DEF SetSetup
<1> QED  BY <1>3, <1>4, <1>5 DEF IInv, ListOnlyCountsNone, SetSetup

LEMMA SetTeardownKeeps == IInv /\ SetTeardown => IInv'
<1> SUFFICES ASSUME IInv, SetTeardown PROVE IInv'
  OBVIOUS
<1>1. TypeOK /\ Invoked("SET_TEARDOWN", NULL) /\ stack' = Caller /\ Counted
  BY DEF IInv, SetTeardown
<1>2. SameFrames(stack')
  BY <1>1, CallerSame
<1>a. Top.owner \in Owners
  BY <1>1, TopFrame DEF Frames
<1>b. teardown' \in Owners \union {NULL}
  BY <1>a DEF SetTeardown
<1>3. TypeOK'
  BY <1>1, <1>2, <1>b, CallType, SameStackType DEF SetTeardown, TypeOK, nameVars, testVars
<1>4. FramesOK'
  BY <1>2, SameFramesOK DEF SetTeardown, testVars
<1>5. ModulusSet'
  BY <1>1, InvokedInBody, ModulusKept DEF SetTeardown
<1> QED  BY <1>3, <1>4, <1>5 DEF IInv, ListOnlyCountsNone, SetTeardown

LEMMA SetSuffixKeeps ==
    ASSUME IInv, NEW suffix \in Suffixes, SetSuffix(suffix) PROVE IInv'
<1>1. TypeOK /\ Invoked("SET_SUFFIX", suffix) /\ stack' = Caller /\ Counted
  BY DEF IInv, SetSuffix
<1>2. SameFrames(stack')
  BY <1>1, CallerSame
<1>3. TypeOK'
  BY <1>1, <1>2, CallType, SameStackType DEF SetSuffix, TypeOK, hookVars, testVars
<1>4. FramesOK'
  BY <1>2, SameFramesOK DEF SetSuffix, testVars
<1>5. ModulusSet'
  BY <1>1, InvokedInBody, ModulusKept DEF SetSuffix
<1> QED  BY <1>3, <1>4, <1>5 DEF IInv, ListOnlyCountsNone, SetSuffix

LEMMA RejectTestKeeps ==
    ASSUME IInv, NEW test \in Tests, RejectTest(test) PROVE IInv'
<1> DEFINE p == Tick(prng["SHUFFLE_TESTS"])
<1>1. TypeOK /\ Invoked("RUN_TEST", test) /\ stack' = Caller /\ Counted
  BY DEF IInv, RejectTest
<1>2. SameFrames(stack')
  BY <1>1, CallerSame
<1>3. /\ p \in Prng /\ p.initialized = prng["SHUFFLE_TESTS"].initialized
      /\ p.m = prng["SHUFFLE_TESTS"].m
  BY <1>1, TickType, KindFacts DEF TypeOK
<1>4. prng' = prng \/ prng' = [prng EXCEPT !["SHUFFLE_TESTS"] = p]
  BY DEF RejectTest
<1>5. /\ prng' \in [LoopKinds -> Prng]
      /\ \A k \in LoopKinds :
            prng'[k].initialized = prng[k].initialized /\ prng'[k].m = prng[k].m
  BY <1>1, <1>3, <1>4, KindFacts, PrngReplaced DEF TypeOK
<1>6. <<test, name_suffix>> \in Names
  BY <1>1 DEF TypeOK, Names
<1>7. TypeOK'
  BY <1>1, <1>2, <1>5, <1>6, CallType, SameStackType DEF RejectTest, TypeOK, hookVars, testVars
<1>8. FramesOK'
  BY <1>2, SameFramesOK DEF RejectTest, testVars
<1>9. ModulusSet'
  BY <1>1, <1>5, InvokedInBody, ModulusKept
<1> QED  BY <1>7, <1>8, <1>9 DEF IInv, ListOnlyCountsNone, RejectTest

LEMMA NestedTestKeeps ==
    ASSUME IInv, NEW test \in Tests, NestedTest(test) PROVE IInv'
<1> DEFINE p == Tick(prng["SHUFFLE_TESTS"])
<1>1. TypeOK /\ Invoked("RUN_TEST", test) /\ stack' = Caller /\ Counted
  BY DEF IInv, NestedTest
<1>2. SameFrames(stack')
  BY <1>1, CallerSame
<1>3. /\ p \in Prng /\ p.initialized = prng["SHUFFLE_TESTS"].initialized
      /\ p.m = prng["SHUFFLE_TESTS"].m
  BY <1>1, TickType, KindFacts DEF TypeOK
<1>4. prng' = [prng EXCEPT !["SHUFFLE_TESTS"] = p]
  BY DEF NestedTest
<1>5. /\ prng' \in [LoopKinds -> Prng]
      /\ \A k \in LoopKinds :
            prng'[k].initialized = prng[k].initialized /\ prng'[k].m = prng[k].m
  BY <1>1, <1>3, <1>4, KindFacts, PrngReplaced
<1>6. <<test, name_suffix>> \in Names
  BY <1>1 DEF TypeOK, Names
<1>7. TypeOK'
  BY <1>1, <1>2, <1>5, <1>6, CallType, SameStackType DEF NestedTest, TypeOK, hookVars, testVars
<1>8. FramesOK'
  BY <1>2, SameFramesOK DEF NestedTest, testVars
<1>9. ModulusSet'
  BY <1>1, <1>5, InvokedInBody, ModulusKept
<1> QED  BY <1>7, <1>8, <1>9 DEF IInv, ListOnlyCountsNone, NestedTest

(* A test that starts: with a setup hook, or its body at once.             *)
LEMMA StartTestKeeps ==
    ASSUME IInv, NEW test \in Tests, StartTest(test) PROVE IInv'
<1> DEFINE name  == <<test, name_suffix>>
           p     == Tick(prng["SHUFFLE_TESTS"])
           q     == [p EXCEPT !.count_run = @ + 1]
           frame == [Frame("setup", name, Top.owner) EXCEPT !.hook = setup]
           s     == Append(CallerRan, frame)
<1>1. TypeOK /\ Invoked("RUN_TEST", test) /\ Counted
  BY DEF IInv, StartTest
<1>2. name \in Names
  BY <1>1 DEF TypeOK, Names
<1>3. frame \in Frames /\ frame.kind = "setup" /\ frame.res = "passed"
  <2>1. Top.owner \in Owners /\ setup \in Owners \union {NULL}
    BY <1>1, TopFrame DEF Frames, TypeOK
  <2> DEFINE f == Frame("setup", name, Top.owner)
  <2>2. f \in Frames /\ f.kind = "setup" /\ f.res = "passed"
    BY <1>2, <2>1, FrameType, KindFacts
  <2> HIDE DEF f
  <2>3. [f EXCEPT !.hook = setup] \in Frames
    BY <2>1, <2>2 DEF Frames
  <2>4. [f EXCEPT !.hook = setup].kind = "setup" /\ [f EXCEPT !.hook = setup].res = "passed"
    BY <2>2 DEF Frames
  <2> QED  BY <2>3, <2>4 DEF f
<1>4. /\ p \in Prng /\ p.initialized = prng["SHUFFLE_TESTS"].initialized
      /\ p.m = prng["SHUFFLE_TESTS"].m
  BY <1>1, TickType, KindFacts DEF TypeOK
<1>5. /\ q \in Prng /\ q.initialized = prng["SHUFFLE_TESTS"].initialized
      /\ q.m = prng["SHUFFLE_TESTS"].m
  BY <1>4, TickType
<1>6. ~running_test /\ "LIST_ONLY" \notin flags
  BY DEF StartTest, Selected
<1> HIDE DEF frame
<1>7. Pushed(s, frame)
  BY <1>1, <1>3, CallerRanSame, PushFrame
<1>8. s \in Seq(Frames) /\ Len(s) = Len(stack) + 1 /\ Len(stack) \in Nat \ {0}
  BY <1>1, <1>7, TopFrame DEF Pushed
<1> HIDE DEF s, p, q, name
<1>9. prng' \in [LoopKinds -> Prng] /\ ModulusSet'
  <2>1. prng' = [prng EXCEPT !["SHUFFLE_TESTS"] = p] \/ prng' = [prng EXCEPT !["SHUFFLE_TESTS"] = q]
    BY DEF StartTest, EnterTest, p, q
  <2>2. /\ prng' \in [LoopKinds -> Prng]
        /\ \A k \in LoopKinds :
              prng'[k].initialized = prng[k].initialized /\ prng'[k].m = prng[k].m
    BY <1>1, <1>4, <1>5, <2>1, KindFacts, PrngReplaced
  <2> QED  BY <1>1, <2>2, InvokedInBody, ModulusKept
<1>10. CASE setup # NULL
  <2>1. /\ stack' = s
        /\ UNCHANGED <<running_test, jump_dest>>
    BY <1>10 DEF StartTest, s, frame, name
  <2>2. stack' # <<>>
    BY <1>8, <2>1
  <2>3. TypeOK'
    BY <1>1, <1>2, <1>8, <1>9, <2>1, <2>2, CallType DEF StartTest, TypeOK, hookVars, name
  <2>4. FramesOK'
    <3>1. UNCHANGED flags
      BY DEF StartTest
    <3> QED  BY <1>3, <1>6, <1>7, <2>1, <3>1, PushFramesOK DEF TestKinds
  <2> QED  BY <1>9, <2>3, <2>4 DEF IInv, ListOnlyCountsNone, StartTest
<1>11. CASE setup = NULL
  <2> DEFINE n == Len(stack) + 1
  <2>1. /\ stack' = [s EXCEPT ![Len(s)].kind = "test"]
        /\ running_test' = TRUE /\ jump_dest' = n
    BY <1>8, <1>11 DEF StartTest, EnterTest, s, frame, name
  <2>2. s[n] \in Frames /\ s[n].res = "passed" /\ n \in 1..Len(s) /\ n = Len(s)
    BY <1>3, <1>7, <1>8 DEF Pushed
  <2> DEFINE g == [s[n] EXCEPT !.kind = "test"]
  <2>3. g \in Frames /\ g.kind = "test" /\ g.res = "passed"
    BY <2>2, KindFacts DEF Frames
  <2> HIDE DEF g
  <2>4. stack' = [s EXCEPT ![n] = g]
    BY <2>1, <2>2 DEF g
  <2>5. /\ stack' \in Seq(Frames) /\ Len(stack') = n
        /\ \A d \in 1..n : stack'[d] = IF d = n THEN g ELSE s[d]
    BY <1>8, <2>2, <2>3, <2>4, ExceptSeq
  <2>6. \A d \in 1..n - 1 : stack'[d].kind = stack[d].kind /\ stack'[d].res = stack[d].res
    BY <1>1, <1>7, <1>8, <2>5, TopFrame DEF Pushed
  <2>7. stack'[n].kind = "test" /\ stack'[n].res = "passed"
    BY <2>2, <2>3, <2>5
  <2>8. stack' # <<>> /\ n \in Nat /\ n > 1
    BY <1>8, <2>5
  <2>9. TypeOK'
    BY <1>1, <1>2, <1>8, <1>9, <2>1, <2>5, <2>8, CallType DEF StartTest, TypeOK, hookVars, name
  <2>10. FramesOK'
    <3>1. UNCHANGED flags
      BY DEF StartTest
    <3> HIDE DEF n
    <3> QED  BY <1>6, <2>1, <2>5, <2>6, <2>7, <2>8, <3>1, EnterFramesOK DEF n
  <2> QED  BY <1>9, <2>9, <2>10 DEF IInv, ListOnlyCountsNone, StartTest
<1> QED  BY <1>10, <1>11

(* The setup hook returns: its frame becomes the test.                     *)
LEMMA SetupReturnKeeps == IInv /\ SetupReturn => IInv'
<1> SUFFICES ASSUME IInv, SetupReturn PROVE IInv'
  OBVIOUS
<1> DEFINE n == Len(stack)
           p == prng["SHUFFLE_TESTS"]
           q == [p EXCEPT !.count_run = @ + 1]
           g == [Top EXCEPT !.kind = "test"]
<1>1. TypeOK /\ Top.kind = "setup"
  BY DEF IInv, SetupReturn
<1>2. /\ n \in Nat \ {0} /\ n \in DOMAIN stack /\ DOMAIN stack = 1..n
      /\ Top \in Frames /\ stack \in Seq(Frames)
  BY <1>1, TopFrame DEF TypeOK
<1>3. n > 1
  BY <1>1, <1>2 DEF IInv, FramesOK, MainAtBottom, Top
<1>4. g \in Frames /\ g.kind = "test" /\ g.res = Top.res
  BY <1>2, KindFacts DEF Frames
<1>5. /\ stack' = [stack EXCEPT ![n] = g] /\ running_test' = TRUE /\ jump_dest' = n
      /\ prng' = [prng EXCEPT !["SHUFFLE_TESTS"] = q]
  BY DEF SetupReturn, EnterTest, Top
<1> HIDE DEF g
<1>6. /\ stack' \in Seq(Frames) /\ Len(stack') = n
      /\ \A d \in 1..n : stack'[d] = IF d = n THEN g ELSE stack[d]
  BY <1>2, <1>4, <1>5, ExceptSeq
<1>7. ~running_test
  (* A setup frame above a running test would break NoSetupInTest. *)
  <2>1. SUFFICES ASSUME NEW d \in RunningFrames PROVE FALSE
    BY DEF IInv, FramesOK, OneTest
  <2>2. d \in 1..n /\ d # n
    BY <1>1, <1>2 DEF RunningFrames, TestKinds, Top
  <2> HIDE DEF n
  <2>3. d < n
    BY <1>2, <2>2
  <2>4. NoSetupInTest
    BY DEF IInv, FramesOK
  <2> QED  BY <1>1, <1>2, <2>3, <2>4 DEF NoSetupInTest, Top, n
<1>8. "LIST_ONLY" \notin flags
  BY <1>1, <1>2 DEF IInv, FramesOK, ListOnlyStartsNone, Top
<1>9. prng' \in [LoopKinds -> Prng] /\ ModulusSet'
  <2>1. p \in Prng
    BY <1>1, KindFacts DEF TypeOK
  <2>2. q \in Prng /\ q.initialized = p.initialized /\ q.m = p.m
    BY <2>1, TickType
  <2> HIDE DEF q
  <2>3. /\ prng' \in [LoopKinds -> Prng]
        /\ \A k \in LoopKinds :
              prng'[k].initialized = prng[k].initialized /\ prng'[k].m = prng[k].m
    BY <1>1, <1>5, <2>2, KindFacts, PrngReplaced
  <2> QED  BY <1>1, <2>3, ModulusKept, KindFacts DEF InLoop
<1>10. stack' # <<>>
  BY <1>2, <1>6
<1>11. TypeOK'
  BY <1>1, <1>2, <1>5, <1>6, <1>9, <1>10 DEF SetupReturn, TypeOK, hookVars, nameVars
<1>12. FramesOK'
  <2>1. UNCHANGED flags
    BY DEF SetupReturn
  <2>2. stack'[n].kind = "test" /\ stack'[n].res = Top.res
    BY <1>2, <1>4, <1>6
  <2>3. "ABORT_ON_FAIL" \in flags => stack'[n].res # "failed"
    BY <1>2, <2>2 DEF IInv, FramesOK, AbortReturnsNoFailure, Top
  <2>4. \A d \in 1..n - 1 : stack'[d] = stack[d]
    <3> HIDE DEF n
    <3>1. \A d \in 1..n - 1 : d \in 1..n /\ d # n
      BY <1>2
    <3> QED  BY <1>6, <3>1
  <2> HIDE DEF n
  <2> QED  BY <1>2, <1>3, <1>5, <1>6, <1>7, <1>8, <2>1, <2>2, <2>3, <2>4, EnterFramesOK DEF n
<1> QED  BY <1>9, <1>11, <1>12 DEF IInv, ListOnlyCountsNone, SetupReturn

(* itest_test_post, in the activation of the test being run.               *)
LEMMA TestPostKeeps ==
    ASSUME IInv, NEW n \in RunningFrames, NEW res \in Verdicts,
           NEW frames \in Seq(Frames), Len(frames) = n, \A d \in 1..n : frames[d] = stack[d],
           "ABORT_ON_FAIL" \in flags => res # "failed",
           TestPost(frames, res) \/ FinishTest(frames, res),
           ~(InLoop /\ Top.pos = 0),
           msg' \in Names \union {NULL}, assertions' \in Nat, status' = status,
           UNCHANGED <<flags, total, hookVars, name_buf, jump_dest, prng, calls>>
    PROVE  IInv'
<1>1. /\ TypeOK /\ n \in 1..Len(stack) /\ DOMAIN stack = 1..Len(stack)
      /\ Len(stack) \in Nat \ {0} /\ stack[n] \in Frames
  BY TopFrame DEF IInv, RunningFrames
<1>2. stack[n].kind \in TestKinds /\ running_test /\ n = jump_dest /\ n # 1
  BY <1>1 DEF IInv, FramesOK, OneTest, RunningFrames, MainAtBottom, TestKinds
<1>3. "LIST_ONLY" \notin flags
  BY <1>1, <1>2 DEF IInv, FramesOK, ListOnlyStartsNone
<1>4. ModulusSet'
  BY ModulusKept
<1>5. /\ hookVars' = hookVars /\ setup' = setup /\ teardown' = teardown
  BY DEF hookVars
<1>6. CASE FinishTest(frames, res)
  <2>1. /\ stack' = SubSeq(frames, 1, n - 1) /\ running_test' = FALSE
        /\ suite' = Plus(suite, One(res))
        /\ name_suffix' = NULL
        /\ line' = [verdict |-> res, name |-> name_buf, msg |-> msg', test |-> stack[n].name,
                    printed |-> Plus(Printed, One(res))]
    <3>1. n \in 1..n /\ frames[n] = stack[n]
      BY <1>1
    <3> QED  BY <1>6, <3>1 DEF FinishTest, PrintLine
  <2>2. n - 1 \in 1..Len(stack) /\ n \in Nat /\ n - 1 \in Int /\ 1 <= n - 1
    BY <1>1, <1>2
  <2>3. /\ SubSeq(frames, 1, n - 1) \in Seq(Frames)
        /\ Len(SubSeq(frames, 1, n - 1)) = n - 1
        /\ \A d \in 1..n - 1 : SubSeq(frames, 1, n - 1)[d] = stack[d]
    <3> DEFINE s == SubSeq(frames, 1, n - 1)
    <3>1. \A i \in 1..n - 1 : frames[i] \in Frames /\ frames[i] = stack[i]
      BY <1>1, <2>2
    <3>2. /\ s \in Seq(Frames)
          /\ Len(s) = IF 1 <= n - 1 THEN n - 1 - 1 + 1 ELSE 0
          /\ \A i \in 1 .. n - 1 - 1 + 1 : s[i] = frames[1 + i - 1]
      BY <2>2, <3>1, SubSeqProperties
    <3> HIDE DEF s
    <3>3. n - 1 - 1 + 1 = n - 1 /\ \A i \in 1..n - 1 : 1 + i - 1 = i
      BY <2>2
    <3> QED  BY <2>2, <3>1, <3>2, <3>3 DEF s
  <2>4. CutTo(stack', n - 1)
    BY <2>1, <2>3 DEF CutTo
  <2>5. n - 1 < jump_dest
    BY <1>2, <2>2
  <2>6. FramesOK'
    BY <2>1, <2>2, <2>4, <2>5, CutFramesOK
  <2>7. suite' \in Counters
    <3>1. suite \in Counters
      BY <1>1 DEF TypeOK
    <3> QED  BY <2>1, <3>1, PlusType DEF One, Counters, Verdicts
  <2>8. line' \in Lines
    <3>1. Plus(Printed, One(res)) \in Counters
      BY <1>1, PrintedType, PlusType DEF One, Counters, Verdicts
    <3> QED  BY <1>1, <2>1, <3>1 DEF Lines, TypeOK, Frames
  <2>9. stack' # <<>>
    <3>1. stack' \in Seq(Frames) /\ Len(stack') = n - 1
      BY <2>1, <2>3
    <3> QED  BY <2>2, <3>1
  <2>10. TypeOK'
    BY <1>1, <1>5, <2>1, <2>3, <2>7, <2>8, <2>9 DEF TypeOK
  <2> QED  BY <1>3, <1>4, <2>6, <2>10 DEF IInv, ListOnlyCountsNone
<1>7. CASE TestPost(frames, res) /\ ~FinishTest(frames, res)
  <2> DEFINE g == [stack[n] EXCEPT !.kind = "teardown", !.res = res, !.hook = teardown]
  <2>1. /\ stack' = [frames EXCEPT ![n] = g]
        /\ UNCHANGED <<running_test, line, suite, name_suffix>>
    <3>1. n \in 1..n /\ frames[n] = stack[n]
      BY <1>1
    <3> QED  BY <1>7, <3>1 DEF TestPost
  <2>2. g \in Frames
    BY <1>1, KindFacts DEF TypeOK, Frames
  <2>3. g.kind = "teardown" /\ g.res = res
    BY <1>1 DEF Frames
  <2> HIDE DEF g
  <2>4. /\ stack' \in Seq(Frames) /\ Len(stack') = n
        /\ \A d \in 1..n : stack'[d] = IF d = n THEN g ELSE frames[d]
    BY <1>1, <2>1, <2>2, ExceptSeq
  <2>5. n \in Nat /\ n >= 1 /\ stack' # <<>>
    BY <1>1, <2>4
  <2>6. stack'[n].kind = "teardown" /\ stack'[n].res = res
    BY <2>3, <2>4, <2>5
  <2>7. \A d \in 1..n - 1 : stack'[d].kind = stack[d].kind /\ stack'[d].res = stack[d].res
    BY <2>4, <2>5
  <2>8. FramesOK'
    BY <2>1, <2>4, <2>6, <2>7, TeardownFramesOK
  <2>9. TypeOK'
    BY <1>1, <1>5, <2>1, <2>4, <2>5 DEF TypeOK
  <2> QED  BY <1>3, <1>4, <2>8, <2>9 DEF IInv, ListOnlyCountsNone
<1> QED  BY <1>6, <1>7

(* The top frame, when it is a test, is the one being run.                 *)
LEMMA TopRunning ==
    ASSUME TypeOK, Top.kind \in TestKinds
    PROVE  /\ Len(stack) \in RunningFrames /\ stack \in Seq(Frames)
           /\ ~(InLoop /\ Top.pos = 0)
  BY TopFrame DEF RunningFrames, Top, TypeOK, InLoop, LoopKinds, TestKinds

LEMMA TestReturnKeeps == IInv /\ TestReturn => IInv'
<1> SUFFICES ASSUME IInv, TestReturn PROVE IInv'
  OBVIOUS
<1>1. TypeOK /\ Top.kind \in TestKinds /\ TestPost(stack, "passed")
  BY DEF IInv, TestReturn, TestKinds
<1>2. "passed" \in Verdicts /\ "passed" # "failed"
  BY DEF Verdicts
<1>3. /\ msg' \in Names \union {NULL} /\ assertions' \in Nat /\ status' = status
      /\ UNCHANGED <<flags, total, hookVars, name_buf, jump_dest, prng, calls>>
  BY <1>1 DEF TestReturn, TypeOK
<1> QED  BY <1>1, <1>2, <1>3, TopRunning, TestPostKeeps

LEMMA TeardownReturnKeeps == IInv /\ TeardownReturn => IInv'
<1> SUFFICES ASSUME IInv, TeardownReturn PROVE IInv'
  OBVIOUS
<1>1. TypeOK /\ Top.kind \in TestKinds /\ FinishTest(stack, Top.res)
  BY DEF IInv, TeardownReturn, TestKinds
<1>2. Top.res \in Verdicts
  BY <1>1, TopFrame DEF Frames
<1>3. "ABORT_ON_FAIL" \in flags => Top.res # "failed"
  BY <1>1, TopFrame DEF IInv, FramesOK, AbortReturnsNoFailure, Top
<1>4. /\ msg' \in Names \union {NULL} /\ assertions' \in Nat /\ status' = status
      /\ UNCHANGED <<flags, total, hookVars, name_buf, jump_dest, prng, calls>>
  BY <1>1 DEF TeardownReturn, TypeOK
<1> QED  BY <1>1, <1>2, <1>3, <1>4, TopRunning, TestPostKeeps

(* Nothing changes but the message, the assertion count and the status.    *)
LEMMA QuietKeeps ==
    ASSUME IInv, msg' \in Names \union {NULL}, assertions' \in Nat,
           status' \in {"running", "success", "failure", "aborted", "undefined"},
           UNCHANGED <<flags, running_test, suite, total, setup, teardown, name_suffix, name_buf,
                       jump_dest, prng, stack, line, calls>>
    PROVE  IInv'
<1>1. TypeOK'
  BY DEF IInv, TypeOK
<1>2. FramesOK'
  BY DEF IInv, FramesOK, MainAtBottom, OneTest, NoSetupInTest, ListOnlyStartsNone,
         AbortReturnsNoFailure, RunningFrames
<1>3. ListOnlyCountsNone' /\ ModulusSet'
  BY DEF IInv, ListOnlyCountsNone, ModulusSet, Top
<1> QED  BY <1>1, <1>2, <1>3 DEF IInv

(* longjmp, made by a callback: to the test being run, or astray.          *)
LEMMA JumpKeeps ==
    ASSUME IInv, NEW res \in Verdicts, Jump(res), Unwound, assertions' \in Nat, ~InLoop,
           "ABORT_ON_FAIL" \in flags => res # "failed"
    PROVE  IInv'
<1>1. TypeOK
  BY DEF IInv
<1>2. CASE JumpLive
  <2> DEFINE n == jump_dest
             frames == SubSeq(stack, 1, n)
  <2>1. n \in RunningFrames /\ n \in 1..Len(stack) /\ stack[n] \in Frames
    BY <1>1, <1>2, TopFrame DEF JumpLive, RunningFrames, TestKinds
  <2>2. frames \in Seq(Frames) /\ Len(frames) = n /\ \A d \in 1..n : frames[d] = stack[d]
    BY <1>1, <2>1, CutFrames DEF CutTo
  <2>3. TestPost(frames, res) /\ status' = status /\ msg' = stack[n].name
    BY <1>2 DEF Jump
  <2>4. msg' \in Names \union {NULL}
    BY <2>1, <2>3 DEF Frames
  <2>5. UNCHANGED <<flags, total, hookVars, name_buf, jump_dest, prng, calls>>
    BY DEF Unwound
  <2> HIDE DEF frames, n
  <2> QED  BY <2>1, <2>2, <2>3, <2>4, <2>5, TestPostKeeps
<1>3. CASE ~JumpLive
  <2>1. /\ msg' \in Names \union {NULL}
        /\ status' \in {"running", "success", "failure", "aborted", "undefined"}
        /\ UNCHANGED <<running_test, line, suite, name_suffix, stack>>
    BY <1>3 DEF Jump
  <2> QED  BY <2>1, QuietKeeps DEF Unwound, hookVars
<1> QED  BY <1>2, <1>3

LEMMA RaiseKeeps ==
    ASSUME IInv, Raise, Unwound, assertions' \in Nat, ~InLoop
    PROVE  IInv'
<1>1. CASE "ABORT_ON_FAIL" \in flags
  <2>1. TypeOK /\ (JumpLive => jump_dest \in DOMAIN stack)
    BY DEF IInv, JumpLive
  <2>2. /\ msg' \in Names \union {NULL}
        /\ status' \in {"running", "success", "failure", "aborted", "undefined"}
        /\ UNCHANGED <<running_test, line, suite, name_suffix, stack>>
    BY <1>1, <2>1, TopFrame DEF Raise, Frames
  <2> QED  BY <2>2, QuietKeeps DEF Unwound, hookVars
<1>2. CASE "ABORT_ON_FAIL" \notin flags
  <2>1. Jump("failed") /\ "failed" \in Verdicts
    BY <1>2 DEF Raise, Verdicts
  <2> QED  BY <1>2, <2>1, JumpKeeps
<1> QED  BY <1>1, <1>2

(* The calls the profile allows are made by callbacks, not by a loop.      *)
LEMMA CallbackCalls == ASSUME NEW fn, <<Top.kind, fn>> \in Calls PROVE ~InLoop
  BY CallsAssumption DEF InLoop, LoopKinds, Callbacks

LEMMA FailKeeps == IInv /\ Fail => IInv'
<1> SUFFICES ASSUME IInv, Fail PROVE IInv'
  OBVIOUS
<1>1. Raise /\ Unwound /\ assertions' \in Nat /\ ~InLoop
  BY CallbackCalls DEF Fail, IInv, TypeOK
<1> QED  BY <1>1, RaiseKeeps

LEMMA SkipKeeps == IInv /\ Skip => IInv'
<1> SUFFICES ASSUME IInv, Skip PROVE IInv'
  OBVIOUS
<1>1. Jump("skipped") /\ Unwound /\ assertions' \in Nat /\ ~InLoop
  BY CallbackCalls DEF Skip, IInv, TypeOK
<1>2. "skipped" \in Verdicts /\ "skipped" # "failed"
  BY DEF Verdicts
<1> QED  BY <1>1, <1>2, JumpKeeps

LEMMA AssertKeeps ==
    ASSUME IInv, NEW holds \in BOOLEAN, Assert(holds) PROVE IInv'
<1>1. Unwound /\ assertions' \in Nat /\ ~InLoop
  BY CallbackCalls DEF Assert, IInv, TypeOK
<1>2. CASE holds
  <2>1. UNCHANGED <<running_test, msg, line, suite, name_suffix, stack, status>>
    BY <1>2 DEF Assert
  <2> QED  BY <1>1, <2>1, QuietKeeps DEF Unwound, hookVars, IInv, TypeOK
<1>3. CASE ~holds
  BY <1>1, <1>3, RaiseKeeps DEF Assert
<1> QED  BY <1>2, <1>3

LEMMA RejectSuiteKeeps ==
    ASSUME IInv, NEW name \in Suites, RejectSuite(name) PROVE IInv'
<1> DEFINE p == Tick(prng["SHUFFLE_SUITES"])
<1>1. TypeOK /\ Invoked("RUN_SUITE", name) /\ stack' = Caller /\ Counted
  BY DEF IInv, RejectSuite
<1>2. SameFrames(stack')
  BY <1>1, CallerSame
<1>3. /\ p \in Prng /\ p.initialized = prng["SHUFFLE_SUITES"].initialized
      /\ p.m = prng["SHUFFLE_SUITES"].m
  BY <1>1, TickType, KindFacts DEF TypeOK
<1>4. prng' = prng \/ prng' = [prng EXCEPT !["SHUFFLE_SUITES"] = p]
  BY DEF RejectSuite
<1>5. /\ prng' \in [LoopKinds -> Prng]
      /\ \A k \in LoopKinds :
            prng'[k].initialized = prng[k].initialized /\ prng'[k].m = prng[k].m
  BY <1>1, <1>3, <1>4, KindFacts, PrngReplaced DEF TypeOK
<1>6. TypeOK'
  BY <1>1, <1>2, <1>5, CallType, SameStackType
     DEF RejectSuite, TypeOK, hookVars, nameVars, testVars
<1>7. FramesOK'
  BY <1>2, SameFramesOK DEF RejectSuite, testVars
<1>8. ModulusSet'
  BY <1>1, <1>5, InvokedInBody, ModulusKept
<1> QED  BY <1>6, <1>7, <1>8 DEF IInv, ListOnlyCountsNone, RejectSuite

(* The totals take over the counts of the suite. *)
LEMMA UpdateType ==
    ASSUME IInv, UpdateCountsAndResetSuite
    PROVE  /\ suite' \in Counters /\ total' \in Counters
           /\ setup' \in Owners \union {NULL} /\ teardown' \in Owners \union {NULL}
           /\ flags' = flags => ListOnlyCountsNone'
<1>1. suite \in Counters /\ total \in Counters
  BY DEF IInv, TypeOK
<1>2. /\ total' = Plus(total, suite) /\ suite' = ZeroCounters
      /\ setup' = NULL /\ teardown' = NULL
  BY DEF UpdateCountsAndResetSuite
<1>3. total' \in Counters /\ total'.failed = total.failed + suite.failed
  BY <1>1, <1>2, PlusType
<1>4. suite' \in Counters /\ suite'.failed = 0
  BY <1>2 DEF ZeroCounters, Counters
<1> QED  BY <1>1, <1>2, <1>3, <1>4 DEF IInv, ListOnlyCountsNone, Counters

LEMMA StartSuiteKeeps ==
    ASSUME IInv, NEW name \in Suites, StartSuite(name) PROVE IInv'
<1> DEFINE p == Tick(prng["SHUFFLE_SUITES"])
           q == [p EXCEPT !.count_run = @ + 1]
           base == Printed
           f == Frame("suite", Top.name, name)
           g == [f EXCEPT !.base = base]
<1>1. TypeOK /\ Invoked("RUN_SUITE", name) /\ Counted /\ UpdateCountsAndResetSuite
  BY DEF IInv, StartSuite
<1>2. /\ p \in Prng /\ p.initialized = prng["SHUFFLE_SUITES"].initialized
      /\ p.m = prng["SHUFFLE_SUITES"].m
  BY <1>1, TickType, KindFacts DEF TypeOK
<1>3. /\ q \in Prng /\ q.initialized = prng["SHUFFLE_SUITES"].initialized
      /\ q.m = prng["SHUFFLE_SUITES"].m
  BY <1>2, TickType
<1>4. prng' = [prng EXCEPT !["SHUFFLE_SUITES"] = q]
  BY DEF StartSuite
<1> HIDE DEF p, q
<1>5. /\ prng' \in [LoopKinds -> Prng]
      /\ \A k \in LoopKinds :
            prng'[k].initialized = prng[k].initialized /\ prng'[k].m = prng[k].m
  BY <1>1, <1>3, <1>4, KindFacts, PrngReplaced
<1>6. f \in Frames /\ f.kind = "suite" /\ f.res = "passed"
  <2>1. Top.name \in Names \union {NULL} /\ name \in Owners
    BY <1>1, TopFrame DEF Frames, Owners
  <2> QED  BY <2>1, FrameType, KindFacts
<1>7. base \in Counters
  BY <1>1, PrintedType
<1>8. stack' = Append(CallerRan, g)
  BY DEF StartSuite
<1> HIDE DEF f, base
<1>9. g \in Frames
  BY <1>6, <1>7 DEF Frames
<1>10. g.kind = "suite" /\ g.res = "passed"
  BY <1>6 DEF Frames
<1> HIDE DEF g
<1>11. Pushed(stack', g)
  BY <1>1, <1>8, <1>9, CallerRanSame, PushFrame
<1>12. stack' \in Seq(Frames) /\ stack' # <<>>
  BY <1>1, <1>11, TopFrame DEF Pushed
<1>13. TypeOK'
  BY <1>1, <1>5, <1>12, CallType, UpdateType DEF StartSuite, TypeOK, nameVars, testVars
<1>14. FramesOK'
  <2>1. UNCHANGED <<flags, running_test, jump_dest>>
    BY DEF StartSuite, testVars
  <2> QED  BY <1>9, <1>10, <1>11, <2>1, PushFramesOK DEF TestKinds
<1>15. ModulusSet'
  BY <1>1, <1>5, InvokedInBody, ModulusKept
<1> QED  BY <1>1, <1>13, <1>14, <1>15, UpdateType DEF IInv, StartSuite

(* Above the frame under the top there is only the top. *)
LEMMA OnlyTop == ASSUME NEW m \in Nat, NEW d \in m - 1 + 1..m PROVE d = m
  OBVIOUS

LEMMA SuiteReturnKeeps == IInv /\ SuiteReturn => IInv'
<1> SUFFICES ASSUME IInv, SuiteReturn PROVE IInv'
  OBVIOUS
<1> DEFINE n == Len(stack) - 1
<1>1. TypeOK /\ Top.kind = "suite" /\ stack' = SubSeq(stack, 1, n)
  BY DEF IInv, SuiteReturn
<1>2. Len(stack) # 1
  BY <1>1, TopFrame DEF IInv, FramesOK, MainAtBottom, Top
<1>3. n \in 1..Len(stack) /\ n + 1 = Len(stack) /\ n >= 1
  BY <1>1, <1>2, TopFrame
<1>4. CutTo(stack', n)
  BY <1>1, <1>3, CutFrames
<1>5. stack' \in Seq(Frames) /\ stack' # <<>>
  BY <1>3, <1>4 DEF CutTo
<1>6. TypeOK'
  BY <1>1, <1>5 DEF SuiteReturn, TypeOK, hookVars, nameVars, testVars
<1>7. FramesOK'
  <2>1. UNCHANGED <<flags, jump_dest, running_test>>
    BY DEF SuiteReturn, testVars
  <2>2. \A d \in n + 1..Len(stack) : d = Len(stack)
    BY <1>1, TopFrame, OnlyTop
  <2>3. \A d \in n + 1..Len(stack) : stack[d].kind \notin TestKinds
    BY <1>1, <2>2 DEF TestKinds, Top
  <2> HIDE DEF n
  <2> QED  BY <1>3, <1>4, <2>1, <2>3, CutFramesOK
<1>8. ModulusSet'
  <2>1. ~InLoop
    BY <1>1 DEF InLoop, LoopKinds
  <2> QED  BY <2>1, ModulusKept DEF SuiteReturn
<1> QED  BY <1>6, <1>7, <1>8 DEF IInv, ListOnlyCountsNone, SuiteReturn

LEMMA ShuffleInitKeeps ==
    ASSUME IInv, NEW kind \in LoopKinds, ShuffleInit(kind) PROVE IInv'
<1>1. TypeOK /\ ~InLoop /\ Invoked(kind, NULL) /\ Counted
  BY DEF IInv, ShuffleInit
<1>2. PICK seed \in Seeds, body \in Blocks[kind] :
        /\ prng' = [prng EXCEPT ![kind] =
                      [ZeroPrng EXCEPT !.random_order = TRUE,
                                       !.state = MaskedSeed(seed),
                                       !.a = Multiplier(MaskedSeed(seed)),
                                       !.m = prng[kind].m,
                                       !.count_ceil = prng[kind].count_ceil]]
        /\ stack' = Append(stack, [Frame(kind, Top.name, Top.owner) EXCEPT !.body = body])
  BY DEF ShuffleInit
<1> DEFINE q == [ZeroPrng EXCEPT !.random_order = TRUE,
                                 !.state = MaskedSeed(seed),
                                 !.a = Multiplier(MaskedSeed(seed)),
                                 !.m = prng[kind].m,
                                 !.count_ceil = prng[kind].count_ceil]
           f == Frame(kind, Top.name, Top.owner)
           g == [f EXCEPT !.body = body]
<1>3. q \in Prng /\ ~q.initialized
  <2>1. MaskedSeed(seed) \in Nat
    BY SeedsAssumption DEF MaskedSeed
  <2>2. Multiplier(MaskedSeed(seed)) \in Nat
    BY <2>1 DEF Multiplier
  <2>3. prng[kind] \in Prng
    BY <1>1 DEF TypeOK
  <2> QED  BY <2>1, <2>2, <2>3 DEF Prng, ZeroPrng
<1>4. f \in Frames /\ f.kind = kind /\ f.res = "passed"
  <2>1. Top.name \in Names \union {NULL} /\ Top.owner \in Owners
    BY <1>1, TopFrame DEF Frames
  <2> QED  BY <2>1, FrameType, KindFacts
<1>5. body \in Seq(Items)
  BY BlocksAssumption
<1> HIDE DEF q, f
<1>6. g \in Frames
  BY <1>4, <1>5 DEF Frames
<1>7. g.kind = kind /\ g.res = "passed"
  BY <1>4 DEF Frames
<1>8. prng' = [prng EXCEPT ![kind] = q] /\ stack' = Append(stack, g)
  BY <1>2 DEF q, f
<1> HIDE DEF g
<1>9. SameFrames(stack)
  BY <1>1 DEF SameFrames, TypeOK
<1>10. Pushed(stack', g)
  BY <1>1, <1>6, <1>8, <1>9, PushFrame
<1>11. stack' \in Seq(Frames) /\ stack' # <<>>
  BY <1>1, <1>10, TopFrame DEF Pushed
<1>12. /\ prng' \in [LoopKinds -> Prng] /\ prng'[kind] = q
       /\ \A l \in LoopKinds : l # kind => prng'[l] = prng[l]
  BY <1>1, <1>3, <1>8, PrngReplaced
<1>13. TypeOK'
  BY <1>1, <1>11, <1>12, CallType DEF ShuffleInit, TypeOK, hookVars, nameVars, testVars
<1>14. FramesOK'
  <2>1. UNCHANGED <<flags, running_test, jump_dest>>
    BY DEF ShuffleInit, testVars
  <2>2. g.kind \notin TestKinds \union {"main", "setup"}
    BY <1>7, KindFacts
  <2> QED  BY <1>6, <1>7, <1>10, <2>1, <2>2, PushFramesOK
<1>15. ModulusSet'
  BY <1>1, <1>3, <1>12, ModulusKept
<1> QED  BY <1>13, <1>14, <1>15 DEF IInv, ListOnlyCountsNone, ShuffleInit

LEMMA ShuffleRunningKeeps == IInv /\ ShuffleRunning => IInv'
<1> SUFFICES ASSUME IInv, ShuffleRunning PROVE IInv'
  OBVIOUS
<1> DEFINE k == Top.kind
<1>1. TypeOK /\ k \in LoopKinds /\ Top.pos = 0
  BY DEF IInv, ShuffleRunning, InLoop
<1>2. prng[k] \in Prng /\ prng \in [LoopKinds -> Prng]
  BY <1>1 DEF TypeOK
<1>3. \A l \in LoopKinds : l # k /\ prng[l].initialized => prng[l].m > 0
  BY DEF IInv, ModulusSet
<1>4. /\ UNCHANGED <<flags, suite, total, hookVars, nameVars, testVars, calls, status>>
      /\ UNCHANGED <<flags, running_test, jump_dest>>
  BY DEF ShuffleRunning, testVars
<1>5. CASE Running(prng[k])
  <2>1. Goto(1) /\ UNCHANGED prng
    BY <1>5 DEF ShuffleRunning
  <2>2. SameFrames(stack')
    BY <1>1, <2>1, GotoSame
  <2>3. stack' \in Seq(Frames) /\ stack' # <<>>
    BY <1>1, <2>2, SameStackType
  <2>4. TypeOK'
    BY <1>1, <1>4, <2>1, <2>3 DEF TypeOK, hookVars, nameVars, testVars
  <2>5. FramesOK'
    BY <1>4, <2>2, SameFramesOK
  <2>6. ModulusSet'
    <3>1. prng[k].initialized => prng[k].count_ceil # 0
      BY <1>2, <1>5 DEF Running, Prng
    <3>2. prng[k].initialized => prng[k].m > 0
      BY <1>1, <3>1 DEF IInv, ModulusSet
    <3> QED  BY <1>3, <2>1, <3>2 DEF ModulusSet
  <2> QED  BY <1>4, <2>4, <2>5, <2>6 DEF IInv, ListOnlyCountsNone
<1>6. CASE ~Running(prng[k])
  <2> DEFINE n == Len(stack) - 1
  <2>1. stack' = SubSeq(stack, 1, n) /\ prng' = [prng EXCEPT ![k] = ZeroPrng]
    BY <1>6 DEF ShuffleRunning
  <2>2. Len(stack) # 1
    BY <1>1, TopFrame, KindFacts DEF IInv, FramesOK, MainAtBottom, Top
  <2>3. n \in 1..Len(stack) /\ n + 1 = Len(stack) /\ n >= 1
    BY <1>1, <2>2, TopFrame
  <2>4. CutTo(stack', n)
    BY <1>1, <2>1, <2>3, CutFrames
  <2>5. stack' \in Seq(Frames) /\ stack' # <<>>
    BY <2>3, <2>4 DEF CutTo
  <2>6. ZeroPrng \in Prng /\ ~ZeroPrng.initialized
    BY DEF ZeroPrng, Prng
  <2>7. /\ prng' \in [LoopKinds -> Prng] /\ prng'[k] = ZeroPrng
        /\ \A l \in LoopKinds : l # k => prng'[l] = prng[l]
    BY <1>1, <2>1, <2>6, PrngReplaced
  <2>8. TypeOK'
    BY <1>1, <1>4, <2>5, <2>7 DEF TypeOK, hookVars, nameVars, testVars
  <2>9. FramesOK'
    <3>1. \A d \in n + 1..Len(stack) : d = Len(stack)
      BY <1>1, TopFrame, OnlyTop
    <3>2. \A d \in n + 1..Len(stack) : stack[d].kind \notin TestKinds
      BY <1>1, <3>1, KindFacts DEF Top
    <3> HIDE DEF n
    <3> QED  BY <1>4, <2>3, <2>4, <3>2, CutFramesOK
  <2>10. ModulusSet'
    BY <1>3, <2>6, <2>7 DEF ModulusSet
  <2> QED  BY <1>4, <2>8, <2>9, <2>10 DEF IInv, ListOnlyCountsNone
<1> QED  BY <1>5, <1>6

(* A round of the generator keeps it one. *)
LEMMA DrawType ==
    ASSUME NEW p \in Prng, p.m > 0
    PROVE  /\ Draw(p) \in Prng
           /\ Draw(p).initialized = p.initialized /\ Draw(p).m = p.m
<1> DEFINE x == p.a % p.m
           y == p.state % p.m
           z == Increment % p.m
<1>1. x \in Nat /\ y \in Nat /\ z \in Nat /\ p.m \in Nat
  BY DEF Prng, Increment
<1>2. x * y + z \in Nat
  <2> HIDE DEF x, y, z
  <2> QED  BY <1>1
<1>3. (x * y + z) % p.m \in Nat
  <2> DEFINE w == x * y + z
  <2>1. w \in Nat
    BY <1>2
  <2> HIDE DEF w
  <2>2. w % p.m \in Nat
    BY <1>1, <2>1
  <2> QED  BY <2>2 DEF w
<1>4. Draw(p) = [p EXCEPT !.state = (x * y + z) % p.m]
  BY DEF Draw
<1> HIDE DEF x, y, z
<1> DEFINE v == (x * y + z) % p.m
<1> HIDE DEF v
<1>5. v \in Nat /\ Draw(p) = [p EXCEPT !.state = v]
  BY <1>3, <1>4 DEF v
<1> QED  BY <1>5 DEF Prng

(* A step inside itest_shuffle_next.                                       *)
LEMMA GeneratorKeeps ==
    ASSUME IInv, status = "running", InLoop, NEW q \in Prng, NEW n \in Nat,
           prng' = [prng EXCEPT ![Top.kind] = q],
           UNCHANGED stack \/ Goto(n),
           Top.pos # 0,
           q.initialized => q.m > 0 \/ (q.count_ceil = 0 /\ n = 0 /\ Goto(n)),
           UNCHANGED <<flags, suite, total, hookVars, nameVars, testVars, calls, status>>
    PROVE  IInv'
<1> DEFINE k == Top.kind
<1>1. TypeOK /\ k \in LoopKinds
  BY DEF IInv, InLoop
<1>2. SameFrames(stack)
  BY <1>1 DEF SameFrames, TypeOK
<1>3. SameFrames(stack')
  <2>1. CASE Goto(n)
    BY <1>1, <2>1, GotoSame
  <2>2. CASE UNCHANGED stack
    BY <1>2, <2>2
  <2> QED  BY <2>1, <2>2
<1>4. stack' \in Seq(Frames) /\ stack' # <<>>
  BY <1>1, <1>3, SameStackType
<1>5. /\ prng' \in [LoopKinds -> Prng] /\ prng'[k] = q
      /\ \A l \in LoopKinds : l # k => prng'[l] = prng[l]
  BY <1>1, PrngReplaced
<1>6. TypeOK'
  BY <1>1, <1>4, <1>5 DEF TypeOK, hookVars, nameVars, testVars
<1>7. FramesOK'
  BY <1>3, SameFramesOK DEF testVars
<1>8. \A l \in LoopKinds : l # k /\ prng[l].initialized => prng[l].m > 0
  BY ModulusNow
<1>9. ModulusSet'
  <2>1. CASE q.initialized => q.m > 0
    BY <1>5, <1>8, <2>1 DEF ModulusSet
  <2>2. CASE q.count_ceil = 0 /\ n = 0 /\ Goto(n)
    <3> DEFINE g == [Top EXCEPT !.pos = n]
    <3>1. g.pos = 0 /\ g.kind = k
      BY <1>1, <2>2, TopFrame DEF Frames
    <3>2. g \in Frames
      BY <1>1, PosFrame
    <3>3. Len(stack') = Len(stack) /\ Len(stack) \in DOMAIN stack
      BY <1>1, <1>3, TopFrame DEF SameFrames
    <3> HIDE DEF g
    <3>4. Top' = g
      BY <2>2, <3>3 DEF Goto, ReplaceTop, Top, g
    <3> QED  BY <1>5, <1>8, <2>2, <3>1, <3>4 DEF ModulusSet
  <2> QED  BY <2>1, <2>2
<1> QED  BY <1>6, <1>7, <1>9 DEF IInv, ListOnlyCountsNone

(* The position past the calls is not the condition's. *)
LEMMA PastCalls ==
    ASSUME TypeOK
    PROVE  Len(Top.body) + 1 # 0 /\ Len(Top.body) + 2 # 0 /\ Len(Top.body) + 2 \in Nat
<1>1. Top.body \in Seq(Items)
  BY TopFrame DEF Frames
<1>2. Len(Top.body) \in Nat
  BY <1>1
<1> QED  BY <1>2

LEMMA ShuffleNextKeeps == IInv /\ ShuffleNext => IInv'
<1> SUFFICES ASSUME IInv, ShuffleNext PROVE IInv'
  OBVIOUS
<1> DEFINE p == prng[Top.kind]
           drawn == Draw(p)
           reset == [drawn EXCEPT !.count = 0]
<1>1. /\ TypeOK /\ status = "running" /\ InLoop /\ Top.kind \in LoopKinds /\ p.initialized
      /\ UNCHANGED <<flags, suite, total, hookVars, nameVars, testVars, calls, status>>
  BY DEF IInv, ShuffleNext, AtNext, InLoop
<1>2. Top.pos # 0
  BY <1>1, PastCalls DEF ShuffleNext, AtNext
<1>3. p \in Prng /\ p.m > 0
  BY <1>1, <1>2, ModulusNow DEF TypeOK
<1>4. drawn \in Prng /\ drawn.m > 0
  BY <1>3, DrawType
<1>5. \/ prng' = [prng EXCEPT ![Top.kind] = drawn] /\ UNCHANGED stack
      \/ prng' = [prng EXCEPT ![Top.kind] = reset] /\ Goto(0)
  BY DEF ShuffleNext
<1> HIDE DEF drawn, p
<1>6. reset \in Prng /\ reset.m > 0
  BY <1>4 DEF Prng
<1> HIDE DEF reset
<1>7. CASE prng' = [prng EXCEPT ![Top.kind] = drawn] /\ UNCHANGED stack
  BY <1>1, <1>2, <1>4, <1>7, GeneratorKeeps
<1>8. CASE prng' = [prng EXCEPT ![Top.kind] = reset] /\ Goto(0)
  BY <1>1, <1>2, <1>6, <1>8, GeneratorKeeps
<1> QED  BY <1>5, <1>7, <1>8

LEMMA InitSecondPassKeeps == IInv /\ InitSecondPass => IInv'
<1> SUFFICES ASSUME IInv, InitSecondPass PROVE IInv'
  OBVIOUS
<1> DEFINE p == prng[Top.kind]
           counted == [p EXCEPT !.initialized = TRUE, !.count_ceil = p.count]
           doubling == [counted EXCEPT !.m = 1]
<1>1. /\ TypeOK /\ status = "running" /\ InLoop /\ Top.kind \in LoopKinds
      /\ UNCHANGED <<flags, suite, total, hookVars, nameVars, testVars, calls, status>>
  BY DEF IInv, InitSecondPass, AtNext, InLoop
<1>2. Top.pos # 0 /\ Len(Top.body) + 2 \in Nat
  BY <1>1, PastCalls DEF InitSecondPass, AtNext
<1>3. p \in Prng
  BY <1>1 DEF TypeOK
<1>4. \/ /\ p.count = 0 /\ prng' = [prng EXCEPT ![Top.kind] = counted] /\ Goto(0)
      \/ /\ prng' = [prng EXCEPT ![Top.kind] = doubling] /\ Goto(Len(Top.body) + 2)
  BY DEF InitSecondPass
<1> HIDE DEF p
<1>5. counted \in Prng /\ counted.count_ceil = p.count
  BY <1>3 DEF Prng
<1> HIDE DEF counted
<1>6. doubling \in Prng /\ doubling.m > 0
  BY <1>5 DEF Prng
<1> HIDE DEF doubling
<1>7. CASE p.count = 0 /\ prng' = [prng EXCEPT ![Top.kind] = counted] /\ Goto(0)
  <2>1. counted.count_ceil = 0 /\ 0 \in Nat
    BY <1>5, <1>7
  <2> DEFINE n == 0
  <2>2. /\ n \in Nat /\ (UNCHANGED stack \/ Goto(n))
        /\ counted.m > 0 \/ (counted.count_ceil = 0 /\ n = 0 /\ Goto(n))
    BY <1>7, <2>1
  <2> HIDE DEF n
  <2> QED  BY <1>1, <1>2, <1>5, <1>7, <2>2, GeneratorKeeps
<1>8. CASE prng' = [prng EXCEPT ![Top.kind] = doubling] /\ Goto(Len(Top.body) + 2)
  BY <1>1, <1>2, <1>6, <1>8, GeneratorKeeps
<1> QED  BY <1>4, <1>7, <1>8

LEMMA DoubleModulusKeeps == IInv /\ DoubleModulus => IInv'
<1> SUFFICES ASSUME IInv, DoubleModulus PROVE IInv'
  OBVIOUS
<1> DEFINE p == prng[Top.kind]
           doubled == [p EXCEPT !.m = 2 * @]
           reset == [p EXCEPT !.count = 0]
<1>1. /\ TypeOK /\ status = "running" /\ InLoop /\ Top.kind \in LoopKinds
      /\ UNCHANGED <<flags, suite, total, hookVars, nameVars, testVars, calls, status>>
  BY DEF IInv, DoubleModulus, InLoop
<1>2. Top.pos # 0
  BY <1>1, PastCalls DEF DoubleModulus
<1>3. p \in Prng
  BY <1>1 DEF TypeOK
<1>4. \/ prng' = [prng EXCEPT ![Top.kind] = doubled] /\ UNCHANGED stack
      \/ prng' = [prng EXCEPT ![Top.kind] = reset] /\ Goto(0)
  BY DEF DoubleModulus
<1>7. p.initialized => p.m > 0
  BY <1>1, <1>2, ModulusNow
<1> HIDE DEF p
<1>5. doubled \in Prng /\ doubled.initialized = p.initialized /\ (p.m > 0 => doubled.m > 0)
  BY <1>3 DEF Prng
<1>6. reset \in Prng /\ reset.initialized = p.initialized /\ reset.m = p.m
  BY <1>3 DEF Prng
<1> HIDE DEF doubled, reset
<1>8. CASE prng' = [prng EXCEPT ![Top.kind] = doubled] /\ UNCHANGED stack
  BY <1>1, <1>2, <1>5, <1>7, <1>8, GeneratorKeeps
<1>9. CASE prng' = [prng EXCEPT ![Top.kind] = reset] /\ Goto(0)
  BY <1>1, <1>2, <1>6, <1>7, <1>9, GeneratorKeeps
<1> QED  BY <1>4, <1>8, <1>9

LEMMA PrintReportKeeps == IInv /\ PrintReport => IInv'
<1> SUFFICES ASSUME IInv, PrintReport PROVE IInv'
  OBVIOUS
<1>1. /\ TypeOK /\ Invoked("PRINT_REPORT", NULL) /\ stack' = Caller /\ Counted
      /\ UNCHANGED <<flags, nameVars, testVars, prng, status>>
  BY DEF IInv, PrintReport
<1>2. SameFrames(stack')
  BY <1>1, CallerSame
<1>3. /\ suite' \in Counters /\ total' \in Counters
      /\ setup' \in Owners \union {NULL} /\ teardown' \in Owners \union {NULL}
      /\ ListOnlyCountsNone'
  <2>1. CASE "LIST_ONLY" \in flags
    BY <1>1, <2>1 DEF PrintReport, IInv, TypeOK, ListOnlyCountsNone, hookVars
  <2>2. CASE "LIST_ONLY" \notin flags
    BY <1>1, <2>2, UpdateType DEF PrintReport
  <2> QED  BY <2>1, <2>2
<1>4. TypeOK'
  BY <1>1, <1>2, <1>3, CallType, SameStackType DEF TypeOK, nameVars, testVars
<1>5. FramesOK'
  BY <1>1, <1>2, SameFramesOK DEF testVars
<1>6. ModulusSet'
  BY <1>1, InvokedInBody, ModulusKept
<1> QED  BY <1>3, <1>4, <1>5, <1>6 DEF IInv

LEMMA MainReturnKeeps == IInv /\ MainReturn => IInv'
<1> SUFFICES ASSUME IInv, MainReturn PROVE IInv'
  OBVIOUS
<1>1. /\ TypeOK /\ Top.kind = "main"
      /\ UNCHANGED <<flags, nameVars, testVars, prng, stack, calls>>
  BY DEF IInv, MainReturn
<1>2. SameFrames(stack')
  BY <1>1 DEF SameFrames, TypeOK
<1>3. /\ suite' \in Counters /\ total' \in Counters
      /\ setup' \in Owners \union {NULL} /\ teardown' \in Owners \union {NULL}
      /\ ListOnlyCountsNone'
  <2>1. CASE "LIST_ONLY" \in flags
    BY <1>1, <2>1 DEF MainReturn, IInv, TypeOK, ListOnlyCountsNone, hookVars
  <2>2. CASE "LIST_ONLY" \notin flags
    BY <1>1, <2>2, UpdateType DEF MainReturn
  <2> QED  BY <2>1, <2>2
<1>4. status' \in {"success", "failure"}
  BY DEF MainReturn
<1>5. TypeOK'
  BY <1>1, <1>3, <1>4 DEF TypeOK, nameVars, testVars
<1>6. FramesOK'
  BY <1>1, <1>2, SameFramesOK DEF testVars
<1>7. ~InLoop
  BY <1>1 DEF InLoop, LoopKinds
<1>8. ModulusSet'
  BY <1>1, <1>7, ModulusKept
<1> QED  BY <1>3, <1>5, <1>6, <1>8 DEF IInv

(***************************************************************************)
(* The invariants, for every client.                                       *)
(***************************************************************************)

LEMMA InitIInv == Init => IInv
<1> SUFFICES ASSUME Init PROVE IInv
  OBVIOUS
<1> DEFINE f == Frame("main", NULL, "main")
<1>1. f \in Frames /\ f.kind = "main" /\ f.res = "passed"
  BY FrameType DEF Kinds, Callbacks, Owners
<1>2. stack = <<f>>
  BY DEF Init
<1> HIDE DEF f
<1>3. /\ stack \in Seq(Frames) /\ stack # <<>> /\ Len(stack) = 1 /\ DOMAIN stack = {1}
      /\ stack[1].kind = "main" /\ stack[1].res = "passed"
  BY <1>1, <1>2
<1>4. ZeroPrng \in Prng /\ ~ZeroPrng.initialized /\ ZeroCounters \in Counters
      /\ ZeroCounters.failed = 0
  BY DEF ZeroPrng, Prng, ZeroCounters, Counters
<1>5. TypeOK
  BY <1>3, <1>4 DEF Init, TypeOK
<1>6. FramesOK
  BY <1>3 DEF Init, FramesOK, MainAtBottom, OneTest, NoSetupInTest, ListOnlyStartsNone,
              AbortReturnsNoFailure, RunningFrames, TestKinds
<1>7. ListOnlyCountsNone /\ ModulusSet
  BY <1>4 DEF Init, ListOnlyCountsNone, ModulusSet
<1> QED  BY <1>5, <1>6, <1>7 DEF IInv

LEMMA NextIInv == IInv /\ [Next]_vars => IInv'
<1> SUFFICES ASSUME IInv, [Next]_vars PROVE IInv'
  OBVIOUS
<1>1. ASSUME NEW suffix \in Suffixes, SetSuffix(suffix) PROVE IInv'
  BY <1>1, SetSuffixKeeps
<1>2. ASSUME NEW test \in Tests, RejectTest(test) \/ NestedTest(test) \/ StartTest(test)
      PROVE  IInv'
  BY <1>2, RejectTestKeeps, NestedTestKeeps, StartTestKeeps
<1>3. ASSUME NEW holds \in BOOLEAN, Assert(holds) PROVE IInv'
  BY <1>3, AssertKeeps
<1>4. ASSUME NEW name \in Suites, RejectSuite(name) \/ StartSuite(name) PROVE IInv'
  BY <1>4, RejectSuiteKeeps, StartSuiteKeeps
<1>5. ASSUME NEW kind \in LoopKinds, ShuffleInit(kind) PROVE IInv'
  BY <1>5, ShuffleInitKeeps
<1>6. CASE UNCHANGED vars
  <2>1. /\ msg' \in Names \union {NULL} /\ assertions' \in Nat
        /\ status' \in {"running", "success", "failure", "aborted", "undefined"}
    BY <1>6 DEF IInv, TypeOK, vars, testVars
  <2> QED  BY <1>6, <2>1, QuietKeeps DEF vars, testVars, hookVars, nameVars
<1> QED  BY <1>1, <1>2, <1>3, <1>4, <1>5, <1>6, SetSetupKeeps, SetTeardownKeeps, SetupReturnKeeps,
            TestReturnKeeps, TeardownReturnKeeps, FailKeeps, SkipKeeps, SuiteReturnKeeps,
            ShuffleRunningKeeps, ShuffleNextKeeps, InitSecondPassKeeps, DoubleModulusKeeps,
            PrintReportKeeps, MainReturnKeeps DEF Next, Terminated

(* The type invariant and the agreement of frames, flags and generators    *)
(* hold in every state of the runner, whatever its client does.            *)
THEOREM RunnerInvariant == Spec => []IInv
  BY InitIInv, NextIInv, PTL DEF Spec

(* The variables keep to their types. *)
THEOREM TypeCorrect == Spec => []TypeOK
<1>1. IInv => TypeOK
  BY DEF IInv
<1> QED  BY <1>1, RunnerInvariant, PTL

(* At most one test is being run, and jump_dest leads to it.               *)
THEOREM OneTestCorrect == Spec => []OneTest
<1>1. IInv => OneTest
  BY DEF IInv, FramesOK
<1> QED  BY <1>1, RunnerInvariant, PTL
=============================================================================
