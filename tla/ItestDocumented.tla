---------------------------- MODULE ItestDocumented ---------------------------
(***************************************************************************)
(* Proofs, for every client that keeps to the documented use, of what      *)
(* suites report, whose hooks run, what result lines say, where jumps lead *)
(* and what first-fail mode stops.                                         *)
(***************************************************************************)
EXTENDS ItestProofs

(***************************************************************************)
(* The inductive invariant.                                                *)
(***************************************************************************)

Leaves == {"setup", "test", "teardown"}

(* Tests and hooks call nothing that pushes a frame.                       *)
LeafOnTop == \A d \in DOMAIN stack : stack[d].kind \in Leaves => d = Len(stack)

(* What is above a suite's frame is the suite's: there is one at most.     *)
OwnersNest ==
    \A d, e \in DOMAIN stack :
        d <= e /\ stack[d].owner \in Suites => stack[e].owner = stack[d].owner

(* What a frame says about the counts, the hooks, the name and the message *)
(* that itest_info has while the frame is there.                           *)
SuiteFrameOK(f) == f.kind = "suite" => f.owner \in Suites /\ Plus(f.base, suite) = Printed
OwnerFrameOK(f) ==
    /\ f.kind \in {"main", "SHUFFLE_SUITES"} => f.owner = "main"
    /\ f.kind = "SHUFFLE_TESTS" => \A i \in DOMAIN f.body : f.body[i][1] # "RUN_SUITE"
HookFrameOK(f) ==
    f.owner \in Suites =>
        /\ setup \in {NULL, f.owner} /\ teardown \in {NULL, f.owner}
        /\ f.kind \in {"setup", "teardown"} => f.hook = f.owner
NameFrameOK(f) ==
    /\ f.kind \in Leaves => name_buf = f.name
    /\ f.kind = "teardown" /\ f.res # "passed" => msg = f.name
FailFrameOK(f) == f.kind \in Leaves /\ "FIRST_FAIL" \in flags => suite.failed = 0
FrameOK(f) == /\ SuiteFrameOK(f) /\ OwnerFrameOK(f) /\ HookFrameOK(f)
              /\ NameFrameOK(f) /\ FailFrameOK(f)

DInv ==
    /\ DocumentedUse
    /\ \A d \in DOMAIN stack : FrameOK(stack[d])
    /\ LeafOnTop /\ OwnersNest
    /\ LineIsAboutItsTest /\ FirstFailPerSuite /\ NoStrayJump

(***************************************************************************)
(* The stack.                                                              *)
(***************************************************************************)

(* f is g, further on in its calls. *)
Like(f, g) ==
    /\ f.kind = g.kind /\ f.name = g.name /\ f.owner = g.owner /\ f.hook = g.hook
    /\ f.res = g.res /\ f.body = g.body /\ f.base = g.base
LikeStack(s) ==
    /\ s \in Seq(Frames) /\ Len(s) = Len(stack)
    /\ \A d \in DOMAIN stack : Like(s[d], stack[d])

(* The top of the stack replaced by one further on. *)
LEMMA ReplaceLike ==
    ASSUME TypeOK, NEW f \in Frames, Like(f, Top)
    PROVE  LikeStack(ReplaceTop(f))
<1>1. stack \in Seq(Frames)
  BY DEF TypeOK
<1> DEFINE s == [stack EXCEPT ![Len(stack)] = f]
<1>2. /\ s \in Seq(Frames) /\ Len(s) = Len(stack)
      /\ \A d \in 1..Len(stack) : s[d] = IF d = Len(stack) THEN f ELSE stack[d]
  BY <1>1, TopFrame, ExceptSeq
<1> HIDE DEF s
<1>3. LikeStack(s)
  BY <1>2, TopFrame DEF LikeStack, Like, Top
<1> QED  BY <1>3 DEF ReplaceTop, s

LEMMA GotoLike == ASSUME TypeOK, NEW n \in Nat, Goto(n) PROVE LikeStack(stack')
<1> DEFINE f == [Top EXCEPT !.pos = n]
<1>1. f \in Frames /\ Like(f, Top)
  BY TopFrame DEF Frames, Like
<1> QED  BY <1>1, ReplaceLike DEF Goto

LEMMA StackLike == TypeOK => LikeStack(stack)
  BY DEF TypeOK, LikeStack, Like

LEMMA CallerLike == ASSUME TypeOK PROVE LikeStack(Caller) /\ LikeStack(CallerRan)
<1> DEFINE f == [Advanced EXCEPT !.ran = Append(@, Top.pos)]
<1>1. Top.pos + 1 \in Nat
  BY TopFrame DEF Frames
<1>2. Advanced \in Frames /\ Like(Advanced, Top)
  BY <1>1, TopFrame DEF Advanced, Frames, Like
<1>3. Append(Advanced.ran, Top.pos) \in Seq(Nat)
  BY <1>2, TopFrame DEF Frames
<1>4. f \in Frames /\ Like(f, Advanced)
  BY <1>2, <1>3 DEF Frames, Like
<1>5. Like(f, Top)
  BY <1>2, <1>4 DEF Like
<1> QED  BY <1>2, <1>4, <1>5, StackLike, ReplaceLike DEF Caller, CallerRan

(***************************************************************************)
(* Steps that leave the frames alone.                                      *)
(***************************************************************************)

(* A stack like this one has the same leaves and owners.                   *)
LEMMA LikeShape ==
    ASSUME TypeOK, LeafOnTop, OwnersNest, LikeStack(stack')
    PROVE  LeafOnTop' /\ OwnersNest' /\ DOMAIN stack' = DOMAIN stack
<1>1. DOMAIN stack' = DOMAIN stack
  BY TopFrame DEF LikeStack
<1>2. LeafOnTop'
  BY <1>1 DEF LikeStack, Like, LeafOnTop
<1>3. OwnersNest'
  BY <1>1 DEF LikeStack, Like, OwnersNest
<1> QED  BY <1>1, <1>2, <1>3

(* A call that changes neither counts nor hooks nor lines; one that        *)
(* renames the test is not made by a test or a hook, and the message is    *)
(* only set by a test.                                                     *)
LEMMA LikeKeeps ==
    ASSUME TypeOK, DInv, LikeStack(stack'), status' # "undefined",
           UNCHANGED <<flags, suite, line, setup, teardown>>,
           UNCHANGED name_buf \/ Top.kind \notin Leaves,
           UNCHANGED msg \/ Top.kind = "test"
    PROVE  DInv'
<1>1. LeafOnTop' /\ OwnersNest' /\ DOMAIN stack' = DOMAIN stack
  BY LikeShape DEF DInv
<1>2. ASSUME NEW d \in DOMAIN stack PROVE FrameOK(stack[d])'
  <2>1. Like(stack'[d], stack[d]) /\ FrameOK(stack[d])
    BY <1>2 DEF DInv, LikeStack
  <2>2. /\ UNCHANGED name_buf \/ stack[d].kind \notin Leaves
        /\ UNCHANGED msg \/ stack[d].kind # "teardown"
    BY <1>2 DEF DInv, LeafOnTop, Top, Leaves
  <2> QED  BY <2>1, <2>2 DEF Like, FrameOK, SuiteFrameOK, OwnerFrameOK, HookFrameOK, NameFrameOK,
              FailFrameOK, Printed, Leaves
<1>3. LineIsAboutItsTest' /\ FirstFailPerSuite' /\ NoStrayJump'
  BY DEF DInv, LineIsAboutItsTest, FirstFailPerSuite, NoStrayJump
<1> QED  BY <1>1, <1>2, <1>3 DEF DInv, DocumentedUse, DocumentedCalls

(* Whoever calls anything but an assertion or a jump is no leaf.           *)
LEMMA CallerIsNoLeaf ==
    ASSUME TypeOK, DInv, NEW fn, NEW arg, Invoked(fn, arg), fn # "ASSERT"
    PROVE  /\ fn \notin {"ASSERT_FALSE", "FAIL", "SKIP"} => Top.kind \notin Leaves
           /\ FrameOK(Top) /\ Len(stack) \in DOMAIN stack
<1>1. FrameOK(Top) /\ Len(stack) \in DOMAIN stack
  BY TopFrame DEF DInv, Top
<1>2. CASE InLoop
  BY <1>1, <1>2 DEF InLoop, LoopKinds, Leaves
<1>3. CASE ~InLoop
  <2>1. <<Top.kind, fn>> \in DocumentedCalls
    BY <1>3 DEF Invoked, DInv, DocumentedUse
  <2> QED  BY <1>1, <2>1 DEF DocumentedCalls, Leaves, LoopKinds
<1> QED  BY <1>2, <1>3

(***************************************************************************)
(* DInv is inductive: the calls and returns that only advance the caller.  *)
(***************************************************************************)

LEMMA QuietCallKeeps ==
    ASSUME TypeOK, DInv,
           \/ \E suffix \in Suffixes : SetSuffix(suffix)
           \/ \E test \in Tests : RejectTest(test) \/ NestedTest(test)
           \/ \E name \in Suites : RejectSuite(name)
    PROVE  DInv'
<1>1. ASSUME NEW suffix \in Suffixes, SetSuffix(suffix) PROVE DInv'
  BY <1>1, CallerLike, LikeKeeps DEF SetSuffix, Invoked, hookVars, testVars
<1>2. ASSUME NEW test \in Tests, RejectTest(test) \/ NestedTest(test) PROVE DInv'
  <2>1. Invoked("RUN_TEST", test)
    BY <1>2 DEF RejectTest, NestedTest
  <2>2. Top.kind \notin Leaves
    BY <2>1, CallerIsNoLeaf
  <2> QED  BY <1>2, <2>1, <2>2, CallerLike, LikeKeeps
           DEF RejectTest, NestedTest, Invoked, hookVars, testVars
<1>3. ASSUME NEW name \in Suites, RejectSuite(name) PROVE DInv'
  BY <1>3, CallerLike, LikeKeeps DEF RejectSuite, Invoked, hookVars, nameVars, testVars
<1> QED  BY <1>1, <1>2, <1>3

LEMMA GeneratorStepKeeps ==
    ASSUME TypeOK, DInv, ShuffleNext \/ InitSecondPass \/ DoubleModulus
    PROVE  DInv'
<1>1. Top.body \in Seq(Items) /\ Len(Top.body) + 2 \in Nat
  BY TopFrame DEF Frames
<1>2. LikeStack(stack')
  BY <1>1, StackLike, GotoLike DEF ShuffleNext, InitSecondPass, DoubleModulus, LikeStack, Like
<1> QED  BY <1>2, LikeKeeps DEF ShuffleNext, InitSecondPass, DoubleModulus, AtNext,
            hookVars, nameVars, testVars

LEMMA AssertTrueKeeps == ASSUME TypeOK, DInv, Assert(TRUE) PROVE DInv'
<1>1. LikeStack(stack')
  BY StackLike DEF Assert, LikeStack, Like
<1> QED  BY <1>1, LikeKeeps DEF Assert, Unwound, hookVars

(***************************************************************************)
(* The hooks and the counts.                                               *)
(***************************************************************************)

(* main and its loops call from under no suite. *)
LEMMA NoSuiteFrames ==
    ASSUME TypeOK, DInv, Top.owner = "main"
    PROVE  \A d \in DOMAIN stack : stack[d].owner \notin Suites /\ stack[d].kind # "suite"
<1>1. ASSUME NEW d \in DOMAIN stack PROVE stack[d].owner \notin Suites
  <2>1. d <= Len(stack) /\ Len(stack) \in DOMAIN stack
    BY TopFrame
  <2>2. stack[d].owner \in Suites => Top.owner = stack[d].owner
    BY <2>1 DEF DInv, OwnersNest, Top
  <2> QED  BY <2>2 DEF DInv, DocumentedUse
<1> QED  BY <1>1 DEF DInv, FrameOK, SuiteFrameOK

(* A hook is set by the suite whose frames are on the stack.               *)
LEMMA SetHookKeeps ==
    ASSUME TypeOK, DInv, SetSetup \/ SetTeardown
    PROVE  DInv'
<1>1. /\ LikeStack(stack') /\ Top.kind \notin Leaves /\ status' # "undefined"
      /\ UNCHANGED <<flags, suite, line, msg, name_buf>>
      /\ setup' \in {Top.owner, NULL} \/ setup' = setup
      /\ teardown' \in {Top.owner, NULL} \/ teardown' = teardown
  <2>1. Invoked("SET_SETUP", NULL) \/ Invoked("SET_TEARDOWN", NULL)
    BY DEF SetSetup, SetTeardown
  <2>2. Top.kind \notin Leaves
    BY <2>1, CallerIsNoLeaf
  <2>3. LikeStack(stack') /\ status' # "undefined"
    BY <2>1, CallerLike DEF SetSetup, SetTeardown, Invoked
  <2>4. /\ UNCHANGED <<flags, suite, line, msg, name_buf>>
        /\ setup' \in {Top.owner, NULL} \/ setup' = setup
        /\ teardown' \in {Top.owner, NULL} \/ teardown' = teardown
    BY DEF SetSetup, SetTeardown, nameVars, testVars
  <2> QED  BY <2>2, <2>3, <2>4
<1>2. LeafOnTop' /\ OwnersNest' /\ DOMAIN stack' = DOMAIN stack
  BY <1>1, LikeShape DEF DInv
<1>3. ASSUME NEW d \in DOMAIN stack PROVE FrameOK(stack[d])'
  <2>1. Like(stack'[d], stack[d]) /\ FrameOK(stack[d])
    BY <1>1 DEF DInv, LikeStack
  <2>2. stack[d].kind \notin Leaves
    BY <1>1 DEF DInv, LeafOnTop, Top
  <2>3. stack[d].owner \in Suites => Top.owner = stack[d].owner
    BY TopFrame DEF DInv, OwnersNest, Top
  <2>4. HookFrameOK(stack[d])'
    BY <1>1, <2>1, <2>2, <2>3 DEF Like, FrameOK, HookFrameOK, Leaves
  <2> QED  BY <1>1, <2>1, <2>2, <2>4 DEF Like, FrameOK, SuiteFrameOK, OwnerFrameOK, NameFrameOK,
              FailFrameOK, Printed, Leaves
<1>4. LineIsAboutItsTest' /\ FirstFailPerSuite' /\ NoStrayJump'
  BY <1>1 DEF DInv, LineIsAboutItsTest, FirstFailPerSuite, NoStrayJump
<1> QED  BY <1>1, <1>2, <1>3, <1>4 DEF DInv, DocumentedUse, DocumentedCalls

(* A report is printed by main, in passing or at its end.                  *)
LEMMA ReporterIsMain ==
    ASSUME TypeOK, DInv, PrintReport \/ MainReturn
    PROVE  Top.kind = "main"
<1>1. CASE PrintReport
  <2>1. Top.body \in Seq(Items)
    BY TopFrame DEF Frames
  <2>2. ~InLoop
    BY <1>1, <2>1 DEF PrintReport, Invoked, Items
  <2>3. <<Top.kind, "PRINT_REPORT">> \in DocumentedCalls
    BY <1>1, <2>2 DEF PrintReport, Invoked, DInv, DocumentedUse
  <2> QED  BY <2>3 DEF DocumentedCalls, LoopKinds
<1>2. CASE MainReturn
  BY <1>2 DEF MainReturn
<1> QED  BY <1>1, <1>2

LEMMA ReportKeeps ==
    ASSUME TypeOK, MainAtBottom, DInv, PrintReport \/ MainReturn
    PROVE  DInv'
<1>1. Top.kind = "main"
  BY ReporterIsMain
<1>2. FrameOK(Top) /\ Top.owner = "main"
  BY <1>1, TopFrame DEF DInv, Top, FrameOK, OwnerFrameOK
<1>3. /\ LikeStack(stack') /\ status' # "undefined"
      /\ UNCHANGED <<flags, line, msg, name_buf>>
      /\ suite' = suite \/ suite' = ZeroCounters
  BY CallerLike, StackLike DEF PrintReport, MainReturn, Invoked, UpdateCountsAndResetSuite,
     nameVars, testVars, LikeStack, Like
<1>4. LeafOnTop' /\ OwnersNest' /\ DOMAIN stack' = DOMAIN stack
  BY <1>3, LikeShape DEF DInv
<1>5. ASSUME NEW d \in DOMAIN stack PROVE FrameOK(stack[d])'
  <2>1. Like(stack'[d], stack[d]) /\ FrameOK(stack[d])
    BY <1>3 DEF DInv, LikeStack
  <2>2. stack[d].kind \notin Leaves
    BY <1>1 DEF DInv, LeafOnTop, Top, Leaves
  <2>3. stack[d].owner \notin Suites /\ stack[d].kind # "suite"
    BY <1>2, NoSuiteFrames
  <2> QED  BY <2>1, <2>2, <2>3 DEF Like, FrameOK, SuiteFrameOK, OwnerFrameOK, HookFrameOK,
              NameFrameOK, FailFrameOK, Leaves
<1>6. LineIsAboutItsTest' /\ FirstFailPerSuite' /\ NoStrayJump'
  BY <1>3 DEF DInv, LineIsAboutItsTest, FirstFailPerSuite, NoStrayJump, ZeroCounters
<1> QED  BY <1>4, <1>5, <1>6 DEF DInv, DocumentedUse, DocumentedCalls

(***************************************************************************)
(* Frames pushed.                                                          *)
(***************************************************************************)

(* s is like the stack, with f on it. *)
PushedOn(s, f) ==
    /\ s \in Seq(Frames) /\ Len(s) = Len(stack) + 1
    /\ \A d \in DOMAIN stack : Like(s[d], stack[d])
    /\ s[Len(stack) + 1] = f

LEMMA PushLike ==
    ASSUME TypeOK, NEW s, LikeStack(s), NEW f \in Frames
    PROVE  PushedOn(Append(s, f), f)
  BY TopFrame DEF TypeOK, LikeStack, PushedOn, Like

(* No leaf is on a stack that something is pushed on, and what is pushed   *)
(* belongs to the suite it is pushed in.                                   *)
LEMMA PushShape ==
    ASSUME TypeOK, DInv, Top.kind \notin Leaves, NEW f \in Frames, PushedOn(stack', f),
           f.owner = Top.owner \/ Top.owner = "main"
    PROVE  /\ LeafOnTop' /\ OwnersNest'
           /\ DOMAIN stack' = DOMAIN stack \union {Len(stack) + 1}
           /\ \A d \in DOMAIN stack : stack[d].kind \notin Leaves
<1>1. /\ Len(stack) \in Nat \ {0} /\ DOMAIN stack = 1..Len(stack)
      /\ DOMAIN stack' = 1..Len(stack) + 1 /\ Len(stack') = Len(stack) + 1
  BY TopFrame DEF PushedOn
<1>2. \A d \in DOMAIN stack : stack[d].kind \notin Leaves
  BY DEF DInv, LeafOnTop, Top
<1>3. LeafOnTop'
  BY <1>1, <1>2 DEF LeafOnTop, PushedOn, Like
<1>4. ASSUME NEW d \in DOMAIN stack, stack[d].owner \in Suites
      PROVE  f.owner = stack[d].owner
  <2>1. d <= Len(stack) /\ Len(stack) \in DOMAIN stack
    BY <1>1
  <2>2. Top.owner = stack[d].owner
    BY <1>4, <2>1 DEF DInv, OwnersNest, Top
  <2> QED  BY <1>4, <2>2 DEF DInv, DocumentedUse
<1>5. OwnersNest'
  <2>1. SUFFICES ASSUME NEW d \in DOMAIN stack', NEW e \in DOMAIN stack', d <= e,
                        stack'[d].owner \in Suites
                 PROVE  stack'[e].owner = stack'[d].owner
    BY DEF OwnersNest
  <2>2. CASE e \in DOMAIN stack
    <3>1. d \in DOMAIN stack
      BY <1>1, <2>1, <2>2
    <3> QED  BY <2>1, <2>2, <3>1 DEF DInv, OwnersNest, PushedOn, Like
  <2>3. CASE e = Len(stack) + 1
    <3>1. CASE d = Len(stack) + 1
      BY <2>3, <3>1
    <3>2. CASE d \in DOMAIN stack
      BY <1>4, <2>1, <2>3, <3>2 DEF PushedOn, Like
    <3> QED  BY <1>1, <3>1, <3>2
  <2> QED  BY <1>1, <2>2, <2>3
<1>6. DOMAIN stack' = DOMAIN stack \union {Len(stack) + 1}
  BY <1>1
<1> QED  BY <1>2, <1>3, <1>5, <1>6

(* A frame in keeping with what it is pushed on; if main pushes it the     *)
(* counts and the hooks may be cleared.                                    *)
LEMMA PushKeeps ==
    ASSUME TypeOK, DInv, Top.kind \notin Leaves, NEW f \in Frames, PushedOn(stack', f),
           f.owner = Top.owner \/ Top.owner = "main",
           FrameOK(Top)', status' # "undefined", UNCHANGED <<flags, line, msg>>,
           \/ UNCHANGED <<suite, setup, teardown>>
           \/ Top.owner = "main" /\ suite' = ZeroCounters
    PROVE  DInv'
<1>1. /\ LeafOnTop' /\ OwnersNest'
      /\ DOMAIN stack' = DOMAIN stack \union {Len(stack) + 1}
      /\ \A d \in DOMAIN stack : stack[d].kind \notin Leaves
  BY PushShape
<1>2. ASSUME NEW d \in DOMAIN stack PROVE FrameOK(stack[d])'
  <2>1. Like(stack'[d], stack[d]) /\ FrameOK(stack[d]) /\ stack[d].kind \notin Leaves
    BY <1>1 DEF DInv, PushedOn
  <2>2. CASE UNCHANGED <<suite, setup, teardown>>
    BY <2>1, <2>2 DEF Like, FrameOK, SuiteFrameOK, OwnerFrameOK, HookFrameOK, NameFrameOK,
       FailFrameOK, Printed, Leaves
  <2>3. CASE Top.owner = "main"
    <3>1. stack[d].owner \notin Suites /\ stack[d].kind # "suite"
      BY <2>3, NoSuiteFrames
    <3> QED  BY <2>1, <3>1 DEF Like, FrameOK, SuiteFrameOK, OwnerFrameOK, HookFrameOK, NameFrameOK,
                FailFrameOK, Leaves
  <2> QED  BY <2>2, <2>3
<1>3. \A d \in DOMAIN stack' : FrameOK(stack[d])'
  <2>1. Len(stack') = Len(stack) + 1
    BY DEF PushedOn
  <2> QED  BY <1>1, <1>2, <2>1 DEF Top
<1>4. LineIsAboutItsTest' /\ FirstFailPerSuite' /\ NoStrayJump'
  BY DEF DInv, LineIsAboutItsTest, FirstFailPerSuite, NoStrayJump, ZeroCounters
<1> QED  BY <1>1, <1>3, <1>4 DEF DInv, DocumentedUse, DocumentedCalls

(* A new frame, with the fields it is given. *)
LEMMA NewFrame ==
    ASSUME TypeOK, NEW kind \in Kinds, NEW owner \in Owners
    PROVE  /\ Frame(kind, Top.name, owner) \in Frames
           /\ Frame(kind, Top.name, owner).kind = kind
           /\ Frame(kind, Top.name, owner).owner = owner
<1>1. Top.name \in Names \union {NULL}
  BY TopFrame DEF Frames
<1>2. Frame(kind, Top.name, owner) \in Frames
  BY <1>1, FrameType
<1>3. /\ Frame(kind, Top.name, owner).kind = kind
      /\ Frame(kind, Top.name, owner).owner = owner
  BY DEF Frame
<1> QED  BY <1>2, <1>3

(* A suite is started by main, or by a block of main's. *)
LEMMA SuiteCaller ==
    ASSUME TypeOK, DInv, NEW name, Invoked("RUN_SUITE", name)
    PROVE  Top.owner = "main" /\ Top.kind \notin Leaves
<1>1. FrameOK(Top) /\ Top.kind \notin Leaves
  BY CallerIsNoLeaf
<1>2. CASE InLoop
  BY <1>1, <1>2 DEF InLoop, LoopKinds, Invoked, FrameOK, OwnerFrameOK
<1>3. CASE ~InLoop
  <2>1. <<Top.kind, "RUN_SUITE">> \in DocumentedCalls
    BY <1>3 DEF Invoked, DInv, DocumentedUse
  <2> QED  BY <1>1, <2>1 DEF DocumentedCalls, LoopKinds, FrameOK, OwnerFrameOK
<1> QED  BY <1>1, <1>2, <1>3

LEMMA StartSuiteDocumented ==
    ASSUME TypeOK, DInv, NEW name \in Suites, StartSuite(name) PROVE DInv'
<1> DEFINE base == Printed
           f == Frame("suite", Top.name, name)
           g == [f EXCEPT !.base = base]
<1>1. /\ Invoked("RUN_SUITE", name) /\ stack' = Append(CallerRan, g)
      /\ suite' = ZeroCounters /\ setup' = NULL /\ teardown' = NULL
      /\ status' # "undefined" /\ UNCHANGED <<flags, line, msg>>
  BY DEF StartSuite, UpdateCountsAndResetSuite, Invoked, testVars
<1>2. Top.owner = "main" /\ Top.kind \notin Leaves
  BY <1>1, SuiteCaller
<1>3. f \in Frames /\ f.kind = "suite" /\ f.owner = name
  BY NewFrame, KindFacts DEF Owners
<1>4. base \in Counters
  BY PrintedType
<1>5. Plus(base, ZeroCounters) = base /\ base' = base
  <2>1. Plus(base, ZeroCounters) = base
    <3> HIDE DEF base
    <3> QED  BY <1>4 DEF Plus, ZeroCounters, Counters
  <2>2. base' = base
    BY <1>1 DEF Printed
  <2> QED  BY <2>1, <2>2
<1> HIDE DEF f
<1>6. g \in Frames /\ g.kind = "suite" /\ g.owner = name /\ g.base = base
  <2> HIDE DEF base
  <2> QED  BY <1>3, <1>4 DEF Frames
<1> HIDE DEF g
<1>7. PushedOn(stack', g)
  BY <1>1, <1>6, CallerLike, PushLike
<1>8. FrameOK(Top)'
  <2>1. Top' = g
    BY <1>7 DEF PushedOn, Top
  <2> QED  BY <1>1, <1>5, <1>6, <2>1 DEF FrameOK, SuiteFrameOK, OwnerFrameOK, HookFrameOK,
              NameFrameOK, FailFrameOK, Leaves
<1> QED  BY <1>1, <1>2, <1>6, <1>7, <1>8, PushKeeps

(* A SHUFFLE block belongs to whoever opens it. *)
LEMMA ShuffleInitDocumented ==
    ASSUME TypeOK, DInv, NEW kind \in LoopKinds, ShuffleInit(kind) PROVE DInv'
<1>1. /\ ~InLoop /\ Invoked(kind, NULL) /\ status' # "undefined"
      /\ UNCHANGED <<flags, suite, setup, teardown, line, msg, name_buf>>
  BY DEF ShuffleInit, hookVars, nameVars, testVars, Invoked
<1>2. PICK body \in Blocks[kind] :
        stack' = Append(stack, [Frame(kind, Top.name, Top.owner) EXCEPT !.body = body])
  BY DEF ShuffleInit
<1> DEFINE f == Frame(kind, Top.name, Top.owner)
           g == [f EXCEPT !.body = body]
<1>3. Top.owner \in Owners /\ kind \in Kinds
  BY TopFrame, KindFacts DEF Frames
<1>4. f \in Frames /\ f.kind = kind /\ f.owner = Top.owner
  BY <1>3, NewFrame
<1>5. body \in Seq(Items)
  BY BlocksAssumption
<1> HIDE DEF f
<1>6. g \in Frames /\ g.kind = kind /\ g.owner = Top.owner /\ g.body = body
  BY <1>4, <1>5 DEF Frames
<1>7. stack' = Append(stack, g)
  BY <1>2 DEF f
<1> HIDE DEF g
<1>8. PushedOn(stack', g)
  BY <1>6, <1>7, StackLike, PushLike
<1>9. FrameOK(Top) /\ <<Top.kind, kind>> \in DocumentedCalls
  BY <1>1, TopFrame DEF DInv, Top, Invoked, DocumentedUse
<1>10. /\ Top.kind \in {"main", "suite"}
       /\ kind = "SHUFFLE_SUITES" => Top.kind = "main"
  BY <1>9 DEF DocumentedCalls, LoopKinds
<1>11. FrameOK(Top)'
  <2>1. Top' = g
    BY <1>8 DEF PushedOn, Top
  <2> QED  BY <1>1, <1>6, <1>9, <1>10, <2>1 DEF FrameOK, SuiteFrameOK, OwnerFrameOK, HookFrameOK,
              NameFrameOK, FailFrameOK, Leaves, LoopKinds, DInv, DocumentedUse
<1> QED  BY <1>1, <1>6, <1>8, <1>10, <1>11, PushKeeps DEF Leaves

(* What is pushed becomes the test when there is no setup hook.            *)
LEMMA PushTest ==
    ASSUME TypeOK, NEW s, NEW f \in Frames, PushedOn(s, f)
    PROVE  PushedOn([s EXCEPT ![Len(s)].kind = "test"], [f EXCEPT !.kind = "test"])
<1> DEFINE n == Len(stack) + 1
           g == [f EXCEPT !.kind = "test"]
           t == [s EXCEPT ![n] = g]
<1>1. s \in Seq(Frames) /\ Len(s) = n /\ n \in 1..Len(s) /\ s[n] = f
  BY TopFrame DEF PushedOn
<1>2. g \in Frames
  BY KindFacts DEF Frames
<1>3. [s EXCEPT ![Len(s)].kind = "test"] = t
  BY <1>1
<1> HIDE DEF g
<1>4. t \in Seq(Frames) /\ Len(t) = Len(s) /\ \A d \in 1..Len(s) : t[d] = IF d = n THEN g ELSE s[d]
  BY <1>1, <1>2, ExceptSeq
<1> HIDE DEF t
<1>5. PushedOn(t, g)
  BY <1>1, <1>4, TopFrame DEF PushedOn
<1> QED  BY <1>3, <1>5 DEF g

LEMMA StartTestDocumented ==
    ASSUME TypeOK, DInv, NEW test \in Tests, StartTest(test) PROVE DInv'
<1> DEFINE name  == <<test, name_suffix>>
           f     == Frame("setup", name, Top.owner)
           frame == [f EXCEPT !.hook = setup]
           fTest == [frame EXCEPT !.kind = "test"]
           s     == Append(CallerRan, frame)
<1>1. /\ Invoked("RUN_TEST", test) /\ status' # "undefined"
      /\ UNCHANGED <<flags, suite, setup, teardown, line, msg>>
      /\ name_buf' = name /\ Selected(name)
  BY DEF StartTest, hookVars, Invoked
<1>2. FrameOK(Top) /\ Top.kind \notin Leaves
  BY <1>1, CallerIsNoLeaf
<1>3. name \in Names /\ setup \in Owners \union {NULL} /\ Top.owner \in Owners
  BY TopFrame DEF TypeOK, Names, Frames
<1>4. f \in Frames
  BY <1>3, FrameType, KindFacts
<1>5. f.kind = "setup" /\ f.name = name /\ f.owner = Top.owner
  BY DEF Frame
<1> HIDE DEF f, name
<1>6. /\ frame \in Frames /\ frame.kind = "setup" /\ frame.name = name
      /\ frame.owner = Top.owner /\ frame.hook = setup
  BY <1>3, <1>4, <1>5 DEF Frames
<1> HIDE DEF frame
<1>7. fTest \in Frames /\ fTest.kind = "test" /\ fTest.name = name /\ fTest.owner = Top.owner
  BY <1>6, KindFacts DEF Frames
<1> HIDE DEF fTest
<1>8. PushedOn(s, frame)
  BY <1>6, CallerLike, PushLike
<1> HIDE DEF s
<1>9. CASE setup # NULL
  <2>1. PushedOn(stack', frame)
    BY <1>8, <1>9 DEF StartTest, s, frame, f, name
  <2>2. Top' = frame
    BY <2>1 DEF PushedOn, Top
  <2>3. FrameOK(Top)'
    BY <1>1, <1>2, <1>6, <1>9, <2>2 DEF FrameOK, SuiteFrameOK, OwnerFrameOK, HookFrameOK,
       NameFrameOK, FailFrameOK, Leaves, Selected
  <2> QED  BY <1>1, <1>2, <1>6, <2>1, <2>3, PushKeeps
<1>10. CASE setup = NULL
  <2>1. EnterTest(s, Tick(prng["SHUFFLE_TESTS"]))
    BY <1>10 DEF StartTest, s, frame, f, name
  <2>2. stack' = [s EXCEPT ![Len(s)].kind = "test"]
    BY <2>1 DEF EnterTest
  <2>3. PushedOn(stack', fTest)
    BY <1>6, <1>8, <2>2, PushTest DEF fTest
  <2>4. Top' = fTest
    BY <2>3 DEF PushedOn, Top
  <2>5. FrameOK(Top)'
    BY <1>1, <1>2, <1>7, <2>4 DEF FrameOK, SuiteFrameOK, OwnerFrameOK, HookFrameOK,
       NameFrameOK, FailFrameOK, Leaves, Selected
  <2> QED  BY <1>1, <1>2, <1>7, <2>3, <2>5, PushKeeps
<1> QED  BY <1>9, <1>10

(***************************************************************************)
(* The top frame turned into the next stage of its test.                   *)
(***************************************************************************)

LEMMA StageKeeps ==
    ASSUME TypeOK, DInv, Top.kind \in Leaves,
           stack' \in Seq(Frames), Len(stack') = Len(stack),
           \A d \in 1..Len(stack) - 1 : stack'[d] = stack[d],
           Top'.kind \in Leaves, Top'.owner = Top.owner,
           NameFrameOK(Top)', HookFrameOK(Top)', status' # "undefined",
           UNCHANGED <<flags, suite, setup, teardown, line>>
    PROVE  DInv'
<1>1. /\ Len(stack) \in Nat \ {0} /\ DOMAIN stack = 1..Len(stack)
      /\ DOMAIN stack' = DOMAIN stack
      /\ \A d \in DOMAIN stack : d = Len(stack) \/ d \in 1..Len(stack) - 1
      /\ Top' = stack'[Len(stack)]
  BY TopFrame DEF Top
<1>2. \A d \in 1..Len(stack) - 1 : stack[d].kind \notin Leaves
  BY <1>1 DEF DInv, LeafOnTop
<1>3. LeafOnTop'
  BY <1>1, <1>2 DEF LeafOnTop
<1>4. \A d \in DOMAIN stack : stack'[d].owner = stack[d].owner
  BY <1>1 DEF Top
<1>5. OwnersNest'
  BY <1>1, <1>4 DEF DInv, OwnersNest
<1>6. ASSUME NEW d \in 1..Len(stack) - 1 PROVE FrameOK(stack[d])'
  <2>1. stack'[d] = stack[d] /\ FrameOK(stack[d]) /\ stack[d].kind \notin Leaves
    BY <1>1, <1>2 DEF DInv
  <2> QED  BY <2>1 DEF FrameOK, SuiteFrameOK, OwnerFrameOK, HookFrameOK, NameFrameOK, FailFrameOK,
              Printed, Leaves
<1>7. FrameOK(Top)'
  <2>1. FrameOK(Top)
    BY <1>1 DEF DInv, Top
  <2> QED  BY <2>1 DEF FrameOK, SuiteFrameOK, OwnerFrameOK, FailFrameOK, Leaves
<1>8. \A d \in DOMAIN stack' : FrameOK(stack[d])'
  BY <1>1, <1>6, <1>7
<1>9. LineIsAboutItsTest' /\ FirstFailPerSuite' /\ NoStrayJump'
  BY DEF DInv, LineIsAboutItsTest, FirstFailPerSuite, NoStrayJump
<1> QED  BY <1>3, <1>5, <1>8, <1>9 DEF DInv, DocumentedUse, DocumentedCalls

LEMMA SetupReturnDocumented == TypeOK /\ DInv /\ SetupReturn => DInv'
<1> SUFFICES ASSUME TypeOK, DInv, SetupReturn PROVE DInv'
  OBVIOUS
<1> DEFINE n == Len(stack)
           g == [Top EXCEPT !.kind = "test"]
<1>1. /\ Top.kind = "setup" /\ stack' = [stack EXCEPT ![n].kind = "test"]
      /\ status' # "undefined"
      /\ UNCHANGED <<flags, suite, setup, teardown, line, name_buf, msg>>
  BY DEF SetupReturn, EnterTest, hookVars, nameVars
<1>2. /\ g \in Frames /\ g.kind = "test" /\ g.owner = Top.owner /\ g.name = Top.name
      /\ n \in 1..Len(stack) /\ stack \in Seq(Frames)
  BY TopFrame, KindFacts DEF TypeOK, Frames
<1>3. stack' = [stack EXCEPT ![n] = g]
  BY <1>1 DEF Top
<1> HIDE DEF g
<1>4. /\ stack' \in Seq(Frames) /\ Len(stack') = n
      /\ \A d \in 1..n : stack'[d] = IF d = n THEN g ELSE stack[d]
  BY <1>2, <1>3, ExceptSeq
<1>5. Top' = g /\ \A d \in 1..Len(stack) - 1 : stack'[d] = stack[d]
  BY <1>2, <1>4 DEF Top
<1>6. FrameOK(Top)
  BY TopFrame DEF DInv, Top
<1>7. NameFrameOK(Top)' /\ HookFrameOK(Top)'
  BY <1>1, <1>2, <1>5, <1>6 DEF FrameOK, NameFrameOK, HookFrameOK, Leaves
<1> QED  BY <1>1, <1>2, <1>4, <1>5, <1>7, StageKeeps DEF Leaves

(***************************************************************************)
(* Frames popped.                                                          *)
(***************************************************************************)

(* The counts of a suite and the lines printed go up together.             *)
CountsAgree == \A b \in Counters : Plus(b, suite) = Printed => Plus(b, suite') = Printed'

LEMMA PopKeeps ==
    ASSUME TypeOK, DInv, Len(stack) - 1 \in 1..Len(stack),
           stack' \in Seq(Frames), Len(stack') = Len(stack) - 1,
           \A d \in 1..Len(stack) - 1 : stack'[d] = stack[d],
           CountsAgree, LineIsAboutItsTest', FirstFailPerSuite', status' # "undefined",
           UNCHANGED <<flags, setup, teardown>>
    PROVE  DInv'
<1>1. /\ DOMAIN stack' = 1..Len(stack) - 1 /\ DOMAIN stack = 1..Len(stack)
      /\ \A d \in 1..Len(stack) - 1 : d \in DOMAIN stack /\ d # Len(stack)
  BY TopFrame
<1>2. \A d \in 1..Len(stack) - 1 : stack[d].kind \notin Leaves
  BY <1>1 DEF DInv, LeafOnTop
<1>3. LeafOnTop' /\ OwnersNest'
  <2>1. \A d \in DOMAIN stack' : stack'[d] = stack[d] /\ d \in DOMAIN stack
    BY <1>1
  <2>2. LeafOnTop'
    BY <1>1, <1>2, <2>1 DEF LeafOnTop
  <2>3. OwnersNest'
    BY <2>1 DEF DInv, OwnersNest
  <2> QED  BY <2>2, <2>3
<1>4. ASSUME NEW d \in 1..Len(stack) - 1 PROVE FrameOK(stack[d])'
  <2>1. /\ stack'[d] = stack[d] /\ FrameOK(stack[d]) /\ stack[d].kind \notin Leaves
        /\ stack[d] \in Frames
    BY <1>1, <1>2, TopFrame DEF DInv
  <2>2. stack[d].base \in Counters
    BY <2>1 DEF Frames
  <2>3. SuiteFrameOK(stack[d])'
    BY <2>1, <2>2 DEF FrameOK, SuiteFrameOK, CountsAgree
  <2> QED  BY <2>1, <2>3 DEF FrameOK, OwnerFrameOK, HookFrameOK, NameFrameOK, FailFrameOK, Leaves
<1> QED  BY <1>1, <1>3, <1>4 DEF DInv, DocumentedUse, DocumentedCalls, NoStrayJump

(* The first n frames of the stack, when the rest is only the top.         *)
LEMMA PopFrames ==
    ASSUME TypeOK, Len(stack) - 1 \in 1..Len(stack),
           NEW frames \in Seq(Frames), Len(frames) = Len(stack),
           \A d \in 1..Len(stack) : frames[d] = stack[d]
    PROVE  /\ SubSeq(frames, 1, Len(frames) - 1) \in Seq(Frames)
           /\ Len(SubSeq(frames, 1, Len(frames) - 1)) = Len(stack) - 1
           /\ \A d \in 1..Len(stack) - 1 : SubSeq(frames, 1, Len(frames) - 1)[d] = stack[d]
<1> DEFINE n == Len(stack) - 1
           s == SubSeq(frames, 1, n)
<1>1. n \in Nat /\ 1 <= n /\ n \in Int /\ \A i \in 1..n : frames[i] \in Frames /\ frames[i] = stack[i]
  BY TopFrame
<1>2. /\ s \in Seq(Frames) /\ Len(s) = IF 1 <= n THEN n - 1 + 1 ELSE 0
      /\ \A i \in 1 .. n - 1 + 1 : s[i] = frames[1 + i - 1]
  BY <1>1, SubSeqProperties
<1> HIDE DEF s
<1>3. n - 1 + 1 = n /\ \A i \in 1..n : 1 + i - 1 = i
  BY <1>1
<1>4. s \in Seq(Frames) /\ Len(s) = n /\ \A d \in 1..n : s[d] = stack[d]
  BY <1>1, <1>2, <1>3
<1> QED  BY <1>4 DEF s

(* Only main is at the bottom. *)
LEMMA NotAtBottom ==
    ASSUME TypeOK, MainAtBottom, Top.kind # "main"
    PROVE  Len(stack) - 1 \in 1..Len(stack)
<1>1. Len(stack) # 1
  BY TopFrame DEF MainAtBottom, Top
<1> QED  BY <1>1, TopFrame

(* A suite or a block that ends. *)
LEMMA SuiteReturnDocumented ==
    ASSUME TypeOK, MainAtBottom, DInv, SuiteReturn \/ ShuffleRunning
    PROVE  DInv'
<1>1. /\ status' # "undefined" /\ Top.kind # "main"
      /\ UNCHANGED <<flags, suite, setup, teardown, line, msg, name_buf>>
  BY DEF SuiteReturn, ShuffleRunning, hookVars, nameVars, testVars, InLoop, LoopKinds
<1>2. CASE stack' = SubSeq(stack, 1, Len(stack) - 1)
  <2>1. stack \in Seq(Frames) /\ Len(stack) - 1 \in 1..Len(stack)
    BY <1>1, NotAtBottom DEF TypeOK
  <2>2. /\ stack' \in Seq(Frames) /\ Len(stack') = Len(stack) - 1
        /\ \A d \in 1..Len(stack) - 1 : stack'[d] = stack[d]
    BY <1>2, <2>1, PopFrames
  <2>3. CountsAgree /\ LineIsAboutItsTest' /\ FirstFailPerSuite'
    BY <1>1 DEF CountsAgree, Printed, DInv, LineIsAboutItsTest, FirstFailPerSuite
  <2> QED  BY <1>1, <2>1, <2>2, <2>3, PopKeeps
<1>3. CASE Goto(1)
  BY <1>1, <1>3, GotoLike, LikeKeeps
<1> QED  BY <1>2, <1>3 DEF SuiteReturn, ShuffleRunning

(***************************************************************************)
(* Verdicts.                                                               *)
(***************************************************************************)

LEMMA PlusOne ==
    ASSUME NEW b \in Counters, NEW c \in Counters, NEW o \in Counters
    PROVE  Plus(b, Plus(c, o)) = Plus(Plus(b, c), o)
  BY DEF Plus, Counters

LEMMA OneType == ASSUME NEW res \in Verdicts PROVE One(res) \in Counters /\ One(res).failed <= 1
  BY DEF One, Counters, Verdicts

(* The test on top is over: its line is printed and counted.               *)
LEMMA FinishDocumented ==
    ASSUME TypeOK, TypeOK', MainAtBottom, DInv, Top.kind \in TestKinds, NEW res \in Verdicts,
           NEW frames \in Seq(Frames), Len(frames) = Len(stack),
           \A d \in 1..Len(stack) : frames[d] = stack[d],
           FinishTest(frames, res), res # "passed" => msg' = Top.name, status' # "undefined",
           UNCHANGED <<flags, setup, teardown, name_buf>>
    PROVE  DInv'
<1>1. /\ Len(stack) - 1 \in 1..Len(stack) /\ FrameOK(Top) /\ Top.kind \in Leaves
      /\ frames[Len(frames)] = Top
  BY NotAtBottom, TopFrame DEF TestKinds, Leaves, DInv, Top
<1>2. /\ suite' = Plus(suite, One(res)) /\ stack' = SubSeq(frames, 1, Len(frames) - 1)
      /\ line' = [verdict |-> res, name |-> name_buf, msg |-> msg', test |-> Top.name,
                  printed |-> Plus(Printed, One(res))]
  BY <1>1 DEF FinishTest, PrintLine
<1>3. /\ stack' \in Seq(Frames) /\ Len(stack') = Len(stack) - 1
      /\ \A d \in 1..Len(stack) - 1 : stack'[d] = stack[d]
  BY <1>1, <1>2, PopFrames
<1>4. line' # NULL /\ Printed' = Plus(Printed, One(res))
  <2>1. line'.printed = Plus(Printed, One(res))
    BY <1>2
  <2>2. line' \in Lines
    <3>1. Plus(Printed, One(res)) \in Counters
      BY PrintedType, OneType, PlusType
    <3>2. msg' \in Names \union {NULL} /\ name_buf \in Names \union {NULL}
      BY DEF TypeOK
    <3>3. Top.name \in Names \union {NULL}
      BY TopFrame DEF Frames
    <3> QED  BY <1>2, <3>1, <3>2, <3>3 DEF Lines
  <2>3. line' # NULL
    BY <2>2, NoLineAssumption
  <2> QED  BY <2>1, <2>3 DEF Printed
<1>5. suite \in Counters /\ One(res) \in Counters /\ One(res).failed <= 1
  BY OneType DEF TypeOK
<1>6. CountsAgree
  BY <1>2, <1>4, <1>5, PlusOne DEF CountsAgree
<1>7. LineIsAboutItsTest'
  BY <1>1, <1>2 DEF LineIsAboutItsTest, FrameOK, NameFrameOK
<1>8. FirstFailPerSuite'
  <2>1. suite'.failed = suite.failed + One(res).failed
    BY <1>2, <1>5, PlusType
  <2>2. "FIRST_FAIL" \in flags => suite.failed = 0
    BY <1>1 DEF FrameOK, FailFrameOK
  <2> QED  BY <1>5, <2>1, <2>2 DEF FirstFailPerSuite, Counters
<1> QED  BY <1>1, <1>3, <1>6, <1>7, <1>8, PopKeeps

(* itest_test_post: the test on top goes on to its teardown, or is over.   *)
LEMMA TestPostDocumented ==
    ASSUME TypeOK, TypeOK', MainAtBottom, DInv, Top.kind = "test", NEW res \in Verdicts,
           NEW frames \in Seq(Frames), Len(frames) = Len(stack),
           \A d \in 1..Len(stack) : frames[d] = stack[d],
           TestPost(frames, res), res # "passed" => msg' = Top.name, status' # "undefined",
           UNCHANGED <<flags, setup, teardown, name_buf>>
    PROVE  DInv'
<1>1. CASE teardown = NULL
  BY <1>1, FinishDocumented DEF TestPost, TestKinds
<1>2. CASE teardown # NULL
  <2> DEFINE n == Len(stack)
             g == [Top EXCEPT !.kind = "teardown", !.res = res, !.hook = teardown]
  <2>1. n \in 1..n /\ frames[n] = Top /\ FrameOK(Top)
    BY TopFrame DEF Top, DInv
  <2>2. stack' = [frames EXCEPT ![n] = g] /\ UNCHANGED <<line, suite>>
    BY <1>2, <2>1 DEF TestPost
  <2>3. g \in Frames
    BY TopFrame, KindFacts DEF TypeOK, Frames
  <2>4. /\ g.kind = "teardown" /\ g.res = res /\ g.hook = teardown
        /\ g.owner = Top.owner /\ g.name = Top.name
    BY TopFrame DEF Frames
  <2> HIDE DEF g
  <2>5. /\ stack' \in Seq(Frames) /\ Len(stack') = n
        /\ \A d \in 1..n : stack'[d] = IF d = n THEN g ELSE frames[d]
    BY <2>1, <2>2, <2>3, ExceptSeq
  <2>6. Top' = g /\ \A d \in 1..Len(stack) - 1 : stack'[d] = stack[d]
    BY <2>1, <2>5, TopFrame DEF Top
  <2>7. NameFrameOK(Top)' /\ HookFrameOK(Top)'
    BY <1>2, <2>1, <2>4, <2>6 DEF FrameOK, NameFrameOK, HookFrameOK, Leaves
  <2> QED  BY <2>2, <2>4, <2>5, <2>6, <2>7, StageKeeps DEF Leaves
<1> QED  BY <1>1, <1>2

LEMMA ReturnDocumented ==
    ASSUME TypeOK, TypeOK', MainAtBottom, DInv, TestReturn \/ TeardownReturn
    PROVE  DInv'
<1>1. stack \in Seq(Frames) /\ FrameOK(Top) /\ Top \in Frames
  BY TopFrame DEF TypeOK, DInv, Top
<1>2. CASE TestReturn
  <2>1. /\ TestPost(stack, "passed") /\ Top.kind = "test" /\ status' # "undefined"
        /\ UNCHANGED <<flags, setup, teardown, name_buf>>
    BY <1>2 DEF TestReturn, hookVars
  <2> QED  BY <1>1, <2>1, TestPostDocumented DEF Verdicts
<1>3. CASE TeardownReturn
  <2>1. /\ FinishTest(stack, Top.res) /\ Top.kind = "teardown" /\ status' # "undefined"
        /\ UNCHANGED <<flags, setup, teardown, name_buf, msg>>
    BY <1>3 DEF TeardownReturn, hookVars
  <2>2. Top.res \in Verdicts /\ (Top.res # "passed" => msg' = Top.name)
    BY <1>1, <2>1 DEF Frames, FrameOK, NameFrameOK
  <2> QED  BY <1>1, <2>1, <2>2, FinishDocumented DEF TestKinds
<1> QED  BY <1>2, <1>3

(* Only tests jump, and jump_dest leads to the very test that does.        *)
LEMMA TestJumps ==
    ASSUME TypeOK, OneTest, Top.kind = "test"
    PROVE  JumpLive /\ jump_dest = Len(stack) /\ stack[jump_dest] = Top
<1>1. Len(stack) \in RunningFrames
  BY TopRunning DEF TestKinds
<1>2. jump_dest = Len(stack)
  BY <1>1 DEF OneTest
<1> QED  BY <1>1, <1>2, TopFrame DEF JumpLive, Top, RunningFrames, TestKinds

LEMMA JumpDocumented ==
    ASSUME TypeOK, TypeOK', MainAtBottom, OneTest, DInv, Top.kind = "test", NEW res \in Verdicts,
           Jump(res), Unwound, status = "running"
    PROVE  DInv'
<1> DEFINE frames == SubSeq(stack, 1, Len(stack))
<1>1. JumpLive /\ jump_dest = Len(stack) /\ stack[jump_dest] = Top
  BY TestJumps
<1>2. msg' = Top.name /\ TestPost(frames, res) /\ status' # "undefined"
  BY <1>1 DEF Jump
<1>3. UNCHANGED <<flags, setup, teardown, name_buf>>
  BY DEF Unwound, hookVars
<1>4. Len(stack) \in 1..Len(stack) /\ frames \in Seq(Frames) /\ Len(frames) = Len(stack)
      /\ \A d \in 1..Len(stack) : frames[d] = stack[d]
  BY TopFrame, CutFrames DEF CutTo
<1> HIDE DEF frames
<1> QED  BY <1>2, <1>3, <1>4, TestPostDocumented

LEMMA RaiseDocumented ==
    ASSUME TypeOK, TypeOK', MainAtBottom, OneTest, DInv, Top.kind = "test",
           Raise, Unwound, status = "running"
    PROVE  DInv'
<1>1. CASE "ABORT_ON_FAIL" \in flags
  <2>1. LikeStack(stack') /\ status' # "undefined"
    BY <1>1, StackLike DEF Raise, LikeStack, Like
  <2> QED  BY <1>1, <2>1, LikeKeeps DEF Raise, Unwound, hookVars
<1>2. CASE "ABORT_ON_FAIL" \notin flags
  BY <1>2, JumpDocumented DEF Raise, Verdicts
<1> QED  BY <1>1, <1>2

LEMMA JumperIsTest ==
    ASSUME DInv, Fail \/ Skip \/ Assert(FALSE)
    PROVE  Top.kind = "test"
<1>1. \E fn \in {"FAIL", "SKIP", "ASSERT_FALSE"} : <<Top.kind, fn>> \in Calls
  BY DEF Fail, Skip, Assert
<1> QED  BY <1>1 DEF DInv, DocumentedUse, DocumentedCalls, LoopKinds

LEMMA UnwindDocumented ==
    ASSUME TypeOK, TypeOK', MainAtBottom, OneTest, DInv, Fail \/ Skip \/ Assert(FALSE)
    PROVE  DInv'
<1>1. Unwound /\ status = "running" /\ (Raise \/ Jump("skipped"))
  BY DEF Fail, Skip, Assert
<1> QED  BY <1>1, JumperIsTest, RaiseDocumented, JumpDocumented DEF Verdicts

(***************************************************************************)
(* DInv is an invariant of documented use, and what follows from it.       *)
(***************************************************************************)

LEMMA InitDInv == DocumentedUse /\ Init => DInv
<1> SUFFICES ASSUME DocumentedUse, Init PROVE DInv
  OBVIOUS
<1>1. /\ DOMAIN stack = {1} /\ Len(stack) = 1
      /\ stack[1].kind = "main" /\ stack[1].owner = "main"
  BY DEF Init, Frame
<1>2. \A d \in DOMAIN stack : FrameOK(stack[d])
  BY <1>1 DEF FrameOK, SuiteFrameOK, OwnerFrameOK, HookFrameOK, NameFrameOK, FailFrameOK, Leaves,
     DocumentedUse
<1>3. LeafOnTop /\ OwnersNest
  BY <1>1 DEF LeafOnTop, OwnersNest
<1>4. LineIsAboutItsTest /\ FirstFailPerSuite /\ NoStrayJump
  BY DEF Init, LineIsAboutItsTest, FirstFailPerSuite, NoStrayJump, ZeroCounters
<1> QED  BY <1>2, <1>3, <1>4 DEF DInv

LEMMA NextDInv == IInv /\ IInv' /\ DInv /\ [Next]_vars => DInv'
<1> SUFFICES ASSUME IInv, IInv', DInv, [Next]_vars PROVE DInv'
  OBVIOUS
<1>1. TypeOK /\ TypeOK' /\ MainAtBottom /\ OneTest
  BY DEF IInv, FramesOK
<1>2. ASSUME NEW suffix \in Suffixes, SetSuffix(suffix) PROVE DInv'
  BY <1>1, <1>2, QuietCallKeeps
<1>3. ASSUME NEW test \in Tests, RejectTest(test) \/ NestedTest(test) \/ StartTest(test)
      PROVE  DInv'
  BY <1>1, <1>3, QuietCallKeeps, StartTestDocumented
<1>4. ASSUME NEW holds \in BOOLEAN, Assert(holds) PROVE DInv'
  <2>1. Assert(TRUE) \/ Assert(FALSE)
    BY <1>4
  <2> QED  BY <1>1, <2>1, AssertTrueKeeps, UnwindDocumented
<1>5. ASSUME NEW name \in Suites, RejectSuite(name) \/ StartSuite(name) PROVE DInv'
  BY <1>1, <1>5, QuietCallKeeps, StartSuiteDocumented
<1>6. ASSUME NEW kind \in LoopKinds, ShuffleInit(kind) PROVE DInv'
  BY <1>1, <1>6, ShuffleInitDocumented
<1>7. CASE UNCHANGED vars
  <2>1. LikeStack(stack') /\ status' # "undefined"
    BY <1>1, <1>7, StackLike DEF vars, LikeStack, Like, DInv, NoStrayJump
  <2> QED  BY <1>1, <1>7, <2>1, LikeKeeps DEF vars, hookVars, nameVars, testVars
<1>8. CASE SetSetup \/ SetTeardown
  BY <1>1, <1>8, SetHookKeeps
<1>9. CASE SetupReturn
  BY <1>1, <1>9, SetupReturnDocumented
<1>10. CASE TestReturn \/ TeardownReturn
  BY <1>1, <1>10, ReturnDocumented
<1>11. CASE Fail \/ Skip
  BY <1>1, <1>11, UnwindDocumented
<1>12. CASE SuiteReturn \/ ShuffleRunning
  BY <1>1, <1>12, SuiteReturnDocumented
<1>13. CASE ShuffleNext \/ InitSecondPass \/ DoubleModulus
  BY <1>1, <1>13, GeneratorStepKeeps
<1>14. CASE PrintReport \/ MainReturn
  BY <1>1, <1>14, ReportKeeps
<1> QED  BY <1>2, <1>3, <1>4, <1>5, <1>6, <1>7, <1>8, <1>9, <1>10, <1>11, <1>12, <1>13, <1>14
         DEF Next, Terminated

LEMMA DocumentedInvariant == DocumentedUse /\ Spec => [](TypeOK /\ DInv)
<1>1. IInv => TypeOK
  BY DEF IInv
<1> QED  BY <1>1, RunnerInvariant, InitDInv, NextDInv, PTL DEF Spec

(* A failing assertion, FAIL or SKIP of a documented client always returns *)
(* to the test that made it: no longjmp goes to a frame that is gone.      *)
THEOREM NoStrayJumpCorrect == DocumentedUse /\ Spec => []NoStrayJump
<1>1. DInv => NoStrayJump
  BY DEF DInv
<1> QED  BY <1>1, DocumentedInvariant, PTL

(* The counts a suite reports when it returns are those of the result      *)
(* lines printed since it began: nothing ran before it leaks into them.    *)
THEOREM SuiteReportCorrect == DocumentedUse /\ Spec => []SuiteReportExact
<1>1. TypeOK /\ DInv => SuiteReportExact
  BY TopFrame DEF DInv, FrameOK, SuiteFrameOK, SuiteReportExact, Top
<1> QED  BY <1>1, DocumentedInvariant, PTL

(* A result line has the name and the message of the test it is about:     *)
(* name_buf, name_suffix and msg are never another test's when it is       *)
(* printed, whatever hooks and jumps came between.                         *)
THEOREM LinesAboutTheirTests == DocumentedUse /\ Spec => []LineIsAboutItsTest
<1>1. DInv => LineIsAboutItsTest
  BY DEF DInv
<1> QED  BY <1>1, DocumentedInvariant, PTL

(* The hooks that run for the tests of a suite are those it installed: an  *)
(* earlier suite's are cleared before its first test.                      *)
THEOREM HooksCorrect == DocumentedUse /\ Spec => []HooksOfThisSuite
<1>1. DInv => HooksOfThisSuite
  BY DEF DInv, FrameOK, HookFrameOK, HooksOfThisSuite
<1> QED  BY <1>1, DocumentedInvariant, PTL

(* With -f a suite counts one failure at most.                             *)
THEOREM FirstFailCorrect == DocumentedUse /\ Spec => []FirstFailPerSuite
<1>1. DInv => FirstFailPerSuite
  BY DEF DInv
<1> QED  BY <1>1, DocumentedInvariant, PTL
=============================================================================
