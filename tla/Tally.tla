-------------------------------- MODULE Tally --------------------------------
(***************************************************************************)
(* What the runner promises about results, whatever the client does: one   *)
(* test is open at a time, each open test gets exactly one verdict, the    *)
(* verdicts are never lost or revised, and the exit status is theirs.      *)
(***************************************************************************)
EXTENDS Naturals

VARIABLES
    open,           \* whether a test is being run
    tally,          \* how many tests got each verdict
    abort_on_fail,  \* whether the first failure ends the process
    status          \* whether, and how, the process ended

vars == <<open, tally, abort_on_fail, status>>

Verdicts == {"passed", "failed", "skipped"}

Init ==
    /\ open = FALSE
    /\ tally = [v \in Verdicts |-> 0]
    /\ abort_on_fail \in BOOLEAN
    /\ status = "running"

Open ==
    /\ status = "running" /\ ~open
    /\ open' = TRUE
    /\ UNCHANGED <<tally, abort_on_fail, status>>

(* With abort_on_fail a failure is never tallied: it ended the process.    *)
Close(v) ==
    /\ status = "running" /\ open
    /\ v = "failed" => ~abort_on_fail
    /\ open' = FALSE
    /\ tally' = [tally EXCEPT ![v] = @ + 1]
    /\ UNCHANGED <<abort_on_fail, status>>

Abort ==
    /\ status = "running" /\ abort_on_fail
    /\ status' = "aborted"
    /\ UNCHANGED <<open, tally, abort_on_fail>>

(* A jump with no test to return to; never taken from an open test.        *)
GoAstray ==
    /\ status = "running" /\ ~open
    /\ status' = "undefined"
    /\ UNCHANGED <<open, tally, abort_on_fail>>

Exit ==
    /\ status = "running" /\ ~open
    /\ status' = IF tally["failed"] = 0 THEN "success" ELSE "failure"
    /\ UNCHANGED <<open, tally, abort_on_fail>>

Next == Open \/ (\E v \in Verdicts : Close(v)) \/ Abort \/ GoAstray \/ Exit

Spec == Init /\ [][Next]_vars
=============================================================================
