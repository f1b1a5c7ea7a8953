-------------------------------- MODULE Timers -------------------------------
(***************************************************************************)
(* The CPU timers: itest_get_cpu_time, itest_report_interval and the clock *)
(* readings of itest_info.  The operators are the parts of the runner's    *)
(* functions that read the clock or clear a reading; Console says when     *)
(* they run.                                                               *)
(***************************************************************************)
EXTENDS Integers

CONSTANTS
    ClockRange,     \* 2^w: a reading, taken as unsigned long, wraps there
    Clocks,         \* the <<RECORD_TIMING, clock() works>> pairs to consider
    MaxTicks        \* bound on the CPU time that passes

ASSUME ClockRangeAssumption == ClockRange \in Nat \ {0}
ASSUME ClocksAssumption     == Clocks \subseteq BOOLEAN \X BOOLEAN
ASSUME MaxTicksAssumption   == MaxTicks \in Nat

VARIABLES
    now,            \* the CPU time the process has used
    recording,      \* RECORD_TIMING in itest_info.flags
    clock_works,    \* whether clock() can tell the time, or returns -1
    times,          \* the readings kept in itest_info
    interval        \* the last interval printed

timerVars == <<now, recording, clock_works, times, interval>>

Readings == {"begin", "end", "pre_suite", "post_suite", "pre_test", "post_test"}
Instants == 0 .. ClockRange - 1
Intervals == [of: {"none", "test", "suite", "total"}, ticks: Instants]

TimersTypeOK ==
    /\ now \in 0 .. MaxTicks
    /\ <<recording, clock_works>> \in Clocks
    /\ times \in [Readings -> Instants]
    /\ interval \in Intervals

(* (clock_t)-1, and what clock() returns. *)
NoTime == ClockRange - 1
Clock == IF clock_works THEN now % ClockRange ELSE NoTime

GetCpuTime(record_timing) == IF record_timing THEN Clock ELSE NoTime

(* itest_init clears the flags before it reads the clock, and parsing -T   *)
(* may clear RECORD_TIMING again.                                          *)
TimersInit ==
    /\ now = 0
    /\ \E clock \in Clocks : recording = clock[1] /\ clock_works = clock[2]
    /\ times = [r \in Readings |-> IF r = "begin" THEN GetCpuTime(FALSE) ELSE 0]
    /\ interval = [of |-> "none", ticks |-> 0]

(* CPU time passes; it is left out where nothing can tell.                 *)
PassTime ==
    /\ recording /\ clock_works /\ now < MaxTicks
    /\ now' = now + 1
    /\ UNCHANGED <<recording, clock_works, times, interval>>

Read(reading) == times' = [times EXCEPT ![reading] = GetCpuTime(recording)]

(* Mutated form: the difference in wider, signed arithmetic. *)
ElapsedUnwrapped(start, stop) == stop - start

(* itest_report_interval: the difference in unsigned arithmetic.           *)
Elapsed(start, stop) == (stop - start) % ClockRange
ReportInterval(of, start, stop) ==
    interval' = IF recording THEN [of |-> of, ticks |-> Elapsed(start, stop)] ELSE interval

(* The memset of itest_info.suite takes the readings of suite and test.    *)
SuiteReadings == {"pre_suite", "post_suite", "pre_test", "post_test"}
Cleared(ts) == [r \in Readings |-> IF r \in SuiteReadings THEN 0 ELSE ts[r]]

(* Mutated form: the clock is read before the memset. *)
ReadSuiteStartTooEarly ==
    times' = Cleared([times EXCEPT !["pre_suite"] = GetCpuTime(recording)])

(* itest_suite_pre: the memset, then the start of the suite.               *)
ReadSuiteStart == times' = [Cleared(times) EXCEPT !["pre_suite"] = GetCpuTime(recording)]

(* itest_suite_post, for a suite that ran tests or none.                   *)
ReportSuite(tests_run) ==
    /\ Read("post_suite")
    /\ IF tests_run > 0
       THEN ReportInterval("suite", times["pre_suite"], times'["post_suite"])
       ELSE UNCHANGED interval

(* Mutated form: each report starts the total anew. *)
ReportTotalSinceLast ==
    /\ times' = LET end == GetCpuTime(recording)
                IN [Cleared(times) EXCEPT !["begin"] = end, !["end"] = end]
    /\ ReportInterval("total", times["begin"], times'["end"])

(* itest_print_report. *)
ReportTotal ==
    /\ times' = [Cleared(times) EXCEPT !["end"] = GetCpuTime(recording)]
    /\ ReportInterval("total", times["begin"], times'["end"])
=============================================================================
