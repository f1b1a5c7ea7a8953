------------------------------- MODULE Compare -------------------------------
(***************************************************************************)
(* One evaluation of an assertion that compares two values: equal_t and    *)
(* the types of its callbacks, strings with or without a limit, memory     *)
(* with its dump in rows, and in_range on doubles.  It returns, or calls   *)
(* itest_fail, which does not; what happens then is Itest's.               *)
(***************************************************************************)
EXTENDS Integers, Sequences

CONSTANTS
    RowLen,         \* bytes in a row of the dump: 16 in the code
    Byte,           \* the values of a byte; 0 ends a string
    AssertCalls     \* the calls to consider

(* A string has an end. *)
Terminated(buf) == \E i \in DOMAIN buf : buf[i] = 0

(* The type_info given: none, one that lacks a callback, or a whole one.   *)
Types == {"missing", "no_equal", "no_print", "value", "string", "memory"}

(* Doubles: a class, -1 for -Inf, 1 for +Inf, 2 for NaN, and the value if  *)
(* it is finite.  Finite ones are integers, which subtract exactly.        *)
Doubles == ({0} \X Int) \union ({-1, 1, 2} \X {0})
Finite(x) == x[1] = 0
IsNaN(x) == x[1] = 2
PlusInf == <<1, 0>>

ASSUME RowLenAssumption == RowLen \in Nat \ {0}
ASSUME ByteAssumption   == 0 \in Byte
ASSUME AssertCallsAssumption ==
    \A c \in AssertCalls :
        \/ /\ c.fn = "EQUAL_T" /\ c.type \in Types /\ c.size \in Nat
           /\ c.exp \in Seq(Byte) /\ c.got \in Seq(Byte)
           /\ c.type = "memory" => c.size <= Len(c.exp) /\ c.size <= Len(c.got)
           /\ c.type = "string" =>
                \A buf \in {c.exp, c.got} : Terminated(buf) \/ c.size <= Len(buf)
        \/ /\ c.fn = "IN_RANGE"
           /\ {c.exp, c.got, c.tol} \subseteq Doubles

VARIABLES
    call,       \* the call and its arguments
    phase,      \* how far it is; "expected" and "got": printing that value
    at,         \* the hexdump's i
    dumps       \* the rows printed of either value

compareVars == <<call, phase, at, dumps>>

Values == {"expected", "got"}
Ended == {"returned", "failed", "undefined"}
Rows == [start: Nat, mark: BOOLEAN, bytes: Seq(Byte), marks: Seq(BOOLEAN)]

CompareInit ==
    /\ call \in AssertCalls
    /\ phase = "called"
    /\ at = 0
    /\ dumps = [v \in Values |-> <<>>]

(***************************************************************************)
(* Equality.                                                               *)
(***************************************************************************)

(* strcmp and strncmp see a string up to its end, or up to the limit.      *)
CString(buf) ==
    IF Terminated(buf)
    THEN LET end == CHOOSE i \in DOMAIN buf : buf[i] = 0 /\ \A j \in 1 .. i - 1 : buf[j] # 0
         IN SubSeq(buf, 1, end - 1)
    ELSE buf
Limited(s, n) == SubSeq(s, 1, IF n < Len(s) THEN n ELSE Len(s))

(* Mutated form: the limit counts from the end of the shorter string.      *)
StringEqualPrefix(exp, got, size) ==
    LET n == IF Len(CString(exp)) < Len(CString(got)) THEN Len(CString(exp))
                                                      ELSE Len(CString(got))
    IN Limited(CString(exp), IF size < n THEN size ELSE n)
       = Limited(CString(got), IF size < n THEN size ELSE n)

(* itest_string_equal_cb; without a limit, size is at least both lengths.  *)
StringEqual(exp, got, size) == Limited(CString(exp), size) = Limited(CString(got), size)

(* itest_memory_equal_cb. *)
MemoryEqual(exp, got, size) == SubSeq(exp, 1, size) = SubSeq(got, 1, size)

(* type_info->equal: a client's compares values whole. *)
Equal(c) == CASE c.type = "string" -> StringEqual(c.exp, c.got, c.size)
              [] c.type = "memory" -> MemoryEqual(c.exp, c.got, c.size)
              [] OTHER -> c.exp = c.got

(* itest_assert_equal_t up to the first thing it prints. *)
AssertEqualT ==
    /\ phase = "called" /\ call.fn = "EQUAL_T"
    /\ phase' = CASE call.type \in {"missing", "no_equal"} -> "failed"
                  [] call.type \notin {"missing", "no_equal"} /\ Equal(call) -> "returned"
                  [] call.type = "no_print" /\ ~Equal(call) -> "failed"
                  [] OTHER -> "expected"
    /\ UNCHANGED <<call, at, dumps>>

(* itest_assert_equal_t after one value, and after both. *)
Printed(value) == phase' = IF value = "expected" THEN "got" ELSE "failed"

PrintValue ==
    /\ phase \in Values /\ call.type = "value"
    /\ Printed(phase)
    /\ UNCHANGED <<call, at, dumps>>

(* itest_string_fprintf_cb reads up to the end of the string, wherever the *)
(* limit of the comparison was.                                            *)
PrintString ==
    /\ phase \in Values /\ call.type = "string"
    /\ IF Terminated(IF phase = "expected" THEN call.exp ELSE call.got)
       THEN Printed(phase)
       ELSE phase' = "undefined"
    /\ UNCHANGED <<call, at, dumps>>

(***************************************************************************)
(* itest_memory_fprintf_cb: a row per step.                                *)
(***************************************************************************)

(* Mutated form: the last row is as long as the others. *)
RowLengthFull(i, size) == RowLen

RowLength(i, size) == IF size - i > RowLen THEN RowLen ELSE size - i

Differs(i) == call.exp[i + 1] # call.got[i + 1]
Here(length) == at .. at + length - 1

(* Mutated form: diff_mark is not set back for the next row.               *)
RowKeepsMark(buf, length) ==
    [start |-> at,
     mark  |-> \E i \in 0 .. at + length - 1 : Differs(i),
     bytes |-> SubSeq(buf, at + 1, at + length),
     marks |-> [k \in 1 .. length |-> Differs(at + k - 1)]]

(* A row: its offset, its mark, and its bytes with a mark on each.         *)
Row(buf, length) ==
    [start |-> at,
     mark  |-> \E i \in Here(length) : Differs(i),
     bytes |-> SubSeq(buf, at + 1, at + length),
     marks |-> [k \in 1 .. length |-> Differs(at + k - 1)]]

PrintRow ==
    LET length == RowLength(at, call.size) IN
    /\ phase \in Values /\ call.type = "memory"
    /\ at < call.size
    /\ dumps' = [dumps EXCEPT ![phase] =
                   Append(@, Row(IF phase = "expected" THEN call.exp ELSE call.got, length))]
    /\ at' = at + length
    /\ UNCHANGED <<call, phase>>

EndDump ==
    /\ phase \in Values /\ call.type = "memory"
    /\ at >= call.size
    /\ at' = 0
    /\ Printed(phase)
    /\ UNCHANGED <<call, dumps>>

(***************************************************************************)
(* itest_assert_in_range.                                                  *)
(***************************************************************************)

(* C's < and - on doubles; no difference of equal infinities is taken.     *)
Less(x, y) == /\ ~IsNaN(x) /\ ~IsNaN(y)
              /\ x[1] < y[1] \/ (Finite(x) /\ Finite(y) /\ x[2] < y[2])
Minus(x, y) == IF Finite(x) /\ Finite(y) THEN <<0, x[2] - y[2]>>
               ELSE IF Finite(y) THEN x ELSE <<-y[1], 0>>

(* Mutated form: only values below the expected one are looked at.         *)
OutOfRangeBelow(exp, got, tol) == Less(got, exp) /\ Less(tol, Minus(exp, got))

OutOfRange(exp, got, tol) ==
    \/ Less(got, exp) /\ Less(tol, Minus(exp, got))
    \/ Less(exp, got) /\ Less(tol, Minus(got, exp))

AssertInRange ==
    /\ phase = "called" /\ call.fn = "IN_RANGE"
    /\ phase' = IF OutOfRange(call.exp, call.got, call.tol) THEN "failed" ELSE "returned"
    /\ UNCHANGED <<call, at, dumps>>

Concluded == phase \in Ended /\ UNCHANGED compareVars

CompareNext ==
    \/ AssertEqualT \/ PrintValue \/ PrintString \/ PrintRow \/ EndDump
    \/ AssertInRange
    \/ Concluded

CompareSpec == CompareInit /\ [][CompareNext]_compareVars
=============================================================================
