-------------------------- MODULE CompareProperties --------------------------
(***************************************************************************)
(* Comparing assertions tell different values from equal ones, and what    *)
(* they print of a difference is where it is.                              *)
(***************************************************************************)
EXTENDS Compare

(* Types; at most one row is begun at a time, and never past the size.     *)
CompareTypeOK ==
    /\ call \in AssertCalls
    /\ phase \in {"called"} \union Values \union Ended
    /\ at \in 0 .. (IF call.fn = "EQUAL_T" THEN call.size ELSE 0)
    /\ dumps \in [Values -> Seq(Rows)]

(* The first difference of two strings is within the limit. *)
StringsDiffer(exp, got, size) ==
    \E i \in 1 .. size :
        /\ \A j \in 1 .. i - 1 : /\ j \in DOMAIN exp \cap DOMAIN got
                                 /\ exp[j] = got[j] /\ exp[j] # 0
        /\ i \in DOMAIN exp /\ i \in DOMAIN got
        /\ exp[i] # got[i]

Different(c) ==
    CASE c.type = "string" -> StringsDiffer(c.exp, c.got, c.size)
      [] c.type = "memory" -> \E i \in 1 .. c.size : c.exp[i] # c.got[i]
      [] OTHER -> c.exp # c.got

(* The assertion fails for different values, wherever its callbacks find   *)
(* the difference, and for a type that cannot compare, and returns for     *)
(* others; only printing an unterminated array, which a limit allows to    *)
(* compare, has no defined end.                                            *)
VerdictExact ==
    call.fn = "EQUAL_T" =>
        /\ phase = "failed" => call.type \in {"missing", "no_equal"} \/ Different(call)
        /\ phase = "returned" => call.type \notin {"missing", "no_equal"} /\ ~Different(call)
        /\ phase = "undefined" =>
              call.type = "string" /\ Different(call)
              /\ ~(Terminated(call.exp) /\ Terminated(call.got))

(* Both dumps show every byte once, in order, mark those that differ and   *)
(* the rows that have one, and start each row at the offset it says.       *)
Shown(rows, i) == {k \in DOMAIN rows : i \in rows[k].start .. rows[k].start + Len(rows[k].bytes) - 1}
DumpsExact ==
    phase = "failed" /\ call.fn = "EQUAL_T" /\ call.type = "memory" =>
        \A value \in Values :
            LET rows == dumps[value]
                buf  == IF value = "expected" THEN call.exp ELSE call.got
            IN
            /\ \A k \in 1 .. Len(rows) - 1 : rows[k].start < rows[k + 1].start
            /\ \A k \in DOMAIN rows :
                  rows[k].mark <=> \E m \in DOMAIN rows[k].marks : rows[k].marks[m]
            /\ \A i \in 0 .. call.size - 1 : \E k \in DOMAIN rows :
                  /\ Shown(rows, i) = {k}
                  /\ rows[k].bytes[i - rows[k].start + 1] = buf[i + 1]
                  /\ rows[k].marks[i - rows[k].start + 1] <=> call.exp[i + 1] # call.got[i + 1]

(* Without a NaN among them, numbers pass when they are equal or not       *)
(* further apart than the tolerance, on either side and at the infinities. *)
InRangeExact ==
    call.fn = "IN_RANGE" /\ phase \in Ended
    /\ ~(IsNaN(call.exp) \/ IsNaN(call.got) \/ IsNaN(call.tol)) =>
        (phase = "returned" <=>
            \/ call.exp = call.got
            \/ call.tol = PlusInf
            \/ /\ Finite(call.exp) /\ Finite(call.got) /\ Finite(call.tol)
               /\ call.exp[2] - call.tol[2] <= call.got[2]
               /\ call.got[2] <= call.exp[2] + call.tol[2])
=============================================================================
