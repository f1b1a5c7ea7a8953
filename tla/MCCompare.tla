------------------------------ MODULE MCCompare ------------------------------
(* A small instance of the comparing assertions for TLC. *)
EXTENDS CompareProperties

Buffers(n) == [1 .. n -> {0, 1}]

(* Up to five bytes of memory: none, part of a row, whole rows, and more.  *)
MCMemory == [fn: {"EQUAL_T"}, type: {"memory"}, exp: Buffers(5), got: Buffers(5), size: 0 .. 5]

(* Arrays of three characters with and without a terminator, any limit.    *)
Arrays == [1 .. 3 -> Byte]
MCStrings == {c \in [fn: {"EQUAL_T"}, type: {"string"}, exp: Arrays, got: Arrays,
                     size: 0 .. 4] :
                c.size <= 3 \/ (Terminated(c.exp) /\ Terminated(c.got))}

MCOther == [fn: {"EQUAL_T"}, type: {"missing", "no_equal", "no_print", "value"},
            exp: Buffers(1), got: Buffers(1), size: {1}]

MCNumbers == ({0} \X (-2 .. 2)) \union ({-1, 1, 2} \X {0})
MCRanges == [fn: {"IN_RANGE"}, exp: MCNumbers, got: MCNumbers, tol: MCNumbers]

MCAssertCalls == MCMemory \union MCStrings \union MCOther \union MCRanges
=============================================================================
