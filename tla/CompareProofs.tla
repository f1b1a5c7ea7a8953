----------------------------- MODULE CompareProofs ----------------------------
(***************************************************************************)
(* Proofs, for all buffers, sizes, row lengths and numbers, of when a      *)
(* comparison fails, what the dumps of memory show and when in_range       *)
(* passes.                                                                 *)
(***************************************************************************)
EXTENDS CompareProperties, NumberFacts, SequenceTheorems, TLAPS

(***************************************************************************)
(* The inductive invariant.                                                *)
(***************************************************************************)

Buffer(value) == IF value = "expected" THEN call.exp ELSE call.got

(* Row k shows byte i of buf, with its mark, and no other row does; c is   *)
(* the call.                                                               *)
ShownIn(c, rows, buf, i, k) ==
    /\ Shown(rows, i) = {k}
    /\ rows[k].bytes[i - rows[k].start + 1] = buf[i + 1]
    /\ rows[k].marks[i - rows[k].start + 1] <=> c.exp[i + 1] # c.got[i + 1]

(* The rows show the first n bytes of buf, and nothing else.               *)
RowsShow(c, rows, buf, n) ==
    /\ \A k \in DOMAIN rows :
          /\ Len(rows[k].bytes) > 0 /\ rows[k].start + Len(rows[k].bytes) <= n
          /\ rows[k].mark <=> \E m \in DOMAIN rows[k].marks : rows[k].marks[m]
    /\ \A k \in 1 .. Len(rows) - 1 : rows[k].start < rows[k + 1].start
    /\ \A i \in 0 .. n - 1 : \E k \in DOMAIN rows : ShownIn(c, rows, buf, i, k)

(* How far the dump of a value has come. *)
Dumped(value) ==
    CASE phase = "failed" \/ (phase = "got" /\ value = "expected") -> call.size
      [] phase = value -> at
      [] OTHER -> 0

IsMemory == call.fn = "EQUAL_T" /\ call.type = "memory"
DumpsInv ==
    /\ CompareTypeOK
    /\ phase \in Values => call.fn = "EQUAL_T"
    /\ IsMemory => \A value \in Values : RowsShow(call, dumps[value], Buffer(value), Dumped(value))
    /\ at # 0 => phase \in Values /\ call.type = "memory"

(***************************************************************************)
(* The calls.                                                              *)
(***************************************************************************)

LEMMA EqualCall ==
    ASSUME CompareTypeOK, call.fn = "EQUAL_T"
    PROVE  /\ call.type \in Types /\ call.size \in Nat
           /\ call.exp \in Seq(Byte) /\ call.got \in Seq(Byte)
           /\ call.type = "memory" => call.size <= Len(call.exp) /\ call.size <= Len(call.got)
  BY AssertCallsAssumption DEF CompareTypeOK

(* A row that is printed has a byte at least, and none past the size.      *)
LEMMA RowLengthBounds ==
    ASSUME NEW i \in Nat, NEW size \in Nat, i < size
    PROVE  RowLength(i, size) \in Nat \ {0} /\ i + RowLength(i, size) <= size
  BY RowLenAssumption DEF RowLength

(***************************************************************************)
(* One more row.                                                           *)
(***************************************************************************)

LEMMA RowType ==
    ASSUME NEW buf \in Seq(Byte), NEW length \in Nat \ {0}, at \in Nat, at + length <= Len(buf)
    PROVE  /\ Row(buf, length) \in Rows /\ Row(buf, length).start = at
           /\ Len(Row(buf, length).bytes) = length
           /\ \A i \in at .. at + length - 1 : Row(buf, length).bytes[i - at + 1] = buf[i + 1]
           /\ DOMAIN Row(buf, length).marks = 1 .. length
           /\ \A k \in 1 .. length : Row(buf, length).marks[k] = Differs(at + k - 1)
           /\ Row(buf, length).mark = (\E i \in Here(length) : Differs(i))
<1> DEFINE s == SubSeq(buf, at + 1, at + length)
           marks == [k \in 1 .. length |-> Differs(at + k - 1)]
<1>1. at + 1 \in Int /\ at + length \in Int /\ \A i \in at + 1 .. at + length : buf[i] \in Byte
  BY ElementOfSeq
<1>2. /\ s \in Seq(Byte)
      /\ Len(s) = IF at + 1 <= at + length THEN at + length - (at + 1) + 1 ELSE 0
      /\ \A i \in 1 .. at + length - (at + 1) + 1 : s[i] = buf[at + 1 + i - 1]
  BY <1>1, SubSeqProperties
<1> HIDE DEF s
<1>3. Len(s) = length /\ \A i \in at .. at + length - 1 : s[i - at + 1] = buf[i + 1]
  <2>1. at + length - (at + 1) + 1 = length /\ at + 1 <= at + length
    OBVIOUS
  <2>2. \A i \in at .. at + length - 1 : i - at + 1 \in 1 .. length /\ at + 1 + (i - at + 1) - 1 = i + 1
    OBVIOUS
  <2> QED  BY <1>2, <2>1, <2>2
<1>4. marks \in Seq(BOOLEAN)
  <2>1. \A k \in 1 .. length : Differs(at + k - 1) \in BOOLEAN
    BY DEF Differs
  <2>2. marks \in [1 .. length -> BOOLEAN]
    BY <2>1
  <2> HIDE DEF marks
  <2> QED  BY <2>2, SeqDef
<1>5. (\E i \in Here(length) : Differs(i)) \in BOOLEAN
  OBVIOUS
<1>6. Row(buf, length) = [start |-> at, mark |-> \E i \in Here(length) : Differs(i),
                          bytes |-> s, marks |-> marks]
  BY DEF Row, s
<1>7. DOMAIN marks = 1 .. length /\ \A k \in 1 .. length : marks[k] = Differs(at + k - 1)
  OBVIOUS
<1> HIDE DEF marks
<1> QED  BY <1>2, <1>3, <1>4, <1>5, <1>6, <1>7 DEF Rows

LEMMA AddRow ==
    ASSUME NEW buf \in Seq(Byte), NEW length \in Nat \ {0}, at \in Nat, at + length <= Len(buf),
           NEW rows \in Seq(Rows), RowsShow(call, rows, buf, at)
    PROVE  RowsShow(call, Append(rows, Row(buf, length)), buf, at + length)
<1> DEFINE row == Row(buf, length)
           more == Append(rows, row)
           last == Len(rows) + 1
<1>1. /\ row \in Rows /\ row.start = at /\ Len(row.bytes) = length
      /\ \A i \in at .. at + length - 1 : row.bytes[i - at + 1] = buf[i + 1]
      /\ DOMAIN row.marks = 1 .. length
      /\ \A k \in 1 .. length : row.marks[k] = Differs(at + k - 1)
      /\ row.mark = (\E i \in Here(length) : Differs(i))
  BY RowType
<1> HIDE DEF row
<1>2. /\ more \in Seq(Rows) /\ Len(rows) \in Nat /\ last \in Nat
      /\ DOMAIN rows = 1 .. Len(rows) /\ DOMAIN more = 1 .. last /\ Len(more) = last
      /\ more[last] = row /\ \A k \in DOMAIN rows : more[k] = rows[k] /\ k # last
      /\ \A k \in DOMAIN more : k \in DOMAIN rows \/ k = last
      /\ last \in DOMAIN more /\ \A k \in DOMAIN rows : k \in DOMAIN more
  BY <1>1
<1> HIDE DEF more, last
<1>3. \A k \in DOMAIN rows :
         /\ rows[k].start \in Nat /\ Len(rows[k].bytes) \in Nat \ {0}
         /\ rows[k].start + Len(rows[k].bytes) <= at
  <2>1. \A k \in DOMAIN rows : rows[k] \in Rows
    BY ElementOfSeq, <1>2
  <2>2. \A k \in DOMAIN rows : Len(rows[k].bytes) > 0 /\ rows[k].start + Len(rows[k].bytes) <= at
    BY DEF RowsShow
  <2> QED  BY <2>1, <2>2 DEF Rows
<1>4. row.mark <=> \E m \in DOMAIN row.marks : row.marks[m]
  <2>1. ASSUME NEW i \in Here(length), Differs(i) PROVE \E m \in DOMAIN row.marks : row.marks[m]
    <3>1. i - at + 1 \in 1 .. length /\ at + (i - at + 1) - 1 = i
      BY <2>1 DEF Here
    <3> QED  BY <1>1, <2>1, <3>1
  <2>2. ASSUME NEW m \in DOMAIN row.marks, row.marks[m]
        PROVE  \E i \in Here(length) : Differs(i)
    <3>1. at + m - 1 \in Here(length)
      BY <1>1 DEF Here
    <3> QED  BY <1>1, <2>2, <3>1
  <2>3. row.mark \in BOOLEAN
    BY <1>1 DEF Rows
  <2> QED  BY <1>1, <2>1, <2>2, <2>3
<1>5. \A k \in DOMAIN more :
         /\ Len(more[k].bytes) > 0 /\ more[k].start + Len(more[k].bytes) <= at + length
         /\ more[k].mark <=> \E m \in DOMAIN more[k].marks : more[k].marks[m]
  <2>1. SUFFICES ASSUME NEW k \in DOMAIN more
                 PROVE  /\ Len(more[k].bytes) > 0
                        /\ more[k].start + Len(more[k].bytes) <= at + length
                        /\ more[k].mark <=> \E m \in DOMAIN more[k].marks : more[k].marks[m]
    OBVIOUS
  <2>2. CASE k = last
    <3>1. more[k] = row
      BY <1>2, <2>2
    <3>2. Len(row.bytes) > 0 /\ row.start + Len(row.bytes) <= at + length
      BY <1>1
    <3> QED  BY <1>4, <3>1, <3>2
  <2>3. CASE k \in DOMAIN rows
    <3>1. /\ Len(rows[k].bytes) > 0 /\ rows[k].start + Len(rows[k].bytes) <= at + length
      BY <1>3, <2>3
    <3>2. rows[k].mark <=> \E m \in DOMAIN rows[k].marks : rows[k].marks[m]
      BY <2>3 DEF RowsShow
    <3> QED  BY <1>2, <2>3, <3>1, <3>2
  <2> QED  BY <1>2, <2>2, <2>3
<1>6. \A k \in 1 .. Len(more) - 1 : more[k].start < more[k + 1].start
  <2>1. ASSUME NEW k \in 1 .. Len(rows) PROVE more[k].start < more[k + 1].start
    <3>1. CASE k = Len(rows)
      BY <1>1, <1>2, <1>3, <3>1 DEF last
    <3>2. CASE k # Len(rows)
      <4> DEFINE n == Len(rows)
      <4>1. k \in 1 .. n - 1 /\ k + 1 \in 1 .. n
        <5>1. n \in Nat /\ k \in 1 .. n /\ k # n
          BY <1>2, <2>1, <3>2
        <5> HIDE DEF n
        <5> QED  BY <5>1
      <4> QED  BY <1>2, <4>1 DEF RowsShow
    <3> QED  BY <3>1, <3>2
  <2> QED  BY <1>2, <2>1 DEF last
<1>7. ASSUME NEW i \in 0 .. at + length - 1
      PROVE  \E k \in DOMAIN more : ShownIn(call, more, buf, i, k)
  <2>1. CASE i < at
    <3>1. PICK k \in DOMAIN rows : ShownIn(call, rows, buf, i, k)
      <4>1. i \in 0 .. at - 1
        BY <2>1
      <4> QED  BY <4>1 DEF RowsShow
    <3>2. Shown(more, i) = Shown(rows, i)
      <4>1. ~(i \in row.start .. row.start + Len(row.bytes) - 1)
        BY <1>1, <2>1
      <4> DEFINE In(r) == i \in r.start .. r.start + Len(r.bytes) - 1
      <4>2. \A j \in DOMAIN more : In(more[j]) => j \in DOMAIN rows
        BY <1>2, <4>1
      <4>3. \A j \in DOMAIN rows : j \in DOMAIN more /\ more[j] = rows[j]
        BY <1>2
      <4> HIDE DEF In
      <4>4. {j \in DOMAIN more : In(more[j])} = {j \in DOMAIN rows : In(rows[j])}
        BY <4>2, <4>3
      <4> QED  BY <4>4 DEF Shown, In
    <3>3. ShownIn(call, more, buf, i, k) /\ k \in DOMAIN more
      <4>1. more[k] = rows[k] /\ k \in DOMAIN more
        BY <1>2, <3>1
      <4> QED  BY <3>1, <3>2, <4>1 DEF ShownIn
    <3> QED  BY <3>3
  <2>2. CASE i >= at
    <3>1. \A k \in DOMAIN rows : ~(i \in rows[k].start .. rows[k].start + Len(rows[k].bytes) - 1)
      BY <1>3, <2>2
    <3>2. i \in row.start .. row.start + Len(row.bytes) - 1
      BY <1>1, <2>2
    <3>3. Shown(more, i) = {last}
      <4> DEFINE In(r) == i \in r.start .. r.start + Len(r.bytes) - 1
      <4>1. \A j \in DOMAIN more : In(more[j]) <=> j = last
        BY <1>2, <3>1, <3>2
      <4> HIDE DEF In
      <4>2. {j \in DOMAIN more : In(more[j])} = {last}
        BY <1>2, <4>1
      <4> QED  BY <4>2 DEF Shown, In
    <3>4. i - at + 1 \in 1 .. length /\ at + (i - at + 1) - 1 = i /\ i \in at .. at + length - 1
      BY <2>2
    <3>5. /\ row.bytes[i - at + 1] = buf[i + 1]
          /\ row.marks[i - at + 1] = Differs(i)
      BY <1>1, <3>4
    <3>6. ShownIn(call, more, buf, i, last)
      BY <1>1, <1>2, <3>3, <3>5 DEF ShownIn, Differs
    <3>7. last \in DOMAIN more
      BY <1>2
    <3> QED  BY <3>6, <3>7
  <2> QED  BY <2>1, <2>2
<1>8. RowsShow(call, more, buf, at + length)
  BY <1>5, <1>6, <1>7 DEF RowsShow
<1> QED  BY <1>8 DEF more, row

(***************************************************************************)
(* DumpsInv is inductive.                                                  *)
(***************************************************************************)

LEMMA InitDumps == CompareInit => DumpsInv
<1> SUFFICES ASSUME CompareInit PROVE DumpsInv
  OBVIOUS
<1>1. /\ call \in AssertCalls /\ phase = "called" /\ at = 0
      /\ dumps \in [Values -> Seq(Rows)] /\ \A v \in Values : dumps[v] = <<>>
  BY EmptySeq DEF CompareInit
<1>2. CompareTypeOK
  <2>1. CASE call.fn = "EQUAL_T"
    <3>1. call.size \in Nat
      BY <1>1, <2>1, AssertCallsAssumption
    <3> QED  BY <1>1, <2>1, <3>1 DEF CompareTypeOK
  <2>2. CASE call.fn # "EQUAL_T"
    BY <1>1, <2>2 DEF CompareTypeOK
  <2> QED  BY <2>1, <2>2
<1>3. ASSUME NEW value \in Values PROVE RowsShow(call, dumps[value], Buffer(value), Dumped(value))
  <2>1. dumps[value] = <<>> /\ Dumped(value) = 0
    BY <1>1 DEF Dumped, Values
  <2> QED  BY <2>1 DEF RowsShow
<1> QED  BY <1>1, <1>2, <1>3 DEF DumpsInv, Values

(* Steps that print no row of memory. *)
LEMMA AssertKeepsDumps ==
    ASSUME DumpsInv, AssertEqualT \/ AssertInRange \/ PrintValue \/ PrintString PROVE DumpsInv'
<1>1. /\ UNCHANGED <<call, at, dumps>>
      /\ phase' \in {"returned", "failed", "undefined"} \union Values
      /\ phase \in {"called"} \union Values
  BY DEF AssertEqualT, AssertInRange, PrintValue, PrintString, Printed, Values
<1>2. CompareTypeOK'
  BY <1>1 DEF DumpsInv, CompareTypeOK, Ended
<1>3. phase' \in Values => call.fn = "EQUAL_T"
  BY DEF DumpsInv, AssertEqualT, AssertInRange, PrintValue, PrintString, Values
<1>4. at = 0 /\ at' = 0
  BY <1>1 DEF DumpsInv, AssertEqualT, AssertInRange, PrintValue, PrintString, Values
<1>5. ASSUME IsMemory, NEW value \in Values
      PROVE  RowsShow(call, dumps[value], Buffer(value), Dumped(value))'
  <2>1. AssertEqualT
    BY <1>5 DEF IsMemory, PrintValue, PrintString, AssertInRange
  <2>2. phase = "called" /\ phase' \in {"returned", "expected"}
    BY <1>5, <2>1 DEF AssertEqualT, IsMemory
  <2>3. Dumped(value) = 0 /\ Dumped(value)' = 0
    BY <1>1, <1>4, <1>5, <2>2 DEF Dumped, Values
  <2>4. RowsShow(call, dumps[value], Buffer(value), 0)
    BY <1>5, <2>3 DEF DumpsInv
  <2> QED  BY <1>1, <2>3, <2>4 DEF Buffer
<1> QED  BY <1>1, <1>2, <1>3, <1>4, <1>5 DEF DumpsInv, IsMemory

(* A row: the dump of this value comes further, the other one stays.       *)
LEMMA PrintRowKeeps == ASSUME DumpsInv, PrintRow PROVE DumpsInv'
<1> DEFINE length == RowLength(at, call.size)
           buf == Buffer(phase)
           row == Row(buf, length)
<1>1. /\ phase \in Values /\ call.fn = "EQUAL_T" /\ call.type = "memory" /\ at < call.size
      /\ UNCHANGED <<call, phase>> /\ at' = at + length
      /\ dumps' = [dumps EXCEPT ![phase] = Append(@, row)]
  BY DEF PrintRow, DumpsInv, Buffer
<1>2. /\ CompareTypeOK /\ call.size \in Nat /\ buf \in Seq(Byte) /\ call.size <= Len(buf)
      /\ at \in Nat /\ dumps \in [Values -> Seq(Rows)]
  BY <1>1, EqualCall DEF DumpsInv, CompareTypeOK, Buffer
<1>3. length \in Nat \ {0} /\ at + length <= call.size
  BY <1>1, <1>2, RowLengthBounds
<1> HIDE DEF length, buf
<1>4. row \in Rows
  <2>1. at + length <= Len(buf)
    BY <1>2, <1>3
  <2> QED  BY <1>2, <1>3, <2>1, RowType
<1>5. RowsShow(call, dumps[phase], buf, at)
  <2>1. Dumped(phase) = at
    BY <1>1 DEF Dumped, Values
  <2> QED  BY <1>1, <2>1 DEF DumpsInv, IsMemory, buf
<1>6. RowsShow(call, Append(dumps[phase], row), buf, at + length)
  <2>1. at + length <= Len(buf) /\ dumps[phase] \in Seq(Rows)
    BY <1>1, <1>2, <1>3
  <2> QED  BY <1>2, <1>3, <1>5, <2>1, AddRow
<1> HIDE DEF row
<1>7. /\ dumps' \in [Values -> Seq(Rows)] /\ dumps'[phase] = Append(dumps[phase], row)
      /\ \A value \in Values : value # phase => dumps'[value] = dumps[value]
  BY <1>1, <1>2, <1>4
<1>8. CompareTypeOK'
  <2>1. at + length \in 0 .. call.size
    BY <1>2, <1>3
  <2> QED  BY <1>1, <1>2, <1>7, <2>1 DEF CompareTypeOK
<1>9. ASSUME NEW value \in Values PROVE RowsShow(call, dumps[value], Buffer(value), Dumped(value))'
  <2>1. CASE value = phase
    <3>1. Dumped(value)' = at + length /\ Buffer(value)' = buf /\ call' = call
      BY <1>1, <2>1 DEF Dumped, Values, Buffer, buf
    <3> QED  BY <1>6, <1>7, <2>1, <3>1
  <2>2. CASE value # phase
    <3>1. /\ Dumped(value)' = Dumped(value) /\ Buffer(value)' = Buffer(value) /\ call' = call
          /\ dumps'[value] = dumps[value]
      BY <1>1, <1>7, <1>9, <2>2 DEF Dumped, Values, Buffer
    <3>2. RowsShow(call, dumps[value], Buffer(value), Dumped(value))
      BY <1>1, <1>9 DEF DumpsInv, IsMemory
    <3> QED  BY <3>1, <3>2
  <2> QED  BY <2>1, <2>2
<1> QED  BY <1>1, <1>8, <1>9 DEF DumpsInv

(* The dump of a value ends when it has shown all of it. *)
LEMMA EndDumpKeeps == ASSUME DumpsInv, EndDump PROVE DumpsInv'
<1>1. /\ phase \in Values /\ call.fn = "EQUAL_T" /\ call.type = "memory" /\ at >= call.size
      /\ UNCHANGED <<call, dumps>> /\ at' = 0
      /\ phase' = IF phase = "expected" THEN "got" ELSE "failed"
  BY DEF EndDump, Printed, DumpsInv
<1>2. at = call.size /\ call.size \in Nat
  BY <1>1, EqualCall DEF DumpsInv, CompareTypeOK
<1>3. CompareTypeOK'
  BY <1>1, <1>2 DEF DumpsInv, CompareTypeOK, Values, Ended
<1>4. ASSUME NEW value \in Values PROVE RowsShow(call, dumps[value], Buffer(value), Dumped(value))'
  <2>1. Dumped(value)' = Dumped(value)
    BY <1>1, <1>2, <1>4 DEF Dumped, Values
  <2>2. RowsShow(call, dumps[value], Buffer(value), Dumped(value))
    BY <1>1, <1>4 DEF DumpsInv, IsMemory
  <2> QED  BY <1>1, <2>1, <2>2 DEF Buffer
<1> QED  BY <1>1, <1>3, <1>4 DEF DumpsInv

LEMMA NextDumps == DumpsInv /\ [CompareNext]_compareVars => DumpsInv'
<1> SUFFICES ASSUME DumpsInv, [CompareNext]_compareVars PROVE DumpsInv'
  OBVIOUS
<1>1. CASE UNCHANGED compareVars
  BY <1>1 DEF compareVars, DumpsInv, CompareTypeOK, IsMemory, Buffer, Dumped
<1> QED  BY <1>1, AssertKeepsDumps, PrintRowKeeps, EndDumpKeeps DEF CompareNext, Concluded

LEMMA DumpsInvariant == CompareSpec => []DumpsInv
  BY InitDumps, NextDumps, PTL DEF CompareSpec

(* No byte past the size is shown, nor a row begun there, for any sizes.   *)
THEOREM CompareTypeCorrect == CompareSpec => []CompareTypeOK
<1>1. DumpsInv => CompareTypeOK
  BY DEF DumpsInv
<1> QED  BY <1>1, DumpsInvariant, PTL

(* For all buffers, sizes and row lengths, both dumps of unequal memory    *)
(* show each byte once, in its row, marked if and only if it differs.      *)
THEOREM DumpsCorrect == CompareSpec => []DumpsExact
<1>1. ASSUME DumpsInv, phase = "failed", IsMemory, NEW value \in Values
      PROVE  RowsShow(call, dumps[value], Buffer(value), call.size)
  <2>1. Dumped(value) = call.size
    BY <1>1 DEF Dumped, Values
  <2> QED  BY <1>1, <2>1 DEF DumpsInv
<1>2. DumpsInv => DumpsExact
  <2>1. SUFFICES ASSUME DumpsInv, phase = "failed", IsMemory, NEW value \in Values
                 PROVE  LET rows == dumps[value]
                            buf  == IF value = "expected" THEN call.exp ELSE call.got
                        IN
                        /\ \A k \in 1 .. Len(rows) - 1 : rows[k].start < rows[k + 1].start
                        /\ \A k \in DOMAIN rows :
                              rows[k].mark <=> \E m \in DOMAIN rows[k].marks : rows[k].marks[m]
                        /\ \A i \in 0 .. call.size - 1 : \E k \in DOMAIN rows :
                              ShownIn(call, rows, buf, i, k)
    BY DEF DumpsExact, IsMemory, ShownIn
  <2>2. RowsShow(call, dumps[value], Buffer(value), call.size)
    BY <1>1, <2>1
  <2> QED  BY <2>2 DEF RowsShow, Buffer
<1> QED  BY <1>2, DumpsInvariant, PTL

(***************************************************************************)
(* Ranges.                                                                 *)
(***************************************************************************)

LEMMA DoubleParts ==
    ASSUME NEW x \in Doubles
    PROVE  /\ x = <<x[1], x[2]>> /\ x[1] \in {-1, 0, 1, 2} /\ x[2] \in Int
           /\ x[1] # 0 => x[2] = 0
  BY DEF Doubles

(* What is beyond the tolerance on one side. *)
LEMMA BelowRange ==
    ASSUME NEW lo \in Doubles, NEW hi \in Doubles, NEW tol \in Doubles,
           ~IsNaN(lo), ~IsNaN(hi), ~IsNaN(tol), Less(lo, hi)
    PROVE  Less(tol, Minus(hi, lo)) <=>
             /\ tol[1] # 1
             /\ Finite(lo) /\ Finite(hi) /\ Finite(tol) => tol[2] < hi[2] - lo[2]
<1>1. /\ lo[1] \in {-1, 0, 1} /\ hi[1] \in {-1, 0, 1} /\ tol[1] \in {-1, 0, 1}
      /\ lo[2] \in Int /\ hi[2] \in Int /\ tol[2] \in Int
  BY DoubleParts DEF IsNaN
<1>2. lo[1] < hi[1] \/ (lo[1] = 0 /\ hi[1] = 0 /\ lo[2] < hi[2])
  BY DEF Less, Finite
<1>3. CASE lo[1] = 0 /\ hi[1] = 0
  <2>1. Minus(hi, lo) = <<0, hi[2] - lo[2]>>
    BY <1>3 DEF Minus, Finite
  <2> QED  BY <1>1, <1>3, <2>1 DEF Less, Finite, IsNaN
<1>4. CASE ~(lo[1] = 0 /\ hi[1] = 0)
  <2>1. Minus(hi, lo)[1] = 1
    BY <1>1, <1>2, <1>4 DEF Minus, Finite
  <2> QED  BY <1>1, <1>4, <2>1 DEF Less, Finite, IsNaN
<1> QED  BY <1>3, <1>4

LEMMA RangeMeans ==
    ASSUME NEW exp \in Doubles, NEW got \in Doubles, NEW tol \in Doubles,
           ~IsNaN(exp), ~IsNaN(got), ~IsNaN(tol)
    PROVE  ~OutOfRange(exp, got, tol) <=>
             \/ exp = got
             \/ tol = PlusInf
             \/ /\ Finite(exp) /\ Finite(got) /\ Finite(tol)
                /\ exp[2] - tol[2] <= got[2] /\ got[2] <= exp[2] + tol[2]
<1>1. /\ exp[1] \in {-1, 0, 1} /\ got[1] \in {-1, 0, 1} /\ tol[1] \in {-1, 0, 1}
      /\ exp[2] \in Int /\ got[2] \in Int /\ tol[2] \in Int
  BY DoubleParts DEF IsNaN
<1>2. tol = PlusInf <=> tol[1] = 1
  BY DoubleParts DEF PlusInf
<1>3. exp = got <=> exp[1] = got[1] /\ exp[2] = got[2]
  BY DoubleParts
<1>4. /\ exp[1] # 0 => exp[2] = 0
      /\ got[1] # 0 => got[2] = 0
  BY DoubleParts
<1>5. CASE exp = got
  BY <1>1, <1>5 DEF OutOfRange, Less, Finite
<1>6. CASE Less(got, exp)
  <2>1. ~Less(exp, got) /\ exp # got
    BY <1>1, <1>6 DEF Less, Finite
  <2>2. Finite(exp) /\ Finite(got) => got[2] < exp[2]
    BY <1>1, <1>6 DEF Less, Finite
  <2>3. ~OutOfRange(exp, got, tol) <=>
          tol[1] = 1 \/ (/\ Finite(got) /\ Finite(exp) /\ Finite(tol)
                         /\ exp[2] - got[2] <= tol[2])
    BY <1>1, <1>6, <2>1, BelowRange DEF OutOfRange
  <2> QED  BY <1>1, <1>2, <2>1, <2>2, <2>3
<1>7. CASE Less(exp, got)
  <2>1. ~Less(got, exp) /\ exp # got
    BY <1>1, <1>7 DEF Less, Finite
  <2>2. Finite(exp) /\ Finite(got) => exp[2] < got[2]
    BY <1>1, <1>7 DEF Less, Finite
  <2>3. ~OutOfRange(exp, got, tol) <=>
          tol[1] = 1 \/ (/\ Finite(got) /\ Finite(exp) /\ Finite(tol)
                         /\ got[2] - exp[2] <= tol[2])
    BY <1>1, <1>7, <2>1, BelowRange DEF OutOfRange
  <2> QED  BY <1>1, <1>2, <2>1, <2>2, <2>3
<1>8. exp = got \/ Less(got, exp) \/ Less(exp, got)
  <2>1. CASE exp[1] # got[1]
    <3>1. exp[1] < got[1] \/ got[1] < exp[1]
      BY <1>1, <2>1
    <3> QED  BY <3>1 DEF Less
  <2>2. CASE exp[1] = got[1] /\ exp[1] # 0
    BY <1>3, <1>4, <2>2
  <2>3. CASE exp[1] = 0 /\ got[1] = 0
    <3>1. exp[2] < got[2] \/ got[2] < exp[2] \/ exp[2] = got[2]
      BY <1>1
    <3> QED  BY <1>3, <2>3, <3>1 DEF Less, Finite
  <2> QED  BY <2>1, <2>2, <2>3
<1> QED  BY <1>5, <1>6, <1>7, <1>8

RangeInv ==
    call.fn = "IN_RANGE" /\ phase # "called" =>
        phase = IF OutOfRange(call.exp, call.got, call.tol) THEN "failed" ELSE "returned"

LEMMA NextRange == DumpsInv /\ RangeInv /\ [CompareNext]_compareVars => RangeInv'
<1> SUFFICES ASSUME DumpsInv, RangeInv, [CompareNext]_compareVars, call'.fn = "IN_RANGE"
             PROVE  RangeInv'
  BY DEF RangeInv
<1>1. call' = call
  BY DEF CompareNext, AssertEqualT, PrintValue, PrintString, PrintRow, EndDump, AssertInRange,
     Concluded, compareVars
<1>2. phase \notin Values /\ call.fn = "IN_RANGE"
  BY <1>1 DEF DumpsInv
<1>3. AssertInRange \/ UNCHANGED compareVars
  BY <1>2 DEF CompareNext, AssertEqualT, PrintValue, PrintString, PrintRow, EndDump, Concluded
<1> QED  BY <1>1, <1>2, <1>3 DEF RangeInv, AssertInRange, compareVars

(* For all numbers but NaN, infinite ones too, in_range passes if and only *)
(* if they are equal or within the tolerance on either side.               *)
THEOREM InRangeCorrect == CompareSpec => []InRangeExact
<1>1. CompareInit => RangeInv
  BY DEF CompareInit, RangeInv
<1>2. ASSUME CompareTypeOK, call.fn = "IN_RANGE"
      PROVE  call.exp \in Doubles /\ call.got \in Doubles /\ call.tol \in Doubles
  BY <1>2, AssertCallsAssumption DEF CompareTypeOK
<1>3. DumpsInv /\ RangeInv => InRangeExact
  <2>1. SUFFICES ASSUME DumpsInv, RangeInv, call.fn = "IN_RANGE", phase \in Ended,
                        ~(IsNaN(call.exp) \/ IsNaN(call.got) \/ IsNaN(call.tol))
                 PROVE  phase = "returned" <=>
                          \/ call.exp = call.got
                          \/ call.tol = PlusInf
                          \/ /\ Finite(call.exp) /\ Finite(call.got) /\ Finite(call.tol)
                             /\ call.exp[2] - call.tol[2] <= call.got[2]
                             /\ call.got[2] <= call.exp[2] + call.tol[2]
    BY DEF InRangeExact
  <2>2. call.exp \in Doubles /\ call.got \in Doubles /\ call.tol \in Doubles
    BY <1>2, <2>1 DEF DumpsInv
  <2>3. phase = "returned" <=> ~OutOfRange(call.exp, call.got, call.tol)
    BY <2>1 DEF RangeInv, Ended
  <2> QED  BY <2>1, <2>2, <2>3, RangeMeans
<1> QED  BY <1>1, <1>3, NextRange, DumpsInvariant, PTL DEF CompareSpec

(***************************************************************************)
(* Strings.                                                                *)
(***************************************************************************)

(* The string in a buffer: n characters that are not 0, then a 0 or the    *)
(* end of the buffer.                                                      *)
Holds(buf, n) ==
    /\ n \in 0 .. Len(buf)
    /\ CString(buf) \in Seq(Byte) /\ Len(CString(buf)) = n
    /\ \A i \in 1 .. n : CString(buf)[i] = buf[i] /\ buf[i] # 0
    /\ IF n < Len(buf) THEN buf[n + 1] = 0 ELSE ~Terminated(buf)

LEMMA StringInBuffer == ASSUME NEW buf \in Seq(Byte) PROVE \E n \in Nat : Holds(buf, n)
<1>1. Len(buf) \in Nat /\ DOMAIN buf = 1 .. Len(buf) /\ \A i \in 1 .. Len(buf) : buf[i] \in Byte
  BY ElementOfSeq
<1>2. CASE ~Terminated(buf)
  <2>1. CString(buf) = buf
    BY <1>2 DEF CString
  <2>2. \A i \in 1 .. Len(buf) : buf[i] # 0
    BY <1>1, <1>2 DEF Terminated
  <2>3. Len(buf) \in 0 .. Len(buf) /\ ~(Len(buf) < Len(buf))
    BY <1>1
  <2>4. Holds(buf, Len(buf))
    BY <1>2, <2>1, <2>2, <2>3 DEF Holds
  <2> QED  BY <1>1, <2>4
<1>3. CASE Terminated(buf)
  <2> DEFINE Zeros == {i \in DOMAIN buf : buf[i] = 0}
             First(i) == buf[i] = 0 /\ \A j \in 1 .. i - 1 : buf[j] # 0
  <2>1. \E i \in DOMAIN buf : First(i)
    <3>1. Zeros \in SUBSET Nat /\ Zeros # {}
      BY <1>1, <1>3 DEF Terminated
    <3>2. PICK i \in Zeros : \A j \in Zeros : i <= j
      <4> HIDE DEF Zeros
      <4> QED  BY <3>1, LeastMember
    <3>3. \A j \in 1 .. i - 1 : j \in DOMAIN buf /\ j < i
      BY <1>1
    <3>4. \A j \in 1 .. i - 1 : buf[j] # 0
      BY <1>1, <3>2, <3>3
    <3> QED  BY <3>4
  <2>2. PICK end \in DOMAIN buf : First(end) /\ CString(buf) = SubSeq(buf, 1, end - 1)
    <3>1. CString(buf) = SubSeq(buf, 1, (CHOOSE i \in DOMAIN buf : First(i)) - 1)
      BY <1>3 DEF CString
    <3> HIDE DEF First
    <3> QED  BY <2>1, <3>1
  <2>3. /\ end - 1 \in Nat /\ end - 1 < Len(buf) /\ end - 1 + 1 = end
        /\ \A i \in 1 .. end - 1 : i \in 1 .. Len(buf)
    BY <1>1
  <2>4. /\ CString(buf) \in Seq(Byte) /\ Len(CString(buf)) = end - 1
        /\ \A i \in 1 .. end - 1 : CString(buf)[i] = buf[i]
    <3>1. \A i \in 1 .. end - 1 : buf[i] \in Byte
      BY <1>1, <2>3
    <3> QED  BY <2>2, <2>3, <3>1, SubSeqProperties
  <2>5. Holds(buf, end - 1)
    BY <2>2, <2>3, <2>4, <1>1 DEF Holds
  <2> QED  BY <2>3, <2>5
<1> QED  BY <1>2, <1>3

(* What the limit lets a comparison see of a string of n characters. *)
Seen(n, size) == IF size < n THEN size ELSE n

LEMMA LimitedString ==
    ASSUME NEW buf \in Seq(Byte), NEW n \in Nat, NEW size \in Nat, Holds(buf, n)
    PROVE  /\ Limited(CString(buf), size) \in Seq(Byte)
           /\ Len(Limited(CString(buf), size)) = Seen(n, size)
           /\ \A i \in 1 .. Seen(n, size) : Limited(CString(buf), size)[i] = buf[i]
<1> DEFINE s == CString(buf)
           seen == Seen(n, size)
<1>1. s \in Seq(Byte) /\ Len(s) = n /\ \A i \in 1 .. n : s[i] = buf[i]
  BY DEF Holds
<1>2. seen \in Nat /\ \A i \in 1 .. seen : i \in 1 .. n
  BY DEF Seen
<1>3. Limited(s, size) = SubSeq(s, 1, seen)
  BY <1>1 DEF Limited, Seen
<1> HIDE DEF s, seen
<1>4. \A i \in 1 .. seen : s[i] \in Byte
  BY <1>1, <1>2, ElementOfSeq
<1>5. /\ SubSeq(s, 1, seen) \in Seq(Byte) /\ Len(SubSeq(s, 1, seen)) = seen
      /\ \A i \in 1 .. seen : SubSeq(s, 1, seen)[i] = s[i]
  BY <1>2, <1>4, SubSeqProperties
<1>6. \A i \in 1 .. seen : SubSeq(s, 1, seen)[i] = buf[i]
  BY <1>1, <1>2, <1>5
<1> QED  BY <1>3, <1>5, <1>6 DEF s, seen

(* Equal strings have no first difference within the limit. *)
LEMMA EqualHaveNoDifference ==
    ASSUME NEW exp \in Seq(Byte), NEW got \in Seq(Byte), NEW size \in Nat,
           StringEqual(exp, got, size)
    PROVE  ~StringsDiffer(exp, got, size)
<1>1. PICK e \in Nat : Holds(exp, e)
  BY StringInBuffer
<1>2. PICK g \in Nat : Holds(got, g)
  BY StringInBuffer
<1> DEFINE le == Seen(e, size)
           lg == Seen(g, size)
<1>3. le = lg /\ \A i \in 1 .. le : exp[i] = got[i]
  <2> DEFINE E == Limited(CString(exp), size)
             G == Limited(CString(got), size)
  <2>1. Len(E) = le /\ \A i \in 1 .. le : E[i] = exp[i]
    BY <1>1, LimitedString
  <2>2. Len(G) = lg /\ \A i \in 1 .. lg : G[i] = got[i]
    BY <1>2, LimitedString
  <2>3. E = G
    BY DEF StringEqual
  <2> HIDE DEF E, G, le, lg
  <2> QED  BY <2>1, <2>2, <2>3
<1>4. SUFFICES ASSUME NEW i \in 1 .. size, i \in DOMAIN exp, i \in DOMAIN got, exp[i] # got[i],
                      \A j \in 1 .. i - 1 : exp[j] = got[j] /\ exp[j] # 0
               PROVE  FALSE
  BY DEF StringsDiffer
<1>5. /\ i \in 1 .. Len(exp) /\ i \in 1 .. Len(got) /\ Len(exp) \in Nat /\ Len(got) \in Nat
      /\ e \in 0 .. Len(exp) /\ g \in 0 .. Len(got)
  BY <1>1, <1>2, <1>4 DEF Holds
<1>6. e >= i - 1
  <2>1. SUFFICES ASSUME e < i - 1 PROVE FALSE
    BY <1>5
  <2>2. e < Len(exp) /\ e + 1 \in 1 .. i - 1
    BY <1>5, <2>1
  <2> QED  BY <1>1, <1>4, <2>2 DEF Holds
<1>7. g >= i - 1
  <2>1. SUFFICES ASSUME g < i - 1 PROVE FALSE
    BY <1>5
  <2>2. g < Len(got) /\ g + 1 \in 1 .. i - 1
    BY <1>5, <2>1
  <2> QED  BY <1>2, <1>4, <2>2 DEF Holds
<1>8. CASE le >= i
  <2>1. i \in 1 .. le
    BY <1>5, <1>8 DEF Seen
  <2> QED  BY <1>3, <1>4, <2>1
<1>9. CASE le < i
  <2>1. e = i - 1 /\ g = i - 1 /\ e < Len(exp) /\ g < Len(got) /\ e + 1 = i /\ g + 1 = i
    BY <1>3, <1>4, <1>5, <1>6, <1>7, <1>9 DEF Seen
  <2>2. exp[i] = 0 /\ got[i] = 0
    BY <1>1, <1>2, <2>1 DEF Holds
  <2> QED  BY <1>4, <2>2
<1> QED  BY <1>5, <1>8, <1>9 DEF Seen

(* Unequal ones have one: the least place where the limited strings do not *)
(* both have the same character.                                           *)
LEMMA UnequalHaveDifference ==
    ASSUME NEW exp \in Seq(Byte), NEW got \in Seq(Byte), NEW size \in Nat,
           Terminated(exp) \/ size <= Len(exp), Terminated(got) \/ size <= Len(got),
           ~StringEqual(exp, got, size)
    PROVE  StringsDiffer(exp, got, size)
<1>1. PICK e \in Nat : Holds(exp, e)
  BY StringInBuffer
<1>2. PICK g \in Nat : Holds(got, g)
  BY StringInBuffer
<1> DEFINE le == Seen(e, size)
           lg == Seen(g, size)
           Same(i) == i <= le /\ i <= lg /\ exp[i] = got[i]
           Apart == {i \in 1 .. size : ~Same(i)}
<1>3. Len(exp) \in Nat /\ Len(got) \in Nat /\ e \in 0 .. Len(exp) /\ g \in 0 .. Len(got)
  BY <1>1, <1>2 DEF Holds
<1>4. ASSUME le = lg, \A i \in 1 .. le : exp[i] = got[i] PROVE FALSE
  <2> DEFINE E == Limited(CString(exp), size)
             G == Limited(CString(got), size)
  <2>1. E \in Seq(Byte) /\ Len(E) = le /\ \A i \in 1 .. le : E[i] = exp[i]
    BY <1>1, LimitedString
  <2>2. G \in Seq(Byte) /\ Len(G) = lg /\ \A i \in 1 .. lg : G[i] = got[i]
    BY <1>2, LimitedString
  <2>3. E # G
    BY DEF StringEqual
  <2> HIDE DEF E, G, le, lg
  <2>4. Len(E) = Len(G) /\ \A i \in 1 .. Len(E) : E[i] = G[i]
    BY <1>4, <2>1, <2>2
  <2> QED  BY <2>1, <2>2, <2>3, <2>4, SeqEqual
<1>5. Apart # {}
  <2>1. SUFFICES ASSUME \A i \in 1 .. size : Same(i) PROVE FALSE
    OBVIOUS
  <2>2. le = lg
    BY <1>3, <2>1 DEF Seen
  <2>3. \A i \in 1 .. le : i \in 1 .. size
    BY <1>3 DEF Seen
  <2> HIDE DEF le, lg
  <2> QED  BY <1>4, <2>1, <2>2, <2>3
<1>6. PICK i \in Apart : \A j \in Apart : i <= j
  <2>1. Apart \in SUBSET Nat
    OBVIOUS
  <2> HIDE DEF Apart
  <2> QED  BY <1>5, <2>1, LeastMember
<1>7. \A j \in 1 .. i - 1 : Same(j)
  <2>1. \A j \in 1 .. i - 1 : j \in 1 .. size /\ ~(i <= j)
    BY <1>3
  <2> HIDE DEF Same
  <2> QED  BY <1>6, <2>1
<1>8. i \in 1 .. size /\ ~Same(i) /\ i - 1 <= le /\ i - 1 <= lg
  <2>1. i \in 1 .. size /\ ~Same(i)
    OBVIOUS
  <2>2. i = 1 \/ i - 1 \in 1 .. i - 1
    BY <2>1
  <2> QED  BY <1>3, <1>7, <2>1, <2>2 DEF Seen
<1> HIDE DEF Apart
<1>9. \A j \in 1 .. i - 1 : /\ j \in DOMAIN exp \cap DOMAIN got
                            /\ exp[j] = got[j] /\ exp[j] # 0
  <2>1. \A j \in 1 .. i - 1 : j \in 1 .. e /\ j \in 1 .. g /\ j \in 1 .. Len(exp) /\ j \in 1 .. Len(got)
    BY <1>3, <1>7, <1>8 DEF Seen
  <2> QED  BY <1>1, <1>7, <2>1 DEF Holds
<1>10. CASE i <= le
  <2>1. i \in 1 .. e /\ i \in DOMAIN exp /\ exp[i] # 0
    BY <1>1, <1>3, <1>8, <1>10 DEF Holds, Seen
  <2>2. CASE i <= lg
    <3>1. i \in 1 .. g /\ i \in DOMAIN got /\ exp[i] # got[i]
      BY <1>3, <1>8, <1>10, <2>2 DEF Seen
    <3> QED  BY <1>8, <1>9, <2>1, <3>1 DEF StringsDiffer
  <2>3. CASE ~(i <= lg)
    <3>1. g = i - 1 /\ g < size
      BY <1>3, <1>8, <2>3 DEF Seen
    <3>2. g < Len(got)
      BY <1>2, <1>3, <3>1 DEF Holds
    <3>3. i \in DOMAIN got /\ got[i] = 0
      BY <1>2, <1>3, <1>8, <3>1, <3>2 DEF Holds
    <3> QED  BY <1>8, <1>9, <2>1, <3>3 DEF StringsDiffer
  <2> QED  BY <2>2, <2>3
<1>11. CASE ~(i <= le)
  <2>1. e = i - 1 /\ e < size /\ le = i - 1
    BY <1>3, <1>8, <1>11 DEF Seen
  <2>2. e < Len(exp)
    BY <1>1, <1>3, <2>1 DEF Holds
  <2>3. i \in DOMAIN exp /\ exp[i] = 0
    BY <1>1, <1>3, <1>8, <2>1, <2>2 DEF Holds
  <2>4. i <= lg
    <3>1. SUFFICES ASSUME ~(i <= lg) PROVE FALSE
      OBVIOUS
    <3>2. le = lg
      BY <1>3, <1>8, <2>1, <3>1 DEF Seen
    <3>3. \A j \in 1 .. le : exp[j] = got[j]
      BY <1>7, <2>1
    <3> QED  BY <1>4, <3>2, <3>3
  <2>5. i \in 1 .. g /\ i \in DOMAIN got /\ got[i] # 0
    BY <1>2, <1>3, <1>8, <2>4 DEF Holds, Seen
  <2> QED  BY <1>8, <1>9, <2>3, <2>5 DEF StringsDiffer
<1> QED  BY <1>10, <1>11

(***************************************************************************)
(* Verdicts.                                                               *)
(***************************************************************************)

(* What Equal says of a call is what Different denies. *)
LEMMA EqualMeans ==
    ASSUME CompareTypeOK, call.fn = "EQUAL_T" PROVE Equal(call) <=> ~Different(call)
<1>1. CASE call.type = "string"
  <2>1. /\ call.exp \in Seq(Byte) /\ call.got \in Seq(Byte) /\ call.size \in Nat
        /\ Terminated(call.exp) \/ call.size <= Len(call.exp)
        /\ Terminated(call.got) \/ call.size <= Len(call.got)
    BY <1>1, AssertCallsAssumption DEF CompareTypeOK
  <2>2. /\ Equal(call) <=> StringEqual(call.exp, call.got, call.size)
        /\ Different(call) <=> StringsDiffer(call.exp, call.got, call.size)
    BY <1>1 DEF Equal, Different
  <2> QED  BY <2>1, <2>2, EqualHaveNoDifference, UnequalHaveDifference
<1>2. CASE call.type = "memory"
  <2> DEFINE n == call.size
             E == SubSeq(call.exp, 1, n)
             G == SubSeq(call.got, 1, n)
  <2>1. /\ call.exp \in Seq(Byte) /\ call.got \in Seq(Byte) /\ n \in Nat
        /\ n <= Len(call.exp) /\ n <= Len(call.got)
    BY <1>2, EqualCall
  <2>2. \A i \in 1 .. n : call.exp[i] \in Byte /\ call.got[i] \in Byte
    <3>1. \A i \in 1 .. n : i \in 1 .. Len(call.exp) /\ i \in 1 .. Len(call.got)
      BY <2>1
    <3> QED  BY <2>1, <3>1, ElementOfSeq
  <2>3. E \in Seq(Byte) /\ Len(E) = n /\ \A i \in 1 .. n : E[i] = call.exp[i]
    BY <2>1, <2>2, SubSeqProperties
  <2>4. G \in Seq(Byte) /\ Len(G) = n /\ \A i \in 1 .. n : G[i] = call.got[i]
    BY <2>1, <2>2, SubSeqProperties
  <2>5. (Equal(call) <=> E = G) /\ (Different(call) <=> \E i \in 1 .. n : call.exp[i] # call.got[i])
    BY <1>2 DEF Equal, Different, MemoryEqual
  <2> HIDE DEF n, E, G
  <2>6. E = G <=> \A i \in 1 .. n : E[i] = G[i]
    BY <2>3, <2>4, SeqEqual
  <2> QED  BY <2>3, <2>4, <2>5, <2>6
<1>3. CASE call.type \notin {"string", "memory"}
  BY <1>3 DEF Equal, Different
<1> QED  BY <1>1, <1>2, <1>3

(* An ended or printing comparison has found what Equal says.              *)
NoEqual == call.type \in {"missing", "no_equal"}
VerdictInv ==
    call.fn = "EQUAL_T" =>
        /\ phase = "returned" => ~NoEqual /\ Equal(call)
        /\ phase = "failed" => NoEqual \/ ~Equal(call)
        /\ phase \in Values => ~NoEqual /\ ~Equal(call)
        /\ phase = "undefined" =>
              call.type = "string" /\ ~Equal(call)
              /\ ~(Terminated(call.exp) /\ Terminated(call.got))

LEMMA NextVerdict == DumpsInv /\ VerdictInv /\ [CompareNext]_compareVars => VerdictInv'
<1> SUFFICES ASSUME DumpsInv, VerdictInv, [CompareNext]_compareVars, call'.fn = "EQUAL_T"
             PROVE  VerdictInv'
  BY DEF VerdictInv
<1>1. call' = call
  BY DEF CompareNext, AssertEqualT, PrintValue, PrintString, PrintRow, EndDump, AssertInRange,
     Concluded, compareVars
<1>2. CASE UNCHANGED compareVars \/ PrintRow
  BY <1>1, <1>2 DEF VerdictInv, NoEqual, compareVars, PrintRow
<1>3. CASE AssertEqualT
  <2>1. Equal(call') = Equal(call)
    BY <1>1
  <2>2. phase' = IF NoEqual THEN "failed" ELSE IF Equal(call) THEN "returned"
                 ELSE IF call.type = "no_print" THEN "failed" ELSE "expected"
    BY <1>3 DEF AssertEqualT, NoEqual
  <2> QED  BY <1>1, <2>1, <2>2 DEF VerdictInv, NoEqual, Values
<1>4. CASE PrintValue \/ PrintString \/ EndDump
  <2>1. phase \in Values /\ phase' \in {"got", "failed", "undefined"}
    BY <1>4 DEF PrintValue, PrintString, EndDump, Printed
  <2>2. phase' = "undefined" =>
          call.type = "string" /\ ~(Terminated(call.exp) /\ Terminated(call.got))
    BY <1>4 DEF PrintValue, PrintString, EndDump, Printed
  <2> QED  BY <1>1, <2>1, <2>2 DEF VerdictInv, NoEqual, Values
<1> QED  BY <1>1, <1>2, <1>3, <1>4 DEF CompareNext, AssertInRange, Concluded

(* For all strings, memory and values, an assertion fails if and only if   *)
(* they differ, or cannot be compared; printing them has no defined end    *)
(* only where a string has none.                                           *)
THEOREM VerdictCorrect == CompareSpec => []VerdictExact
<1>1. CompareInit => VerdictInv
  BY DEF CompareInit, VerdictInv, Values
<1>2. DumpsInv /\ VerdictInv => VerdictExact
  BY EqualMeans DEF DumpsInv, VerdictInv, NoEqual, VerdictExact
<1> QED  BY <1>1, <1>2, NextVerdict, DumpsInvariant, PTL DEF CompareSpec
=============================================================================
