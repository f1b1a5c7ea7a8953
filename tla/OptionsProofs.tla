---------------------------- MODULE OptionsProofs ----------------------------
(***************************************************************************)
(* Proofs, for every command line, filter, name and size of name_buf, that *)
(* the settings keep their types, that they are those the command line     *)
(* asks for, and that they select the tests and suites they are meant to.  *)
(***************************************************************************)
EXTENDS OptionsProperties, NumberFacts, SequenceTheorems, TLAPS

(***************************************************************************)
(* Names.                                                                  *)
(***************************************************************************)

(* What strncat and strncmp look at is a prefix. *)
LEMMA CutIsPrefix ==
    ASSUME NEW s \in Seq(Char), NEW n \in Nat
    PROVE  /\ Cut(s, n) \in Seq(Char)
           /\ Len(s) <= n => Len(Cut(s, n)) = Len(s)
           /\ Len(s) > n => Len(Cut(s, n)) = n
           /\ \A k \in 1 .. Len(Cut(s, n)) : Cut(s, n)[k] = s[k]
<1>1. CASE Len(s) <= n
  BY <1>1 DEF Cut
<1>2. CASE Len(s) > n
  <2>1. Cut(s, n) = SubSeq(s, 1, n)
    BY <1>2 DEF Cut
  <2> QED  BY <1>2, <2>1
<1> QED  BY <1>1, <1>2

LEMMA Concatenated ==
    ASSUME NEW s \in Seq(Char), NEW t \in Seq(Char)
    PROVE  /\ s \o t \in Seq(Char) /\ Len(s \o t) = Len(s) + Len(t)
           /\ \A k \in 1 .. Len(s) : (s \o t)[k] = s[k]
           /\ \A k \in 1 .. Len(t) : (s \o t)[Len(s) + k] = t[k]
  OBVIOUS

(* A name and a suffix with the separator between them. *)
LEMMA Joined ==
    ASSUME NEW sep \in Char, NEW s \in Seq(Char), NEW t \in Seq(Char)
    PROVE  /\ s \o <<sep>> \o t \in Seq(Char)
           /\ Len(s \o <<sep>> \o t) = Len(s) + 1 + Len(t)
           /\ \A k \in 1 .. Len(s) : (s \o <<sep>> \o t)[k] = s[k]
           /\ (s \o <<sep>> \o t)[Len(s) + 1] = sep
           /\ \A k \in 1 .. Len(t) : (s \o <<sep>> \o t)[Len(s) + 1 + k] = t[k]
<1>1. PICK u \in Seq(Char) :
        /\ u = s \o <<sep>> /\ Len(u) = Len(s) + 1
        /\ \A k \in 1 .. Len(s) : u[k] = s[k]
        /\ u[Len(s) + 1] = sep
  <2> WITNESS s \o <<sep>> \in Seq(Char)
  <2> QED  OBVIOUS
<1>2. PICK v \in Seq(Char) :
        /\ v = u \o t /\ Len(v) = Len(u) + Len(t)
        /\ \A k \in 1 .. Len(u) : v[k] = u[k]
        /\ \A k \in 1 .. Len(t) : v[Len(u) + k] = t[k]
  <2> WITNESS u \o t \in Seq(Char)
  <2> QED  BY Concatenated
<1>3. \A k \in 1 .. Len(s) : v[k] = s[k]
  BY <1>1, <1>2
<1>4. v[Len(s) + 1] = sep
  BY <1>1, <1>2
<1>5. \A k \in 1 .. Len(t) : v[Len(s) + 1 + k] = t[k]
  BY <1>1, <1>2
<1>6. v = s \o <<sep>> \o t /\ Len(v) = Len(s) + 1 + Len(t)
  BY <1>1, <1>2
<1> QED  BY <1>3, <1>4, <1>5, <1>6

(* Sequences that agree in every place are the same. *)
LEMMA SameSequence ==
    ASSUME NEW s \in Seq(Char), NEW t \in Seq(Char), Len(s) = Len(t),
           \A k \in 1 .. Len(s) : s[k] = t[k]
    PROVE  s = t
  OBVIOUS

(* The buffer when the separator fits behind the name. *)
LEMMA SuffixCut ==
    ASSUME NEW sep \in Char, NEW s \in Seq(Char), NEW t \in Seq(Char), NEW n \in Nat,
           Len(s) + 1 <= n
    PROVE  s \o <<sep>> \o Cut(t, n - (Len(s) + 1)) = Cut(s \o <<sep>> \o t, n)
<1> DEFINE full == s \o <<sep>> \o t
           cut  == Cut(full, n)
           rest == Cut(t, n - (Len(s) + 1))
           buf  == s \o <<sep>> \o rest
<1>1. /\ full \in Seq(Char) /\ Len(full) = Len(s) + 1 + Len(t)
      /\ \A k \in 1 .. Len(s) : full[k] = s[k]
      /\ full[Len(s) + 1] = sep
      /\ \A k \in 1 .. Len(t) : full[Len(s) + 1 + k] = t[k]
  BY Joined
<1> HIDE DEF full
<1>2. /\ cut \in Seq(Char)
      /\ Len(full) <= n => Len(cut) = Len(full)
      /\ Len(full) > n => Len(cut) = n
      /\ \A k \in 1 .. Len(cut) : cut[k] = full[k]
  BY <1>1, CutIsPrefix
<1> HIDE DEF cut
<1>3. n - (Len(s) + 1) \in Nat
  OBVIOUS
<1>4. /\ rest \in Seq(Char)
      /\ Len(t) <= n - (Len(s) + 1) => Len(rest) = Len(t)
      /\ Len(t) > n - (Len(s) + 1) => Len(rest) = n - (Len(s) + 1)
      /\ \A k \in 1 .. Len(rest) : rest[k] = t[k]
  BY <1>3, CutIsPrefix
<1> HIDE DEF rest
<1>5. /\ buf \in Seq(Char) /\ Len(buf) = Len(s) + 1 + Len(rest)
      /\ \A k \in 1 .. Len(s) : buf[k] = s[k]
      /\ buf[Len(s) + 1] = sep
      /\ \A k \in 1 .. Len(rest) : buf[Len(s) + 1 + k] = rest[k]
  BY <1>4, Joined
<1> HIDE DEF buf
<1>6. Len(buf) = Len(cut) /\ Len(rest) <= Len(t)
  BY <1>1, <1>2, <1>4, <1>5
<1>7. ASSUME NEW k \in 1 .. Len(buf) PROVE buf[k] = cut[k]
  <2>1. CASE k <= Len(s)
    BY <2>1, <1>1, <1>2, <1>5, <1>6
  <2>2. CASE k = Len(s) + 1
    BY <2>2, <1>1, <1>2, <1>5, <1>6
  <2>3. CASE k > Len(s) + 1
    <3>1. PICK j \in Int : j = k - (Len(s) + 1)
      <4> WITNESS k - (Len(s) + 1) \in Int
      <4> QED  OBVIOUS
    <3>2. j \in 1 .. Len(rest) /\ j \in 1 .. Len(t) /\ k = Len(s) + 1 + j
      BY <2>3, <3>1, <1>4, <1>5, <1>6
    <3>3. buf[k] = t[j] /\ full[k] = t[j]
      BY <3>2, <1>1, <1>4, <1>5
    <3> QED  BY <3>3, <1>2, <1>6
  <2> QED  BY <2>1, <2>2, <2>3
<1>8. buf = cut
  BY <1>2, <1>5, <1>6, <1>7, SameSequence
<1> QED  BY <1>8 DEF buf, cut, rest, full

(* The buffer when it does not. *)
LEMMA NameCut ==
    ASSUME NEW sep \in Char, NEW s \in Seq(Char), NEW t \in Seq(Char), NEW n \in Nat,
           Len(s) >= n
    PROVE  Cut(s, n) = Cut(s \o <<sep>> \o t, n)
<1> DEFINE full == s \o <<sep>> \o t
           cut  == Cut(full, n)
           buf  == Cut(s, n)
<1>1. /\ full \in Seq(Char) /\ Len(full) = Len(s) + 1 + Len(t)
      /\ \A k \in 1 .. Len(s) : full[k] = s[k]
  BY Joined
<1> HIDE DEF full
<1>2. /\ cut \in Seq(Char) /\ Len(cut) = n
      /\ \A k \in 1 .. Len(cut) : cut[k] = full[k]
  BY <1>1, CutIsPrefix
<1>3. /\ buf \in Seq(Char) /\ Len(buf) = n
      /\ \A k \in 1 .. Len(buf) : buf[k] = s[k]
  BY CutIsPrefix
<1> HIDE DEF cut, buf
<1>4. \A k \in 1 .. Len(buf) : buf[k] = cut[k]
  BY <1>1, <1>2, <1>3
<1>5. buf = cut
  BY <1>2, <1>3, <1>4, SameSequence
<1> QED  BY <1>5 DEF buf, cut, full

(* itest_buffer_test_name leaves the longest prefix of the full name that  *)
(* fits into name_buf with its terminator.                                 *)
THEOREM NameBufferExact ==
    ASSUME NEW name \in String, NEW suffix \in String \union {NULL}
    PROVE  /\ BufferTestName(name, suffix) = CutName(name, suffix)
           /\ BufferTestName(name, suffix) \in String
           /\ Len(BufferTestName(name, suffix)) < NameBufSize
<1> DEFINE n == NameBufSize - 1
<1>1. n \in Nat /\ n < NameBufSize /\ Len(name) \in Nat
  BY NameBufSizeAssumption
<1> USE DEF String
<1>0. "_" \in Char /\ name \in Seq(Char)
  BY CharAssumption
<1> HIDE DEF n
<1>2. FullName(name, suffix) \in String
  <2>1. CASE suffix = NULL
    BY <2>1 DEF FullName
  <2>2. CASE suffix # NULL
    BY <1>0, <2>2, Joined DEF FullName
  <2> QED  BY <2>1, <2>2
<1>3. BufferTestName(name, suffix) = CutName(name, suffix)
  <2>1. CASE suffix = NULL
    BY <2>1 DEF BufferTestName, CutName, FullName
  <2>2. CASE suffix # NULL /\ Len(name) + 1 <= n
    <3>1. suffix \in Seq(Char)
      BY <2>2
    <3>2. /\ Len(name) + 1 < NameBufSize
          /\ NameBufSize - (Len(name) + 2) = n - (Len(name) + 1)
      BY <1>1, <2>2, NameBufSizeAssumption DEF n
    <3>3. name \o <<"_">> \o Cut(suffix, n - (Len(name) + 1)) = Cut(name \o <<"_">> \o suffix, n)
      BY <1>0, <1>1, <2>2, <3>1, SuffixCut
    <3> QED  BY <2>2, <3>2, <3>3, Zenon DEF BufferTestName, CutName, FullName, n
  <2>3. CASE suffix # NULL /\ ~(Len(name) + 1 <= n)
    <3>1. suffix \in Seq(Char)
      BY <2>3
    <3>2. ~(Len(name) + 1 < NameBufSize) /\ Len(name) >= n
      BY <1>1, <2>3, NameBufSizeAssumption DEF n
    <3>3. Cut(name, n) = Cut(name \o <<"_">> \o suffix, n)
      BY <1>0, <1>1, <3>1, <3>2, NameCut
    <3> QED  BY <2>3, <3>2, <3>3, Zenon DEF BufferTestName, CutName, FullName, n
  <2> QED  BY <2>1, <2>2, <2>3
<1>4. CutName(name, suffix) \in String /\ Len(CutName(name, suffix)) < NameBufSize
  <2>1. CutName(name, suffix) = Cut(FullName(name, suffix), n)
    BY DEF CutName, n
  <2> QED  BY <1>1, <1>2, <2>1, CutIsPrefix, NameBufSizeAssumption
<1> QED  BY <1>3, <1>4

(***************************************************************************)
(* Filters.                                                                *)
(***************************************************************************)

(* The filter stands at this offset of the name, character by character.   *)
Occurs(filter, name, offset) ==
    /\ offset + Len(filter) - 1 <= Len(name)
    /\ \A k \in 1 .. Len(filter) : name[offset + k - 1] = filter[k]

(* strncmp at an offset. *)
LEMMA StandsWhereItOccurs ==
    ASSUME NEW s \in Seq(Char), NEW t \in Seq(Char), NEW offset \in 1 .. Len(t)
    PROVE  StandsAt(t, s, offset) <=> Occurs(s, t, offset)
<1> DEFINE rest == SubSeq(t, offset, Len(t))
           cut  == Cut(rest, Len(s))
<1>1. /\ rest \in Seq(Char) /\ Len(rest) = Len(t) - offset + 1
      /\ \A k \in 1 .. Len(rest) : rest[k] = t[offset + k - 1]
  OBVIOUS
<1>2. StandsAt(t, s, offset) <=> cut = s
  BY DEF StandsAt
<1> HIDE DEF rest
<1>0. Len(s) \in Nat
  OBVIOUS
<1>3. /\ cut \in Seq(Char)
      /\ Len(rest) <= Len(s) => Len(cut) = Len(rest)
      /\ Len(rest) > Len(s) => Len(cut) = Len(s)
      /\ \A k \in 1 .. Len(cut) : cut[k] = rest[k]
  BY <1>0, <1>1, CutIsPrefix
<1> HIDE DEF cut
<1>4. ASSUME cut = s PROVE Occurs(s, t, offset)
  <2>1. Len(cut) = Len(s) /\ Len(s) <= Len(rest)
    BY <1>1, <1>3, <1>4
  <2>2. offset + Len(s) - 1 <= Len(t)
    BY <1>1, <2>1
  <2>3. ASSUME NEW k \in 1 .. Len(s) PROVE t[offset + k - 1] = s[k]
    BY <1>1, <1>3, <1>4, <2>1
  <2> QED  BY <2>2, <2>3 DEF Occurs
<1>5. ASSUME Occurs(s, t, offset) PROVE cut = s
  <2>1. offset + Len(s) - 1 <= Len(t) /\ \A k \in 1 .. Len(s) : t[offset + k - 1] = s[k]
    BY <1>5 DEF Occurs
  <2>2. Len(cut) = Len(s) /\ Len(s) <= Len(rest)
    BY <1>1, <1>3, <2>1
  <2>3. ASSUME NEW k \in 1 .. Len(cut) PROVE cut[k] = s[k]
    BY <1>1, <1>3, <2>1, <2>2
  <2> QED  BY <1>3, <2>2, <2>3, SameSequence
<1> QED  BY <1>2, <1>4, <1>5

(* A substring occurs at some offset. *)
LEMMA SubstringOccurs ==
    ASSUME NEW s \in Seq(Char), NEW t \in Seq(Char), Len(s) > 0
    PROVE  Substring(s, t) <=> \E offset \in 1 .. Len(t) : Occurs(s, t, offset)
<1>1. ASSUME NEW from \in 1 .. Len(t) + 1, NEW to \in 0 .. Len(t), SubSeq(t, from, to) = s
      PROVE  \E offset \in 1 .. Len(t) : Occurs(s, t, offset)
  <2>1. from <= to
    BY <1>1
  <2>2. /\ Len(s) = to - from + 1
        /\ \A k \in 1 .. Len(s) : s[k] = t[from + k - 1]
    BY <1>1, <2>1
  <2>3. from \in 1 .. Len(t) /\ from + Len(s) - 1 <= Len(t)
    BY <2>1, <2>2
  <2> QED  BY <2>2, <2>3 DEF Occurs
<1>2. ASSUME NEW offset \in 1 .. Len(t), Occurs(s, t, offset)
      PROVE  Substring(s, t)
  <2> DEFINE to   == offset + Len(s) - 1
             part == SubSeq(t, offset, to)
  <2>1. to \in 0 .. Len(t) /\ to >= offset
    BY <1>2 DEF Occurs
  <2>2. /\ part \in Seq(Char) /\ Len(part) = Len(s)
        /\ \A k \in 1 .. Len(part) : part[k] = t[offset + k - 1]
    BY <2>1
  <2>3. \A k \in 1 .. Len(part) : part[k] = s[k]
    BY <1>2, <2>2 DEF Occurs
  <2> HIDE DEF to
  <2>4. part = s
    <3> HIDE DEF part
    <3> QED  BY <2>2, <2>3, SameSequence
  <2>5. offset \in 1 .. Len(t) + 1
    OBVIOUS
  <2> QED  BY <2>1, <2>4, <2>5 DEF Substring
<1> QED  BY <1>1, <1>2 DEF Substring

(* A name of the filter's length contains it only as a whole.              *)
LEMMA WholeOccurs ==
    ASSUME NEW s \in Seq(Char), NEW t \in Seq(Char), Len(s) > 0, Len(s) = Len(t)
    PROVE  s = t <=> \E offset \in 1 .. Len(t) : Occurs(s, t, offset)
<1>1. ASSUME s = t PROVE Occurs(s, t, 1) /\ 1 \in 1 .. Len(t)
  BY <1>1 DEF Occurs
<1>2. ASSUME NEW offset \in 1 .. Len(t), Occurs(s, t, offset) PROVE s = t
  <2>1. offset = 1
    BY <1>2 DEF Occurs
  <2>2. \A k \in 1 .. Len(s) : s[k] = t[k]
    BY <1>2, <2>1 DEF Occurs
  <2> QED  BY <2>2, SameSequence
<1> QED  BY <1>1, <1>2

(* What is the whole of a string is found in it. *)
LEMMA SameIsSubstring ==
    ASSUME NEW s, NEW t \in String, NEW exact, Same(exact, s, t)
    PROVE  Substring(s, t)
<1>1. CASE exact
  <2>1. s = t /\ t \in Seq(Char) /\ Len(t) \in Nat
    BY <1>1 DEF Same, String
  <2>2. SubSeq(t, 1, Len(t)) = t /\ 1 \in 1 .. Len(t) + 1 /\ Len(t) \in 0 .. Len(t)
    BY <2>1
  <2> QED  BY <2>1, <2>2 DEF Substring
<1>2. CASE ~exact
  BY <1>2 DEF Same
<1> QED  BY <1>1, <1>2

(* itest_name_match finds what its filter asks for. *)
LEMMA MatchExact ==
    ASSUME NEW filter \in String \union {NULL}, NEW name \in String,
           NEW exact \in BOOLEAN, NEW res_if_none \in BOOLEAN
    PROVE  NameMatch(name, filter, exact, res_if_none) <=>
               IF Blank(filter) THEN res_if_none ELSE Same(exact, filter, name)
<1>1. CASE Blank(filter)
  BY <1>1 DEF NameMatch
<1>2. CASE ~Blank(filter)
  <2>1. filter \in Seq(Char) /\ name \in Seq(Char) /\ Len(filter) > 0
    BY <1>2 DEF Blank, String
  <2>2. NameMatch(name, filter, exact, res_if_none) <=>
            /\ exact => Len(name) = Len(filter)
            /\ \E offset \in 1 .. Len(name) : Occurs(filter, name, offset)
    BY <1>2, <2>1, StandsWhereItOccurs DEF NameMatch
  <2>3. CASE exact
    <3>1. CASE Len(name) = Len(filter)
      BY <1>2, <2>1, <2>2, <2>3, <3>1, WholeOccurs DEF Same
    <3>2. CASE Len(name) # Len(filter)
      BY <1>2, <2>1, <2>2, <2>3, <3>2 DEF Same
    <3> QED  BY <3>1, <3>2
  <2>4. CASE ~exact
    BY <1>2, <2>1, <2>2, <2>4, SubstringOccurs DEF Same
  <2> QED  BY <2>3, <2>4
<1> QED  BY <1>1, <1>2

(***************************************************************************)
(* The settings.                                                           *)
(***************************************************************************)

LEMMA InfoType ==
    ASSUME NEW g \in Info
    PROVE  /\ \A filter \in String \union {NULL} :
                 /\ SetSuiteFilter(g, filter) \in Info
                 /\ SetTestFilter(g, filter) \in Info
                 /\ SetTestExclude(g, filter) \in Info
           /\ SetExactNameMatch(g) \in Info
           /\ \A flag \in Settings : SetFlag(g, flag) \in Info /\ ClearFlag(g, flag) \in Info
           /\ \A level \in Nat : SetVerbosity(g, level) \in Info
<1>1. \A level \in Nat : level % ByteRange \in 0 .. ByteRange - 1
  BY ByteRangeAssumption
<1> QED  BY <1>1 DEF Info, SetSuiteFilter, SetTestFilter, SetTestExclude, SetExactNameMatch,
                     SetFlag, ClearFlag, SetVerbosity

LEMMA NextType == OptionsTypeOK /\ [Next]_vars => OptionsTypeOK'
<1> SUFFICES ASSUME OptionsTypeOK, [Next]_vars PROVE OptionsTypeOK'
  OBVIOUS
<1>1. ASSUME NEW g \in Info, CallSetter(g) PROVE OptionsTypeOK'
  BY <1>1, MaxCallsAssumption DEF OptionsTypeOK, CallSetter
<1>2. CASE ClientSetsFilter \/ ClientSetsFlag \/ ClientSetsVerbosity
  <2>1. info \in Info
    BY DEF OptionsTypeOK
  <2> QED  BY <1>1, <1>2, <2>1, InfoType, FiltersAssumption, LevelsAssumption
           DEF ClientSetsFilter, ClientSetsFlag, ClientSetsVerbosity
<1>3. CASE ParseOptions
  BY <1>3, ArgumentsAssumption DEF ParseOptions, OptionsTypeOK
<1>4. CASE MissingArgument \/ HelpOption \/ OtherOption \/ EndOfArguments
  <2>1. UNCHANGED <<info, argv, i, before, calls>> /\ status' \in Exits \union {"started"}
    BY <1>4 DEF MissingArgument, HelpOption, OtherOption, EndOfArguments, Exit, Exits
  <2> QED  BY <2>1 DEF OptionsTypeOK
<1>5. argv \in Seq(String)
  <2>1. argv \in Arguments \union {<<>>} /\ <<>> \in Seq(String)
    BY DEF OptionsTypeOK
  <2> QED  BY <2>1, ArgumentsAssumption, Zenon
<1>6. CASE FilterOption
  <2>1. i' \in 1 .. Len(argv) + 1 /\ argv[i + 1] \in String
    BY <1>5, <1>6 DEF FilterOption, AtOption, OptionsTypeOK
  <2>2. info' \in Info
    BY <1>6, <2>1, InfoType DEF FilterOption, OptionsTypeOK
  <2> QED  BY <1>6, <2>1, <2>2 DEF FilterOption, OptionsTypeOK
<1>7. CASE SwitchOption
  <2>1. i' \in 1 .. Len(argv) + 1
    BY <1>5, <1>7 DEF SwitchOption, AtOption, OptionsTypeOK
  <2>2. info.verbosity + 1 \in Nat
    BY ByteRangeAssumption DEF OptionsTypeOK, Info
  <2>3. info' \in Info
    BY <1>7, <2>2, InfoType DEF SwitchOption, OptionsTypeOK, Settings
  <2> QED  BY <1>7, <2>1, <2>3 DEF SwitchOption, OptionsTypeOK
<1>8. CASE Operand
  <2>1. i' \in 1 .. Len(argv) + 1
    BY <1>5, <1>8 DEF Operand, OptionsTypeOK
  <2> QED  BY <1>8, <2>1 DEF Operand, OptionsTypeOK
<1>9. CASE Settled \/ UNCHANGED vars
  BY <1>9 DEF Settled, vars, OptionsTypeOK
<1> QED  BY <1>2, <1>3, <1>4, <1>6, <1>7, <1>8, <1>9 DEF Next

(* The settings keep to their types: no word is read past the end of the   *)
(* command line, and verbosity stays a byte.                               *)
THEOREM OptionsTypeCorrect == Spec => []OptionsTypeOK
<1>1. Init => OptionsTypeOK
  BY ByteRangeAssumption, MaxCallsAssumption DEF Init, InitialInfo, OptionsTypeOK, Info, Settings
<1> QED  BY <1>1, NextType, PTL DEF Spec

(* The tests and suites selected are those that the filters ask for, but   *)
(* for those that -x leaves in when -e is given with it.                   *)
THEOREM SelectionCorrect == Spec => []SelectionAsAsked
<1>1. ASSUME OptionsTypeOK PROVE SelectionAsAsked
  <2>1. /\ info.test_filter \in String \union {NULL}
        /\ info.test_exclude \in String \union {NULL}
        /\ info.suite_filter \in String \union {NULL}
        /\ info.exact_name_match \in BOOLEAN
    BY <1>1 DEF OptionsTypeOK, Info
  <2>2. ASSUME NEW name \in TestNames, NEW suffix \in TestSuffixes \union {NULL}
        PROVE  /\ AskedFor(name, suffix) /\ ~Excluded(name, suffix) => Selects(name, suffix)
               /\ Selects(name, suffix) =>
                    AskedFor(name, suffix) /\ (info.exact_name_match \/ ~Excluded(name, suffix))
    <3> DEFINE cut == CutName(name, suffix)
    <3>1. name \in String /\ suffix \in String \union {NULL}
      BY TestNamesAssumption, TestSuffixesAssumption
    <3>2. BufferTestName(name, suffix) = cut /\ cut \in String
      BY <3>1, NameBufferExact
    <3>3. Selects(name, suffix) <=>
            /\ Blank(info.test_filter) \/ Same(info.exact_name_match, info.test_filter, cut)
            /\ Blank(info.test_exclude) \/ ~Same(info.exact_name_match, info.test_exclude, cut)
      BY <2>1, <3>2, MatchExact DEF Selects, TestMatches
    <3>4. Same(info.exact_name_match, info.test_exclude, cut) => Substring(info.test_exclude, cut)
      BY <2>1, <3>2, SameIsSubstring
    <3> HIDE DEF cut
    <3>5. AskedFor(name, suffix) <=>
            Blank(info.test_filter) \/ Same(info.exact_name_match, info.test_filter, cut)
      BY DEF AskedFor, cut
    <3>6. Excluded(name, suffix) <=>
            ~Blank(info.test_exclude) /\ Substring(info.test_exclude, cut)
      BY DEF Excluded, cut
    <3>7. ~info.exact_name_match =>
            (Same(info.exact_name_match, info.test_exclude, cut) <=>
             Substring(info.test_exclude, cut))
      BY DEF Same
    <3> QED  BY <3>3, <3>4, <3>5, <3>6, <3>7
  <2>3. ASSUME NEW name \in TestNames
        PROVE  SuiteMatches(info, name) <=>
                 \/ Blank(info.suite_filter)
                 \/ Same(info.exact_name_match, info.suite_filter, name)
    BY <2>1, TestNamesAssumption, MatchExact DEF SuiteMatches
  <2> QED  BY <2>2, <2>3 DEF SelectionAsAsked
<1> QED  BY <1>1, OptionsTypeCorrect, PTL

(* When nothing is filtered, nothing is left out. *)
THEOREM UnfilteredCorrect == Spec => []UnfilteredRunsAll
<1>1. UnfilteredRunsAll
  BY DEF UnfilteredRunsAll, IsFiltered, Selects, TestMatches, SuiteMatches, NameMatch, Blank
<1> QED  BY <1>1, PTL

(***************************************************************************)
(* The command line.                                                       *)
(***************************************************************************)

(* The rows of options with an argument: whether a word is an option       *)
(* depends on the length of the row before it.                             *)
LEMMA Rows ==
    ASSUME NEW k \in Nat \ {0}
    PROVE  /\ IsFiniteSet(RowBefore(k)) /\ Cardinality(RowBefore(k)) \in Nat
           /\ RowBefore(1) = {} /\ Cardinality(RowBefore(1)) = 0
           /\ TakesArgument(k) =>
                Cardinality(RowBefore(k + 1)) = Cardinality(RowBefore(k)) + 1
           /\ ~TakesArgument(k) => Cardinality(RowBefore(k + 1)) = 0
<1>1. IsFiniteSet(RowBefore(k))
  <2>1. IsFiniteSet(1 .. k - 1)
    BY FS_Interval
  <2> QED  BY <2>1, FS_Subset DEF RowBefore
<1>2. RowBefore(1) = {}
  BY DEF RowBefore
<1>3. CASE TakesArgument(k)
  <2>1. k \notin RowBefore(k)
    BY DEF RowBefore
  <2>2. RowBefore(k + 1) = RowBefore(k) \union {k}
    <3>1. ASSUME NEW j \in 1 .. k, \A m \in j .. k - 1 : TakesArgument(m), NEW m \in j .. k
          PROVE  TakesArgument(m)
      BY <1>3, <3>1
    <3> HIDE DEF TakesArgument
    <3>2. k \in RowBefore(k + 1)
      BY <1>3 DEF RowBefore
    <3> QED  BY <3>1, <3>2 DEF RowBefore
  <2>3. Cardinality(RowBefore(k + 1)) = Cardinality(RowBefore(k)) + 1
    BY <1>1, <2>1, <2>2, FS_AddElement
  <2> QED  BY <1>1, <1>2, <1>3, <2>3, FS_CardinalityType, FS_EmptySet
<1>4. CASE ~TakesArgument(k)
  <2>1. RowBefore(k + 1) = {}
    <3>1. ASSUME NEW j \in 1 .. k PROVE k \in j .. k
      OBVIOUS
    <3> HIDE DEF TakesArgument
    <3> QED  BY <1>4, <3>1 DEF RowBefore
  <2> QED  BY <1>1, <1>2, <1>4, <2>1, FS_CardinalityType, FS_EmptySet
<1> QED  BY <1>1, <1>2, <1>3, <1>4, FS_CardinalityType, FS_EmptySet

(* The options read before word k, and what they ask for. *)
ReadBefore(letter, k) == {j \in 1 .. k - 1 : IsOption(j) /\ Letter(argv[j]) = letter}
LastRead(letter, k, default) ==
    IF ReadBefore(letter, k) = {} THEN default ELSE argv[Max(ReadBefore(letter, k)) + 1]
GivenRead(letter, k, flag) == IF ReadBefore(letter, k) = {} THEN {} ELSE {flag}
ExactRead(k) == before.exact_name_match \/ ReadBefore("e", k) # {}
FlagsRead(k) == (before.flags \ GivenRead("T", k, "RECORD_TIMING"))
                \union GivenRead("f", k, "FIRST_FAIL") \union GivenRead("a", k, "ABORT_ON_FAIL")
                \union GivenRead("l", k, "LIST_ONLY")
LevelRead(k) == (before.verbosity + Cardinality(ReadBefore("v", k))) % ByteRange
AskedSoFar(k) ==
    [suite_filter     |-> LastRead("s", k, before.suite_filter),
     test_filter      |-> LastRead("t", k, before.test_filter),
     test_exclude     |-> LastRead("x", k, before.test_exclude),
     exact_name_match |-> ExactRead(k),
     flags            |-> FlagsRead(k),
     verbosity        |-> LevelRead(k)]

(* While the command line is parsed, the next word is no argument, none of *)
(* the words before it ended the parsing, and the settings are those the   *)
(* words before it ask for.                                                *)
ParseInv ==
    status = "parsing" =>
        /\ Cardinality(RowBefore(i)) % 2 = 0
        /\ \A j \in 1 .. i - 1 : ~Ends(j)
        /\ info = AskedSoFar(i)

(* One more word read. *)
LEMMA MaxIsLast ==
    ASSUME NEW S, NEW k \in Nat, \A j \in S : j \in Nat /\ j < k
    PROVE  Max(S \union {k}) = k
  BY DEF Max

LEMMA ReadOne ==
    ASSUME NEW letter, NEW k \in Nat \ {0}
    PROVE  /\ IsOption(k) /\ Letter(argv[k]) = letter =>
                /\ ReadBefore(letter, k + 1) # {} /\ Max(ReadBefore(letter, k + 1)) = k
                /\ Cardinality(ReadBefore(letter, k + 1)) = Cardinality(ReadBefore(letter, k)) + 1
           /\ ~(IsOption(k) /\ Letter(argv[k]) = letter) =>
                ReadBefore(letter, k + 1) = ReadBefore(letter, k)
           /\ Cardinality(ReadBefore(letter, k)) \in Nat
<1> DEFINE Is(j) == IsOption(j) /\ Letter(argv[j]) = letter
           R == ReadBefore(letter, k)
           S == ReadBefore(letter, k + 1)
<1>1. R = {j \in 1 .. k - 1 : Is(j)} /\ S = {j \in 1 .. k : Is(j)}
  BY DEF ReadBefore
<1>2. IsFiniteSet(R)
  <2>1. IsFiniteSet(1 .. k - 1)
    BY FS_Interval
  <2> QED  BY <1>1, <2>1, FS_Subset
<1> HIDE DEF Is, R, S
<1>3. ASSUME Is(k) PROVE S # {} /\ Max(S) = k /\ Cardinality(S) = Cardinality(R) + 1
  <2>1. S = R \union {k} /\ k \notin R /\ \A j \in R : j \in Nat /\ j < k
    BY <1>1, <1>3
  <2>2. Max(S) = k
    BY <2>1, MaxIsLast
  <2> QED  BY <1>2, <2>1, <2>2, FS_AddElement
<1>4. ASSUME ~Is(k) PROVE S = R
  BY <1>1, <1>4
<1>5. Cardinality(R) \in Nat
  BY <1>2, FS_CardinalityType
<1> QED  BY <1>3, <1>4, <1>5 DEF Is, R, S

(* What the words before k ask for, given those before i: word i changes   *)
(* what it says and nothing else.                                          *)
LEMMA AskedBySwitch ==
    ASSUME NEW k \in Nat \ {0}, IsOption(k), Letter(argv[k]) \in Switches, before \in Info
    PROVE  AskedSoFar(k + 1) =
             LET g == AskedSoFar(k) letter == Letter(argv[k]) IN
             CASE letter = "e" -> SetExactNameMatch(g)
               [] letter = "f" -> SetFlag(g, "FIRST_FAIL")
               [] letter = "a" -> SetFlag(g, "ABORT_ON_FAIL")
               [] letter = "l" -> SetFlag(g, "LIST_ONLY")
               [] letter = "v" -> SetVerbosity(g, g.verbosity + 1)
               [] letter = "T" -> ClearFlag(g, "RECORD_TIMING")
<1> DEFINE word == Letter(argv[k])
           g == AskedSoFar(k)
<1>1. \A letter : letter # word => ReadBefore(letter, k + 1) = ReadBefore(letter, k)
  BY ReadOne
<1>2. /\ ReadBefore(word, k + 1) # {}
      /\ Cardinality(ReadBefore(word, k + 1)) = Cardinality(ReadBefore(word, k)) + 1
  BY ReadOne
<1>3. /\ \A letter, d : letter # word => LastRead(letter, k + 1, d) = LastRead(letter, k, d)
      /\ \A letter, f : letter # word => GivenRead(letter, k + 1, f) = GivenRead(letter, k, f)
      /\ \A f : GivenRead(word, k + 1, f) = {f}
      /\ \A f : GivenRead(word, k, f) \in {{}, {f}}
  BY <1>1, <1>2 DEF LastRead, GivenRead
<1>4. word \notin WithArgument
  BY DEF Switches, WithArgument
<1> HIDE DEF word
<1>5. word \notin {"s", "t", "x"}
  BY <1>4 DEF WithArgument
<1>6. /\ LastRead("s", k + 1, before.suite_filter) = LastRead("s", k, before.suite_filter)
      /\ LastRead("t", k + 1, before.test_filter) = LastRead("t", k, before.test_filter)
      /\ LastRead("x", k + 1, before.test_exclude) = LastRead("x", k, before.test_exclude)
  BY <1>3, <1>5
<1>7. word # "e" => ExactRead(k + 1) = ExactRead(k)
  BY <1>1 DEF ExactRead
<1>8. word \notin {"f", "a", "l", "T"} => FlagsRead(k + 1) = FlagsRead(k)
  BY <1>3 DEF FlagsRead
<1>9. word # "v" => LevelRead(k + 1) = LevelRead(k)
  BY <1>1 DEF LevelRead
<1> DEFINE b == before.flags \ GivenRead("T", k, "RECORD_TIMING")
           f == GivenRead("f", k, "FIRST_FAIL")
           a == GivenRead("a", k, "ABORT_ON_FAIL")
           l == GivenRead("l", k, "LIST_ONLY")
<1>10. FlagsRead(k) = b \union f \union a \union l
  BY DEF FlagsRead
<1>11. CASE word = "e"
  <2>1. ExactRead(k + 1) = TRUE
    BY <1>2, <1>11 DEF ExactRead
  <2> QED  BY <1>6, <1>8, <1>9, <1>11, <2>1 DEF AskedSoFar, SetExactNameMatch, word
<1>12. CASE word = "f"
  <2>1. FlagsRead(k + 1) = b \union {"FIRST_FAIL"} \union a \union l
    BY <1>3, <1>12 DEF FlagsRead
  <2>2. f \in {{}, {"FIRST_FAIL"}}
    BY <1>3, <1>12
  <2> HIDE DEF b, f, a, l
  <2>3. FlagsRead(k + 1) = FlagsRead(k) \union {"FIRST_FAIL"}
    BY <1>10, <2>1, <2>2
  <2> QED  BY <1>6, <1>7, <1>9, <1>12, <2>3 DEF AskedSoFar, SetFlag, word
<1>13. CASE word = "a"
  <2>1. FlagsRead(k + 1) = b \union f \union {"ABORT_ON_FAIL"} \union l
    BY <1>3, <1>13 DEF FlagsRead
  <2>2. a \in {{}, {"ABORT_ON_FAIL"}}
    BY <1>3, <1>13
  <2> HIDE DEF b, f, a, l
  <2>3. FlagsRead(k + 1) = FlagsRead(k) \union {"ABORT_ON_FAIL"}
    BY <1>10, <2>1, <2>2
  <2> QED  BY <1>6, <1>7, <1>9, <1>13, <2>3 DEF AskedSoFar, SetFlag, word
<1>14. CASE word = "l"
  <2>1. FlagsRead(k + 1) = b \union f \union a \union {"LIST_ONLY"}
    BY <1>3, <1>14 DEF FlagsRead
  <2>2. l \in {{}, {"LIST_ONLY"}}
    BY <1>3, <1>14
  <2> HIDE DEF b, f, a, l
  <2>3. FlagsRead(k + 1) = FlagsRead(k) \union {"LIST_ONLY"}
    BY <1>10, <2>1, <2>2
  <2> QED  BY <1>6, <1>7, <1>9, <1>14, <2>3 DEF AskedSoFar, SetFlag, word
<1>15. CASE word = "T"
  <2>1. FlagsRead(k + 1) = (before.flags \ {"RECORD_TIMING"}) \union f \union a \union l
    BY <1>3, <1>15 DEF FlagsRead
  <2>2. b \in {before.flags, before.flags \ {"RECORD_TIMING"}}
    BY <1>3, <1>15
  <2>3. /\ f \in {{}, {"FIRST_FAIL"}} /\ a \in {{}, {"ABORT_ON_FAIL"}}
        /\ l \in {{}, {"LIST_ONLY"}}
    BY DEF GivenRead
  <2> HIDE DEF b, f, a, l
  <2>4. FlagsRead(k + 1) = FlagsRead(k) \ {"RECORD_TIMING"}
    BY <1>10, <2>1, <2>2, <2>3
  <2> QED  BY <1>6, <1>7, <1>9, <1>15, <2>4 DEF AskedSoFar, ClearFlag, word
<1>16. CASE word = "v"
  <2> DEFINE n == Cardinality(ReadBefore("v", k))
             v == before.verbosity
  <2>1. v \in Nat /\ n \in Nat
    BY ReadOne, ByteRangeAssumption DEF Info
  <2>2. Cardinality(ReadBefore("v", k + 1)) = n + 1
    BY <1>2, <1>16
  <2>3. (v + (n + 1)) % ByteRange = (((v + n) % ByteRange) + 1) % ByteRange
    <3> HIDE DEF n, v
    <3>1. v + n \in Int
      BY <2>1
    <3>2. ((v + n) + 1) % ByteRange = (((v + n) % ByteRange) + 1) % ByteRange
      BY <3>1, ByteRangeAssumption, OneMore
    <3>3. v + (n + 1) = (v + n) + 1
      BY <2>1
    <3> QED  BY <3>2, <3>3
  <2>4. LevelRead(k + 1) = (LevelRead(k) + 1) % ByteRange
    BY <2>2, <2>3 DEF LevelRead
  <2> QED  BY <1>6, <1>7, <1>8, <1>16, <2>4 DEF AskedSoFar, SetVerbosity, word
<1> QED  BY <1>11, <1>12, <1>13, <1>14, <1>15, <1>16 DEF word, Switches

(* -s, -t or -x and its argument. *)
LEMMA AskedByFilter ==
    ASSUME NEW k \in Nat \ {0}, IsOption(k), Letter(argv[k]) \in WithArgument, ~IsOption(k + 1)
    PROVE  AskedSoFar(k + 2) =
             LET g == AskedSoFar(k) letter == Letter(argv[k]) IN
             CASE letter = "s" -> SetSuiteFilter(g, argv[k + 1])
               [] letter = "t" -> SetTestFilter(g, argv[k + 1])
               [] letter = "x" -> SetTestExclude(g, argv[k + 1])
<1> DEFINE word == Letter(argv[k])
<1>1. \A letter : ReadBefore(letter, k + 2) = ReadBefore(letter, k + 1)
  <2>1. k + 1 \in Nat \ {0} /\ (k + 1) + 1 = k + 2
    OBVIOUS
  <2> QED  BY <2>1, ReadOne
<1>2. \A letter : letter # word => ReadBefore(letter, k + 2) = ReadBefore(letter, k)
  BY <1>1, ReadOne
<1>3. ReadBefore(word, k + 2) # {} /\ Max(ReadBefore(word, k + 2)) = k
  BY <1>1, ReadOne
<1>4. /\ \A letter, d : letter # word => LastRead(letter, k + 2, d) = LastRead(letter, k, d)
      /\ \A letter, f : letter # word => GivenRead(letter, k + 2, f) = GivenRead(letter, k, f)
      /\ \A d : LastRead(word, k + 2, d) = argv[k + 1]
  BY <1>2, <1>3 DEF LastRead, GivenRead
<1>5. word \in {"s", "t", "x"}
  BY DEF WithArgument
<1> HIDE DEF word
<1>6. CASE word = "s"
  BY <1>2, <1>4, <1>6 DEF AskedSoFar, ExactRead, FlagsRead, LevelRead, SetSuiteFilter, word
<1>7. CASE word = "t"
  BY <1>2, <1>4, <1>7 DEF AskedSoFar, ExactRead, FlagsRead, LevelRead, SetTestFilter, word
<1>8. CASE word = "x"
  BY <1>2, <1>4, <1>8 DEF AskedSoFar, ExactRead, FlagsRead, LevelRead, SetTestExclude, word
<1> QED  BY <1>5, <1>6, <1>7, <1>8

(* A word that is no option asks for nothing. *)
LEMMA AskedByNone ==
    ASSUME NEW k \in Nat \ {0}, ~IsOption(k)
    PROVE  AskedSoFar(k + 1) = AskedSoFar(k)
<1>1. \A letter : ReadBefore(letter, k + 1) = ReadBefore(letter, k)
  BY ReadOne
<1> QED  BY <1>1 DEF AskedSoFar, ExactRead, FlagsRead, LevelRead, LastRead, GivenRead

(* What parsing does not change. *)
LEMMA SameLine ==
    ASSUME UNCHANGED <<argv, before>>
    PROVE  ParseInv' <=> (status' = "parsing" =>
                            /\ Cardinality(RowBefore(i')) % 2 = 0
                            /\ \A j \in 1 .. i' - 1 : ~Ends(j)
                            /\ info' = AskedSoFar(i'))
  BY DEF ParseInv, AskedSoFar, ExactRead, FlagsRead, LevelRead, LastRead, GivenRead, ReadBefore,
         Ends, IsOption, RowBefore,
         TakesArgument

LEMMA NextParse == OptionsTypeOK /\ ParseInv /\ [Next]_vars => ParseInv'
<1> SUFFICES ASSUME OptionsTypeOK, ParseInv, [Next]_vars PROVE ParseInv'
  OBVIOUS
<1>1. i \in Nat \ {0} /\ argv \in Seq(String)
  <2>1. argv \in Arguments \union {<<>>} /\ <<>> \in Seq(String)
    BY DEF OptionsTypeOK
  <2>2. argv \in Seq(String)
    BY <2>1, ArgumentsAssumption, Zenon
  <2> QED  BY <2>2 DEF OptionsTypeOK
<1>2. CASE ClientSetsFilter \/ ClientSetsFlag \/ ClientSetsVerbosity
  <2>1. status' # "parsing"
    BY <1>2 DEF ClientSetsFilter, ClientSetsFlag, ClientSetsVerbosity, CallSetter
  <2> QED  BY <2>1 DEF ParseInv
<1>3. CASE ParseOptions
  <2>1. i' = 1 /\ info' = before' /\ info' \in Info
    BY <1>3 DEF ParseOptions, OptionsTypeOK
  <2>2. Cardinality(RowBefore(1))' % 2 = 0
    <3>1. RowBefore(1)' = {}
      BY DEF RowBefore
    <3> QED  BY <3>1, FS_EmptySet
  <2>3. \A letter : ReadBefore(letter, 1)' = {}
    BY DEF ReadBefore
  <2>4. AskedSoFar(1)' = before'
    <3>1. before'.verbosity % ByteRange = before'.verbosity
      BY <2>1, ByteRangeAssumption DEF Info
    <3>2. /\ \A letter, d : LastRead(letter, 1, d)' = d
          /\ \A letter, f : GivenRead(letter, 1, f)' = {}
      BY <2>3 DEF LastRead, GivenRead
    <3>3. Cardinality(ReadBefore("v", 1))' = 0
      BY <2>3, FS_EmptySet
    <3>4. /\ ExactRead(1)' = before'.exact_name_match
          /\ FlagsRead(1)' = before'.flags
          /\ LevelRead(1)' = before'.verbosity
      BY <2>1, <2>3, <3>1, <3>2, <3>3, ByteRangeAssumption DEF ExactRead, FlagsRead, LevelRead, Info
    <3>5. AskedSoFar(1)' = [suite_filter     |-> before'.suite_filter,
                            test_filter      |-> before'.test_filter,
                            test_exclude     |-> before'.test_exclude,
                            exact_name_match |-> before'.exact_name_match,
                            flags            |-> before'.flags,
                            verbosity        |-> before'.verbosity]
      BY <3>2, <3>4 DEF AskedSoFar
    <3> QED  BY <2>1, <3>5 DEF Info
  <2> QED  BY <2>1, <2>2, <2>4 DEF ParseInv
<1>4. CASE MissingArgument \/ HelpOption \/ OtherOption \/ EndOfArguments
  <2>1. status' # "parsing"
    BY <1>4 DEF MissingArgument, HelpOption, OtherOption, EndOfArguments, Exit
  <2> QED  BY <2>1 DEF ParseInv
<1>5. CASE Settled \/ UNCHANGED vars
  <2>1. UNCHANGED <<argv, before, i, info, status>>
    BY <1>5 DEF Settled, vars
  <2> QED  BY <2>1, SameLine DEF ParseInv
<1>6. ASSUME status = "parsing", ~Dashed(argv[i]), Operand PROVE ParseInv'
  <2>1. ~TakesArgument(i) /\ ~IsOption(i) /\ ~Ends(i)
    BY <1>6 DEF TakesArgument, IsOption, Ends
  <2>2. i' = i + 1 /\ info' = info /\ UNCHANGED <<argv, before>>
    BY <1>6 DEF Operand
  <2>3. Cardinality(RowBefore(i + 1)) = 0
    BY <1>1, <2>1, Rows
  <2>4. AskedSoFar(i + 1) = info
    BY <1>1, <1>6, <2>1, AskedByNone DEF ParseInv
  <2>5. \A j \in 1 .. i : ~Ends(j)
    BY <1>1, <1>6, <2>1 DEF ParseInv
  <2> QED  BY <1>1, <2>2, <2>3, <2>4, <2>5, SameLine
<1>7. ASSUME AtOption PROVE status = "parsing" /\ IsOption(i)
  BY <1>7 DEF AtOption, IsOption, ParseInv
<1>8. CASE SwitchOption
  <2>1. /\ AtOption /\ Letter(argv[i]) \in Switches /\ i' = i + 1 /\ i <= Len(argv)
        /\ UNCHANGED <<argv, before>>
    BY <1>8 DEF SwitchOption, Switches, AtOption
  <2>2. ~TakesArgument(i) /\ ~Ends(i)
    BY <2>1 DEF TakesArgument, WithArgument, Switches, Ends, Known
  <2>3. Cardinality(RowBefore(i + 1)) = 0
    BY <1>1, <2>2, Rows
  <2>4. info = AskedSoFar(i) /\ before \in Info
    BY <1>7, <2>1 DEF ParseInv, OptionsTypeOK
  <2>5. info' = AskedSoFar(i + 1)
    BY <1>1, <1>7, <1>8, <2>1, <2>4, AskedBySwitch DEF SwitchOption, Switches
  <2>6. \A j \in 1 .. i : ~Ends(j)
    BY <1>1, <1>7, <2>1, <2>2 DEF ParseInv
  <2> QED  BY <1>1, <2>1, <2>3, <2>5, <2>6, SameLine
<1>9. CASE FilterOption
  <2>1. /\ AtOption /\ Letter(argv[i]) \in WithArgument /\ i' = i + 2 /\ i < Len(argv)
        /\ UNCHANGED <<argv, before>>
    BY <1>9 DEF FilterOption, WithArgument
  <2>2. TakesArgument(i) /\ ~Ends(i)
    BY <1>1, <2>1 DEF TakesArgument, AtOption, Ends, Known
  <2>3. /\ Cardinality(RowBefore(i)) \in Nat /\ Cardinality(RowBefore(i)) % 2 = 0
        /\ Cardinality(RowBefore(i + 1)) = Cardinality(RowBefore(i)) + 1
    BY <1>1, <1>7, <2>1, <2>2, Rows DEF ParseInv
  <2>4. Cardinality(RowBefore(i + 1)) % 2 = 1
    BY <2>3
  <2>5. ~IsOption(i + 1) /\ ~Ends(i + 1)
    BY <2>4 DEF IsOption, Ends
  <2>6. Cardinality(RowBefore(i + 2)) % 2 = 0
    <3>1. i + 1 \in Nat \ {0} /\ (i + 1) + 1 = i + 2
      BY <1>1
    <3>2. \/ Cardinality(RowBefore(i + 2)) = Cardinality(RowBefore(i + 1)) + 1
          \/ Cardinality(RowBefore(i + 2)) = 0
      BY <3>1, Rows
    <3> QED  BY <2>3, <3>2
  <2>7. info' = AskedSoFar(i + 2)
    BY <1>1, <1>7, <1>9, <2>1, <2>5, AskedByFilter DEF FilterOption, ParseInv, WithArgument
  <2>8. \A j \in 1 .. i + 1 : ~Ends(j)
    BY <1>1, <1>7, <2>1, <2>2, <2>5 DEF ParseInv
  <2> QED  BY <1>1, <2>1, <2>6, <2>7, <2>8, SameLine
<1>10. CASE Operand
  BY <1>6, <1>10 DEF Operand
<1> QED  BY <1>2, <1>3, <1>4, <1>5, <1>8, <1>9, <1>10 DEF Next

LEMMA MinIsFirst ==
    ASSUME NEW S, NEW k \in Nat, k \in S, \A j \in S : j \in Nat /\ k <= j
    PROVE  Min(S) = k
<1>1. \E m \in S : \A j \in S : m <= j
  OBVIOUS
<1>2. PICK m : m = Min(S)
  OBVIOUS
<1>3. m \in S /\ \A j \in S : m <= j
  BY <1>1, <1>2, Zenon DEF Min
<1>4. m \in Nat /\ k <= m /\ m <= k
  BY <1>3
<1> QED  BY <1>2, <1>4

(* Parsing ends at the first word that ends it, or behind the last word.   *)
LEMMA ParsingEnds ==
    ASSUME OptionsTypeOK, ParseInv, [Next]_vars, Parsed
    PROVE  /\ info = AskedSoFar(i)
           /\ Obeyed = {k \in 1 .. i - 1 : IsOption(k)}
           /\ \/ EndsAt = {} /\ status' = "started"
              \/ /\ EndsAt # {} /\ Min(EndsAt) = i
                 /\ MissingArgument \/ HelpOption \/ OtherOption
<1>1. /\ info = AskedSoFar(i) /\ Cardinality(RowBefore(i)) % 2 = 0
      /\ \A j \in 1 .. i - 1 : ~Ends(j)
  BY DEF Parsed, ParseInv
<1>2. i \in 1 .. Len(argv) + 1 /\ Len(argv) \in Nat /\ DOMAIN argv = 1 .. Len(argv)
  <2>1. argv \in Arguments \union {<<>>} /\ <<>> \in Seq(String)
    BY DEF OptionsTypeOK
  <2>2. argv \in Seq(String)
    BY <2>1, ArgumentsAssumption, Zenon
  <2> QED  BY <2>2 DEF OptionsTypeOK
<1>3. MissingArgument \/ HelpOption \/ OtherOption \/ EndOfArguments
  <2>1. status = "parsing" /\ status' # "parsing"
    BY DEF Parsed
  <2>2. ~(ClientSetsFilter \/ ClientSetsFlag \/ ClientSetsVerbosity)
    BY <2>1 DEF ClientSetsFilter, ClientSetsFlag, ClientSetsVerbosity, CallSetter
  <2>3. ~(ParseOptions \/ FilterOption \/ SwitchOption \/ Operand \/ Settled \/ UNCHANGED vars)
    BY <2>1 DEF ParseOptions, FilterOption, SwitchOption, Operand, Settled, vars, AtOption
  <2> QED  BY <2>2, <2>3 DEF Next
<1>4. CASE EndOfArguments
  <2>1. i = Len(argv) + 1 /\ status' = "started"
    BY <1>2, <1>4 DEF EndOfArguments, Exit
  <2>2. EndsAt = {}
    BY <1>1, <1>2, <2>1 DEF EndsAt
  <2>3. Obeyed = {k \in 1 .. i - 1 : IsOption(k)}
    BY <1>2, <2>1, <2>2 DEF Obeyed
  <2> QED  BY <1>1, <2>1, <2>2, <2>3
<1>5. CASE MissingArgument \/ HelpOption \/ OtherOption
  <2>1. i \in DOMAIN argv /\ IsOption(i)
    BY <1>1, <1>2, <1>5 DEF MissingArgument, HelpOption, OtherOption, AtOption, IsOption
  <2>2. Ends(i)
    <3>1. CASE MissingArgument
      BY <2>1, <3>1 DEF MissingArgument, AtOption, TakesArgument, Ends
    <3>2. CASE HelpOption \/ OtherOption
      <4>1. Letter(argv[i]) \notin Known
        BY <3>2 DEF HelpOption, OtherOption, Known, WithArgument, Switches
      <4> QED  BY <2>1, <4>1 DEF Ends
    <3> QED  BY <1>5, <3>1, <3>2
  <2>3. i \in EndsAt /\ \A j \in EndsAt : j \in Nat /\ i <= j
    <3> HIDE DEF Ends
    <3> QED  BY <1>1, <1>2, <2>1, <2>2 DEF EndsAt
  <2>4. Min(EndsAt) = i
    BY <1>2, <2>3, MinIsFirst
  <2>5. Obeyed = {k \in 1 .. i - 1 : IsOption(k)}
    <3> HIDE DEF IsOption
    <3>1. ASSUME NEW k \in Obeyed PROVE k \in 1 .. i - 1 /\ IsOption(k)
      BY <1>2, <2>3 DEF Obeyed
    <3>2. ASSUME NEW k \in 1 .. i - 1, IsOption(k) PROVE k \in Obeyed
      BY <1>2, <2>3, <3>2 DEF Obeyed
    <3> QED  BY <3>1, <3>2
  <2> QED  BY <1>1, <1>5, <2>3, <2>4, <2>5
<1> QED  BY <1>3, <1>4, <1>5

LEMMA WordRead == ASSUME OptionsTypeOK, i <= Len(argv) PROVE argv[i] \in String
<1>1. argv \in Arguments \union {<<>>} /\ <<>> \in Seq(String)
  BY DEF OptionsTypeOK
<1>2. argv \in Seq(String)
  BY <1>1, ArgumentsAssumption, Zenon
<1> QED  BY <1>2 DEF OptionsTypeOK

(* No option with an argument looks like --help or like --. *)
LEMMA FilterWord ==
    ASSUME NEW word \in String, Letter(word) \in WithArgument
    PROVE  ~IsHelp(word) /\ word # <<"-", "-">>
<1>1. word \in Seq(Char) /\ Len(word) > 1 /\ word[2] \in {"s", "t", "x"}
  BY DEF Letter, WithArgument, String
<1>2. Cut(word, 6)[2] = word[2]
  <2>1. 2 \in 1 .. Len(Cut(word, 6))
    BY <1>1, CutIsPrefix
  <2> QED  BY <1>1, <2>1, CutIsPrefix
<1>3. Help[2] = "-" /\ <<"-", "-">>[2] = "-"
  BY DEF Help
<1> QED  BY <1>1, <1>2, <1>3 DEF IsHelp, Letter

LEMMA ParsingInvariant == Spec => [](OptionsTypeOK /\ ParseInv)
<1>1. Init => ParseInv
  BY DEF Init, ParseInv
<1> QED  BY <1>1, NextParse, OptionsTypeCorrect, PTL DEF Spec

(* Whatever the command line, itest_parse_options leaves the settings that *)
(* it asks for as a whole: the last -s, -t and -x count, an argument is    *)
(* never taken for an option, and nothing behind the end of the options is *)
(* obeyed.                                                                 *)
THEOREM SettingsCorrect == Spec => SettingsAsAsked
<1>1. ASSUME OptionsTypeOK, ParseInv, [Next]_vars, Parsed PROVE info = Asked
  <2>1. info = AskedSoFar(i) /\ Obeyed = {k \in 1 .. i - 1 : IsOption(k)}
    BY <1>1, ParsingEnds
  <2>2. \A letter : With(letter) = ReadBefore(letter, i)
    BY <2>1 DEF With, ReadBefore
  <2>3. /\ \A letter, d : LastArgument(letter, d) = LastRead(letter, i, d)
        /\ \A letter, f : Given(letter, f) = GivenRead(letter, i, f)
    BY <2>2 DEF LastArgument, LastRead, Given, GivenRead
  <2>4. Asked = AskedSoFar(i)
    BY <2>2, <2>3 DEF Asked, AskedSoFar, ExactRead, FlagsRead, LevelRead
  <2> QED  BY <2>1, <2>4
<1>2. OptionsTypeOK /\ ParseInv /\ [Next]_vars => [Parsed => info = Asked]_vars
  BY <1>1
<1> QED  BY <1>2, ParsingInvariant, PTL DEF Spec, SettingsAsAsked

(* Whatever the command line, the first option that ends the parsing says  *)
(* how: help with success, -- by going on, others with failure; and when   *)
(* there is none main goes on.                                             *)
THEOREM ExitCorrect == Spec => ExitAsAsked
<1> DEFINE Verdict ==
        status' = IF EndsAt = {} THEN "started"
                  ELSE LET word == argv[Min(EndsAt)] IN
                       IF IsHelp(word) THEN "success"
                       ELSE IF word = <<"-", "-">> THEN "started" ELSE "failure"
<1>1. ASSUME OptionsTypeOK, ParseInv, [Next]_vars, Parsed PROVE Verdict
  <2>1. \/ EndsAt = {} /\ status' = "started"
        \/ /\ EndsAt # {} /\ Min(EndsAt) = i
           /\ MissingArgument \/ HelpOption \/ OtherOption
    BY <1>1, ParsingEnds
  <2>2. CASE EndsAt = {}
    BY <2>1, <2>2
  <2>3. CASE EndsAt # {} /\ (MissingArgument \/ HelpOption \/ OtherOption)
    <3>1. argv[Min(EndsAt)] = argv[i]
      BY <2>1, <2>3
    <3>2. argv[i] \in String
      BY <1>1, <2>3, WordRead DEF MissingArgument, HelpOption, OtherOption, AtOption
    <3>3. CASE MissingArgument
      <4>1. ~IsHelp(argv[i]) /\ argv[i] # <<"-", "-">>
        BY <3>2, <3>3, FilterWord DEF MissingArgument
      <4> QED  BY <2>3, <3>1, <3>3, <4>1 DEF MissingArgument, Exit
    <3>4. CASE HelpOption
      BY <2>3, <3>1, <3>4 DEF HelpOption, Exit, IsHelp
    <3>5. CASE OtherOption
      <4>1. Letter(argv[i]) # "h"
        BY <3>5 DEF OtherOption
      <4>2. argv[i] = <<"-", "-">> => Cut(argv[i], 6) # Help
        BY DEF Cut, Help
      <4> QED  BY <2>3, <3>1, <3>5, <4>1, <4>2 DEF OtherOption, Exit, IsHelp
    <3> QED  BY <2>3, <3>3, <3>4, <3>5
  <2> QED  BY <2>1, <2>2, <2>3
<1>2. OptionsTypeOK /\ ParseInv /\ [Next]_vars => [Parsed => Verdict]_vars
  BY <1>1
<1> QED  BY <1>2, ParsingInvariant, PTL DEF Spec, ExitAsAsked
=============================================================================
