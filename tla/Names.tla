-------------------------------- MODULE Names --------------------------------
(***************************************************************************)
(* The names of tests and the filters that select them:                    *)
(* itest_buffer_test_name, itest_name_match and the test in itest_test_pre *)
(* and itest_suite_pre.  A C string is the sequence of its characters, a   *)
(* null pointer is NULL.                                                   *)
(***************************************************************************)
EXTENDS Integers, Sequences

CONSTANTS
    NULL,           \* C's null pointer
    Char,           \* the characters of a string
    NameBufSize     \* ITEST_TESTNAME_BUF_SIZE, the size of name_buf

ASSUME CharAssumption        == "_" \in Char
ASSUME NullIsNoString        == NULL \notin Seq(Char)
ASSUME NameBufSizeAssumption == NameBufSize \in Nat \ {0}

String == Seq(Char)

(* What strncat(buf, s, n) appends, and strncmp(s, t, n) compares.         *)
Cut(s, n) == IF Len(s) <= n THEN s ELSE SubSeq(s, 1, n)

(* Mutated form: room for the suffix computed without the separator.       *)
BufferTestNameTooLong(name, suffix) ==
    IF suffix # NULL /\ Len(name) + 1 < NameBufSize
    THEN name \o <<"_">> \o Cut(suffix, NameBufSize - (Len(name) + 1))
    ELSE Cut(name, NameBufSize - 1)

(* itest_buffer_test_name: what it leaves in name_buf. *)
BufferTestName(name, suffix) ==
    IF suffix # NULL /\ Len(name) + 1 < NameBufSize
    THEN name \o <<"_">> \o Cut(suffix, NameBufSize - (Len(name) + 2))
    ELSE Cut(name, NameBufSize - 1)

Blank(filter) == filter = NULL \/ filter = <<>>

(* Whether filter stands at an offset of name: the strncmp of the search.  *)
StandsAt(name, filter, offset) == Cut(SubSeq(name, offset, Len(name)), Len(filter)) = filter

(* Mutated form: without a filter everything matches, to be excluded too.  *)
NameMatchIfNone(name, filter, exact_name_match, res_if_none) ==
    \/ Blank(filter)
    \/ /\ exact_name_match => Len(name) = Len(filter)
       /\ \E offset \in DOMAIN name : StandsAt(name, filter, offset)

(* itest_name_match. *)
NameMatch(name, filter, exact_name_match, res_if_none) ==
    IF Blank(filter) THEN res_if_none
    ELSE /\ exact_name_match => Len(name) = Len(filter)
         /\ \E offset \in DOMAIN name : StandsAt(name, filter, offset)

(* itest_test_pre's `match', of the name that has been buffered.           *)
TestMatches(info, name_buf) ==
    /\ NameMatch(name_buf, info.test_filter, info.exact_name_match, TRUE)
    /\ ~NameMatch(name_buf, info.test_exclude, info.exact_name_match, FALSE)

(* itest_suite_pre's. *)
SuiteMatches(info, name) ==
    NameMatch(name, info.suite_filter, info.exact_name_match, TRUE)
=============================================================================
