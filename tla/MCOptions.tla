------------------------------ MODULE MCOptions ------------------------------
(* Small command lines, names and buffers for TLC. *)
EXTENDS OptionsProperties

MCChar == {"-", "_", "a", "b", "c", "e", "f", "h", "l", "p", "q", "s", "t", "v", "x", "T"}

(* Each option, --help and a longer word that begins with it, the end of   *)
(* the options, a lone dash, an unknown option, two letters in one word,   *)
(* an operand that is also a filter, and the empty word.                   *)
MCWords ==
    {<<"-", letter>> : letter \in WithArgument \union Switches \union {"h", "q", "-"}}
    \union {Help, Append(Help, "x"), <<"-">>, <<"-", "f", "v">>, <<"a">>, <<>>}

MCArguments == UNION {[1 .. n -> MCWords] : n \in 0 .. 3}

MCFilters == {<<"a">>, <<"a", "b">>}
MCLevels == {3, 5}

(* Names that fit into the buffer with a suffix, that leave room for a     *)
(* part of it, for the separator only or for nothing, and one too long.    *)
MCTestNames == {<<"a">>, <<"a", "b">>, <<"b", "c", "b">>, <<"b", "b", "b", "a">>,
                <<"b", "b", "b", "b", "a">>}
MCTestSuffixes == {<<"a">>, <<"b", "a">>}
=============================================================================
