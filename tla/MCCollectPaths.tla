--------------------------- MODULE MCCollectPaths ---------------------------
(***************************************************************************)
(* A working directory with the files a, b, ab and a* (a name that is     *)
(* also a glob pattern), and up to three specifiers drawn from tokens     *)
(* that cover every branch of collect_paths: literal, negated, doubly     *)
(* negated, glob, negated glob, a glob and a literal with no match, an invalid glob. *)
(***************************************************************************)
EXTENDS CollectPaths

A  == <<"a">>
B  == <<"b">>
AB == <<"a", "b">>
AS == <<"a", "*">>

MCFiles == {A, B, AB, AS}

\* a directory with a file whose name starts with '!'
MCFilesBang == MCFiles \cup {<<"!", "a">>}

Tokens ==
  { A, <<"!", "a">>, <<"!", "!", "a">>, B, AS, <<"!", "a", "*">>,
    <<"*">>, <<"!", "*">>, <<"b", "*">>, <<"b", "a">>, <<"a", "*", "*">> }

MCInputs == SeqOf(Tokens, 3) \ {<<>>}

MCPathsFileContents == { <<>>, <<A, <<>>, B>>, <<<<>>, A, A, <<>>>> }
=============================================================================
