-------------------------- MODULE MCParseInvocation --------------------------
\* The working directory of MCCollectPaths: a is named for L1; b is found
\* by its content (L1) and has error nodes; ab is named for L2, which
\* set_language rejects; the file whose name is the pattern a-star has no
\* language; a and b are readable.  Up to two specifiers, or a --paths file
\* that is empty, names a and b, or has a blank line between them.
EXTENDS ParseInvocation, TLC

CONSTANTS L1, L2, S1, S2

A  == <<"a">>
B  == <<"b">>
AB == <<"a", "b">>
AS == <<"a", "*">>

MCFiles == {A, B, AB, AS}
MCInputs ==
  SeqOf({A, B, AB, <<"*">>, <<"!", "a">>, <<"a", "*", "*">>}, 2) \ {<<>>}
MCPathsFileContents == {<<>>, <<A, B>>, <<A, <<>>, B>>}

\* Every path a run can hold: the files, and the empty line of a paths file.
AllPaths == MCFiles \cup {<<>>}

MCScopeLanguage   == (S1 :> L1) @@ (S2 :> NoLanguage)
MCNameLanguage    ==
  [p \in AllPaths |-> CASE p = A -> L1 [] p = AB -> L2 [] OTHER -> NoLanguage]
MCContentLanguage == [p \in AllPaths |-> IF p = B THEN L1 ELSE NoLanguage]
MCSize            == [p \in AllPaths |-> IF p = B THEN 2 ELSE 1]
MCReadable  == {A, B}
MCHasErrors == {B}
=============================================================================
