----------------------------- MODULE PathSyntax -----------------------------
(***************************************************************************)
(* The text that collect_paths (src/cli/src/main.rs) works on.  A path, a  *)
(* specifier and a glob pattern are sequences of characters over a small  *)
(* alphabet that keeps the characters the code treats specially: '!' (the *)
(* negation marker, stripped by trim_start_matches) and '*' (a glob        *)
(* wildcard), plus two ordinary letters.                                   *)
(*                                                                         *)
(* The glob crate is not code of this repository; Matches, ValidPattern   *)
(* and Glob below state the behaviour of glob::glob that collect_paths     *)
(* relies on, restricted to a single flat directory: '*' matches any run  *)
(* of characters, "**" is only legal as a whole path component, and the   *)
(* matches of one directory are yielded in ascending byte order.          *)
(***************************************************************************)
EXTENDS Naturals, Sequences, SequencesExt, TLC

Bang == "!"
Star == "*"
Chars == {Bang, Star, "a", "b"}

\* Byte value of each character, the order in which glob sorts entries.
Byte == (Bang :> 33) @@ (Star :> 42) @@ ("a" :> 97) @@ ("b" :> 98)

\* Every character sequence of length 1..n.
Texts(n) == SeqOf(Chars, n) \ {<<>>}

\* path.starts_with('!'): the specifier is negative.
Negated(tok) == tok # <<>> /\ Head(tok) = Bang

\* path.trim_start_matches('!'): strips every leading '!', not just one.
RECURSIVE TrimStartBangs(_)
TrimStartBangs(tok) ==
  IF Negated(tok) THEN TrimStartBangs(Tail(tok)) ELSE tok

\* Byte-wise lexicographic order of two paths.
RECURSIVE PathLess(_, _)
PathLess(s, t) ==
  CASE s = <<>>          -> t # <<>>
    [] t = <<>>          -> FALSE
    [] Head(s) = Head(t) -> PathLess(Tail(s), Tail(t))
    [] OTHER             -> Byte[Head(s)] < Byte[Head(t)]

\* glob::Pattern::new rejects "***" and a "**" that is not a whole
\* component; in one flat directory the only legal "**" is the pattern "**".
ValidPattern(pat) ==
  \/ pat = <<Star, Star>>
  \/ ~\E i \in 1..(Len(pat) - 1) : pat[i] = Star /\ pat[i + 1] = Star

\* The pattern matches the file name; '!' outside brackets is a literal.
RECURSIVE Matches(_, _)
Matches(pat, name) ==
  CASE pat = <<>>         -> name = <<>>
    [] Head(pat) = Star   ->
         \E k \in 0..Len(name) : Matches(Tail(pat), SubSeq(name, k + 1, Len(name)))
    [] OTHER              ->
         name # <<>> /\ Head(name) = Head(pat) /\ Matches(Tail(pat), Tail(name))

\* glob(pat) over the existing files: the matches in ascending byte order.
Glob(pat, files) ==
  SetToSortSeq({f \in files : Matches(pat, f)}, PathLess)

=============================================================================
