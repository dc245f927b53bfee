---------------------------- MODULE CollectPaths ----------------------------
(***************************************************************************)
(* collect_paths (src/cli/src/main.rs): turns the --paths file or the      *)
(* positional path/glob specifiers of the parse, query, tags and          *)
(* highlight subcommands into the list of files to process.  One step     *)
(* handles one specifier (one iteration of the `for mut path in paths`    *)
(* loop, glob expansion included); the paths-file branch is one step.     *)
(***************************************************************************)
EXTENDS PathSyntax, FiniteSets

CONSTANTS
  Files,              \* the paths that exist in the working directory
  Inputs,             \* the non-empty specifier lists a user may pass
  PathsFileContents,  \* contents of a --paths file, as sequences of lines
  NoPathsFile,        \* --paths not given
  Unreadable          \* --paths names a file that cannot be read

ASSUME NoPathsFile \notin PathsFileContents /\ Unreadable \notin PathsFileContents

VARIABLES
  pathsFile,  \* paths_file: NoPathsFile, Unreadable or the file's lines
  specs,      \* paths: the specifiers, <<>> when none were given
  i,          \* index of the next specifier to handle
  result,     \* the list being built
  status      \* "running", or how collect_paths returned

vars == <<pathsFile, specs, i, result, status>>

Statuses == {"running", "ok", "read_error", "invalid_glob", "no_match", "no_paths"}

-----------------------------------------------------------------------------
(* Helpers of collect_paths.                                               *)

\* Mutant: the exists check dropped, every specifier is globbed.
IsLiteralNever(path) == FALSE

\* Path::new(path).exists(): the specifier names an existing entry.
IsLiteral(path) == path \in Files

\* Mutant: a positive path already in the list is not pushed again.
IncorporatePathDedup(r, path, positive) ==
  IF positive THEN (IF Contains(r, path) THEN r ELSE Append(r, path))
  ELSE RemoveFirst(r, path)

\* The incorporate_path closure: a positive path is pushed, even when it is
\* already in the list; a negative one removes its first occurrence only.
IncorporatePath(r, path, positive) ==
  IF positive THEN Append(r, path) ELSE RemoveFirst(r, path)

\* The inner `for path in paths` loop over the glob's matches.
IncorporateAll(r, matches, positive) ==
  FoldLeft(LAMBDA acc, p : IncorporatePath(acc, p, positive), r, matches)

\* Mutant: a glob that matches nothing is passed on as a path, the way a
\* shell without nullglob does.
GlobMatchesKeepsPattern(path) ==
  IF Glob(path, Files) = <<>> THEN <<path>> ELSE Glob(path, Files)

\* The paths glob(path) yields, in its order.
GlobMatches(path) == Glob(path, Files)

\* The paths a specifier stands for: itself, or the glob's matches.
Expand(path) == IF IsLiteral(path) THEN <<path>> ELSE GlobMatches(path)

\* read_to_string(..).trim().lines(): blank lines at the start and end of
\* the file disappear, blank lines in between stay as empty paths.
RECURSIVE TrimLeading(_)
TrimLeading(ls) == IF ls # <<>> /\ Head(ls) = <<>> THEN TrimLeading(Tail(ls)) ELSE ls
TrimmedLines(ls) == Reverse(TrimLeading(Reverse(TrimLeading(ls))))

\* collect_paths over a specifier list, as a function of its input: the
\* same steps as the actions below, folded.
Resolve(toks) ==
  LET RECURSIVE R(_, _)
      R(r, k) ==
        IF k > Len(toks)
        THEN [status |-> IF r = <<>> THEN "no_match" ELSE "ok", result |-> r]
        ELSE LET path == TrimStartBangs(toks[k]) IN
             IF ~IsLiteral(path) /\ ~ValidPattern(path)
             THEN [status |-> "invalid_glob", result |-> r]
             ELSE R(IncorporateAll(r, Expand(path), ~Negated(toks[k])), k + 1)
  IN R(<<>>, 1)

-----------------------------------------------------------------------------
Init ==
  /\ pathsFile \in PathsFileContents \cup {NoPathsFile, Unreadable}
  /\ specs \in Inputs \cup {<<>>}
  /\ i = 1
  /\ result = <<>>
  /\ status = "running"

\* --paths given: it wins over positional paths and is returned verbatim,
\* without an emptiness check.
ReadPathsFile ==
  /\ status = "running"
  /\ pathsFile \in PathsFileContents
  /\ result' = TrimmedLines(pathsFile)
  /\ status' = "ok"
  /\ UNCHANGED <<pathsFile, specs, i>>

PathsFileUnreadable ==
  /\ status = "running"
  /\ pathsFile = Unreadable
  /\ status' = "read_error"
  /\ UNCHANGED <<pathsFile, specs, i, result>>

\* The current specifier, its sign and the path it names once stripped.
Tok == specs[i]
Positive == ~Negated(Tok)
Stripped == TrimStartBangs(Tok)

SpecifierStep ==
  /\ status = "running"
  /\ pathsFile = NoPathsFile
  /\ i <= Len(specs)

LiteralSpecifier ==
  /\ SpecifierStep
  /\ IsLiteral(Stripped)
  /\ result' = IncorporatePath(result, Stripped, Positive)
  /\ i' = i + 1
  /\ UNCHANGED <<pathsFile, specs, status>>

GlobSpecifier ==
  /\ SpecifierStep
  /\ ~IsLiteral(Stripped)
  /\ ValidPattern(Stripped)
  /\ result' = IncorporateAll(result, GlobMatches(Stripped), Positive)
  /\ i' = i + 1
  /\ UNCHANGED <<pathsFile, specs, status>>

InvalidGlob ==
  /\ SpecifierStep
  /\ ~IsLiteral(Stripped)
  /\ ~ValidPattern(Stripped)
  /\ status' = "invalid_glob"
  /\ UNCHANGED <<pathsFile, specs, i, result>>

Collected ==
  /\ status = "running"
  /\ pathsFile = NoPathsFile
  /\ specs # <<>>
  /\ i > Len(specs)
  /\ status' = IF result = <<>> THEN "no_match" ELSE "ok"
  /\ UNCHANGED <<pathsFile, specs, i, result>>

NoPaths ==
  /\ status = "running"
  /\ pathsFile = NoPathsFile
  /\ specs = <<>>
  /\ status' = "no_paths"
  /\ UNCHANGED <<pathsFile, specs, i, result>>

\* collect_paths has returned; the caller goes on with its answer.
Returned ==
  /\ status # "running"
  /\ UNCHANGED vars

Next ==
  \/ ReadPathsFile \/ PathsFileUnreadable
  \/ LiteralSpecifier \/ GlobSpecifier \/ InvalidGlob
  \/ Collected \/ NoPaths \/ Returned

Spec == Init /\ [][Next]_vars

-----------------------------------------------------------------------------
(* The resolution spec.md promises (section 3, ResolvedPathSet): an       *)
(* ordered set in which a positive specifier moves its paths to the end   *)
(* and a negative one removes them.  A reference, not code.               *)

IntendedIncorporate(r, path, positive) ==
  IF positive THEN Append(Remove(r, path), path) ELSE Remove(r, path)

Intended(toks) ==
  LET Step(r, tok) ==
        FoldLeft(LAMBDA acc, p : IntendedIncorporate(acc, p, ~Negated(tok)),
                 r, Expand(TrimStartBangs(tok)))
  IN FoldLeft(Step, <<>>, toks)

\* Position of the last occurrence of path in r.
LastIndex(r, path) == SelectLastInSeq(r, LAMBDA x : x = path)

ResolvedFromSpecifiers == status = "ok" /\ pathsFile = NoPathsFile

-----------------------------------------------------------------------------
(* Properties.                                                              *)

\* Every path collect_paths returns for specifiers is an existing file: a
\* glob with no match contributes nothing, and a literal is taken only
\* when Path::exists holds.
TypeOK ==
  /\ status \in Statuses
  /\ i \in 1..(Len(specs) + 1)
  /\ pathsFile = NoPathsFile => result \in Seq(Files)

\* Last specifier wins: every path whose last specifier was positive is in
\* the list, and the last occurrences of those paths come in the order of
\* their last positive specifiers (push-to-end in incorporate_path).
LastSpecifierWins ==
  ResolvedFromSpecifiers =>
    LET want == Intended(specs) IN
    /\ ToSet(want) \subseteq ToSet(result)
    /\ \A m, n \in 1..Len(want) :
         m < n => LastIndex(result, want[m]) < LastIndex(result, want[n])

\* spec.md section 8: feeding the resolved list back to collect_paths as
\* literal specifiers gives the same list (the exists-before-glob check and
\* the '!' stripping decide whether it does).
Idempotent ==
  ResolvedFromSpecifiers =>
    Resolve(result) = [status |-> "ok", result |-> result]

\* spec.md section 3: the resolved list holds each path once.
ResolvedUnique ==
  ResolvedFromSpecifiers => IsInjective(result)

=============================================================================
