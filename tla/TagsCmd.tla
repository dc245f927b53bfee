------------------------------- MODULE TagsCmd -------------------------------
(***************************************************************************)
(* The `tags` subcommand (src/cli/src/main.rs, "tags" arm of run): unlike *)
(* query, it reads the loader configuration and finds the languages       *)
(* BEFORE collect_paths, then hands the whole list to tags::generate_tags. *)
(*                                                                         *)
(* generate_tags is outside src/ and follows spec.md: an unknown --scope   *)
(* is fatal before any file (4.2, 7a); a path with no language is skipped *)
(* with a warning (4.2, batch command); an engine fault is recorded and   *)
(* the loop goes on, the verdict failing at the end (7c).  Printing a tag *)
(* to a closed stdout is a BrokenPipe unless --quiet, as for query.       *)
(***************************************************************************)
EXTENDS Naturals, Sequences, SequencesExt, LanguageBinder, CliMain

CONSTANTS Files, Inputs, PathsFileContents, NoPathsFile, Unreadable,
          Scopes, Readable

VARIABLES
  pathsFile, specs, i, result, status,  \* collect_paths, as in CollectPaths
  opts,        \* [scope, quiet, ...] from the command line
  readerOpen,  \* the reader of standard output is still there
  phase,       \* "config", "collect", "tags", or how run returned
  tk,          \* index of the path generate_tags handles next
  tagged,      \* history: the paths tagged so far, in order
  faulted      \* a file's tagging failed (spec.md 7c)

CP == INSTANCE CollectPaths

vars == <<pathsFile, specs, i, result, status, opts, readerOpen, phase, tk, tagged, faulted>>
cpVars == <<pathsFile, specs, i, result, status>>

Init ==
  /\ CP!Init
  /\ opts \in [scope : Scopes \cup {NoScope}, quiet : BOOLEAN]
  /\ readerOpen = TRUE
  /\ phase = "config"
  /\ tk = 1 /\ tagged = <<>> /\ faulted = FALSE

Running == phase \in {"config", "collect", "tags"}

ReaderCloses ==
  /\ Running /\ readerOpen
  /\ readerOpen' = FALSE
  /\ UNCHANGED <<pathsFile, specs, i, result, status, opts, phase, tk, tagged, faulted>>

\* config.get()? then loader.find_all_languages(..)?: either may fail, and
\* both come before collect_paths.
LoadLanguages ==
  /\ phase = "config"
  /\ phase' \in {"config_error", "collect"}
  /\ UNCHANGED <<pathsFile, specs, i, result, status, opts, readerOpen, tk, tagged, faulted>>

Collect ==
  /\ phase = "collect" /\ status = "running"
  /\ CP!Next
  /\ UNCHANGED <<opts, readerOpen, phase, tk, tagged, faulted>>

\* generate_tags refuses an unknown --scope before the first file.
UnknownScope == opts.scope # NoScope /\ ScopeLanguage[opts.scope] = NoLanguage

\* collect_paths(..)? returns: its error ends run, its list goes, whole,
\* to generate_tags.
Collected ==
  /\ phase = "collect" /\ status # "running"
  /\ phase' = CASE status # "ok" -> "collect_error"
                [] UnknownScope   -> "unknown_scope"
                [] OTHER          -> "tags"
  /\ UNCHANGED <<pathsFile, specs, i, result, status, opts, readerOpen, tk, tagged, faulted>>

TPath == result[tk]
TagStep == phase = "tags" /\ tk <= Len(result)
Bound(p) == SelectLanguage(p, opts.scope) # NoLanguage

\* "No language found": a warning, and the next path.
SkipNoLanguage ==
  /\ TagStep /\ ~Bound(TPath)
  /\ tk' = tk + 1
  /\ UNCHANGED <<pathsFile, specs, i, result, status, opts, readerOpen, phase, tagged, faulted>>

\* The engine fails on this file: recorded, and the loop goes on.
TagFault == faulted' = TRUE /\ tk' = tk + 1 /\ UNCHANGED phase

\* The engine tags a readable file, or fails on it.
TagFile ==
  /\ TagStep /\ Bound(TPath)
  /\ \/ /\ TPath \in Readable /\ (opts.quiet \/ readerOpen)
        /\ tagged' = Append(tagged, TPath) /\ tk' = tk + 1
        /\ UNCHANGED <<phase, faulted>>
     \/ TagFault /\ UNCHANGED tagged
  /\ UNCHANGED <<pathsFile, specs, i, result, status, opts, readerOpen>>

\* Writing a tag to a closed stdout.
TagWriteFails ==
  /\ TagStep /\ Bound(TPath) /\ TPath \in Readable
  /\ ~opts.quiet /\ ~readerOpen
  /\ phase' = BrokenPipe
  /\ UNCHANGED <<pathsFile, specs, i, result, status, opts, readerOpen, tk, tagged, faulted>>

\* generate_tags returns after the last path: failure if any file faulted.
Finish ==
  /\ phase = "tags" /\ tk > Len(result)
  /\ phase' = IF faulted THEN "tag_error" ELSE Succeeded
  /\ UNCHANGED <<pathsFile, specs, i, result, status, opts, readerOpen, tk, tagged, faulted>>

Exited == ~Running /\ UNCHANGED vars

Next ==
  \/ ReaderCloses \/ LoadLanguages \/ Collect \/ Collected
  \/ SkipNoLanguage \/ TagFile \/ TagWriteFails \/ Finish \/ Exited

Spec == Init /\ [][Next]_vars

=============================================================================
