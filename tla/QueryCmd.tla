------------------------------ MODULE QueryCmd ------------------------------
(***************************************************************************)
(* The `query` subcommand (src/cli/src/main.rs, "query" arm of run),      *)
(* composed with collect_paths.  In the code's order: collect_paths(..)?, *)
(* the loader configuration and find_all_languages(..)?, one language     *)
(* selected for paths[0] and used for every file, the --byte-range and    *)
(* --row-range closures, then query_files_at_paths(..)? over the list.    *)
(*                                                                         *)
(* query_files_at_paths is outside src/ (spec.md 6): it reads and queries *)
(* the files in order and returns the first error through `?`; a write to *)
(* a closed stdout is a BrokenPipe unless --quiet.                        *)
(***************************************************************************)
EXTENDS Naturals, Sequences, SequencesExt, LanguageBinder, CliMain

CONSTANTS
  Files, Inputs, PathsFileContents, NoPathsFile, Unreadable,
  Scopes,        \* values of --scope
  RangeArgs,     \* values of --byte-range and --row-range
  NoArg,         \* the option not given
  Readable,      \* paths whose contents can be read
  MaxUsize       \* usize::MAX, as in RangeArg

VARIABLES
  pathsFile, specs, i, result, status,  \* collect_paths, as in CollectPaths
  opts,        \* [scope, byteArg, rowArg, quiet] from the command line
  readerOpen,  \* the reader of standard output is still there
  phase,       \* "collect", "config", "select", "ranges", "query", or how run returned
  language,    \* the language selected for paths[0]
  queried      \* history: the paths queried so far, in order

CP == INSTANCE CollectPaths
RA == INSTANCE RangeArg

vars == <<pathsFile, specs, i, result, status, opts, readerOpen, phase, language, queried>>
queryVars == <<opts, readerOpen, phase, language, queried>>

\* The closure's outcome for an option, None when it is not given.
RangeOf(a) == IF a = NoArg THEN RA!NoRange ELSE RA!ParseRange(a)

-----------------------------------------------------------------------------
Init ==
  /\ CP!Init
  /\ opts \in [scope : Scopes \cup {NoScope}, byteArg : RangeArgs \cup {NoArg},
               rowArg : RangeArgs \cup {NoArg}, quiet : BOOLEAN]
  /\ readerOpen = TRUE
  /\ phase = "collect"
  /\ language = NoLanguage
  /\ queried = <<>>

\* run has not returned yet.
Running == phase \in {"collect", "select", "ranges", "query"}

ReaderCloses ==
  /\ Running
  /\ readerOpen
  /\ readerOpen' = FALSE
  /\ UNCHANGED <<pathsFile, specs, i, result, status, opts, phase, language, queried>>

\* One step of collect_paths.
Collect ==
  /\ phase = "collect"
  /\ status = "running"
  /\ CP!Next
  /\ UNCHANGED queryVars

\* collect_paths(..)? returned an error.
CollectFails ==
  /\ phase = "collect"
  /\ status \notin {"running", "ok"}
  /\ phase' = "collect_error"
  /\ UNCHANGED <<pathsFile, specs, i, result, status, opts, readerOpen, language, queried>>

\* config.get()? and loader.find_all_languages(..)?: either may fail.
LoadLanguages ==
  /\ phase = "collect"
  /\ status = "ok"
  /\ phase' \in {"config_error", "select"}
  /\ UNCHANGED <<pathsFile, specs, i, result, status, opts, readerOpen, language, queried>>

\* Path::new(&paths[0]) on an empty list: index out of bounds.
FirstPathMissing ==
  /\ phase = "select"
  /\ result = <<>>
  /\ phase' = IndexPanic
  /\ UNCHANGED <<pathsFile, specs, i, result, status, opts, readerOpen, language, queried>>

\* loader.select_language(paths[0], .., scope)?
SelectFirstLanguage ==
  /\ phase = "select"
  /\ result # <<>>
  /\ language' = SelectLanguage(result[1], opts.scope)
  /\ phase' = IF language' = NoLanguage THEN "no_language" ELSE "ranges"
  /\ UNCHANGED <<pathsFile, specs, i, result, status, opts, readerOpen, queried>>

\* The two closures, byte range first: an unwrap panic ends the process.
ParseRanges ==
  /\ phase = "ranges"
  /\ phase' = IF \E a \in {opts.byteArg, opts.rowArg} : RangeOf(a).kind = UnwrapPanic
              THEN UnwrapPanic ELSE "query"
  /\ UNCHANGED <<pathsFile, specs, i, result, status, opts, readerOpen, language, queried>>

\* The path query_files_at_paths handles next.
QPath == result[Len(queried) + 1]
QueryStep == phase = "query" /\ Len(queried) < Len(result)

\* query_files_at_paths: fs::read(path)? fails.
QueryReadFails ==
  /\ QueryStep
  /\ QPath \notin Readable
  /\ phase' = "io_error"
  /\ UNCHANGED <<pathsFile, specs, i, result, status, opts, readerOpen, language, queried>>

\* query_files_at_paths: printing a match to a closed stdout.
QueryWriteFails ==
  /\ QueryStep
  /\ QPath \in Readable
  /\ ~opts.quiet /\ ~readerOpen
  /\ phase' = BrokenPipe
  /\ UNCHANGED <<pathsFile, specs, i, result, status, opts, readerOpen, language, queried>>

\* Mutant: the language is selected per file inside the loop, as the parse
\* arm does, and a file without one ends the run.
QueryFileSelectsLanguage ==
  /\ QueryStep
  /\ QPath \in Readable
  /\ opts.quiet \/ readerOpen
  /\ IF SelectLanguage(QPath, opts.scope) = NoLanguage
     THEN phase' = "no_language" /\ UNCHANGED queried
     ELSE queried' = Append(queried, QPath) /\ UNCHANGED phase
  /\ UNCHANGED <<pathsFile, specs, i, result, status, opts, readerOpen, language>>

\* query_files_at_paths: the file is queried with the one language.
QueryFile ==
  /\ QueryStep
  /\ QPath \in Readable
  /\ opts.quiet \/ readerOpen
  /\ queried' = Append(queried, QPath)
  /\ UNCHANGED <<pathsFile, specs, i, result, status, opts, readerOpen, phase, language>>

Finish ==
  /\ phase = "query"
  /\ Len(queried) = Len(result)
  /\ phase' = Succeeded
  /\ UNCHANGED <<pathsFile, specs, i, result, status, opts, readerOpen, language, queried>>

Exited ==
  /\ ~Running
  /\ UNCHANGED vars

Next ==
  \/ ReaderCloses \/ Collect \/ CollectFails \/ LoadLanguages
  \/ FirstPathMissing \/ SelectFirstLanguage \/ ParseRanges
  \/ QueryReadFails \/ QueryWriteFails \/ QueryFile \/ Finish \/ Exited

Spec == Init /\ [][Next]_vars

-----------------------------------------------------------------------------
(* Properties.                                                              *)

\* spec.md 7: a configuration error (unreadable paths file, invalid glob,
\* no language, malformed option) ends the run before any file is
\* processed.  The query arm binds its one language and parses both range
\* options before query_files_at_paths sees the first file.
ConfigErrorsBeforeFiles ==
  phase \in {"collect_error", "config_error", "no_language", UnwrapPanic} =>
    queried = <<>>

=============================================================================
