--------------------------- MODULE HighlightLoop ---------------------------
(***************************************************************************)
(* The `highlight` subcommand (src/cli/src/main.rs, "highlight" arm of    *)
(* run).  An unknown --scope is refused before the loop.  For each path   *)
(* the language is the scope's or, without a scope, the one found by the  *)
(* file name alone; a path with no language or no highlight configuration *)
(* gets a warning on stderr and is skipped.  Otherwise the file is read   *)
(* and rendered as HTML or ANSI with the shared cancellation flag; every  *)
(* error of these calls ends the run through `?`.  There is no has_error: *)
(* skipped files do not change the exit status.                           *)
(*                                                                         *)
(* The highlight engine is outside src/: a render observes Ctrl-C either  *)
(* not at all (it finished first) or by returning an error, and a render  *)
(* that writes to a closed stdout returns BrokenPipe.                     *)
(***************************************************************************)
EXTENDS Naturals, Sequences, SequencesExt, LanguageBinder, CliMain

CONSTANTS
  PathLists,         \* the lists collect_paths may return
  Scopes,            \* values of --scope
  HasHighlights,     \* languages with a highlight configuration
  BrokenGrammars,    \* languages whose highlight_config(..) returns an error
  Readable           \* paths whose contents can be read

VARIABLES
  paths,      \* the resolved list
  opts,       \* [scope, mode, check, captures] from the command line;
              \* captures: no --captures-path, or one that can(not) be read
  k,          \* index of the next path
  cancelled,  \* the cancellation flag shared with every render
  readerOpen, \* the reader of standard output is still there
  phase,      \* "start", "loop", or how run returned
  rendered,   \* history: the paths rendered, in order
  skipped     \* history: the paths skipped with a warning, in order

vars == <<paths, opts, k, cancelled, readerOpen, phase, rendered, skipped>>

\* --html, --quiet (which implies html_mode and prints nothing), or ANSI.
Modes == {"ansi", "html", "quiet"}

-----------------------------------------------------------------------------
\* `match language.clone()`: the scope's language, else by file name only.
HighlightLanguage(path) ==
  IF opts.scope # NoScope THEN ScopeLanguage[opts.scope] ELSE NameLanguage[path]

\* highlight::html and highlight::ansi write to stdout unless --quiet.
Writes == opts.mode # "quiet"

Init ==
  /\ paths \in PathLists
  /\ opts \in [scope : Scopes \cup {NoScope}, mode : Modes, check : BOOLEAN,
               captures : {"absent", "readable", "unreadable"}]
  /\ k = 1
  /\ cancelled = FALSE
  /\ readerOpen = TRUE
  /\ phase = "start"
  /\ rendered = <<>>
  /\ skipped = <<>>

\* Ctrl-C after util::cancel_on_signal has installed the handler.
Interrupt ==
  /\ phase = "loop"
  /\ ~cancelled
  /\ cancelled' = TRUE
  /\ UNCHANGED <<paths, opts, k, readerOpen, phase, rendered, skipped>>

ReaderCloses ==
  /\ phase \in {"start", "loop"}
  /\ readerOpen
  /\ readerOpen' = FALSE
  /\ UNCHANGED <<paths, opts, k, cancelled, phase, rendered, skipped>>

\* println!(HTML_HEADER) panics when the reader of stdout has gone.
HeaderPanics ==
  /\ phase = "start"
  /\ opts.mode = "html"
  /\ ~readerOpen
  /\ phase' = PrintPanic
  /\ UNCHANGED <<paths, opts, k, cancelled, readerOpen, rendered, skipped>>

HeaderPrinted == phase = "start" /\ (opts.mode = "html" => readerOpen)

\* After the header: `if let Some(scope)`, an unknown scope is an error.
UnknownScope ==
  /\ HeaderPrinted
  /\ opts.scope # NoScope
  /\ ScopeLanguage[opts.scope] = NoLanguage
  /\ phase' = "unknown_scope"
  /\ UNCHANGED <<paths, opts, k, cancelled, readerOpen, rendered, skipped>>

StartLoop ==
  /\ HeaderPrinted
  /\ opts.scope # NoScope => ScopeLanguage[opts.scope] # NoLanguage
  /\ phase' = "loop"
  /\ UNCHANGED <<paths, opts, k, cancelled, readerOpen, rendered, skipped>>

Path == paths[k]
Lang == HighlightLanguage(Path)
FileStep == phase = "loop" /\ k <= Len(paths)

\* Mutant: the no-language branch leaves the loop (break for continue).
SkipNoLanguageBreak ==
  /\ FileStep
  /\ Lang = NoLanguage
  /\ skipped' = Append(skipped, Path)
  /\ k' = k + 1
  /\ phase' = Succeeded
  /\ UNCHANGED <<paths, opts, cancelled, readerOpen, rendered>>

\* "No language found for path": eprintln and continue.
SkipNoLanguage ==
  /\ FileStep
  /\ Lang = NoLanguage
  /\ skipped' = Append(skipped, Path)
  /\ k' = k + 1
  /\ UNCHANGED <<paths, opts, cancelled, readerOpen, phase, rendered>>

\* highlight_config(..)? fails: the error ends run.
ConfigError ==
  /\ FileStep
  /\ Lang # NoLanguage
  /\ Lang \in BrokenGrammars
  /\ phase' = "config_error"
  /\ UNCHANGED <<paths, opts, k, cancelled, readerOpen, rendered, skipped>>

\* "No syntax highlighting config found for path": eprintln, next path.
SkipNoHighlights ==
  /\ FileStep
  /\ Lang # NoLanguage
  /\ Lang \notin BrokenGrammars
  /\ Lang \notin HasHighlights
  /\ skipped' = Append(skipped, Path)
  /\ k' = k + 1
  /\ UNCHANGED <<paths, opts, cancelled, readerOpen, phase, rendered>>

Highlightable ==
  /\ FileStep
  /\ Lang # NoLanguage
  /\ Lang \notin BrokenGrammars
  /\ Lang \in HasHighlights

\* --check with --captures-path reads that file again for every file:
\* fs::read_to_string(..)? fails, or fs::read(path)? fails for the source.
ReadFails ==
  /\ Highlightable
  /\ \/ opts.check /\ opts.captures = "unreadable"
     \/ Path \notin Readable
  /\ phase' = "io_error"
  /\ UNCHANGED <<paths, opts, k, cancelled, readerOpen, rendered, skipped>>

CanRead == Highlightable /\ ~(opts.check /\ opts.captures = "unreadable") /\ Path \in Readable

\* A render goes ahead unless it has something to write and no reader.
CanWrite == Writes => readerOpen

\* Mutant: the path is rendered twice (html and ansi both called).
RenderTwice ==
  /\ CanRead
  /\ CanWrite
  /\ rendered' = rendered \o <<Path, Path>>
  /\ k' = k + 1
  /\ UNCHANGED <<paths, opts, cancelled, readerOpen, phase, skipped>>

\* highlight::html / highlight::ansi return; the loop goes on.
Render ==
  /\ CanRead
  /\ CanWrite
  /\ rendered' = Append(rendered, Path)
  /\ k' = k + 1
  /\ UNCHANGED <<paths, opts, cancelled, readerOpen, phase, skipped>>

\* The render observes the cancellation flag and returns an error.
RenderCancelled ==
  /\ CanRead
  /\ cancelled
  /\ phase' = "cancelled"
  /\ UNCHANGED <<paths, opts, k, cancelled, readerOpen, rendered, skipped>>

\* The render's write fails: BrokenPipe, which main turns into status 0.
RenderBrokenPipe ==
  /\ CanRead
  /\ Writes
  /\ ~readerOpen
  /\ phase' = BrokenPipe
  /\ UNCHANGED <<paths, opts, k, cancelled, readerOpen, rendered, skipped>>

\* After the loop the HTML footer is printed (println!), then Ok(()).
Finish ==
  /\ phase = "loop"
  /\ k > Len(paths)
  /\ phase' = IF opts.mode = "html" /\ ~readerOpen THEN PrintPanic ELSE Succeeded
  /\ UNCHANGED <<paths, opts, k, cancelled, readerOpen, rendered, skipped>>

Exited ==
  /\ phase \notin {"start", "loop"}
  /\ UNCHANGED vars

Next ==
  \/ Interrupt \/ ReaderCloses \/ HeaderPanics \/ UnknownScope \/ StartLoop
  \/ SkipNoLanguage \/ ConfigError \/ SkipNoHighlights \/ ReadFails
  \/ Render \/ RenderCancelled \/ RenderBrokenPipe \/ Finish \/ Exited

Spec == Init /\ [][Next]_vars

-----------------------------------------------------------------------------
(* Properties.                                                              *)

TypeOK ==
  /\ k \in 1..(Len(paths) + 1)
  /\ rendered \in Seq(ToSet(paths))
  /\ skipped \in Seq(ToSet(paths))
  /\ Len(rendered) + Len(skipped) = k - 1

\* The paths that have a language with a highlight configuration.
Covered(p) ==
  HighlightLanguage(p) # NoLanguage /\ HighlightLanguage(p) \in HasHighlights

\* A run that succeeds has rendered exactly the covered paths, in list
\* order, and skipped the others: a skipped file (the `continue` of the
\* no-language branch, the else of the highlight-config branch) never ends
\* or shortens the loop, and each file is bound to its own language.
EveryCoveredFileRendered ==
  phase = Succeeded =>
    /\ rendered = SelectSeq(paths, Covered)
    /\ skipped = SelectSeq(paths, LAMBDA p : ~Covered(p))

\* spec.md 4.2: without a scope, a file that no file-name pattern matches
\* is bound by its content, so a file is skipped for lack of a language
\* only when the language binder finds none.
SkipsOnlyUnboundFiles ==
  \A n \in 1..Len(skipped) :
    HighlightLanguage(skipped[n]) = NoLanguage =>
      SelectLanguage(skipped[n], opts.scope) = NoLanguage

=============================================================================
