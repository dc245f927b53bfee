----------------------------- MODULE ParseLoop -----------------------------
(***************************************************************************)
(* The per-file loop of the `parse` subcommand (src/cli/src/main.rs,       *)
(* "parse" arm of run, and main's mapping of run's result to an exit      *)
(* status).  For each resolved path the loop selects a language, sets it  *)
(* on the parser, calls parse_file_at_path with the timeout and the       *)
(* shared cancellation flag, folds the result into the statistics and     *)
(* into has_error; after the loop it prints the statistics and fails     *)
(* with an empty error if any file failed.                                *)
(*                                                                         *)
(* Two actors outside the loop act at any time: the Ctrl-C handler that   *)
(* util::cancel_on_signal installs sets the cancellation flag (it is      *)
(* never cleared), and the reader of standard output may go away, after   *)
(* which every write fails with BrokenPipe.                               *)
(*                                                                         *)
(* parse_file_at_path is outside src/; its contract is spec.md 4.4 and 6: *)
(* a file with error nodes is unsuccessful, a timeout (only when the      *)
(* timeout is not 0) or an observed cancellation gives no tree and an     *)
(* unsuccessful result without a duration, and an unreadable file or a    *)
(* failed write is an error that the loop's `?` propagates.               *)
(***************************************************************************)
EXTENDS Naturals, Sequences, SequencesExt, LanguageBinder, CliMain

CONSTANTS
  PathLists,   \* the lists collect_paths may return
  Scopes,      \* values of --scope
  Compatible,  \* languages parser.set_language accepts
  Readable,    \* paths whose contents can be read
  HasErrors,   \* paths whose tree contains error nodes
  Size,        \* [path -> bytes]
  Durations,   \* measured parse durations
  Timeouts,    \* values of --timeout (microseconds; 0 is none)
  NoDuration

VARIABLES
  paths,      \* the resolved list
  opts,       \* [scope, stat, timeout, output] from the command line
  k,          \* index of the next path
  cancelled,  \* the cancellation flag shared with every parse
  readerOpen, \* the reader of standard output is still there
  hasError,   \* has_error
  stats,      \* stats: parse::Stats
  phase,      \* "loop", or how run returned
  outcomes    \* history: the ParseResult of every file parsed so far

vars == <<paths, opts, k, cancelled, readerOpen, hasError, stats, phase, outcomes>>

Outputs == {"normal", "quiet"}
Outcomes ==
  [successful : BOOLEAN, bytes : {Size[p] : p \in DOMAIN Size},
   duration : Durations \cup {NoDuration}]

-----------------------------------------------------------------------------
\* parse::Stats::default()
StatsZero ==
  [total_parses |-> 0, successful_parses |-> 0, total_bytes |-> 0, total_duration |-> 0]

\* The `if should_track_stats` block after each file.
StatsUpdate(s, r) ==
  [s EXCEPT !.total_parses = @ + 1,
            !.successful_parses = IF r.successful THEN @ + 1 ELSE @,
            !.total_bytes = IF r.duration # NoDuration THEN @ + r.bytes ELSE @,
            !.total_duration = IF r.duration # NoDuration THEN @ + r.duration ELSE @]

\* Mutant: has_error = !parse_result.successful, a later success clears it.
ErrorUpdateAssign(e, r) == ~r.successful

\* has_error |= !parse_result.successful
ErrorUpdate(e, r) == e \/ ~r.successful

\* The results parse_file_at_path may return for path: a tree is produced
\* unless the timeout fires or the cancellation is observed.
ParseResults(path) ==
  LET tree    == [successful : {path \notin HasErrors}, bytes : {Size[path]},
                  duration : Durations \cup {NoDuration}]
      noTree  == [successful : {FALSE}, bytes : {Size[path]}, duration : {NoDuration}]
  IN tree \cup (IF opts.timeout > 0 \/ cancelled THEN noTree ELSE {})

-----------------------------------------------------------------------------
Init ==
  /\ paths \in PathLists
  /\ opts \in [scope : Scopes \cup {NoScope}, stat : BOOLEAN,
               timeout : Timeouts, output : Outputs]
  /\ k = 1
  /\ cancelled = FALSE
  /\ readerOpen = TRUE
  /\ hasError = FALSE
  /\ stats = StatsZero
  /\ phase = "loop"
  /\ outcomes = <<>>

\* Ctrl-C: the handler stores to the flag; the loop itself goes on.
Interrupt ==
  /\ phase = "loop"
  /\ ~cancelled
  /\ cancelled' = TRUE
  /\ UNCHANGED <<paths, opts, k, readerOpen, hasError, stats, phase, outcomes>>

\* The process reading standard output exits (`tree-sitter parse .. | head`).
ReaderCloses ==
  /\ phase = "loop"
  /\ readerOpen
  /\ readerOpen' = FALSE
  /\ UNCHANGED <<paths, opts, k, cancelled, hasError, stats, phase, outcomes>>

Path == paths[k]
Lang == SelectLanguage(Path, opts.scope)

FileStep == phase = "loop" /\ k <= Len(paths)

\* loader.select_language(..)? fails: the error ends run.
NoLanguageFound ==
  /\ FileStep
  /\ Lang = NoLanguage
  /\ phase' = "no_language"
  /\ UNCHANGED <<paths, opts, k, cancelled, readerOpen, hasError, stats, outcomes>>

\* parser.set_language(..).context("incompatible language")?
IncompatibleLanguage ==
  /\ FileStep
  /\ Lang # NoLanguage
  /\ Lang \notin Compatible
  /\ phase' = "incompatible"
  /\ UNCHANGED <<paths, opts, k, cancelled, readerOpen, hasError, stats, outcomes>>

Parsable == FileStep /\ Lang \in Compatible

\* parse_file_at_path(..)? fails reading the file.
ReadFails ==
  /\ Parsable
  /\ Path \notin Readable
  /\ phase' = "io_error"
  /\ UNCHANGED <<paths, opts, k, cancelled, readerOpen, hasError, stats, outcomes>>

\* parse_file_at_path(..)? fails writing the tree: BrokenPipe.
WriteFails ==
  /\ Parsable
  /\ Path \in Readable
  /\ opts.output = "normal"
  /\ ~readerOpen
  /\ phase' = "broken_pipe"
  /\ UNCHANGED <<paths, opts, k, cancelled, readerOpen, hasError, stats, outcomes>>

\* parse_file_at_path prints the tree unless --quiet.
CanWrite == opts.output = "quiet" \/ readerOpen

\* Mutant: a file that failed (a timeout, say) is tried again.
AdvanceRetryFailed(r) == IF r.successful THEN k + 1 ELSE k

\* The for loop moves to the next path whatever the parse returned.
Advance(r) == k + 1

\* One whole iteration: parse, fold into stats and has_error, next path.
ParseFile ==
  /\ Parsable
  /\ Path \in Readable
  /\ CanWrite
  /\ \E r \in ParseResults(Path) :
       /\ stats' = IF opts.stat THEN StatsUpdate(stats, r) ELSE stats
       /\ hasError' = ErrorUpdate(hasError, r)
       /\ outcomes' = Append(outcomes, r)
       /\ k' = Advance(r)
  /\ UNCHANGED <<paths, opts, cancelled, readerOpen, phase>>

\* After the loop: println!("\n{stats}") panics when stdout is gone.
StatsPrintPanics ==
  /\ phase = "loop"
  /\ k > Len(paths)
  /\ opts.stat
  /\ ~readerOpen
  /\ phase' = "print_panic"
  /\ UNCHANGED <<paths, opts, k, cancelled, readerOpen, hasError, stats, outcomes>>

\* After the loop: stats printed if asked, then Err("") if has_error.
Finish ==
  /\ phase = "loop"
  /\ k > Len(paths)
  /\ opts.stat => readerOpen
  /\ phase' = IF hasError THEN "failed" ELSE "succeeded"
  /\ UNCHANGED <<paths, opts, k, cancelled, readerOpen, hasError, stats, outcomes>>

\* run has returned and main has exited.
Exited ==
  /\ phase # "loop"
  /\ UNCHANGED vars

Next ==
  \/ Interrupt \/ ReaderCloses
  \/ NoLanguageFound \/ IncompatibleLanguage \/ ReadFails \/ WriteFails
  \/ ParseFile \/ StatsPrintPanics \/ Finish \/ Exited

Spec == Init /\ [][Next]_vars

-----------------------------------------------------------------------------
(* Properties.                                                              *)

\* The verdict the run has reached, in the terms of BatchRun.
Verdict ==
  CASE phase = "loop"           -> "running"
    [] phase = "broken_pipe"    -> "abandoned"
    [] ExitStatus(phase) = 0    -> "ok"
    [] OTHER                    -> "fail"

TypeOK ==
  /\ k \in 1..(Len(paths) + 1)
  /\ outcomes \in Seq(Outcomes)
  /\ Len(outcomes) = k - 1
  /\ phase \in {"loop", "succeeded", "failed", "no_language", "incompatible",
                 "io_error", "broken_pipe", "print_panic"}

\* The loop implements spec.md's multi-file run: every parsed file has one
\* outcome, the statistics are the fold of the outcomes (when --stat is
\* given), and a run that ends normally fails iff some file failed.  The
\* has_error accumulator and the stats block are what this is about.
BR == INSTANCE BatchRun WITH
        files     <- paths,
        attempted <- outcomes,
        summary   <- IF opts.stat THEN stats ELSE FoldLeft(StatsUpdate, StatsZero, outcomes),
        verdict   <- Verdict

ImplementsBatchRun == BR!Spec

\* spec.md 4.4: if any file failed, the invocation reports failure.  The
\* exit status is 0 only when every file parsed so far was successful.
FailureReported ==
  (phase # "loop" /\ ExitStatus(phase) = 0) =>
    \A n \in 1..Len(outcomes) : outcomes[n].successful

\* spec.md 7: fatal errors end the invocation before any file is processed;
\* per-file faults are recorded and never end the loop early.
AbortsBeforeProcessing ==
  phase \in {"no_language", "incompatible", "io_error"} => outcomes = <<>>

=============================================================================
