--------------------------- MODULE ParseInvocation ---------------------------
(***************************************************************************)
(* The whole `parse` arm of run (src/cli/src/main.rs): the preflight in   *)
(* the code's order (the --encoding value, the Ctrl-C handler, the        *)
(* --timeout value, collect_paths, the loader configuration), then the    *)
(* per-file loop of ParseLoop over the list collect_paths returned.       *)
(* collect_paths runs step by step as in CollectPaths; the handler is     *)
(* installed before it, so Ctrl-C can arrive while paths are collected.   *)
(***************************************************************************)
EXTENDS Naturals, Sequences, SequencesExt, LanguageBinder, CliMain

CONSTANTS
  Files, Inputs, PathsFileContents, NoPathsFile, Unreadable,
  Scopes, Compatible, Readable, HasErrors, Size, Durations, Timeouts, NoDuration,
  NotANumber   \* a --timeout value that is not a u64

VARIABLES
  pathsFile, specs, i, result, status,   \* collect_paths, as in CollectPaths
  paths, opts, k, cancelled, readerOpen, \* the loop, as in ParseLoop
  hasError, stats, phase, outcomes

CP == INSTANCE CollectPaths
PL == INSTANCE ParseLoop WITH PathLists <- {}

cpVars == <<pathsFile, specs, i, result, status>>
loopVars == <<paths, opts, k, cancelled, readerOpen, hasError, stats, phase, outcomes>>
vars == <<cpVars, loopVars>>

\* The stages before the loop, in the code's order.
Preflight == {"encoding", "timeout", "collect", "config"}

\* --encoding: absent or one of utf8/utf16 (the loop does not tell them
\* apart), or another value.
Encodings == {"absent", "other"}

-----------------------------------------------------------------------------
Init ==
  /\ CP!Init
  /\ opts \in [scope : Scopes \cup {NoScope}, stat : BOOLEAN,
               timeout : Timeouts \cup {NotANumber}, output : PL!Outputs,
               encoding : Encodings]
  /\ paths = <<>>
  /\ k = 1
  /\ cancelled = FALSE
  /\ readerOpen = TRUE
  /\ hasError = FALSE
  /\ stats = PL!StatsZero
  /\ phase = "encoding"
  /\ outcomes = <<>>

\* Preflight steps change the phase only.
PreflightStep(from, to) ==
  /\ phase = from
  /\ phase' = to
  /\ UNCHANGED <<cpVars, paths, opts, k, cancelled, readerOpen, hasError, stats, outcomes>>

\* "Invalid encoding. Expected one of: utf8, utf16"
InvalidEncoding == opts.encoding = "other" /\ PreflightStep("encoding", "invalid_encoding")

\* util::cancel_on_signal(): from here on Ctrl-C sets the flag.
InstallHandler == opts.encoding # "other" /\ PreflightStep("encoding", "timeout")

\* t.parse::<u64>().unwrap() on a value that is not a number.
TimeoutPanics == opts.timeout = NotANumber /\ PreflightStep("timeout", UnwrapPanic)

TimeoutParsed == opts.timeout # NotANumber /\ PreflightStep("timeout", "collect")

\* Ctrl-C after the handler is installed and before the loop.
EarlyInterrupt ==
  /\ phase \in Preflight \ {"encoding"}
  /\ ~cancelled
  /\ cancelled' = TRUE
  /\ UNCHANGED <<cpVars, paths, opts, k, readerOpen, hasError, stats, phase, outcomes>>

EarlyReaderCloses ==
  /\ phase \in Preflight
  /\ readerOpen
  /\ readerOpen' = FALSE
  /\ UNCHANGED <<cpVars, paths, opts, k, cancelled, hasError, stats, phase, outcomes>>

\* One step of collect_paths.
Collect ==
  /\ phase = "collect"
  /\ status = "running"
  /\ CP!Next
  /\ UNCHANGED loopVars

CollectFails == status \notin {"running", "ok"} /\ PreflightStep("collect", "collect_error")

Collected == status = "ok" /\ PreflightStep("collect", "config")

\* config.get()? and loader.find_all_languages(..)?; then the loop starts
\* over the list collect_paths returned.
ConfigFails == PreflightStep("config", "config_error")

StartLoop ==
  /\ phase = "config"
  /\ phase' = "loop"
  /\ paths' = result
  /\ UNCHANGED <<cpVars, opts, k, cancelled, readerOpen, hasError, stats, outcomes>>

\* The loop and main's exit, as ParseLoop has them.
Loop ==
  /\ phase \notin Preflight
  /\ PL!Next
  /\ UNCHANGED cpVars

Next ==
  \/ InvalidEncoding \/ InstallHandler \/ TimeoutPanics \/ TimeoutParsed
  \/ EarlyInterrupt \/ EarlyReaderCloses
  \/ Collect \/ CollectFails \/ Collected \/ ConfigFails \/ StartLoop
  \/ Loop

Spec == Init /\ [][Next]_vars

-----------------------------------------------------------------------------
(* Properties.                                                              *)

\* The list collect_paths returns, as a function of its input.
FinalPaths ==
  IF pathsFile \in PathsFileContents THEN CP!TrimmedLines(pathsFile)
  ELSE CP!Resolve(specs).result

TypeOK ==
  /\ CP!TypeOK
  /\ PL!TypeOK \/ phase \in Preflight \cup {"invalid_encoding", UnwrapPanic,
                                            "collect_error", "config_error"}
  /\ phase = "loop" => paths = FinalPaths

\* The whole parse invocation implements spec.md's multi-file run over the
\* list collect_paths resolves: preflight errors are fatal before any file,
\* a Ctrl-C during collection only makes later parses unsuccessful, the
\* statistics are the fold of the outcomes and a completed run fails iff
\* some file failed.
BR == INSTANCE BatchRun WITH
        Outcomes  <- PL!Outcomes,
        files     <- FinalPaths,
        attempted <- outcomes,
        summary   <- IF opts.stat THEN stats ELSE FoldLeft(PL!StatsUpdate, PL!StatsZero, outcomes),
        verdict   <- IF phase \in Preflight THEN "running" ELSE PL!Verdict

ImplementsBatchRun == BR!Spec

=============================================================================
