# TLA+ models of the tree-sitter command-line driver

This directory holds TLA+ models of `src/cli/src/main.rs`, the entry point of the
`tree-sitter` command-line tool. The models cover the layer that decides which
files to process and how a multi-file run is bounded and judged:

- `collect_paths` resolves files from path and glob specifiers;
- the per-file loops of `parse`, `highlight` and `query`
  bind a language to each file, call the engine with a timeout and a
  cancellation flag, and fold the results into statistics and a verdict;
- `main` turns the result of `run` into an exit status.

The parser generator, the parsing engine, the query, highlight and tag engines,
and the grammar loader are collaborators outside `src/`. This project models
them only by their contracts in `spec.md`.

## 1. Inventory

| Component | Code | State | Operations |
|---|---|---|---|
| PathSetResolver | `collect_paths`, lines 810-863 | the list being built (`result`) | read the `--paths` file (trim, split into lines); per specifier: strip leading `!`, take it literally if it exists or expand it as a glob, then `incorporate_path` (push if positive, remove the first copy if negative); fail when the list is empty or no paths were given |
| LanguageBinder | `Loader::select_language` (loader crate); `highlight` lines 667-694 | none (registry tables) | by `--scope`, else by file name, else by content |
| RunController (`parse`) | lines 486-594 | `has_error`, the cancellation flag, the parser | per path: select language, `set_language`, `parse_file_at_path` with timeout and flag |
| StatsAggregator | lines 545-589 | `parse::Stats` | add each result; print once at the end |
| `main` exit status | lines 24-38 | none | BrokenPipe gives exit 0; an empty error gives a silent exit 1; other errors are printed, then exit 1 |
| `highlight` loop | lines 648-764 | the language fixed by `--scope` | per path: language by scope or file name (skip with a warning if none); highlight config; optional capture-name check; read the file; render as HTML or ANSI |
| `query` | lines 596-633 | none | one language from `paths[0]` for all files; parse `--byte-range` and `--row-range` |
| `tags` | lines 635-646 | none | delegates the whole list to `tags::generate_tags` |
| `test` | lines 404-484 | the parser, moved between the highlighter and the tags context | find the corpus directory (`test/corpus` or `corpus`); build include and exclude regexes; run the corpus, query, highlight and tag tests |
| `generate` | lines 358-402 | none | parse the ABI version (`latest` or a number); generate; optionally build |
| `init-config`, `build-wasm`, `playground`, `dump-languages` | lines 341-356, 766-802 | none | glue around external calls |
| CLI declaration | lines 40-334 | none | clap argument definitions |

### How the components interact

The components make plain sequential calls. `run` calls `collect_paths`, then
loops over the returned list in order. Two things act from outside the loop:

- **The Ctrl-C handler.** `util::cancel_on_signal` installs it at line 515,
  before `collect_paths` runs. On Ctrl-C it sets a shared flag and never
  clears it. The engine polls the flag during a parse (line 567). The loop
  itself never checks it.
- **The reader of standard output.** It can go away at any time, for example
  in `tree-sitter parse ... | head`. From then on every write fails with
  BrokenPipe.

### What is hard

- **Resolution order.** Push/remove-first semantics with negation, overlapping
  globs, file names that start with `!`, and file names that are themselves
  glob patterns.
- **The Ctrl-C interleaving.** The flag can be set before a file, during a
  file or after the last file.
- **Accumulators.** `has_error` and the statistics accumulate over a whole
  list. A later file must not undo an earlier one.
- **Errors inside the loop.** An error propagated with `?` ends the run partway
  through the list. A BrokenPipe then turns into exit status 0.

### Properties that make each component correct (from spec.md)

- **Resolver:**
  - A path's last specifier decides whether it is in the list.
  - The list is duplicate-free.
  - Re-resolving the list gives the same list.
- **Run:**
  - Every file is attempted.
  - The statistics are the fold of the per-file outcomes.
  - The verdict is failure exactly when a file failed.
  - Fatal errors happen before any file is processed.

## 2. Modules and runs

| Module | Models |
|---|---|
| `PathSyntax` | Paths and specifiers as character sequences over `{!, *, a, b}`. `TrimStartBangs` and `Negated` are lines 835-838. `Matches`, `ValidPattern` and `Glob` state what the `glob` crate does in one flat directory. These are environment definitions, not code of this repository. |
| `CollectPaths` | `collect_paths`, one action per branch: `ReadPathsFile`, `PathsFileUnreadable`, `LiteralSpecifier`, `GlobSpecifier`, `InvalidGlob`, `Collected`, `NoPaths`. One step handles one specifier, glob expansion included. `Resolve` folds the same helpers into a function of the input. `Intended` is the reference semantics of spec.md section 3: an ordered set with move-to-end. |
| `MCCollectPaths` | A working directory with `a`, `b`, `ab` and `a*`, where `a*` is a file whose name is a glob. Up to three specifiers from 11 tokens cover every branch: literal, `!`, `!!`, glob, negated glob, no match, invalid `a**`. `MCFilesBang` adds a file named `!a`. |
| `LanguageBinder` | `select_language` as spec.md 4.2 describes it (marked spec-modelled). |
| `BatchRun` | The abstract multi-file run of spec.md 4.4, 4.5 and 7. Files are attempted in order, each with one outcome. The summary is the fold of the outcomes. `Conclude` fails iff some outcome failed. A fatal error or a vanished reader may end the run. |
| `CliMain` | `main`'s mapping of the result of `run` to an exit status (lines 24-38): BrokenPipe gives 0, a panic 101, any other error 1. Shared by the loop modules. |
| `ParseLoop` | The `parse` loop. `Interrupt` (Ctrl-C) and `ReaderCloses` are the outside actors. `NoLanguageFound`, `IncompatibleLanguage`, `ReadFails` and `WriteFails` are the `?` exits. `ParseFile` is one whole iteration: parse, stats, `has_error`. `StatsPrintPanics` and `Finish` follow the loop. `outcomes` is a history variable. `ParseLoop` instantiates `BatchRun` with a refinement mapping: the summary maps to `stats`, and the verdict maps to the exit status. |
| `HighlightLoop` | The `highlight` arm, lines 648-764. `HeaderPanics` is the `println!` of the HTML header, which comes before the scope check `UnknownScope`. `StartLoop` enters the loop. Per path: `SkipNoLanguage` (no scope and no file-name language), `ConfigError` (`highlight_config(..)?` fails), `SkipNoHighlights`, `ReadFails` (the `--captures-path` file, re-read for every file under `--check`, or the source file), `Render`, `RenderCancelled`, `RenderBrokenPipe`. `Finish` prints the footer. `rendered` and `skipped` are history variables. |
| `MCHighlightLoop` | Five files: F1 is named for L1, which has highlights. F2 is recognised only by content. F3 is named for L2, which has no highlight configuration. F4 has no language and is unreadable. F5 is named for L3, whose highlight query fails to load. Scope S1 names L1, so F4 is covered and its read fails; scope S2 names nothing. Every combination of ANSI/HTML/quiet, `--check` and the captures file is included. |
| `RangeArg` | The `--byte-range`/`--row-range` closures of the `query` arm, lines 609-620, as the pure operator `ParseRange`. It covers `split(':')` (`FirstPart`, `AfterColon`), `parse::<usize>()` with its optional `+` (`IsUsize`, `UsizeValue`), and the `unwrap` of the second part. `ParseTimeout` is the `--timeout` closure of the `parse` arm (lines 534-536): `parse::<u64>().unwrap()`, as microseconds. `MaxUsize` stands in for `usize::MAX` and `u64::MAX`: `parse` returns `Err` above it. `DecimalValue` is an independent reference. |
| `MCArgParsers` | `ParseRange` and `ParseTimeout` as pure functions, for the violation run `malformed_args`. The state is one argument of up to four characters over `{0, 1, :, +, x}`: all 780 of them. |
| `GrammarCmds` | The `generate` arm (lines 358-402) and the `test` arm (lines 404-484), dispatched as `run` dispatches them: `cmd` is the subcommand. For `generate`, `ResolveAbi` is the `--abi` `map_or` (`AbiVersion`: absent gives 14, `latest` gives `LANGUAGE_VERSION`, anything else `parse::<usize>()`, reusing `RangeArg`'s `IsUsize`). `GenerateParser` is the generator call. `Build` is `--build`: `BuildLoader` replaces the loader for `--libdir` and then applies `use_debug_build`, and `languages_at_path` compiles. For `test`, the steps are `LoadLanguages` (`use_debug_build`, `languages_at_path?`, `first()` or "No language found"), `SetLanguage`, `CorpusTests` (in the directory `CorpusDir` chooses: `test/corpus`, else `corpus`), `CheckQueries`, `HighlightTests` and `TagTests`. Each external step succeeds or fails, and a failure ends the arm (`Step`). `loader` is the loader's configuration; `built` is the configuration the grammar was compiled with; `ran` is a history of the steps. |
| `MCGrammarCmds` | Every `--abi` value of up to two characters over `{0, 1, :, +, x}`, plus `latest` and none. `LANGUAGE_VERSION` is 15, so that it differs from the default 14. One `--libdir` or none, with and without `--build` and `--debug-build`. For `test`, every layout: `test/corpus` and `corpus` are each a directory, a file or absent, and `test/highlight` and `test/tags` each exist or not. |
| `QueryCmd` | The `query` arm, lines 596-633, composed with `CollectPaths` through `INSTANCE`. `Collect` runs `collect_paths` step by step. `CollectFails`, `LoadLanguages`, `FirstPathMissing` (`paths[0]` on an empty list), `SelectFirstLanguage` and `ParseRanges` (uses `RangeArg`) come next. `QueryReadFails`, `QueryWriteFails`, `QueryFile` and `Finish` model `query_files_at_paths` by its contract. |
| `MCQueryCmd` | The working directory of `MCCollectPaths` with one specifier, or a `--paths` file that is empty, names `a`, or has a blank middle line. `a` is found by name and `b` by content. Range options are absent, `1:0`, `x` and `1`. It composes the `query` arm with the `tags` arm, as the hermes-style two-instance environments do. `cmd` picks the arm, as `run`'s match does. The other arm's variables stay at their initial values. `Prelude` is the part of `run` before the match, lines 336-338: `env::current_dir().unwrap()` may panic, and `Config::load()?` and `Loader::new()?` may fail. |
| `TagsCmd` | The `tags` arm, lines 635-646, composed with `CollectPaths`. Unlike `query`, `LoadLanguages` (`config.get()?`, `find_all_languages(..)?`) comes before `Collect`. `Collected` hands the whole list to `tags::generate_tags`. That function is outside `src/`, so it is modelled from spec.md 4.2 and 7: an unknown `--scope` is fatal before any file (`unknown_scope`); a path without a language is skipped with a warning (`SkipNoLanguage`); an engine fault is recorded (`TagFault`), and the verdict fails after the last file (`Finish`). Printing a tag to a closed stdout is a BrokenPipe unless `--quiet`. |
| `ParseInvocation` | The whole `parse` arm, lines 486-594, composed from `CollectPaths` and `ParseLoop` through `INSTANCE`. The preflight runs in the code's order. `InvalidEncoding` comes first. `InstallHandler` installs the Ctrl-C handler, and `EarlyInterrupt` is a Ctrl-C from then on. `TimeoutPanics` is the `unwrap` of `--timeout`, and `TimeoutParsed` its success. `Collect`, `CollectFails` and `Collected` run `collect_paths`. `ConfigFails` and `StartLoop` follow. `Loop` is `ParseLoop`'s next-state relation. The refinement maps `files` to `FinalPaths`, the list `collect_paths` resolves, as a function of the input. |
| `MCParseInvocation` | The working directory of `MCCollectPaths`: `a` is found by name, `b` by content and has error nodes, `ab` has a language that `set_language` rejects, and `a*` has none. The input is up to two specifiers from six tokens, or one of three `--paths` files. Every option combination is included: scope, `--stat`, timeout 0, 1 or malformed, quiet output, and a valid or invalid encoding. |
| `MCParseLoop` | Four files: F1 is found by name; F2 is found by content and has error nodes; F3's language is rejected by `set_language`; F4 has no language. F1 and F2 are readable. Lists hold up to three paths. Every option combination is included: scope (none, known, unknown), `--stat`, timeout 0 or 1, normal or quiet output. |

### Runs

| Run | Expect | Shows |
|---|---|---|
| `collect_paths` | pass | `TypeOK`: every resolved path exists. `LastSpecifierWins`: every path whose last specifier is positive is in the list, and the last copies come in last-specifier order. `Idempotent`: re-resolving the list gives the same list. |
| `collect_paths_unique` | violation | `* a` resolves `a` twice (spec.md §3 says the paths are unique). Because a negation removes only the first copy, `* * !a` also keeps `a`. |
| `collect_paths_bang_file` | violation | A file named `!a` breaks idempotency (spec.md §8). |
| `parse_invocation` | pass | `TypeOK`: when the loop starts, its list is the one `Resolve` computes from the input, so the step-wise `collect_paths` agrees with its folded form. `ImplementsBatchRun`: the whole parse arm refines `BatchRun` over the resolved list. This covers preflight errors, Ctrl-C during collection or the loop, timeouts, missing languages, unreadable files and a closing reader. `BatchRun`'s `FatalError` is enabled at any point, so an early end of the loop passes here: that the loop goes on after a timeout or Ctrl-C is not checked, and the early ends the code does have are the `parse_loop_abort` run. |
| `parse_loop_broken_pipe` | violation | A failed file, then BrokenPipe on the next write: the process exits 0 (`FailureReported`). |
| `parse_loop_abort` | violation | An unreadable or language-less file ends the run after earlier files were parsed (`AbortsBeforeProcessing`). |

| `highlight_loop` | pass | `TypeOK`, and `EveryCoveredFileRendered`: a highlight run that returns `Ok` has rendered exactly the paths whose language (by scope, else by file name) has a highlight configuration, in list order, and skipped the others. This holds under Ctrl-C, a closing reader, broken grammars and unreadable files. |
| `highlight_no_content_sniffing` | violation | `SkipsOnlyUnboundFiles`: without `--scope`, a file that `select_language` would bind by its content is skipped as "No language found" (spec.md 4.2 describes content detection). |

| `malformed_args` | violation | `MalformedArgsNeverPanic`: no value typed as `--byte-range`, `--row-range` or `--timeout` crashes the process. TLC finds `+`: `parse::<u64>` accepts the sign but finds no digits, so `--timeout +` panics at line 536. `--byte-range 1` panics at `parts.next().unwrap()` (line 612). A range that does not parse is `None`, the closure's deliberate `.ok()?`, and is not counted. |
| `query` | pass | `ConfigErrorsBeforeFiles`: every configuration error of the query arm ends the run before the first file is queried, unlike the `parse` arm. `RangeMatchesReference` (stated over all arguments of up to four characters, so it holds in every state): every argument `<d1>:<d2>` of decimals is read as the range `DecimalValue(d1)..DecimalValue(d2)` when both are at most `usize::MAX`, and as no range otherwise. The `tags` arm has no passing property: what it does beyond the order of its three calls is `generate_tags`, which is modelled from spec.md, and checking it against the same paragraphs would check the spec against itself. It takes part in `query_empty_paths_file`. |
| `grammar_cmds` | pass | `AbiMatchesReference`: the generator gets the version the `--abi` value names, compared with a reference written from the help text. `BuildUsesFlags`: every compile uses `--debug-build` as given, and `--libdir` when given; the order of the loader calls matters here. `StepsFollowTheArm`: the steps of each arm run in the code's order, a step runs only after the earlier ones succeeded, and `Ok` means that every step whose directory or flag is present ran, with the corpus taken from the first of `test/corpus` and `corpus` that is a directory. |
| `query_empty_paths_file` | violation | `EmptyResolutionIsAnError`: an empty `--paths` file resolves to an empty list. `paths[0]` in `query` then panics (exit 101), and `tags` exits 0 having tagged nothing; neither fails with an error (spec.md 4.1: collect_paths fails if the final resolved set is empty; §8 says so only when no path-list is given). TLC shows the shorter `query` trace. Restricted to `cmd = "tags"`, it shows the `tags` one. |

### Bounds, and why they are enough

- **Three specifiers.** This is the shortest input for every interaction found
  here: include, include, exclude; or glob, then literal. The tokens cover every
  branch of the loop body.
- **Highlight lists.** These hold up to two paths over all five files, or three
  over F1, F2 and F4. Every kind of skip can then precede a rendered file.
- **Arguments of four characters.** This is the shortest length at which a
  range (`1:10`), a signed bound (`+1:0`), a third part (`1:0:`) and a missing
  second part all occur. `MaxUsize` is 10, so `10` is the largest value and
  `11` overflows: the boundary is in reach of a four-character argument.
- **`--abi` values of two characters.** This is the shortest length at which
  a multi-digit number (`10`), a sign (`+1`), a lone sign (`+`) and a number
  with trailing junk (`1x`) all occur. `latest` is spelled out as a character
  sequence, so it goes through the same comparison as every other value.
- **Test layouts.** All 36 layouts are checked. Each step of either arm can
  fail, and TLC tries every one of those failures.
- **Query.** One specifier is enough, because `collect_paths` is checked on its
  own. The question here is what the arm does with each shape of answer:
  empty, one file, several files, a blank line.
- **Three paths per list in the parse loop.** This lets a failure, a success
  after it, and an abort after a processed file all occur in one run. Durations
  and sizes are 1 or 2. The values only need to distinguish "added" from "not
  added".

### Fairness and liveness

No run checks a liveness property. Each arm is one thread running over a
finite list, and every step either moves to the next path or ends the run.
So "the run returns" follows from the shape of the loop and says nothing
about the code. The other behaviours that make these loops hard (Ctrl-C,
timeouts, a closing reader) are checked as safety, through the refinement
and the verdict properties.

### Plan (in order)

1. **Done:** `CollectPaths` and `ParseLoop`, with the `BatchRun` refinement.
2. **Done:** `HighlightLoop`. It has no aggregate verdict, so it is not
   compared with `BatchRun`. Its property is about which files get rendered.
3. **Done:** `ParseInvocation`. `MCParseLoop` remains for the two
   violation runs of the loop.
4. **Done:** `QueryCmd` and `RangeArg`.
5. **Done:** `GrammarCmds` (`generate` and `test`).
6. **Dropped:** termination of the `parse` and `highlight` arms, which follows from the finite loops.
7. **Done:** `--timeout` parsing and `usize` overflow, in `RangeArg`.
8. **Done:** `TagsCmd`, and the prelude of `run`, composed with `query` in `MCQueryCmd`.

## 3. Not modelled

- **clap argument declaration, help text, `init-config`, `build-wasm`,
  `playground`, `dump-languages`:** glue with no state.
- **Engines and the parser generator:** external. The models use only their
  contracts.
- **Non-UTF-8 file names** (skipped at line 846) and **glob iteration errors**
  (line 846): the model's file system has neither.
- **The `test` filters:** `--include` and `--exclude` values that are not
  valid regexes are dropped without a message (line 408). The filters are
  applied by `test::run_tests_at_path`, outside `src/`, so the model has no
  tests for them to select. This is recorded as a hazard.
- **The edit script parser** (spec.md 4.3): it lives in `parse.rs`, outside
  `src/`, and `main.rs` only collects the `--edit` values and passes them on
  (lines 512-515 and 560). A parser modelled from spec.md and checked against
  a reference written from the same paragraph would check the spec against
  itself. The edits therefore stay inside the parse contract (`ParseResults`).
- **`--wasm` in `test`** (lines 426-433): compiled only with a cargo feature.
- **Whitespace handling of the `--paths` file:** abstracted to blank lines.
