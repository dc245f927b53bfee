----------------------------- MODULE GrammarCmds -----------------------------
(***************************************************************************)
(* The two subcommands of run (src/cli/src/main.rs) that work on the      *)
(* grammar in the current directory: `generate` and `test`.  Both use the *)
(* loader run made with Loader::new(); generate may replace it when       *)
(* --libdir is given.  Every call that may fail ends the arm through `?`, *)
(* so each external step (the generator, the loader's compile, the test   *)
(* runners, which are outside src/) is a step that succeeds or fails.     *)
(*                                                                         *)
(* An --abi value is "latest" or a sequence of characters over the        *)
(* alphabet of RangeArg; its parse is str::parse::<usize>().              *)
(***************************************************************************)
EXTENDS Naturals, Sequences, SequencesExt, RangeArg

CONSTANTS
  LanguageVersion,  \* tree_sitter::LANGUAGE_VERSION
  AbiArgs,          \* values of --abi, "latest" among them
  LibDirs,          \* values of --libdir
  DefaultLib,       \* the parser library path of Loader::new()
  NoArg             \* the option not given

VARIABLES
  cmd,     \* the subcommand: "generate" or "test"
  opts,    \* its options, and for test the layout of the grammar directory
  loader,  \* [libPath, debug]: the loader's configuration
  built,   \* the loader configuration languages_at_path compiled with, or NoArg
  abi,     \* the ABI version handed to the generator, or NoArg
  phase,   \* the next step of the arm, or how run returned
  ran      \* history: the external steps run, each [step, ok]

vars == <<cmd, opts, loader, built, abi, phase, ran>>

DEFAULT_GENERATE_ABI_VERSION == 14
Latest == <<"l", "a", "t", "e", "s", "t">>   \* the word, as a --abi value

\* An outcome of the --abi parse: a version or the "invalid abi version
\* flag" error.
AbiError == [kind |-> "error"]
AbiOk(v) == [kind |-> "ok", version |-> v]

\* The kinds of entry a path under the grammar directory can be.
Entries == {"dir", "file", "absent"}

GenerateOpts ==
  [abi : AbiArgs \cup {NoArg}, build : BOOLEAN, libdir : LibDirs \cup {NoArg},
   debugBuild : BOOLEAN]

\* test: its options and what exists under the current directory.
TestOpts ==
  [debugBuild : BOOLEAN,
   testCorpus : Entries, corpus : Entries,   \* test/corpus and corpus
   highlight : BOOLEAN, tags : BOOLEAN]      \* test/highlight, test/tags are dirs

\* Loader::new(): the default library path, release builds.
NewLoader == [libPath |-> DefaultLib, debug |-> FALSE]

\* Mutant: "latest" is not special-cased and goes to the number parse.
AbiVersionLatestParsed(arg) ==
  CASE arg = NoArg     -> AbiOk(DEFAULT_GENERATE_ABI_VERSION)
    [] IsUsize(arg)    -> AbiOk(UsizeValue(arg))
    [] OTHER           -> AbiError

\* matches.value_of("abi-version").map_or(..): absent gives the default,
\* "latest" the library's version, anything else str::parse::<usize>.
AbiVersion(arg) ==
  CASE arg = NoArg     -> AbiOk(DEFAULT_GENERATE_ABI_VERSION)
    [] arg = Latest    -> AbiOk(LanguageVersion)
    [] IsUsize(arg)    -> AbiOk(UsizeValue(arg))
    [] OTHER           -> AbiError

\* Mutant: test/corpus is kept when it exists, directory or not.
CorpusDirExists(o) ==
  LET dir == IF o.testCorpus # "absent" THEN "testCorpus" ELSE "corpus"
  IN IF o[dir] = "dir" THEN dir ELSE NoArg

\* The corpus directory: test/corpus, replaced by corpus when test/corpus
\* is not a directory; NoArg when the chosen one is not a directory either.
CorpusDir(o) ==
  LET dir == IF o.testCorpus = "dir" THEN "testCorpus" ELSE "corpus"
  IN IF o[dir] = "dir" THEN dir ELSE NoArg

-----------------------------------------------------------------------------
Init ==
  /\ \/ cmd = "generate" /\ opts \in GenerateOpts /\ phase = "abi"
     \/ cmd = "test" /\ opts \in TestOpts /\ phase = "languages"
  /\ loader = NewLoader
  /\ built = NoArg
  /\ abi = NoArg
  /\ ran = <<>>

\* run has not returned yet.
Running == phase \in {"abi", "generate", "build", "languages", "set_language",
                      "corpus", "queries", "highlight", "tags"}

\* An external step: it is recorded, and its failure ends the arm.
Step(name, ok, next) ==
  /\ ran' = Append(ran, [step |-> name, ok |-> ok])
  /\ phase' = IF ok THEN next ELSE name \o "_error"

\* generate: the --abi value, parsed before the generator runs.
ResolveAbi ==
  /\ phase = "abi"
  /\ abi' = IF AbiVersion(opts.abi).kind = "ok" THEN AbiVersion(opts.abi).version ELSE NoArg
  /\ phase' = IF AbiVersion(opts.abi).kind = "ok" THEN "generate" ELSE "abi_error"
  /\ UNCHANGED <<cmd, opts, loader, built, ran>>

\* generate::generate_parser_in_directory(..)?
GenerateParser ==
  /\ phase = "generate"
  /\ \E ok \in BOOLEAN : Step("generate", ok, IF opts.build THEN "build" ELSE Succeeded)
  /\ UNCHANGED <<cmd, opts, loader, built, abi>>

\* Mutant: --debug-build is applied before the loader for --libdir
\* replaces it, and is lost.
BuildLoaderDebugFirst(l) ==
  LET d == [l EXCEPT !.debug = opts.debugBuild]
  IN IF opts.libdir # NoArg THEN [libPath |-> opts.libdir, debug |-> FALSE] ELSE d

\* Mutant: the library path is taken from --libdir whether or not it is
\* given.
BuildLoaderAnyLibdir(l) == [libPath |-> opts.libdir, debug |-> opts.debugBuild]

\* --build: Loader::with_parser_lib_path(libdir) when --libdir is given,
\* then use_debug_build(debug_build).
BuildLoader(l) ==
  LET r == IF opts.libdir # NoArg THEN [libPath |-> opts.libdir, debug |-> FALSE] ELSE l
  IN [r EXCEPT !.debug = opts.debugBuild]

\* --build: loader.languages_at_path(&current_dir)? compiles the grammar.
Build ==
  /\ phase = "build"
  /\ loader' = BuildLoader(loader)
  /\ built' = loader'
  /\ \E ok \in BOOLEAN : Step("build", ok, Succeeded)
  /\ UNCHANGED <<cmd, opts, abi>>

\* test: loader.use_debug_build(..), then languages_at_path(..)? compiles
\* the grammar, and .first().ok_or("No language found")?.
LoadLanguages ==
  /\ phase = "languages"
  /\ loader' = [loader EXCEPT !.debug = opts.debugBuild]
  /\ built' = loader'
  /\ \/ \E ok \in BOOLEAN : Step("languages", ok, "set_language")
     \/ ran' = Append(ran, [step |-> "languages", ok |-> TRUE]) /\ phase' = "no_language"
  /\ UNCHANGED <<cmd, opts, abi>>

\* parser.set_language(language)?: fails for an incompatible ABI version.
SetLanguage ==
  /\ phase = "set_language"
  /\ \E ok \in BOOLEAN : Step("set_language", ok, "corpus")
  /\ UNCHANGED <<cmd, opts, loader, built, abi>>

\* test::run_tests_at_path(..)? when the corpus directory is a directory,
\* with the --include and --exclude regexes that Regex::new accepted.
CorpusTests ==
  /\ phase = "corpus"
  /\ IF CorpusDir(opts) = NoArg
     THEN phase' = "queries" /\ UNCHANGED ran
     ELSE \E ok \in BOOLEAN : Step(CorpusDir(opts), ok, "queries")
  /\ UNCHANGED <<cmd, opts, loader, built, abi>>

\* test::check_queries_at_path(..)?, whatever exists.
CheckQueries ==
  /\ phase = "queries"
  /\ \E ok \in BOOLEAN : Step("queries", ok, "highlight")
  /\ UNCHANGED <<cmd, opts, loader, built, abi>>

\* test_highlight::test_highlights(..)? when test/highlight is a directory.
HighlightTests ==
  /\ phase = "highlight"
  /\ IF opts.highlight
     THEN \E ok \in BOOLEAN : Step("highlight", ok, "tags")
     ELSE phase' = "tags" /\ UNCHANGED ran
  /\ UNCHANGED <<cmd, opts, loader, built, abi>>

\* test_tags::test_tags(..)? when test/tags is a directory; the arm ends.
TagTests ==
  /\ phase = "tags"
  /\ IF opts.tags
     THEN \E ok \in BOOLEAN : Step("tags", ok, Succeeded)
     ELSE phase' = Succeeded /\ UNCHANGED ran
  /\ UNCHANGED <<cmd, opts, loader, built, abi>>

Exited == ~Running /\ UNCHANGED vars

Next ==
  \/ ResolveAbi \/ GenerateParser \/ Build
  \/ LoadLanguages \/ SetLanguage \/ CorpusTests \/ CheckQueries
  \/ HighlightTests \/ TagTests \/ Exited

Spec == Init /\ [][Next]_vars

-----------------------------------------------------------------------------
(* Properties.                                                              *)

Steps == {"generate", "build", "languages", "set_language", "testCorpus", "corpus",
          "queries", "highlight", "tags"}

TypeOK ==
  /\ cmd \in {"generate", "test"}
  /\ loader \in [libPath : LibDirs \cup {DefaultLib}, debug : BOOLEAN]
  /\ built \in [libPath : LibDirs \cup {DefaultLib}, debug : BOOLEAN] \cup {NoArg}
  /\ ran \in Seq([step : Steps, ok : BOOLEAN])

\* Reference for --abi: the help text's default, "latest" for the newest
\* version, or a decimal numeral up to usize::MAX (usize::from_str also
\* takes a leading '+').
Numerals == {d \in Args(2) : \A n \in 1..Len(d) : d[n] \in DOMAIN DigitValue}
AbiReference(arg) ==
  CASE arg = NoArg                      -> AbiOk(DEFAULT_GENERATE_ABI_VERSION)
    [] arg = Latest                     -> AbiOk(LanguageVersion)
    [] arg \in Numerals /\ DecimalValue(arg) <= MaxUsize -> AbiOk(DecimalValue(arg))
    [] arg \in {<<Plus>> \o d : d \in Numerals} /\ DecimalValue(Tail(arg)) <= MaxUsize
                                        -> AbiOk(DecimalValue(Tail(arg)))
    [] OTHER                            -> AbiError

\* The generator is handed exactly the ABI version the --abi value names,
\* and the arm stops with "invalid abi version flag" only for a value that
\* names none.
AbiMatchesReference ==
  /\ abi # NoArg => AbiReference(opts.abi) = AbiOk(abi)
  /\ phase = "abi_error" => AbiReference(opts.abi) = AbiError

\* Every grammar the invocation compiles is compiled with the debug flag
\* the user gave and into --libdir when generate was given one, whatever
\* the order of the loader calls in the arm.
BuildUsesFlags ==
  built # NoArg =>
    built = [libPath |-> IF cmd = "generate" /\ opts.libdir # NoArg
                         THEN opts.libdir ELSE DefaultLib,
             debug   |-> opts.debugBuild]

\* Reference for the steps of an arm: for test, the corpus tests come from
\* the first of test/corpus and corpus that is a directory.
Optional(step, present) == IF present THEN <<step>> ELSE <<>>
CorpusSteps(o) ==
  LET dirs == SelectSeq(<<"testCorpus", "corpus">>, LAMBDA d : o[d] = "dir")
  IN IF dirs = <<>> THEN <<>> ELSE <<Head(dirs)>>
Expected ==
  IF cmd = "generate" THEN <<"generate">> \o Optional("build", opts.build)
  ELSE <<"languages", "set_language">> \o CorpusSteps(opts) \o <<"queries">>
       \o Optional("highlight", opts.highlight) \o Optional("tags", opts.tags)

\* The arm's `?` chain: its steps run in the code's order, a step runs only
\* after every earlier one succeeded, and run returns Ok only after every
\* step whose directory or flag is present has run.
StepsFollowTheArm ==
  /\ IsPrefix([n \in 1..Len(ran) |-> ran[n].step], Expected)
  /\ \A n \in 1..Len(ran) - 1 : ran[n].ok
  /\ phase = Succeeded => Len(ran) = Len(Expected) /\ \A n \in 1..Len(ran) : ran[n].ok

=============================================================================
