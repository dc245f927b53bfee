------------------------------ MODULE MCQueryCmd ------------------------------
\* The working directory of MCCollectPaths (a, b, ab, and a file whose name
\* is the pattern a-star) with one specifier from its tokens, or a --paths
\* file that is empty, names a, or has a blank line between a and b.  a is
\* found by name (L1), b only by content (L1), the others have no language;
\* ab is unreadable.  Range options: absent, "1:0", "x" (None) and "1" (no
\* second part).  The tags arm runs over the same directory and inputs:
\* cmd chooses the arm, as the match of run does, and the other arm's
\* variables stay at their initial values.
EXTENDS QueryCmd, TLC

VARIABLES cmd, tk, tagged, faulted, started

T == INSTANCE TagsCmd

tagsOnly  == <<tk, tagged, faulted>>
queryOnly == <<language, queried>>
mcVars == <<vars, cmd, tagsOnly, started>>

MCInit ==
  /\ started = FALSE
  /\ \/ cmd = "query" /\ Init /\ tk = 1 /\ tagged = <<>> /\ faulted = FALSE
     \/ cmd = "tags" /\ T!Init /\ language = NoLanguage /\ queried = <<>>

\* run before its match: env::current_dir().unwrap() panics when the
\* working directory is gone; Config::load()? and Loader::new()? may fail.
Prelude ==
  /\ ~started
  /\ started' = TRUE
  /\ \/ UNCHANGED phase
     \/ phase' \in {UnwrapPanic, "config_error"}
  /\ UNCHANGED <<pathsFile, specs, i, result, status, opts, readerOpen, cmd, tagsOnly, queryOnly>>

MCNext ==
  \/ Prelude
  \/ started /\ cmd = "query" /\ Next /\ UNCHANGED <<cmd, tagsOnly, started>>
  \/ started /\ cmd = "tags" /\ T!Next /\ UNCHANGED <<cmd, queryOnly, started>>

MCSpec == MCInit /\ [][MCNext]_mcVars

\* spec.md 4.1: collect_paths fails with an error if the final resolved
\* set is empty, so an empty resolution never goes on silently.  This is about the paths-file branch of collect_paths, which
\* returns its lines without the emptiness check, and what each arm does
\* with the empty list: query indexes paths[0], tags tags nothing.
Returned == IF cmd = "query" THEN ~Running ELSE ~T!Running
EmptyResolutionIsAnError ==
  (Returned /\ status = "ok" /\ result = <<>>) => ExitStatus(phase) = 1

CONSTANTS L1, S1, S2

A  == <<"a">>
B  == <<"b">>
AB == <<"a", "b">>
AS == <<"a", "*">>

MCFiles == {A, B, AB, AS}

MCInputs ==
  {<<t>> : t \in {A, <<"!", "a">>, B, AS, <<"!", "a", "*">>, <<"*">>, <<"b", "*">>,
                  <<"b", "a">>, <<"a", "*", "*">>}}
MCPathsFileContents == {<<>>, <<A>>, <<A, <<>>, B>>}

\* Every path a run can hold: the files, and the empty line of a paths file.
AllPaths == MCFiles \cup {<<>>}

MCScopeLanguage   == (S1 :> L1) @@ (S2 :> NoLanguage)
MCNameLanguage    == [p \in AllPaths |-> IF p = A THEN L1 ELSE NoLanguage]
MCContentLanguage == [p \in AllPaths |-> IF p = B THEN L1 ELSE NoLanguage]

MCRangeArgs == {<<"1", ":", "0">>, <<"x">>, <<"1">>}
MCReadable  == {A, B, AS}

\* The decimal numerals among the range arguments of up to three characters.
Decimals == {d \in RA!Args(3) : \A n \in 1..Len(d) : d[n] \in DOMAIN RA!DigitValue}

\* The --byte-range and --row-range closures of the query arm read every
\* well-formed <start>:<end> as exactly that range: the split, the order
\* of the parts and the decimal parse all agree with the reference
\* DecimalValue, for every such argument of up to four characters, and a
\* bound beyond usize::MAX gives no range rather than a wrapped one.
RangeMatchesReference ==
  \A d1, d2 \in Decimals :
    Len(d1) + Len(d2) < 4 =>
      RA!ParseRange(d1 \o <<RA!Colon>> \o d2)
        = IF RA!DecimalValue(d1) <= MaxUsize /\ RA!DecimalValue(d2) <= MaxUsize
          THEN RA!SomeRange(RA!DecimalValue(d1), RA!DecimalValue(d2))
          ELSE RA!NoRange
=============================================================================
