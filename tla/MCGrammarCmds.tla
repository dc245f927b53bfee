---------------------------- MODULE MCGrammarCmds ----------------------------
\* generate with every --abi value of up to two characters over RangeArg's
\* alphabet (digits 0 and 1, '+', ':' and "x"), "latest", or none; one
\* --libdir or none.  test over every layout of test/corpus, corpus,
\* test/highlight and test/tags.
EXTENDS GrammarCmds

CONSTANTS Lib1

MCAbiArgs == Args(2) \cup {Latest}
MCLibDirs == {Lib1}
=============================================================================
