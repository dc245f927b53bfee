---------------------------- MODULE MCParseLoop ----------------------------
(***************************************************************************)
(* Four files: F1 named for language L1, F2 found by content and with     *)
(* error nodes, F3 of language L2 that the parser rejects (an ABI         *)
(* mismatch), F4 with no language; F1 and F2 are readable.  Lists of up   *)
(* to three paths over F1, F2 and one of the faulty files; scope S1 names *)
(* L1, scope S2 nothing.                                                  *)
(***************************************************************************)
EXTENDS ParseLoop, TLC

CONSTANTS F1, F2, F3, F4, L1, L2, S1, S2

MCPathLists == (SeqOf({F1, F2, F3}, 3) \cup SeqOf({F1, F2, F4}, 2)) \ {<<>>}

MCScopeLanguage   == (S1 :> L1) @@ (S2 :> NoLanguage)
MCNameLanguage    == (F1 :> L1) @@ (F2 :> NoLanguage) @@ (F3 :> L2) @@ (F4 :> NoLanguage)
MCContentLanguage == (F1 :> NoLanguage) @@ (F2 :> L1) @@ (F3 :> NoLanguage) @@ (F4 :> NoLanguage)
MCSize            == (F1 :> 1) @@ (F2 :> 2) @@ (F3 :> 1) @@ (F4 :> 1)
=============================================================================
