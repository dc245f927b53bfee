-------------------------- MODULE MCHighlightLoop --------------------------
(***************************************************************************)
(* Five files: F1 named for L1, which has highlights; F2 recognised only  *)
(* by its content (L1); F3 named for L2, which has no highlight           *)
(* configuration; F4 with no language and unreadable; F5 named for L3,    *)
(* whose highlight query fails to load.  Scope S1 names L1 (so F4 becomes *)
(* covered and its read fails), scope S2 nothing.  Lists of up to two     *)
(* paths over all files and up to three over F1, F2 and F4.               *)
(***************************************************************************)
EXTENDS HighlightLoop, TLC

CONSTANTS F1, F2, F3, F4, F5, L1, L2, L3, S1, S2

MCPathLists == (SeqOf({F1, F2, F3, F4, F5}, 2) \cup SeqOf({F1, F2, F4}, 3)) \ {<<>>}

MCScopeLanguage   == (S1 :> L1) @@ (S2 :> NoLanguage)
MCNameLanguage    ==
  (F1 :> L1) @@ (F2 :> NoLanguage) @@ (F3 :> L2) @@ (F4 :> NoLanguage) @@ (F5 :> L3)
MCContentLanguage ==
  (F1 :> NoLanguage) @@ (F2 :> L1) @@ (F3 :> NoLanguage) @@ (F4 :> NoLanguage) @@ (F5 :> NoLanguage)
=============================================================================
