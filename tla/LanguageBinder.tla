--------------------------- MODULE LanguageBinder ---------------------------
(***************************************************************************)
(* Loader::select_language, called by the parse and query subcommands.    *)
(* The loader is a crate of this repository outside src/; this follows    *)
(* spec.md 4.2: an explicit scope decides alone, otherwise the file name, *)
(* otherwise the file's content.  The grammar registry is given by three  *)
(* tables from the configuration.                                         *)
(***************************************************************************)
CONSTANTS
  ScopeLanguage,    \* [scope -> language or NoLanguage]
  NameLanguage,     \* [path -> language or NoLanguage], by file name
  ContentLanguage,  \* [path -> language or NoLanguage], by content sniffing
  NoScope,          \* --scope not given
  NoLanguage

SelectLanguage(path, scope) ==
  IF scope # NoScope THEN ScopeLanguage[scope]
  ELSE IF NameLanguage[path] # NoLanguage THEN NameLanguage[path]
  ELSE ContentLanguage[path]

=============================================================================
