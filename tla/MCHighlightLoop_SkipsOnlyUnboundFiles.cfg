CONSTANTS
  F1 = F1
  F2 = F2
  F3 = F3
  F4 = F4
  F5 = F5
  L1 = L1
  L2 = L2
  L3 = L3
  S1 = S1
  S2 = S2
  NoScope = NoScope
  NoLanguage = NoLanguage
  PathLists <- MCPathLists
  Scopes = {S1, S2}
  HasHighlights = {L1, L3}
  BrokenGrammars = {L3}
  Readable = {F1, F2, F3, F5}
  ScopeLanguage <- MCScopeLanguage
  NameLanguage <- MCNameLanguage
  ContentLanguage <- MCContentLanguage

SPECIFICATION Spec

INVARIANT SkipsOnlyUnboundFiles
