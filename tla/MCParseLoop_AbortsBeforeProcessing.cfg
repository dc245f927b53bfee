CONSTANTS
  F1 = F1
  F2 = F2
  F3 = F3
  F4 = F4
  L1 = L1
  L2 = L2
  S1 = S1
  S2 = S2
  NoScope = NoScope
  NoLanguage = NoLanguage
  NoDuration = NoDuration
  PathLists <- MCPathLists
  Scopes = {S1, S2}
  Compatible = {L1}
  Readable = {F1, F2}
  HasErrors = {F2}
  Size <- MCSize
  Durations = {1}
  Timeouts = {0, 1}
  ScopeLanguage <- MCScopeLanguage
  NameLanguage <- MCNameLanguage
  ContentLanguage <- MCContentLanguage

SPECIFICATION Spec

INVARIANT AbortsBeforeProcessing
