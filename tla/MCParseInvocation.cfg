CONSTANTS
  L1 = L1
  L2 = L2
  S1 = S1
  S2 = S2
  NoScope = NoScope
  NoLanguage = NoLanguage
  NoDuration = NoDuration
  NoPathsFile = NoPathsFile
  Unreadable = Unreadable
  NotANumber = NotANumber
  Files <- MCFiles
  Inputs <- MCInputs
  PathsFileContents <- MCPathsFileContents
  Scopes = {S1, S2}
  Compatible = {L1}
  Readable <- MCReadable
  HasErrors <- MCHasErrors
  Size <- MCSize
  Durations = {1}
  Timeouts = {0, 1}
  ScopeLanguage <- MCScopeLanguage
  NameLanguage <- MCNameLanguage
  ContentLanguage <- MCContentLanguage

SPECIFICATION Spec

INVARIANT TypeOK
PROPERTY ImplementsBatchRun
