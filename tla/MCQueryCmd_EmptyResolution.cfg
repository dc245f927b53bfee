CONSTANTS
  MaxUsize = 10
  L1 = L1
  S1 = S1
  S2 = S2
  NoScope = NoScope
  NoLanguage = NoLanguage
  NoPathsFile = NoPathsFile
  Unreadable = Unreadable
  NoArg = NoArg
  Files <- MCFiles
  Inputs <- MCInputs
  PathsFileContents <- MCPathsFileContents
  Scopes = {S1, S2}
  RangeArgs <- MCRangeArgs
  Readable <- MCReadable
  ScopeLanguage <- MCScopeLanguage
  NameLanguage <- MCNameLanguage
  ContentLanguage <- MCContentLanguage

SPECIFICATION MCSpec

INVARIANT EmptyResolutionIsAnError
