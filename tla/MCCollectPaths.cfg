CONSTANTS
  Files <- MCFiles
  Inputs <- MCInputs
  PathsFileContents <- MCPathsFileContents
  NoPathsFile = NoPathsFile
  Unreadable = Unreadable

SPECIFICATION Spec

INVARIANT TypeOK
INVARIANT LastSpecifierWins
INVARIANT Idempotent
