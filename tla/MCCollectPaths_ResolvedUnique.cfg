CONSTANTS
  Files <- MCFiles
  Inputs <- MCInputs
  PathsFileContents <- MCPathsFileContents
  NoPathsFile = NoPathsFile
  Unreadable = Unreadable

SPECIFICATION Spec

INVARIANT ResolvedUnique
