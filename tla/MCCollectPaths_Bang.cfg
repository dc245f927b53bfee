CONSTANTS
  Files <- MCFilesBang
  Inputs <- MCInputs
  PathsFileContents <- MCPathsFileContents
  NoPathsFile = NoPathsFile
  Unreadable = Unreadable

SPECIFICATION Spec

INVARIANT Idempotent
