CONSTANTS
  MaxUsize = 10
  Lib1 = Lib1
  DefaultLib = DefaultLib
  NoArg = NoArg
  LanguageVersion = 15
  AbiArgs <- MCAbiArgs
  LibDirs <- MCLibDirs

SPECIFICATION Spec

INVARIANT TypeOK
INVARIANT AbiMatchesReference
INVARIANT BuildUsesFlags
INVARIANT StepsFollowTheArm
