SPECIFICATION Spec
CONSTANTS
  Unset = Unset
  NoAuth = NoAuth
  Nothing = Nothing
  Bit <- MCBit
  Environment <- MCEnvironment
  DotEnv <- MCDotEnv
  Authorization <- MCAuthorization
INVARIANTS
  TypeOK
  AcceptsExactly
  ComparesEveryByte
  NoServiceWithoutToken
