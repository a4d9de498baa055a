SPECIFICATION Spec
CONSTANTS
  PortTexts = {"22"}
  Config <- MCConfig
  AuthTokens <- MCAuthTokens
  Margin = 1
  Lives = {1, 2}
  MaxCalls = 2
  MaxChanges = 2
  MaxTime = 4
INVARIANTS
  TypeOK
  ResultExact
  TokenHonoured
