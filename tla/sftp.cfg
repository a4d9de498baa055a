SPECIFICATION FairSpec
CONSTANTS
  PortTexts = {"22"}
  KeyTexts = {"pem"}
  DialTimeout = 2
  Configs <- MCConfigs
  MaxTime = 6
INVARIANTS
  TypeOK
  AnswerTruthful
  NothingLeaks
PROPERTY HandlerReturns
